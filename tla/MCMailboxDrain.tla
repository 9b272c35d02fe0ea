--------------------------- MODULE MCMailboxDrain ---------------------------
(* An identity (box 1) with a device (box 2), and another receiver (box 0)     *)
(* whose mail competes for the store.  Sender 9 is a named one.  Content 1    *)
(* cannot be used; content 3 does not fit a reply, and a second, smaller      *)
(* copy of it is in the device's box.  With one byte of overhead for each     *)
(* blob, every quota refuses a deposit the three others would admit.         *)
EXTENDS MailboxDrain

Mail(r, c, s, token, len) ==
    [receiver |-> r, content_id |-> c, sender |-> s, token |-> token, len |-> len]

MCLegacy == {Mail(1, 1, 9, "valid", 1), Mail(0, 4, 0, "none", 3)}
MCDeposit == {Mail(1, 2, 9, "none", 1), Mail(1, 4, 0, "none", 1),
              Mail(1, 3, 9, "valid", 3), Mail(2, 3, 9, "valid", 2), Mail(2, 4, 9, "invalid", 1)}
=============================================================================
