----------------------------- MODULE MCAckRetry -----------------------------
(* Three messages, chunked or single, compete for one retry slot.  Each of    *)
(* the four limits refuses a batch on its own: the table a third message,     *)
(* the recipient a second, the bytes of all two of size 2, the bytes of one    *)
(* recipient one of size 3.                                                *)
EXTENDS AckRetry

MCBatch == {[frames |-> 2, bytes |-> 1], [frames |-> 1, bytes |-> 2],
            [frames |-> 1, bytes |-> 3]}
=============================================================================
