--------------------------- MODULE RatchetSession ---------------------------
(***************************************************************************)
(* One end of a ratcheted session (crates/veil-ratchet/src/ratchet.rs and    *)
(* session.rs) as a value, and what a frame does to it.  Keys are abstracted *)
(* to who can derive them.  A sending chain is known by the number of the    *)
(* frame that first used it; it is made in answer to a chain of the peer     *)
(* (base), and a frame of a chain not met before yields its key only to the  *)
(* end whose sending chain it answers.  The first chain of a root answers    *)
(* the published key of the responder: its base is 0.                       *)
(*                                                                         *)
(* The first chain is a hash chain, whose keys are banked one by one within  *)
(* MAX_SKIP.  Every later chain is a tree, since each message says that its   *)
(* sender can open one; the bounds on tree nodes are out of reach.          *)
(***************************************************************************)
EXTENDS Integers, FiniteSets

CONSTANTS MaxSkip,       \* MAX_SKIP
          MaxSkipTotal   \* MAX_SKIP_TOTAL

ASSUME SkipAssumption == MaxSkip \in Nat /\ MaxSkipTotal \in Nat /\ MaxSkip <= MaxSkipTotal

\* A session: the chain it sends on (0: not used yet), the chain that one
\* answers, and what it has received; skipped holds <<chain, n>> of banked keys.
Session == [root : Nat, send : Nat, base : Nat, ns : Nat, pn : Nat,
            recv : Nat, nr : Nat, skipped : SUBSET (Nat \X Nat)]
Frame == [chain : Nat, base : Nat, n : Nat, pn : Nat]

\* RatchetSession::initiator: a first chain, named by the frame that opens it.
Initiator(id) == [root |-> id, send |-> id, base |-> 0, ns |-> 0, pn |-> 0,
                  recv |-> 0, nr |-> 0, skipped |-> {}]

\* send_step: the frame with number id, and the session after it.
SendChain(s, id) == IF s.send = 0 THEN id ELSE s.send
SendFrame(s, id) == [chain |-> SendChain(s, id), base |-> s.base, n |-> s.ns, pn |-> s.pn]
Sent(s, id) == [s EXCEPT !.send = SendChain(s, id), !.ns = @ + 1]

Linear(s, chain) == chain = s.root
Banks(chain, from, until) == {chain} \X (from..(until - 1))

\* skip_message_keys refuses to bank more than MAX_SKIP keys of a hash chain at
\* once, or to hold more than MAX_SKIP_TOTAL.
HashBank(s) == {k \in s.skipped : Linear(s, k[1])}
SkipFits(s, chain, from, until) ==
    Linear(s, chain) /\ until > from =>
       /\ until - from <= MaxSkip
       /\ Cardinality(HashBank(s)) + until - from <= MaxSkipTotal

Banked(s, f) == <<f.chain, f.n>> \in s.skipped
OnChain(s, f) == f.chain = s.recv /\ f.n >= s.nr /\ SkipFits(s, f.chain, s.nr, f.n)
Answers(s, f) == f.chain # s.recv /\ f.base # 0 /\ f.base = s.send
TurnsEpoch(s, f) == Answers(s, f) /\ SkipFits(s, s.recv, s.nr, f.pn)

\* recv_step finds the right key, so that the tag verifies.
Opens(s, f) == Banked(s, f) \/ OnChain(s, f) \/ TurnsEpoch(s, f)

\* Mutant: the sending chain answers the peer's last chain but one.
ReceivedKeepsBase(s, f) ==
    IF Banked(s, f) THEN [s EXCEPT !.skipped = @ \ {<<f.chain, f.n>>}]
    ELSE IF OnChain(s, f)
    THEN [s EXCEPT !.skipped = @ \cup Banks(f.chain, s.nr, f.n), !.nr = f.n + 1]
    ELSE [s EXCEPT !.skipped = @ \cup Banks(s.recv, s.nr, f.pn) \cup Banks(f.chain, 0, f.n),
                   !.recv = f.chain, !.nr = f.n + 1,
                   !.pn = s.ns, !.ns = 0, !.send = 0, !.base = s.recv]

\* The session after frame f has opened; asymmetric_step starts a sending chain.
Received(s, f) ==
    IF Banked(s, f) THEN [s EXCEPT !.skipped = @ \ {<<f.chain, f.n>>}]
    ELSE IF OnChain(s, f)
    THEN [s EXCEPT !.skipped = @ \cup Banks(f.chain, s.nr, f.n), !.nr = f.n + 1]
    ELSE [s EXCEPT !.skipped = @ \cup Banks(s.recv, s.nr, f.pn) \cup Banks(f.chain, 0, f.n),
                   !.recv = f.chain, !.nr = f.n + 1,
                   !.pn = s.ns, !.ns = 0, !.send = 0, !.base = f.chain]

\* MessageKeyUnavailable: the key of f is known to be spent.  Of a chain that is
\* over this is only known of a tree, and only while it has gaps.
Unavailable(s, f) ==
    /\ ~Opens(s, f)
    /\ \/ f.chain = s.recv /\ f.n < s.nr
       \/ /\ f.chain # s.recv /\ ~Linear(s, f.chain)
          /\ \E k \in s.skipped : k[1] = f.chain

\* pqxdh::accept: the responder's session from a prologue, its frame opened.
AcceptFits(f) == f.n <= MaxSkip
Responder(f) == [root |-> f.chain, send |-> 0, base |-> f.chain, ns |-> 0, pn |-> 0,
                 recv |-> f.chain, nr |-> f.n + 1, skipped |-> Banks(f.chain, 0, f.n)]
=============================================================================
