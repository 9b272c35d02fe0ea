----------------------------- MODULE PendingAck -----------------------------
(***************************************************************************)
(* The pending-ACK tracker of acknowledged delivery                        *)
(* (crates/veil-pending-ack/src/lib.rs).  Every message sent with          *)
(* require_ack is retained here until a DELIVERED clears it or its         *)
(* attempts run out.  The tracker keeps, next to the entries, running      *)
(* totals by destination; the totals gate admission, so one that drifts    *)
(* from the entries refuses messages for ever or admits without bound.     *)
(*                                                                         *)
(* Every operation runs under the tracker's mutex and is one action.  A    *)
(* deadline is the number of clock units left until it passes.             *)
(***************************************************************************)
EXTENDS Integers, FiniteSets

CONSTANTS
    ContentId,        \* message ids ([u8; 32])
    Peer,             \* node ids: next hops and final recipients
    Batch,            \* frame batches offered: [frames, bytes] records
    MaxEntries,       \* MAX_PENDING_ACK_ENTRIES
    MaxPerPeer,       \* MAX_PENDING_ACK_PER_PEER
    MaxBytes,         \* MAX_PENDING_ACK_BYTES
    MaxBytesPerPeer,  \* MAX_PENDING_ACK_BYTES_PER_PEER
    MaxAttempts,      \* MAX_DELIVERY_ATTEMPTS
    AckTimeout        \* DELIVERY_ACK_TIMEOUT_MS, in clock units

ASSUME BatchAssumption == Batch \subseteq [frames : Nat \ {0}, bytes : Nat]
ASSUME LimitAssumption ==
    /\ MaxEntries \in Nat /\ MaxPerPeer \in Nat
    /\ MaxBytes \in Nat /\ MaxBytesPerPeer \in Nat
    /\ MaxAttempts \in Nat \ {0} /\ AckTimeout \in Nat \ {0}

VARIABLES
    pending,          \* content id -> entry
    per_peer,         \* entries by final recipient; absent key = 0
    total_bytes,      \* bytes retained over all entries
    per_peer_bytes    \* bytes retained by final recipient; absent key = 0

trackerVars == <<pending, per_peer, total_bytes, per_peer_bytes>>

PendingEntry ==
    [frames : Nat \ {0}, bytes : Nat, next_hop : Peer, dst_node_id : Peer,
     attempts : 1..MaxAttempts, left : 0..AckTimeout]

\* usize::saturating_sub, u32::saturating_sub
SaturatingSub(a, b) == IF a >= b THEN a - b ELSE 0

\* The entries of S bound for p.
BoundFor(S, p) == {c \in S : pending[c].dst_node_id = p}

\* The bytes the entries S of table retain, each byte a pair, and the number of
\* those retained now: a sum written as a cardinality, so without recursion.
RetainedBytes(table, S) == UNION {{c} \X (1..table[c].bytes) : c \in S}
ByteCount(S) == Cardinality(RetainedBytes(pending, S))

-----------------------------------------------------------------------------
TrackerInit ==
    /\ pending = [c \in {} |-> 0]
    /\ per_peer = [p \in Peer |-> 0]
    /\ total_bytes = 0
    /\ per_peer_bytes = [p \in Peer |-> 0]

\* What the entry c, if there is one, holds: its recipients (none or one), its
\* bytes, and what recipient p holds once c is gone.
ExistingDst(c) == IF c \in DOMAIN pending THEN {pending[c].dst_node_id} ELSE {}
ExistingBytes(c) == IF c \in DOMAIN pending THEN pending[c].bytes ELSE 0
PeerBytesWithout(c, p) ==
    IF p \in ExistingDst(c) THEN SaturatingSub(per_peer_bytes[p], ExistingBytes(c))
                            ELSE per_peer_bytes[p]
TotalBytesWithout(c) == SaturatingSub(total_bytes, ExistingBytes(c))

\* Mutant: the per-recipient limit is off by one.
AdmitsOneMore(c, dst, batch) ==
    /\ c \in DOMAIN pending \/ Cardinality(DOMAIN pending) < MaxEntries
    /\ dst \in ExistingDst(c) \/ per_peer[dst] <= MaxPerPeer
    /\ TotalBytesWithout(c) + batch.bytes <= MaxBytes
    /\ PeerBytesWithout(c, dst) + batch.bytes <= MaxBytesPerPeer

\* The admission checks: the table and per-recipient limits bind only when the
\* registration grows them, the byte limits count the entry it replaces out.
Admits(c, dst, batch) ==
    /\ c \in DOMAIN pending \/ Cardinality(DOMAIN pending) < MaxEntries
    /\ dst \in ExistingDst(c) \/ per_peer[dst] < MaxPerPeer
    /\ TotalBytesWithout(c) + batch.bytes <= MaxBytes
    /\ PeerBytesWithout(c, dst) + batch.bytes <= MaxBytesPerPeer

\* register, register_batch and the register_frames behind both, when they
\* answer true.  A refused registration (false) changes nothing.
RegisterFrames(c, hop, dst, batch) ==
    /\ Admits(c, dst, batch)
    /\ pending' = [x \in DOMAIN pending \cup {c} |->
                     IF x = c
                     THEN [frames |-> batch.frames, bytes |-> batch.bytes,
                           next_hop |-> hop, dst_node_id |-> dst,
                           attempts |-> 1, left |-> AckTimeout]
                     ELSE pending[x]]
    /\ total_bytes' = TotalBytesWithout(c) + batch.bytes
    /\ per_peer_bytes' = [p \in Peer |->
          PeerBytesWithout(c, p) + (IF p = dst THEN batch.bytes ELSE 0)]
    /\ per_peer' = [p \in Peer |->
          CASE dst \in ExistingDst(c) -> per_peer[p]
            [] dst \notin ExistingDst(c) /\ p = dst -> per_peer[p] + 1
            [] dst \notin ExistingDst(c) /\ p \in ExistingDst(c) ->
                  SaturatingSub(per_peer[p], 1)
            [] OTHER -> per_peer[p]]

\* Mutant: failures of one tick leave the per-recipient count as it was.
ReleaseKeepsCount(S) ==
    /\ total_bytes' = SaturatingSub(total_bytes, ByteCount(S))
    /\ per_peer' = per_peer
    /\ per_peer_bytes' = [p \in Peer |->
                      SaturatingSub(per_peer_bytes[p], ByteCount(BoundFor(S, p)))]

\* Drop the entries S and give back what they held: decrement_peer,
\* decrement_peer_bytes and the saturating total_bytes update.
Release(S) ==
    /\ total_bytes' = SaturatingSub(total_bytes, ByteCount(S))
    /\ per_peer' = [p \in Peer |->
                      SaturatingSub(per_peer[p], Cardinality(BoundFor(S, p)))]
    /\ per_peer_bytes' = [p \in Peer |->
                      SaturatingSub(per_peer_bytes[p], ByteCount(BoundFor(S, p)))]

\* ack and ack_and_get_info: the caller that finds the entry removes it.
Ack(c) ==
    /\ c \in DOMAIN pending
    /\ pending' = [x \in DOMAIN pending \ {c} |-> pending[x]]
    /\ Release({c})

\* retry_is_current
RetryIsCurrent(c, attempt) ==
    c \in DOMAIN pending /\ pending[c].attempts = attempt

\* Mutant: a tick acts on a batch whose admission is still running.
DueOwnedToo(inFlight) == {c \in DOMAIN pending : pending[c].left = 0}

\* The entries a tick may act on: deadline passed, not owned by an admission.
Due(inFlight) == {c \in DOMAIN pending \ inFlight : pending[c].left = 0}

\* Of the due entries, the ones reported Failed,
Exhausted(inFlight) == {c \in Due(inFlight) : pending[c].attempts >= MaxAttempts}
\* ... and the ones with attempts left; a batch of several frames needs a slot.
Retryable(inFlight) == Due(inFlight) \ Exhausted(inFlight)
Batched(S) == {c \in S : pending[c].frames > 1}

\* The possible answers of a tick: which entries are reported Retransmit.  The
\* slots go to batches in HashMap order, which is any order.
Retransmits(inFlight, slots) ==
    {R \in SUBSET Retryable(inFlight) :
        /\ Retryable(inFlight) \ Batched(Retryable(inFlight)) \subseteq R
        /\ Cardinality(Batched(R)) <= slots
        /\ Batched(R) # Batched(Retryable(inFlight)) => Cardinality(Batched(R)) = slots}

\* Mutant: a failed entry is reported and its counters released, but retained.
TickRetainsFailed(inFlight, R) ==
    /\ pending' = [x \in DOMAIN pending |->
                     IF x \in R THEN [pending[x] EXCEPT !.attempts = @ + 1,
                                                       !.left = AckTimeout]
                               ELSE pending[x]]
    /\ Release(Exhausted(inFlight))

\* tick_with_batch_admission, reporting Retransmit for R and Failed for
\* Exhausted(inFlight).
TickWithBatchAdmission(inFlight, R) ==
    LET failed == Exhausted(inFlight)
    IN  /\ pending' = [x \in DOMAIN pending \ failed |->
                         IF x \in R
                         THEN [pending[x] EXCEPT !.attempts = @ + 1,
                                                 !.left = AckTimeout]
                         ELSE pending[x]]
        /\ Release(failed)

\* Mutant: an attempt that no hop accepted is not counted.
FinishRetryAdmissionRefunds(c, attempt, hops) ==
    /\ pending' = IF RetryIsCurrent(c, attempt)
                  THEN [pending EXCEPT ![c].left = AckTimeout,
                                       ![c].attempts = IF hops = {} THEN @ - 1 ELSE @]
                  ELSE pending
    /\ UNCHANGED <<per_peer, total_bytes, per_peer_bytes>>

\* finish_retry_admission; hops is {hop} when a hop accepted the batch.
FinishRetryAdmission(c, attempt, hops) ==
    /\ IF RetryIsCurrent(c, attempt)
       THEN \E hop \in (IF hops = {} THEN {pending[c].next_hop} ELSE hops) :
              pending' = [pending EXCEPT ![c].next_hop = hop,
                                         ![c].left = AckTimeout]
       ELSE pending' = pending
    /\ UNCHANGED <<per_peer, total_bytes, per_peer_bytes>>

\* update_next_hop
UpdateNextHop(c, hop) ==
    /\ pending' = IF c \in DOMAIN pending
                  THEN [pending EXCEPT ![c].next_hop = hop] ELSE pending
    /\ UNCHANGED <<per_peer, total_bytes, per_peer_bytes>>

\* One clock unit passes (Instant::now moves on).
ClockStep ==
    /\ \E c \in DOMAIN pending : pending[c].left > 0
    /\ pending' = [c \in DOMAIN pending |->
                     [pending[c] EXCEPT !.left = SaturatingSub(@, 1)]]
    /\ UNCHANGED <<per_peer, total_bytes, per_peer_bytes>>

-----------------------------------------------------------------------------
(* The tracker under any callers.                                          *)

TrackerNext ==
    \/ \E c \in ContentId, hop, dst \in Peer, batch \in Batch :
          RegisterFrames(c, hop, dst, batch)
    \/ \E c \in ContentId : Ack(c)
    \/ \E inFlight \in SUBSET ContentId, slots \in 0..Cardinality(DOMAIN pending) :
          \E R \in Retransmits(inFlight, slots) : TickWithBatchAdmission(inFlight, R)
    \/ \E c \in ContentId, attempt \in 1..MaxAttempts, hops \in SUBSET Peer :
          Cardinality(hops) <= 1 /\ FinishRetryAdmission(c, attempt, hops)
    \/ \E c \in ContentId, hop \in Peer : UpdateNextHop(c, hop)
    \/ ClockStep

TrackerSpec == TrackerInit /\ [][TrackerNext]_trackerVars

-----------------------------------------------------------------------------
(* Types: entries stay well formed, attempts inside 1..MaxAttempts, and the *)
(* counters are naturals.                                                  *)
TrackerTypeOK ==
    /\ \E S \in SUBSET ContentId : pending \in [S -> PendingEntry]
    /\ per_peer \in [Peer -> Nat]
    /\ total_bytes \in Nat
    /\ per_peer_bytes \in [Peer -> Nat]

(* The running totals are exactly the sums over the entries, through every *)
(* rebinding of an id to another recipient, every ack and every batch of   *)
(* failures in one tick (the saturating subtractions of decrement_peer and *)
(* decrement_peer_bytes would hide a drift for ever).                      *)
CountersExact ==
    /\ total_bytes = ByteCount(DOMAIN pending)
    /\ \A p \in Peer :
          /\ per_peer[p] = Cardinality(BoundFor(DOMAIN pending, p))
          /\ per_peer_bytes[p] = ByteCount(BoundFor(DOMAIN pending, p))

(* What the admission checks of register_frames are for: no sequence of     *)
(* registrations, replacements and completions gets the tracker past any of *)
(* its four limits.                                                        *)
CapsHold ==
    /\ Cardinality(DOMAIN pending) <= MaxEntries
    /\ ByteCount(DOMAIN pending) <= MaxBytes
    /\ \A p \in Peer :
          /\ Cardinality(BoundFor(DOMAIN pending, p)) <= MaxPerPeer
          /\ ByteCount(BoundFor(DOMAIN pending, p)) <= MaxBytesPerPeer
=============================================================================
