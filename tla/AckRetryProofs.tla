--------------------------- MODULE AckRetryProofs ---------------------------
(***************************************************************************)
(* The retry task uses the tracker as the tracker's specification allows,  *)
(* every tracked message ends exactly one way, and a chunk-retry future    *)
(* owns its message's attempt, for every set of ids, peers and batches and *)
(* every limit.                                                            *)
(***************************************************************************)
EXTENDS AckRetry, PendingAckProofs

Outcome ==
    [content_id : ContentId, kind : {"retransmit", "failed"},
     attempt : 1..MaxAttempts, entry : PendingEntry]
Retry ==
    [content_id : ContentId, attempt : 1..MaxAttempts, hop : Peer,
     alt : SUBSET Peer, frames : Nat \ {0}, admitted : Nat]

\* The answers of the last tick that will become chunk-retry futures.
BatchOutcomes == {o \in outcomes : o.kind = "retransmit" /\ o.entry.frames > 1}

(* Types of the task's state, the records of the answers and futures in full. *)
TaskTypes ==
    /\ used \subseteq ContentId /\ untracked \subseteq used /\ acked \subseteq used
    /\ in_flight \subseteq used
    /\ failed \in [ContentId -> Nat]
    /\ outcomes \subseteq Outcome /\ retries \subseteq Retry
    /\ \A o \in outcomes : o.content_id \in used
    /\ \A r \in retries : r.content_id \in used /\ r.admitted < r.frames

(* Where a message is: nowhere before it is tracked, then in exactly one    *)
(* place.                                                                  *)
Endings ==
    \A c \in ContentId :
       /\ failed[c] \in {0, 1}
       /\ c \in DOMAIN pending =>
            c \in used \ untracked /\ c \notin acked /\ c \notin Reporting /\ failed[c] = 0
       /\ c \in acked => c \in used \ untracked /\ c \notin Reporting /\ failed[c] = 0
       /\ c \in Reporting => c \in used \ untracked /\ failed[c] = 0
       /\ failed[c] = 1 => c \in used \ untracked
       /\ c \in used \ untracked =>
            c \in DOMAIN pending \/ c \in acked \/ c \in Reporting \/ failed[c] = 1

(* Who owns a message's attempt: one answer or one future per message, never *)
(* both, and the attempt it carries is the tracker's as long as the tracker  *)
(* has the message; the tracker loses it only to an ACK.                   *)
Ownership ==
    /\ in_flight = {r.content_id : r \in retries}
    /\ \A r, s \in retries : r.content_id = s.content_id => r = s
    /\ \A o, q \in outcomes : o.content_id = q.content_id => o = q
    /\ \A o \in outcomes : o.content_id \notin in_flight
    /\ \A r \in retries :
          /\ r.content_id \in DOMAIN pending \cup acked
          /\ r.content_id \in DOMAIN pending => pending[r.content_id].attempts = r.attempt
    /\ \A o \in outcomes : o.kind = "retransmit" =>
          /\ o.content_id \in DOMAIN pending \cup acked
          /\ o.content_id \in DOMAIN pending => pending[o.content_id].attempts = o.attempt

(* The futures and the answers about to become one share MAX_CHUNK_RETRIES. *)
Slots ==
    /\ IsFiniteSet(retries) /\ IsFiniteSet(BatchOutcomes)
    /\ Cardinality(retries) + Cardinality(BatchOutcomes) <= MaxChunkRetries

RetryInv == TrackerInv /\ TaskTypes /\ Endings /\ Ownership /\ Slots

-----------------------------------------------------------------------------
(* What the invariant says of one pending entry.                           *)
LEMMA PendingTypes ==
    ASSUME RetryInv
    PROVE  /\ DOMAIN pending \in SUBSET ContentId
           /\ \A x \in DOMAIN pending : pending[x] \in PendingEntry
           /\ pending \in [DOMAIN pending -> PendingEntry]
           /\ IsFiniteSet(DOMAIN pending)
BY DEF RetryInv, TrackerInv, TrackerTypeOK

(* A poll of a future either moves it on, on the same attempt, or ends it.  *)
LEMMA PollCases ==
    ASSUME NEW r \in retries, retries \subseteq Retry, r.admitted < r.frames,
           AdmitFrame(r) \/ HopClosed(r) \/ GiveUp(r)
    PROVE  /\ AtSelect
           /\ \/ \E s \in Retry :
                   /\ s.content_id = r.content_id /\ s.attempt = r.attempt
                   /\ s.frames = r.frames /\ s.admitted < s.frames
                   /\ retries' = (retries \ {r}) \cup {s}
                   /\ UNCHANGED <<trackerVars, used, untracked, acked, failed, outcomes, in_flight>>
              \/ \E hops \in {{}, {r.hop}} : EndRetry(r, hops)
<1>0. r \in Retry
  OBVIOUS
<1>1. CASE AdmitFrame(r)
  <2>1. CASE r.admitted + 1 < r.frames
    <3> DEFINE s == [r EXCEPT !.admitted = @ + 1]
    <3>1. s \in Retry /\ s.content_id = r.content_id /\ s.attempt = r.attempt
          /\ s.frames = r.frames /\ s.admitted < s.frames
      BY <1>0, <2>1 DEF Retry
    <3> QED
      BY <1>1, <2>1, <3>1 DEF AdmitFrame
  <2>2. CASE ~(r.admitted + 1 < r.frames)
    BY <1>1, <2>2 DEF AdmitFrame
  <2> QED
    BY <2>1, <2>2
<1>2. CASE HopClosed(r)
  <2>1. ASSUME NEW hop \in r.alt,
               retries' = (retries \ {r}) \cup {[r EXCEPT !.hop = hop, !.alt = {}, !.admitted = 0]},
               UNCHANGED <<trackerVars, used, untracked, acked, failed, outcomes, in_flight>>
        PROVE  \E s \in Retry :
                 /\ s.content_id = r.content_id /\ s.attempt = r.attempt
                 /\ s.frames = r.frames /\ s.admitted < s.frames
                 /\ retries' = (retries \ {r}) \cup {s}
    <3> DEFINE s == [r EXCEPT !.hop = hop, !.alt = {}, !.admitted = 0]
    <3>1. s \in Retry /\ s.content_id = r.content_id /\ s.attempt = r.attempt
          /\ s.frames = r.frames /\ s.admitted < s.frames
      <4>1. /\ hop \in Peer /\ r.frames \in Nat /\ 0 < r.frames
            /\ {} \in SUBSET Peer /\ 0 \in Nat
        BY <1>0 DEF Retry
      <4> QED
        BY ONLY <1>0, <4>1 DEF Retry
    <3> QED
      BY <2>1, <3>1
  <2> QED
    BY <1>2, <2>1 DEF HopClosed
<1>3. CASE GiveUp(r)
  BY <1>3 DEF GiveUp
<1> QED
  BY <1>1, <1>2, <1>3

(* A tick of the task is a tick of the tracker: slots beyond the number of   *)
(* entries change nothing.                                                 *)
LEMMA TickIsTrackerStep ==
    ASSUME RetryInv, NEW R \in Retransmits(in_flight, FreeSlots),
           TickWithBatchAdmission(in_flight, R)
    PROVE  TrackerNext
<1> DEFINE D == DOMAIN pending
           N == Cardinality(D)
<1>1. IsFiniteSet(D) /\ N \in Nat /\ in_flight \in SUBSET ContentId
  BY PendingTypes, FS_CardinalityType DEF RetryInv, TaskTypes
<1>2. FreeSlots \in Nat
  <2>1. Cardinality(retries) \in Nat
    BY FS_CardinalityType DEF RetryInv, Slots
  <2> QED
    BY <2>1, RetryAssumption DEF FreeSlots, SaturatingSub
<1>3. R \subseteq Retryable(in_flight) /\ Retryable(in_flight) \subseteq D
  BY DEF Retransmits, Retryable, Due
<1>4. Cardinality(Batched(R)) \in Nat /\ Cardinality(Batched(R)) <= N
  <2>1. Batched(R) \subseteq D
    BY <1>3 DEF Batched
  <2> QED
    BY <2>1, <1>1, FS_Subset, FS_CardinalityType
<1>5. PICK slots \in 0..N : R \in Retransmits(in_flight, slots)
  <2>1. CASE FreeSlots <= N
    BY <1>1, <1>2, <2>1
  <2>2. CASE FreeSlots > N
    <3>1. Batched(R) = Batched(Retryable(in_flight))
      BY <1>1, <1>2, <1>4, <2>2 DEF Retransmits
    <3>2. R \in Retransmits(in_flight, N)
      BY <1>3, <1>4, <3>1 DEF Retransmits
    <3> QED
      BY <1>1, <3>2
  <2> QED
    BY <1>1, <1>2, <2>1, <2>2
<1> QED
  BY <1>1, <1>5 DEF TrackerNext

(* Every step of the task and of its callers is a step of the tracker.     *)
LEMMA TaskStepIsTrackerStep ==
    ASSUME RetryInv, [Next]_vars
    PROVE  [TrackerNext]_trackerVars
<1>1. ASSUME NEW c \in ContentId, NEW hop \in Peer, NEW dst \in Peer, NEW batch \in Batch,
             Send(c, hop, dst, batch)
      PROVE  TrackerNext
  BY <1>1 DEF Send, TrackerNext
<1>2. ASSUME NEW c \in ContentId, Delivered(c)
      PROVE  TrackerNext
  BY <1>2 DEF Delivered, TrackerNext
<1>3. CASE Clock
  BY <1>3 DEF Clock, TrackerNext
<1>4. CASE Tick
  BY <1>4, TickIsTrackerStep DEF Tick
<1>5. ASSUME NEW o \in outcomes, NEW alt \in Alternatives, RetransmitSingle(o, alt)
      PROVE  TrackerNext \/ UNCHANGED trackerVars
  <2>1. o.content_id \in ContentId /\ alt \subseteq Peer
    BY RetryAssumption DEF RetryInv, TaskTypes, Outcome, Alternatives
  <2> QED
    BY <1>5, <2>1 DEF RetransmitSingle, TrackerNext
<1>6. ASSUME NEW r \in retries, AdmitFrame(r) \/ HopClosed(r) \/ GiveUp(r)
      PROVE  TrackerNext \/ UNCHANGED trackerVars
  <2>1. r.content_id \in ContentId /\ r.attempt \in 1..MaxAttempts /\ r.hop \in Peer
        /\ r.admitted < r.frames /\ retries \subseteq Retry
    BY DEF RetryInv, TaskTypes, Retry
  <2>2. ASSUME NEW hops \in {{}, {r.hop}}, EndRetry(r, hops)
        PROVE  TrackerNext
    <3>1. hops \in SUBSET Peer /\ Cardinality(hops) <= 1
      <4>1. Cardinality({}) = 0 /\ Cardinality({r.hop}) = 1
        BY FS_EmptySet, FS_Singleton
      <4> QED
        BY <2>1, <4>1
    <3>2. FinishRetryAdmission(r.content_id, r.attempt, hops)
      BY <2>2 DEF EndRetry
    <3> QED
      BY <2>1, <3>1, <3>2 DEF TrackerNext
  <2> QED
    BY <1>6, <2>1, <2>2, PollCases
<1>7. CASE UNCHANGED vars
  BY <1>7 DEF vars
<1>8. ASSUME NEW c \in ContentId, NEW dst \in Peer, NEW batch \in Batch,
             SendUntracked(c, dst, batch)
      PROVE  UNCHANGED trackerVars
  BY <1>8 DEF SendUntracked
<1>9. ASSUME NEW o \in outcomes, NEW alt \in Alternatives,
             RetransmitBatch(o, alt) \/ ReportFailed(o)
      PROVE  UNCHANGED trackerVars
  BY <1>9 DEF RetransmitBatch, ReportFailed
<1>10. CASE HandleOutcome
  <2>1. {} \in Alternatives
    BY DEF Alternatives
  <2> QED
    BY <1>10, <1>5, <1>9, <2>1 DEF HandleOutcome
<1>11. CASE PollRetry
  BY <1>11, <1>6 DEF PollRetry
<1> QED
  BY RetryAssumption, <1>1, <1>2, <1>3, <1>4, <1>7, <1>8, <1>10, <1>11 DEF Next

-----------------------------------------------------------------------------
(* What each step does to the task's part of the invariant.                 *)
TaskInv == TaskTypes /\ Endings /\ Ownership /\ Slots

(* The tracker keeps its entries and their attempts, and the task its state: *)
(* the clock, or an outcome that only redirects an entry.                  *)
LEMMA SameAttemptsKeepInv ==
    ASSUME RetryInv,
           DOMAIN pending' = DOMAIN pending,
           \A x \in DOMAIN pending : pending'[x].attempts = pending[x].attempts,
           UNCHANGED <<used, untracked, acked, failed, taskVars>>
    PROVE  TaskInv'
<1>1. UNCHANGED <<outcomes, in_flight, retries, used, untracked, acked, failed>>
  BY DEF taskVars
<1>2. TaskTypes'
  BY <1>1 DEF RetryInv, TaskTypes
<1>3. Endings'
  BY <1>1 DEF RetryInv, Endings, Reporting
<1>4. Ownership'
  BY <1>1 DEF RetryInv, Ownership
<1>5. Slots'
  BY <1>1 DEF RetryInv, Slots, BatchOutcomes
<1> QED
  BY <1>2, <1>3, <1>4, <1>5 DEF TaskInv

LEMMA SendKeepsInv ==
    ASSUME RetryInv, NEW c \in ContentId, NEW hop \in Peer, NEW dst \in Peer,
           NEW batch \in Batch, Send(c, hop, dst, batch)
    PROVE  TaskInv'
<1>1. /\ UNCHANGED <<outcomes, in_flight, retries, untracked, acked, failed>>
      /\ used' = used \cup {c} /\ c \notin used
  BY DEF Send, taskVars
<1>2. /\ DOMAIN pending' = DOMAIN pending \cup {c}
      /\ \A x \in DOMAIN pending \ {c} : pending'[x] = pending[x]
  BY DEF Send, RegisterFrames
<1>3. c \notin DOMAIN pending /\ c \notin acked /\ c \notin untracked
      /\ c \notin Reporting /\ failed[c] = 0
  BY <1>1 DEF RetryInv, Endings, TaskTypes
<1>4. TaskTypes'
  BY <1>1 DEF RetryInv, TaskTypes
<1>5. Reporting' = Reporting
  BY <1>1 DEF Reporting
<1>6. Endings'
  BY <1>1, <1>2, <1>3, <1>5 DEF RetryInv, Endings
<1>7. Ownership'
  BY <1>1, <1>2, <1>3 DEF RetryInv, Ownership
<1>8. Slots'
  BY <1>1 DEF RetryInv, Slots, BatchOutcomes
<1> QED
  BY <1>4, <1>6, <1>7, <1>8 DEF TaskInv

LEMMA SendUntrackedKeepsInv ==
    ASSUME RetryInv, NEW c \in ContentId, NEW dst, NEW batch, SendUntracked(c, dst, batch)
    PROVE  TaskInv'
<1>1. /\ UNCHANGED <<pending, outcomes, in_flight, retries, acked, failed>>
      /\ used' = used \cup {c} /\ c \notin used /\ untracked' = untracked \cup {c}
  BY DEF SendUntracked, taskVars, trackerVars
<1>2. TaskTypes'
  BY <1>1 DEF RetryInv, TaskTypes
<1>3. Reporting' = Reporting
  BY <1>1 DEF Reporting
<1>4. Endings'
  BY <1>1, <1>3 DEF RetryInv, Endings
<1>5. Ownership'
  BY <1>1 DEF RetryInv, Ownership
<1>6. Slots'
  BY <1>1 DEF RetryInv, Slots, BatchOutcomes
<1> QED
  BY <1>2, <1>4, <1>5, <1>6 DEF TaskInv

LEMMA DeliveredKeepsInv ==
    ASSUME RetryInv, NEW c \in ContentId, Delivered(c)
    PROVE  TaskInv'
<1>1. /\ UNCHANGED <<outcomes, in_flight, retries, used, untracked, failed>>
      /\ acked' = acked \cup {c} /\ c \in DOMAIN pending
      /\ DOMAIN pending' = DOMAIN pending \ {c}
      /\ \A x \in DOMAIN pending' : pending'[x] = pending[x]
  BY DEF Delivered, Ack, taskVars
<1>2. c \in used \ untracked
  BY <1>1 DEF RetryInv, Endings
<1>3. TaskTypes'
  BY <1>1, <1>2 DEF RetryInv, TaskTypes
<1>4. Reporting' = Reporting
  BY <1>1 DEF Reporting
<1>5. Endings'
  BY <1>1, <1>2, <1>4 DEF RetryInv, Endings
<1>6. Ownership'
  BY <1>1 DEF RetryInv, Ownership
<1>7. Slots'
  BY <1>1 DEF RetryInv, Slots, BatchOutcomes
<1> QED
  BY <1>3, <1>5, <1>6, <1>7 DEF TaskInv

(* A tick answers Retransmit for R and Failed for the exhausted entries,    *)
(* which it removes: it needs the ids of both outside in_flight.           *)
LEMMA TickKeepsInv ==
    ASSUME RetryInv, Tick
    PROVE  TaskInv'
<1> DEFINE D == DOMAIN pending
           X == Exhausted(in_flight)
           ans(c) == [content_id |-> c, kind |-> "retransmit",
                      attempt |-> pending[c].attempts + 1, entry |-> pending[c]]
           fail(c) == [content_id |-> c, kind |-> "failed",
                       attempt |-> pending[c].attempts, entry |-> pending[c]]
<1>1. PICK R \in Retransmits(in_flight, FreeSlots) :
         /\ TickWithBatchAdmission(in_flight, R)
         /\ outcomes' = {ans(c) : c \in R} \cup {fail(c) : c \in X}
  BY DEF Tick
<1>2. /\ outcomes = {}
      /\ UNCHANGED <<used, untracked, acked, failed, in_flight, retries>>
  BY DEF Tick, AtSelect
<1>3. /\ R \subseteq D /\ X \subseteq D /\ R \cap X = {}
      /\ R \cap in_flight = {} /\ X \cap in_flight = {}
      /\ \A c \in R : ~(pending[c].attempts >= MaxAttempts)
      /\ Cardinality(Batched(R)) <= FreeSlots
  BY <1>1 DEF Retransmits, Retryable, Due, Exhausted
<1>4. /\ D \subseteq ContentId /\ \A c \in D : pending[c] \in PendingEntry
      /\ IsFiniteSet(D)
  BY PendingTypes
<1>5. /\ DOMAIN pending' = D \ X
      /\ \A c \in R : pending'[c].attempts = pending[c].attempts + 1
      /\ \A c \in (D \ X) \ R : pending'[c] = pending[c]
  BY <1>1, <1>3, <1>4 DEF TickWithBatchAdmission, PendingEntry
<1>6. \A c \in D : pending[c].attempts \in 1..MaxAttempts
  BY <1>4 DEF PendingEntry
<1>7. \A c \in R : pending[c].attempts + 1 \in 1..MaxAttempts
  BY <1>3, <1>6, LimitAssumption
<1>8. D \subseteq used \ untracked
  BY <1>4 DEF RetryInv, Endings
<1>9. outcomes' \subseteq Outcome
  <2>1. \A c \in R : ans(c) \in Outcome
    BY <1>3, <1>4, <1>7 DEF Outcome
  <2>2. \A c \in X : fail(c) \in Outcome
    BY <1>3, <1>4, <1>6 DEF Outcome
  <2> QED
    BY <1>1, <2>1, <2>2
<1>10. \A o \in outcomes' :
          \/ o.content_id \in R /\ o = ans(o.content_id) /\ o.kind = "retransmit"
             /\ o.attempt = pending[o.content_id].attempts + 1
          \/ o.content_id \in X /\ o = fail(o.content_id) /\ o.kind = "failed"
  BY <1>1
<1>11. TaskTypes'
  <2>1. \A o \in outcomes' : o.content_id \in used
    BY <1>3, <1>8, <1>10
  <2> QED
    BY <1>2, <1>9, <2>1 DEF RetryInv, TaskTypes
<1>12. Reporting' = X
  <2>1. \A c \in X : fail(c) \in outcomes' /\ fail(c).kind = "failed" /\ fail(c).content_id = c
    BY <1>1
  <2> QED
    BY <1>10, <2>1 DEF Reporting
<1>13. Endings'
  BY <1>2, <1>3, <1>5, <1>12 DEF RetryInv, Endings, Reporting
<1>14. Ownership'
  <2>1. \A o, q \in outcomes' : o.content_id = q.content_id => o = q
    BY <1>3, <1>10
  <2>2. \A o \in outcomes' : o.content_id \notin in_flight
    BY <1>3, <1>10
  <2>3. \A o \in outcomes' : o.kind = "retransmit" =>
           /\ o.content_id \in DOMAIN pending'
           /\ pending'[o.content_id].attempts = o.attempt
    BY <1>3, <1>5, <1>10
  <2>4. \A r \in retries : /\ r.content_id \in in_flight
                           /\ r.content_id \in D \cup acked
                           /\ r.content_id \in D => pending[r.content_id].attempts = r.attempt
    BY DEF RetryInv, Ownership
  <2>5. \A r \in retries :
           /\ r.content_id \in DOMAIN pending' \cup acked
           /\ r.content_id \in DOMAIN pending' => pending'[r.content_id].attempts = r.attempt
    BY <1>3, <1>5, <2>4
  <2>6. /\ in_flight = {r.content_id : r \in retries}
        /\ \A r, s \in retries : r.content_id = s.content_id => r = s
    BY DEF RetryInv, Ownership
  <2> QED
    BY ONLY <1>2, <2>1, <2>2, <2>3, <2>5, <2>6 DEF Ownership
<1>15. Slots'
  <2> DEFINE B == Batched(R)
  <2>1. IsFiniteSet(B) /\ Cardinality(B) \in Nat
    BY <1>3, <1>4, FS_Subset, FS_CardinalityType DEF Batched
  <2>2. BatchOutcomes' = {ans(c) : c \in B}
    <3>1. \A o \in BatchOutcomes' : o \in outcomes' /\ o.kind = "retransmit" /\ o.entry.frames > 1
      BY DEF BatchOutcomes
    <3>2. \A o \in BatchOutcomes' : o.content_id \in R /\ o = ans(o.content_id)
      BY <1>10, <3>1
    <3>3. \A o \in BatchOutcomes' : o.content_id \in B
      BY <3>1, <3>2 DEF Batched
    <3>4. \A c \in B : ans(c) \in outcomes' /\ ans(c).kind = "retransmit" /\ ans(c).entry.frames > 1
      BY <1>1 DEF Batched
    <3>5. \A c \in B : ans(c) \in BatchOutcomes'
      BY <3>4 DEF BatchOutcomes
    <3> QED
      BY <3>2, <3>3, <3>5
  <2>3. IsFiniteSet(BatchOutcomes') /\ Cardinality(BatchOutcomes') <= Cardinality(B)
    <3> DEFINE f == [c \in B |-> ans(c)]
    <3>1. f \in Surjection(B, BatchOutcomes')
      BY <2>2 DEF Surjection
    <3> QED
      BY <2>1, <3>1, FS_Surjection
  <2>4. /\ Cardinality(BatchOutcomes') \in Nat /\ IsFiniteSet(retries)
        /\ Cardinality(retries) \in Nat
        /\ Cardinality(retries) <= MaxChunkRetries
    <3>1. /\ IsFiniteSet(retries) /\ IsFiniteSet(BatchOutcomes)
          /\ Cardinality(retries) + Cardinality(BatchOutcomes) <= MaxChunkRetries
      BY DEF RetryInv, Slots
    <3>2. Cardinality(retries) \in Nat /\ Cardinality(BatchOutcomes) \in Nat
      BY <3>1, FS_CardinalityType
    <3>3. Cardinality(BatchOutcomes') \in Nat
      BY <2>3, FS_CardinalityType
    <3> QED
      BY <3>1, <3>2, <3>3, RetryAssumption
  <2>5. FreeSlots = MaxChunkRetries - Cardinality(retries)
    BY <2>4, RetryAssumption DEF FreeSlots, SaturatingSub
  <2>6. Cardinality(B) <= MaxChunkRetries - Cardinality(retries)
    BY <1>3, <2>5
  <2>7. Cardinality(retries) + Cardinality(BatchOutcomes') <= MaxChunkRetries
    BY ONLY <2>1, <2>3, <2>4, <2>6, RetryAssumption
  <2> QED
    BY <1>2, <2>3, <2>4, <2>7 DEF Slots
<1> QED
  BY <1>11, <1>13, <1>14, <1>15 DEF TaskInv

(* An answer taken off the list leaves the others as they were.             *)
LEMMA OutcomeTaken ==
    ASSUME RetryInv, NEW o \in outcomes, outcomes' = outcomes \ {o}
    PROVE  /\ outcomes' \subseteq outcomes
           /\ \A q \in outcomes' : q.content_id # o.content_id
           /\ o.kind = "retransmit" => Reporting' = Reporting
           /\ o.kind = "failed" => /\ o.content_id \in Reporting
                                   /\ Reporting' = Reporting \ {o.content_id}
           /\ BatchOutcomes' = BatchOutcomes \ {o}
<1>1. \A q \in outcomes : q.content_id = o.content_id => q = o
  BY DEF RetryInv, Ownership
<1>2. o.kind = "retransmit" => Reporting' = Reporting
  BY DEF Reporting
<1>3. o.kind = "failed" => /\ o.content_id \in Reporting
                           /\ Reporting' = Reporting \ {o.content_id}
  BY <1>1 DEF Reporting
<1>4. BatchOutcomes' = BatchOutcomes \ {o}
  BY DEF BatchOutcomes
<1> QED
  BY <1>1, <1>2, <1>3, <1>4

(* Redirecting an entry, or restarting its wait, keeps every attempt number. *)
LEMMA RedirectKeepsAttempts ==
    ASSUME RetryInv, NEW c, NEW hop,
           \/ UpdateNextHop(c, hop)
           \/ \E attempt, hops : FinishRetryAdmission(c, attempt, hops)
    PROVE  /\ DOMAIN pending' = DOMAIN pending
           /\ \A x \in DOMAIN pending : pending'[x].attempts = pending[x].attempts
<1>1. pending \in [DOMAIN pending -> PendingEntry]
  BY PendingTypes
<1>2. ASSUME NEW e \in PendingEntry, NEW h, NEW l
      PROVE  /\ [e EXCEPT !.next_hop = h].attempts = e.attempts
             /\ [e EXCEPT !.next_hop = h, !.left = l].attempts = e.attempts
  BY DEF PendingEntry
<1>3. CASE UpdateNextHop(c, hop)
  BY <1>1, <1>2, <1>3 DEF UpdateNextHop
<1>4. ASSUME NEW attempt, NEW hops, FinishRetryAdmission(c, attempt, hops)
      PROVE  /\ DOMAIN pending' = DOMAIN pending
             /\ \A x \in DOMAIN pending : pending'[x].attempts = pending[x].attempts
  <2>1. CASE RetryIsCurrent(c, attempt)
    <3>1. PICK h : pending' = [pending EXCEPT ![c].next_hop = h, ![c].left = AckTimeout]
      BY <1>4, <2>1 DEF FinishRetryAdmission
    <3> QED
      BY ONLY <1>1, <1>2, <3>1
  <2>2. CASE ~RetryIsCurrent(c, attempt)
    BY <1>4, <2>2 DEF FinishRetryAdmission
  <2> QED
    BY <2>1, <2>2
<1> QED
  BY <1>3, <1>4

LEMMA RetransmitSingleKeepsInv ==
    ASSUME RetryInv, NEW o \in outcomes, NEW alt \in Alternatives, RetransmitSingle(o, alt)
    PROVE  TaskInv'
<1>1. /\ outcomes' = outcomes \ {o} /\ o.kind = "retransmit"
      /\ UNCHANGED <<used, untracked, acked, failed, in_flight, retries>>
  BY DEF RetransmitSingle
<1>2. /\ DOMAIN pending' = DOMAIN pending
      /\ \A x \in DOMAIN pending : pending'[x].attempts = pending[x].attempts
  BY RedirectKeepsAttempts DEF RetransmitSingle, trackerVars
<1>3. outcomes' \subseteq outcomes /\ Reporting' = Reporting /\ BatchOutcomes' \subseteq BatchOutcomes
  BY <1>1, OutcomeTaken
<1>4. TaskTypes'
  BY <1>1, <1>3 DEF RetryInv, TaskTypes
<1>5. Endings'
  BY <1>1, <1>2, <1>3 DEF RetryInv, Endings
<1>6. Ownership'
  BY <1>1, <1>2, <1>3 DEF RetryInv, Ownership
<1>7. Slots'
  <2>1. /\ IsFiniteSet(BatchOutcomes) /\ IsFiniteSet(retries)
        /\ Cardinality(retries) + Cardinality(BatchOutcomes) <= MaxChunkRetries
    BY DEF RetryInv, Slots
  <2>2. /\ IsFiniteSet(BatchOutcomes') /\ Cardinality(BatchOutcomes') <= Cardinality(BatchOutcomes)
    BY <1>3, <2>1, FS_Subset
  <2>3. /\ Cardinality(retries) \in Nat /\ Cardinality(BatchOutcomes) \in Nat
        /\ Cardinality(BatchOutcomes') \in Nat
    BY <2>1, <2>2, FS_CardinalityType
  <2>4. Cardinality(retries) + Cardinality(BatchOutcomes') <= MaxChunkRetries
    BY ONLY <2>1, <2>2, <2>3, RetryAssumption
  <2> QED
    BY <1>1, <2>1, <2>2, <2>4 DEF Slots
<1> QED
  BY <1>4, <1>5, <1>6, <1>7 DEF TaskInv

(* The answer becomes a future: its slot moves with it.                     *)
LEMMA RetransmitBatchKeepsInv ==
    ASSUME RetryInv, NEW o \in outcomes, NEW alt \in Alternatives, RetransmitBatch(o, alt)
    PROVE  TaskInv'
<1> DEFINE r == [content_id |-> o.content_id, attempt |-> o.attempt,
                 hop |-> o.entry.next_hop, alt |-> alt \ {o.entry.next_hop},
                 frames |-> o.entry.frames, admitted |-> 0]
<1>1. /\ outcomes' = outcomes \ {o} /\ o.kind = "retransmit" /\ o.entry.frames > 1
      /\ in_flight' = in_flight \cup {o.content_id}
      /\ retries' = retries \cup {r}
      /\ UNCHANGED <<pending, used, untracked, acked, failed>>
  BY DEF RetransmitBatch, trackerVars
<1>2. /\ outcomes' \subseteq outcomes /\ Reporting' = Reporting
      /\ BatchOutcomes' = BatchOutcomes \ {o}
      /\ \A q \in outcomes' : q.content_id # o.content_id
  BY <1>1, OutcomeTaken
<1>3. o \in Outcome /\ o.content_id \in used /\ alt \subseteq Peer
  BY RetryAssumption DEF RetryInv, TaskTypes, Alternatives
<1>4. r \in Retry /\ r.content_id = o.content_id /\ r.attempt = o.attempt
      /\ r.admitted < r.frames
  BY <1>1, <1>3 DEF Outcome, Retry, PendingEntry
<1> HIDE DEF r
<1>5. TaskTypes'
  BY <1>1, <1>2, <1>3, <1>4 DEF RetryInv, TaskTypes
<1>6. Endings'
  BY <1>1, <1>2 DEF RetryInv, Endings
<1>7. o.content_id \notin in_flight /\ \A s \in retries : s.content_id \in in_flight
  BY DEF RetryInv, Ownership
<1>8. Ownership'
  <2>1. in_flight' = {s.content_id : s \in retries'}
    BY <1>1, <1>4 DEF RetryInv, Ownership
  <2>2. \A s, t \in retries' : s.content_id = t.content_id => s = t
    BY <1>1, <1>4, <1>7 DEF RetryInv, Ownership
  <2>3. /\ \A q, p \in outcomes' : q.content_id = p.content_id => q = p
        /\ \A q \in outcomes' : q.content_id \notin in_flight'
    BY <1>1, <1>2 DEF RetryInv, Ownership
  <2>4. /\ r.content_id \in DOMAIN pending \cup acked
        /\ r.content_id \in DOMAIN pending => pending[r.content_id].attempts = r.attempt
    BY <1>1, <1>4 DEF RetryInv, Ownership
  <2>5. \A s \in retries :
          /\ s.content_id \in DOMAIN pending \cup acked
          /\ s.content_id \in DOMAIN pending => pending[s.content_id].attempts = s.attempt
    BY DEF RetryInv, Ownership
  <2>6. \A q \in outcomes' : q.kind = "retransmit" =>
          /\ q.content_id \in DOMAIN pending \cup acked
          /\ q.content_id \in DOMAIN pending => pending[q.content_id].attempts = q.attempt
    BY <1>2 DEF RetryInv, Ownership
  <2> QED
    BY ONLY <1>1, <2>1, <2>2, <2>3, <2>4, <2>5, <2>6 DEF Ownership
<1>9. Slots'
  <2>1. /\ IsFiniteSet(BatchOutcomes) /\ IsFiniteSet(retries)
        /\ Cardinality(retries) + Cardinality(BatchOutcomes) <= MaxChunkRetries
    BY DEF RetryInv, Slots
  <2>2. o \in BatchOutcomes
    BY <1>1 DEF BatchOutcomes
  <2>3. /\ IsFiniteSet(BatchOutcomes') /\ Cardinality(BatchOutcomes') = Cardinality(BatchOutcomes) - 1
    BY <1>2, <2>1, <2>2, FS_RemoveElement
  <2>4. r \notin retries
    BY <1>4, <1>7
  <2>5. IsFiniteSet(retries') /\ Cardinality(retries') = Cardinality(retries) + 1
    BY <1>1, <2>1, <2>4, FS_AddElement
  <2>6. Cardinality(retries) \in Nat /\ Cardinality(BatchOutcomes) \in Nat
    BY <2>1, FS_CardinalityType
  <2>7. Cardinality(retries') + Cardinality(BatchOutcomes') <= MaxChunkRetries
    BY ONLY <2>1, <2>3, <2>5, <2>6, RetryAssumption
  <2> QED
    BY <2>3, <2>5, <2>7 DEF Slots
<1> QED
  BY <1>5, <1>6, <1>8, <1>9 DEF TaskInv

LEMMA ReportFailedKeepsInv ==
    ASSUME RetryInv, NEW o \in outcomes, ReportFailed(o)
    PROVE  TaskInv'
<1>1. /\ outcomes' = outcomes \ {o} /\ o.kind = "failed"
      /\ failed' = [failed EXCEPT ![o.content_id] = @ + 1]
      /\ UNCHANGED <<pending, used, untracked, acked, in_flight, retries>>
  BY DEF ReportFailed, trackerVars
<1>2. /\ outcomes' \subseteq outcomes /\ BatchOutcomes' = BatchOutcomes
      /\ o.content_id \in Reporting /\ Reporting' = Reporting \ {o.content_id}
  BY <1>1, OutcomeTaken DEF BatchOutcomes
<1>3. o.content_id \in ContentId /\ failed \in [ContentId -> Nat]
  BY DEF RetryInv, TaskTypes, Outcome
<1>4. /\ failed' \in [ContentId -> Nat]
      /\ failed'[o.content_id] = failed[o.content_id] + 1
      /\ \A c \in ContentId \ {o.content_id} : failed'[c] = failed[c]
  BY <1>1, <1>3
<1>5. TaskTypes'
  BY <1>1, <1>2, <1>4 DEF RetryInv, TaskTypes
<1>6. Endings'
  <2>1. /\ o.content_id \in used \ untracked /\ o.content_id \notin DOMAIN pending
        /\ o.content_id \notin acked /\ failed[o.content_id] = 0
    BY <1>2, <1>3 DEF RetryInv, Endings
  <2> QED
    BY <1>1, <1>2, <1>4, <2>1 DEF RetryInv, Endings
<1>7. Ownership'
  BY <1>1, <1>2 DEF RetryInv, Ownership
<1>8. Slots'
  BY <1>1, <1>2 DEF RetryInv, Slots
<1> QED
  BY <1>5, <1>6, <1>7, <1>8 DEF TaskInv

(* The future moves on to its next frame or its other hop.                  *)
LEMMA PollMovesKeepsInv ==
    ASSUME RetryInv, NEW r \in retries, NEW s \in Retry,
           s.content_id = r.content_id, s.attempt = r.attempt, s.admitted < s.frames,
           retries' = (retries \ {r}) \cup {s},
           UNCHANGED <<pending, used, untracked, acked, failed, outcomes, in_flight>>
    PROVE  TaskInv'
<1>1. TaskTypes'
  BY DEF RetryInv, TaskTypes
<1>2. Reporting' = Reporting /\ BatchOutcomes' = BatchOutcomes
  BY DEF Reporting, BatchOutcomes
<1>3. Endings'
  BY <1>2 DEF RetryInv, Endings
<1>4. Ownership'
  <2>1. \A t \in retries \ {r} : t.content_id # r.content_id
    BY DEF RetryInv, Ownership
  <2>2. in_flight' = {t.content_id : t \in retries'}
    BY DEF RetryInv, Ownership
  <2>3. \A t, u \in retries' : t.content_id = u.content_id => t = u
    BY <2>1 DEF RetryInv, Ownership
  <2>4. \A t \in retries' :
          /\ t.content_id \in DOMAIN pending \cup acked
          /\ t.content_id \in DOMAIN pending => pending[t.content_id].attempts = t.attempt
    BY DEF RetryInv, Ownership
  <2>5. /\ \A o, q \in outcomes : o.content_id = q.content_id => o = q
        /\ \A o \in outcomes : o.content_id \notin in_flight
        /\ \A o \in outcomes : o.kind = "retransmit" =>
             /\ o.content_id \in DOMAIN pending \cup acked
             /\ o.content_id \in DOMAIN pending => pending[o.content_id].attempts = o.attempt
    BY DEF RetryInv, Ownership
  <2> QED
    BY ONLY <2>2, <2>3, <2>4, <2>5, UNCHANGED <<pending, acked, outcomes, in_flight>>
       DEF Ownership
<1>5. Slots'
  <2>1. IsFiniteSet(retries) /\ Cardinality(retries) \in Nat
    BY FS_CardinalityType DEF RetryInv, Slots
  <2>2. s \notin retries \ {r}
    BY DEF RetryInv, Ownership
  <2>3. IsFiniteSet(retries \ {r}) /\ Cardinality(retries \ {r}) = Cardinality(retries) - 1
    BY <2>1, FS_RemoveElement
  <2>4. IsFiniteSet(retries') /\ Cardinality(retries') = Cardinality(retries \ {r}) + 1
    BY <2>2, <2>3, FS_AddElement
  <2>5. Cardinality(retries') = Cardinality(retries)
    BY <2>1, <2>3, <2>4
  <2> QED
    BY <1>2, <2>4, <2>5 DEF RetryInv, Slots
<1> QED
  BY <1>1, <1>3, <1>4, <1>5 DEF TaskInv

(* The future ends: the id is disowned, its attempt number stays.           *)
LEMMA EndRetryKeepsInv ==
    ASSUME RetryInv, NEW r \in retries, NEW hops, EndRetry(r, hops)
    PROVE  TaskInv'
<1>1. /\ retries' = retries \ {r} /\ in_flight' = in_flight \ {r.content_id}
      /\ UNCHANGED <<used, untracked, acked, failed, outcomes>>
  BY DEF EndRetry
<1>2. /\ DOMAIN pending' = DOMAIN pending
      /\ \A x \in DOMAIN pending : pending'[x].attempts = pending[x].attempts
  BY RedirectKeepsAttempts DEF EndRetry
<1>3. Reporting' = Reporting /\ BatchOutcomes' = BatchOutcomes
  BY <1>1 DEF Reporting, BatchOutcomes
<1>4. TaskTypes'
  BY <1>1 DEF RetryInv, TaskTypes
<1>5. Endings'
  BY <1>1, <1>2, <1>3 DEF RetryInv, Endings
<1>6. Ownership'
  <2>1. \A t \in retries \ {r} : t.content_id # r.content_id
    BY DEF RetryInv, Ownership
  <2>2. in_flight' = {t.content_id : t \in retries'}
    BY <1>1, <2>1 DEF RetryInv, Ownership
  <2> QED
    BY <1>1, <1>2, <2>2 DEF RetryInv, Ownership
<1>7. Slots'
  <2>1. /\ IsFiniteSet(retries) /\ IsFiniteSet(BatchOutcomes)
        /\ Cardinality(retries) + Cardinality(BatchOutcomes) <= MaxChunkRetries
    BY DEF RetryInv, Slots
  <2>2. Cardinality(retries) \in Nat /\ Cardinality(BatchOutcomes) \in Nat
    BY <2>1, FS_CardinalityType
  <2>3. IsFiniteSet(retries') /\ Cardinality(retries') = Cardinality(retries) - 1
    BY <1>1, <2>1, FS_RemoveElement
  <2>4. Cardinality(retries') + Cardinality(BatchOutcomes) <= MaxChunkRetries
    BY ONLY <2>1, <2>2, <2>3, RetryAssumption
  <2> QED
    BY <1>3, <2>1, <2>3, <2>4 DEF Slots
<1> QED
  BY <1>4, <1>5, <1>6, <1>7 DEF TaskInv

-----------------------------------------------------------------------------
(* The induction.                                                          *)
LEMMA InitRetryInv == Init => RetryInv
<1> SUFFICES ASSUME Init PROVE RetryInv
  OBVIOUS
<1>1. TrackerInv
  BY InitEstablishesInv DEF Init
<1>2. TaskTypes /\ Endings /\ Ownership
  BY DEF Init, TrackerInit, TaskTypes, Endings, Ownership, Reporting
<1>3. Slots
  <2>1. retries = {} /\ BatchOutcomes = {}
    BY DEF Init, BatchOutcomes
  <2>2. IsFiniteSet({}) /\ Cardinality({}) = 0
    BY FS_EmptySet
  <2> QED
    BY <2>1, <2>2, RetryAssumption DEF Slots
<1> QED
  BY <1>1, <1>2, <1>3 DEF RetryInv

LEMMA NextRetryInv == RetryInv /\ [Next]_vars => RetryInv'
<1> SUFFICES ASSUME RetryInv, [Next]_vars PROVE RetryInv'
  OBVIOUS
<1>1. TrackerInv'
  BY TaskStepIsTrackerStep, NextKeepsInv DEF RetryInv
<1>2. ASSUME NEW c \in ContentId, NEW hop \in Peer, NEW dst \in Peer, NEW batch \in Batch,
             Send(c, hop, dst, batch)
      PROVE  TaskInv'
  BY <1>2, SendKeepsInv
<1>3. ASSUME NEW c \in ContentId, NEW dst \in Peer, NEW batch \in Batch,
             SendUntracked(c, dst, batch)
      PROVE  TaskInv'
  BY <1>3, SendUntrackedKeepsInv
<1>4. ASSUME NEW c \in ContentId, Delivered(c) PROVE TaskInv'
  BY <1>4, DeliveredKeepsInv
<1>5. ASSUME Clock PROVE TaskInv'
  <2>1. \A e \in PendingEntry : \A l : [e EXCEPT !.left = l].attempts = e.attempts
    BY DEF PendingEntry
  <2>2. /\ DOMAIN pending' = DOMAIN pending
        /\ \A x \in DOMAIN pending : pending'[x].attempts = pending[x].attempts
    BY <1>5, <2>1, PendingTypes DEF Clock, ClockStep
  <2>3. UNCHANGED <<used, untracked, acked, failed, taskVars>>
    BY <1>5 DEF Clock
  <2> QED
    BY <2>2, <2>3, SameAttemptsKeepInv
<1>6. ASSUME Tick PROVE TaskInv'
  BY <1>6, TickKeepsInv
<1>7. ASSUME HandleOutcome PROVE TaskInv'
  BY <1>7, RetransmitSingleKeepsInv, RetransmitBatchKeepsInv, ReportFailedKeepsInv
     DEF HandleOutcome
<1>8. ASSUME PollRetry PROVE TaskInv'
  <2>1. PICK r \in retries : AdmitFrame(r) \/ HopClosed(r) \/ GiveUp(r)
    BY <1>8 DEF PollRetry
  <2>2. r.admitted < r.frames /\ retries \subseteq Retry
    BY DEF RetryInv, TaskTypes
  <2>3. ASSUME NEW s \in Retry,
               s.content_id = r.content_id, s.attempt = r.attempt, s.admitted < s.frames,
               retries' = (retries \ {r}) \cup {s},
               UNCHANGED <<trackerVars, used, untracked, acked, failed, outcomes, in_flight>>
        PROVE  TaskInv'
    <3>1. UNCHANGED <<pending, used, untracked, acked, failed, outcomes, in_flight>>
      BY <2>3 DEF trackerVars
    <3> QED
      BY <2>3, <3>1, PollMovesKeepsInv
  <2> QED
    BY <2>1, <2>2, <2>3, PollCases, EndRetryKeepsInv
<1>9. ASSUME UNCHANGED vars PROVE TaskInv'
  <2>1. /\ pending' = pending
        /\ UNCHANGED <<used, untracked, acked, failed, taskVars>>
    BY <1>9 DEF vars, trackerVars
  <2> QED
    BY <2>1, SameAttemptsKeepInv
<1>10. TaskInv'
  BY RetryAssumption, <1>2, <1>3, <1>4, <1>5, <1>6, <1>7, <1>8, <1>9 DEF Next
<1> QED
  BY <1>1, <1>10 DEF RetryInv, TaskInv

-----------------------------------------------------------------------------
(* The retry task, its futures and its callers use the tracker only as the   *)
(* tracker's own specification allows, so all that is proved of the tracker  *)
(* under any callers (exact totals, the four limits) holds under the task. *)
THEOREM RetryImplementsTracker == Spec => TrackerSpec
<1>1. Init => TrackerInit
  BY DEF Init
<1>2. RetryInv /\ [Next]_vars => [TrackerNext]_trackerVars
  BY TaskStepIsTrackerStep
<1> QED
  BY <1>1, <1>2, InitRetryInv, NextRetryInv, PTL DEF Spec, TrackerSpec

(* The types of the task's state hold for ever: a future never counts a      *)
(* frame past the end of its batch (admit_chunk_retry's loop).             *)
THEOREM RetryTypes == Spec => []TypeOK
<1>1. RetryInv => TypeOK
  <2> SUFFICES ASSUME RetryInv PROVE TypeOK
    OBVIOUS
  <2>1. \A r \in retries : r.admitted \in 0..(r.frames - 1)
    BY DEF RetryInv, TaskTypes, Retry
  <2> QED
    BY <2>1 DEF RetryInv, TrackerInv, TaskTypes, TypeOK, Outcome
<1> QED
  BY <1>1, InitRetryInv, NextRetryInv, PTL DEF Spec

(* Every tracked message is pending, acknowledged, about to be reported or   *)
(* reported failed once, and never two of these: whatever the order of ACKs, *)
(* ticks, their answers and the futures.                                   *)
THEOREM MessagesEndOnce == Spec => []OneEnding
<1>1. RetryInv => OneEnding
  <2> SUFFICES ASSUME RetryInv, NEW c \in used \ untracked
               PROVE  (IF c \in DOMAIN pending THEN 1 ELSE 0) + (IF c \in acked THEN 1 ELSE 0)
                      + (IF c \in Reporting THEN 1 ELSE 0) + failed[c] = 1
    BY DEF OneEnding
  <2>1. c \in ContentId
    BY DEF RetryInv, TaskTypes
  <2> QED
    BY <2>1 DEF RetryInv, Endings
<1> QED
  BY <1>1, InitRetryInv, NextRetryInv, PTL DEF Spec

(* A chunk-retry future owns its message's attempt while it runs, the task   *)
(* knows exactly the running ones, and they fit in MAX_CHUNK_RETRIES.      *)
THEOREM RetriesOwnAttempts == Spec => []RetryOwnsAttempt
<1>1. RetryInv => RetryOwnsAttempt
  <2> SUFFICES ASSUME RetryInv PROVE RetryOwnsAttempt
    OBVIOUS
  <2>1. Cardinality(retries) = Cardinality(in_flight)
    <3> DEFINE f == [r \in retries |-> r.content_id]
    <3>1. f \in Bijection(retries, in_flight)
      BY DEF RetryInv, Ownership, Bijection, Injection, Surjection, IsInjective
    <3> QED
      BY <3>1, FS_Bijection DEF RetryInv, Slots, ExistsBijection
  <2>2. \A r \in retries : r.content_id \notin Reporting /\ failed[r.content_id] = 0
    <3> TAKE r \in retries
    <3>1. r.content_id \in ContentId /\ r.content_id \in DOMAIN pending \cup acked
      BY DEF RetryInv, Ownership, TaskTypes, Retry
    <3> QED
      BY <3>1 DEF RetryInv, Endings
  <2>3. /\ \A r \in retries :
             r.content_id \in DOMAIN pending => pending[r.content_id].attempts = r.attempt
        /\ in_flight = {r.content_id : r \in retries}
    BY DEF RetryInv, Ownership
  <2>4. Cardinality(retries)
        + Cardinality({o \in outcomes : o.kind = "retransmit" /\ o.entry.frames > 1})
        <= MaxChunkRetries
    BY DEF RetryInv, Slots, BatchOutcomes
  <2> QED
    BY <2>1, <2>2, <2>3, <2>4 DEF RetryOwnsAttempt
<1> QED
  BY <1>1, InitRetryInv, NextRetryInv, PTL DEF Spec
=============================================================================
