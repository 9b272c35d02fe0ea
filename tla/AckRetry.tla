------------------------------ MODULE AckRetry ------------------------------
(***************************************************************************)
(* The originator's retry task (spawn_pending_ack_tick in                   *)
(* crates/veil-node-runtime/src/runtime/service_tasks.rs, admit_chunk_retry *)
(* in ack_chunk_retry.rs) over the pending-ACK tracker.                    *)
(*                                                                         *)
(* One task loops over a select: a timer tick asks the tracker which        *)
(* messages to retransmit and which have failed, then handles the answers   *)
(* one by one; a chunked message is retransmitted by a future that waits    *)
(* for source capacity frame by frame, polled only at the select, so an     *)
(* ACK, a send or the clock may come between any two of its steps.  The     *)
(* sender registers after the first frame is queued (veil-ipc send.rs), so  *)
(* message ids are used once.                                              *)
(***************************************************************************)
EXTENDS PendingAck, Sequences

CONSTANTS
    Hop,              \* peers with a session: the next hops frames can be queued on
    MaxChunkRetries   \* MAX_CHUNK_RETRIES: futures in flight at once
ASSUME RetryAssumption == Hop \subseteq Peer /\ MaxChunkRetries \in Nat \ {0}

VARIABLES
    used,       \* ids registered so far
    untracked,  \* ids whose registration was refused
    acked,      \* ids whose entry an ACK removed
    failed,     \* content id -> AppSendFailed reports to the application
    outcomes,   \* answers of the last tick not handled yet
    in_flight,  \* ids owned by a chunk-retry future
    retries     \* the chunk-retry futures

taskVars == <<outcomes, in_flight, retries>>
vars == <<trackerVars, used, untracked, acked, failed, taskVars>>

\* At the select: every answer of the last tick has been handled.
AtSelect == outcomes = {}

Init ==
    /\ TrackerInit
    /\ used = {} /\ untracked = {} /\ acked = {} /\ failed = [c \in ContentId |-> 0]
    /\ outcomes = {} /\ in_flight = {} /\ retries = {}

\* handle_ipc_send: the frames are queued on a hop, then registered.
Send(c, hop, dst, batch) ==
    /\ c \notin used
    /\ used' = used \cup {c}
    /\ RegisterFrames(c, hop, dst, batch)
    /\ UNCHANGED <<untracked, acked, failed, taskVars>>

\* ... or the tracker is full: the result of register is ignored, and the
\* application gets AppSendOk all the same.
SendUntracked(c, dst, batch) ==
    /\ c \notin used /\ ~Admits(c, dst, batch)
    /\ used' = used \cup {c}
    /\ untracked' = untracked \cup {c}
    /\ UNCHANGED <<trackerVars, acked, failed, taskVars>>

\* A DELIVERED for c is accepted: ack_and_get_info finds and removes it.  That
\* step is the tracker's; whether its handler gets there is DeliveryStatus's.
Delivered(c) ==
    /\ Ack(c)
    /\ acked' = acked \cup {c}
    /\ UNCHANGED <<used, untracked, failed, taskVars>>

Clock == ClockStep /\ UNCHANGED <<used, untracked, acked, failed, taskVars>>

\* batch slots left: MAX_CHUNK_RETRIES - retries.len()
FreeSlots == SaturatingSub(MaxChunkRetries, Cardinality(retries))

\* The tick branch of the select.
Tick ==
    /\ AtSelect
    /\ \E R \in Retransmits(in_flight, FreeSlots) :
          /\ TickWithBatchAdmission(in_flight, R)
          /\ outcomes' =
               {[content_id |-> c, kind |-> "retransmit", attempt |-> pending[c].attempts + 1,
                 entry |-> pending[c]] : c \in R}
               \cup {[content_id |-> c, kind |-> "failed", attempt |-> pending[c].attempts,
                      entry |-> pending[c]] : c \in Exhausted(in_flight)}
    /\ outcomes' # {}
    /\ UNCHANGED <<used, untracked, acked, failed, in_flight, retries>>

\* A single-frame retransmit: the entry's hop first, else the hop the route
\* cache offered (alt; empty when it had none).  A queue may refuse either.
RetransmitSingle(o, alt) ==
    /\ o.kind = "retransmit" /\ o.entry.frames = 1
    /\ outcomes' = outcomes \ {o}
    /\ \/ UNCHANGED trackerVars                                   \* sent, or all refused
       \/ \E hop \in alt : UpdateNextHop(o.content_id, hop)       \* rerouted
    /\ UNCHANGED <<used, untracked, acked, failed, in_flight, retries>>

\* A chunked retransmit is handed to a future, which owns the id until it ends.
RetransmitBatch(o, alt) ==
    /\ o.kind = "retransmit" /\ o.entry.frames > 1
    /\ outcomes' = outcomes \ {o}
    /\ in_flight' = in_flight \cup {o.content_id}
    /\ retries' = retries \cup
         {[content_id |-> o.content_id, attempt |-> o.attempt,
           hop |-> o.entry.next_hop, alt |-> alt \ {o.entry.next_hop},
           frames |-> o.entry.frames, admitted |-> 0]}
    /\ UNCHANGED <<trackerVars, used, untracked, acked, failed>>

\* All attempts used: the application gets AppSendFailed.
ReportFailed(o) ==
    /\ o.kind = "failed"
    /\ outcomes' = outcomes \ {o}
    /\ failed' = [failed EXCEPT ![o.content_id] = @ + 1]
    /\ UNCHANGED <<trackerVars, used, untracked, acked, in_flight, retries>>

\* The future's end reaches the select: the id is disowned and, if the
\* attempt is still the tracker's, the ACK wait starts now.
EndRetry(r, hops) ==
    /\ retries' = retries \ {r}
    /\ in_flight' = in_flight \ {r.content_id}
    /\ FinishRetryAdmission(r.content_id, r.attempt, hops)
    /\ UNCHANGED <<used, untracked, acked, failed, outcomes>>

\* Mutant: the loop over the frames runs once too often.
AdmitFrameOneMore(r) ==
    /\ AtSelect /\ RetryIsCurrent(r.content_id, r.attempt)
    /\ IF r.admitted < r.frames
       THEN /\ retries' = (retries \ {r}) \cup {[r EXCEPT !.admitted = @ + 1]}
            /\ UNCHANGED <<trackerVars, used, untracked, acked, failed, outcomes, in_flight>>
       ELSE EndRetry(r, {r.hop})

\* The future's next frame is admitted on its hop; the last one ends it.
AdmitFrame(r) ==
    /\ AtSelect /\ RetryIsCurrent(r.content_id, r.attempt)
    /\ IF r.admitted + 1 < r.frames
       THEN /\ retries' = (retries \ {r}) \cup {[r EXCEPT !.admitted = @ + 1]}
            /\ UNCHANGED <<trackerVars, used, untracked, acked, failed, outcomes, in_flight>>
       ELSE EndRetry(r, {r.hop})

\* The hop is closed: the whole batch starts again on the alternative, if any.
HopClosed(r) ==
    /\ AtSelect /\ RetryIsCurrent(r.content_id, r.attempt)
    /\ \/ \E hop \in r.alt :
            /\ retries' = (retries \ {r}) \cup {[r EXCEPT !.hop = hop, !.alt = {}, !.admitted = 0]}
            /\ UNCHANGED <<trackerVars, used, untracked, acked, failed, outcomes, in_flight>>
       \/ r.alt = {} /\ EndRetry(r, {})

\* No hop accepted: the admission deadline passed, or the entry is gone or
\* carries another attempt.
GiveUp(r) == AtSelect /\ EndRetry(r, {})

Alternatives == {{}} \cup {{hop} : hop \in Hop}

HandleOutcome ==
    \E o \in outcomes :
       \/ \E alt \in Alternatives : RetransmitSingle(o, alt) \/ RetransmitBatch(o, alt)
       \/ ReportFailed(o)
PollRetry == \E r \in retries : AdmitFrame(r) \/ HopClosed(r) \/ GiveUp(r)

Next ==
    \/ \E c \in ContentId, hop \in Hop, dst \in Peer, batch \in Batch : Send(c, hop, dst, batch)
    \/ \E c \in ContentId, dst \in Peer, batch \in Batch : SendUntracked(c, dst, batch)
    \/ \E c \in ContentId : Delivered(c)
    \/ Clock
    \/ Tick
    \/ HandleOutcome
    \/ PollRetry

\* Every admission ends: it carries a deadline of at most 30 s.  The timer
\* fires, its answers are handled and time passes.
Fairness ==
    /\ WF_vars(Clock) /\ WF_vars(Tick) /\ WF_vars(HandleOutcome)
    /\ \A c \in ContentId :
          WF_vars(\E r \in retries : r.content_id = c /\ GiveUp(r))

Spec == Init /\ [][Next]_vars /\ Fairness

-----------------------------------------------------------------------------
(* Types of the task's state and of the tracker under it.                  *)
TypeOK ==
    /\ TrackerTypeOK
    /\ used \subseteq ContentId /\ untracked \subseteq used /\ acked \subseteq used /\ in_flight \subseteq used
    /\ failed \in [ContentId -> Nat]
    /\ \A o \in outcomes : o.kind \in {"retransmit", "failed"} /\ o.content_id \in used
    /\ \A r \in retries : r.content_id \in used /\ r.admitted \in 0..(r.frames - 1)

\* Ids the task has yet to report as failed.
Reporting == {o.content_id : o \in {x \in outcomes : x.kind = "failed"}}

(* A tracked message ends exactly one way: still pending, acknowledged, or   *)
(* reported failed once.  An ACK racing the last tick, or the report that follows    *)
(* it, never makes both (ack_and_get_info and the tick's retain each remove *)
(* the entry under the lock), and no message is dropped in silence.        *)
OneEnding ==
    \A c \in used \ untracked :
       (IF c \in DOMAIN pending THEN 1 ELSE 0) + (IF c \in acked THEN 1 ELSE 0)
       + (IF c \in Reporting THEN 1 ELSE 0) + failed[c] = 1

(* A chunk-retry future owns its message's attempt: while it runs, nothing   *)
(* spends another attempt on the message or fails it; the task knows of it   *)
(* exactly while it runs; and the futures stay inside their slots.  This is  *)
(* what in_flight is for ("Do not spend another attempt or expire an         *)
(* in-flight batch").                                                      *)
RetryOwnsAttempt ==
    /\ \A r \in retries :
          r.content_id \in DOMAIN pending => pending[r.content_id].attempts = r.attempt
    /\ in_flight = {r.content_id : r \in retries}
    /\ Cardinality(retries) = Cardinality(in_flight)
    /\ \A r \in retries : r.content_id \notin Reporting /\ failed[r.content_id] = 0
    /\ Cardinality(retries)
       + Cardinality({o \in outcomes : o.kind = "retransmit" /\ o.entry.frames > 1})
       <= MaxChunkRetries

(* Every tracked message is resolved: it is acknowledged or its attempts run *)
(* out, even when chunked messages compete for too few retry slots.        *)
EveryMessageEnds == \A c \in ContentId : (c \in DOMAIN pending) ~> (c \notin DOMAIN pending)
=============================================================================
