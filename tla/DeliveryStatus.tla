--------------------------- MODULE DeliveryStatus ---------------------------
(***************************************************************************)
(* handle_delivery_status (crates/veil-dispatcher/src/delivery.rs): what a  *)
(* session thread does with a DELIVERED, at the granularity of the          *)
(* tracker's mutex.  The tracker is one std::sync::Mutex shared by the      *)
(* session threads, the IPC senders and the retry task; it is not           *)
(* reentrant.  The handler looks the entry up in the condition of an        *)
(* `if let`, so its guard is a temporary of the condition: it is dropped    *)
(* at the end of the body when the pattern matches, at once when it does    *)
(* not.                                                                     *)
(***************************************************************************)
EXTENDS PendingAck

CONSTANTS
    Thread,     \* session threads
    E2eId,      \* ids sent end-to-end encrypted: their ACK key is not zero
    NoThread    \* no thread: the mutex is free

VARIABLES
    holder,     \* owner of the tracker's mutex
    handling,   \* thread -> the DELIVERED it handles and how far it is
    used        \* ids registered so far

vars == <<trackerVars, holder, handling, used>>

Idle == [step |-> "idle"]
Free == holder = NoThread

Init ==
    /\ TrackerInit
    /\ holder = NoThread
    /\ handling = [t \in Thread |-> Idle]
    /\ used = {}

\* A DELIVERED arrives; authentic says whether its MAC is the recipient's.
Receive(t, c, authentic) ==
    /\ handling[t] = Idle
    /\ handling' = [handling EXCEPT ![t] =
                      [step |-> "peek", content_id |-> c, authentic |-> authentic]]
    /\ UNCHANGED <<trackerVars, holder, used>>

\* peek_ack_info in the condition: the guard stays when there is an entry.
Peek(t) ==
    /\ handling[t].step = "peek" /\ Free
    /\ IF handling[t].content_id \in DOMAIN pending
       THEN /\ holder' = t
            /\ handling' = [handling EXCEPT ![t].step = "check"]
       ELSE /\ holder' = NoThread
            /\ handling' = [handling EXCEPT ![t] = Idle]
    /\ UNCHANGED <<trackerVars, used>>

\* The MAC check: a forged DELIVERED of an E2E message is dropped, and with
\* the end of the body the guard.
Check(t) ==
    /\ handling[t].step = "check"
    /\ IF handling[t].content_id \in E2eId /\ ~handling[t].authentic
       THEN /\ holder' = NoThread
            /\ handling' = [handling EXCEPT ![t] = Idle]
       ELSE /\ handling' = [handling EXCEPT ![t].step = "ack"]
            /\ UNCHANGED holder
    /\ UNCHANGED <<trackerVars, used>>

\* The body locks the mutex again for ack_and_get_info; after it both guards
\* are dropped.
AckEntry(t) ==
    /\ handling[t].step = "ack" /\ Free
    /\ Ack(handling[t].content_id)
    /\ handling' = [handling EXCEPT ![t] = Idle]
    /\ UNCHANGED <<holder, used>>

\* The IPC sender's register.
Register(c, p) ==
    /\ Free /\ c \notin used
    /\ used' = used \cup {c}
    /\ \E batch \in Batch : RegisterFrames(c, p, p, batch)
    /\ UNCHANGED <<holder, handling>>

\* The retry task's tick.
Tick ==
    /\ Free
    /\ \E R \in Retransmits({}, 1) : TickWithBatchAdmission({}, R)
    /\ UNCHANGED <<holder, handling, used>>

Clock == ClockStep /\ UNCHANGED <<holder, handling, used>>

Handle(t) == Peek(t) \/ Check(t) \/ AckEntry(t)

Next ==
    \/ \E c \in ContentId, p \in Peer : Register(c, p)
    \/ \E t \in Thread, c \in ContentId, authentic \in BOOLEAN : Receive(t, c, authentic)
    \/ \E t \in Thread : Handle(t)
    \/ Tick
    \/ Clock

\* A session thread keeps running its handler, the timer fires, time passes.
Spec ==
    /\ Init /\ [][Next]_vars
    /\ \A t \in Thread : WF_vars(Handle(t))
    /\ WF_vars(Tick) /\ WF_vars(Clock)

-----------------------------------------------------------------------------
(* "If a DeliveryStatus(DELIVERED) is received before the deadline the      *)
(* entry is cleared" (crates/veil-pending-ack/src/lib.rs): an authentic      *)
(* DELIVERED that a thread starts to handle clears the entry of its message. *)
DeliveredClears ==
    \A t \in Thread, c \in ContentId :
       (/\ handling[t].step = "peek" /\ handling[t].content_id = c
        /\ handling[t].authentic /\ c \in DOMAIN pending)
       ~> (c \notin DOMAIN pending)
=============================================================================
