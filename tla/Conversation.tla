---------------------------- MODULE Conversation ----------------------------
(***************************************************************************)
(* The ratcheted conversation of two devices: crates/veil-e2e/src/ratchet.rs *)
(* (seal, open, the store's entry) and what the dispatcher answers when a    *)
(* payload does not open (crates/veil-dispatcher/src/app.rs, delivery.rs).   *)
(* Both devices may start the conversation, messages are lost, repeated and  *)
(* reordered, the threads of a device open messages concurrently, a device   *)
(* restarts, or loses all it held.                                          *)
(*                                                                         *)
(* The store's lock makes one action of every step below, but the key        *)
(* agreement runs unlocked: opening a prologue is Open, which may leave a    *)
(* thread agreeing, and Land.  Certificates are valid or not known yet, and  *)
(* device keys do not change.  Time passes with the messages sealed.        *)
(***************************************************************************)
EXTENDS RatchetSession, Sequences, FiniteSets

CONSTANTS
    Device,           \* two numbers: the order of (node id, instance id)
    Thread,           \* threads of a device that may be in a key agreement
    Interval,         \* DISPLACE_TRY_INTERVAL_SECS and UNOPENABLE_REPLY_INTERVAL
    WedgedAfter,      \* WEDGED_AFTER_FRAME_FAILURES
    Pause,            \* how much time may pass before a message is sealed
    Repairs,          \* bound: messages sealed beyond MaxSeals, to recover
    Faults,           \* what may go wrong: "loss", "repeat", "restart", "reset"
    MaxSeals, MaxFaults  \* bounds

ASSUME DeviceAssumption == Device \subseteq Int /\ \E a, b \in Device : a # b /\ Device = {a, b}
ASSUME ConversationAssumption ==
    /\ Interval \in Nat \ {0} /\ WedgedAfter \in Nat \ {0} /\ Pause \subseteq Nat
    /\ Faults \subseteq {"loss", "repeat", "restart", "reset"}
    /\ {MaxSeals, MaxFaults, Repairs} \subseteq Nat

VARIABLES
    conv,       \* the entry of each device: <<>>, <<root>> or <<root, crossed_receive>>
    cert,       \* the device knows the peer's certificate
    agreeing,   \* opens in their key agreement, by thread
    replied,    \* when the device last answered AppSendUnopenable
    net,        \* payloads under way
    notice,     \* devices an AppSendUnopenable is under way to
    now,        \* unix seconds
    sealed,     \* payloads sealed so far; a payload's number
    faults,     \* how many losses, repeats, restarts and resets have happened
    opened,     \* history: payloads opened on the entry the device holds
    loose,      \* history: payloads handed up by an agreement that was then dropped
    twice,      \* history: payloads handed up again
    refused,    \* history: payloads refused that had not been opened
    whole       \* history: nobody has given a conversation up

store == <<conv, cert, agreeing, replied>>
history == <<opened, loose, twice, refused, whole>>
vars == <<store, net, notice, now, sealed, faults, history>>

Peer(d) == CHOOSE e \in Device : e # d
Never == -Interval
Later(a, b) == IF a >= b THEN a ELSE b

\* A root of an entry: its session and the fields of struct Entry.  The pending
\* and the accepted prologue are the root's own, so a flag says if it is kept.
Root == [s : Session, pending : BOOLEAN, accepted : BOOLEAN, proven : BOOLEAN,
         failures : Nat, peer_sent_at : Nat, last_displace_try : Int]

\* A payload: KIND_PROLOGUE or KIND_FRAME, with the time it was sealed at.
Payload == [id : Nat, from : Device, prologue : BOOLEAN, f : Frame, at : Nat]

Spend(kind) == kind \in Faults /\ faults < MaxFaults /\ faults' = faults + 1

-----------------------------------------------------------------------------
(* Sealing.                                                                *)

\* The entry seal_inner seals into: one settled by the certificate, or a new one.
Settled(d) ==
    IF conv[d] = <<>>
    THEN <<[s |-> Initiator(sealed + 1), pending |-> TRUE, accepted |-> FALSE, proven |-> TRUE,
            failures |-> 0, peer_sent_at |-> 0, last_displace_try |-> Never]>>
    ELSE [conv[d] EXCEPT ![1].proven = TRUE]

\* The pending prologue goes with every payload until the peer answers.
SealedPayload(d, at) ==
    LET root == Settled(d)[1]
    IN  [id |-> sealed + 1, from |-> d, prologue |-> root.pending,
         f |-> SendFrame(root.s, sealed + 1), at |-> at]

Seal(d, wait) ==
    /\ now' = now + wait /\ sealed' = sealed + 1
    /\ conv' = [conv EXCEPT ![d] = [Settled(d) EXCEPT ![1].s = Sent(@, sealed + 1)]]
    /\ cert' = [cert EXCEPT ![d] = TRUE]
    /\ net' = net \cup {SealedPayload(d, now + wait)}
    /\ UNCHANGED <<agreeing, replied, notice, faults, history>>

-----------------------------------------------------------------------------
(* Opening under a root that is held.                                      *)

\* note_opened
Noted(r, m, known) ==
    [r EXCEPT !.s = Received(@, m.f), !.pending = FALSE, !.failures = 0,
              !.peer_sent_at = Later(@, m.at), !.proven = @ \/ known]

OpensHeld(c, m) == \E i \in DOMAIN c : Opens(c[i].s, m.f)
UnavailableHeld(c, m) == \E i \in DOMAIN c : Unavailable(c[i].s, m.f)

\* The frame ends the first chain of a root more than MAX_SKIP messages, or
\* MAX_SKIP_TOTAL banked, after the last of it that came (TooManySkipped).
GapTooWide(c, m) ==
    \E i \in DOMAIN c : Answers(c[i].s, m.f) /\ ~TurnsEpoch(c[i].s, m.f)

\* open_held: under the root in use, else under the other; a bare frame under the
\* other one shows that the peer has chosen it.
OpenHeld(c, m, known) ==
    IF Opens(c[1].s, m.f) THEN [c EXCEPT ![1] = Noted(@, m, known)]
    ELSE LET other == Noted(c[2], m, known)
             main == [c[1] EXCEPT !.failures = 0, !.peer_sent_at = Later(@, other.peer_sent_at)]
         IN  IF m.prologue THEN <<main, other>>
             ELSE <<[other EXCEPT !.peer_sent_at = Later(@, main.peer_sent_at)], main>>

\* Mutant: only the prologue of the root in use is known again.
RecognizesMain(c, m) == m.prologue /\ c # <<>> /\ c[1].accepted /\ c[1].s.root = m.f.chain

\* recognizes_prologue
Recognizes(c, m) ==
    m.prologue /\ \E i \in DOMAIN c : c[i].accepted /\ c[i].s.root = m.f.chain

\* May the entry be replaced: nobody ever vouched for it, or it was never answered.
Displaceable(c, m, known) == c # <<>> /\ m.prologue /\ known /\ (~c[1].proven \/ c[1].pending)

\* Mutant: as new is new enough.
FresherOrEqual(c, m, known) == c # <<>> /\ m.prologue /\ known /\ m.at >= c[1].peer_sent_at

\* Or it was sealed after everything of the peer that opened here.
Fresher(c, m, known) == c # <<>> /\ m.prologue /\ known /\ m.at > c[1].peer_sent_at

-----------------------------------------------------------------------------
(* Outcomes of an open at device d.                                        *)

\* Mutant: a device that has not answered yet is taken to have just done so.
ReplyAfterFirst(d) ==
    IF replied[d] # Never /\ now - replied[d] >= Interval
    THEN replied' = [replied EXCEPT ![d] = now] /\ notice' = notice \cup {Peer(d)}
    ELSE UNCHANGED <<replied, notice>>

\* AppSendUnopenable, at most once in an interval.
Reply(d) ==
    IF now - replied[d] >= Interval
    THEN replied' = [replied EXCEPT ![d] = now] /\ notice' = notice \cup {Peer(d)}
    ELSE UNCHANGED <<replied, notice>>
Silent == UNCHANGED <<replied, notice>>

Keep(d, c) == conv' = [conv EXCEPT ![d] = c]

\* The plaintext goes up to the application.  That it did before is excused if no
\* entry could know: the agreement that opened it was dropped.
HandUp(d, m) ==
    twice' = IF m.id \in opened[d] \cup loose
             THEN twice \cup {[id |-> m.id, excused |-> m.id \notin opened[d]]}
             ELSE twice

Deliver(d, m) ==
    /\ HandUp(d, m)
    /\ opened' = [opened EXCEPT ![d] = @ \cup {m.id}]
    /\ UNCHANGED <<loose, refused, whole>>

\* The message opened, and its session is dropped in favour of the one held.
DeliverLoose(d, m) ==
    /\ HandUp(d, m)
    /\ loose' = loose \cup {m.id}
    /\ UNCHANGED <<opened, refused, whole>>

\* The device has begun a conversation nobody has answered, and holds no certificate
\* to tell the peer's own beginning from a stranger's.
Unvouched(d) == conv[d] # <<>> /\ conv[d][1].pending /\ ~cert[d]

\* A payload not handed up before.  A prologue may come after what followed it, too
\* far into its chain, or where nobody vouches for it; a frame may answer from beyond
\* too wide a gap.
RefusedNow(d, m) ==
    LET excused == IF m.prologue
                   THEN ~AcceptFits(m.f) \/ Unvouched(d) \/ \E i \in opened[d] : i > m.id
                   ELSE GapTooWide(conv[d], m)
    IN  IF m.id \in opened[d] \cup loose THEN refused
        ELSE refused \cup {[id |-> m.id, excused |-> excused]}
Refuse(d, m) == refused' = RefusedNow(d, m) /\ UNCHANGED <<opened, loose, twice, whole>>

\* The entry of d is given up, and with it the memory of what it has opened.
GiveUp(d) ==
    /\ Keep(d, <<>>)
    /\ opened' = [opened EXCEPT ![d] = {}]
    /\ whole' = FALSE

-----------------------------------------------------------------------------
(* open_inner up to the key agreement.                                     *)

\* Mutant: one failure too many.
CountFailureLate(d, m) ==
    LET failures == conv[d][1].failures + 1
    IN  IF failures > WedgedAfter
        THEN GiveUp(d) /\ refused' = RefusedNow(d, m) /\ UNCHANGED <<loose, twice>>
        ELSE Keep(d, [conv[d] EXCEPT ![1].failures = failures]) /\ Refuse(d, m)

\* A bare frame that does not open: the third in a row gives the entry up.
CountFailure(d, m) ==
    LET failures == conv[d][1].failures + 1
    IN  IF failures >= WedgedAfter
        THEN GiveUp(d) /\ refused' = RefusedNow(d, m) /\ UNCHANGED <<loose, twice>>
        ELSE Keep(d, [conv[d] EXCEPT ![1].failures = failures]) /\ Refuse(d, m)

\* Whether the prologue may ask to be fresher, which costs a key agreement.
MayTry(d, m) ==
    /\ m.prologue /\ cert[d] /\ ~Displaceable(conv[d], m, cert[d])
    /\ now - conv[d][1].last_displace_try >= Interval

Idle(d) == Thread \ {t.thread : t \in {u \in agreeing : u.d = d}}
StartAgreement(d, m, ask) ==
    /\ Idle(d) # {}
    /\ agreeing' = agreeing \cup {[d |-> d, thread |-> CHOOSE k \in Idle(d) : TRUE,
                                   m |-> m, known |-> cert[d], ask |-> ask]}
    /\ Silent /\ UNCHANGED history

Open(d, m) ==
    LET c == conv[d]
    IN  \/ /\ OpensHeld(c, m)
           /\ Keep(d, OpenHeld(c, m, cert[d])) /\ Deliver(d, m)
           /\ Silent /\ UNCHANGED <<agreeing, cert>>
        \/ /\ c = <<>> /\ ~m.prologue
           /\ Refuse(d, m) /\ Reply(d)
           /\ UNCHANGED <<conv, agreeing, cert>>
        \/ /\ c = <<>> /\ m.prologue
           /\ StartAgreement(d, m, FALSE)
           /\ UNCHANGED <<conv, cert>>
        \/ /\ c # <<>> /\ ~OpensHeld(c, m)
           /\ \/ /\ UnavailableHeld(c, m) \/ Recognizes(c, m)
                 /\ Refuse(d, m) /\ Silent
                 /\ UNCHANGED <<conv, agreeing, cert>>
              \/ /\ ~UnavailableHeld(c, m) /\ ~Recognizes(c, m)
                 /\ \/ /\ MayTry(d, m)
                       /\ Keep(d, [c EXCEPT ![1].last_displace_try = now])
                       /\ StartAgreement(d, m, TRUE)
                       /\ UNCHANGED cert
                    \/ /\ ~m.prologue
                       /\ CountFailure(d, m) /\ Reply(d)
                       /\ UNCHANGED <<agreeing, cert>>
                    \/ /\ Displaceable(c, m, cert[d])
                       /\ StartAgreement(d, m, FALSE)
                       /\ UNCHANGED <<conv, cert>>
                    \/ /\ m.prologue /\ ~MayTry(d, m) /\ ~Displaceable(c, m, cert[d])
                       /\ Refuse(d, m) /\ Silent
                       /\ UNCHANGED <<conv, agreeing, cert>>

\* A payload arrives; it is gone from the network, or comes once more.
Receive(m) ==
    /\ Open(Peer(m.from), m)
    /\ \/ net' = net \ {m} /\ UNCHANGED faults
       \/ net' = net /\ Spend("repeat")
    /\ UNCHANGED <<now, sealed>>

-----------------------------------------------------------------------------
(* The key agreement is done; the store is asked again.                    *)

Incoming(m, known) ==
    [s |-> Responder(m.f), pending |-> FALSE, accepted |-> TRUE, proven |-> known,
     failures |-> 0, peer_sent_at |-> m.at, last_displace_try |-> Never]

\* Both ends have started at once: one root is used, the other still opens.
Crossed(c, known) == c # <<>> /\ known /\ c[1].pending
KeepsLocal(d, held) == d < Peer(d) /\ held.s.ns <= MaxSkip

\* Mutant: the root not chosen is dropped.
CrossDropsOther(d, held, m) ==
    IF KeepsLocal(d, held) THEN <<held>> ELSE <<Incoming(m, TRUE)>>

Cross(d, held, m) ==
    LET in == Incoming(m, TRUE)
        at == Later(held.peer_sent_at, m.at)
    IN  IF KeepsLocal(d, held)
        THEN <<[held EXCEPT !.peer_sent_at = at, !.failures = 0], in>>
        ELSE <<[in EXCEPT !.peer_sent_at = at], held>>

Admits(c, m, known) == c = <<>> \/ Displaceable(c, m, known) \/ Fresher(c, m, known)

Land(t) ==
    LET d == t.d
        m == t.m
        c == conv[d]
        again == Recognizes(c, m)
    IN  /\ agreeing' = agreeing \ {t}
        /\ \/ /\ ~AcceptFits(m.f)
              /\ Refuse(d, m) /\ Reply(d) /\ UNCHANGED conv
           \/ /\ AcceptFits(m.f) /\ Silent
              /\ \/ /\ again /\ OpensHeld(c, m)
                    /\ Keep(d, OpenHeld(c, m, t.known)) /\ Deliver(d, m)
                 \/ /\ again /\ ~OpensHeld(c, m)
                    /\ Refuse(d, m) /\ UNCHANGED conv
                 \/ /\ ~again /\ ~Admits(c, m, t.known)
                    /\ IF t.ask THEN Refuse(d, m) ELSE DeliverLoose(d, m)
                    /\ UNCHANGED conv
                 \/ /\ ~again /\ Admits(c, m, t.known) /\ ~Crossed(c, t.known)
                    /\ Keep(d, <<Incoming(m, t.known)>>) /\ Deliver(d, m)
                 \/ /\ ~again /\ Admits(c, m, t.known) /\ Crossed(c, t.known)
                    /\ IF Len(c) = 2 /\ ~Fresher(c, m, t.known)
                       THEN Refuse(d, m) /\ UNCHANGED conv
                       ELSE Keep(d, Cross(d, c[1], m)) /\ Deliver(d, m)
        /\ UNCHANGED <<cert, net, now, sealed, faults>>

-----------------------------------------------------------------------------
(* The rest of the world.                                                  *)

\* forget_peer_device: told that the peer cannot open, the device starts over.
HandleUnopenable(d) ==
    /\ d \in notice /\ notice' = notice \ {d}
    /\ IF conv[d] = <<>> THEN UNCHANGED <<conv, opened, whole>> ELSE GiveUp(d)
    /\ UNCHANGED <<cert, agreeing, replied, net, now, sealed, faults, refused, loose, twice>>

\* The sweep and the quota take an entry nobody vouched for.
Evict(d) ==
    /\ conv[d] # <<>> /\ ~conv[d][1].proven
    /\ Keep(d, <<>>)
    /\ opened' = [opened EXCEPT ![d] = {}]
    /\ UNCHANGED <<cert, agreeing, replied, net, notice, now, sealed, faults, refused, loose, twice,
                   whole>>

\* warm_ratchet_sender: the certificate of the peer has been resolved.
Resolve(d) ==
    /\ ~cert[d] /\ cert' = [cert EXCEPT ![d] = TRUE]
    /\ UNCHANGED <<conv, agreeing, replied, net, notice, now, sealed, faults, history>>

\* The process ends; what Entry::encode leaves out and the certificates are forgotten.
Restored(c) ==
    [i \in DOMAIN c |-> [c[i] EXCEPT !.failures = 0, !.last_displace_try = Never,
                                     !.accepted = @ /\ Len(c) = 2]]
Restart(d) ==
    /\ Spend("restart")
    /\ Keep(d, Restored(conv[d]))
    /\ agreeing' = {t \in agreeing : t.d # d}
    /\ replied' = [replied EXCEPT ![d] = Never]
    /\ cert' = [cert EXCEPT ![d] = FALSE]
    /\ UNCHANGED <<net, notice, now, sealed, history>>

\* The device loses all it held.
Reset(d) ==
    /\ Spend("reset")
    /\ GiveUp(d)
    /\ agreeing' = {t \in agreeing : t.d # d}
    /\ replied' = [replied EXCEPT ![d] = Never]
    /\ cert' = [cert EXCEPT ![d] = FALSE]
    /\ UNCHANGED <<net, notice, now, sealed, refused, loose, twice>>

Lose ==
    /\ Spend("loss")
    /\ \/ \E m \in net : net' = net \ {m} /\ UNCHANGED notice
       \/ \E d \in notice : notice' = notice \ {d} /\ UNCHANGED net
    /\ UNCHANGED <<store, now, sealed, history>>

Init ==
    /\ conv = [d \in Device |-> <<>>] /\ cert = [d \in Device |-> FALSE]
    /\ agreeing = {} /\ replied = [d \in Device |-> Never]
    /\ net = {} /\ notice = {} /\ now = 0 /\ sealed = 0
    /\ faults = 0
    /\ opened = [d \in Device |-> {}] /\ loose = {} /\ twice = {} /\ refused = {} /\ whole = TRUE

\* What d would seal after a pause opens at the peer, now or after a key agreement.
Understood(d) ==
    LET e == Peer(d)
        c == conv[e]
        m == SealedPayload(d, now + Interval)
    IN  \/ OpensHeld(c, m)
        \/ m.prologue /\ AcceptFits(m.f) /\ c = <<>>
        \/ m.prologue /\ AcceptFits(m.f) /\ ~UnavailableHeld(c, m) /\ ~Recognizes(c, m)
           /\ cert[e] /\ Admits(c, m, TRUE)

\* The unanswered chain of d is past MAX_SKIP, too far for its prologue.
TooFar(d) == LET m == SealedPayload(d, now) IN m.prologue /\ ~AcceptFits(m.f)

\* Nothing is under way.
AtRest == net = {} /\ notice = {} /\ agreeing = {} /\ \A d \in Device : cert[d]

\* Messages beyond the bound: a device that is not understood sends again later.
Repair(d) ==
    /\ AtRest /\ ~Understood(d) /\ ~TooFar(d)
    /\ sealed < MaxSeals + Repairs
    /\ Seal(d, Interval)

Next ==
    \/ \E d \in Device :
          \/ sealed < MaxSeals /\ \E wait \in Pause : Seal(d, wait)
          \/ Repair(d) \/ HandleUnopenable(d) \/ Evict(d) \/ Resolve(d)
          \/ Restart(d) \/ Reset(d)
    \/ \E m \in net : Receive(m)
    \/ \E t \in agreeing : Land(t)
    \/ Lose

Fairness ==
    /\ \A d \in Device : WF_vars(Repair(d)) /\ WF_vars(HandleUnopenable(d)) /\ WF_vars(Resolve(d))
    /\ WF_vars(\E m \in net : Receive(m))
    /\ WF_vars(\E t \in agreeing : Land(t))

Spec == Init /\ [][Next]_vars /\ Fairness

-----------------------------------------------------------------------------
(* Properties.                                                             *)

\* Types; an entry has at most two roots, and one that WEDGED_AFTER_FRAME_FAILURES
\* frames in a row did not open under is not kept (count_frame_failure).
TypeOK ==
    /\ \A d \in Device :
          /\ Len(conv[d]) <= 2
          /\ \A i \in DOMAIN conv[d] :
                conv[d][i] \in Root /\ conv[d][i].failures < WedgedAfter
    /\ net \subseteq Payload /\ notice \subseteq Device
    /\ \A t \in agreeing : t.thread \in Thread /\ t.m \in Payload
    /\ cert \in [Device -> BOOLEAN] /\ replied \in [Device -> Int]
    /\ now \in Nat /\ sealed \in 0..(MaxSeals + Repairs)

\* Until somebody gives the conversation up, nothing that was opened on the entry a
\* device holds is handed up again: not by a repeat, not by two threads in the key
\* agreement of one prologue, not under the second root, not after a restart.  What an
\* agreement handed up whose session was then dropped may be, as no entry knows of it.
OpenedOnce == whole => \A r \in twice : r.excused

\* Until then nothing sealed is refused (open_inner): the second root is there
\* for what was sealed before the devices agreed on the first.
NothingRefused == whole => refused = {}

\* What is refused without ever being handed up is a prologue that later payloads of
\* its sender have overtaken, one too far into its chain to be accepted, one that
\* comes to an unanswered root after a restart and before the certificate is known
\* again, or a frame from beyond too wide a gap in the first chain (open_inner).
OnlyOvertakenRefused == whole => \A r \in refused : r.excused

\* Whatever the order of two first messages, losses, repeats and restarts: until
\* somebody gives the conversation up, what either device seals next opens at the
\* other, unless it is past MAX_SKIP in its chain or beyond too wide a gap.
NextOpens ==
    whole /\ (\A d \in Device : cert[d])
    => \A d \in Device :
          \/ Understood(d) \/ TooFar(d)
          \/ GapTooWide(conv[Peer(d)], SealedPayload(d, now))

\* A root the peer has answered, vouched for by a certificate, gives way only to a
\* prologue sealed after all that has been opened from that peer (open_inner, admit).
RootsStay ==
    [][\A d \in Device :
          conv[d] # <<>> /\ conv'[d] # <<>> /\ conv[d][1].proven /\ ~conv[d][1].pending
          => \/ \E i \in DOMAIN conv'[d] : conv'[d][i].s.root = conv[d][1].s.root
             \/ conv'[d][1].peer_sent_at > conv[d][1].peer_sent_at]_vars

\* After the last fault, devices that keep writing come to understand each other
\* again and stay so, a lost answer or a device that lost all it held included;
\* again not past MAX_SKIP.
Recovers == <>[](\A d \in Device : Understood(d) \/ TooFar(d))
=============================================================================
