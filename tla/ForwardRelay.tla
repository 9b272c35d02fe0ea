---------------------------- MODULE ForwardRelay ----------------------------
(***************************************************************************)
(* One envelope's way through the delivery plane: the originator's send and *)
(* retransmits (veil-ipc send.rs, the retry task over PendingAck), relays   *)
(* that forward it (check_relay_preconditions, relay_forward_with_carrier)  *)
(* and the recipient that hands it to an application and answers DELIVERED  *)
(* (terminal_deliver, send_delivery_ack), all in                            *)
(* crates/veil-dispatcher/src/delivery.rs.                                  *)
(*                                                                         *)
(* Frames wait on their session as long as they like, overtake one another  *)
(* and may be lost.  Routes are any: a relay hands the frame to any linked  *)
(* node its route cache may name.  Time is relative: the age of an envelope  *)
(* on the origin's clock, what is left of a dedup window or of an ACK wait.  *)
(* Every node reads its own clock, Behind the origin's by any amount.        *)
(* Dedup caches are below capacity (ExpiryCache says what they keep until    *)
(* then).                                                                  *)
(***************************************************************************)
EXTENDS PendingAck

CONSTANTS
    Origin, Recipient,  \* the two endpoints; the other peers are relays
    Link,               \* <<n, m>>: n may queue a Forward to m
    Answers,            \* whether the recipient has a session to the origin
    AckedId,            \* ids sent with require_ack; the rest are unnumbered
    Unopenable,         \* ids whose payload the recipient cannot decrypt
    MaxRelayHops,       \* MAX_RELAY_HOPS
    EnvTtl,             \* instants an envelope is unexpired on the origin's clock: ttl_secs + 1
    Behind,             \* peer -> how far its clock is behind the origin's (may be negative)
    MaxFuture,          \* MAX_CLOCK_SKEW_SECS: how far ahead a relay lets created_at be
    SeenTtl,            \* FORWARD_SEEN_SET_TTL_SECS
    MaxAge,             \* bound: an age at which every node takes an envelope for expired
    MaxLosses,          \* bound: frames and answers the network loses
    MaxSends,           \* bound: messages the application sends
    Prompt              \* whether what is not lost arrives before time passes

ASSUME RelayAssumption ==
    /\ Origin \in Peer /\ Recipient \in Peer /\ Link \subseteq Peer \X Peer
    /\ AckedId \subseteq ContentId /\ Unopenable \subseteq ContentId
    /\ Answers \in BOOLEAN /\ Prompt \in BOOLEAN
    /\ MaxRelayHops \in Nat /\ MaxLosses \in Nat /\ MaxSends \in Nat
    /\ EnvTtl \in Nat /\ SeenTtl \in Nat /\ MaxFuture \in Nat     \* 31 s, 60 s and 300 s
    /\ Behind \in [Peer -> Int]
    /\ MaxAge \in Nat /\ \A n \in Peer : EnvTtl + Behind[n] <= MaxAge

VARIABLES
    stage,      \* content id -> "unsent", "queued" (not registered yet) or "sent"
    age,        \* content id -> instants since its envelope was created, up to MaxAge
    net,        \* Forward frames in flight
    answers,    \* ids of DELIVERED in flight to the origin
    seen,       \* forward_seen_content and forward_seen_set: peer -> key -> window left
    opening,    \* content id -> arrivals of it the recipient is decrypting
    replay,     \* terminal_ack_replay: id -> window left
    opened,     \* content id -> times the recipient opened it for an application
    delivered,  \* content id -> times an application's queue took it
    acked,      \* ids whose DELIVERED cleared the entry
    failed,     \* ids reported AppSendFailed
    passes,     \* history: peer -> key of an attempt -> times forwarded
    losses

relayVars == <<seen, passes>>
recipientVars == <<opening, replay, opened, delivered>>
originVars == <<trackerVars, stage, acked, failed>>
vars == <<originVars, relayVars, recipientVars, age, net, answers, losses>>

\* attempt 0 stands for a frame without the attempt extension.
Attempts == 0..MaxAttempts
Frame == [content_id : ContentId, attempt : Attempts, hops : 0..MaxRelayHops,
          from : Peer, to : Peer]

\* Dedup keys: <<c, 0>> is the content id in forward_seen_content, <<c, a>> the
\* hash of id and attempt in forward_seen_set.
Keys == ContentId \X Attempts
Live(n, key) == seen[n][key] > 0

\* forward_ttl_already_expired at node n: its clock is past created_at + ttl_secs.
Expired(n, c) == age[c] >= EnvTtl + Behind[n]

\* check_relay_preconditions: created_at is too far ahead of n's clock.
TooFarAhead(n, c) == age[c] + MaxFuture < Behind[n]

Init ==
    /\ TrackerInit
    /\ stage = [c \in ContentId |-> "unsent"]
    /\ age = [c \in ContentId |-> 0]
    /\ net = {} /\ answers = {}
    /\ seen = [n \in Peer |-> [k \in Keys |-> 0]]
    /\ opening = [c \in ContentId |-> 0] /\ replay = [c \in ContentId |-> 0]
    /\ opened = [c \in ContentId |-> 0] /\ delivered = [c \in ContentId |-> 0]
    /\ acked = {} /\ failed = {}
    /\ passes = [n \in Peer |-> [k \in Keys |-> 0]]
    /\ losses = 0

Linked(n) == {m \in Peer : <<n, m>> \in Link}
FramesTo(c, attempt, hops, n, H) ==
    {[content_id |-> c, attempt |-> attempt, hops |-> hops, from |-> n, to |-> m] : m \in H}

-----------------------------------------------------------------------------
(* The origin.                                                             *)

\* The envelope is queued on the first hop that accepts it; without an ACK
\* request small cells may take several.
Originate(c, H) ==
    /\ stage[c] = "unsent" /\ H # {}
    /\ Cardinality({i \in ContentId : stage[i] # "unsent"}) < MaxSends
    /\ c \in AckedId => Cardinality(H) = 1
    /\ stage' = [stage EXCEPT ![c] = IF c \in AckedId THEN "queued" ELSE "sent"]
    /\ net' = net \cup FramesTo(c, IF c \in AckedId THEN 1 ELSE 0, 0, Origin, H)
    /\ UNCHANGED <<trackerVars, acked, failed, relayVars, recipientVars, age, answers, losses>>

\* register, after the frame is queued: a DELIVERED may have come before.
Register(c, hop) ==
    /\ stage[c] = "queued"
    /\ stage' = [stage EXCEPT ![c] = "sent"]
    /\ \E batch \in Batch : RegisterFrames(c, hop, Recipient, batch)
    /\ UNCHANGED <<acked, failed, relayVars, recipientVars, age, net, answers, losses>>

\* The retry task: every due entry is sent again on its hop, with the next
\* attempt number, or reported failed.
Retransmit ==
    \E R \in Retransmits({}, 0) :
       /\ Due({}) # {}
       /\ TickWithBatchAdmission({}, R)
       /\ net' = net \cup UNION {FramesTo(c, pending[c].attempts + 1, 0, Origin,
                                          {pending[c].next_hop}) : c \in R}
       /\ failed' = failed \cup Exhausted({})
       /\ UNCHANGED <<stage, acked, relayVars, recipientVars, age, answers, losses>>

\* handle_delivery_status: clears the entry if there is one.  The mutex it
\* takes is the subject of DeliveryStatus, not of this module.
DeliveredArrives(c) ==
    /\ c \in answers
    /\ answers' = answers \ {c}
    /\ IF c \in DOMAIN pending THEN Ack(c) /\ acked' = acked \cup {c}
                               ELSE UNCHANGED <<trackerVars, acked>>
    /\ UNCHANGED <<stage, failed, relayVars, recipientVars, age, net, losses>>

-----------------------------------------------------------------------------
(* A relay.                                                                *)

\* Mutants: numbered frames are not deduplicated; numbered frames are
\* deduplicated by content id, as unnumbered ones are.
NumberedAlwaysNew(n, f) == f.attempt = 0 /\ Live(n, <<f.content_id, 0>>)
DuplicateByContent(n, f) == Live(n, <<f.content_id, 0>>)

\* A duplicate: of the attempt, or of the content id if it has no number.
RelayDuplicate(n, f) == Live(n, <<f.content_id, f.attempt>>)

\* Mutant: off by one.
OverHopLimitLate(f) == f.hops > MaxRelayHops
OverHopLimit(f) == f.hops >= MaxRelayHops

\* Windows start for new keys only; a numbered frame reserves its id too.
\* A frame over the hop limit is dropped before the dedup.
Recorded(n, keys) == [k \in Keys |-> IF k \in keys /\ seen[n][k] = 0 THEN SeenTtl ELSE seen[n][k]]

\* Where relay n may send f: to the recipient if its session takes the frame,
\* else to one or several candidates, never back and never to itself; nowhere
\* if there is none (that all of them refuse the frame is a loss: Lose).
Targets(n, f) ==
    LET candidates == Linked(n) \ {f.from, n}
        direct == Linked(n) \cap {Recipient}
    IN  IF candidates = {} THEN {direct} ELSE ({direct} \cup SUBSET candidates) \ {{}}

\* handle_delivery_forward at a node that is not the recipient.
RelayForward(f) ==
    /\ f \in net /\ f.to # Recipient
    /\ LET n == f.to
           c == f.content_id
           fresh == ~Expired(n, c) /\ ~OverHopLimit(f) /\ ~TooFarAhead(n, c)
           key == <<c, f.attempt>>
       IN  /\ seen' = IF fresh THEN [seen EXCEPT ![n] = Recorded(n, {key, <<c, 0>>})] ELSE seen
           /\ IF fresh /\ ~RelayDuplicate(n, f)
              THEN /\ \E H \in Targets(n, f) :
                        net' = (net \ {f}) \cup FramesTo(c, f.attempt, f.hops + 1, n, H)
                   /\ passes' = [passes EXCEPT ![n][key] = @ + 1]
              ELSE net' = net \ {f} /\ UNCHANGED passes
    /\ UNCHANGED <<originVars, recipientVars, age, answers, losses>>

-----------------------------------------------------------------------------
(* The recipient.                                                          *)

\* send_delivery_ack: over a session to the sender, or not at all.
Answered(c) == IF Answers THEN {c} ELSE {}

\* Mutant: a duplicate is answered whether or not it was delivered.
ReplayAnswerAlways(c) == IF c \in AckedId THEN Answered(c) ELSE {}
\* A duplicate is answered again from the replay cache.
ReplayAnswer(c) == IF replay[c] > 0 THEN Answered(c) ELSE {}

\* Mutant: the recipient tells attempts apart, as relays do.
TerminalDuplicateByAttempt(f) == Live(Recipient, <<f.content_id, f.attempt>>)
\* The terminal replay guard goes by the content id alone.
TerminalDuplicate(f) == Live(Recipient, <<f.content_id, 0>>)

\* terminal_deliver up to the replay guard.
TerminalArrival(f) ==
    /\ f \in net /\ f.to = Recipient
    /\ net' = net \ {f}
    /\ LET c == f.content_id
       IN  \/ Expired(Recipient, c) /\ UNCHANGED <<seen, opening, answers>>
           \/ /\ ~Expired(Recipient, c) /\ TerminalDuplicate(f)
              /\ answers' = answers \cup ReplayAnswer(c)
              /\ UNCHANGED <<seen, opening>>
           \/ /\ ~Expired(Recipient, c) /\ ~TerminalDuplicate(f)
              /\ seen' = [seen EXCEPT ![Recipient] = Recorded(Recipient, {<<c, 0>>})]
              /\ opening' = [opening EXCEPT ![c] = @ + 1]
              /\ UNCHANGED answers
    /\ UNCHANGED <<originVars, passes, replay, opened, delivered, age, losses>>

\* ... and from the decryption on: offer it to the application, answer,
\* remember the answer.  The registry drops what an absent or closed endpoint
\* or a full queue cannot take; the answer is sent all the same.
TerminalDeliver(c) ==
    /\ opening[c] > 0
    /\ opening' = [opening EXCEPT ![c] = @ - 1]
    /\ IF c \in Unopenable
       THEN UNCHANGED <<opened, delivered, answers, replay>>
       ELSE /\ opened' = [opened EXCEPT ![c] = @ + 1]
            /\ \/ delivered' = [delivered EXCEPT ![c] = @ + 1]
               \/ UNCHANGED delivered
            /\ answers' = answers \cup (IF c \in AckedId THEN Answered(c) ELSE {})
            /\ replay' = IF c \in AckedId /\ replay[c] = 0
                         THEN [replay EXCEPT ![c] = SeenTtl] ELSE replay
    /\ UNCHANGED <<originVars, relayVars, age, net, losses>>

-----------------------------------------------------------------------------
(* The network and time.                                                   *)

\* A queue overflows, a session drops, a relay sheds load.
Lose ==
    /\ losses < MaxLosses
    /\ losses' = losses + 1
    /\ \/ \E f \in net : net' = net \ {f} /\ UNCHANGED answers
       \/ \E c \in answers : answers' = answers \ {c} /\ UNCHANGED net
    /\ UNCHANGED <<originVars, relayVars, recipientVars, age>>

Elapsed(timers) == [x \in DOMAIN timers |-> SaturatingSub(timers[x], 1)]
Aged(c) == IF stage[c] # "unsent" /\ age[c] < MaxAge THEN age[c] + 1 ELSE age[c]
Running == {c \in ContentId : Aged(c) # age[c] \/ replay[c] > 0}
           \cup {c \in DOMAIN pending : pending[c].left > 0}
           \cup {c \in ContentId : \E n \in Peer, a \in Attempts : seen[n][<<c, a>>] > 0}

Elapse ==
    /\ Running # {}
    /\ Prompt => net = {} /\ answers = {} /\ Due({}) = {}
                 /\ \A c \in ContentId : stage[c] # "queued" /\ opening[c] = 0
    /\ age' = [c \in ContentId |-> Aged(c)] /\ replay' = Elapsed(replay)
    /\ seen' = [n \in Peer |-> Elapsed(seen[n])]
    /\ pending' = [c \in DOMAIN pending |->
                     [pending[c] EXCEPT !.left = SaturatingSub(@, 1)]]
    /\ UNCHANGED <<per_peer, total_bytes, per_peer_bytes, stage, acked, failed,
                   passes, opening, opened, delivered, net, answers, losses>>

Arrival == (\E f \in net : RelayForward(f) \/ TerminalArrival(f))
           \/ (\E c \in ContentId : DeliveredArrives(c))

Next ==
    \/ \E c \in ContentId, H \in SUBSET Linked(Origin) : Originate(c, H)
    \/ \E c \in ContentId, hop \in Linked(Origin) : Register(c, hop)
    \/ Retransmit
    \/ \E c \in ContentId : DeliveredArrives(c)
    \/ \E f \in net : RelayForward(f)
    \/ \E f \in net : TerminalArrival(f)
    \/ \E c \in ContentId : TerminalDeliver(c)
    \/ Lose
    \/ Elapse

\* Frames arrive, handlers finish, the timer fires and time passes.
Fairness ==
    /\ WF_vars(Arrival) /\ WF_vars(\E c \in ContentId : TerminalDeliver(c))
    /\ WF_vars(\E c \in ContentId, hop \in Linked(Origin) : Register(c, hop))
    /\ WF_vars(Retransmit) /\ WF_vars(Elapse)

Spec == Init /\ [][Next]_vars /\ Fairness

-----------------------------------------------------------------------------
(* Types; the hop counter stays within MAX_RELAY_HOPS on every frame.       *)
TypeOK ==
    /\ TrackerTypeOK
    /\ stage \in [ContentId -> {"unsent", "queued", "sent"}]
    /\ age \in [ContentId -> 0..MaxAge]
    /\ net \subseteq Frame /\ answers \subseteq AckedId
    /\ seen \in [Peer -> [Keys -> 0..SeenTtl]]
    /\ opening \in [ContentId -> Nat] /\ replay \in [ContentId -> 0..SeenTtl]
    /\ opened \in [ContentId -> Nat] /\ delivered \in [ContentId -> Nat]
    /\ passes \in [Peer -> [Keys -> Nat]]
    /\ acked \subseteq AckedId /\ failed \subseteq AckedId

(* "The destination node drops duplicates by content_id"                    *)
(* (docs/en/CONTRACTS.md): whatever paths, retransmits and delays bring to   *)
(* the recipient, an application sees a message once per dedup window of its *)
(* life there, so once where that life fits the window.  The life ends by    *)
(* the recipient's own clock: no check bounds how far created_at is ahead.   *)
AtMostOncePerWindow ==
    \A c \in ContentId :
       delivered[c] > 0 => (delivered[c] - 1) * SeenTtl < EnvTtl + Behind[Recipient]

(* A message the origin counts as delivered was opened by the recipient for   *)
(* an application: no DELIVERED is sent for one it could not open, or for a   *)
(* duplicate that overtakes the opening; and it is not reported failed too.   *)
(* That the application got it is not promised: see TerminalDeliver.        *)
AckedMeansOpened ==
    /\ \A c \in acked : opened[c] > 0
    /\ acked \cap failed = {}

\* How long relay n accepts one envelope.
AcceptSpan(n) == EnvTtl + (IF Behind[n] < MaxFuture THEN Behind[n] ELSE MaxFuture)

(* Loop suppression: a relay forwards each attempt of an envelope once per    *)
(* dedup window of the time it accepts it, on whatever cycles the route       *)
(* caches close and however far its clock is off.                          *)
OnePassPerWindow ==
    \A n \in Peer, k \in Keys :
       passes[n][k] > 0 => (passes[n][k] - 1) * SeenTtl < AcceptSpan(n)

(* What retransmits are for: while attempts outnumber what is lost, an        *)
(* openable message is acknowledged, over the same relays, which must let     *)
(* every attempt pass.  A DELIVERED that overtakes register finds no entry    *)
(* and is lost too, so the bound is one less than the loss-free attempts:     *)
(* MaxLosses + 1 < MaxAttempts.                                             *)
LossRecovered ==
    \A c \in AckedId \ Unopenable : (stage[c] # "unsent") ~> (c \in acked)
=============================================================================
