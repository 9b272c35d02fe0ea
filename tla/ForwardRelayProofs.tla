------------------------- MODULE ForwardRelayProofs -------------------------
(***************************************************************************)
(* An application sees a message once per dedup window of its life at the   *)
(* recipient, a message counted as delivered was opened there, and relays   *)
(* pass each attempt once per window, on every topology, with every choice  *)
(* of routes, losses, delays, time limits and clock skews.                  *)
(***************************************************************************)
EXTENDS ForwardRelay, PendingAckProofs

\* The arrivals of c that the recipient's replay guard let through.
Arrivals(c) == opening[c] + opened[c]

\* A node accepts an envelope at the ages from..to - 1 and has accepted it k
\* times; w is left of the dedup window.  Every acceptance opened a window that
\* the next one had to wait for, so they took k windows less what is left.
Fits(k, a, w, from, to) ==
    k > 0 => /\ (k - 1) * SeenTtl < to - from
             /\ a >= to \/ from + k * SeenTtl <= a + w

\* The ages at which relay n accepts an envelope start here and end there.
OpensAt(n) == IF Behind[n] > MaxFuture THEN Behind[n] - MaxFuture ELSE 0
ExpiresAt(n) == EnvTtl + Behind[n]

(* Before a message is sent nothing in the system knows its id; its entry   *)
(* appears when it is registered, once.                                    *)
Lifecycle ==
    /\ \A c \in ContentId : stage[c] = "queued" => c \in AckedId
    /\ \A c \in DOMAIN pending \cup acked \cup failed : stage[c] = "sent" /\ c \in AckedId
    /\ DOMAIN pending \cap acked = {} /\ DOMAIN pending \cap failed = {}
    /\ acked \cap failed = {}
    /\ \A c \in ContentId : stage[c] = "unsent" => Arrivals(c) = 0
    /\ \A f \in net : stage[f.content_id] # "unsent"
    /\ \A n \in Peer, c \in ContentId, a \in Attempts :
          stage[c] = "unsent" => passes[n][<<c, a>>] = 0

(* The recipient: arrivals take a window each of the envelope's life there,  *)
(* and only an opened one is delivered.                                    *)
Guarded ==
    \A c \in ContentId :
       /\ delivered[c] <= opened[c]
       /\ Fits(Arrivals(c), age[c], seen[Recipient][<<c, 0>>], 0, ExpiresAt(Recipient))

(* Answers, and the cache they are replayed from, are about opened ids.    *)
AnswersTrue ==
    /\ \A c \in answers \cup acked : opened[c] > 0
    /\ \A c \in ContentId : replay[c] > 0 => c \in AckedId /\ opened[c] > 0

(* A relay: passes of an attempt take a window each of the time it accepts   *)
(* the envelope.                                                           *)
Suppressed ==
    \A n \in Peer, c \in ContentId, a \in Attempts :
       Fits(passes[n][<<c, a>>], age[c], seen[n][<<c, a>>], OpensAt(n), ExpiresAt(n))

(* The types next to the tracker's own.                                    *)
NodeTypes ==
    /\ stage \in [ContentId -> {"unsent", "queued", "sent"}]
    /\ age \in [ContentId -> 0..MaxAge]
    /\ net \subseteq Frame /\ answers \subseteq AckedId
    /\ seen \in [Peer -> [Keys -> 0..SeenTtl]]
    /\ opening \in [ContentId -> Nat] /\ replay \in [ContentId -> 0..SeenTtl]
    /\ opened \in [ContentId -> Nat] /\ delivered \in [ContentId -> Nat]
    /\ passes \in [Peer -> [Keys -> Nat]]
    /\ acked \subseteq AckedId /\ failed \subseteq AckedId

RelayInv ==
    TrackerInv /\ NodeTypes /\ Lifecycle /\ Guarded /\ AnswersTrue /\ Suppressed

\* What the steps below show of themselves; the tracker's part is its own.
NodeInv == NodeTypes /\ Lifecycle /\ Guarded /\ AnswersTrue /\ Suppressed

-----------------------------------------------------------------------------
(* What the invariant says of one pending entry.                           *)
LEMMA EntryTypes ==
    ASSUME RelayInv
    PROVE  /\ DOMAIN pending \in SUBSET ContentId
           /\ \A x \in DOMAIN pending : pending[x] \in PendingEntry
           /\ pending \in [DOMAIN pending -> PendingEntry]
           /\ IsFiniteSet(DOMAIN pending)
BY DEF RelayInv, TrackerInv, TrackerTypeOK

(* Dedup keys are keys, and a frame names one of each kind.                 *)
LEMMA KeyTypes ==
    /\ 0 \in Attempts /\ 1 \in Attempts
    /\ \A c \in ContentId, a \in Attempts : <<c, a>> \in Keys
BY LimitAssumption DEF Attempts, Keys

(* Frames to known peers are frames.                                       *)
LEMMA FramesTyped ==
    ASSUME NEW c \in ContentId, NEW a \in Attempts, NEW h \in 0..MaxRelayHops,
           NEW n \in Peer, NEW H \in SUBSET Peer
    PROVE  /\ FramesTo(c, a, h, n, H) \subseteq Frame
           /\ \A f \in FramesTo(c, a, h, n, H) : f.content_id = c
BY DEF FramesTo, Frame

(* Recording keys opens windows and shortens none.                         *)
LEMMA RecordedWindows ==
    ASSUME RelayInv, NEW n \in Peer, NEW keys
    PROVE  /\ Recorded(n, keys) \in [Keys -> 0..SeenTtl]
           /\ \A k \in Keys : seen[n][k] <= Recorded(n, keys)[k]
           /\ \A k \in Keys : k \in keys /\ seen[n][k] = 0 => Recorded(n, keys)[k] = SeenTtl
<1>1. \A k \in Keys : seen[n][k] \in 0..SeenTtl
  BY DEF RelayInv, NodeTypes
<1> QED
  BY <1>1, RelayAssumption DEF Recorded

(* Counting windows: a larger window, a further acceptance and fewer of them. *)
LEMMA FitsLarger ==
    ASSUME NEW k \in Nat, NEW a \in Nat, NEW w \in Nat, NEW v \in Nat, w <= v,
           NEW from \in Int, NEW to \in Int, Fits(k, a, w, from, to)
    PROVE  Fits(k, a, v, from, to)
<1>1. k * SeenTtl \in Nat
  BY RelayAssumption
<1> DEFINE q == k * SeenTtl
<1> HIDE DEF q
<1>2. k > 0 => a >= to \/ from + q <= a + w
  BY DEF Fits, q
<1>3. k > 0 => a >= to \/ from + q <= a + v
  BY <1>1, <1>2 DEF q
<1> QED
  BY <1>3 DEF Fits, q

LEMMA FitsAgain ==
    ASSUME NEW k \in Nat, NEW a \in Nat, NEW from \in Int, NEW to \in Int,
           Fits(k, a, 0, from, to), from <= a, a < to
    PROVE  Fits(k + 1, a, SeenTtl, from, to)
<1>1. SeenTtl \in Nat /\ k * SeenTtl \in Nat /\ (k + 1) * SeenTtl = k * SeenTtl + SeenTtl
  BY RelayAssumption
<1> DEFINE q == k * SeenTtl
<1>2. q \in Nat /\ (k > 0 => from + q <= a) /\ (k = 0 => q = 0)
  BY <1>1 DEF Fits
<1> HIDE DEF q
<1>3. q < to - from /\ from + (q + SeenTtl) <= a + SeenTtl
  BY <1>1, <1>2
<1>4. (k + 1) - 1 = k
  OBVIOUS
<1> QED
  BY <1>1, <1>3, <1>4 DEF Fits, q

LEMMA FitsFewer ==
    ASSUME NEW k \in Nat, NEW j \in Nat, j <= k, NEW a \in Nat, NEW w \in Nat,
           NEW from \in Int, NEW to \in Int, Fits(k, a, w, from, to)
    PROVE  Fits(j, a, w, from, to)
<1>1. SUFFICES ASSUME j > 0
               PROVE  Fits(j, a, w, from, to)
  BY DEF Fits
<1>2. PICK i \in Nat : k = j + i
  <2>1. k - j \in Nat /\ k = j + (k - j)
    OBVIOUS
  <2> QED
    BY <2>1
<1>3. /\ SeenTtl \in Nat /\ j * SeenTtl \in Nat /\ (j - 1) * SeenTtl \in Nat
      /\ i * SeenTtl \in Nat
      /\ k * SeenTtl = j * SeenTtl + i * SeenTtl
      /\ (k - 1) * SeenTtl = (j - 1) * SeenTtl + i * SeenTtl
  BY <1>1, <1>2, RelayAssumption
<1>4. k > 0
  BY <1>1
<1> DEFINE qj == j * SeenTtl
           qk == k * SeenTtl
           pj == (j - 1) * SeenTtl
           pk == (k - 1) * SeenTtl
           qi == i * SeenTtl
<1>5. /\ qj \in Nat /\ pj \in Nat /\ qi \in Nat /\ qk = qj + qi /\ pk = pj + qi
      /\ pk < to - from /\ (a >= to \/ from + qk <= a + w)
  BY <1>3, <1>4 DEF Fits
<1> HIDE DEF qj, qk, pj, pk, qi
<1>6. pj < to - from /\ (a >= to \/ from + qj <= a + w)
  BY <1>5
<1> QED
  BY <1>6 DEF Fits, qj, pj

(* Time: age and window move together until the envelope has expired.      *)
LEMMA FitsLater ==
    ASSUME NEW k \in Nat, NEW a \in Nat, NEW w \in Nat,
           NEW from \in Int, NEW to \in Int, Fits(k, a, w, from, to),
           NEW b \in Nat, b = a + 1 \/ (b = a /\ a >= to)
    PROVE  Fits(k, b, SaturatingSub(w, 1), from, to)
<1> DEFINE q == k * SeenTtl
<1>1. q \in Nat
  BY RelayAssumption
<1>2. k > 0 => a >= to \/ from + q <= a + w
  BY DEF Fits
<1> HIDE DEF q
<1>3. SaturatingSub(w, 1) \in Nat /\ w <= SaturatingSub(w, 1) + 1
  BY DEF SaturatingSub
<1>4. k > 0 => b >= to \/ from + q <= b + SaturatingSub(w, 1)
  BY <1>1, <1>2, <1>3
<1> QED
  BY <1>4 DEF Fits, q

(* The ages are ages, and every node has expired an envelope at MaxAge.    *)
LEMMA AgeTypes ==
    ASSUME NEW n \in Peer
    PROVE  /\ OpensAt(n) \in Nat /\ ExpiresAt(n) \in Int /\ ExpiresAt(n) <= MaxAge
           /\ ExpiresAt(n) - OpensAt(n) = AcceptSpan(n)
BY RelayAssumption DEF OpensAt, ExpiresAt, AcceptSpan

(* What was accepted before fits a window that only grew.                   *)
LEMMA PassesStay ==
    ASSUME RelayInv, age' = age, seen' \in [Peer -> [Keys -> 0..SeenTtl]],
           \A m \in Peer, k \in Keys : seen[m][k] <= seen'[m][k],
           NEW m \in Peer, NEW x \in ContentId, NEW b \in Attempts
    PROVE  Fits(passes[m][<<x, b>>], age'[x], seen'[m][<<x, b>>], OpensAt(m), ExpiresAt(m))
<1>1. <<x, b>> \in Keys
  BY KeyTypes
<1>2. Fits(passes[m][<<x, b>>], age[x], seen[m][<<x, b>>], OpensAt(m), ExpiresAt(m))
  BY DEF RelayInv, Suppressed
<1>3. /\ passes[m][<<x, b>>] \in Nat /\ age[x] \in Nat
      /\ seen[m][<<x, b>>] \in Nat /\ seen'[m][<<x, b>>] \in Nat
      /\ seen[m][<<x, b>>] <= seen'[m][<<x, b>>]
  BY <1>1, RelayAssumption DEF RelayInv, NodeTypes
<1>4. OpensAt(m) \in Int /\ ExpiresAt(m) \in Int
  BY AgeTypes
<1> DEFINE k == passes[m][<<x, b>>]
           w == seen[m][<<x, b>>]
           v == seen'[m][<<x, b>>]
<1>5. Fits(k, age[x], v, OpensAt(m), ExpiresAt(m))
  <2> HIDE DEF k, w, v
  <2>1. Fits(k, age[x], w, OpensAt(m), ExpiresAt(m))
    BY <1>2 DEF k, w
  <2>2. k \in Nat /\ age[x] \in Nat /\ w \in Nat /\ v \in Nat /\ w <= v
    BY <1>3 DEF k, w, v
  <2> QED
    BY ONLY <2>1, <2>2, <1>4, FitsLarger
<1> QED
  BY <1>5

LEMMA ArrivalsStay ==
    ASSUME RelayInv, age' = age, seen' \in [Peer -> [Keys -> 0..SeenTtl]],
           \A m \in Peer, k \in Keys : seen[m][k] <= seen'[m][k], NEW x \in ContentId
    PROVE  Fits(Arrivals(x), age'[x], seen'[Recipient][<<x, 0>>], 0, ExpiresAt(Recipient))
<1>1. <<x, 0>> \in Keys /\ Recipient \in Peer
  BY KeyTypes, RelayAssumption
<1>2. Fits(Arrivals(x), age[x], seen[Recipient][<<x, 0>>], 0, ExpiresAt(Recipient))
  BY DEF RelayInv, Guarded
<1>3. /\ Arrivals(x) \in Nat /\ age[x] \in Nat
      /\ seen[Recipient][<<x, 0>>] \in Nat /\ seen'[Recipient][<<x, 0>>] \in Nat
      /\ seen[Recipient][<<x, 0>>] <= seen'[Recipient][<<x, 0>>]
  BY <1>1, RelayAssumption DEF RelayInv, NodeTypes, Arrivals
<1>4. 0 \in Int /\ ExpiresAt(Recipient) \in Int
  BY <1>1, AgeTypes
<1>5. Fits(Arrivals(x), age[x], seen'[Recipient][<<x, 0>>], 0, ExpiresAt(Recipient))
  BY ONLY <1>2, <1>3, <1>4, FitsLarger
<1> QED
  BY <1>5

(* Steps of the origin and of the network touch nothing the recipient and    *)
(* the relays know.                                                        *)
LEMMA OriginateKeepsInv ==
    ASSUME RelayInv, NEW c \in ContentId, NEW H \in SUBSET Linked(Origin), Originate(c, H)
    PROVE  NodeInv'
<1> DEFINE a == IF c \in AckedId THEN 1 ELSE 0
           F == FramesTo(c, a, 0, Origin, H)
<1>1. /\ stage[c] = "unsent"
      /\ stage' = [stage EXCEPT ![c] = IF c \in AckedId THEN "queued" ELSE "sent"]
      /\ net' = net \cup F
      /\ UNCHANGED <<pending, acked, failed, seen, passes, opening, replay,
                     opened, delivered, age, answers>>
  BY DEF Originate, trackerVars, relayVars, recipientVars
<1>2. F \subseteq Frame /\ \A f \in F : f.content_id = c
  <2>1. H \in SUBSET Peer
    BY DEF Linked
  <2>2. Origin \in Peer /\ 0 \in 0..MaxRelayHops
    BY RelayAssumption
  <2>3. a \in Attempts
    BY KeyTypes
  <2> QED
    BY <2>1, <2>2, <2>3, FramesTyped
<1> HIDE DEF F, a
<1>3. /\ stage'[c] # "unsent" /\ \A x \in ContentId : x # c => stage'[x] = stage[x]
      /\ stage'[c] = "queued" => c \in AckedId
      /\ stage' \in [ContentId -> {"unsent", "queued", "sent"}]
  BY <1>1 DEF RelayInv, NodeTypes
<1>4. NodeTypes'
  BY <1>1, <1>2, <1>3 DEF RelayInv, NodeTypes
<1>5. Lifecycle'
  <2>1. /\ \A x \in ContentId : stage[x] = "queued" => x \in AckedId
        /\ \A x \in DOMAIN pending \cup acked \cup failed :
              stage[x] = "sent" /\ x \in AckedId /\ x \in ContentId
        /\ \A f \in net : stage[f.content_id] # "unsent" /\ f.content_id \in ContentId
    BY RelayAssumption DEF RelayInv, Lifecycle, NodeTypes, Frame
  <2>2. \A x \in DOMAIN pending \cup acked \cup failed : stage'[x] = "sent" /\ x \in AckedId
    BY <1>1, <1>3, <2>1
  <2>3. \A x \in ContentId : stage'[x] = "queued" => x \in AckedId
    BY <1>3, <2>1
  <2>4. \A x \in ContentId : stage'[x] = "unsent" => stage[x] = "unsent"
    BY <1>3
  <2>5. \A f \in net' : stage'[f.content_id] # "unsent"
    BY <1>1, <1>2, <1>3, <2>1
  <2> QED
    BY <1>1, <2>2, <2>3, <2>4, <2>5 DEF RelayInv, Lifecycle, Arrivals
<1>6. Guarded' /\ AnswersTrue' /\ Suppressed'
  BY <1>1 DEF RelayInv, Guarded, Arrivals, AnswersTrue, Suppressed
<1> QED
  BY <1>4, <1>5, <1>6 DEF NodeInv

LEMMA RegisterNodeInv ==
    ASSUME RelayInv, NEW c \in ContentId, NEW hop \in Linked(Origin), Register(c, hop)
    PROVE  NodeInv'
<1>1. /\ stage[c] = "queued" /\ stage' = [stage EXCEPT ![c] = "sent"]
      /\ DOMAIN pending' = DOMAIN pending \cup {c}
      /\ UNCHANGED <<acked, failed, seen, passes, opening, replay, opened, delivered,
                     age, net, answers>>
  BY DEF Register, RegisterFrames, relayVars, recipientVars
<1>2. /\ stage' \in [ContentId -> {"unsent", "queued", "sent"}]
      /\ stage'[c] = "sent" /\ \A x \in ContentId : x # c => stage'[x] = stage[x]
  BY <1>1 DEF RelayInv, NodeTypes
<1>3. NodeTypes'
  BY <1>1, <1>2 DEF RelayInv, NodeTypes
<1>4. Lifecycle'
  <2>1. /\ \A x \in ContentId : stage[x] = "queued" => x \in AckedId
        /\ \A x \in DOMAIN pending \cup acked \cup failed :
              stage[x] = "sent" /\ x \in AckedId /\ x \in ContentId
        /\ \A f \in net : stage[f.content_id] # "unsent" /\ f.content_id \in ContentId
        /\ DOMAIN pending \cap acked = {} /\ DOMAIN pending \cap failed = {}
        /\ acked \cap failed = {}
    BY RelayAssumption DEF RelayInv, Lifecycle, NodeTypes, Frame
  <2>2. c \in AckedId /\ c \notin DOMAIN pending \cup acked \cup failed
    BY <1>1, <2>1
  <2>3. \A x \in ContentId : stage'[x] = "unsent" => stage[x] = "unsent"
    BY <1>2
  <2>4. \A f \in net' : stage'[f.content_id] # "unsent"
    BY <1>1, <1>2, <2>1
  <2>5. \A x \in DOMAIN pending' \cup acked' \cup failed' : stage'[x] = "sent" /\ x \in AckedId
    BY <1>1, <1>2, <2>1, <2>2
  <2>6. \A x \in ContentId : stage'[x] = "queued" => x \in AckedId
    BY <1>2, <2>1
  <2>7. DOMAIN pending' \cap acked' = {} /\ DOMAIN pending' \cap failed' = {}
    BY <1>1, <2>1, <2>2
  <2> QED
    BY <1>1, <2>1, <2>3, <2>4, <2>5, <2>6, <2>7 DEF RelayInv, Lifecycle, Arrivals
<1>5. Guarded' /\ AnswersTrue' /\ Suppressed'
  BY <1>1 DEF RelayInv, Guarded, Arrivals, AnswersTrue, Suppressed
<1> QED
  BY <1>3, <1>4, <1>5 DEF NodeInv

LEMMA RetransmitNodeInv ==
    ASSUME RelayInv, Retransmit
    PROVE  NodeInv'
<1> DEFINE D == DOMAIN pending
           X == Exhausted({})
           sent(c) == FramesTo(c, pending[c].attempts + 1, 0, Origin, {pending[c].next_hop})
<1>1. PICK R \in Retransmits({}, 0) :
         /\ TickWithBatchAdmission({}, R)
         /\ net' = net \cup UNION {sent(c) : c \in R}
         /\ failed' = failed \cup X
         /\ UNCHANGED <<stage, acked, relayVars, recipientVars, age, answers>>
  BY DEF Retransmit
<1>2. UNCHANGED <<stage, acked, seen, passes, opening, replay, opened, delivered, age, answers>>
  BY <1>1 DEF relayVars, recipientVars
<1>3. /\ R \subseteq D /\ X \subseteq D
      /\ \A c \in R : ~(pending[c].attempts >= MaxAttempts)
  BY <1>1 DEF Retransmits, Retryable, Due, Exhausted
<1>4. DOMAIN pending' = D \ X
  BY <1>1 DEF TickWithBatchAdmission
<1>5. ASSUME NEW c \in R
      PROVE  sent(c) \subseteq Frame /\ \A f \in sent(c) : f.content_id = c
  <2>1. pending[c] \in PendingEntry /\ c \in ContentId
    BY <1>3, EntryTypes
  <2>2. pending[c].attempts + 1 \in Attempts
    BY <1>3, <2>1, LimitAssumption DEF PendingEntry, Attempts
  <2>3. {pending[c].next_hop} \in SUBSET Peer
    BY <2>1 DEF PendingEntry
  <2>4. Origin \in Peer /\ 0 \in 0..MaxRelayHops
    BY RelayAssumption
  <2> QED
    BY <2>1, <2>2, <2>3, <2>4, FramesTyped
<1> HIDE DEF sent
<1>6. \A x \in D : stage[x] = "sent" /\ x \in AckedId
  BY DEF RelayInv, Lifecycle
<1>7. NodeTypes'
  BY <1>1, <1>2, <1>3, <1>5, <1>6 DEF RelayInv, NodeTypes
<1>8. Lifecycle'
  <2>1. \A f \in net' : stage[f.content_id] # "unsent"
    <3>1. \A f \in net : stage[f.content_id] # "unsent"
      BY DEF RelayInv, Lifecycle
    <3>2. \A c \in R : \A f \in sent(c) : stage[f.content_id] # "unsent"
      BY <1>3, <1>5, <1>6
    <3> QED
      BY <1>1, <3>1, <3>2
  <2>2. \A x \in DOMAIN pending' \cup acked' \cup failed' : stage[x] = "sent" /\ x \in AckedId
    BY <1>1, <1>2, <1>3, <1>4, <1>6 DEF RelayInv, Lifecycle
  <2>3. /\ DOMAIN pending' \cap acked' = {} /\ DOMAIN pending' \cap failed' = {}
        /\ acked' \cap failed' = {}
    BY <1>1, <1>2, <1>3, <1>4 DEF RelayInv, Lifecycle
  <2> QED
    BY <1>2, <2>1, <2>2, <2>3 DEF RelayInv, Lifecycle, Arrivals
<1>9. Guarded' /\ AnswersTrue' /\ Suppressed'
  BY <1>2 DEF RelayInv, Guarded, Arrivals, AnswersTrue, Suppressed
<1> QED
  BY <1>7, <1>8, <1>9 DEF NodeInv

LEMMA DeliveredArrivesKeepsInv ==
    ASSUME RelayInv, NEW c \in ContentId, DeliveredArrives(c)
    PROVE  NodeInv'
<1>1. /\ c \in answers /\ answers' = answers \ {c}
      /\ UNCHANGED <<stage, failed, seen, passes, opening, replay, opened, delivered, age, net>>
  BY DEF DeliveredArrives, relayVars, recipientVars
<1>2. \/ /\ c \in DOMAIN pending /\ DOMAIN pending' = DOMAIN pending \ {c}
         /\ acked' = acked \cup {c}
      \/ DOMAIN pending' = DOMAIN pending /\ acked' = acked
  BY DEF DeliveredArrives, Ack, trackerVars
<1>3. c \in AckedId /\ opened[c] > 0
  BY <1>1 DEF RelayInv, NodeTypes, AnswersTrue
<1>4. NodeTypes'
  BY <1>1, <1>2, <1>3 DEF RelayInv, NodeTypes
<1>5. Lifecycle'
  BY <1>1, <1>2 DEF RelayInv, Lifecycle, Arrivals
<1>6. Guarded' /\ Suppressed'
  BY <1>1 DEF RelayInv, Guarded, Arrivals, Suppressed
<1>7. AnswersTrue'
  BY <1>1, <1>2, <1>3 DEF RelayInv, AnswersTrue
<1> QED
  BY <1>4, <1>5, <1>6, <1>7 DEF NodeInv

(* A relay: what it forwards was not in its window, so it is one acceptance  *)
(* more, a window after the last one.                                      *)
LEMMA RelayForwardKeepsInv ==
    ASSUME RelayInv, NEW f \in net, RelayForward(f)
    PROVE  NodeInv'
<1> DEFINE n == f.to
           c == f.content_id
           a == f.attempt
           key == <<c, a>>
           keys == {key, <<c, 0>>}
           fresh == ~Expired(n, c) /\ ~OverHopLimit(f) /\ ~TooFarAhead(n, c)
<1>1. f \in Frame /\ n \in Peer /\ c \in ContentId /\ a \in Attempts /\ n # Recipient
      /\ stage[c] # "unsent"
  BY DEF RelayInv, NodeTypes, Frame, Lifecycle, RelayForward
<1>2. UNCHANGED <<pending, stage, acked, failed, opening, replay, opened, delivered, age, answers>>
  BY DEF RelayForward, originVars, trackerVars, recipientVars
<1>3. key \in Keys /\ <<c, 0>> \in Keys
  BY <1>1, KeyTypes
<1>4. /\ seen \in [Peer -> [Keys -> 0..SeenTtl]] /\ age \in [ContentId -> 0..MaxAge]
      /\ passes \in [Peer -> [Keys -> Nat]]
  BY DEF RelayInv, NodeTypes
<1>5. /\ seen' \in [Peer -> [Keys -> 0..SeenTtl]]
      /\ \A m \in Peer, k \in Keys : seen[m][k] <= seen'[m][k]
      /\ fresh => seen'[n] = Recorded(n, keys)
  <2>1. seen' = IF fresh THEN [seen EXCEPT ![n] = Recorded(n, keys)] ELSE seen
    BY DEF RelayForward
  <2>2. /\ Recorded(n, keys) \in [Keys -> 0..SeenTtl]
        /\ \A k \in Keys : seen[n][k] <= Recorded(n, keys)[k]
    BY <1>1, RecordedWindows
  <2>3. \A m \in Peer, k \in Keys : seen[m][k] \in 0..SeenTtl
    BY <1>4
  <2> HIDE DEF fresh, keys
  <2>4. CASE fresh
    <3>1. /\ seen' = [seen EXCEPT ![n] = Recorded(n, keys)]
          /\ seen'[n] = Recorded(n, keys) /\ \A m \in Peer : m # n => seen'[m] = seen[m]
      BY <1>1, <1>4, <2>1, <2>4
    <3>2. seen' \in [Peer -> [Keys -> 0..SeenTtl]]
      BY <1>1, <1>4, <2>2, <3>1
    <3> QED
      BY <1>1, <2>2, <2>3, <2>4, <3>1, <3>2, RelayAssumption
  <2>5. CASE ~fresh
    BY <1>4, <2>1, <2>3, <2>5, RelayAssumption
  <2> QED
    BY <2>4, <2>5
<1>6. Guarded' /\ AnswersTrue'
  <2>1. \A x \in ContentId : Fits(Arrivals(x), age'[x], seen'[Recipient][<<x, 0>>],
                                  0, ExpiresAt(Recipient))
    BY <1>2, <1>5, ArrivalsStay
  <2>2. \A x \in ContentId : Arrivals(x)' = Arrivals(x)
    BY <1>2 DEF Arrivals
  <2>3. Guarded'
    BY <1>2, <2>1, <2>2 DEF RelayInv, Guarded, ExpiresAt
  <2> QED
    BY <1>2, <2>3 DEF RelayInv, AnswersTrue
<1>7. CASE fresh /\ ~RelayDuplicate(n, f)
  <2>1. PICK H \in Targets(n, f) :
           net' = (net \ {f}) \cup FramesTo(c, a, f.hops + 1, n, H)
    BY <1>7 DEF RelayForward
  <2>2. passes' = [passes EXCEPT ![n][key] = @ + 1]
    BY <1>7 DEF RelayForward
  <2>3. /\ seen[n][key] = 0 /\ f.hops + 1 \in 0..MaxRelayHops
        /\ OpensAt(n) <= age[c] /\ age[c] < ExpiresAt(n)
    <3>1. /\ ~(f.hops >= MaxRelayHops) /\ ~(age[c] >= EnvTtl + Behind[n])
          /\ ~(age[c] + MaxFuture < Behind[n]) /\ ~(seen[n][key] > 0)
      BY <1>7 DEF OverHopLimit, Expired, TooFarAhead, RelayDuplicate, Live
    <3>2. f.hops \in 0..MaxRelayHops /\ age[c] \in 0..MaxAge /\ seen[n][key] \in 0..SeenTtl
          /\ Behind[n] \in Int
      BY <1>1, <1>3, <1>4, RelayAssumption DEF Frame
    <3> QED
      BY <3>1, <3>2, RelayAssumption DEF OpensAt, ExpiresAt
  <2>4. H \in SUBSET Peer
    BY <2>1, RelayAssumption DEF Targets, Linked
  <2>5. /\ FramesTo(c, a, f.hops + 1, n, H) \subseteq Frame
        /\ \A g \in FramesTo(c, a, f.hops + 1, n, H) : g.content_id = c
    BY <1>1, <2>3, <2>4, FramesTyped
  <2>6. seen'[n][key] = SeenTtl
    BY <1>1, <1>3, <1>5, <1>7, <2>3, RecordedWindows
  <2>7. /\ passes' \in [Peer -> [Keys -> Nat]] /\ passes'[n][key] = passes[n][key] + 1
        /\ \A m \in Peer, k \in Keys : <<m, k>> # <<n, key>> => passes'[m][k] = passes[m][k]
    <3>1. passes[n][key] + 1 \in Nat /\ passes[n] \in [Keys -> Nat]
      BY <1>1, <1>3, <1>4
    <3>2. passes' = [passes EXCEPT ![n] = [passes[n] EXCEPT ![key] = passes[n][key] + 1]]
      BY <2>2
    <3> HIDE DEF n, key
    <3> QED
      BY <1>1, <1>3, <1>4, <3>1, <3>2
  <2> HIDE DEF n, keys, fresh
  <2>8. NodeTypes'
    BY <1>2, <1>5, <2>1, <2>5, <2>7 DEF RelayInv, NodeTypes
  <2>9. Lifecycle'
    <3>1. \A g \in net' : stage[g.content_id] # "unsent"
      BY <1>1, <2>1, <2>5 DEF RelayInv, Lifecycle
    <3>2. \A m \in Peer, x \in ContentId, b \in Attempts :
             stage[x] = "unsent" => passes'[m][<<x, b>>] = 0
      <4> SUFFICES ASSUME NEW m \in Peer, NEW x \in ContentId, NEW b \in Attempts,
                          stage[x] = "unsent"
                   PROVE  passes'[m][<<x, b>>] = 0
        OBVIOUS
      <4>1. x # c
        BY <1>1
      <4>2. <<x, b>> \in Keys /\ <<x, b>> # key
        BY <4>1, KeyTypes
      <4> QED
        BY <2>7, <4>2 DEF RelayInv, Lifecycle
    <3> QED
      BY <1>2, <3>1, <3>2 DEF RelayInv, Lifecycle, Arrivals
  <2>10. Suppressed'
    <3>1. Fits(passes'[n][key], age[c], seen'[n][key], OpensAt(n), ExpiresAt(n))
      <4>1. Fits(passes[n][key], age[c], 0, OpensAt(n), ExpiresAt(n))
        BY <1>1, <2>3 DEF RelayInv, Suppressed
      <4>2. passes[n][key] \in Nat /\ age[c] \in Nat
        BY <1>1, <1>3, <1>4, RelayAssumption
      <4>3. OpensAt(n) \in Int /\ ExpiresAt(n) \in Int
        BY <1>1, AgeTypes
      <4>4. Fits(passes[n][key] + 1, age[c], SeenTtl, OpensAt(n), ExpiresAt(n))
        BY <2>3, <4>1, <4>2, <4>3, FitsAgain
      <4> QED
        BY <2>6, <2>7, <4>4
    <3>2. ASSUME NEW m \in Peer, NEW x \in ContentId, NEW b \in Attempts
          PROVE  Fits(passes'[m][<<x, b>>], age'[x], seen'[m][<<x, b>>],
                      OpensAt(m), ExpiresAt(m))
      <4>1. CASE m = n /\ <<x, b>> = key
        BY <1>2, <3>1, <4>1
      <4>2. CASE <<m, <<x, b>>>> # <<n, key>>
        <5>1. passes'[m][<<x, b>>] = passes[m][<<x, b>>]
          BY <2>7, <4>2, KeyTypes
        <5> QED
          BY <1>2, <1>5, <5>1, PassesStay
      <4> QED
        BY <4>1, <4>2
    <3> QED
      BY <3>2 DEF Suppressed, OpensAt, ExpiresAt
  <2> QED
    BY <1>6, <2>8, <2>9, <2>10 DEF NodeInv
<1>8. CASE ~(fresh /\ ~RelayDuplicate(n, f))
  <2>1. net' = net \ {f} /\ passes' = passes
    BY <1>8 DEF RelayForward
  <2> HIDE DEF n, c, a, keys, fresh
  <2>2. NodeTypes'
    BY <1>2, <1>5, <2>1 DEF RelayInv, NodeTypes
  <2>3. Lifecycle'
    BY <1>2, <2>1 DEF RelayInv, Lifecycle, Arrivals
  <2>4. Suppressed'
    <3>1. \A m \in Peer, x \in ContentId, b \in Attempts :
             Fits(passes[m][<<x, b>>], age'[x], seen'[m][<<x, b>>], OpensAt(m), ExpiresAt(m))
      BY <1>2, <1>5, PassesStay
    <3> QED
      BY <2>1, <3>1 DEF Suppressed, OpensAt, ExpiresAt
  <2> QED
    BY <1>6, <2>2, <2>3, <2>4 DEF NodeInv
<1> QED
  BY <1>7, <1>8

(* The recipient's replay guard: what passes it comes a window after the     *)
(* arrival before.                                                         *)
LEMMA TerminalArrivalKeepsInv ==
    ASSUME RelayInv, NEW f \in net, TerminalArrival(f)
    PROVE  NodeInv'
<1> DEFINE c == f.content_id
<1>1. f \in Frame /\ c \in ContentId /\ <<c, 0>> \in Keys /\ stage[c] # "unsent"
  BY KeyTypes DEF RelayInv, NodeTypes, Frame, Lifecycle
<1>2. /\ net' = net \ {f}
      /\ UNCHANGED <<pending, stage, acked, failed, passes, replay, opened, delivered, age>>
  BY DEF TerminalArrival, originVars, trackerVars
<1>3. /\ seen \in [Peer -> [Keys -> 0..SeenTtl]] /\ age \in [ContentId -> 0..MaxAge]
      /\ Recipient \in Peer /\ opening \in [ContentId -> Nat] /\ opened \in [ContentId -> Nat]
  BY RelayAssumption DEF RelayInv, NodeTypes
<1>4. CASE UNCHANGED <<seen, opening>> /\ answers' \subseteq answers \cup ReplayAnswer(c)
  <2>1. \A x \in ReplayAnswer(c) : x \in AckedId /\ opened[x] > 0
    BY <1>1 DEF RelayInv, AnswersTrue, ReplayAnswer, Answered
  <2>2. NodeTypes'
    BY <1>2, <1>4, <2>1 DEF RelayInv, NodeTypes
  <2>3. Lifecycle'
    BY <1>2, <1>4 DEF RelayInv, Lifecycle, Arrivals
  <2>4. Guarded' /\ Suppressed'
    BY <1>2, <1>4 DEF RelayInv, Guarded, Arrivals, Suppressed
  <2>5. AnswersTrue'
    BY <1>2, <1>4, <2>1 DEF RelayInv, AnswersTrue
  <2> QED
    BY <2>2, <2>3, <2>4, <2>5 DEF NodeInv
<1>5. CASE /\ ~Expired(Recipient, c) /\ ~TerminalDuplicate(f)
           /\ seen' = [seen EXCEPT ![Recipient] = Recorded(Recipient, {<<c, 0>>})]
           /\ opening' = [opening EXCEPT ![c] = @ + 1] /\ answers' = answers
  <2>1. age[c] < ExpiresAt(Recipient) /\ seen[Recipient][<<c, 0>>] = 0
    <3>1. ~(age[c] >= EnvTtl + Behind[Recipient]) /\ ~(seen[Recipient][<<c, 0>>] > 0)
      BY <1>5 DEF Expired, TerminalDuplicate, Live
    <3>2. age[c] \in 0..MaxAge /\ seen[Recipient][<<c, 0>>] \in 0..SeenTtl
          /\ Behind[Recipient] \in Int
      BY <1>1, <1>3, RelayAssumption
    <3> QED
      BY <3>1, <3>2, RelayAssumption DEF ExpiresAt
  <2>2. /\ Recorded(Recipient, {<<c, 0>>}) \in [Keys -> 0..SeenTtl]
        /\ \A k \in Keys : seen[Recipient][k] <= Recorded(Recipient, {<<c, 0>>})[k]
        /\ Recorded(Recipient, {<<c, 0>>})[<<c, 0>>] = SeenTtl
    BY <1>1, <1>3, <2>1, RecordedWindows
  <2>3. /\ seen' \in [Peer -> [Keys -> 0..SeenTtl]]
        /\ seen'[Recipient] = Recorded(Recipient, {<<c, 0>>})
        /\ \A m \in Peer : m # Recipient => seen'[m] = seen[m]
    BY <1>3, <1>5, <2>2
  <2>4. \A m \in Peer, k \in Keys : seen[m][k] <= seen'[m][k]
    <3> TAKE m \in Peer, k \in Keys
    <3>1. CASE m = Recipient
      BY <2>2, <2>3, <3>1
    <3>2. CASE m # Recipient
      <4>1. seen'[m] = seen[m] /\ seen[m][k] \in 0..SeenTtl
        BY <1>3, <2>3, <3>2
      <4> QED
        BY <4>1, RelayAssumption
    <3> QED
      BY <3>1, <3>2
  <2> HIDE DEF c
  <2>5. /\ opening' \in [ContentId -> Nat] /\ opening'[c] = opening[c] + 1
        /\ \A x \in ContentId : x # c => opening'[x] = opening[x]
    BY <1>1, <1>3, <1>5
  <2>6. NodeTypes'
    BY <1>1, <1>2, <1>5, <2>3, <2>5 DEF RelayInv, NodeTypes
  <2>7. Lifecycle'
    <3>1. \A x \in ContentId : stage[x] = "unsent" => Arrivals(x)' = 0
      BY <1>1, <1>2, <2>5 DEF RelayInv, Lifecycle, Arrivals
    <3> QED
      BY <1>1, <1>2, <1>5, <3>1 DEF RelayInv, Lifecycle
  <2>8. Guarded'
    <3>1. ASSUME NEW x \in ContentId PROVE
             Fits(Arrivals(x)', age[x], seen'[Recipient][<<x, 0>>], 0, ExpiresAt(Recipient))
      <4>1. CASE x = c
        <5>1. Fits(Arrivals(c), age[c], 0, 0, ExpiresAt(Recipient))
          <6>1. Fits(Arrivals(c), age[c], seen[Recipient][<<c, 0>>], 0, ExpiresAt(Recipient))
            BY <1>1 DEF RelayInv, Guarded
          <6> QED
            BY <2>1, <6>1
        <5>2. /\ Arrivals(c) \in Nat /\ Arrivals(c)' = Arrivals(c) + 1
              /\ age[c] \in Nat /\ 0 <= age[c]
          <6>1. /\ opening[c] \in Nat /\ opened[c] \in Nat /\ opened' = opened
                /\ opening'[c] = opening[c] + 1 /\ age[c] \in 0..MaxAge
            BY <1>1, <1>2, <1>3, <2>5
          <6>2. opening'[c] + opened'[c] = (opening[c] + opened[c]) + 1
            BY <6>1
          <6> QED
            BY <6>1, <6>2, RelayAssumption DEF Arrivals
        <5>3. 0 \in Int /\ ExpiresAt(Recipient) \in Int
          BY <1>3, AgeTypes
        <5>4. Fits(Arrivals(c) + 1, age[c], SeenTtl, 0, ExpiresAt(Recipient))
          BY <2>1, <5>1, <5>2, <5>3, FitsAgain
        <5> QED
          BY <2>2, <2>3, <4>1, <5>2, <5>4
      <4>2. CASE x # c
        <5>1. Arrivals(x)' = Arrivals(x)
          BY <1>2, <2>5, <4>2 DEF Arrivals
        <5>2. Fits(Arrivals(x), age'[x], seen'[Recipient][<<x, 0>>], 0, ExpiresAt(Recipient))
          BY <1>2, <2>3, <2>4, ArrivalsStay
        <5> QED
          BY <1>2, <5>1, <5>2
      <4> QED
        BY <4>1, <4>2
    <3> QED
      BY <1>2, <3>1 DEF RelayInv, Guarded, ExpiresAt
  <2>9. AnswersTrue'
    BY <1>2, <1>5 DEF RelayInv, AnswersTrue
  <2>10. Suppressed'
    <3>1. \A m \in Peer, x \in ContentId, b \in Attempts :
             Fits(passes[m][<<x, b>>], age'[x], seen'[m][<<x, b>>], OpensAt(m), ExpiresAt(m))
      BY <1>2, <2>3, <2>4, PassesStay
    <3> QED
      BY <1>2, <3>1 DEF Suppressed, OpensAt, ExpiresAt
  <2> QED
    BY <2>6, <2>7, <2>8, <2>9, <2>10 DEF NodeInv
<1> QED
  BY <1>4, <1>5 DEF TerminalArrival

LEMMA TerminalDeliverKeepsInv ==
    ASSUME RelayInv, NEW c \in ContentId, TerminalDeliver(c)
    PROVE  NodeInv'
<1>1. /\ opening[c] > 0 /\ opening' = [opening EXCEPT ![c] = @ - 1]
      /\ UNCHANGED <<pending, stage, acked, failed, seen, passes, age, net>>
  BY DEF TerminalDeliver, originVars, trackerVars, relayVars
<1>2. /\ opened \in [ContentId -> Nat] /\ delivered \in [ContentId -> Nat]
      /\ opening \in [ContentId -> Nat]
      /\ replay \in [ContentId -> 0..SeenTtl] /\ answers \subseteq AckedId
  BY DEF RelayInv, NodeTypes
<1>3. /\ opening' \in [ContentId -> Nat] /\ opening'[c] = opening[c] - 1
      /\ \A x \in ContentId : x # c => opening'[x] = opening[x]
  BY <1>1, <1>2
<1>4. /\ opened' \in [ContentId -> Nat] /\ delivered' \in [ContentId -> Nat]
      /\ \A x \in ContentId : opened[x] <= opened'[x] /\ Arrivals(x)' <= Arrivals(x)
                              /\ delivered'[x] <= opened'[x]
  <2>1. \A x \in ContentId : delivered[x] <= opened[x]
    BY DEF RelayInv, Guarded
  <2>2. CASE c \in Unopenable
    <3>1. UNCHANGED <<opened, delivered>>
      BY <2>2 DEF TerminalDeliver
    <3> QED
      BY <1>2, <1>3, <2>1, <3>1 DEF Arrivals
  <2>3. CASE c \notin Unopenable
    <3>1. /\ opened' = [opened EXCEPT ![c] = @ + 1]
          /\ delivered' = [delivered EXCEPT ![c] = @ + 1] \/ delivered' = delivered
      BY <2>3 DEF TerminalDeliver
    <3>2. /\ opened' \in [ContentId -> Nat] /\ opened'[c] = opened[c] + 1
          /\ \A x \in ContentId : x # c => opened'[x] = opened[x]
          /\ delivered' \in [ContentId -> Nat] /\ delivered'[c] <= delivered[c] + 1
          /\ \A x \in ContentId : x # c => delivered'[x] = delivered[x]
      BY <1>2, <3>1
    <3>3. \A x \in ContentId : opened[x] <= opened'[x] /\ delivered'[x] <= opened'[x]
      BY <1>2, <2>1, <3>2
    <3>4. \A x \in ContentId : Arrivals(x)' <= Arrivals(x)
      BY <1>2, <1>3, <3>2 DEF Arrivals
    <3> QED
      BY <3>2, <3>3, <3>4
  <2> QED
    BY <2>2, <2>3
<1>5. /\ \A x \in answers' : x \in answers \/ (x \in AckedId /\ opened'[x] > 0)
      /\ replay' \in [ContentId -> 0..SeenTtl]
      /\ \A x \in ContentId : replay'[x] > 0 => replay[x] > 0 \/ (x \in AckedId /\ opened'[x] > 0)
  <2>1. CASE c \in Unopenable
    <3>1. UNCHANGED <<answers, replay>>
      BY <2>1 DEF TerminalDeliver
    <3> QED
      BY <1>2, <3>1
  <2>2. CASE c \notin Unopenable
    <3>1. opened' = [opened EXCEPT ![c] = @ + 1]
      BY <2>2 DEF TerminalDeliver
    <3>2. opened'[c] > 0
      BY <1>2, <3>1
    <3>3. /\ answers' = answers \cup (IF c \in AckedId THEN Answered(c) ELSE {})
          /\ replay' = IF c \in AckedId /\ replay[c] = 0
                       THEN [replay EXCEPT ![c] = SeenTtl] ELSE replay
      BY <2>2 DEF TerminalDeliver
    <3> QED
      BY <1>2, <3>2, <3>3, RelayAssumption DEF Answered
  <2> QED
    BY <2>1, <2>2
<1>6. NodeTypes'
  BY <1>1, <1>2, <1>3, <1>4, <1>5 DEF RelayInv, NodeTypes
<1>7. \A x \in ContentId : Arrivals(x)' \in Nat /\ Arrivals(x) \in Nat
  BY <1>2, <1>3, <1>4 DEF Arrivals
<1>8. Lifecycle'
  <2>1. \A x \in ContentId : stage[x] = "unsent" => Arrivals(x)' = 0
    BY <1>4, <1>7 DEF RelayInv, Lifecycle
  <2> QED
    BY <1>1, <2>1 DEF RelayInv, Lifecycle
<1>9. Guarded'
  <2>1. ASSUME NEW x \in ContentId PROVE
           Fits(Arrivals(x)', age[x], seen[Recipient][<<x, 0>>], 0, ExpiresAt(Recipient))
    <3>1. Fits(Arrivals(x), age[x], seen[Recipient][<<x, 0>>], 0, ExpiresAt(Recipient))
      BY DEF RelayInv, Guarded
    <3>2. /\ age[x] \in Nat /\ seen[Recipient][<<x, 0>>] \in Nat
          /\ ExpiresAt(Recipient) \in Int /\ 0 \in Int
      BY KeyTypes, AgeTypes, RelayAssumption DEF RelayInv, NodeTypes
    <3> QED
      BY <1>4, <1>7, <3>1, <3>2, FitsFewer
  <2> QED
    BY <1>1, <1>4, <2>1 DEF Guarded, ExpiresAt
<1>10. AnswersTrue'
  <2>1. \A x \in answers \cup acked : opened[x] > 0 /\ x \in ContentId
    BY RelayAssumption DEF RelayInv, AnswersTrue, NodeTypes
  <2>2. \A x \in ContentId : opened[x] > 0 => opened'[x] > 0
    BY <1>2, <1>4
  <2>3. \A x \in ContentId : replay[x] > 0 => x \in AckedId /\ opened[x] > 0
    BY DEF RelayInv, AnswersTrue
  <2> QED
    BY <1>1, <1>5, <2>1, <2>2, <2>3 DEF AnswersTrue
<1>11. Suppressed'
  BY <1>1 DEF RelayInv, Suppressed
<1> QED
  BY <1>6, <1>8, <1>9, <1>10, <1>11 DEF NodeInv

LEMMA LoseKeepsInv ==
    ASSUME RelayInv, Lose
    PROVE  NodeInv'
<1>1. /\ net' \subseteq net /\ answers' \subseteq answers
      /\ UNCHANGED <<pending, stage, acked, failed, seen, passes, opening, replay,
                     opened, delivered, age>>
  BY DEF Lose, originVars, trackerVars, relayVars, recipientVars
<1>2. NodeTypes' /\ AnswersTrue' /\ Suppressed'
  BY <1>1 DEF RelayInv, NodeTypes, AnswersTrue, Suppressed
<1>3. Lifecycle' /\ Guarded'
  BY <1>1 DEF RelayInv, Lifecycle, Guarded, Arrivals
<1> QED
  BY <1>2, <1>3 DEF NodeInv

(* Time runs at one speed: an envelope ages as the windows run down.        *)
LEMMA ElapseKeepsInv ==
    ASSUME RelayInv, Elapse
    PROVE  NodeInv'
<1>1. /\ age' = [c \in ContentId |-> Aged(c)] /\ replay' = Elapsed(replay)
      /\ seen' = [n \in Peer |-> Elapsed(seen[n])]
      /\ DOMAIN pending' = DOMAIN pending
      /\ UNCHANGED <<stage, acked, failed, passes, opening, opened, delivered, net, answers>>
  BY DEF Elapse
<1>2. /\ age \in [ContentId -> 0..MaxAge] /\ replay \in [ContentId -> 0..SeenTtl]
      /\ seen \in [Peer -> [Keys -> 0..SeenTtl]] /\ MaxAge \in Nat /\ SeenTtl \in Nat
      /\ passes \in [Peer -> [Keys -> Nat]]
      /\ opening \in [ContentId -> Nat] /\ opened \in [ContentId -> Nat]
  BY RelayAssumption DEF RelayInv, NodeTypes
<1>3. \A m \in Nat : \A x \in 0..m : SaturatingSub(x, 1) \in 0..m /\ SaturatingSub(x, 1) <= x
  BY DEF SaturatingSub
<1>4. /\ age' \in [ContentId -> 0..MaxAge]
      /\ \A c \in ContentId : stage[c] # "unsent" =>
            age'[c] = age[c] + 1 \/ (age'[c] = age[c] /\ age[c] >= MaxAge)
  BY <1>1, <1>2 DEF Aged
<1>5. /\ replay' \in [ContentId -> 0..SeenTtl]
      /\ \A c \in ContentId : replay'[c] <= replay[c]
  BY <1>1, <1>2, <1>3 DEF Elapsed
<1>6. /\ seen' \in [Peer -> [Keys -> 0..SeenTtl]]
      /\ \A n \in Peer, k \in Keys : seen'[n][k] = SaturatingSub(seen[n][k], 1)
  <2>1. \A n \in Peer : DOMAIN seen[n] = Keys /\ seen[n] \in [Keys -> 0..SeenTtl]
    BY <1>2
  <2>2. \A n \in Peer : Elapsed(seen[n]) \in [Keys -> 0..SeenTtl]
    BY <1>2, <1>3, <2>1 DEF Elapsed
  <2> QED
    BY <1>1, <2>1, <2>2 DEF Elapsed
<1>7. ASSUME NEW n \in Peer, NEW c \in ContentId, NEW a \in Attempts,
             NEW k \in Nat, NEW from \in Int, stage[c] = "unsent" => k = 0,
             Fits(k, age[c], seen[n][<<c, a>>], from, ExpiresAt(n))
      PROVE  Fits(k, age'[c], seen'[n][<<c, a>>], from, ExpiresAt(n))
  <2>1. <<c, a>> \in Keys
    BY KeyTypes
  <2>2. age[c] \in Nat /\ age'[c] \in Nat /\ seen[n][<<c, a>>] \in Nat
    BY <1>2, <1>4, <2>1
  <2>3. CASE k = 0
    BY <2>3 DEF Fits
  <2>4. CASE stage[c] # "unsent"
    <3>1. ExpiresAt(n) \in Int /\ ExpiresAt(n) <= MaxAge
      BY AgeTypes
    <3>2. age'[c] = age[c] + 1 \/ (age'[c] = age[c] /\ age[c] >= ExpiresAt(n))
      BY <1>2, <1>4, <2>2, <2>4, <3>1
    <3>3. Fits(k, age'[c], SaturatingSub(seen[n][<<c, a>>], 1), from, ExpiresAt(n))
      BY <1>7, <2>2, <3>1, <3>2, FitsLater
    <3> QED
      BY <1>6, <2>1, <3>3
  <2> QED
    BY <1>7, <2>3, <2>4
<1>8. NodeTypes'
  BY <1>1, <1>4, <1>5, <1>6 DEF RelayInv, NodeTypes
<1>9. Lifecycle'
  BY <1>1 DEF RelayInv, Lifecycle, Arrivals
<1>10. Guarded'
  <2>1. ASSUME NEW c \in ContentId PROVE
           Fits(Arrivals(c), age'[c], seen'[Recipient][<<c, 0>>], 0, ExpiresAt(Recipient))
    <3>1. Fits(Arrivals(c), age[c], seen[Recipient][<<c, 0>>], 0, ExpiresAt(Recipient))
      BY DEF RelayInv, Guarded
    <3>2. Arrivals(c) \in Nat /\ (stage[c] = "unsent" => Arrivals(c) = 0)
      BY <1>2 DEF RelayInv, Lifecycle, Arrivals
    <3>3. Recipient \in Peer /\ 0 \in Attempts /\ 0 \in Int
      BY KeyTypes, RelayAssumption
    <3> QED
      BY <1>7, <3>1, <3>2, <3>3
  <2> QED
    BY <1>1, <2>1 DEF RelayInv, Guarded, Arrivals, ExpiresAt
<1>11. AnswersTrue'
  <2>1. \A c \in ContentId : replay'[c] > 0 => replay[c] > 0
    BY <1>2, <1>5
  <2> QED
    BY <1>1, <2>1 DEF RelayInv, AnswersTrue
<1>12. Suppressed'
  <2>1. ASSUME NEW n \in Peer, NEW c \in ContentId, NEW a \in Attempts PROVE
           Fits(passes[n][<<c, a>>], age'[c], seen'[n][<<c, a>>], OpensAt(n), ExpiresAt(n))
    <3>1. Fits(passes[n][<<c, a>>], age[c], seen[n][<<c, a>>], OpensAt(n), ExpiresAt(n))
      BY DEF RelayInv, Suppressed
    <3>2. passes[n][<<c, a>>] \in Nat /\ (stage[c] = "unsent" => passes[n][<<c, a>>] = 0)
      BY <1>2, KeyTypes DEF RelayInv, Lifecycle
    <3>3. OpensAt(n) \in Int
      BY AgeTypes
    <3> QED
      BY <1>7, <3>1, <3>2, <3>3
  <2> QED
    BY <1>1, <2>1 DEF Suppressed, OpensAt, ExpiresAt
<1> QED
  BY <1>8, <1>9, <1>10, <1>11, <1>12 DEF NodeInv

-----------------------------------------------------------------------------
(* The origin, the network and time use the tracker as it allows.           *)
LEMMA RelayStepIsTrackerStep ==
    ASSUME RelayInv, [Next]_vars
    PROVE  [TrackerNext]_trackerVars
<1>1. ASSUME NEW c \in ContentId, NEW hop \in Linked(Origin), Register(c, hop)
      PROVE  TrackerNext
  <2>1. hop \in Peer /\ Recipient \in Peer
    BY RelayAssumption DEF Linked
  <2> QED
    BY <1>1, <2>1 DEF Register, TrackerNext
<1>2. CASE Retransmit
  <2>1. Cardinality(DOMAIN pending) \in Nat
    BY EntryTypes, FS_CardinalityType
  <2>2. 0 \in 0..Cardinality(DOMAIN pending) /\ {} \in SUBSET ContentId
    BY <2>1
  <2> QED
    BY <1>2, <2>2 DEF Retransmit, TrackerNext
<1>3. ASSUME NEW c \in ContentId, DeliveredArrives(c)
      PROVE  TrackerNext \/ UNCHANGED trackerVars
  BY <1>3 DEF DeliveredArrives, TrackerNext
<1>4. CASE Elapse
  <2>1. /\ pending' = [c \in DOMAIN pending |->
                         [pending[c] EXCEPT !.left = SaturatingSub(@, 1)]]
        /\ UNCHANGED <<per_peer, total_bytes, per_peer_bytes>>
    BY <1>4 DEF Elapse
  <2>2. CASE \E c \in DOMAIN pending : pending[c].left > 0
    BY <2>1, <2>2 DEF ClockStep, TrackerNext
  <2>3. CASE ~\E c \in DOMAIN pending : pending[c].left > 0
    <3>1. ASSUME NEW c \in DOMAIN pending
          PROVE  [pending[c] EXCEPT !.left = SaturatingSub(@, 1)] = pending[c]
      <4>1. pending[c] \in PendingEntry
        BY EntryTypes
      <4>2. pending[c].left = 0
        BY <2>3, <4>1, LimitAssumption DEF PendingEntry
      <4>3. SaturatingSub(pending[c].left, 1) = pending[c].left
        BY <4>2 DEF SaturatingSub
      <4> QED
        BY ONLY <4>1, <4>3 DEF PendingEntry
    <3>2. pending' = [c \in DOMAIN pending |-> pending[c]]
      BY <2>1, <3>1
    <3>3. pending' = pending
      BY <3>2, EntryTypes
    <3> QED
      BY <2>1, <3>3 DEF trackerVars
  <2> QED
    BY <2>2, <2>3
<1>5. ASSUME NEW c \in ContentId, NEW H, Originate(c, H) PROVE UNCHANGED trackerVars
  BY <1>5 DEF Originate
<1>6. ASSUME NEW f \in net, RelayForward(f) \/ TerminalArrival(f) PROVE UNCHANGED trackerVars
  BY <1>6 DEF RelayForward, TerminalArrival, originVars
<1>7. ASSUME NEW c \in ContentId, TerminalDeliver(c) PROVE UNCHANGED trackerVars
  BY <1>7 DEF TerminalDeliver, originVars
<1>8. CASE Lose
  BY <1>8 DEF Lose, originVars
<1>9. CASE UNCHANGED vars
  BY <1>9 DEF vars, originVars
<1> QED
  BY <1>1, <1>2, <1>3, <1>4, <1>5, <1>6, <1>7, <1>8, <1>9 DEF Next

(* The induction.                                                          *)
LEMMA InitRelayInv == Init => RelayInv
<1> SUFFICES ASSUME Init PROVE RelayInv
  OBVIOUS
<1>1. TrackerInv
  BY InitEstablishesInv DEF Init
<1>2. NodeTypes
  BY RelayAssumption DEF Init, NodeTypes
<1>3. Lifecycle
  BY KeyTypes DEF Init, TrackerInit, Lifecycle, Arrivals
<1>4. Guarded /\ AnswersTrue /\ Suppressed
  <2>1. /\ \A c \in ContentId : Arrivals(c) = 0 /\ delivered[c] = 0 /\ opened[c] = 0
        /\ answers = {} /\ acked = {}
        /\ \A c \in ContentId : replay[c] = 0
        /\ \A n \in Peer, c \in ContentId, a \in Attempts : passes[n][<<c, a>>] = 0
    BY KeyTypes DEF Init, Arrivals
  <2>2. Guarded
    BY <2>1 DEF Guarded, Fits
  <2>3. Suppressed
    BY <2>1 DEF Suppressed, Fits
  <2> QED
    BY <2>1, <2>2, <2>3 DEF AnswersTrue
<1> QED
  BY <1>1, <1>2, <1>3, <1>4 DEF RelayInv

LEMMA NextRelayInv == RelayInv /\ [Next]_vars => RelayInv'
<1> SUFFICES ASSUME RelayInv, [Next]_vars PROVE RelayInv'
  OBVIOUS
<1>1. TrackerInv'
  BY RelayStepIsTrackerStep, NextKeepsInv DEF RelayInv
<1>2. ASSUME UNCHANGED vars PROVE NodeInv'
  <2>1. UNCHANGED <<pending, stage, acked, failed, seen, passes, opening, replay,
                    opened, delivered, age, net, answers>>
    BY <1>2 DEF vars, originVars, trackerVars, relayVars, recipientVars
  <2>2. NodeTypes' /\ AnswersTrue' /\ Suppressed'
    BY <2>1 DEF RelayInv, NodeTypes, AnswersTrue, Suppressed
  <2>3. Lifecycle' /\ Guarded'
    BY <2>1 DEF RelayInv, Lifecycle, Guarded, Arrivals
  <2> QED
    BY <2>2, <2>3 DEF NodeInv
<1>3. NodeInv'
  BY <1>2, OriginateKeepsInv, RegisterNodeInv, RetransmitNodeInv, DeliveredArrivesKeepsInv,
     RelayForwardKeepsInv, TerminalArrivalKeepsInv, TerminalDeliverKeepsInv, LoseKeepsInv,
     ElapseKeepsInv DEF Next
<1> QED
  BY <1>1, <1>3 DEF RelayInv, NodeInv

-----------------------------------------------------------------------------
(* The origin of the delivery plane uses the tracker only as the tracker's   *)
(* own specification allows.                                               *)
THEOREM RelayImplementsTracker == Spec => TrackerSpec
<1>1. Init => TrackerInit
  BY DEF Init
<1>2. RelayInv /\ [Next]_vars => [TrackerNext]_trackerVars
  BY RelayStepIsTrackerStep
<1> QED
  BY <1>1, <1>2, InitRelayInv, NextRelayInv, PTL DEF Spec, TrackerSpec

(* No frame ever carries more than MAX_RELAY_HOPS hops or an attempt past    *)
(* the last one, and answers and reports are about acknowledged sends only. *)
THEOREM RelayTypes == Spec => []TypeOK
<1>1. RelayInv => TypeOK
  BY DEF RelayInv, TrackerInv, NodeTypes, TypeOK
<1> QED
  BY <1>1, InitRelayInv, NextRelayInv, PTL DEF Spec

(* terminal_deliver hands a message to an application at most once per dedup  *)
(* window of the envelope's life at the recipient, whatever copies and        *)
(* retransmits arrive and whatever the clocks show; so once if the life fits  *)
(* the window.                                                             *)
THEOREM DeliversOncePerWindow == Spec => []AtMostOncePerWindow
<1>1. RelayInv => AtMostOncePerWindow
  <2> SUFFICES ASSUME RelayInv, NEW c \in ContentId, delivered[c] > 0
               PROVE  (delivered[c] - 1) * SeenTtl < EnvTtl + Behind[Recipient]
    BY DEF AtMostOncePerWindow
  <2>1. delivered[c] \in Nat /\ Arrivals(c) \in Nat /\ delivered[c] <= Arrivals(c)
    <3>1. delivered[c] \in Nat /\ opened[c] \in Nat /\ opening[c] \in Nat
      BY DEF RelayInv, NodeTypes
    <3>2. delivered[c] <= opened[c]
      BY DEF RelayInv, Guarded
    <3> QED
      BY <3>1, <3>2 DEF Arrivals
  <2>2. Fits(Arrivals(c), age[c], seen[Recipient][<<c, 0>>], 0, ExpiresAt(Recipient))
    BY DEF RelayInv, Guarded
  <2>3. /\ age[c] \in Nat /\ seen[Recipient][<<c, 0>>] \in Nat
        /\ ExpiresAt(Recipient) \in Int /\ 0 \in Int
    BY KeyTypes, AgeTypes, RelayAssumption DEF RelayInv, NodeTypes
  <2>4. Fits(delivered[c], age[c], seen[Recipient][<<c, 0>>], 0, ExpiresAt(Recipient))
    BY <2>1, <2>2, <2>3, FitsFewer
  <2>5. (delivered[c] - 1) * SeenTtl < ExpiresAt(Recipient) - 0
    BY <2>4 DEF Fits
  <2> QED
    BY <2>3, <2>5 DEF ExpiresAt
<1> QED
  BY <1>1, InitRelayInv, NextRelayInv, PTL DEF Spec

(* An acknowledged message was opened for an application by the recipient,    *)
(* and is never reported failed too.                                       *)
THEOREM AckMeansOpened == Spec => []AckedMeansOpened
<1>1. RelayInv => AckedMeansOpened
  BY DEF RelayInv, AnswersTrue, Lifecycle, AckedMeansOpened
<1> QED
  BY <1>1, InitRelayInv, NextRelayInv, PTL DEF Spec

(* Loop suppression: a relay forwards an attempt of an envelope once per       *)
(* dedup window of the time it accepts the envelope, so at most a fixed        *)
(* number of times however far its clock is behind.                         *)
THEOREM RelaysPassOncePerWindow == Spec => []OnePassPerWindow
<1>1. RelayInv => OnePassPerWindow
  <2> SUFFICES ASSUME RelayInv, NEW n \in Peer, NEW k \in Keys, passes[n][k] > 0
               PROVE  (passes[n][k] - 1) * SeenTtl < AcceptSpan(n)
    BY DEF OnePassPerWindow
  <2>1. PICK c \in ContentId, a \in Attempts : k = <<c, a>>
    BY DEF Keys
  <2>2. Fits(passes[n][k], age[c], seen[n][k], OpensAt(n), ExpiresAt(n))
    BY <2>1 DEF RelayInv, Suppressed
  <2>3. (passes[n][k] - 1) * SeenTtl < ExpiresAt(n) - OpensAt(n)
    BY <2>2 DEF Fits
  <2> QED
    BY <2>3, AgeTypes
<1> QED
  BY <1>1, InitRelayInv, NextRelayInv, PTL DEF Spec
=============================================================================
