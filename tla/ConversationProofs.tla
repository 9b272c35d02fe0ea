------------------------- MODULE ConversationProofs -------------------------
(***************************************************************************)
(* The conversation of two devices, for every MAX_SKIP, any number of        *)
(* messages, threads and faults: until somebody gives it up, nothing that was *)
(* opened on an entry goes up again, nothing is refused without one of four   *)
(* reasons, and what either device seals next opens at the other.           *)
(***************************************************************************)
EXTENDS Conversation, FiniteSetTheorems, TLAPS

\* The roots of an entry, and the root with number r.
Roots(c) == {c[i].s.root : i \in DOMAIN c}
Get(c, r) == c[CHOOSE i \in DOMAIN c : c[i].s.root = r]

\* The payloads that may still be opened.
Transit == net \cup {t.m : t \in agreeing}

\* The key of frame f has been derived at session q, or used up.
Passed(q, f) == f.chain < q.recv \/ (f.chain = q.recv /\ f.n < q.nr)
Spent(q, f) == Passed(q, f) /\ ~Banked(q, f)

-----------------------------------------------------------------------------
(* The two ends of a root.                                                 *)

\* p has heard the chain that q sends on, and has the next word.
Leads(p, q) == q.send # 0 /\ p.recv = q.send /\ p.nr <= q.ns
Linked(p, q) == Leads(p, q) \/ Leads(q, p)

\* What p has sent is of its present chain, or of one that q has heard.
Flows(p, q, f) ==
    IF f.chain = p.send
    THEN f.base = p.recv /\ f.pn = p.pn /\ f.n < p.ns
    ELSE f.chain <= q.recv /\ (f.chain = q.recv => f.n < p.pn)

\* A session alone.  of gives the root of each chain.
Sane(s, of, top) ==
    /\ s.root # 0 /\ of[s.root] = s.root /\ s.base = s.recv
    /\ s.send <= top /\ s.recv <= top
    /\ s.send # 0 => s.recv < s.send /\ s.root <= s.send /\ of[s.send] = s.root
    /\ s.recv # 0 => s.root <= s.recv /\ of[s.recv] = s.root
    /\ \A k \in s.skipped :
          /\ k[1] # 0 /\ of[k[1]] = s.root
          /\ k[1] < s.recv \/ (k[1] = s.recv /\ k[2] < s.nr)
    /\ s.send = 0 => s.recv # 0

-----------------------------------------------------------------------------
(* The invariant, while nobody has given up: own is the root each device has *)
(* begun (0: none), of the root of each chain.                             *)

\* The root in use, and when the last that has opened was sealed.
Main(c) == c[1].s.root
HeardAt(c) == c[1].peer_sent_at

\* The roots of an entry have different numbers.
Distinct(c) == \A i, j \in DOMAIN c : c[i].s.root = c[j].s.root => i = j

\* A payload under way: it is of a root its sender holds, a prologue if it is of the
\* first chain of a root that its sender has begun.
PayloadSane(m, own, of) ==
    LET f == m.f
        r == of[f.chain]
    IN  /\ f.chain # 0 /\ f.chain <= m.id /\ m.id <= sealed /\ m.at <= now
        /\ f.base < f.chain /\ r <= f.chain /\ r # 0
        /\ r \in Roots(conv[m.from])
        /\ m.prologue <=> f.chain = r
        /\ f.base = 0 <=> f.chain = r
        /\ f.base # 0 => of[f.base] = r
        /\ m.prologue => r = own[m.from]
PayloadsSane(own, of) == \A m \in Transit : PayloadSane(m, own, of)

PayloadsUnique ==
    \A m, g \in Transit :
       m.id = g.id \/ (m.f.chain = g.f.chain /\ m.f.n = g.f.n) => m = g

\* The roots a device holds: the one it began is vouched for, and pending until
\* the peer answers; one it accepted has sent nothing before it is vouched for.
OwnRoot(r) ==
    /\ r.proven /\ (r.pending <=> r.s.recv = 0)
    /\ r.s.recv = 0 => r.s.send = r.s.root
HeardRoot(r) ==
    /\ ~r.pending /\ r.s.recv # 0 /\ (r.s.recv = r.s.root => r.s.pn = 0)
    /\ ~r.proven => r.s.send = 0 /\ r.s.recv = r.s.root

RootSane(h, d, r, own, of) ==
    /\ Sane(h.s, of, sealed)
    /\ r = own[d] \/ r = own[Peer(d)]
    /\ r = own[d] => OwnRoot(h)
    /\ r = own[Peer(d)] => HeardRoot(h)

EntrySane(d, own, of) ==
    /\ own[d] <= sealed /\ opened[d] \subseteq 1..sealed
    /\ own[d] # 0 => own[d] \in Roots(conv[d]) /\ own[d] # own[Peer(d)]
    /\ Distinct(conv[d])
    /\ \A r \in Roots(conv[d]) : RootSane(Get(conv[d], r), d, r, own, of)
    /\ \A q, r \in Roots(conv[d]) :
          q # r => Get(conv[d], q).proven /\ (q = own[Peer(d)] => Get(conv[d], q).accepted)
EntriesSane(own, of) == \A d \in Device : EntrySane(d, own, of)

\* A payload of a root whose receiver holds it as h.
Arrives(m, h) ==
    /\ m.id \in opened[Peer(m.from)] <=> Spent(h.s, m.f)
    /\ Spent(h.s, m.f) => m.at <= HeardAt(conv[Peer(m.from)])

\* The two ends of a root that both devices hold, and what p has sent on it.
RootLinked(p, r, of) ==
    LET a == Get(conv[p], r)
        b == Get(conv[Peer(p)], r)
    IN  /\ Linked(a.s, b.s)
        /\ \A m \in Transit : m.from = p /\ of[m.f.chain] = r =>
              Flows(a.s, b.s, m.f) /\ Arrives(m, b)
RootsLinked(of) ==
    \A p \in Device : \A r \in Roots(conv[p]) \cap Roots(conv[Peer(p)]) : RootLinked(p, r, of)

\* A root that only the device that began it holds: nothing but prologues so far.
Unheard(x, own, of) ==
    own[x] # 0 /\ own[x] \notin Roots(conv[Peer(x)]) =>
       LET a == Get(conv[x], own[x])
       IN  /\ a.s.recv = 0
           /\ \A m \in Transit : of[m.f.chain] = own[x] =>
                 /\ m.f.chain = own[x] /\ m.f.n < a.s.ns /\ m.f.pn = a.s.pn
                 /\ m.id \notin opened[Peer(x)]
RootsUnheard(own, of) == \A x \in Device : Unheard(x, own, of)

\* Payloads m and g of device e, on its own root and on that of the peer.
Older(e, its, mine, of) ==
    \A m \in Transit : m.from = e /\ of[m.f.chain] = its =>
       \A g \in Transit : g.from = e /\ of[g.f.chain] = mine => m.id < g.id /\ m.at <= g.at

\* All that device e has sent on its own root comes too late at d.
Overtaken(d, e, its, of) ==
    \A m \in Transit : m.from = e /\ of[m.f.chain] = its =>
       m.at <= HeardAt(conv[d]) /\ \E i \in opened[d] : m.id < i

\* Device e holds the root of its own and that of d, and d only the latter: e has
\* not sent on it, or all it sent on its own is older.
OneSided(d, own, of) ==
    LET e == Peer(d)
        mine == own[d]
        its == own[e]
    IN  mine # 0 /\ its # 0 /\ its \notin Roots(conv[d]) /\ mine \in Roots(conv[e]) =>
        \/ /\ Main(conv[e]) = its
           /\ Get(conv[e], mine).s.send = 0 /\ Get(conv[d], mine).s.recv = 0
        \/ /\ Main(conv[e]) = mine /\ Older(e, its, mine, of)
           /\ Get(conv[d], mine).s.recv # 0 => Overtaken(d, e, its, of)
RootsOneSided(own, of) == \A d \in Device : OneSided(d, own, of)

\* Of a prologue in its key agreement whose root the device holds and does not
\* know again, the key is spent and it may only ask to be fresher, or it is too far
\* into its chain.
AgreementSane(t) ==
    /\ t.m.prologue /\ (t.ask => t.known)
    /\ t.m.f.chain \in Roots(conv[t.d]) =>
          LET h == Get(conv[t.d], t.m.f.chain)
          IN  \/ h.accepted \/ ~AcceptFits(t.m.f)
              \/ t.ask /\ t.m.f.chain < h.s.recv /\ ~Banked(h.s, t.m.f)
AgreementsSane == \A t \in agreeing : AgreementSane(t)

Core(own, of) ==
    /\ PayloadsSane(own, of) /\ PayloadsUnique /\ EntriesSane(own, of)
    /\ RootsLinked(of) /\ RootsUnheard(own, of) /\ RootsOneSided(own, of)

Excused == (\A r \in twice : r.excused) /\ \A r \in refused : r.excused

Sound(own, of) == Core(own, of) /\ AgreementsSane /\ Excused

-----------------------------------------------------------------------------
(* Types.                                                                  *)

\* An entry is empty, or has the root in use and at most one other; one under which
\* too many frames did not open is not kept.
Kept == {r \in Root : r.failures < WedgedAfter}
Entry == {<<>>} \cup {<<r>> : r \in Kept} \cup {<<r, q>> : r \in Kept, q \in Kept}
Agreement == [d : Device, thread : Thread, m : Payload, known : BOOLEAN, ask : BOOLEAN]

HistoryTypes ==
    /\ opened \in [Device -> SUBSET Nat] /\ loose \subseteq Nat
    /\ twice \subseteq [id : Nat, excused : BOOLEAN]
    /\ refused \subseteq [id : Nat, excused : BOOLEAN] /\ whole \in BOOLEAN

ConvTypes ==
    /\ conv \in [Device -> Entry]
    /\ net \subseteq Payload /\ notice \subseteq Device
    /\ agreeing \subseteq Agreement /\ \A t \in agreeing : t.d = Peer(t.m.from)
    /\ cert \in [Device -> BOOLEAN] /\ replied \in [Device -> Int]
    /\ now \in Nat /\ sealed \in 0..(MaxSeals + Repairs)
    /\ HistoryTypes

(* A device has one peer, and is the peer of its peer.                     *)
LEMMA PeerFacts ==
    \A d \in Device :
       /\ Peer(d) \in Device /\ Peer(d) # d /\ Peer(Peer(d)) = d /\ d \in Int
       /\ \A e \in Device : e = d \/ e = Peer(d)
<1>1. PICK a \in Device, b \in Device : a # b /\ Device = {a, b}
  BY DeviceAssumption
<1> SUFFICES ASSUME NEW d \in Device
             PROVE  /\ Peer(d) \in Device /\ Peer(d) # d /\ Peer(Peer(d)) = d /\ d \in Int
                    /\ \A e \in Device : e = d \/ e = Peer(d)
  OBVIOUS
<1>2. \A e \in Device : Peer(e) \in Device /\ Peer(e) # e
  BY <1>1 DEF Peer
<1> QED
  BY <1>1, <1>2, DeviceAssumption

(* What an entry of one root or of two is.                                 *)
LEMMA EntryForms ==
    /\ DOMAIN <<>> = {}
    /\ \A r : DOMAIN <<r>> = {1} /\ <<r>>[1] = r /\ <<r>> # <<>> /\ Len(<<r>>) = 1
    /\ \A r, q :
          /\ DOMAIN <<r, q>> = {1, 2} /\ <<r, q>>[1] = r /\ <<r, q>>[2] = q
          /\ <<r, q>> # <<>> /\ Len(<<r, q>>) = 2
<1>1. \A r : DOMAIN <<r>> = {1} /\ <<r>>[1] = r /\ Len(<<r>>) = 1
  OBVIOUS
<1>2. \A r, q : DOMAIN <<r, q>> = {1, 2} /\ <<r, q>>[1] = r /\ <<r, q>>[2] = q /\ Len(<<r, q>>) = 2
  OBVIOUS
<1>3. DOMAIN <<>> = {}
  OBVIOUS
<1> QED
  BY <1>1, <1>2, <1>3

(* Changing the first root of an entry.                                    *)
LEMMA EntryExcept ==
    /\ \A r, z : [<<r>> EXCEPT ![1] = z] = <<z>>
    /\ \A r, q, z : [<<r, q>> EXCEPT ![1] = z] = <<z, q>>
  OBVIOUS

(* The roots of an entry by their numbers.                                 *)
LEMMA EntryRoots ==
    /\ Roots(<<>>) = {}
    /\ \A r : Roots(<<r>>) = {r.s.root} /\ Get(<<r>>, r.s.root) = r
    /\ \A r, q :
          /\ Roots(<<r, q>>) = {r.s.root, q.s.root}
          /\ r.s.root # q.s.root =>
                Get(<<r, q>>, r.s.root) = r /\ Get(<<r, q>>, q.s.root) = q
<1>1. Roots(<<>>) = {}
  BY EntryForms DEF Roots
<1>2. ASSUME NEW r PROVE Roots(<<r>>) = {r.s.root} /\ Get(<<r>>, r.s.root) = r
  BY EntryForms DEF Roots, Get
<1>3. ASSUME NEW r, NEW q
      PROVE  /\ Roots(<<r, q>>) = {r.s.root, q.s.root}
             /\ r.s.root # q.s.root =>
                   Get(<<r, q>>, r.s.root) = r /\ Get(<<r, q>>, q.s.root) = q
  <2>1. Roots(<<r, q>>) = {r.s.root, q.s.root}
    BY EntryForms DEF Roots
  <2>2. ASSUME r.s.root # q.s.root
        PROVE  /\ (CHOOSE i \in {1, 2} : <<r, q>>[i].s.root = r.s.root) = 1
               /\ (CHOOSE i \in {1, 2} : <<r, q>>[i].s.root = q.s.root) = 2
    BY <2>2, EntryForms
  <2> QED
    BY <2>1, <2>2, EntryForms DEF Get
<1> QED
  BY <1>1, <1>2, <1>3

(* The three forms of an entry of type Entry.                              *)
LEMMA EntryCases ==
    \A c \in Entry :
       c = <<>> \/ (\E r \in Kept : c = <<r>>) \/ (\E r, q \in Kept : c = <<r, q>>)
  BY DEF Entry

-----------------------------------------------------------------------------
(* One session.                                                            *)

(* Banked keys are keys.                                                   *)
LEMMA BanksType ==
    \A chain, from, until \in Nat : Banks(chain, from, until) \subseteq Nat \X Nat
  BY DEF Banks

(* What is banked: the numbers from one up to, and not with, another.      *)
LEMMA BanksMember ==
    \A chain, from, until \in Nat : \A a, n \in Nat :
       <<a, n>> \in Banks(chain, from, until) <=> a = chain /\ from <= n /\ n < until
  BY DEF Banks

(* A fresh initiator session: it sends on its own root and has received    *)
(* nothing.                                                                *)
LEMMA InitiatorFacts ==
    \A id \in Nat :
       LET u == Initiator(id)
       IN  /\ u \in Session /\ u.root = id /\ u.send = id /\ u.base = 0 /\ u.ns = 0
           /\ u.pn = 0 /\ u.recv = 0 /\ u.nr = 0 /\ u.skipped = {}
  BY DEF Initiator, Session

(* A fresh responder session: it follows the prologue's chain and has      *)
(* banked the keys before it.                                              *)
LEMMA ResponderFacts ==
    \A f \in Frame :
       LET u == Responder(f)
       IN  /\ u \in Session /\ u.root = f.chain /\ u.send = 0 /\ u.base = f.chain /\ u.ns = 0
           /\ u.pn = 0 /\ u.recv = f.chain /\ u.nr = f.n + 1 /\ u.skipped = Banks(f.chain, 0, f.n)
<1> SUFFICES ASSUME NEW f \in Frame
             PROVE  Responder(f) \in Session
  BY DEF Responder
<1>1. f.chain \in Nat /\ f.n \in Nat
  BY DEF Frame
<1>2. Banks(f.chain, 0, f.n) \in SUBSET (Nat \X Nat)
  BY <1>1, BanksType
<1> QED
  BY <1>1, <1>2 DEF Responder, Session

(* Sending changes the chain, if it is the first of it, and the count.     *)
LEMMA SentFacts ==
    \A s \in Session, id \in Nat :
       LET u == Sent(s, id)
       IN  /\ u \in Session /\ u.send = SendChain(s, id) /\ u.ns = s.ns + 1
           /\ u.root = s.root /\ u.base = s.base /\ u.pn = s.pn
           /\ u.recv = s.recv /\ u.nr = s.nr /\ u.skipped = s.skipped
<1> SUFFICES ASSUME NEW s \in Session, NEW id \in Nat
             PROVE  LET u == Sent(s, id)
                    IN  /\ u \in Session /\ u.send = SendChain(s, id) /\ u.ns = s.ns + 1
                        /\ u.root = s.root /\ u.base = s.base /\ u.pn = s.pn
                        /\ u.recv = s.recv /\ u.nr = s.nr /\ u.skipped = s.skipped
  OBVIOUS
<1>1. SendChain(s, id) \in Nat /\ s.ns + 1 \in Nat
  BY DEF SendChain, Session
<1>2. Sent(s, id) = [s EXCEPT !.send = SendChain(s, id), !.ns = s.ns + 1]
  BY DEF Sent
<1>3. Sent(s, id) \in Session
  BY <1>1, <1>2 DEF Session
<1> QED
  BY <1>2, <1>3 DEF Session

(* The frame a session sends carries its own counters.                     *)
LEMMA SendFrameFacts ==
    \A s \in Session, id \in Nat :
       LET f == SendFrame(s, id)
       IN  /\ f \in Frame /\ f.chain = SendChain(s, id) /\ f.base = s.base
           /\ f.n = s.ns /\ f.pn = s.pn
  BY DEF SendFrame, SendChain, Session, Frame

(* The three ways a frame opens.                                           *)
LEMMA ReceivedBanked ==
    \A s \in Session, f \in Frame :
       Banked(s, f) =>
          LET u == Received(s, f)
          IN  /\ u \in Session /\ u.root = s.root /\ u.send = s.send /\ u.base = s.base
              /\ u.ns = s.ns /\ u.pn = s.pn /\ u.recv = s.recv /\ u.nr = s.nr
              /\ u.skipped = s.skipped \ {<<f.chain, f.n>>}
  BY DEF Received, Session

(* A frame of the chain being received advances it and banks the keys      *)
(* passed over.                                                            *)
LEMMA ReceivedOnChain ==
    \A s \in Session, f \in Frame :
       ~Banked(s, f) /\ OnChain(s, f) =>
          LET u == Received(s, f)
          IN  /\ u \in Session /\ u.root = s.root /\ u.send = s.send /\ u.base = s.base
              /\ u.ns = s.ns /\ u.pn = s.pn /\ u.recv = s.recv /\ u.nr = f.n + 1
              /\ u.skipped = s.skipped \cup Banks(f.chain, s.nr, f.n)
<1> SUFFICES ASSUME NEW s \in Session, NEW f \in Frame, ~Banked(s, f), OnChain(s, f)
             PROVE  LET u == Received(s, f)
                    IN  /\ u \in Session /\ u.root = s.root /\ u.send = s.send /\ u.base = s.base
                        /\ u.ns = s.ns /\ u.pn = s.pn /\ u.recv = s.recv /\ u.nr = f.n + 1
                        /\ u.skipped = s.skipped \cup Banks(f.chain, s.nr, f.n)
  OBVIOUS
<1> DEFINE B == Banks(f.chain, s.nr, f.n)
<1>1. s.nr \in Nat /\ f.n + 1 \in Nat /\ B \subseteq Nat \X Nat
  BY BanksType DEF Session, Frame
<1>2. Received(s, f) = [s EXCEPT !.skipped = s.skipped \cup B, !.nr = f.n + 1]
  BY DEF Received, Session
<1> HIDE DEF B
<1> QED
  BY <1>1, <1>2 DEF Session, B

(* A frame of a new chain turns the ratchet: the rest of the old chain is  *)
(* banked.                                                                 *)
LEMMA ReceivedTurn ==
    \A s \in Session, f \in Frame :
       ~Banked(s, f) /\ ~OnChain(s, f) =>
          LET u == Received(s, f)
          IN  /\ u \in Session /\ u.root = s.root /\ u.send = 0 /\ u.base = f.chain
              /\ u.ns = 0 /\ u.pn = s.ns /\ u.recv = f.chain /\ u.nr = f.n + 1
              /\ u.skipped = s.skipped \cup Banks(s.recv, s.nr, f.pn) \cup Banks(f.chain, 0, f.n)
<1> SUFFICES ASSUME NEW s \in Session, NEW f \in Frame, ~Banked(s, f), ~OnChain(s, f)
             PROVE  LET u == Received(s, f)
                    IN  /\ u \in Session /\ u.root = s.root /\ u.send = 0 /\ u.base = f.chain
                        /\ u.ns = 0 /\ u.pn = s.ns /\ u.recv = f.chain /\ u.nr = f.n + 1
                        /\ u.skipped = s.skipped \cup Banks(s.recv, s.nr, f.pn)
                                       \cup Banks(f.chain, 0, f.n)
  OBVIOUS
<1> DEFINE B == s.skipped \cup Banks(s.recv, s.nr, f.pn) \cup Banks(f.chain, 0, f.n)
<1>1. /\ s.ns \in Nat /\ s.nr \in Nat /\ s.recv \in Nat /\ f.chain \in Nat /\ f.n \in Nat
      /\ f.pn \in Nat /\ s.skipped \subseteq Nat \X Nat
  BY DEF Session, Frame
<1>2. B \subseteq Nat \X Nat
  BY <1>1, BanksType
<1>3. Received(s, f) = [s EXCEPT !.skipped = B, !.recv = f.chain, !.nr = f.n + 1,
                                 !.pn = s.ns, !.ns = 0, !.send = 0, !.base = f.chain]
  BY DEF Received
<1> HIDE DEF B
<1>4. f.n + 1 \in Nat
  BY <1>1
<1>5. Received(s, f) = [root |-> s.root, send |-> 0, base |-> f.chain, ns |-> 0, pn |-> s.ns,
                        recv |-> f.chain, nr |-> f.n + 1, skipped |-> B]
  BY <1>3 DEF Session
<1>6. s.root \in Nat
  BY DEF Session
<1>7. Received(s, f) \in Session
  BY <1>1, <1>2, <1>4, <1>5, <1>6 DEF Session
<1> QED
  BY <1>5, <1>7 DEF B

(* Receiving keeps a session well formed, whichever way the key is found.  *)
LEMMA ReceivedType == \A s \in Session, f \in Frame : Received(s, f) \in Session
  BY ReceivedBanked, ReceivedOnChain, ReceivedTurn

(* A frame that opens has a key that is not spent.                         *)
LEMMA OpensUnspent ==
    ASSUME NEW q \in Session, NEW f \in Frame, NEW of, NEW top \in Nat,
           Sane(q, of, top), f.base < f.chain, Opens(q, f)
    PROVE  ~Spent(q, f)
<1>1. /\ q.recv \in Nat /\ q.nr \in Nat /\ q.send \in Nat
      /\ f.chain \in Nat /\ f.n \in Nat /\ f.base \in Nat
  BY DEF Session, Frame
<1>2. CASE Banked(q, f)
  BY <1>2 DEF Spent
<1>3. CASE OnChain(q, f)
  BY <1>1, <1>3 DEF OnChain, Spent, Passed
<1>4. CASE TurnsEpoch(q, f)
  <2>1. f.base # 0 /\ f.base = q.send /\ f.chain # q.recv
    BY <1>4 DEF TurnsEpoch, Answers
  <2>2. q.recv < q.send
    BY <2>1 DEF Sane
  <2> QED
    BY <1>1, <2>1, <2>2 DEF Spent, Passed
<1> QED
  BY <1>2, <1>3, <1>4 DEF Opens

(* A frame opens only under its root.                                      *)
LEMMA OpensRoot ==
    ASSUME NEW q \in Session, NEW f \in Frame, NEW of, NEW top \in Nat,
           Sane(q, of, top), f.chain # 0, f.base # 0 => of[f.base] = of[f.chain],
           Opens(q, f)
    PROVE  q.root = of[f.chain]
<1>1. CASE Banked(q, f)
  <2>1. <<f.chain, f.n>>[1] = f.chain
    OBVIOUS
  <2> QED
    BY <1>1, <2>1 DEF Banked, Sane
<1>2. CASE OnChain(q, f)
  BY <1>2 DEF OnChain, Sane
<1>3. CASE TurnsEpoch(q, f)
  BY <1>3 DEF TurnsEpoch, Answers, Sane
<1> QED
  BY <1>1, <1>2, <1>3 DEF Opens

(* Nor does a session of another root find its key spent.                  *)
LEMMA UnavailableRoot ==
    ASSUME NEW q \in Session, NEW f \in Frame, NEW of, NEW top \in Nat,
           Sane(q, of, top), f.chain # 0, Unavailable(q, f)
    PROVE  q.root = of[f.chain]
  BY DEF Unavailable, Sane

(* A frame that turns the epoch is of a chain not met before.              *)
LEMMA TurnIsLater ==
    ASSUME NEW q \in Session, NEW f \in Frame, NEW of, NEW top \in Nat,
           Sane(q, of, top), f.base < f.chain, Answers(q, f)
    PROVE  q.recv < f.chain /\ q.send < f.chain
<1>1. q.recv \in Nat /\ q.send \in Nat /\ f.chain \in Nat /\ f.base \in Nat
  BY DEF Session, Frame
<1>2. f.base = q.send /\ q.recv < q.send
  BY DEF Answers, Sane
<1> QED
  BY <1>1, <1>2

(* A session stays sane when it receives.                                  *)
LEMMA ReceivedSane ==
    ASSUME NEW q \in Session, NEW f \in Frame, NEW of, NEW top \in Nat,
           Sane(q, of, top), f.base < f.chain, Opens(q, f), q.recv = 0 => f.pn = 0,
           f.chain <= top, of[f.chain] = q.root, q.root <= f.chain
    PROVE  Sane(Received(q, f), of, top)
<1> DEFINE u == Received(q, f)
<1>0. /\ q.root \in Nat /\ q.recv \in Nat /\ q.nr \in Nat /\ q.send \in Nat
      /\ f.chain \in Nat /\ f.n \in Nat /\ f.base \in Nat /\ f.pn \in Nat
      /\ f.chain # 0 /\ q.skipped \subseteq Nat \X Nat
  BY DEF Session, Frame
<1>1. CASE Banked(q, f)
  BY <1>1, ReceivedBanked DEF Sane
<1>2. CASE ~Banked(q, f) /\ OnChain(q, f)
  <2>1. /\ u.root = q.root /\ u.send = q.send /\ u.base = q.base /\ u.recv = q.recv
        /\ u.nr = f.n + 1 /\ u.skipped = q.skipped \cup Banks(f.chain, q.nr, f.n)
    BY <1>2, ReceivedOnChain
  <2>2. f.chain = q.recv /\ f.n >= q.nr
    BY <1>2 DEF OnChain
  <2>3. ASSUME NEW k \in u.skipped
        PROVE  k[1] # 0 /\ of[k[1]] = u.root /\ (k[1] < u.recv \/ (k[1] = u.recv /\ k[2] < u.nr))
    <3>1. CASE k \in q.skipped
      <4>1. k[1] # 0 /\ of[k[1]] = q.root /\ (k[1] < q.recv \/ (k[1] = q.recv /\ k[2] < q.nr))
        BY <3>1 DEF Sane
      <4>2. k[2] \in Nat
        BY <1>0, <3>1
      <4> QED
        BY <1>0, <2>1, <2>2, <4>1, <4>2
    <3>2. CASE k \in Banks(f.chain, q.nr, f.n)
      <4>1. k[1] = f.chain /\ k[2] \in q.nr..(f.n - 1)
        BY <3>2 DEF Banks
      <4> QED
        BY <1>0, <2>1, <2>2, <4>1
    <3> QED
      BY <2>1, <3>1, <3>2
  <2> HIDE DEF u
  <2> QED
    BY <2>1, <2>3 DEF Sane, u
<1>3. CASE ~Banked(q, f) /\ ~OnChain(q, f)
  <2>1. /\ u.root = q.root /\ u.send = 0 /\ u.base = f.chain /\ u.recv = f.chain
        /\ u.nr = f.n + 1
        /\ u.skipped = q.skipped \cup Banks(q.recv, q.nr, f.pn) \cup Banks(f.chain, 0, f.n)
    BY <1>3, ReceivedTurn
  <2>2. q.recv < f.chain
    BY <1>3, TurnIsLater DEF Opens, TurnsEpoch
  <2>3. ASSUME NEW k \in u.skipped
        PROVE  k[1] # 0 /\ of[k[1]] = u.root /\ (k[1] < u.recv \/ (k[1] = u.recv /\ k[2] < u.nr))
    <3>1. CASE k \in q.skipped
      <4>1. k[1] # 0 /\ of[k[1]] = q.root /\ (k[1] < q.recv \/ k[1] = q.recv)
        BY <3>1 DEF Sane
      <4>2. k[1] \in Nat
        BY <1>0, <3>1
      <4> QED
        BY <1>0, <2>1, <2>2, <4>1, <4>2
    <3>2. CASE k \in Banks(q.recv, q.nr, f.pn)
      <4>1. k[1] = q.recv /\ k[2] \in q.nr..(f.pn - 1)
        BY <3>2 DEF Banks
      <4>2. q.recv # 0
        BY <1>0, <4>1
      <4> QED
        BY <1>0, <2>1, <2>2, <4>1, <4>2 DEF Sane
    <3>3. CASE k \in Banks(f.chain, 0, f.n)
      <4>1. k[1] = f.chain /\ k[2] \in 0..(f.n - 1)
        BY <3>3 DEF Banks
      <4> QED
        BY <1>0, <2>1, <4>1
    <3> QED
      BY <2>1, <3>1, <3>2, <3>3
  <2> HIDE DEF u
  <2> QED
    BY <1>0, <2>1, <2>3 DEF Sane, u
<1> QED
  BY <1>1, <1>2, <1>3

(* A session stays sane when it sends the payload with the next number.    *)
LEMMA SentSane ==
    ASSUME NEW p \in Session, NEW of, NEW top \in Nat, NEW by,
           Sane(p, of, top),
           by[SendChain(p, top + 1)] = p.root,
           \A c \in 1..top : by[c] = of[c]
    PROVE  Sane(Sent(p, top + 1), by, top + 1)
<1> DEFINE u == Sent(p, top + 1)
<1>1. /\ u.send = SendChain(p, top + 1) /\ u.root = p.root /\ u.base = p.base
      /\ u.recv = p.recv /\ u.nr = p.nr /\ u.skipped = p.skipped
  BY SentFacts
<1>2. /\ p.root \in Nat /\ p.recv \in Nat /\ p.send \in Nat /\ p.nr \in Nat
      /\ p.skipped \subseteq Nat \X Nat
  BY DEF Session
<1>3. p.root <= top /\ p.root # 0
  BY <1>2 DEF Sane
<1>4. SendChain(p, top + 1) # 0 /\ (p.send = 0 => SendChain(p, top + 1) = top + 1)
      /\ (p.send # 0 => SendChain(p, top + 1) = p.send)
  BY DEF SendChain
<1>5. ASSUME NEW k \in p.skipped
      PROVE  k[1] # 0 /\ by[k[1]] = p.root /\ (k[1] < p.recv \/ (k[1] = p.recv /\ k[2] < p.nr))
  <2>1. k[1] # 0 /\ of[k[1]] = p.root /\ (k[1] < p.recv \/ (k[1] = p.recv /\ k[2] < p.nr))
    BY DEF Sane
  <2>2. k[1] \in 1..top
    BY <1>2, <2>1 DEF Sane
  <2> QED
    BY <2>1, <2>2
<1>6. by[p.root] = p.root /\ (p.recv # 0 => by[p.recv] = p.root)
  BY <1>2, <1>3 DEF Sane
<1> HIDE DEF u
<1> QED
  BY <1>1, <1>2, <1>3, <1>4, <1>5, <1>6 DEF Sane, u

(* Nor does the next payload disturb a session that does not send it.      *)
LEMMA SaneLater ==
    ASSUME NEW p \in Session, NEW of, NEW top \in Nat, NEW by,
           Sane(p, of, top), \A c \in 1..top : by[c] = of[c]
    PROVE  Sane(p, by, top + 1)
<1>1. /\ p.root \in Nat /\ p.recv \in Nat /\ p.send \in Nat /\ p.nr \in Nat
      /\ p.skipped \subseteq Nat \X Nat
  BY DEF Session
<1>2. p.root <= top /\ p.root # 0 /\ p.send <= top /\ p.recv <= top
  BY <1>1 DEF Sane
<1>3. ASSUME NEW k \in p.skipped
      PROVE  k[1] # 0 /\ by[k[1]] = p.root /\ (k[1] < p.recv \/ (k[1] = p.recv /\ k[2] < p.nr))
  <2>1. k[1] # 0 /\ of[k[1]] = p.root /\ (k[1] < p.recv \/ (k[1] = p.recv /\ k[2] < p.nr))
    BY DEF Sane
  <2>2. k[1] \in 1..top
    BY <1>1, <2>1 DEF Sane
  <2> QED
    BY <2>1, <2>2
<1>4. /\ by[p.root] = p.root /\ (p.recv # 0 => by[p.recv] = p.root)
      /\ (p.send # 0 => by[p.send] = p.root)
  BY <1>1, <1>2 DEF Sane
<1> QED
  BY <1>1, <1>2, <1>3, <1>4 DEF Sane

-----------------------------------------------------------------------------
(* Two sessions of a root.                                                 *)

(* The end that leads is the later one.                                    *)
LEMMA LeadsOrder ==
    ASSUME NEW p \in Session, NEW q \in Session, NEW of, NEW top \in Nat,
           Sane(p, of, top), Sane(q, of, top)
    PROVE  /\ Leads(p, q) => q.recv < p.recv /\ (p.send # 0 => q.recv < p.send)
           /\ Leads(p, q) => ~Leads(q, p)
<1>1. p.recv \in Nat /\ p.send \in Nat /\ q.recv \in Nat /\ q.send \in Nat
  BY DEF Session
<1>2. ASSUME Leads(p, q) PROVE q.recv < p.recv
  BY <1>1, <1>2 DEF Leads, Sane
<1>3. ASSUME Leads(q, p) PROVE p.recv < q.recv
  BY <1>1, <1>3 DEF Leads, Sane
<1>4. p.send # 0 => p.recv < p.send
  BY DEF Sane
<1> QED
  BY <1>1, <1>2, <1>3, <1>4

(* The end p sends: the two stay linked, what was under way still flows, the *)
(* new frame flows, and its key is not spent.                              *)
LEMMA LinkSent ==
    ASSUME NEW p \in Session, NEW q \in Session, NEW of, NEW top \in Nat,
           Sane(p, of, top), Sane(q, of, top), Linked(p, q)
    PROVE  LET u == Sent(p, top + 1)
               g == SendFrame(p, top + 1)
           IN  /\ Linked(u, q) /\ Flows(u, q, g) /\ ~Spent(q, g)
               /\ \A f \in Frame : f.chain # 0 /\ f.chain <= top /\ Flows(p, q, f) => Flows(u, q, f)
               /\ \A f \in Frame : Flows(q, p, f) => Flows(q, u, f)
<1> DEFINE u == Sent(p, top + 1)
           g == SendFrame(p, top + 1)
           ch == SendChain(p, top + 1)
<1>1. /\ p.recv \in Nat /\ p.send \in Nat /\ p.ns \in Nat /\ p.nr \in Nat /\ p.pn \in Nat
      /\ q.recv \in Nat /\ q.send \in Nat /\ q.ns \in Nat /\ q.nr \in Nat
      /\ q.recv <= top /\ p.send <= top /\ p.base = p.recv
  BY DEF Session, Sane
<1>2. /\ u.send = ch /\ u.ns = p.ns + 1 /\ u.base = p.base /\ u.pn = p.pn /\ u.recv = p.recv
      /\ u.nr = p.nr
  BY SentFacts
<1>3. g \in Frame /\ g.chain = ch /\ g.base = p.base /\ g.n = p.ns /\ g.pn = p.pn
  BY SendFrameFacts
<1>4. (p.send = 0 => ch = top + 1) /\ (p.send # 0 => ch = p.send)
  BY DEF SendChain
<1> HIDE DEF u, g, ch
<1>5. Linked(u, q)
  BY <1>1, <1>2, <1>4 DEF Linked, Leads
<1>6. Flows(u, q, g)
  BY <1>1, <1>2, <1>3 DEF Flows
<1>7. ~Passed(q, g)
  <2>1. CASE Leads(p, q)
    <3>1. q.recv < ch
      BY <1>1, <1>4, <2>1, LeadsOrder
    <3> QED
      BY <1>1, <1>3, <1>4, <3>1 DEF Passed
  <2>2. CASE Leads(q, p)
    BY <1>1, <1>3, <1>4, <2>2 DEF Leads, Passed
  <2> QED
    BY <2>1, <2>2 DEF Linked
<1>8. ASSUME NEW f \in Frame, f.chain # 0, f.chain <= top, Flows(p, q, f)
      PROVE  Flows(u, q, f)
  <2>1. f.chain \in Nat /\ f.n \in Nat
    BY DEF Frame
  <2> QED
    BY <1>1, <1>2, <1>4, <1>8, <2>1 DEF Flows
<1>9. ASSUME NEW f \in Frame, Flows(q, p, f)
      PROVE  Flows(q, u, f)
  BY <1>2, <1>9 DEF Flows
<1> QED
  BY <1>5, <1>6, <1>7, <1>8, <1>9 DEF Spent, u, g

(* A frame that answers q is of the chain p sends on, and p leads.         *)
LEMMA TurnIsCurrent ==
    ASSUME NEW p \in Session, NEW q \in Session, NEW of, NEW top \in Nat, NEW f \in Frame,
           Sane(p, of, top), Sane(q, of, top), f.base < f.chain,
           Flows(p, q, f), Answers(q, f)
    PROVE  f.chain = p.send /\ f.pn = p.pn /\ p.recv = q.send /\ q.send # 0 /\ f.n < p.ns
<1>1. q.recv < f.chain
  BY TurnIsLater
<1>2. q.recv \in Nat /\ f.chain \in Nat
  BY DEF Session, Frame
<1> QED
  BY <1>1, <1>2 DEF Flows, Answers

(* The end q receives: the two stay linked, what was under way still flows,  *)
(* and of what p has sent, one key more is spent.                          *)
LEMMA LinkReceived ==
    ASSUME NEW p \in Session, NEW q \in Session, NEW of, NEW top \in Nat, NEW f \in Frame,
           Sane(p, of, top), Sane(q, of, top), Linked(p, q),
           f.base < f.chain, Flows(p, q, f), Opens(q, f)
    PROVE  LET u == Received(q, f)
           IN  /\ Linked(p, u)
               /\ \A g \in Frame : Flows(p, q, g) =>
                     /\ Flows(p, u, g)
                     /\ Spent(u, g) <=> Spent(q, g) \/ (g.chain = f.chain /\ g.n = f.n)
               /\ \A g \in Frame : g.chain # 0 /\ Flows(q, p, g) => Flows(u, p, g)
<1> DEFINE u == Received(q, f)
<1>0. /\ p.recv \in Nat /\ p.send \in Nat /\ p.ns \in Nat /\ p.nr \in Nat /\ p.pn \in Nat
      /\ q.recv \in Nat /\ q.send \in Nat /\ q.ns \in Nat /\ q.nr \in Nat /\ q.pn \in Nat
      /\ f.chain \in Nat /\ f.n \in Nat /\ f.base \in Nat /\ f.pn \in Nat
  BY DEF Session, Frame
<1>f. \A g \in Frame : g.chain \in Nat /\ g.n \in Nat /\ g.pn \in Nat /\ g.base \in Nat
  BY DEF Frame
<1>1. CASE Banked(q, f)
  <2>1. /\ u.send = q.send /\ u.ns = q.ns /\ u.pn = q.pn /\ u.recv = q.recv /\ u.nr = q.nr
        /\ u.skipped = q.skipped \ {<<f.chain, f.n>>}
    BY <1>1, ReceivedBanked
  <2>2. Passed(q, f)
    <3>1. <<f.chain, f.n>>[1] = f.chain /\ <<f.chain, f.n>>[2] = f.n
      OBVIOUS
    <3> QED
      BY <1>1, <3>1 DEF Banked, Passed, Sane
  <2> HIDE DEF u
  <2>3. Linked(p, u)
    BY <2>1 DEF Linked, Leads
  <2>4. \A g \in Frame : (Flows(p, q, g) => Flows(p, u, g)) /\ (Flows(q, p, g) => Flows(u, p, g))
    BY <2>1 DEF Flows
  <2>5. ASSUME NEW g \in Frame
        PROVE  Spent(u, g) <=> Spent(q, g) \/ (g.chain = f.chain /\ g.n = f.n)
    <3>1. Passed(u, g) <=> Passed(q, g)
      BY <2>1 DEF Passed
    <3>2. <<g.chain, g.n>> = <<f.chain, f.n>> <=> g.chain = f.chain /\ g.n = f.n
      OBVIOUS
    <3>3. Banked(u, g) <=> Banked(q, g) /\ ~(g.chain = f.chain /\ g.n = f.n)
      BY <2>1, <3>2 DEF Banked
    <3>4. g.chain = f.chain /\ g.n = f.n => Passed(q, g)
      BY <2>2 DEF Passed
    <3> QED
      BY <3>1, <3>3, <3>4 DEF Spent
  <2> QED
    BY <2>3, <2>4, <2>5 DEF u
<1>2. CASE ~Banked(q, f) /\ OnChain(q, f)
  <2>1. /\ u.send = q.send /\ u.ns = q.ns /\ u.pn = q.pn /\ u.recv = q.recv /\ u.nr = f.n + 1
        /\ u.skipped = q.skipped \cup Banks(f.chain, q.nr, f.n)
    BY <1>2, ReceivedOnChain
  <2>2. f.chain = q.recv /\ f.n >= q.nr
    BY <1>2 DEF OnChain
  <2> HIDE DEF u
  <2>3. Linked(p, u)
    <3>1. CASE Leads(p, q)
      BY <2>1, <3>1 DEF Linked, Leads
    <3>2. CASE Leads(q, p)
      <4>1. f.chain = p.send
        BY <2>2, <3>2 DEF Leads
      <4>2. f.n < p.ns
        BY <4>1 DEF Flows
      <4> QED
        BY <1>0, <2>1, <3>2, <4>2 DEF Linked, Leads
    <3> QED
      BY <3>1, <3>2 DEF Linked
  <2>4. \A g \in Frame : (Flows(p, q, g) => Flows(p, u, g)) /\ (Flows(q, p, g) => Flows(u, p, g))
    BY <2>1 DEF Flows
  <2>5. ASSUME NEW g \in Frame
        PROVE  Spent(u, g) <=> Spent(q, g) \/ (g.chain = f.chain /\ g.n = f.n)
    <3>1. Passed(u, g) <=> Passed(q, g) \/ (g.chain = q.recv /\ q.nr <= g.n /\ g.n <= f.n)
      BY <1>0, <1>f, <2>1, <2>2 DEF Passed
    <3>2. Banked(u, g) <=> Banked(q, g) \/ (g.chain = q.recv /\ q.nr <= g.n /\ g.n < f.n)
      <4>1. <<g.chain, g.n>> \in Banks(f.chain, q.nr, f.n)
              <=> g.chain = f.chain /\ q.nr <= g.n /\ g.n < f.n
        BY <1>0, <1>f, BanksMember
      <4> QED
        BY <2>1, <2>2, <4>1 DEF Banked
    <3>3. Banked(q, g) => Passed(q, g)
      <4>1. <<g.chain, g.n>>[1] = g.chain /\ <<g.chain, g.n>>[2] = g.n
        OBVIOUS
      <4> QED
        BY <4>1 DEF Banked, Passed, Sane
    <3>4. Passed(q, g) => ~(g.chain = q.recv /\ q.nr <= g.n)
      BY <1>0, <1>f DEF Passed
    <3> QED
      BY <1>0, <1>f, <2>2, <3>1, <3>2, <3>3, <3>4 DEF Spent
  <2> QED
    BY <2>3, <2>4, <2>5 DEF u
<1>3. CASE ~Banked(q, f) /\ ~OnChain(q, f)
  <2>1. /\ u.send = 0 /\ u.ns = 0 /\ u.pn = q.ns /\ u.recv = f.chain /\ u.nr = f.n + 1
        /\ u.skipped = q.skipped \cup Banks(q.recv, q.nr, f.pn) \cup Banks(f.chain, 0, f.n)
    BY <1>3, ReceivedTurn
  <2>2. Answers(q, f)
    BY <1>3 DEF Opens, TurnsEpoch
  <2>3. f.chain = p.send /\ f.pn = p.pn /\ p.recv = q.send /\ q.send # 0 /\ f.n < p.ns
    BY <2>2, TurnIsCurrent
  <2>4. q.recv < f.chain
    BY <2>2, TurnIsLater
  <2> HIDE DEF u
  <2>5. Linked(p, u)
    BY <1>0, <2>1, <2>3, <2>4 DEF Linked, Leads
  <2>6. ASSUME NEW g \in Frame, Flows(p, q, g)
        PROVE  Flows(p, u, g)
    BY <1>0, <1>f, <2>1, <2>3, <2>4, <2>6 DEF Flows
  <2>7. ASSUME NEW g \in Frame, g.chain # 0, Flows(q, p, g)
        PROVE  Flows(u, p, g)
    <3>1. g.chain <= p.recv /\ (g.chain = p.recv => g.n < q.ns)
      BY <1>0, <1>f, <2>3, <2>7 DEF Flows
    <3> QED
      BY <2>1, <2>7, <3>1 DEF Flows
  <2>8. ASSUME NEW g \in Frame, Flows(p, q, g)
        PROVE  Spent(u, g) <=> Spent(q, g) \/ (g.chain = f.chain /\ g.n = f.n)
    <3>1. Banked(q, g) => Passed(q, g)
      <4>1. <<g.chain, g.n>>[1] = g.chain /\ <<g.chain, g.n>>[2] = g.n
        OBVIOUS
      <4> QED
        BY <4>1 DEF Banked, Passed, Sane
    <3>2. Banked(u, g) <=> \/ Banked(q, g)
                           \/ g.chain = q.recv /\ q.nr <= g.n /\ g.n < f.pn
                           \/ g.chain = f.chain /\ g.n < f.n
      <4>1. <<g.chain, g.n>> \in Banks(q.recv, q.nr, f.pn)
              <=> g.chain = q.recv /\ q.nr <= g.n /\ g.n < f.pn
        BY <1>0, <1>f, BanksMember
      <4>2. <<g.chain, g.n>> \in Banks(f.chain, 0, f.n) <=> g.chain = f.chain /\ g.n < f.n
        BY <1>0, <1>f DEF Banks
      <4> QED
        BY <2>1, <4>1, <4>2 DEF Banked
    <3>3. g.chain = f.chain \/ (g.chain <= q.recv /\ (g.chain = q.recv => g.n < f.pn))
      BY <2>3, <2>8 DEF Flows
    <3>4. Passed(u, g) <=> g.chain < f.chain \/ (g.chain = f.chain /\ g.n <= f.n)
      BY <1>0, <1>f, <2>1 DEF Passed
    <3>5. Passed(q, g) <=> g.chain < q.recv \/ (g.chain = q.recv /\ g.n < q.nr)
      BY DEF Passed
    <3> QED
      BY <1>0, <1>f, <2>4, <3>1, <3>2, <3>3, <3>4, <3>5 DEF Spent
  <2> QED
    BY <2>5, <2>6, <2>7, <2>8 DEF u
<1> QED
  BY <1>1, <1>2, <1>3

(* The peer accepts a root whose beginner has not been answered.           *)
LEMMA LinkAccepted ==
    ASSUME NEW a \in Session, NEW of, NEW top \in Nat, NEW f \in Frame,
           Sane(a, of, top), a.recv = 0, a.send = a.root, f.chain = a.root, f.n < a.ns
    PROVE  LET b == Responder(f)
           IN  /\ Sane(b, of, top) /\ Linked(a, b)
               /\ \A g \in Frame :
                     g.chain = a.root /\ g.base = 0 /\ g.n < a.ns /\ g.pn = a.pn =>
                        /\ Flows(a, b, g)
                        /\ Spent(b, g) <=> g.n = f.n
<1> DEFINE b == Responder(f)
<1>0. /\ a.root \in Nat /\ a.send \in Nat /\ a.ns \in Nat /\ a.nr \in Nat
      /\ f.chain \in Nat /\ f.n \in Nat /\ a.root # 0 /\ of[a.root] = a.root /\ a.root <= top
  BY DEF Session, Frame, Sane
<1>1. /\ b.root = f.chain /\ b.send = 0 /\ b.base = f.chain /\ b.ns = 0 /\ b.pn = 0
      /\ b.recv = f.chain /\ b.nr = f.n + 1 /\ b.skipped = Banks(f.chain, 0, f.n)
  BY ResponderFacts
<1> HIDE DEF b
<1>2. ASSUME NEW k \in b.skipped
      PROVE  k[1] = f.chain /\ k[2] < f.n + 1
  <2>1. k[1] = f.chain /\ k[2] \in 0..(f.n - 1)
    BY <1>1 DEF Banks
  <2> QED
    BY <1>0, <2>1
<1>3. Sane(b, of, top)
  BY <1>0, <1>1, <1>2 DEF Sane
<1>4. Linked(a, b)
  BY <1>0, <1>1 DEF Linked, Leads
<1>5. ASSUME NEW g \in Frame, g.chain = a.root, g.base = 0, g.n < a.ns, g.pn = a.pn
      PROVE  Flows(a, b, g) /\ (Spent(b, g) <=> g.n = f.n)
  <2>0. g.n \in Nat
    BY DEF Frame
  <2>1. Flows(a, b, g)
    BY <1>5 DEF Flows
  <2>2. Banked(b, g) <=> g.n < f.n
    BY <1>0, <1>1, <1>5, <2>0 DEF Banked, Banks
  <2>3. Passed(b, g) <=> g.n <= f.n
    BY <1>0, <1>1, <1>5, <2>0 DEF Passed
  <2> QED
    BY <1>0, <2>0, <2>1, <2>2, <2>3 DEF Spent
<1> QED
  BY <1>3, <1>4, <1>5 DEF b

(* An end that has sent nothing can be given up: the other has heard nothing, *)
(* and has sent on its first chain only.                                   *)
LEMMA LinkForgotten ==
    ASSUME NEW a \in Session, NEW b \in Session, NEW of, NEW top \in Nat,
           Sane(a, of, top), Sane(b, of, top), Linked(a, b), a.root = b.root,
           b.send = 0, b.recv = b.root
    PROVE  /\ a.recv = 0 /\ a.send = a.root
           /\ \A f \in Frame : a.root <= f.chain /\ Flows(a, b, f) =>
                 f.chain = a.root /\ f.n < a.ns /\ f.pn = a.pn
           /\ \A f \in Frame : f.chain # 0 => ~Flows(b, a, f)
<1>0. /\ a.root \in Nat /\ a.recv \in Nat /\ a.send \in Nat /\ a.ns \in Nat
      /\ b.recv \in Nat
  BY DEF Session
<1>1. a.send = a.root /\ a.send # 0
  BY DEF Linked, Leads
<1>2. a.recv = 0
  BY <1>0, <1>1 DEF Sane
<1>3. ASSUME NEW f \in Frame, a.root <= f.chain, Flows(a, b, f)
      PROVE  f.chain = a.root /\ f.n < a.ns /\ f.pn = a.pn
  <2>1. f.chain \in Nat
    BY DEF Frame
  <2>2. f.chain = a.send
    BY <1>0, <1>1, <1>3, <2>1 DEF Flows
  <2> QED
    BY <1>1, <1>3, <2>2 DEF Flows
<1>4. ASSUME NEW f \in Frame, f.chain # 0 PROVE ~Flows(b, a, f)
  <2>1. f.chain \in Nat
    BY DEF Frame
  <2> QED
    BY <1>2, <1>4, <2>1 DEF Flows
<1> QED
  BY <1>1, <1>2, <1>3, <1>4

-----------------------------------------------------------------------------
(* What becomes of a frame whose root is held.                             *)

(* A prologue that may be accepted is not too far for the session either.  *)
LEMMA AcceptedFits ==
    ASSUME NEW q \in Session, NEW of, NEW top \in Nat, NEW f \in Frame,
           Sane(q, of, top), q.recv = q.root, f.chain = q.root, AcceptFits(f), q.nr <= f.n
    PROVE  OnChain(q, f)
<1>0. /\ q.root \in Nat /\ q.nr \in Nat /\ f.n \in Nat /\ f.n <= MaxSkip
      /\ q.skipped \subseteq Nat \X Nat /\ MaxSkip \in Nat /\ MaxSkipTotal \in Nat
      /\ MaxSkip <= MaxSkipTotal
  BY SkipAssumption DEF Session, Frame, AcceptFits
<1> DEFINE B == HashBank(q)
           I == 0..(q.nr - 1)
           h == [k \in B |-> k[2]]
<1>1. \A k \in B : k[1] = q.root /\ k[2] \in I /\ k = <<k[1], k[2]>>
  <2> SUFFICES ASSUME NEW k \in B
               PROVE  k[1] = q.root /\ k[2] \in I /\ k = <<k[1], k[2]>>
    OBVIOUS
  <2>1. k \in q.skipped /\ k[1] = q.root
    BY DEF HashBank, Linear
  <2>2. k[2] < q.nr
    BY <1>0, <2>1 DEF Sane
  <2>3. k[2] \in Nat /\ k = <<k[1], k[2]>>
    BY <1>0, <2>1
  <2> QED
    BY <1>0, <2>1, <2>2, <2>3
<1> HIDE DEF B
<1>2. IsFiniteSet(I) /\ Cardinality(I) = q.nr
  <2>1. 0 \in Int /\ q.nr - 1 \in Int
    BY <1>0
  <2>2. IsFiniteSet(I) /\ Cardinality(I) = IF 0 > q.nr - 1 THEN 0 ELSE (q.nr - 1) - 0 + 1
    BY <2>1, FS_Interval
  <2> QED
    BY <1>0, <2>2
<1>3. h \in Injection(B, I)
  BY <1>1 DEF Injection, IsInjective
<1>4. IsFiniteSet(B) /\ Cardinality(B) <= Cardinality(I)
  BY <1>2, <1>3, FS_Injection
<1>5. Cardinality(B) \in Nat
  BY <1>4, FS_CardinalityType
<1>6. f.n - q.nr <= MaxSkip /\ Cardinality(B) + f.n - q.nr <= MaxSkipTotal
  BY <1>0, <1>2, <1>4, <1>5
<1> QED
  BY <1>0, <1>6 DEF OnChain, SkipFits, B

(* A frame of a chain the session has met, and behind where it is in it,    *)
(* opens or is spent.                                                      *)
LEMMA PassedOpens ==
    \A q, f : Passed(q, f) => Spent(q, f) \/ Opens(q, f)
  BY DEF Spent, Opens

(* A prologue that does not open and is not spent is too far into its chain. *)
LEMMA PrologueOutcome ==
    ASSUME NEW q \in Session, NEW of, NEW top \in Nat, NEW f \in Frame,
           Sane(q, of, top), q.recv # 0, f.chain = q.root, ~Spent(q, f), ~Opens(q, f)
    PROVE  ~AcceptFits(f) /\ q.recv = q.root /\ q.nr <= f.n
<1>0. q.root \in Nat /\ q.recv \in Nat /\ q.nr \in Nat /\ f.n \in Nat
  BY DEF Session, Frame
<1>1. q.root <= q.recv
  BY DEF Sane
<1>2. ~Passed(q, f)
  BY PassedOpens
<1>3. q.recv = q.root /\ q.nr <= f.n
  BY <1>0, <1>1, <1>2 DEF Passed
<1>4. ~OnChain(q, f)
  BY DEF Opens
<1> QED
  BY <1>3, <1>4, AcceptedFits

(* A frame of a later chain that does not open and is not spent answers from *)
(* beyond too wide a gap.                                                  *)
LEMMA FrameOutcome ==
    ASSUME NEW p \in Session, NEW q \in Session, NEW of, NEW top \in Nat, NEW f \in Frame,
           Sane(p, of, top), Sane(q, of, top), Linked(p, q), Flows(p, q, f),
           f.chain # q.root, f.base # 0, ~Spent(q, f), ~Opens(q, f)
    PROVE  Answers(q, f) /\ ~TurnsEpoch(q, f)
<1>0. q.recv \in Nat /\ q.nr \in Nat /\ f.n \in Nat /\ f.chain \in Nat
  BY DEF Session, Frame
<1>1. ~Passed(q, f)
  BY PassedOpens
<1>2. f.chain # q.recv
  <2>1. ~OnChain(q, f)
    BY DEF Opens
  <2>2. SkipFits(q, f.chain, q.nr, f.n)
    BY DEF SkipFits, Linear
  <2> QED
    BY <1>0, <1>1, <2>1, <2>2 DEF OnChain, Passed
<1>3. f.chain = p.send
  BY <1>0, <1>1, <1>2 DEF Flows, Passed
<1>4. p.recv = q.send
  BY <1>2, <1>3 DEF Linked, Leads
<1> QED
  BY <1>2, <1>3, <1>4 DEF Flows, Answers, Opens

-----------------------------------------------------------------------------
(* What the operations make of an entry.                                   *)

LEMMA KeptFacts ==
    /\ \A r \in Kept :
          /\ r.s \in Session /\ r.pending \in BOOLEAN /\ r.accepted \in BOOLEAN
          /\ r.proven \in BOOLEAN /\ r.failures \in Nat /\ r.failures < WedgedAfter
          /\ r.peer_sent_at \in Nat /\ r.last_displace_try \in Int
    /\ \A s \in Session, p, a, v \in BOOLEAN, n, at \in Nat, l \in Int :
          n < WedgedAfter =>
             [s |-> s, pending |-> p, accepted |-> a, proven |-> v, failures |-> n,
              peer_sent_at |-> at, last_displace_try |-> l] \in Kept
    /\ \A r \in Kept, n, at \in Nat, l \in Int, s \in Session, v, a \in BOOLEAN :
          /\ n < WedgedAfter => [r EXCEPT !.failures = n] \in Kept
          /\ [r EXCEPT !.peer_sent_at = at] \in Kept
          /\ [r EXCEPT !.last_displace_try = l] \in Kept
          /\ [r EXCEPT !.s = s] \in Kept
          /\ [r EXCEPT !.proven = v] \in Kept
  BY DEF Kept, Root

(* The types of a payload's fields.                                        *)
LEMMA PayloadFacts ==
    \A m \in Payload :
       /\ m.id \in Nat /\ m.from \in Device /\ m.prologue \in BOOLEAN /\ m.f \in Frame
       /\ m.at \in Nat
  BY DEF Payload

(* The assumptions on the constants, in the form the steps use.            *)
LEMMA Constants ==
    /\ Interval \in Nat /\ Interval # 0 /\ WedgedAfter \in Nat /\ 0 < WedgedAfter
    /\ Never \in Int /\ Pause \subseteq Nat
    /\ MaxSeals \in Nat /\ Repairs \in Nat
  BY ConversationAssumption DEF Never

(* What Noted makes of a root: the session has taken the frame, the answer *)
(* is no longer awaited, and the latest word of the peer is remembered.    *)
NotedAs(u, r, m, known) ==
    /\ u \in Kept /\ u.s = Received(r.s, m.f) /\ u.pending = FALSE
    /\ u.accepted = r.accepted /\ (u.proven <=> r.proven \/ known)
    /\ u.peer_sent_at = Later(r.peer_sent_at, m.at)

(* Noted makes that of every root, and the root stays well formed.         *)
LEMMA NotedIs ==
    ASSUME NEW r \in Kept, NEW m \in Payload, NEW known \in BOOLEAN
    PROVE  NotedAs(Noted(r, m, known), r, m, known)
<1> DEFINE s == Received(r.s, m.f)
           at == Later(r.peer_sent_at, m.at)
           v == r.proven \/ known
<1>1. s \in Session
  BY KeptFacts, PayloadFacts, ReceivedType
<1>2. at \in Nat
  BY KeptFacts, PayloadFacts DEF Later
<1>3. v \in BOOLEAN
  OBVIOUS
<1>4. Noted(r, m, known) = [r EXCEPT !.s = s, !.pending = FALSE, !.failures = 0,
                                     !.peer_sent_at = at, !.proven = v]
  BY DEF Noted
<1> HIDE DEF s, at, v
<1>5. /\ Noted(r, m, known).s = s /\ Noted(r, m, known).pending = FALSE
      /\ Noted(r, m, known).accepted = r.accepted /\ Noted(r, m, known).proven = v
      /\ Noted(r, m, known).failures = 0 /\ Noted(r, m, known).peer_sent_at = at
  BY <1>4 DEF Kept, Root
<1>6. r \in Root /\ FALSE \in BOOLEAN /\ 0 \in Nat
  BY DEF Kept
<1>7. Noted(r, m, known) \in Root
  BY <1>1, <1>2, <1>3, <1>4, <1>6 DEF Root
<1>8. Noted(r, m, known) \in Kept
  BY <1>5, <1>7, Constants DEF Kept
<1> QED
  BY <1>5, <1>8 DEF s, at, v, NotedAs

(* The root that an accepted prologue begins.                              *)
LEMMA IncomingFacts ==
    \A m \in Payload, known \in BOOLEAN :
       LET u == Incoming(m, known)
       IN  /\ u \in Kept /\ u.s = Responder(m.f) /\ u.pending = FALSE /\ u.accepted = TRUE
           /\ u.proven = known /\ u.failures = 0 /\ u.peer_sent_at = m.at
<1> SUFFICES ASSUME NEW m \in Payload, NEW known \in BOOLEAN
             PROVE  Incoming(m, known) \in Kept
  BY DEF Incoming
<1>1. Responder(m.f) \in Session
  BY PayloadFacts, ResponderFacts
<1> QED
  BY <1>1, Constants, KeptFacts, PayloadFacts DEF Incoming

(* The first root of an entry is replaced.                                 *)
LEMMA EntryFirst ==
    ASSUME NEW c \in Entry, c # <<>>
    PROVE  /\ 1 \in DOMAIN c /\ DOMAIN c \subseteq {1, 2} /\ \A i \in DOMAIN c : c[i] \in Kept
           /\ Len(c) = 2 <=> 2 \in DOMAIN c
           /\ c = IF 2 \in DOMAIN c THEN <<c[1], c[2]>> ELSE <<c[1]>>
           /\ \A u \in Kept :
                 LET e == [c EXCEPT ![1] = u]
                 IN  /\ e \in Entry /\ e # <<>> /\ DOMAIN e = DOMAIN c /\ e[1] = u
                     /\ \A i \in DOMAIN c : i # 1 => e[i] = c[i]
<1>1. CASE \E r \in Kept : c = <<r>>
  <2>1. PICK r \in Kept : c = <<r>>
    BY <1>1
  <2>2. \A u : [c EXCEPT ![1] = u] = <<u>>
    BY <2>1, EntryExcept
  <2> QED
    BY <2>1, <2>2, EntryForms DEF Entry
<1>2. CASE \E r, q \in Kept : c = <<r, q>>
  <2>1. PICK r \in Kept, q \in Kept : c = <<r, q>>
    BY <1>2
  <2>2. \A u : [c EXCEPT ![1] = u] = <<u, q>>
    BY <2>1, EntryExcept
  <2> QED
    BY <2>1, <2>2, EntryForms DEF Entry
<1> QED
  BY <1>1, <1>2, EntryCases

\* Two entries that differ only in what nothing below depends on.
Alike(c, e) ==
    /\ DOMAIN e = DOMAIN c
    /\ \A i \in DOMAIN c :
          /\ e[i].s = c[i].s /\ e[i].pending = c[i].pending /\ e[i].proven = c[i].proven
          /\ e[i].peer_sent_at = c[i].peer_sent_at
          /\ 2 \in DOMAIN c => e[i].accepted = c[i].accepted

(* count_frame_failure changes the count only.                             *)
LEMMA FailureCounted ==
    ASSUME NEW c \in Entry, c # <<>>, NEW n \in Nat, n < WedgedAfter
    PROVE  LET e == [c EXCEPT ![1].failures = n]
           IN  /\ e \in Entry /\ e # <<>> /\ Alike(c, e)
               /\ \A i \in DOMAIN c : e[i].accepted = c[i].accepted
<1> DEFINE u == [c[1] EXCEPT !.failures = n]
<1>1. c[1] \in Kept
  BY EntryFirst
<1>2. u \in Kept
  BY <1>1, KeptFacts
<1>3. /\ u.s = c[1].s /\ u.pending = c[1].pending /\ u.proven = c[1].proven
      /\ u.peer_sent_at = c[1].peer_sent_at /\ u.accepted = c[1].accepted
  BY <1>1 DEF Kept, Root
<1>4. [c EXCEPT ![1].failures = n] = [c EXCEPT ![1] = u]
  OBVIOUS
<1> HIDE DEF u
<1> QED
  BY <1>2, <1>3, <1>4, EntryFirst DEF Alike

(* The claim of an attempt changes its time only.                          *)
LEMMA AttemptClaimed ==
    ASSUME NEW c \in Entry, c # <<>>, NEW l \in Int
    PROVE  LET e == [c EXCEPT ![1].last_displace_try = l]
           IN  /\ e \in Entry /\ e # <<>> /\ Alike(c, e)
               /\ \A i \in DOMAIN c : e[i].accepted = c[i].accepted
<1> DEFINE u == [c[1] EXCEPT !.last_displace_try = l]
<1>1. c[1] \in Kept
  BY EntryFirst
<1>2. u \in Kept
  BY <1>1, KeptFacts
<1>3. /\ u.s = c[1].s /\ u.pending = c[1].pending /\ u.proven = c[1].proven
      /\ u.peer_sent_at = c[1].peer_sent_at /\ u.accepted = c[1].accepted
  BY <1>1 DEF Kept, Root
<1>4. [c EXCEPT ![1].last_displace_try = l] = [c EXCEPT ![1] = u]
  OBVIOUS
<1> HIDE DEF u
<1> QED
  BY <1>2, <1>3, <1>4, EntryFirst DEF Alike

(* A restart keeps the sessions, and both prologues of a crossed entry.    *)
LEMMA RestoredAlike ==
    ASSUME NEW c \in Entry
    PROVE  Restored(c) \in Entry /\ Alike(c, Restored(c))
<1> DEFINE z(r, b) == [r EXCEPT !.failures = 0, !.last_displace_try = Never, !.accepted = @ /\ b]
<1>1. ASSUME NEW r \in Kept, NEW b \in BOOLEAN
      PROVE  /\ z(r, b) \in Kept /\ z(r, b).s = r.s /\ z(r, b).pending = r.pending
             /\ z(r, b).proven = r.proven /\ z(r, b).peer_sent_at = r.peer_sent_at
             /\ b => z(r, b).accepted = r.accepted
  <2>1. r.accepted \in BOOLEAN /\ (r.accepted /\ b) \in BOOLEAN
    BY KeptFacts
  <2>2. r \in Root
    BY DEF Kept
  <2> DEFINE a == r.accepted /\ b
  <2>3. z(r, b) = [r EXCEPT !.failures = 0, !.last_displace_try = Never, !.accepted = a]
    BY DEF z
  <2>4. a \in BOOLEAN /\ (b => a = r.accepted)
    BY <2>1
  <2> HIDE DEF a, z
  <2>5. /\ z(r, b).s = r.s /\ z(r, b).pending = r.pending
        /\ z(r, b).proven = r.proven /\ z(r, b).peer_sent_at = r.peer_sent_at
        /\ z(r, b).accepted = a /\ z(r, b).failures = 0
    BY <2>2, <2>3 DEF Root
  <2>6. 0 \in Nat /\ Never \in Int
    BY Constants
  <2>7. z(r, b) \in Root
    BY <2>2, <2>3, <2>4, <2>6 DEF Root
  <2> QED
    BY <2>4, <2>5, <2>7, Constants DEF Kept
<1>2. Restored(c) = [i \in DOMAIN c |-> z(c[i], Len(c) = 2)]
  BY DEF Restored
<1> HIDE DEF z
<1>3. CASE c = <<>>
  <2>1. Restored(c) = <<>>
    BY <1>2, <1>3
  <2> QED
    BY <1>3, <2>1, EntryForms DEF Alike, Entry
<1>4. ASSUME NEW r \in Kept, c = <<r>>
      PROVE  Restored(c) \in Entry /\ Alike(c, Restored(c))
  <2>1. (Len(c) = 2) = FALSE /\ DOMAIN c = {1} /\ c[1] = r
    BY <1>4, EntryForms
  <2> DEFINE u == z(r, FALSE)
  <2>2. Restored(c) = [i \in {1} |-> u]
    BY <1>2, <2>1
  <2> HIDE DEF u
  <2>3. Restored(c) = <<u>>
    BY <2>2
  <2>4. /\ u \in Kept /\ u.s = r.s /\ u.pending = r.pending /\ u.proven = r.proven
        /\ u.peer_sent_at = r.peer_sent_at
    BY <1>1 DEF u
  <2> QED
    BY <1>4, <2>1, <2>3, <2>4, EntryForms DEF Alike, Entry
<1>5. ASSUME NEW r \in Kept, NEW q \in Kept, c = <<r, q>>
      PROVE  Restored(c) \in Entry /\ Alike(c, Restored(c))
  <2>1. (Len(c) = 2) = TRUE /\ DOMAIN c = {1, 2} /\ c[1] = r /\ c[2] = q
    BY <1>5, EntryForms
  <2> DEFINE u == z(r, TRUE)
             w == z(q, TRUE)
  <2>2. Restored(c) = [i \in {1, 2} |-> z(c[i], TRUE)]
    BY <1>2, <2>1
  <2>3. Restored(c) = [i \in {1, 2} |-> IF i = 1 THEN u ELSE w]
    BY <2>1, <2>2
  <2> HIDE DEF u, w
  <2>4. Restored(c) = <<u, w>>
    BY <2>3
  <2>5. /\ u \in Kept /\ u.s = r.s /\ u.pending = r.pending /\ u.proven = r.proven
        /\ u.peer_sent_at = r.peer_sent_at /\ u.accepted = r.accepted
        /\ w \in Kept /\ w.s = q.s /\ w.pending = q.pending /\ w.proven = q.proven
        /\ w.peer_sent_at = q.peer_sent_at /\ w.accepted = q.accepted
    BY <1>1 DEF u, w
  <2> QED
    BY <1>5, <2>1, <2>4, <2>5, EntryForms DEF Alike, Entry
<1> QED
  BY <1>3, <1>4, <1>5, EntryCases

(* seal_inner with no entry begins a root; the payload is its first.       *)
LEMMA SealBegins ==
    ASSUME NEW d \in Device, conv[d] = <<>>, sealed \in Nat
    PROVE  LET e == [Settled(d) EXCEPT ![1].s = Sent(@, sealed + 1)]
           IN  /\ Settled(d)[1].s = Initiator(sealed + 1) /\ Settled(d)[1].pending = TRUE
               /\ \E u \in Kept :
                     /\ e = <<u>> /\ u.s = Sent(Initiator(sealed + 1), sealed + 1)
                     /\ u.pending = TRUE /\ u.proven = TRUE /\ u.peer_sent_at = 0
<1> DEFINE id == sealed + 1
           s == Initiator(id)
           r == [s |-> s, pending |-> TRUE, accepted |-> FALSE, proven |-> TRUE,
                 failures |-> 0, peer_sent_at |-> 0, last_displace_try |-> Never]
           u == [r EXCEPT !.s = Sent(s, id)]
<1>1. id \in Nat
  OBVIOUS
<1>2. Settled(d) = <<r>>
  BY DEF Settled
<1> HIDE DEF id
<1>3. s \in Session
  BY <1>1, InitiatorFacts
<1>4. Sent(s, id) \in Session
  BY <1>1, <1>3, SentFacts
<1> HIDE DEF s
<1>5. r \in Kept
  <2>1. TRUE \in BOOLEAN /\ FALSE \in BOOLEAN /\ 0 \in Nat /\ 0 < WedgedAfter /\ Never \in Int
    BY Constants
  <2> QED
    BY <1>3, <2>1, KeptFacts
<1>6. r.s = s /\ r.pending = TRUE /\ r.proven = TRUE /\ r.peer_sent_at = 0
  OBVIOUS
<1>7. Settled(d)[1] = r
  BY <1>2
<1> HIDE DEF r
<1>8. [Settled(d) EXCEPT ![1].s = Sent(@, id)] = <<u>>
  BY <1>2, <1>6, <1>7
<1>9. u \in Kept
  BY <1>4, <1>5, KeptFacts
<1>10. u.s = Sent(s, id) /\ u.pending = TRUE /\ u.proven = TRUE /\ u.peer_sent_at = 0
  BY <1>5, <1>6 DEF Kept, Root
<1> HIDE DEF u
<1> QED
  BY <1>6, <1>7, <1>8, <1>9, <1>10 DEF s, id

(* Otherwise it seals into the root in use, which the certificate settles. *)
LEMMA SealGoesOn ==
    ASSUME NEW d \in Device, conv[d] \in Entry, conv[d] # <<>>, sealed \in Nat
    PROVE  LET c == conv[d]
               e == [Settled(d) EXCEPT ![1].s = Sent(@, sealed + 1)]
           IN  /\ Settled(d)[1].s = c[1].s /\ Settled(d)[1].pending = c[1].pending
               /\ e \in Entry /\ e # <<>> /\ DOMAIN e = DOMAIN c
               /\ e[1].s = Sent(c[1].s, sealed + 1) /\ e[1].pending = c[1].pending
               /\ e[1].proven = TRUE /\ e[1].accepted = c[1].accepted
               /\ e[1].peer_sent_at = c[1].peer_sent_at
               /\ \A i \in DOMAIN c : i # 1 => e[i] = c[i]
<1> DEFINE c == conv[d]
           id == sealed + 1
           r == [c[1] EXCEPT !.proven = TRUE]
           u == [r EXCEPT !.s = Sent(r.s, id)]
<1>1. id \in Nat /\ c[1] \in Kept
  BY EntryFirst
<1>2. Settled(d) = [c EXCEPT ![1] = r]
  BY DEF Settled
<1>3. r \in Kept
  BY <1>1, KeptFacts
<1>4. /\ r.s = c[1].s /\ r.pending = c[1].pending /\ r.proven = TRUE
      /\ r.accepted = c[1].accepted /\ r.peer_sent_at = c[1].peer_sent_at
  BY <1>1 DEF Kept, Root
<1> HIDE DEF r, id
<1>5. Settled(d) \in Entry /\ Settled(d) # <<>> /\ DOMAIN Settled(d) = DOMAIN c /\ Settled(d)[1] = r
      /\ \A i \in DOMAIN c : i # 1 => Settled(d)[i] = c[i]
  BY <1>2, <1>3, EntryFirst
<1>6. r.s \in Session
  BY <1>3, KeptFacts
<1>7. Sent(r.s, id) \in Session
  BY <1>1, <1>6, SentFacts
<1>8. u \in Kept
  BY <1>3, <1>7, KeptFacts
<1>9. /\ u.s = Sent(c[1].s, id) /\ u.pending = c[1].pending /\ u.proven = TRUE
      /\ u.accepted = c[1].accepted /\ u.peer_sent_at = c[1].peer_sent_at
  BY <1>3, <1>4 DEF Kept, Root
<1>10. [Settled(d) EXCEPT ![1].s = Sent(@, id)] = [Settled(d) EXCEPT ![1] = u]
  BY <1>5
<1> HIDE DEF u
<1>11. LET e == [Settled(d) EXCEPT ![1] = u]
       IN  /\ e \in Entry /\ e # <<>> /\ DOMAIN e = DOMAIN c /\ e[1] = u
           /\ \A i \in DOMAIN c : i # 1 => e[i] = c[i]
  BY <1>5, <1>8, EntryFirst
<1> QED
  BY <1>4, <1>5, <1>9, <1>10, <1>11 DEF id

(* What is sealed.                                                         *)
LEMMA SealedPayloadFacts ==
    ASSUME NEW d \in Device, conv[d] \in Entry, sealed \in Nat, NEW at \in Nat
    PROVE  LET m == SealedPayload(d, at)
           IN  /\ m \in Payload /\ m.id = sealed + 1 /\ m.from = d /\ m.at = at
               /\ m.prologue = Settled(d)[1].pending
               /\ m.f = SendFrame(Settled(d)[1].s, sealed + 1)
<1> DEFINE id == sealed + 1
           root == Settled(d)[1]
<1>1. id \in Nat
  OBVIOUS
<1>2. root.pending \in BOOLEAN /\ root.s \in Session
  <2>1. CASE conv[d] = <<>>
    <3>1. Settled(d)[1].s = Initiator(id) /\ Settled(d)[1].pending = TRUE
      BY <2>1, SealBegins
    <3> HIDE DEF id
    <3> QED
      BY <1>1, <3>1, InitiatorFacts
  <2>2. CASE conv[d] # <<>>
    <3>1. conv[d][1] \in Kept
      BY <2>2, EntryFirst
    <3> QED
      BY <2>2, <3>1, SealGoesOn, KeptFacts
  <2> QED
    BY <2>1, <2>2
<1> HIDE DEF id, root
<1>3. SendFrame(root.s, id) \in Frame
  BY <1>1, <1>2, SendFrameFacts
<1>4. SealedPayload(d, at) = [id |-> id, from |-> d, prologue |-> root.pending,
                              f |-> SendFrame(root.s, id), at |-> at]
  BY DEF SealedPayload, id, root
<1> QED
  BY <1>1, <1>2, <1>3, <1>4 DEF Payload, id, root

(* A root is found by its number.                                          *)
LEMMA GetIs ==
    \A c : Distinct(c) =>
       /\ \A i \in DOMAIN c : c[i].s.root \in Roots(c) /\ Get(c, c[i].s.root) = c[i]
       /\ \A r \in Roots(c) : \E i \in DOMAIN c : c[i].s.root = r /\ Get(c, r) = c[i]
<1> SUFFICES ASSUME NEW c, Distinct(c)
             PROVE  /\ \A i \in DOMAIN c : c[i].s.root \in Roots(c) /\ Get(c, c[i].s.root) = c[i]
                    /\ \A r \in Roots(c) : \E i \in DOMAIN c : c[i].s.root = r /\ Get(c, r) = c[i]
  OBVIOUS
<1>1. ASSUME NEW i \in DOMAIN c PROVE Get(c, c[i].s.root) = c[i]
  <2> DEFINE j == CHOOSE j \in DOMAIN c : c[j].s.root = c[i].s.root
  <2>1. j \in DOMAIN c /\ c[j].s.root = c[i].s.root
    OBVIOUS
  <2>2. j = i
    BY <2>1 DEF Distinct
  <2> QED
    BY <2>2 DEF Get
<1> QED
  BY <1>1 DEF Roots

\* Entry e is c after m has opened under root i, which is now root j.
Receives(c, e, m, known, i, j) ==
    /\ Opens(c[i].s, m.f)
    /\ i = 1 \/ ~Opens(c[1].s, m.f)
    /\ j # i => j = 1 /\ ~m.prologue
    /\ e[j].s = Received(c[i].s, m.f) /\ e[j].pending = FALSE
    /\ e[j].accepted = c[i].accepted
    /\ e[j].proven <=> c[i].proven \/ known
    /\ \A k \in DOMAIN c \ {i} : \E l \in DOMAIN c \ {j} :
          /\ e[l].s = c[k].s /\ e[l].pending = c[k].pending
          /\ e[l].accepted = c[k].accepted /\ e[l].proven = c[k].proven
          /\ j = i => l = k

(* open_held: one root receives, the other stays as it is; the time of what  *)
(* has opened grows; a bare frame may make the other root the one in use.   *)
LEMMA OpenHeldFacts ==
    ASSUME NEW c \in Entry, NEW m \in Payload, NEW known \in BOOLEAN, OpensHeld(c, m)
    PROVE  LET e == OpenHeld(c, m, known)
           IN  /\ c # <<>> /\ e \in Entry /\ e # <<>> /\ DOMAIN e = DOMAIN c
               /\ e[1].peer_sent_at >= c[1].peer_sent_at /\ e[1].peer_sent_at >= m.at
               /\ \E i, j \in DOMAIN c : Receives(c, e, m, known, i, j)
<1> DEFINE e == OpenHeld(c, m, known)
<1>1. c # <<>> /\ 1 \in DOMAIN c /\ DOMAIN c \subseteq {1, 2} /\ \A i \in DOMAIN c : c[i] \in Kept
  <2>1. c # <<>>
    BY EntryForms DEF OpensHeld
  <2> QED
    BY <2>1, EntryFirst
<1>0. m.at \in Nat /\ \A i \in DOMAIN c : c[i].peer_sent_at \in Nat
  BY <1>1, KeptFacts, PayloadFacts
<1>2. CASE Opens(c[1].s, m.f)
  <2> DEFINE u == Noted(c[1], m, known)
  <2>1. e = [c EXCEPT ![1] = u]
    BY <1>2 DEF OpenHeld
  <2>2. /\ u \in Kept /\ u.s = Received(c[1].s, m.f) /\ u.pending = FALSE
        /\ u.accepted = c[1].accepted /\ (u.proven <=> c[1].proven \/ known)
        /\ u.peer_sent_at = Later(c[1].peer_sent_at, m.at)
    <3>1. NotedAs(u, c[1], m, known)
      BY <1>1, NotedIs
    <3> QED
      BY <3>1 DEF NotedAs
  <2>3. u.peer_sent_at >= c[1].peer_sent_at /\ u.peer_sent_at >= m.at
    BY <1>0, <1>1, <2>2 DEF Later
  <2> HIDE DEF u, e
  <2>4. /\ [c EXCEPT ![1] = u] \in Entry /\ [c EXCEPT ![1] = u] # <<>>
        /\ DOMAIN [c EXCEPT ![1] = u] = DOMAIN c /\ [c EXCEPT ![1] = u][1] = u
        /\ \A i \in DOMAIN c : i # 1 => [c EXCEPT ![1] = u][i] = c[i]
    BY <1>1, <2>2, EntryFirst
  <2>5. /\ e \in Entry /\ e # <<>> /\ DOMAIN e = DOMAIN c /\ e[1] = u
        /\ \A i \in DOMAIN c : i # 1 => e[i] = c[i]
    BY <2>1, <2>4
  <2>6. Receives(c, e, m, known, 1, 1)
    BY <1>2, <2>2, <2>5 DEF Receives
  <2> QED
    BY <1>1, <2>3, <2>5, <2>6 DEF e
<1>3. CASE ~Opens(c[1].s, m.f)
  <2>1. 2 \in DOMAIN c /\ Opens(c[2].s, m.f) /\ DOMAIN c = {1, 2}
    BY <1>1, <1>3 DEF OpensHeld
  <2>3. c[1] \in Kept
    BY <1>1
  <2>k. c[2] \in Kept
    BY <1>1, <2>1
  <2> DEFINE o == Noted(c[2], m, known)
             at == Later(c[1].peer_sent_at, o.peer_sent_at)
             main == [c[1] EXCEPT !.failures = 0, !.peer_sent_at = at]
             ot == Later(o.peer_sent_at, at)
             oo == [o EXCEPT !.peer_sent_at = ot]
  <2>2. /\ o \in Kept /\ o.s = Received(c[2].s, m.f) /\ o.pending = FALSE
        /\ o.accepted = c[2].accepted /\ (o.proven <=> c[2].proven \/ known)
        /\ o.peer_sent_at = Later(c[2].peer_sent_at, m.at)
    <3>1. NotedAs(o, c[2], m, known)
      BY <2>k, NotedIs
    <3> QED
      BY <3>1 DEF NotedAs
  <2>m. main.peer_sent_at = at
    BY <2>3 DEF Kept, Root
  <2>4. e = IF m.prologue THEN <<main, o>> ELSE <<oo, main>>
    BY <1>3, <2>m DEF OpenHeld
  <2> HIDE DEF o
  <2>5. /\ at \in Nat /\ at >= c[1].peer_sent_at /\ at >= m.at
        /\ ot \in Nat /\ ot >= c[1].peer_sent_at /\ ot >= m.at
    BY <1>0, <1>1, <2>1, <2>2 DEF Later
  <2> HIDE DEF at, ot
  <2>6. main \in Kept /\ main.s = c[1].s /\ main.pending = c[1].pending
        /\ main.accepted = c[1].accepted /\ main.proven = c[1].proven /\ main.peer_sent_at = at
    BY <2>3, <2>5, Constants DEF Kept, Root
  <2>7. oo \in Kept /\ oo.s = o.s /\ oo.pending = o.pending
        /\ oo.accepted = o.accepted /\ oo.proven = o.proven /\ oo.peer_sent_at = ot
    BY <2>2, <2>5 DEF Kept, Root
  <2> HIDE DEF main, oo, e
  <2>d. DOMAIN c \ {2} = {1} /\ DOMAIN c \ {1} = {2}
    BY <2>1
  <2>8. CASE m.prologue
    <3>1. e = <<main, o>> /\ e[1] = main /\ e[2] = o /\ DOMAIN e = {1, 2} /\ e # <<>>
      BY <2>4, <2>8, EntryForms
    <3>2. e \in Entry
      BY <2>2, <2>6, <3>1 DEF Entry
    <3>3. Receives(c, e, m, known, 2, 2)
      BY <1>3, <2>1, <2>2, <2>6, <2>d, <3>1 DEF Receives
    <3> QED
      BY <1>1, <2>1, <2>5, <2>6, <3>1, <3>2, <3>3 DEF e
  <2>9. CASE ~m.prologue
    <3>1. e = <<oo, main>> /\ e[1] = oo /\ e[2] = main /\ DOMAIN e = {1, 2} /\ e # <<>>
      BY <2>4, <2>9, EntryForms
    <3>2. e \in Entry
      BY <2>6, <2>7, <3>1 DEF Entry
    <3>3. Receives(c, e, m, known, 2, 1)
      BY <1>3, <2>1, <2>2, <2>6, <2>7, <2>9, <2>d, <3>1 DEF Receives
    <3> QED
      BY <1>1, <2>1, <2>5, <2>7, <3>1, <3>2, <3>3 DEF e
  <2> QED
    BY <2>8, <2>9, PayloadFacts
<1> QED
  BY <1>2, <1>3

(* Both ends have started at once: the device holds both roots.            *)
LEMMA CrossFacts ==
    ASSUME NEW d, NEW held \in Kept, NEW m \in Payload
    PROVE  LET e == Cross(d, held, m)
           IN  /\ e \in Entry /\ e # <<>> /\ DOMAIN e = {1, 2}
               /\ e[1].peer_sent_at >= held.peer_sent_at /\ e[1].peer_sent_at >= m.at
               /\ \E i, j \in {1, 2} :
                     /\ i # j
                     /\ e[i].s = held.s /\ e[i].pending = held.pending /\ e[i].proven = held.proven
                     /\ e[j].s = Responder(m.f) /\ e[j].pending = FALSE
                     /\ e[j].proven = TRUE /\ e[j].accepted = TRUE
<1> DEFINE in == Incoming(m, TRUE)
           at == Later(held.peer_sent_at, m.at)
           u == [held EXCEPT !.peer_sent_at = at, !.failures = 0]
           w == [in EXCEPT !.peer_sent_at = at]
<1>1. /\ in \in Kept /\ in.s = Responder(m.f) /\ in.pending = FALSE /\ in.accepted = TRUE
      /\ in.proven = TRUE
  BY IncomingFacts
<1>2. Cross(d, held, m) = IF KeepsLocal(d, held) THEN <<u, in>> ELSE <<w, held>>
  BY DEF Cross
<1>3. at \in Nat /\ at >= held.peer_sent_at /\ at >= m.at
  BY KeptFacts, PayloadFacts DEF Later
<1> HIDE DEF in, at
<1>4. u \in Kept /\ u.s = held.s /\ u.pending = held.pending /\ u.proven = held.proven
      /\ u.peer_sent_at = at
  BY <1>3, Constants DEF Kept, Root
<1>5. w \in Kept /\ w.s = in.s /\ w.pending = in.pending /\ w.proven = in.proven
      /\ w.accepted = in.accepted /\ w.peer_sent_at = at
  BY <1>1, <1>3 DEF Kept, Root
<1> HIDE DEF u, w
<1>6. CASE KeepsLocal(d, held)
  <2>1. Cross(d, held, m) = <<u, in>>
    BY <1>2, <1>6
  <2> QED
    BY <1>1, <1>3, <1>4, <2>1, EntryForms DEF Entry
<1>7. CASE ~KeepsLocal(d, held)
  <2>1. Cross(d, held, m) = <<w, held>>
    BY <1>2, <1>7
  <2> QED
    BY <1>1, <1>3, <1>5, <2>1, EntryForms DEF Entry
<1> QED
  BY <1>6, <1>7

(* An entry of one root just accepted.                                     *)
LEMMA IncomingEntry ==
    ASSUME NEW m \in Payload, NEW known \in BOOLEAN
    PROVE  LET e == <<Incoming(m, known)>>
           IN  e \in Entry /\ e # <<>> /\ DOMAIN e = {1} /\ e[1] = Incoming(m, known)
  BY IncomingFacts, EntryForms DEF Entry

-----------------------------------------------------------------------------
(* Types are kept.                                                         *)

LEMMA RefusedType ==
    ASSUME NEW d \in Device, NEW m \in Payload, HistoryTypes
    PROVE  RefusedNow(d, m) \subseteq [id : Nat, excused : BOOLEAN]
<1> DEFINE x == IF m.prologue
                THEN ~AcceptFits(m.f) \/ Unvouched(d) \/ \E i \in opened[d] : i > m.id
                ELSE GapTooWide(conv[d], m)
<1>1. x \in BOOLEAN
  BY DEF GapTooWide
<1>2. RefusedNow(d, m) = IF m.id \in opened[d] \cup loose THEN refused
                         ELSE refused \cup {[id |-> m.id, excused |-> x]}
  BY DEF RefusedNow
<1> HIDE DEF x
<1> QED
  BY <1>1, <1>2, PayloadFacts DEF HistoryTypes

(* A refusal keeps the types of the history.                               *)
LEMMA RefuseTypes ==
    ASSUME NEW d \in Device, NEW m \in Payload, HistoryTypes, Refuse(d, m)
    PROVE  HistoryTypes'
  BY RefusedType DEF Refuse, HistoryTypes

(* A delivery keeps the types of the history.                              *)
LEMMA DeliverTypes ==
    ASSUME NEW d \in Device, NEW m \in Payload, HistoryTypes, Deliver(d, m) \/ DeliverLoose(d, m)
    PROVE  HistoryTypes'
<1>1. m.id \in Nat
  BY PayloadFacts
<1>2. opened' \in [Device -> SUBSET Nat]
  BY <1>1 DEF Deliver, DeliverLoose, HistoryTypes
<1>3. twice' \subseteq [id : Nat, excused : BOOLEAN]
  <2> DEFINE x == m.id \notin opened[d]
  <2>1. HandUp(d, m)
    BY DEF Deliver, DeliverLoose
  <2>2. x \in BOOLEAN
    OBVIOUS
  <2>3. twice' = twice \/ twice' = twice \cup {[id |-> m.id, excused |-> x]}
    BY <2>1 DEF HandUp
  <2> HIDE DEF x
  <2> QED
    BY <1>1, <2>2, <2>3 DEF HistoryTypes
<1>4. loose' \subseteq Nat
  BY <1>1 DEF Deliver, DeliverLoose, HistoryTypes
<1> QED
  BY <1>2, <1>3, <1>4 DEF Deliver, DeliverLoose, HistoryTypes

(* Giving a conversation up keeps the types of the history.                *)
LEMMA GiveUpTypes ==
    ASSUME NEW d \in Device, HistoryTypes, GiveUp(d),
           UNCHANGED <<loose, twice>>, refused' \subseteq [id : Nat, excused : BOOLEAN]
    PROVE  HistoryTypes'
  BY DEF GiveUp, HistoryTypes

(* A reply or silence keeps the types of the reply state.                  *)
LEMMA ReplyTypes ==
    ASSUME NEW d \in Device, now \in Nat, replied \in [Device -> Int], notice \subseteq Device,
           Reply(d) \/ Silent
    PROVE  replied' \in [Device -> Int] /\ notice' \subseteq Device
  BY PeerFacts DEF Reply, Silent

(* Keep writes one device's entry and no other.                            *)
LEMMA KeepType ==
    ASSUME NEW d \in Device, conv \in [Device -> Entry], NEW c \in Entry, Keep(d, c)
    PROVE  /\ conv' \in [Device -> Entry] /\ conv'[d] = c
           /\ \A e \in Device : e # d => conv'[e] = conv[e]
  BY DEF Keep

(* Having no conversation is an entry.                                     *)
LEMMA EmptyEntry == <<>> \in Entry
  BY DEF Entry

(* Starting an agreement adds one, of the device the payload is for.       *)
LEMMA AgreementTypes ==
    ASSUME NEW d \in Device, NEW m \in Payload, NEW ask \in BOOLEAN, ConvTypes,
           d = Peer(m.from), StartAgreement(d, m, ask)
    PROVE  /\ \E k \in Thread :
                 agreeing' = agreeing \cup {[d |-> d, thread |-> k, m |-> m, known |-> cert[d],
                                             ask |-> ask]}
           /\ agreeing' \subseteq Agreement /\ \A t \in agreeing' : t.d = Peer(t.m.from)
           /\ UNCHANGED <<replied, notice, history>> /\ HistoryTypes'
<1> DEFINE k == CHOOSE k \in Idle(d) : TRUE
           a == [d |-> d, thread |-> k, m |-> m, known |-> cert[d], ask |-> ask]
<1>1. k \in Thread
  <2>1. Idle(d) # {} /\ Idle(d) \subseteq Thread
    BY DEF StartAgreement, Idle
  <2> QED
    BY <2>1
<1>2. agreeing' = agreeing \cup {a} /\ UNCHANGED <<replied, notice, history>>
  BY DEF StartAgreement, Silent
<1>3. cert[d] \in BOOLEAN /\ agreeing \subseteq Agreement
      /\ \A t \in agreeing : t.d = Peer(t.m.from)
  BY DEF ConvTypes
<1> HIDE DEF k
<1>4. a \in Agreement /\ a.d = d /\ a.m = m
  BY <1>1, <1>3 DEF Agreement
<1>5. \A t \in agreeing' : t.d = Peer(t.m.from)
  BY <1>2, <1>3, <1>4
<1>6. HistoryTypes'
  BY <1>2 DEF ConvTypes, HistoryTypes, history
<1>7. agreeing' \subseteq Agreement
  BY <1>2, <1>3, <1>4
<1> QED
  BY <1>1, <1>2, <1>5, <1>6, <1>7

\* The part of the types that opening a payload has to keep.
OpeningTypes ==
    /\ conv \in [Device -> Entry]
    /\ agreeing \subseteq Agreement /\ \A t \in agreeing : t.d = Peer(t.m.from)
    /\ cert \in [Device -> BOOLEAN] /\ replied \in [Device -> Int] /\ notice \subseteq Device
    /\ HistoryTypes

(* Opening a payload keeps the types.                                      *)
LEMMA OpenTypes ==
    ASSUME ConvTypes, NEW d \in Device, NEW m \in Payload, d = Peer(m.from), Open(d, m)
    PROVE  OpeningTypes'
<1> DEFINE c == conv[d]
<1>1. /\ c \in Entry /\ conv \in [Device -> Entry] /\ cert[d] \in BOOLEAN /\ now \in Nat
      /\ replied \in [Device -> Int] /\ notice \subseteq Device /\ HistoryTypes
      /\ cert \in [Device -> BOOLEAN]
      /\ agreeing \subseteq Agreement /\ \A t \in agreeing : t.d = Peer(t.m.from)
  BY DEF ConvTypes
<1>2. ASSUME OpensHeld(c, m), Keep(d, OpenHeld(c, m, cert[d])), Deliver(d, m), Silent,
             UNCHANGED <<agreeing, cert>>
      PROVE  OpeningTypes'
  <2>1. OpenHeld(c, m, cert[d]) \in Entry
    BY <1>1, <1>2, OpenHeldFacts
  <2>2. conv' \in [Device -> Entry]
    BY <1>1, <1>2, <2>1, KeepType
  <2>3. HistoryTypes'
    BY <1>1, <1>2, DeliverTypes
  <2>4. replied' \in [Device -> Int] /\ notice' \subseteq Device
    BY <1>1, <1>2, ReplyTypes
  <2> QED
    BY <1>1, <1>2, <2>2, <2>3, <2>4 DEF OpeningTypes
<1>3. ASSUME Refuse(d, m), Reply(d) \/ Silent, UNCHANGED <<conv, agreeing, cert>>
      PROVE  OpeningTypes'
  <2>1. HistoryTypes'
    BY <1>1, <1>3, RefuseTypes
  <2>2. replied' \in [Device -> Int] /\ notice' \subseteq Device
    BY <1>1, <1>3, ReplyTypes
  <2> QED
    BY <1>1, <1>3, <2>1, <2>2 DEF OpeningTypes
<1>4. ASSUME NEW ask \in BOOLEAN, StartAgreement(d, m, ask), UNCHANGED cert,
             conv' \in [Device -> Entry]
      PROVE  OpeningTypes'
  <2>1. /\ agreeing' \subseteq Agreement /\ \A t \in agreeing' : t.d = Peer(t.m.from)
        /\ UNCHANGED <<replied, notice>> /\ HistoryTypes'
    BY <1>4, AgreementTypes
  <2> QED
    BY <1>1, <1>4, <2>1 DEF OpeningTypes
<1>5. ASSUME c # <<>>, Keep(d, [c EXCEPT ![1].last_displace_try = now])
      PROVE  conv' \in [Device -> Entry]
  <2>1. [c EXCEPT ![1].last_displace_try = now] \in Entry
    BY <1>1, <1>5, AttemptClaimed
  <2> QED
    BY <1>1, <1>5, <2>1, KeepType
<1>6. ASSUME c # <<>>, CountFailure(d, m), Reply(d), UNCHANGED <<agreeing, cert>>
      PROVE  OpeningTypes'
  <2> DEFINE n == c[1].failures + 1
  <2>1. n \in Nat
    BY <1>1, <1>6, EntryFirst, KeptFacts
  <2>2. conv' \in [Device -> Entry] /\ HistoryTypes'
    <3>1. CASE n >= WedgedAfter
      <4>1. GiveUp(d) /\ refused' = RefusedNow(d, m) /\ UNCHANGED <<loose, twice>>
        BY <1>6, <3>1 DEF CountFailure
      <4>2. conv' \in [Device -> Entry]
        BY <1>1, <4>1, EmptyEntry, KeepType DEF GiveUp
      <4> QED
        BY <1>1, <4>1, <4>2, RefusedType, GiveUpTypes
    <3>2. CASE ~(n >= WedgedAfter)
      <4>1. Keep(d, [c EXCEPT ![1].failures = n]) /\ Refuse(d, m)
        BY <1>6, <3>2 DEF CountFailure
      <4>2. n < WedgedAfter
        BY <2>1, <3>2, Constants
      <4> HIDE DEF n
      <4>3. [c EXCEPT ![1].failures = n] \in Entry
        BY <1>1, <1>6, <2>1, <4>2, FailureCounted
      <4> QED
        BY <1>1, <4>1, <4>3, KeepType, RefuseTypes
    <3> QED
      BY <3>1, <3>2
  <2>3. replied' \in [Device -> Int] /\ notice' \subseteq Device
    BY <1>1, <1>6, ReplyTypes
  <2> QED
    BY <1>1, <1>6, <2>2, <2>3 DEF OpeningTypes
<1> HIDE DEF c
<1> QED
  <2>1. UNCHANGED conv => conv' \in [Device -> Entry]
    BY <1>1
  <2> QED
    BY <1>2, <1>3, <1>4, <1>5, <1>6, <2>1 DEF Open, c

(* The end of an agreement keeps the types.                                *)
LEMMA LandTypes ==
    ASSUME ConvTypes, NEW t \in agreeing, Land(t)
    PROVE  OpeningTypes'
<1> DEFINE d == t.d
           m == t.m
           c == conv[d]
<1>1. /\ d \in Device /\ m \in Payload /\ t.known \in BOOLEAN
      /\ c \in Entry /\ conv \in [Device -> Entry] /\ now \in Nat
      /\ replied \in [Device -> Int] /\ notice \subseteq Device /\ HistoryTypes
      /\ cert \in [Device -> BOOLEAN]
      /\ agreeing \subseteq Agreement /\ \A u \in agreeing : u.d = Peer(u.m.from)
  BY DEF ConvTypes, Agreement
<1>2. agreeing' = agreeing \ {t} /\ cert' = cert
  BY DEF Land
<1>3. replied' \in [Device -> Int] /\ notice' \subseteq Device
  <2>1. Reply(d) \/ Silent
    BY DEF Land
  <2> QED
    BY <1>1, <2>1, ReplyTypes
<1>4. conv' \in [Device -> Entry]
  <2>1. CASE UNCHANGED conv
    BY <1>1, <2>1
  <2>2. CASE OpensHeld(c, m) /\ Keep(d, OpenHeld(c, m, t.known))
    BY <1>1, <2>2, OpenHeldFacts, KeepType
  <2>3. CASE Keep(d, <<Incoming(m, t.known)>>)
    BY <1>1, <2>3, IncomingEntry, KeepType
  <2>4. CASE c # <<>> /\ Keep(d, Cross(d, c[1], m))
    <3>1. c[1] \in Kept
      BY <1>1, <2>4, EntryFirst
    <3>2. Cross(d, c[1], m) \in Entry
      BY <1>1, <3>1, CrossFacts
    <3> QED
      BY <1>1, <2>4, <3>2, KeepType
  <2> QED
    BY <2>1, <2>2, <2>3, <2>4 DEF Land, Crossed
<1>5. HistoryTypes'
  <2>1. CASE Refuse(d, m)
    BY <1>1, <2>1, RefuseTypes
  <2>2. CASE Deliver(d, m) \/ DeliverLoose(d, m)
    BY <1>1, <2>2, DeliverTypes
  <2> QED
    BY <2>1, <2>2 DEF Land
<1> QED
  BY <1>1, <1>2, <1>3, <1>4, <1>5 DEF OpeningTypes

(* Sealing keeps the types, and changes the sender's entry only.           *)
LEMMA SealTypes ==
    ASSUME ConvTypes, NEW d \in Device, NEW wait \in Nat, Seal(d, wait)
    PROVE  /\ conv' \in [Device -> Entry] /\ net' \subseteq Payload
           /\ conv'[d] = [Settled(d) EXCEPT ![1].s = Sent(@, sealed + 1)]
           /\ \A e \in Device : e # d => conv'[e] = conv[e]
<1>1. conv \in [Device -> Entry] /\ conv[d] \in Entry /\ sealed \in Nat /\ now + wait \in Nat
      /\ net \subseteq Payload
  BY Constants DEF ConvTypes
<1> DEFINE e == [Settled(d) EXCEPT ![1].s = Sent(@, sealed + 1)]
<1>2. e \in Entry
  <2>1. CASE conv[d] = <<>>
    <3>1. \E u \in Kept : e = <<u>>
      BY <1>1, <2>1, SealBegins
    <3> HIDE DEF e
    <3> QED
      BY <3>1 DEF Entry
  <2>2. CASE conv[d] # <<>>
    BY <1>1, <2>2, SealGoesOn
  <2> QED
    BY <2>1, <2>2
<1>3. conv' = [conv EXCEPT ![d] = e]
  BY DEF Seal
<1> HIDE DEF e
<1>4. /\ conv' \in [Device -> Entry] /\ conv'[d] = e
      /\ \A x \in Device : x # d => conv'[x] = conv[x]
  BY <1>1, <1>2, <1>3
<1>5. net' \subseteq Payload
  BY <1>1, SealedPayloadFacts DEF Seal
<1> QED
  BY <1>4, <1>5 DEF e

(* The types hold initially.                                               *)
LEMMA TypesInit == Init => ConvTypes
<1> SUFFICES ASSUME Init PROVE ConvTypes
  OBVIOUS
<1>1. conv \in [Device -> Entry]
  BY EmptyEntry DEF Init
<1>2. 0 \in 0..(MaxSeals + Repairs)
  BY Constants
<1> QED
  BY <1>1, <1>2, Constants DEF Init, ConvTypes, HistoryTypes

(* Every step keeps the types.                                             *)
LEMMA TypesStep == ConvTypes /\ [Next]_vars => ConvTypes'
<1> SUFFICES ASSUME ConvTypes, [Next]_vars PROVE ConvTypes'
  OBVIOUS
<1> USE Constants
<1>0. OpeningTypes /\ net \subseteq Payload /\ now \in Nat /\ sealed \in 0..(MaxSeals + Repairs)
  BY DEF ConvTypes, OpeningTypes
<1>a. ASSUME OpeningTypes', net' \subseteq Payload, now' \in Nat, sealed' \in 0..(MaxSeals + Repairs)
      PROVE  ConvTypes'
  BY <1>a DEF ConvTypes, OpeningTypes
<1>1. ASSUME NEW d \in Device, NEW wait \in Nat, Seal(d, wait), sealed < MaxSeals + Repairs
      PROVE  ConvTypes'
  <2>1. conv' \in [Device -> Entry] /\ net' \subseteq Payload
    BY <1>1, SealTypes
  <2>2. now' \in Nat /\ sealed' \in 0..(MaxSeals + Repairs)
    BY <1>0, <1>1 DEF Seal
  <2>3. cert' \in [Device -> BOOLEAN]
    BY <1>0, <1>1 DEF Seal, OpeningTypes
  <2>4. HistoryTypes' /\ UNCHANGED <<agreeing, replied, notice>>
    BY <1>0, <1>1 DEF Seal, history, HistoryTypes, OpeningTypes
  <2> QED
    BY <1>0, <1>a, <2>1, <2>2, <2>3, <2>4 DEF OpeningTypes
<1>2. ASSUME NEW d \in Device, HandleUnopenable(d) \/ Evict(d) PROVE ConvTypes'
  <2>1. conv' \in [Device -> Entry]
    BY <1>0, <1>2, EmptyEntry DEF HandleUnopenable, Evict, GiveUp, Keep, OpeningTypes
  <2>2. HistoryTypes'
    BY <1>0, <1>2 DEF HandleUnopenable, Evict, GiveUp, HistoryTypes, OpeningTypes
  <2> QED
    BY <1>0, <1>2, <1>a, <2>1, <2>2 DEF HandleUnopenable, Evict, OpeningTypes
<1>3. ASSUME NEW d \in Device, Resolve(d) PROVE ConvTypes'
  BY <1>0, <1>3, <1>a DEF Resolve, OpeningTypes, history, HistoryTypes
<1>4. ASSUME NEW d \in Device, Restart(d) PROVE ConvTypes'
  <2>1. Restored(conv[d]) \in Entry
    BY <1>0, RestoredAlike DEF OpeningTypes
  <2>2. conv' \in [Device -> Entry]
    BY <1>0, <1>4, <2>1 DEF Restart, Keep, OpeningTypes
  <2>3. HistoryTypes'
    BY <1>0, <1>4 DEF Restart, history, HistoryTypes, OpeningTypes
  <2> QED
    BY <1>0, <1>4, <1>a, <2>2, <2>3 DEF Restart, OpeningTypes
<1>5. ASSUME NEW d \in Device, Reset(d) PROVE ConvTypes'
  <2>1. conv' \in [Device -> Entry]
    BY <1>0, <1>5, EmptyEntry DEF Reset, GiveUp, Keep, OpeningTypes
  <2>2. HistoryTypes'
    BY <1>0, <1>5 DEF Reset, GiveUp, HistoryTypes, OpeningTypes
  <2> QED
    BY <1>0, <1>5, <1>a, <2>1, <2>2 DEF Reset, OpeningTypes
<1>6. ASSUME NEW m \in net, Receive(m) PROVE ConvTypes'
  <2>1. m \in Payload /\ Peer(m.from) \in Device
    BY <1>0, PayloadFacts, PeerFacts
  <2>2. OpeningTypes'
    BY <1>6, <2>1, OpenTypes DEF Receive
  <2> QED
    BY <1>0, <1>6, <1>a, <2>2 DEF Receive
<1>7. ASSUME NEW t \in agreeing, Land(t) PROVE ConvTypes'
  BY <1>0, <1>7, <1>a, LandTypes DEF Land
<1>8. ASSUME Lose PROVE ConvTypes'
  BY <1>0, <1>8, <1>a DEF Lose, store, history, OpeningTypes, HistoryTypes
<1>9. ASSUME UNCHANGED vars PROVE ConvTypes'
  BY <1>0, <1>9, <1>a DEF vars, store, history, OpeningTypes, HistoryTypes
<1>10. ASSUME NEW d \in Device, Repair(d) PROVE ConvTypes'
  BY <1>1, <1>10 DEF Repair
<1>11. ASSUME NEW d \in Device, NEW wait \in Pause, sealed < MaxSeals, Seal(d, wait)
       PROVE  ConvTypes'
  BY <1>0, <1>1, <1>11
<1> QED
  BY <1>2, <1>3, <1>4, <1>5, <1>6, <1>7, <1>8, <1>9, <1>10, <1>11 DEF Next

(* The types of the entries, payloads and agreements, and that an entry too   *)
(* many frames did not open under is not kept.                             *)
THEOREM ConversationTypes == Spec => []TypeOK
<1>1. ConvTypes => TypeOK
  <2> SUFFICES ASSUME ConvTypes PROVE TypeOK
    OBVIOUS
  <2>1. ASSUME NEW d \in Device
        PROVE  /\ Len(conv[d]) <= 2
               /\ \A i \in DOMAIN conv[d] : conv[d][i] \in Root /\ conv[d][i].failures < WedgedAfter
    <3>1. conv[d] \in Entry
      BY DEF ConvTypes
    <3>2. CASE conv[d] = <<>>
      BY <3>2, EntryForms
    <3>3. CASE conv[d] # <<>>
      <4>1. ASSUME NEW c \in Entry, c # <<>> PROVE Len(c) = 1 \/ Len(c) = 2
        <5>1. \A r, q : (c = <<r>> => Len(c) = 1) /\ (c = <<r, q>> => Len(c) = 2)
          BY EntryForms
        <5> QED
          BY <4>1, <5>1, EntryCases
      <4>2. Len(conv[d]) <= 2
        <5>1. Len(conv[d]) = 1 \/ Len(conv[d]) = 2
          BY <3>1, <3>3, <4>1
        <5>2. \A n : n = 1 \/ n = 2 => n <= 2
          OBVIOUS
        <5> QED
          BY <5>1, <5>2, Zenon
      <4>3. \A i \in DOMAIN conv[d] : conv[d][i] \in Kept
        BY <3>1, <3>3, EntryFirst
      <4> QED
        BY <4>2, <4>3 DEF Kept
    <3> QED
      BY <3>2, <3>3
  <2> QED
    BY <2>1 DEF ConvTypes, TypeOK, Agreement
<1> QED
  BY <1>1, TypesInit, TypesStep, PTL DEF Spec

-----------------------------------------------------------------------------
(* A root is not lost.                                                     *)

LEMMA ReceivedRoot == \A s \in Session, f \in Frame : Received(s, f).root = s.root
  BY ReceivedBanked, ReceivedOnChain, ReceivedTurn

\* The root with number r is in entry e.
StillHolds(e, r) == \E i \in DOMAIN e : e[i].s.root = r

(* An entry alike another holds all of its roots.                          *)
LEMMA AlikeHolds ==
    ASSUME NEW c, NEW e, Alike(c, e), NEW i \in DOMAIN c
    PROVE  StillHolds(e, c[i].s.root)
  BY DEF Alike, StillHolds

(* Opening with a held root, and the change of places it may bring, drops  *)
(* no root.                                                                *)
LEMMA OpenHeldHolds ==
    ASSUME NEW c \in Entry, NEW m \in Payload, NEW known \in BOOLEAN, OpensHeld(c, m)
    PROVE  \A x \in DOMAIN c : StillHolds(OpenHeld(c, m, known), c[x].s.root)
<1> DEFINE e == OpenHeld(c, m, known)
<1>1. c # <<>> /\ DOMAIN e = DOMAIN c /\ \E i, j \in DOMAIN c : Receives(c, e, m, known, i, j)
  BY OpenHeldFacts
<1> HIDE DEF e
<1>2. PICK i \in DOMAIN c, j \in DOMAIN c : Receives(c, e, m, known, i, j)
  BY <1>1
<1> SUFFICES ASSUME NEW x \in DOMAIN c PROVE StillHolds(e, c[x].s.root)
  BY DEF e
<1>3. CASE x = i
  <2>1. c[i].s \in Session /\ m.f \in Frame
    BY <1>1, EntryFirst, KeptFacts, PayloadFacts
  <2>2. e[j].s.root = c[i].s.root
    BY <1>2, <2>1, ReceivedRoot DEF Receives
  <2> QED
    BY <1>1, <1>3, <2>2 DEF StillHolds
<1>4. CASE x # i
  <2>1. PICK l \in DOMAIN c : e[l].s = c[x].s
    BY <1>2, <1>4 DEF Receives
  <2> QED
    BY <1>1, <2>1 DEF StillHolds
<1> QED
  BY <1>3, <1>4

(* One step of any device: an answered root that is vouched for stays, or a  *)
(* fresher prologue has taken its place.                                   *)
LEMMA RootsStayStep ==
    ASSUME ConvTypes, [Next]_vars, NEW x \in Device, conv[x] # <<>>, conv'[x] # <<>>,
           conv[x][1].proven, ~conv[x][1].pending
    PROVE  \/ StillHolds(conv'[x], conv[x][1].s.root)
           \/ conv'[x][1].peer_sent_at > conv[x][1].peer_sent_at
<1> DEFINE c == conv[x]
           Stays == \/ StillHolds(conv'[x], c[1].s.root)
                    \/ conv'[x][1].peer_sent_at > c[1].peer_sent_at
<1>1. /\ c \in Entry /\ conv \in [Device -> Entry] /\ cert[x] \in BOOLEAN /\ now \in Nat
      /\ 1 \in DOMAIN c /\ c[1] \in Kept /\ c[1].s \in Session /\ c[1].failures \in Nat
      /\ c[1].peer_sent_at \in Nat /\ sealed \in Nat
  <2>1. c \in Entry /\ conv \in [Device -> Entry] /\ cert[x] \in BOOLEAN /\ now \in Nat /\ sealed \in Nat
    BY Constants DEF ConvTypes
  <2>2. 1 \in DOMAIN c /\ c[1] \in Kept
    BY <2>1, EntryFirst
  <2> QED
    BY <2>1, <2>2, KeptFacts
<1>2. ASSUME conv'[x] = conv[x] PROVE Stays
  BY <1>1, <1>2 DEF StillHolds
<1>3. ASSUME Alike(c, conv'[x]) PROVE Stays
  BY <1>1, <1>3, AlikeHolds
<1>4. ASSUME NEW m \in Payload, NEW known \in BOOLEAN, OpensHeld(c, m), conv'[x] = OpenHeld(c, m, known)
      PROVE  Stays
  BY <1>1, <1>4, OpenHeldHolds
<1>5. ASSUME NEW e, e \in Entry, NEW d \in Device, Keep(d, e)
      PROVE  conv'[x] = IF x = d THEN e ELSE conv[x]
  BY <1>1, <1>5 DEF Keep
<1>6. ASSUME NEW d \in Device, NEW wait \in Nat, Seal(d, wait) PROVE Stays
  <2>1. CASE x = d
    <3>1. DOMAIN conv'[x] = DOMAIN c /\ conv'[x][1].s = Sent(c[1].s, sealed + 1)
      BY <1>1, <1>6, <2>1, SealTypes, SealGoesOn
    <3>2. sealed + 1 \in Nat
      BY <1>1
    <3>3. Sent(c[1].s, sealed + 1).root = c[1].s.root
      BY <1>1, <3>2, SentFacts
    <3> QED
      BY <1>1, <3>1, <3>3, Zenon DEF StillHolds
  <2>2. CASE x # d
    BY <1>2, <1>6, <2>2, SealTypes
  <2> QED
    BY <2>1, <2>2
<1>7. ASSUME NEW d \in Device, Keep(d, <<>>) PROVE Stays
  BY <1>2, <1>5, <1>7, EmptyEntry
<1>8. ASSUME NEW m \in net, Receive(m) PROVE Stays
  <2> DEFINE d == Peer(m.from)
  <2>1. m \in Payload /\ d \in Device
    BY PayloadFacts, PeerFacts DEF ConvTypes
  <2>2. CASE conv'[x] = conv[x]
    BY <1>2, <2>2
  <2>3. CASE x = d /\ OpensHeld(c, m) /\ Keep(d, OpenHeld(c, m, cert[d]))
    <3>1. OpenHeld(c, m, cert[d]) \in Entry
      BY <1>1, <2>1, <2>3, OpenHeldFacts
    <3> QED
      BY <1>1, <1>4, <1>5, <2>1, <2>3, <3>1
  <2>4. CASE x = d /\ Keep(d, [c EXCEPT ![1].last_displace_try = now])
    <3>1. now \in Int
      BY <1>1
    <3>2. [c EXCEPT ![1].last_displace_try = now] \in Entry
          /\ Alike(c, [c EXCEPT ![1].last_displace_try = now])
      BY <1>1, <3>1, AttemptClaimed
    <3> QED
      BY <1>3, <1>5, <2>1, <2>4, <3>2
  <2>5. CASE x = d /\ CountFailure(d, m)
    <3> DEFINE n == c[1].failures + 1
    <3>0. n \in Nat
      BY <1>1
    <3>1. CASE Keep(d, <<>>)
      BY <1>7, <2>1, <3>1
    <3>2. CASE ~(n >= WedgedAfter) /\ Keep(d, [c EXCEPT ![1].failures = n])
      <4>1. n < WedgedAfter
        BY <3>0, <3>2, Constants
      <4> HIDE DEF n
      <4>2. [c EXCEPT ![1].failures = n] \in Entry /\ Alike(c, [c EXCEPT ![1].failures = n])
        BY <1>1, <3>0, <4>1, FailureCounted
      <4> QED
        BY <1>3, <1>5, <2>1, <2>5, <3>2, <4>2
    <3> QED
      BY <2>5, <3>1, <3>2 DEF CountFailure, GiveUp
  <2>6. CASE x # d
    <3>1. conv' = conv \/ \E e : Keep(d, e)
      BY <1>8 DEF Receive, Open, CountFailure, GiveUp
    <3>2. conv'[x] = conv[x]
      BY <1>1, <2>1, <2>6, <3>1 DEF Keep
    <3> QED
      BY <1>2, <3>2
  <2> HIDE DEF d, c, Stays
  <2>7. CASE x = d
    <3>1. Open(d, m)
      BY <1>8 DEF Receive, d
    <3>2. conv[d] = c
      BY <2>7 DEF c
    <3>3. conv' = conv => conv'[x] = conv[x]
      OBVIOUS
    <3> QED
      BY <2>2, <2>3, <2>4, <2>5, <2>7, <3>1, <3>2, <3>3 DEF Open
  <2> QED
    BY <2>6, <2>7
<1>9. ASSUME NEW t \in agreeing, Land(t) PROVE Stays
  <2> DEFINE d == t.d
             m == t.m
  <2>1. m \in Payload /\ d \in Device /\ t.known \in BOOLEAN
    BY DEF ConvTypes, Agreement
  <2>2. CASE conv' = conv
    BY <1>2, <2>2
  <2>3. CASE x # d
    <3>1. conv' = conv \/ \E e : Keep(d, e)
      BY <1>9 DEF Land
    <3>2. conv'[x] = conv[x]
      BY <1>1, <2>1, <2>3, <3>1 DEF Keep
    <3> QED
      BY <1>2, <3>2
  <2>4. CASE x = d /\ OpensHeld(c, m) /\ Keep(d, OpenHeld(c, m, t.known))
    <3>1. OpenHeld(c, m, t.known) \in Entry
      BY <1>1, <2>1, <2>4, OpenHeldFacts
    <3> QED
      BY <1>4, <1>5, <2>1, <2>4, <3>1
  <2>5. CASE x = d /\ Admits(c, m, t.known) /\ Keep(d, <<Incoming(m, t.known)>>)
    <3>1. m.at > c[1].peer_sent_at
      BY <2>5 DEF Admits, Displaceable, Fresher
    <3>2. <<Incoming(m, t.known)>> \in Entry /\ <<Incoming(m, t.known)>>[1] = Incoming(m, t.known)
      BY <2>1, IncomingEntry
    <3>3. Incoming(m, t.known).peer_sent_at = m.at
      BY <2>1, IncomingFacts
    <3>4. conv'[x] = <<Incoming(m, t.known)>>
      BY <1>5, <2>1, <2>5, <3>2
    <3> QED
      BY <3>1, <3>2, <3>3, <3>4
  <2>6. ~Crossed(c, t.known)
    BY DEF Crossed
  <2> HIDE DEF Stays
  <2> QED
    BY <1>9, <2>2, <2>3, <2>4, <2>5, <2>6 DEF Land
<1>10. ASSUME NEW d \in Device, Restart(d) PROVE Stays
  <2>1. Restored(conv[d]) \in Entry /\ Alike(conv[d], Restored(conv[d]))
    BY <1>1, RestoredAlike
  <2> QED
    BY <1>2, <1>3, <1>5, <1>10, <2>1 DEF Restart
<1>11. ASSUME NEW d \in Device, HandleUnopenable(d) \/ Evict(d) \/ Reset(d) PROVE Stays
  BY <1>2, <1>7, <1>11 DEF HandleUnopenable, Evict, Reset, GiveUp
<1>12. ASSUME NEW d \in Device, Repair(d) PROVE Stays
  BY <1>6, <1>12, Constants DEF Repair
<1>13. ASSUME NEW d \in Device, NEW wait \in Pause, Seal(d, wait) PROVE Stays
  BY <1>6, <1>13, Constants
<1>14. ASSUME conv' = conv PROVE Stays
  BY <1>2, <1>14
<1> HIDE DEF Stays
<1>15. Stays
  BY <1>8, <1>9, <1>10, <1>11, <1>12, <1>13, <1>14
     DEF Next, Resolve, Lose, vars, store
<1> QED
  BY <1>15 DEF Stays

(* What RootsStay says of Entry's roots, for every instance.               *)
THEOREM AnsweredRootsStay == Spec => RootsStay
<1>1. ConvTypes /\ [Next]_vars =>
         [\A d \in Device :
             conv[d] # <<>> /\ conv'[d] # <<>> /\ conv[d][1].proven /\ ~conv[d][1].pending
             => \/ \E i \in DOMAIN conv'[d] : conv'[d][i].s.root = conv[d][1].s.root
                \/ conv'[d][1].peer_sent_at > conv[d][1].peer_sent_at]_vars
  BY RootsStayStep DEF StillHolds
<1> QED
  BY <1>1, TypesInit, TypesStep, PTL DEF Spec, RootsStay

-----------------------------------------------------------------------------
(* Entries by the numbers of their roots.                                  *)

(* A root that is held.                                                    *)
LEMMA HeldFacts ==
    ASSUME NEW c \in Entry, Distinct(c)
    PROVE  /\ \A r \in Roots(c) :
                 /\ Get(c, r) \in Kept /\ Get(c, r).s \in Session /\ Get(c, r).s.root = r
                 /\ r \in Nat /\ c # <<>>
           /\ c # <<>> => Main(c) \in Roots(c) /\ Get(c, Main(c)) = c[1] /\ HeardAt(c) \in Nat
           /\ c = <<>> => Roots(c) = {}
<1>1. ASSUME NEW r \in Roots(c)
      PROVE  /\ Get(c, r) \in Kept /\ Get(c, r).s \in Session /\ Get(c, r).s.root = r
             /\ r \in Nat /\ c # <<>>
  <2>1. PICK i \in DOMAIN c : c[i].s.root = r /\ Get(c, r) = c[i]
    BY GetIs
  <2>2. c # <<>>
    BY EntryForms
  <2>3. c[i] \in Kept
    BY <2>2, EntryFirst
  <2>4. c[i].s \in Session
    BY <2>3, KeptFacts
  <2> QED
    BY <2>1, <2>2, <2>3, <2>4 DEF Session
<1>2. ASSUME c # <<>>
      PROVE  Main(c) \in Roots(c) /\ Get(c, Main(c)) = c[1] /\ HeardAt(c) \in Nat
  <2>1. 1 \in DOMAIN c /\ c[1] \in Kept
    BY <1>2, EntryFirst
  <2> QED
    BY <2>1, GetIs, KeptFacts DEF Main, HeardAt
<1> QED
  BY <1>1, <1>2, EntryRoots

\* Entry e is c for all that the invariant says of it.
SameView(c, e) ==
    /\ Roots(e) = Roots(c) /\ Distinct(e)
    /\ c # <<>> => Main(e) = Main(c) /\ HeardAt(e) = HeardAt(c)
    /\ \A r \in Roots(c) :
          LET h == Get(c, r)
              k == Get(e, r)
          IN  /\ k.s = h.s /\ k.pending = h.pending /\ k.proven = h.proven
              /\ \A q \in Roots(c) : q # r => k.accepted = h.accepted

(* Entries alike have the same view by root.                               *)
LEMMA AlikeView ==
    ASSUME NEW c \in Entry, NEW e \in Entry, Alike(c, e), Distinct(c)
    PROVE  SameView(c, e)
<1>1. DOMAIN e = DOMAIN c /\ \A i \in DOMAIN c : e[i].s = c[i].s
  BY DEF Alike
<1>2. Distinct(e) /\ Roots(e) = Roots(c)
  BY <1>1 DEF Distinct, Roots
<1>3. c # <<>> => Main(e) = Main(c) /\ HeardAt(e) = HeardAt(c)
  BY EntryFirst DEF Alike, Main, HeardAt
<1>4. ASSUME NEW r \in Roots(c)
      PROVE  LET h == Get(c, r)
                 k == Get(e, r)
             IN  /\ k.s = h.s /\ k.pending = h.pending /\ k.proven = h.proven
                 /\ \A q \in Roots(c) : q # r => k.accepted = h.accepted
  <2>1. PICK i \in DOMAIN c : c[i].s.root = r /\ Get(c, r) = c[i]
    BY GetIs
  <2>2. Get(e, r) = e[i]
    BY <1>1, <1>2, <2>1, GetIs
  <2>3. ASSUME NEW q \in Roots(c), q # r PROVE 2 \in DOMAIN c
    <3>1. PICK j \in DOMAIN c : c[j].s.root = q
      BY DEF Roots
    <3>2. c # <<>>
      BY EntryForms
    <3> QED
      BY <2>1, <2>3, <3>1, <3>2, EntryFirst
  <2> QED
    BY <2>1, <2>2, <2>3 DEF Alike
<1> QED
  BY <1>2, <1>3, <1>4 DEF SameView

\* Entry e is c after m has opened under its root r.
OpenedView(c, e, m, known, r) ==
    /\ r \in Roots(c) /\ Opens(Get(c, r).s, m.f)
    /\ Roots(e) = Roots(c) /\ Distinct(e)
    /\ Main(e) = Main(c) \/ (Main(e) = r /\ ~m.prologue)
    /\ HeardAt(e) >= HeardAt(c) /\ HeardAt(e) >= m.at
    /\ LET h == Get(c, r)
           k == Get(e, r)
       IN  /\ k.s = Received(h.s, m.f) /\ k.pending = FALSE /\ k.accepted = h.accepted
           /\ k.proven <=> h.proven \/ known
    /\ \A q \in Roots(c) : q # r =>
          LET h == Get(c, q)
              k == Get(e, q)
          IN  /\ k.s = h.s /\ k.pending = h.pending /\ k.proven = h.proven
              /\ k.accepted = h.accepted

(* What opening does, seen by root: the one that opens takes the frame,    *)
(* the other stays.                                                        *)
LEMMA OpenedIsView ==
    ASSUME NEW c \in Entry, Distinct(c), NEW m \in Payload, NEW known \in BOOLEAN,
           OpensHeld(c, m), NEW r, \A q \in Roots(c) : Opens(Get(c, q).s, m.f) => q = r
    PROVE  OpenedView(c, OpenHeld(c, m, known), m, known, r)
<1> DEFINE e == OpenHeld(c, m, known)
<1>1. /\ c # <<>> /\ DOMAIN e = DOMAIN c /\ 1 \in DOMAIN c /\ DOMAIN c \subseteq {1, 2}
      /\ HeardAt(e) >= HeardAt(c) /\ HeardAt(e) >= m.at
      /\ \E i, j \in DOMAIN c : Receives(c, e, m, known, i, j)
  BY OpenHeldFacts, EntryFirst DEF HeardAt
<1> HIDE DEF e
<1>2. PICK i \in DOMAIN c, j \in DOMAIN c : Receives(c, e, m, known, i, j)
  BY <1>1
<1>3. c[i].s.root = r /\ r \in Roots(c) /\ Get(c, r) = c[i]
  <2>1. c[i].s.root \in Roots(c) /\ Get(c, c[i].s.root) = c[i]
    BY GetIs
  <2>2. Opens(c[i].s, m.f)
    BY <1>2 DEF Receives
  <2> QED
    BY <2>1, <2>2
<1>4. e[j].s.root = r
  <2>1. c[i].s \in Session /\ m.f \in Frame
    BY <1>1, EntryFirst, KeptFacts, PayloadFacts
  <2>2. Received(c[i].s, m.f).root = c[i].s.root
    BY <2>1, ReceivedRoot
  <2> QED
    BY <1>2, <1>3, <2>2 DEF Receives
<1>5. \A k \in DOMAIN c \ {i} : \E l \in DOMAIN c \ {j} :
         /\ e[l].s = c[k].s /\ e[l].pending = c[k].pending
         /\ e[l].accepted = c[k].accepted /\ e[l].proven = c[k].proven
         /\ j = i => l = k
  BY <1>2 DEF Receives
<1>6. \A x, y \in DOMAIN c : x # y => DOMAIN c = {x, y} /\ {x, y} = {1, 2}
  BY <1>1
<1>7. ASSUME NEW k \in DOMAIN c \ {i} PROVE k # i /\ c[k].s.root # r
  BY <1>3 DEF Distinct
<1>8. Distinct(e)
  <2> SUFFICES ASSUME NEW x \in DOMAIN c, NEW y \in DOMAIN c, e[x].s.root = e[y].s.root, x # y
               PROVE  FALSE
    BY <1>1 DEF Distinct
  <2>1. \E k \in DOMAIN c \ {i} : TRUE
    BY <1>6
  <2>2. PICK k \in DOMAIN c \ {i} : TRUE
    BY <2>1
  <2>3. PICK l \in DOMAIN c \ {j} : e[l].s = c[k].s
    BY <1>5
  <2>4. e[l].s.root # e[j].s.root
    BY <1>4, <1>7, <2>3
  <2>5. {x, y} = {l, j}
    BY <1>6, <2>3
  <2> QED
    BY <2>4, <2>5
<1>9. Get(e, r) = e[j] /\ r \in Roots(e)
  BY <1>1, <1>4, <1>8, GetIs
<1>10. ASSUME NEW q \in Roots(c), q # r
       PROVE  /\ q \in Roots(e) /\ Get(e, q).s = Get(c, q).s
              /\ Get(e, q).pending = Get(c, q).pending
              /\ Get(e, q).proven = Get(c, q).proven /\ Get(e, q).accepted = Get(c, q).accepted
  <2>1. PICK k \in DOMAIN c : c[k].s.root = q /\ Get(c, q) = c[k]
    BY GetIs
  <2>2. k \in DOMAIN c \ {i}
    BY <1>3, <1>10, <2>1
  <2>3. PICK l \in DOMAIN c : /\ e[l].s = c[k].s /\ e[l].pending = c[k].pending
                              /\ e[l].accepted = c[k].accepted /\ e[l].proven = c[k].proven
    BY <1>5, <2>2
  <2>4. Get(e, q) = e[l] /\ q \in Roots(e)
    BY <1>1, <1>8, <2>1, <2>3, GetIs
  <2> QED
    BY <2>1, <2>3, <2>4
<1>11. Roots(e) \subseteq Roots(c)
  <2> SUFFICES ASSUME NEW l \in DOMAIN c PROVE e[l].s.root \in Roots(c)
    BY <1>1 DEF Roots
  <2>1. CASE l = j
    BY <1>3, <1>4, <2>1
  <2>2. CASE l # j
    <3>1. PICK k \in DOMAIN c \ {i} : TRUE
      BY <1>6, <2>2
    <3>2. PICK l2 \in DOMAIN c \ {j} : e[l2].s = c[k].s
      BY <1>5
    <3>3. DOMAIN c = {l, j}
      BY <1>6, <2>2
    <3>4. l2 = l
      BY <3>2, <3>3
    <3> QED
      BY <3>2, <3>4 DEF Roots
  <2> QED
    BY <2>1, <2>2
<1>12. Main(e) = Main(c) \/ (Main(e) = r /\ ~m.prologue)
  <2>1. CASE j = i
    <3>1. CASE i = 1
      BY <1>3, <1>4, <2>1, <3>1 DEF Main
    <3>2. CASE i # 1
      <4>1. PICK l \in DOMAIN c : e[l].s = c[1].s /\ l = 1
        BY <1>1, <1>5, <2>1, <3>2
      <4> QED
        BY <4>1 DEF Main
    <3> QED
      BY <3>1, <3>2
  <2>2. CASE j # i
    BY <1>2, <1>4, <2>2 DEF Main, Receives
  <2> QED
    BY <2>1, <2>2
<1>13. /\ Get(e, r).s = Received(Get(c, r).s, m.f) /\ Get(e, r).pending = FALSE
       /\ Get(e, r).accepted = Get(c, r).accepted
       /\ Get(e, r).proven <=> Get(c, r).proven \/ known
       /\ Opens(Get(c, r).s, m.f)
  BY <1>2, <1>3, <1>9 DEF Receives
<1>14. Roots(e) = Roots(c)
  BY <1>9, <1>10, <1>11
<1>15. OpenedView(c, e, m, known, r)
  BY <1>1, <1>3, <1>8, <1>10, <1>12, <1>13, <1>14 DEF OpenedView
<1> QED
  BY <1>15 DEF e

\* Entry e is c after the payload with number id has been sealed into it.
SealedView(c, e, id) ==
    /\ Roots(e) = Roots(c) /\ Distinct(e) /\ Main(e) = Main(c) /\ HeardAt(e) = HeardAt(c)
    /\ LET h == Get(c, Main(c))
           k == Get(e, Main(c))
       IN  /\ k.s = Sent(h.s, id) /\ k.pending = h.pending /\ k.proven = TRUE
           /\ k.accepted = h.accepted
    /\ \A q \in Roots(c) : q # Main(c) => Get(e, q) = Get(c, q)

(* What sealing does, seen by root: the main one sends, after the settling *)
(* of the entry.                                                           *)
LEMMA SealedIsView ==
    ASSUME NEW d \in Device, conv[d] \in Entry, conv[d] # <<>>, Distinct(conv[d]), sealed \in Nat
    PROVE  /\ SealedView(conv[d], [Settled(d) EXCEPT ![1].s = Sent(@, sealed + 1)], sealed + 1)
           /\ Settled(d)[1].s = Get(conv[d], Main(conv[d])).s
           /\ Settled(d)[1].pending = Get(conv[d], Main(conv[d])).pending
<1> DEFINE c == conv[d]
           e == [Settled(d) EXCEPT ![1].s = Sent(@, sealed + 1)]
<1>1. /\ DOMAIN e = DOMAIN c
      /\ e[1].s = Sent(c[1].s, sealed + 1) /\ e[1].pending = c[1].pending
      /\ e[1].proven = TRUE /\ e[1].accepted = c[1].accepted
      /\ e[1].peer_sent_at = c[1].peer_sent_at
      /\ \A i \in DOMAIN c : i # 1 => e[i] = c[i]
      /\ Settled(d)[1].s = c[1].s /\ Settled(d)[1].pending = c[1].pending
  BY SealGoesOn
<1> HIDE DEF e
<1>2. 1 \in DOMAIN c /\ c[1].s \in Session /\ sealed + 1 \in Nat
  BY EntryFirst, KeptFacts
<1>3. Sent(c[1].s, sealed + 1).root = c[1].s.root
  BY <1>2, SentFacts
<1>4. \A i \in DOMAIN c : e[i].s.root = c[i].s.root
  BY <1>1, <1>3
<1>5. Distinct(e) /\ Roots(e) = Roots(c)
  BY <1>1, <1>4 DEF Distinct, Roots
<1>6. Main(e) = Main(c) /\ HeardAt(e) = HeardAt(c)
  BY <1>1, <1>3 DEF Main, HeardAt
<1>7. Get(c, Main(c)) = c[1] /\ Get(e, Main(c)) = e[1]
  BY <1>1, <1>2, <1>5, <1>6, GetIs DEF Main
<1>8. ASSUME NEW q \in Roots(c), q # Main(c) PROVE Get(e, q) = Get(c, q)
  <2>1. PICK i \in DOMAIN c : c[i].s.root = q /\ Get(c, q) = c[i]
    BY GetIs
  <2>2. i # 1
    BY <1>8, <2>1 DEF Main
  <2>3. Get(e, q) = e[i]
    BY <1>1, <1>4, <1>5, <2>1, GetIs
  <2> QED
    BY <1>1, <2>1, <2>2, <2>3
<1>9. SealedView(c, e, sealed + 1)
  BY <1>1, <1>5, <1>6, <1>7, <1>8 DEF SealedView
<1> QED
  BY <1>1, <1>7, <1>9 DEF e

(* A root just begun.                                                      *)
LEMMA BegunIsView ==
    ASSUME NEW d \in Device, conv[d] = <<>>, sealed \in Nat
    PROVE  LET e == [Settled(d) EXCEPT ![1].s = Sent(@, sealed + 1)]
               k == Get(e, sealed + 1)
           IN  /\ Roots(e) = {sealed + 1} /\ Distinct(e) /\ Main(e) = sealed + 1
               /\ k.s = Sent(Initiator(sealed + 1), sealed + 1) /\ k.pending = TRUE
               /\ k.proven = TRUE
<1> DEFINE id == sealed + 1
           e == [Settled(d) EXCEPT ![1].s = Sent(@, id)]
<1>1. PICK u \in Kept : /\ e = <<u>> /\ u.s = Sent(Initiator(id), id)
                        /\ u.pending = TRUE /\ u.proven = TRUE /\ u.peer_sent_at = 0
  BY SealBegins
<1>2. id \in Nat
  OBVIOUS
<1> HIDE DEF e, id
<1>3. u.s.root = id
  <2>1. Initiator(id) \in Session /\ Initiator(id).root = id
    BY <1>2, InitiatorFacts
  <2>2. Sent(Initiator(id), id).root = id
    BY <1>2, <2>1, SentFacts
  <2> QED
    BY <1>1, <2>2
<1>4. Roots(e) = {id} /\ Get(e, id) = u
  BY <1>1, <1>3, EntryRoots
<1>5. Distinct(e) /\ Main(e) = id
  BY <1>1, <1>3, EntryForms DEF Distinct, Main
<1> QED
  BY <1>1, <1>4, <1>5 DEF e, id

(* A root just accepted, alone.                                            *)
LEMMA AcceptedIsView ==
    ASSUME NEW m \in Payload, NEW known \in BOOLEAN
    PROVE  LET e == <<Incoming(m, known)>>
               r == m.f.chain
               k == Get(e, r)
           IN  /\ Roots(e) = {r} /\ Distinct(e) /\ Main(e) = r /\ HeardAt(e) = m.at
               /\ k.s = Responder(m.f) /\ k.pending = FALSE /\ k.accepted = TRUE
               /\ k.proven = known
<1> DEFINE u == Incoming(m, known)
<1>1. /\ u.s = Responder(m.f) /\ u.pending = FALSE /\ u.accepted = TRUE
      /\ u.proven = known /\ u.peer_sent_at = m.at
  BY IncomingFacts
<1>2. u.s.root = m.f.chain
  BY <1>1, ResponderFacts, PayloadFacts
<1> HIDE DEF u
<1>3. Roots(<<u>>) = {m.f.chain} /\ Get(<<u>>, m.f.chain) = u
  BY <1>2, EntryRoots
<1>4. Distinct(<<u>>) /\ Main(<<u>>) = m.f.chain /\ HeardAt(<<u>>) = m.at
  BY <1>1, <1>2, EntryForms DEF Distinct, Main, HeardAt
<1> QED
  BY <1>1, <1>3, <1>4 DEF u

(* A root just accepted beside the one the device has begun.               *)
LEMMA CrossedIsView ==
    ASSUME NEW d, NEW held \in Kept, NEW m \in Payload, held.s.root # m.f.chain
    PROVE  LET e == Cross(d, held, m)
               r == m.f.chain
               h == Get(e, held.s.root)
               k == Get(e, r)
           IN  /\ Roots(e) = {r, held.s.root} /\ Distinct(e)
               /\ Main(e) = r \/ Main(e) = held.s.root
               /\ HeardAt(e) >= held.peer_sent_at /\ HeardAt(e) >= m.at
               /\ h.s = held.s /\ h.pending = held.pending /\ h.proven = held.proven
               /\ k.s = Responder(m.f) /\ k.pending = FALSE /\ k.accepted = TRUE
               /\ k.proven = TRUE
<1> DEFINE e == Cross(d, held, m)
<1>1. /\ e \in Entry /\ e # <<>> /\ DOMAIN e = {1, 2}
      /\ e[1].peer_sent_at >= held.peer_sent_at /\ e[1].peer_sent_at >= m.at
      /\ \E i, j \in {1, 2} :
            /\ i # j
            /\ e[i].s = held.s /\ e[i].pending = held.pending /\ e[i].proven = held.proven
            /\ e[j].s = Responder(m.f) /\ e[j].pending = FALSE
            /\ e[j].proven = TRUE /\ e[j].accepted = TRUE
  BY CrossFacts, ZenonT(40)
<1> HIDE DEF e
<1>2. PICK i \in {1, 2}, j \in {1, 2} :
            /\ i # j
            /\ e[i].s = held.s /\ e[i].pending = held.pending /\ e[i].proven = held.proven
            /\ e[j].s = Responder(m.f) /\ e[j].pending = FALSE
            /\ e[j].proven = TRUE /\ e[j].accepted = TRUE
  BY <1>1
<1>3. e[j].s.root = m.f.chain /\ e[i].s.root = held.s.root
  BY <1>2, ResponderFacts, PayloadFacts
<1>4. Distinct(e)
  BY <1>1, <1>2, <1>3 DEF Distinct
<1>5. Roots(e) = {m.f.chain, held.s.root}
  BY <1>1, <1>2, <1>3 DEF Roots
<1>6. Get(e, m.f.chain) = e[j] /\ Get(e, held.s.root) = e[i]
  BY <1>1, <1>3, <1>4, GetIs
<1>7. Main(e) = m.f.chain \/ Main(e) = held.s.root
  BY <1>2, <1>3 DEF Main
<1> QED
  BY <1>1, <1>2, <1>4, <1>5, <1>6, <1>7 DEF e, HeardAt

-----------------------------------------------------------------------------
(* Steps that keep the invariant.                                          *)

LEMMA CountTypes ==
    ASSUME ConvTypes
    PROVE  sealed \in Nat /\ sealed + 1 \in Nat /\ now \in Nat
<1>1. sealed \in Nat /\ now \in Nat
  BY Constants DEF ConvTypes
<1> QED
  BY <1>1

(* What is under way are payloads, and what is held are entries.           *)
LEMMA TransitTypes ==
    ASSUME ConvTypes
    PROVE  Transit \subseteq Payload /\ \A d \in Device : conv[d] \in Entry
  BY DEF ConvTypes, Transit, Agreement

(* A payload under way and the device it is for.                           *)
LEMMA TransitFacts ==
    ASSUME ConvTypes, NEW own \in [Device -> Nat], NEW of \in [Nat -> Nat], Core(own, of),
           NEW m \in Transit
    PROVE  LET r == of[m.f.chain]
           IN  /\ m \in Payload /\ m.from \in Device /\ m.f \in Frame /\ m.id \in Nat /\ m.at \in Nat
               /\ PayloadSane(m, own, of) /\ m.f.chain \in Nat /\ m.f.n \in Nat /\ m.f.base \in Nat
               /\ r \in Nat /\ r # 0 /\ r \in Roots(conv[m.from])
               /\ m.id \in 1..sealed
<1>1. m \in Payload
  BY TransitTypes
<1>2. m.from \in Device /\ m.f \in Frame /\ m.id \in Nat /\ m.at \in Nat
  BY <1>1, PayloadFacts
<1>3. m.f.chain \in Nat /\ m.f.n \in Nat /\ m.f.base \in Nat
  BY <1>2 DEF Frame
<1>4. PayloadSane(m, own, of)
  BY DEF Core, PayloadsSane
<1>5. sealed \in Nat
  BY Constants DEF ConvTypes
<1> QED
  BY <1>1, <1>2, <1>3, <1>4, <1>5 DEF PayloadSane

(* A root that a device holds.                                             *)
LEMMA RootFacts ==
    ASSUME ConvTypes, NEW own, NEW of, Core(own, of), NEW d \in Device, NEW r \in Roots(conv[d])
    PROVE  LET h == Get(conv[d], r)
           IN  /\ h \in Kept /\ h.s \in Session /\ h.s.root = r /\ r \in Nat /\ r # 0
               /\ Sane(h.s, of, sealed) /\ RootSane(h, d, r, own, of)
               /\ conv[d] # <<>> /\ HeardAt(conv[d]) \in Nat
               /\ r = own[d] \/ r = own[Peer(d)]
<1>1. conv[d] \in Entry /\ Distinct(conv[d])
  BY TransitTypes DEF Core, EntriesSane, EntrySane
<1>2. RootSane(Get(conv[d], r), d, r, own, of)
  BY DEF Core, EntriesSane, EntrySane
<1>3. Sane(Get(conv[d], r).s, of, sealed) /\ (r = own[d] \/ r = own[Peer(d)])
  BY <1>2 DEF RootSane
<1>4. /\ Get(conv[d], r) \in Kept /\ Get(conv[d], r).s \in Session /\ Get(conv[d], r).s.root = r
      /\ r \in Nat /\ conv[d] # <<>> /\ HeardAt(conv[d]) \in Nat
  BY <1>1, HeldFacts
<1>5. r # 0
  BY <1>3, <1>4 DEF Sane
<1> QED
  BY <1>2, <1>3, <1>4, <1>5

(* The same facts under one name, for steps where the record is hidden.    *)
HeldSane(h, d, r, own, of) ==
    /\ h \in Kept /\ h.s \in Session /\ h.s.root = r /\ r \in Nat /\ r # 0
    /\ Sane(h.s, of, sealed) /\ RootSane(h, d, r, own, of) /\ HeardAt(conv[d]) \in Nat

(* A held root is sane in that sense.                                      *)
LEMMA RootIs ==
    ASSUME ConvTypes, NEW own, NEW of, Core(own, of), NEW d \in Device, NEW r \in Roots(conv[d])
    PROVE  HeldSane(Get(conv[d], r), d, r, own, of)
BY RootFacts DEF HeldSane

(* A step that changes nothing the invariant depends on.                   *)
LEMMA CoreKept ==
    ASSUME ConvTypes, NEW own \in [Device -> Nat], NEW of \in [Nat -> Nat], Core(own, of),
           \A d \in Device : SameView(conv[d], conv'[d]),
           Transit' \subseteq Transit, UNCHANGED <<sealed, now, opened>>
    PROVE  Core(own, of)'
<1>1. PayloadsSane(own, of)'
  <2> SUFFICES ASSUME NEW m \in Transit' PROVE PayloadSane(m, own, of)'
    BY DEF PayloadsSane
  <2>1. m \in Transit
    OBVIOUS
  <2>2. m.from \in Device /\ PayloadSane(m, own, of)
    BY <2>1, TransitFacts
  <2>3. Roots(conv'[m.from]) = Roots(conv[m.from])
    BY <2>2 DEF SameView
  <2> QED
    BY <2>2, <2>3 DEF PayloadSane
<1>2. PayloadsUnique'
  BY DEF PayloadsUnique, Core
<1>3. EntriesSane(own, of)'
  <2> SUFFICES ASSUME NEW d \in Device PROVE EntrySane(d, own, of)'
    BY DEF EntriesSane
  <2>1. EntrySane(d, own, of) /\ SameView(conv[d], conv'[d])
    BY DEF Core, EntriesSane
  <2>2. Roots(conv'[d]) = Roots(conv[d]) /\ Distinct(conv'[d])
    BY <2>1 DEF SameView
  <2>3. ASSUME NEW r \in Roots(conv[d]) PROVE RootSane(Get(conv[d], r), d, r, own, of)'
    <3> DEFINE h == Get(conv[d], r)
               k == Get(conv'[d], r)
    <3>1. k.s = h.s /\ k.pending = h.pending /\ k.proven = h.proven
      BY <2>1, <2>3 DEF SameView
    <3>2. RootSane(h, d, r, own, of)
      BY <2>1, <2>3 DEF EntrySane
    <3> HIDE DEF h, k
    <3>3. (OwnRoot(h) => OwnRoot(k)) /\ (HeardRoot(h) => HeardRoot(k))
      BY <3>1, Zenon DEF OwnRoot, HeardRoot
    <3> QED
      BY <3>1, <3>2, <3>3, Zenon DEF RootSane, h, k
  <2>4. ASSUME NEW q \in Roots(conv[d]), NEW r \in Roots(conv[d]), q # r
        PROVE  Get(conv'[d], q).proven /\ (q = own[Peer(d)] => Get(conv'[d], q).accepted)
    BY <2>1, <2>4 DEF EntrySane, SameView
  <2> QED
    BY <2>1, <2>2, <2>3, <2>4 DEF EntrySane
<1>4. RootsLinked(of)'
  <2> SUFFICES ASSUME NEW p \in Device,
                      NEW r \in Roots(conv'[p]) \cap Roots(conv'[Peer(p)])
               PROVE  RootLinked(p, r, of)'
    BY DEF RootsLinked
  <2>1. Peer(p) \in Device
    BY PeerFacts
  <2>2. r \in Roots(conv[p]) /\ r \in Roots(conv[Peer(p)])
    BY <2>1 DEF SameView
  <2>3. /\ Get(conv'[p], r).s = Get(conv[p], r).s
        /\ Get(conv'[Peer(p)], r).s = Get(conv[Peer(p)], r).s
    BY <2>1, <2>2 DEF SameView
  <2>4. HeardAt(conv'[Peer(p)]) = HeardAt(conv[Peer(p)])
    BY <2>1, <2>2, RootFacts DEF SameView
  <2>5. RootLinked(p, r, of)
    BY <2>2 DEF Core, RootsLinked
  <2> QED
    BY <2>3, <2>4, <2>5 DEF RootLinked, Arrives
<1>5. RootsUnheard(own, of)'
  <2> SUFFICES ASSUME NEW x \in Device, own[x] # 0, own[x] \notin Roots(conv'[Peer(x)])
               PROVE  Unheard(x, own, of)'
    BY DEF RootsUnheard, Unheard
  <2>1. own[x] \notin Roots(conv[Peer(x)])
    BY PeerFacts DEF SameView
  <2>2. own[x] \in Roots(conv[x]) /\ Unheard(x, own, of)
    BY DEF Core, EntriesSane, EntrySane, RootsUnheard
  <2>3. Get(conv'[x], own[x]).s = Get(conv[x], own[x]).s
    BY <2>2 DEF SameView
  <2> QED
    BY <2>1, <2>2, <2>3 DEF Unheard
<1>6. RootsOneSided(own, of)'
  <2> SUFFICES ASSUME NEW d \in Device PROVE OneSided(d, own, of)'
    BY DEF RootsOneSided
  <2> DEFINE e == Peer(d)
  <2>0. e \in Device
    BY PeerFacts
  <2> SUFFICES ASSUME own[d] # 0, own[e] # 0, own[e] \notin Roots(conv'[d]),
                      own[d] \in Roots(conv'[e])
               PROVE  OneSided(d, own, of)'
    BY DEF OneSided
  <2>1. own[e] \notin Roots(conv[d]) /\ own[d] \in Roots(conv[e]) /\ own[d] \in Roots(conv[d])
    BY <2>0 DEF SameView, Core, EntriesSane, EntrySane
  <2>2. /\ Get(conv'[e], own[d]).s = Get(conv[e], own[d]).s
        /\ Get(conv'[d], own[d]).s = Get(conv[d], own[d]).s
    BY <2>0, <2>1 DEF SameView
  <2>3. Main(conv'[e]) = Main(conv[e]) /\ HeardAt(conv'[d]) = HeardAt(conv[d])
    BY <2>0, <2>1, RootFacts DEF SameView
  <2>4. OneSided(d, own, of)
    BY DEF Core, RootsOneSided
  <2>5. Older(e, own[e], own[d], of) => Older(e, own[e], own[d], of)'
    BY DEF Older
  <2>6. Overtaken(d, e, own[e], of) => Overtaken(d, e, own[e], of)'
    BY <2>3 DEF Overtaken
  <2> QED
    BY <2>1, <2>2, <2>3, <2>4, <2>5, <2>6 DEF OneSided
<1> QED
  BY <1>1, <1>2, <1>3, <1>4, <1>5, <1>6 DEF Core

(* A payload that opens: the two ends of its root.                         *)
LEMMA OpenedEnds ==
    ASSUME ConvTypes, NEW own \in [Device -> Nat], NEW of \in [Nat -> Nat], Core(own, of),
           NEW m \in Transit, NEW d \in Device, d = Peer(m.from),
           of[m.f.chain] \in Roots(conv[d])
    PROVE  LET r == of[m.f.chain]
               p == Get(conv[m.from], r).s
               q == Get(conv[d], r).s
           IN  /\ p \in Session /\ q \in Session /\ p.root = r /\ q.root = r
               /\ Sane(p, of, sealed) /\ Sane(q, of, sealed)
               /\ Linked(p, q) /\ Flows(p, q, m.f)
               /\ m.id \in opened[d] <=> Spent(q, m.f)
               /\ Spent(q, m.f) => m.at <= HeardAt(conv[d])
<1> DEFINE r == of[m.f.chain]
<1>1. m.from \in Device /\ r \in Roots(conv[m.from])
  BY TransitFacts
<1>2. RootLinked(m.from, r, of)
  BY <1>1 DEF Core, RootsLinked
<1>3. /\ Linked(Get(conv[m.from], r).s, Get(conv[d], r).s)
      /\ Flows(Get(conv[m.from], r).s, Get(conv[d], r).s, m.f)
      /\ Arrives(m, Get(conv[d], r))
  BY <1>2 DEF RootLinked
<1> HIDE DEF r
<1>4. /\ Get(conv[m.from], r).s \in Session /\ Get(conv[m.from], r).s.root = r
      /\ Sane(Get(conv[m.from], r).s, of, sealed)
  BY <1>1, RootFacts
<1>5. /\ Get(conv[d], r).s \in Session /\ Get(conv[d], r).s.root = r
      /\ Sane(Get(conv[d], r).s, of, sealed)
  BY RootFacts DEF r
<1> QED
  BY <1>3, <1>4, <1>5 DEF Arrives, r

(* What becomes of the root it opens under.                                *)
LEMMA OpenedRoot ==
    ASSUME ConvTypes, NEW own \in [Device -> Nat], NEW of \in [Nat -> Nat], Core(own, of),
           NEW m \in Transit, NEW d \in Device, d = Peer(m.from), NEW known \in BOOLEAN,
           of[m.f.chain] \in Roots(conv[d]), Opens(Get(conv[d], of[m.f.chain]).s, m.f),
           NEW k, k.s = Received(Get(conv[d], of[m.f.chain]).s, m.f), k.pending = FALSE,
           k.proven <=> Get(conv[d], of[m.f.chain]).proven \/ known
    PROVE  RootSane(k, d, of[m.f.chain], own, of) /\ m.id \notin opened[d]
<1> DEFINE r == of[m.f.chain]
           h == Get(conv[d], r)
           g == Get(conv[m.from], r)
           f == m.f
           p == g.s
           q == h.s
           u == Received(q, f)
<1>1. /\ p \in Session /\ q \in Session /\ p.root = r /\ q.root = r
      /\ Sane(p, of, sealed) /\ Sane(q, of, sealed)
      /\ Linked(p, q) /\ Flows(p, q, f)
      /\ m.id \in opened[d] <=> Spent(q, f)
  BY OpenedEnds
<1>2. /\ m.from \in Device /\ f \in Frame /\ PayloadSane(m, own, of) /\ f.chain \in Nat
      /\ f.n \in Nat /\ r \in Nat /\ r # 0 /\ r \in Roots(conv[m.from]) /\ m.id \in 1..sealed
      /\ f.base \in Nat
  BY TransitFacts
<1>3. f.chain # 0 /\ f.chain <= m.id /\ m.id <= sealed /\ f.base < f.chain /\ r <= f.chain
  BY <1>2 DEF PayloadSane
<1>4. sealed \in Nat
  BY Constants DEF ConvTypes
<1>5. Peer(d) = m.from
  BY <1>2, PeerFacts
<1>6. RootSane(h, d, r, own, of) /\ RootSane(g, m.from, r, own, of)
  <2>1. \A e \in Device : \A y \in Roots(conv[e]) : RootSane(Get(conv[e], y), e, y, own, of)
    BY DEF Core, EntriesSane, EntrySane
  <2> QED
    BY <1>2, <2>1
<1>7. k.s = u /\ k.pending = FALSE /\ (k.proven <=> h.proven \/ known) /\ Opens(q, f)
  OBVIOUS
<1>8. /\ q.recv \in Nat /\ q.send \in Nat /\ q.root \in Nat /\ q.nr \in Nat /\ q.pn \in Nat
      /\ p.recv \in Nat /\ p.pn \in Nat
  BY <1>1 DEF Session
<1> HIDE DEF r, h, g, f
<1>9. m.id \notin opened[d]
  BY <1>1, <1>3, <1>4, <1>7, OpensUnspent, <1>2
<1>10. Banked(q, f) => q.recv # 0
  <2>1. <<f.chain, f.n>>[1] = f.chain
    OBVIOUS
  <2> QED
    BY <1>1, <1>2, <1>3, <1>8, <2>1 DEF Sane, Banked
<1>11. OnChain(q, f) => q.recv # 0
  BY <1>3 DEF OnChain
<1>12. ASSUME ~Banked(q, f), ~OnChain(q, f)
       PROVE  /\ q.send # 0 /\ q.recv < f.chain /\ f.pn = p.pn /\ p.recv = q.send
  <2>1. Answers(q, f)
    BY <1>7, <1>12 DEF Opens, TurnsEpoch
  <2>2. q.recv < f.chain
    BY <1>1, <1>2, <1>3, <1>4, <2>1, TurnIsLater
  <2> QED
    BY <1>1, <1>2, <1>3, <1>4, <2>1, <2>2, TurnIsCurrent
<1>13. ASSUME q.recv = 0 PROVE f.pn = 0
  <2>1. q.send # 0 /\ f.pn = p.pn /\ p.recv = q.send
    BY <1>10, <1>11, <1>12, <1>13
  <2>2. r = own[d] /\ q.send = r
    BY <1>1, <1>6, <1>13 DEF RootSane, HeardRoot, OwnRoot
  <2>3. r = own[Peer(m.from)]
    BY <2>2
  <2> QED
    BY <1>1, <1>6, <2>1, <2>2, <2>3 DEF RootSane, HeardRoot
<1>14. Sane(u, of, sealed)
  <2>1. of[f.chain] = q.root /\ q.root <= f.chain /\ f.chain <= sealed
    BY <1>1, <1>2, <1>3, <1>4 DEF r, f
  <2> HIDE DEF u
  <2> QED
    BY <1>1, <1>2, <1>3, <1>4, <1>7, <1>13, <2>1, ReceivedSane DEF u
<1>15. CASE Banked(q, f) \/ OnChain(q, f)
  <2>1. u.recv = q.recv /\ u.send = q.send /\ u.pn = q.pn /\ u.root = q.root
    BY <1>1, <1>2, <1>15, ReceivedBanked, ReceivedOnChain
  <2>2. u.recv # 0
    BY <1>10, <1>11, <1>15, <2>1
  <2> HIDE DEF u, p, q
  <2>3. r = own[d] => OwnRoot(k)
    BY <1>6, <1>7, <2>2 DEF RootSane, OwnRoot
  <2>4. r = own[Peer(d)] => HeardRoot(k)
    BY <1>6, <1>7, <2>1, <2>2 DEF RootSane, HeardRoot, q
  <2>5. RootSane(k, d, r, own, of)
    BY <1>6, <1>7, <1>14, <2>3, <2>4 DEF RootSane
  <2> QED
    BY <1>9, <2>5 DEF r
<1>16. CASE ~Banked(q, f) /\ ~OnChain(q, f)
  <2>1. u.recv = f.chain /\ u.root = q.root
    BY <1>1, <1>2, <1>16, ReceivedTurn
  <2>2. u.recv # 0 /\ q.send # 0 /\ q.recv < f.chain
    BY <1>3, <1>12, <1>16, <2>1
  <2>3. q.recv # 0 => q.root <= q.recv
    BY <1>1 DEF Sane
  <2> HIDE DEF u, p, q
  <2>4. r = own[d] => OwnRoot(k)
    BY <1>6, <1>7, <2>2 DEF RootSane, OwnRoot
  <2>5. ASSUME r = own[Peer(d)] PROVE HeardRoot(k)
    <3>1. HeardRoot(h)
      BY <1>6, <2>5 DEF RootSane
    <3>2. h.proven /\ q.recv # 0
      BY <2>2, <3>1 DEF HeardRoot, q
    <3>3. u.recv # u.root
      BY <1>2, <1>8, <2>1, <2>2, <2>3, <3>2
    <3> QED
      BY <1>7, <2>2, <3>2, <3>3 DEF HeardRoot
  <2>6. RootSane(k, d, r, own, of)
    BY <1>6, <1>7, <1>14, <2>4, <2>5 DEF RootSane
  <2> QED
    BY <1>9, <2>6 DEF r
<1> QED
  BY <1>15, <1>16

(* A payload opens under a root the device holds.                          *)
LEMMA CoreOpened ==
    ASSUME ConvTypes, conv' \in [Device -> Entry],
           NEW own \in [Device -> Nat], NEW of \in [Nat -> Nat], Core(own, of),
           NEW m \in Transit, NEW d \in Device, d = Peer(m.from), NEW known \in BOOLEAN,
           OpenedView(conv[d], conv'[d], m, known, of[m.f.chain]),
           \A e \in Device : e # d => conv'[e] = conv[e],
           Transit' \subseteq Transit, UNCHANGED <<sealed, now>>,
           opened' = [opened EXCEPT ![d] = @ \cup {m.id}]
    PROVE  Core(own, of)' /\ m.id \notin opened[d]
<1> DEFINE r == of[m.f.chain]
           x == m.from
           c == conv[d]
           e == conv'[d]
           f == m.f
           p == Get(conv[x], r).s
           q == Get(c, r).s
           u == Received(q, f)
<1>1. /\ r \in Roots(c) /\ Opens(q, f) /\ Roots(e) = Roots(c) /\ Distinct(e)
      /\ Main(e) = Main(c) \/ (Main(e) = r /\ ~m.prologue)
      /\ HeardAt(e) >= HeardAt(c) /\ HeardAt(e) >= m.at
      /\ Get(e, r).s = u /\ Get(e, r).pending = FALSE /\ Get(e, r).accepted = Get(c, r).accepted
      /\ Get(e, r).proven <=> Get(c, r).proven \/ known
  BY DEF OpenedView
<1>2. \A y \in Roots(c) : y # r =>
         /\ Get(e, y).s = Get(c, y).s /\ Get(e, y).pending = Get(c, y).pending
         /\ Get(e, y).proven = Get(c, y).proven /\ Get(e, y).accepted = Get(c, y).accepted
  BY DEF OpenedView
<1>3. /\ x \in Device /\ x # d /\ Peer(d) = x /\ Peer(x) = d /\ conv'[x] = conv[x]
      /\ \A y \in Device : y = d \/ y = x
  <2>1. x \in Device
    BY TransitFacts
  <2> QED
    BY <2>1, PeerFacts
<1>4. /\ m \in Payload /\ f \in Frame /\ m.id \in Nat /\ m.at \in Nat /\ PayloadSane(m, own, of)
      /\ f.chain \in Nat /\ f.n \in Nat /\ r \in Nat /\ r # 0 /\ r \in Roots(conv[x])
      /\ m.id \in 1..sealed
  BY TransitFacts
<1>5. /\ p \in Session /\ q \in Session /\ p.root = r /\ q.root = r
      /\ Sane(p, of, sealed) /\ Sane(q, of, sealed) /\ Linked(p, q) /\ Flows(p, q, f)
  BY <1>1, OpenedEnds
<1>6. RootSane(Get(e, r), d, r, own, of) /\ m.id \notin opened[d]
  BY <1>1, OpenedRoot
<1>7. sealed \in Nat /\ opened \in [Device -> SUBSET Nat]
  BY Constants DEF ConvTypes, HistoryTypes
<1>8. opened'[d] = opened[d] \cup {m.id} /\ opened'[x] = opened[x]
  BY <1>3, <1>7
<1>9. HeardAt(c) \in Nat /\ HeardAt(conv[x]) \in Nat
  BY <1>1, <1>3, <1>4, RootFacts
<1>10. ASSUME NEW g \in Transit
       PROVE  /\ g.from \in Device /\ g.f \in Frame /\ g.f.chain \in Nat /\ g.f.chain # 0
              /\ of[g.f.chain] \in Roots(conv[g.from]) /\ g.at \in Nat
              /\ g.id = m.id => g = m
              /\ g.f.chain = f.chain /\ g.f.n = f.n => g = m
  <2>1. g.from \in Device /\ g.f \in Frame /\ g.f.chain \in Nat /\ PayloadSane(g, own, of) /\ g.at \in Nat
    BY TransitFacts
  <2>2. g.f.chain # 0 /\ of[g.f.chain] \in Roots(conv[g.from])
    BY <2>1 DEF PayloadSane
  <2>3. (g.id = m.id => g = m) /\ (g.f.chain = f.chain /\ g.f.n = f.n => g = m)
    BY DEF Core, PayloadsUnique
  <2> QED
    BY <2>1, <2>2, <2>3
<1>r. r = of[m.f.chain] /\ f = m.f /\ x = m.from
  OBVIOUS
<1> HIDE DEF r, x, f, c, e, p, q, u
<1>c. c = conv[d] /\ e = conv'[d] /\ p = Get(conv[x], r).s /\ q = Get(c, r).s /\ u = Received(q, f)
  BY DEF c, e, p, q, u
<1>n. opened'[d] = opened[d] \cup {m.id} /\ opened'[x] = opened[x]
  BY <1>8
<1>11. PayloadsSane(own, of)'
  <2> SUFFICES ASSUME NEW g \in Transit' PROVE PayloadSane(g, own, of)'
    BY DEF PayloadsSane
  <2>1. g \in Transit
    OBVIOUS
  <2>2. g.from \in Device /\ PayloadSane(g, own, of)
    BY <2>1, TransitFacts
  <2>3. Roots(conv'[g.from]) = Roots(conv[g.from])
    BY <1>1, <1>3, <1>c, <2>2
  <2> QED
    BY <2>2, <2>3 DEF PayloadSane
<1>12. PayloadsUnique'
  BY DEF PayloadsUnique, Core
<1>13. EntriesSane(own, of)'
  <2>1. EntrySane(d, own, of) /\ EntrySane(x, own, of)
    BY <1>3 DEF Core, EntriesSane
  <2>2. EntrySane(x, own, of)'
    <3>1. \A y, h : RootSane(h, x, y, own, of) => RootSane(h, x, y, own, of)'
      BY DEF RootSane
    <3> QED
      BY <1>3, <1>n, <2>1, <3>1 DEF EntrySane
  <2>3. ASSUME NEW y \in Roots(c) PROVE RootSane(Get(e, y), d, y, own, of)
    <3>1. CASE y = r
      BY <1>6, <3>1
    <3>2. CASE y # r
      <4> DEFINE h == Get(c, y)
                 k == Get(e, y)
      <4>1. k.s = h.s /\ k.pending = h.pending /\ k.proven = h.proven
        BY <1>2, <3>2
      <4>2. RootSane(h, d, y, own, of)
        BY <1>c, <2>1 DEF EntrySane
      <4> HIDE DEF h, k
      <4>3. (OwnRoot(h) => OwnRoot(k)) /\ (HeardRoot(h) => HeardRoot(k))
        BY <4>1, Zenon DEF OwnRoot, HeardRoot
      <4> QED
        BY <4>1, <4>2, <4>3, Zenon DEF RootSane, h, k
    <3> QED
      BY <3>1, <3>2
  <2>4. ASSUME NEW y \in Roots(c), NEW z \in Roots(c), y # z
        PROVE  Get(e, y).proven /\ (y = own[Peer(d)] => Get(e, y).accepted)
    <3>1. Get(c, y).proven /\ (y = own[Peer(d)] => Get(c, y).accepted)
      BY <1>c, <2>1, <2>4 DEF EntrySane
    <3> QED
      BY <1>1, <1>2, <3>1
  <2>5. EntrySane(d, own, of)'
    <3>1. opened'[d] \subseteq 1..sealed
      BY <1>4, <1>n, <2>1 DEF EntrySane
    <3>2. Roots(conv'[d]) = Roots(conv[d]) /\ Distinct(conv'[d])
      BY <1>1, <1>c
    <3> QED
      <4>1. \A y, h : RootSane(h, d, y, own, of) => RootSane(h, d, y, own, of)'
        BY DEF RootSane
      <4>2. \A y \in Roots(conv'[d]) : RootSane(Get(conv[d], y), d, y, own, of)'
        BY <1>c, <2>3, <3>2, <4>1
      <4> QED
        BY <1>c, <2>1, <2>4, <3>1, <3>2, <4>2 DEF EntrySane
  <2> QED
    BY <1>3, <2>2, <2>5 DEF EntriesSane
<1>14. RootsLinked(of)'
  <2> SUFFICES ASSUME NEW y \in Device,
                      NEW z \in Roots(conv'[y]) \cap Roots(conv'[Peer(y)])
               PROVE  RootLinked(y, z, of)'
    BY DEF RootsLinked
  <2>1. z \in Roots(conv[y]) /\ z \in Roots(conv[Peer(y)]) /\ RootLinked(y, z, of)
    BY <1>1, <1>3, <1>c DEF Core, RootsLinked
  <2>2. CASE y = x /\ z = r
    <3>1. /\ Linked(p, u)
          /\ \A g \in Frame : Flows(p, q, g) =>
                /\ Flows(p, u, g)
                /\ Spent(u, g) <=> Spent(q, g) \/ (g.chain = f.chain /\ g.n = f.n)
      <4>1. f.base < f.chain
        BY <1>4, <1>r DEF PayloadSane
      <4> QED
        BY <1>1, <1>4, <1>5, <1>7, <1>c, <4>1, LinkReceived
    <3>2. ASSUME NEW g \in Transit, g.from = x, of[g.f.chain] = r
          PROVE  Flows(p, u, g.f) /\ (g.id \in opened'[d] <=> Spent(u, g.f))
                 /\ (Spent(u, g.f) => g.at <= HeardAt(e))
      <4>1. Flows(p, q, g.f) /\ (g.id \in opened[d] <=> Spent(q, g.f))
            /\ (Spent(q, g.f) => g.at <= HeardAt(c))
        BY <1>3, <1>c, <2>1, <2>2, <3>2 DEF RootLinked, Arrives
      <4>2. Flows(p, u, g.f) /\ (Spent(u, g.f) <=> Spent(q, g.f) \/ g = m)
        BY <1>10, <1>r, <3>1, <4>1
      <4>3. g.id \in opened'[d] <=> g.id \in opened[d] \/ g = m
        BY <1>10, <1>n
      <4>4. g.at \in Nat /\ HeardAt(c) \in Nat
        BY <1>9, <1>10
      <4>5. g.at <= HeardAt(c) => g.at <= HeardAt(e)
        <5>1. HeardAt(e) \in Nat
          BY <1>1, <1>c, HeldFacts
        <5> QED
          BY <1>1, <4>4, <5>1
      <4>6. m.at <= HeardAt(e)
        BY <1>1
      <4> QED
        BY <4>1, <4>2, <4>3, <4>5, <4>6
    <3> QED
      BY <1>1, <1>3, <1>c, <2>2, <3>1, <3>2 DEF RootLinked, Arrives
  <2>3. CASE y = d /\ z = r
    <3>1. Linked(u, p) /\ \A g \in Frame : g.chain # 0 /\ Flows(q, p, g) => Flows(u, p, g)
      <4>1. f.base < f.chain
        BY <1>4, <1>r DEF PayloadSane
      <4>2. Linked(p, u) /\ \A g \in Frame : g.chain # 0 /\ Flows(q, p, g) => Flows(u, p, g)
        BY <1>1, <1>4, <1>5, <1>7, <1>c, <4>1, LinkReceived
      <4> QED
        BY <4>2 DEF Linked
    <3>2. ASSUME NEW g \in Transit, g.from = d, of[g.f.chain] = r
          PROVE  Flows(u, p, g.f) /\ (g.id \in opened'[x] <=> Spent(p, g.f))
                 /\ (Spent(p, g.f) => g.at <= HeardAt(conv[x]))
      <4>1. Flows(q, p, g.f) /\ (g.id \in opened[x] <=> Spent(p, g.f))
            /\ (Spent(p, g.f) => g.at <= HeardAt(conv[x]))
        BY <1>3, <1>c, <2>1, <2>3, <3>2 DEF RootLinked, Arrives
      <4> QED
        BY <1>10, <1>n, <3>1, <4>1
    <3> QED
      BY <1>1, <1>3, <1>c, <2>3, <3>1, <3>2 DEF RootLinked, Arrives
  <2>4. CASE z # r
    <3> DEFINE w == Peer(y)
    <3>1. w \in Device /\ ((y = x /\ w = d) \/ (y = d /\ w = x))
      BY <1>3
    <3>2. Get(conv'[y], z).s = Get(conv[y], z).s /\ Get(conv'[w], z).s = Get(conv[w], z).s
      BY <1>2, <1>3, <1>c, <2>1, <2>4
    <3>3. ASSUME NEW g \in Transit, g.from = y, of[g.f.chain] = z
          PROVE  /\ g.id \in opened'[w] <=> g.id \in opened[w]
                 /\ g.at <= HeardAt(conv[w]) => g.at <= HeardAt(conv'[w])
      <4>1. g.id # m.id
        BY <1>10, <1>r, <2>4, <3>3
      <4>2. HeardAt(conv'[w]) \in Nat /\ g.at \in Nat /\ HeardAt(conv[w]) \in Nat
        BY <1>1, <1>3, <1>9, <1>10, <1>c, HeldFacts
      <4>3. HeardAt(conv'[w]) >= HeardAt(conv[w])
        BY <1>1, <1>3, <1>c, <4>2
      <4> QED
        BY <1>3, <1>n, <4>1, <4>2, <4>3
    <3> HIDE DEF w
    <3>4. w = Peer(y)
      BY DEF w
    <3> QED
      BY <2>1, <3>2, <3>3, <3>4 DEF RootLinked, Arrives
  <2> QED
    BY <1>3, <2>2, <2>3, <2>4
<1>15. RootsUnheard(own, of)'
  <2> SUFFICES ASSUME NEW y \in Device, own[y] # 0, own[y] \notin Roots(conv'[Peer(y)])
               PROVE  Unheard(y, own, of)'
    BY DEF RootsUnheard, Unheard
  <2>1. own[y] \notin Roots(conv[Peer(y)]) /\ own[y] # r
    BY <1>1, <1>3, <1>4, <1>c
  <2>2. own[y] \in Roots(conv[y]) /\ Unheard(y, own, of)
    BY DEF Core, EntriesSane, EntrySane, RootsUnheard
  <2>3. Get(conv'[y], own[y]).s = Get(conv[y], own[y]).s
    BY <1>2, <1>3, <1>c, <2>1, <2>2
  <2>4. ASSUME NEW g \in Transit, of[g.f.chain] = own[y]
        PROVE  g.id \notin opened[Peer(y)] => g.id \notin opened'[Peer(y)]
    <3>1. g.id # m.id
      BY <1>10, <1>r, <2>1, <2>4
    <3> QED
      BY <1>3, <1>n, <3>1
  <2> QED
    BY <2>1, <2>2, <2>3, <2>4 DEF Unheard
<1>16. OneSided(d, own, of)'
  <2> SUFFICES ASSUME own[d] # 0, own[x] # 0, own[x] \notin Roots(conv'[d]),
                      own[d] \in Roots(conv'[x])
               PROVE  OneSided(d, own, of)'
    BY <1>3 DEF OneSided
  <2>1. own[x] \notin Roots(c) /\ own[d] \in Roots(conv[x])
    BY <1>1, <1>3, <1>c
  <2>2. r = own[d]
    <3>1. r \in Roots(conv[d])
      BY <1>1, <1>c
    <3>2. RootSane(Get(conv[d], r), d, r, own, of)
      BY <3>1, RootFacts
    <3> QED
      BY <1>1, <1>3, <2>1, <3>2 DEF RootSane
  <2>3. p.send # 0 \/ q.recv # 0
    <3>1. q.recv \in Nat
      BY <1>5 DEF Session
    <3>2. f.chain # 0
      BY <1>4, <1>r DEF PayloadSane
    <3> QED
      BY <1>4, <1>5, <3>1, <3>2 DEF Flows
  <2>4. Main(conv[x]) = own[d] /\ Older(x, own[x], own[d], of)
    BY <1>3, <1>c, <2>1, <2>2, <2>3 DEF Core, RootsOneSided, OneSided
  <2>5. Older(x, own[x], own[d], of)'
    BY <2>4 DEF Older
  <2>6. Overtaken(d, x, own[x], of)'
    <3> SUFFICES ASSUME NEW g \in Transit', g.from = x, of[g.f.chain] = own[x]
                 PROVE  g.at <= HeardAt(conv'[d]) /\ \E i \in opened'[d] : g.id < i
      BY DEF Overtaken
    <3>1. g \in Transit
      OBVIOUS
    <3>2. g.id < m.id /\ g.at <= m.at
      BY <1>r, <2>2, <2>4, <3>1 DEF Older
    <3>3. HeardAt(e) \in Nat /\ g.at \in Nat
      BY <1>1, <1>10, <1>c, <3>1, HeldFacts
    <3>4. g.at <= HeardAt(e)
      BY <1>1, <1>4, <3>2, <3>3
    <3> QED
      BY <1>c, <1>n, <3>2, <3>4
  <2> QED
    BY <1>3, <2>4, <2>5, <2>6 DEF OneSided
<1>17. OneSided(x, own, of)'
  <2> SUFFICES ASSUME own[x] # 0, own[d] # 0, own[d] \notin Roots(conv'[x]),
                      own[x] \in Roots(conv'[d])
               PROVE  OneSided(x, own, of)'
    BY <1>3 DEF OneSided
  <2>1. own[d] \notin Roots(conv[x]) /\ own[x] \in Roots(c)
    BY <1>1, <1>3, <1>c
  <2>2. r = own[x]
    BY <1>3, <1>4, <2>1, RootFacts
  <2>3. /\ Get(conv[x], own[x]).s = p /\ Get(conv'[x], own[x]).s = p
        /\ Get(conv[d], own[x]).s = q /\ Get(conv'[d], own[x]).s = u
    BY <1>1, <1>3, <1>c, <2>2
  <2>4. OneSided(x, own, of)
    BY <1>3 DEF Core, RootsOneSided
  <2>5. CASE Main(c) = own[d] /\ q.send = 0 /\ p.recv = 0
    <3>1. q.recv = p.send
      BY <1>5, <2>5 DEF Linked, Leads
    <3>2. p.send = r
      <4>1. RootSane(Get(conv[x], r), x, r, own, of) /\ Get(conv[x], r).s = p
        BY <1>3, <1>4, <1>c, RootFacts
      <4>2. OwnRoot(Get(conv[x], r))
        BY <2>2, <4>1 DEF RootSane
      <4> QED
        BY <1>5, <2>5, <4>1, <4>2 DEF OwnRoot
    <3>3. f.chain = r
      <4>1. r <= f.chain
        BY <1>4, <1>r DEF PayloadSane
      <4> QED
        BY <1>4, <1>5, <3>1, <3>2, <4>1 DEF Flows
    <3>4. m.prologue
      BY <1>4, <1>r, <3>3 DEF PayloadSane
    <3>5. ~Answers(q, f)
      BY <3>1, <3>2, <3>3 DEF Answers
    <3>6. Banked(q, f) \/ OnChain(q, f)
      BY <1>1, <3>5 DEF Opens, TurnsEpoch
    <3>7. u.send = 0
      BY <1>4, <1>5, <1>c, <2>5, <3>6, ReceivedBanked, ReceivedOnChain
    <3> QED
      BY <1>1, <1>3, <1>c, <2>3, <2>5, <3>4, <3>7 DEF OneSided
  <2>6. CASE /\ Main(c) = own[x] /\ Older(d, own[d], own[x], of)
             /\ p.recv # 0 => Overtaken(x, d, own[d], of)
    <3>1. Main(e) = own[x]
      BY <1>1, <2>2, <2>6
    <3>2. Older(d, own[d], own[x], of)'
      BY <2>6 DEF Older
    <3>3. p.recv # 0 => Overtaken(x, d, own[d], of)'
      BY <1>3, <1>n, <2>6 DEF Overtaken
    <3> QED
      BY <1>3, <1>c, <2>3, <3>1, <3>2, <3>3 DEF OneSided
  <2> QED
    BY <1>3, <1>c, <2>1, <2>3, <2>4, <2>5, <2>6 DEF OneSided
<1>18. RootsOneSided(own, of)'
  BY <1>3, <1>16, <1>17 DEF RootsOneSided
<1> QED
  BY <1>6, <1>11, <1>12, <1>13, <1>14, <1>15, <1>18 DEF Core

\* Entry e is c with the root that prologue m begins.
AcceptedView(c, e, m) ==
    /\ Roots(e) = Roots(c) \cup {m.f.chain} /\ Distinct(e) /\ Main(e) \in Roots(e)
    /\ HeardAt(e) >= m.at /\ (c # <<>> => HeardAt(e) >= HeardAt(c))
    /\ LET k == Get(e, m.f.chain)
       IN  /\ k.s = Responder(m.f) /\ k.pending = FALSE /\ k.accepted = TRUE
           /\ c # <<>> => k.proven = TRUE
    /\ \A q \in Roots(c) :
          LET h == Get(c, q)
              k == Get(e, q)
          IN  k.s = h.s /\ k.pending = h.pending /\ k.proven = h.proven

(* A prologue begins a root that its receiver did not hold.                *)
LEMMA CoreAccepted ==
    ASSUME ConvTypes, conv' \in [Device -> Entry],
           NEW own \in [Device -> Nat], NEW of \in [Nat -> Nat], Core(own, of),
           NEW m \in Transit, NEW d \in Device, d = Peer(m.from), m.prologue,
           m.f.chain \notin Roots(conv[d]), AcceptedView(conv[d], conv'[d], m),
           \A e \in Device : e # d => conv'[e] = conv[e],
           Transit' \subseteq Transit, UNCHANGED <<sealed, now>>,
           opened' = [opened EXCEPT ![d] = @ \cup {m.id}]
    PROVE  Core(own, of)' /\ m.id \notin opened[d]
<1> DEFINE x == m.from
           f == m.f
           r == f.chain
           c == conv[d]
           e == conv'[d]
           a == Get(conv[x], r)
           b == Get(e, r)
<1>1. /\ Roots(e) = Roots(c) \cup {r} /\ Distinct(e) /\ Main(e) \in Roots(e)
      /\ HeardAt(e) >= m.at /\ (c # <<>> => HeardAt(e) >= HeardAt(c))
      /\ b.s = Responder(f) /\ b.pending = FALSE /\ b.accepted = TRUE
      /\ c # <<>> => b.proven = TRUE
  BY DEF AcceptedView
<1>2. \A q \in Roots(c) :
         /\ Get(e, q).s = Get(c, q).s /\ Get(e, q).pending = Get(c, q).pending
         /\ Get(e, q).proven = Get(c, q).proven
  BY DEF AcceptedView
<1>3. /\ x \in Device /\ x # d /\ Peer(d) = x /\ Peer(x) = d /\ conv'[x] = conv[x]
      /\ \A y \in Device : y = d \/ y = x
  <2>1. x \in Device
    BY TransitFacts
  <2> QED
    BY <2>1, PeerFacts
<1>4. /\ m \in Payload /\ f \in Frame /\ m.id \in Nat /\ m.at \in Nat /\ PayloadSane(m, own, of)
      /\ r \in Nat /\ f.n \in Nat /\ m.id \in 1..sealed
  BY TransitFacts
<1>5. of[r] = r /\ r = own[x] /\ r # 0 /\ r \in Roots(conv[x])
  BY <1>4 DEF PayloadSane
<1>6. sealed \in Nat /\ opened \in [Device -> SUBSET Nat]
  BY Constants DEF ConvTypes, HistoryTypes
<1>7. opened'[d] = opened[d] \cup {m.id} /\ opened'[x] = opened[x]
  BY <1>3, <1>6
<1>8. /\ a.s \in Session /\ a.s.root = r /\ Sane(a.s, of, sealed) /\ RootSane(a, x, r, own, of)
      /\ HeardAt(conv[x]) \in Nat
  <2>1. HeldSane(Get(conv[x], r), x, r, own, of)
    <3> HIDE DEF r, x
    <3> QED
      BY <1>3, <1>5, RootIs
  <2> QED
    BY <2>1 DEF HeldSane
<1>9. /\ a.s.recv = 0
      /\ \A g \in Transit : of[g.f.chain] = r =>
            g.f.chain = r /\ g.f.n < a.s.ns /\ g.f.pn = a.s.pn /\ g.id \notin opened[d]
  <2>1. Unheard(x, own, of)
    BY <1>3 DEF Core, RootsUnheard
  <2> QED
    BY <1>3, <1>5, <2>1 DEF Unheard
<1>10. a.s.send = r /\ own[d] # r
  <2>1. OwnRoot(a)
    BY <1>5, <1>8 DEF RootSane
  <2>2. own[x] # own[Peer(x)]
    BY <1>3, <1>5 DEF Core, EntriesSane, EntrySane
  <2> QED
    BY <1>3, <1>5, <1>8, <1>9, <2>1, <2>2 DEF OwnRoot
<1>11. ASSUME NEW g \in Transit
       PROVE  /\ g.from \in Device /\ g.f \in Frame /\ g.f.chain \in Nat /\ g.at \in Nat
              /\ of[g.f.chain] \in Roots(conv[g.from])
              /\ g.f.chain = r => g.f.base = 0
              /\ g.id = m.id => g = m
              /\ g.f.chain = f.chain /\ g.f.n = f.n => g = m
  <2>1. g.from \in Device /\ g.f \in Frame /\ g.f.chain \in Nat /\ PayloadSane(g, own, of) /\ g.at \in Nat
    BY TransitFacts
  <2>2. of[g.f.chain] \in Roots(conv[g.from]) /\ (g.f.chain = r => g.f.base = 0)
    BY <1>5, <2>1 DEF PayloadSane
  <2>3. (g.id = m.id => g = m) /\ (g.f.chain = f.chain /\ g.f.n = f.n => g = m)
    BY DEF Core, PayloadsUnique
  <2> QED
    BY <2>1, <2>2, <2>3
<1>12. /\ Sane(b.s, of, sealed) /\ Linked(a.s, b.s) /\ b.s.send = 0 /\ b.s.pn = 0
       /\ b.s.recv = r /\ b.s.root = r
       /\ \A g \in Frame :
             g.chain = r /\ g.base = 0 /\ g.n < a.s.ns /\ g.pn = a.s.pn =>
                Flows(a.s, b.s, g) /\ (Spent(b.s, g) <=> g.n = f.n)
  <2>1. f.n < a.s.ns
    BY <1>5, <1>9
  <2>2. /\ Sane(Responder(f), of, sealed) /\ Linked(a.s, Responder(f))
        /\ \A g \in Frame :
             g.chain = a.s.root /\ g.base = 0 /\ g.n < a.s.ns /\ g.pn = a.s.pn =>
                Flows(a.s, Responder(f), g) /\ (Spent(Responder(f), g) <=> g.n = f.n)
    BY <1>4, <1>6, <1>8, <1>9, <1>10, <2>1, LinkAccepted
  <2>3. Responder(f).send = 0 /\ Responder(f).pn = 0 /\ Responder(f).recv = r /\ Responder(f).root = r
    BY <1>4, ResponderFacts
  <2> QED
    BY <1>1, <1>8, <2>2, <2>3
<1>13. \A q \in Roots(c) : q = own[d]
  <2> SUFFICES ASSUME NEW q \in Roots(c) PROVE q = own[d]
    OBVIOUS
  <2>1. RootSane(Get(c, q), d, q, own, of)
    BY RootFacts
  <2> QED
    BY <1>3, <1>5, <2>1 DEF RootSane
<1>14. HeardAt(e) \in Nat
  <2>1. e \in Entry /\ r \in Roots(e)
    BY <1>1
  <2> QED
    BY <1>1, <2>1, HeldFacts
<1>15. c # <<>> => HeardAt(c) \in Nat
  <2>1. c \in Entry /\ Distinct(c)
    BY <1>3, TransitTypes DEF Core, EntriesSane, EntrySane
  <2> QED
    BY <2>1, HeldFacts
<1>16. Roots(c) # {} => c # <<>>
  BY EntryRoots
<1>r. r = m.f.chain /\ f = m.f /\ x = m.from
  OBVIOUS
<1> HIDE DEF r, x, f, c, e, a, b
<1>c. c = conv[d] /\ e = conv'[d] /\ a = Get(conv[x], r) /\ b = Get(e, r)
  BY DEF c, e, a, b
<1>n. opened'[d] = opened[d] \cup {m.id} /\ opened'[x] = opened[x]
  BY <1>7
<1>17. PayloadsSane(own, of)'
  <2> SUFFICES ASSUME NEW g \in Transit' PROVE PayloadSane(g, own, of)'
    BY DEF PayloadsSane
  <2>1. g \in Transit
    OBVIOUS
  <2>2. g.from \in Device /\ PayloadSane(g, own, of)
    BY <2>1, TransitFacts
  <2>3. Roots(conv[g.from]) \subseteq Roots(conv'[g.from])
    BY <1>1, <1>3, <1>c, <2>2
  <2> QED
    BY <2>2, <2>3 DEF PayloadSane
<1>18. PayloadsUnique'
  BY DEF PayloadsUnique, Core
<1>19. EntriesSane(own, of)'
  <2>1. EntrySane(d, own, of) /\ EntrySane(x, own, of)
    BY <1>3 DEF Core, EntriesSane
  <2>0. \A y, h, z : RootSane(h, z, y, own, of) => RootSane(h, z, y, own, of)'
    BY DEF RootSane
  <2>2. EntrySane(x, own, of)'
    BY <1>3, <1>n, <2>0, <2>1 DEF EntrySane
  <2>3. ASSUME NEW y \in Roots(e) PROVE RootSane(Get(e, y), d, y, own, of)
    <3>1. CASE y = r
      <4>1. HeardRoot(b)
        BY <1>1, <1>5, <1>12 DEF HeardRoot
      <4> QED
        BY <1>3, <1>5, <1>10, <1>12, <1>c, <3>1, <4>1 DEF RootSane
    <3>2. CASE y # r
      <4> DEFINE h == Get(c, y)
                 k == Get(e, y)
      <4>0. y \in Roots(c)
        BY <1>1, <3>2
      <4>1. k.s = h.s /\ k.pending = h.pending /\ k.proven = h.proven
        BY <1>2, <4>0
      <4>2. RootSane(h, d, y, own, of)
        BY <1>c, <2>1, <4>0 DEF EntrySane
      <4> HIDE DEF h, k
      <4>3. (OwnRoot(h) => OwnRoot(k)) /\ (HeardRoot(h) => HeardRoot(k))
        BY <4>1, Zenon DEF OwnRoot, HeardRoot
      <4> QED
        BY <4>1, <4>2, <4>3, Zenon DEF RootSane, h, k
    <3> QED
      BY <3>1, <3>2
  <2>4. ASSUME NEW y \in Roots(e), NEW z \in Roots(e), y # z
        PROVE  Get(e, y).proven /\ (y = own[Peer(d)] => Get(e, y).accepted)
    <3>1. c # <<>> /\ b.proven = TRUE
      BY <1>1, <1>16, <2>4
    <3>2. CASE y = r
      BY <1>1, <1>c, <3>1, <3>2
    <3>3. CASE y # r
      <4>1. y \in Roots(c) /\ y = own[d]
        BY <1>1, <1>13, <3>3
      <4>2. RootSane(Get(e, y), d, y, own, of)
        BY <2>3
      <4> QED
        BY <1>3, <1>5, <1>10, <4>1, <4>2 DEF RootSane, OwnRoot
    <3> QED
      BY <3>2, <3>3
  <2>5. EntrySane(d, own, of)'
    <3>1. opened'[d] \subseteq 1..sealed
      BY <1>4, <1>n, <2>1 DEF EntrySane
    <3>2. Roots(conv[d]) \subseteq Roots(conv'[d]) /\ Distinct(conv'[d])
      BY <1>1, <1>c
    <3>3. \A y \in Roots(conv'[d]) : RootSane(Get(conv[d], y), d, y, own, of)'
      BY <1>c, <2>0, <2>3
    <3> QED
      BY <1>c, <2>1, <2>4, <3>1, <3>2, <3>3 DEF EntrySane
  <2> QED
    BY <1>3, <2>2, <2>5 DEF EntriesSane
<1>20. RootsLinked(of)'
  <2> SUFFICES ASSUME NEW y \in Device,
                      NEW z \in Roots(conv'[y]) \cap Roots(conv'[Peer(y)])
               PROVE  RootLinked(y, z, of)'
    BY DEF RootsLinked
  <2>1. CASE y = x /\ z = r
    <3>1. ASSUME NEW g \in Transit, g.from = x, of[g.f.chain] = r
          PROVE  Flows(a.s, b.s, g.f) /\ (g.id \in opened'[d] <=> Spent(b.s, g.f))
                 /\ (Spent(b.s, g.f) => g.at <= HeardAt(e))
      <4>1. g.f.chain = r /\ g.f.n < a.s.ns /\ g.f.pn = a.s.pn /\ g.id \notin opened[d] /\ g.f.base = 0
        BY <1>9, <1>11, <3>1
      <4>2. Flows(a.s, b.s, g.f) /\ (Spent(b.s, g.f) <=> g.f.n = f.n)
        BY <1>11, <1>12, <4>1
      <4>3. Spent(b.s, g.f) <=> g = m
        BY <1>11, <1>r, <4>1, <4>2
      <4>4. g.id \in opened'[d] <=> g = m
        BY <1>11, <1>n, <4>1
      <4> QED
        BY <1>1, <1>4, <1>14, <4>2, <4>3, <4>4
    <3> QED
      BY <1>3, <1>12, <1>c, <2>1, <3>1 DEF RootLinked, Arrives
  <2>2. CASE y = d /\ z = r
    <3>1. ASSUME NEW g \in Transit, g.from = d PROVE of[g.f.chain] # r
      BY <1>11, <1>r, <1>c, <3>1
    <3>2. Linked(b.s, a.s)
      BY <1>12 DEF Linked
    <3> QED
      BY <1>3, <1>c, <2>2, <3>1, <3>2 DEF RootLinked
  <2>3. CASE z # r
    <3> DEFINE w == Peer(y)
    <3>1. w \in Device /\ ((y = x /\ w = d) \/ (y = d /\ w = x))
      BY <1>3
    <3>2. z \in Roots(conv[y]) /\ z \in Roots(conv[w]) /\ z \in Roots(c)
      <4>1. z \in Roots(conv'[d]) /\ z \in Roots(conv'[x])
        BY <3>1
      <4>2. z \in Roots(c) /\ z \in Roots(conv[x])
        BY <1>1, <1>3, <1>c, <2>3, <4>1
      <4> QED
        BY <1>c, <3>1, <4>2
    <3>3. RootLinked(y, z, of)
      BY <3>2 DEF Core, RootsLinked
    <3>4. Get(conv'[y], z).s = Get(conv[y], z).s /\ Get(conv'[w], z).s = Get(conv[w], z).s
      BY <1>2, <1>3, <1>c, <3>1, <3>2
    <3>5. ASSUME NEW g \in Transit, g.from = y, of[g.f.chain] = z
          PROVE  /\ g.id \in opened'[w] <=> g.id \in opened[w]
                 /\ g.at <= HeardAt(conv[w]) => g.at <= HeardAt(conv'[w])
      <4>1. g.id # m.id
        BY <1>5, <1>11, <1>r, <2>3, <3>5
      <4>2. CASE w = d
        <5>1. HeardAt(e) >= HeardAt(c) /\ HeardAt(e) \in Nat /\ HeardAt(c) \in Nat /\ g.at \in Nat
          BY <1>1, <1>11, <1>14, <1>15, <1>16, <3>2
        <5> QED
          BY <1>c, <1>n, <4>1, <4>2, <5>1
      <4>3. CASE w = x
        BY <1>3, <1>n, <4>3
      <4> QED
        BY <3>1, <4>2, <4>3
    <3> HIDE DEF w
    <3>6. w = Peer(y)
      BY DEF w
    <3> QED
      BY <3>3, <3>4, <3>5, <3>6 DEF RootLinked, Arrives
  <2> QED
    BY <1>3, <2>1, <2>2, <2>3
<1>21. RootsUnheard(own, of)'
  <2> SUFFICES ASSUME NEW y \in Device, own[y] # 0, own[y] \notin Roots(conv'[Peer(y)])
               PROVE  Unheard(y, own, of)'
    BY DEF RootsUnheard, Unheard
  <2>1. y = d
    BY <1>1, <1>3, <1>5, <1>c
  <2>2. own[d] \notin Roots(conv[x]) /\ own[d] \in Roots(c) /\ Unheard(d, own, of)
    BY <1>3, <1>c, <2>1 DEF Core, EntriesSane, EntrySane, RootsUnheard
  <2>3. Get(conv'[d], own[d]).s = Get(conv[d], own[d]).s
    BY <1>2, <1>c, <2>2
  <2> QED
    BY <1>3, <1>n, <2>1, <2>2, <2>3 DEF Unheard
<1>22. OneSided(d, own, of)'
  BY <1>1, <1>3, <1>5, <1>c DEF OneSided
<1>23. OneSided(x, own, of)'
  <2>1. Get(conv'[d], own[x]).s.send = 0 /\ Get(conv'[x], own[x]).s.recv = 0
    BY <1>3, <1>5, <1>9, <1>12, <1>c
  <2>2. ASSUME NEW g \in Transit, g.from = d PROVE of[g.f.chain] # own[x]
    BY <1>5, <1>11, <1>r, <1>c, <2>2
  <2>3. Older(d, own[d], own[x], of)'
    BY <2>2 DEF Older
  <2>4. Main(conv'[d]) = own[d] \/ Main(conv'[d]) = own[x]
    BY <1>1, <1>5, <1>13, <1>c
  <2> QED
    BY <1>3, <2>1, <2>3, <2>4 DEF OneSided
<1>24. RootsOneSided(own, of)'
  BY <1>3, <1>22, <1>23 DEF RootsOneSided
<1>25. m.id \notin opened[d]
  BY <1>5, <1>9, <1>r
<1> QED
  BY <1>17, <1>18, <1>19, <1>20, <1>21, <1>24, <1>25 DEF Core

(* An entry nobody vouched for is evicted: its device has sent nothing on it. *)
LEMMA CoreEvicted ==
    ASSUME ConvTypes, NEW own \in [Device -> Nat], NEW of \in [Nat -> Nat], Core(own, of),
           NEW d \in Device, conv[d] # <<>>, ~conv[d][1].proven,
           conv'[d] = <<>>, \A e \in Device : e # d => conv'[e] = conv[e],
           Transit' \subseteq Transit, UNCHANGED <<sealed, now>>,
           opened' = [opened EXCEPT ![d] = {}]
    PROVE  Core(own, of)'
<1> DEFINE x == Peer(d)
           c == conv[d]
           r == Main(c)
           b == Get(c, r)
           a == Get(conv[x], r)
<1>1. x \in Device /\ x # d /\ Peer(x) = d /\ conv'[x] = conv[x] /\ \A y \in Device : y = d \/ y = x
  BY PeerFacts
<1>2. c \in Entry /\ Distinct(c) /\ EntrySane(d, own, of) /\ EntrySane(x, own, of)
  BY <1>1, TransitTypes DEF Core, EntriesSane, EntrySane
<1>3. r \in Roots(c) /\ ~b.proven
  BY <1>2, HeldFacts
<1>4. /\ b.s \in Session /\ b.s.root = r /\ r \in Nat /\ r # 0 /\ Sane(b.s, of, sealed)
      /\ RootSane(b, d, r, own, of)
  <2>1. HeldSane(Get(conv[d], r), d, r, own, of)
    <3> HIDE DEF r
    <3> QED
      BY <1>3, RootIs
  <2> QED
    BY <2>1 DEF HeldSane
<1>5. \A q \in Roots(c) : q = r
  BY <1>2, <1>3 DEF EntrySane
<1>6. r = own[x] /\ r # own[d] /\ b.s.send = 0 /\ b.s.recv = r
  BY <1>3, <1>4 DEF RootSane, OwnRoot, HeardRoot
<1>7. own[d] = 0
  BY <1>2, <1>5, <1>6 DEF EntrySane
<1>8. r \in Roots(conv[x])
  BY <1>2, <1>4, <1>6 DEF EntrySane
<1>9. a.s \in Session /\ a.s.root = r /\ Sane(a.s, of, sealed)
  <2> HIDE DEF r, x
  <2> QED
    BY <1>1, <1>8, RootFacts
<1>10. RootLinked(x, r, of) /\ RootLinked(d, r, of)
  BY <1>1, <1>3, <1>8 DEF Core, RootsLinked
<1>11. Linked(a.s, b.s)
  BY <1>1, <1>10 DEF RootLinked
<1>12. sealed \in Nat /\ opened \in [Device -> SUBSET Nat]
  BY Constants DEF ConvTypes, HistoryTypes
<1>13. /\ a.s.recv = 0
       /\ \A f \in Frame : r <= f.chain /\ Flows(a.s, b.s, f) =>
             f.chain = r /\ f.n < a.s.ns /\ f.pn = a.s.pn
       /\ \A f \in Frame : f.chain # 0 => ~Flows(b.s, a.s, f)
  BY <1>4, <1>6, <1>9, <1>11, <1>12, LinkForgotten
<1>14. opened'[d] = {} /\ opened'[x] = opened[x]
  BY <1>1, <1>12
<1> HIDE DEF r, x, c, a, b
<1>c. x = Peer(d) /\ c = conv[d] /\ b = Get(c, r) /\ a = Get(conv[x], r)
  BY DEF x, c, a, b
<1>15. ASSUME NEW g \in Transit
       PROVE  /\ g.from = x /\ g.f \in Frame /\ of[g.f.chain] <= g.f.chain
              /\ PayloadSane(g, own, of)
  <2>1. g.from \in Device /\ g.f \in Frame /\ PayloadSane(g, own, of)
        /\ of[g.f.chain] \in Roots(conv[g.from])
    BY TransitFacts
  <2>2. of[g.f.chain] <= g.f.chain /\ g.f.chain # 0
    BY <2>1 DEF PayloadSane
  <2>3. g.from # d
    <3> SUFFICES ASSUME g.from = d PROVE FALSE
      OBVIOUS
    <3>1. of[g.f.chain] = r
      BY <1>5, <1>c, <2>1
    <3>2. Flows(b.s, a.s, g.f)
      BY <1>10, <1>c, <3>1 DEF RootLinked
    <3> QED
      BY <1>13, <2>1, <2>2, <3>2
  <2> QED
    BY <1>1, <2>1, <2>2, <2>3
<1>16. PayloadsSane(own, of)'
  <2> SUFFICES ASSUME NEW g \in Transit' PROVE PayloadSane(g, own, of)'
    BY DEF PayloadsSane
  <2>1. g \in Transit
    OBVIOUS
  <2>2. g.from = x /\ PayloadSane(g, own, of)
    BY <1>15, <2>1
  <2> QED
    BY <1>1, <2>2 DEF PayloadSane
<1>17. PayloadsUnique'
  BY DEF PayloadsUnique, Core
<1>18. EntriesSane(own, of)'
  <2>0. \A y, h, z : RootSane(h, z, y, own, of) => RootSane(h, z, y, own, of)'
    BY DEF RootSane
  <2>1. EntrySane(x, own, of)'
    BY <1>1, <1>2, <1>14, <2>0 DEF EntrySane
  <2>2. EntrySane(d, own, of)'
    <3>1. Roots(conv'[d]) = {} /\ Distinct(conv'[d])
      BY EntryRoots, EntryForms DEF Distinct
    <3> QED
      BY <1>2, <1>7, <1>14, <3>1 DEF EntrySane
  <2> QED
    BY <1>1, <2>1, <2>2 DEF EntriesSane
<1>19. RootsLinked(of)'
  BY <1>1, <1>c, EntryRoots DEF RootsLinked
<1>20. RootsUnheard(own, of)'
  <2>1. Unheard(d, own, of)'
    BY <1>7 DEF Unheard
  <2>2. Unheard(x, own, of)'
    <3> SUFFICES ASSUME NEW g \in Transit', of[g.f.chain] = r
                 PROVE  g.f.chain = r /\ g.f.n < a.s.ns /\ g.f.pn = a.s.pn /\ g.id \notin opened'[d]
      BY <1>1, <1>6, <1>13, <1>c DEF Unheard
    <3>1. g \in Transit
      OBVIOUS
    <3>2. g.from = x /\ g.f \in Frame /\ r <= g.f.chain
      BY <1>15, <3>1
    <3>3. Flows(a.s, b.s, g.f)
      BY <1>1, <1>10, <1>c, <3>1, <3>2 DEF RootLinked
    <3> QED
      BY <1>13, <1>14, <3>2, <3>3
  <2> QED
    BY <1>1, <2>1, <2>2 DEF RootsUnheard
<1>21. RootsOneSided(own, of)'
  BY <1>1, <1>7, <1>c DEF RootsOneSided, OneSided
<1> QED
  BY <1>16, <1>17, <1>18, <1>19, <1>20, <1>21 DEF Core

\* Device d seals payload m, the next one.
Sends(d, m) ==
    /\ m \in Payload /\ m.id = sealed + 1 /\ m.from = d /\ m.at = now'
    /\ now' \in Nat /\ now <= now' /\ sealed' = sealed + 1
    /\ \A e \in Device : e # d => conv'[e] = conv[e]
    /\ Transit' = Transit \cup {m} /\ opened' = opened

\* Function g is f but for the value v at k.
Changed(f, g, k, v) == g = [f EXCEPT ![k] = v]

\* Entry e has one root, begun with payload m.
BegunView(e, m) ==
    /\ Roots(e) = {m.id} /\ Distinct(e)
    /\ LET k == Get(e, m.id)
       IN  k.s = Sent(Initiator(m.id), m.id) /\ k.pending = TRUE /\ k.proven = TRUE
    /\ m.prologue = TRUE /\ m.f = SendFrame(Initiator(m.id), m.id)

(* The first payload sealed at a device with no entry begins a root.       *)
LEMMA CoreBegun ==
    ASSUME ConvTypes, NEW own \in [Device -> Nat], NEW of \in [Nat -> Nat], Core(own, of),
           NEW d \in Device, Roots(conv[d]) = {}, NEW m, Sends(d, m), BegunView(conv'[d], m),
           NEW own2, Changed(own, own2, d, m.id), NEW of2, Changed(of, of2, m.id, m.id)
    PROVE  Core(own2, of2)'
<1> DEFINE x == Peer(d)
           id == m.id
           u == Get(conv'[d], id)
<1>1. x \in Device /\ x # d /\ Peer(x) = d /\ conv'[x] = conv[x] /\ \A y \in Device : y = d \/ y = x
  BY PeerFacts DEF Sends
<1>2. EntrySane(d, own, of) /\ EntrySane(x, own, of) /\ Roots(conv[d]) = {}
  BY <1>1 DEF Core, EntriesSane
<1>s. sealed \in Nat /\ now \in Nat
  BY Constants DEF ConvTypes
<1>3. /\ id \in Nat /\ id = sealed + 1 /\ sealed' = id /\ sealed < id /\ sealed \in Nat
      /\ own[d] = 0 /\ own[x] \in Nat /\ own[x] <= sealed
  <2>1. own[d] = 0 /\ own[x] \in Nat /\ own[x] <= sealed
    BY <1>1, <1>2 DEF EntrySane
  <2>2. id = sealed + 1 /\ sealed' = id
    BY DEF Sends
  <2> QED
    BY <1>s, <2>1, <2>2
<1>m. m.from = d /\ m.prologue = TRUE
  BY DEF Sends, BegunView
<1>n. m.at = now' /\ now' \in Nat /\ now <= now'
  BY DEF Sends
<1>e. Transit' = Transit \cup {m} /\ opened' = opened
  BY DEF Sends
<1>o. Roots(conv'[d]) = {id} /\ Distinct(conv'[d])
  BY DEF BegunView
<1>u. u.s = Sent(Initiator(id), id) /\ u.pending = TRUE /\ u.proven = TRUE
  BY DEF BegunView
<1>4. own2[d] = id /\ own2[x] = own[x] /\ of2[id] = id /\ \A k \in 1..sealed : of2[k] = of[k]
  <2>1. \A k \in 1..sealed : k \in Nat /\ k # id
    BY <1>3
  <2> QED
    BY <1>1, <1>3, <2>1 DEF Changed
<1>5. Initiator(id) \in Session /\ Initiator(id).send = id /\ Initiator(id).ns = 0
      /\ Initiator(id).pn = 0 /\ Initiator(id).base = 0 /\ Initiator(id).recv = 0
      /\ Initiator(id).root = id /\ Initiator(id).skipped = {}
  BY <1>3, InitiatorFacts
<1>6. id # 0 /\ SendChain(Initiator(id), id) = id
  BY <1>3, <1>5 DEF SendChain
<1>7. m.f \in Frame /\ m.f.chain = id /\ m.f.base = 0 /\ m.f.n = 0 /\ m.f.pn = 0
  <2>1. m.f = SendFrame(Initiator(id), id)
    BY DEF BegunView
  <2> HIDE DEF id
  <2>2. /\ SendFrame(Initiator(id), id) \in Frame
        /\ SendFrame(Initiator(id), id).chain = SendChain(Initiator(id), id)
        /\ SendFrame(Initiator(id), id).base = Initiator(id).base
        /\ SendFrame(Initiator(id), id).n = Initiator(id).ns
        /\ SendFrame(Initiator(id), id).pn = Initiator(id).pn
    BY <1>3, <1>5, SendFrameFacts
  <2> QED
    BY <1>5, <1>6, <2>1, <2>2
<1>8. /\ u.s.root = id /\ u.s.send = id /\ u.s.base = 0 /\ u.s.recv = 0 /\ u.s.ns = 1
      /\ u.s.skipped = {} /\ u.s.pn = 0
  <2> HIDE DEF id, u
  <2> DEFINE v == Sent(Initiator(id), id)
  <2>1. /\ v.send = SendChain(Initiator(id), id) /\ v.ns = Initiator(id).ns + 1
        /\ v.root = Initiator(id).root /\ v.base = Initiator(id).base /\ v.pn = Initiator(id).pn
        /\ v.recv = Initiator(id).recv /\ v.skipped = Initiator(id).skipped
    BY <1>5 DEF Sent
  <2> HIDE DEF v
  <2>2. u.s = v
    BY <1>u DEF v
  <2> QED
    BY <1>5, <1>6, <2>1, <2>2
<1>9. ASSUME NEW g \in Transit
      PROVE  /\ g.from = x /\ g.f \in Frame /\ g.f.chain \in 1..sealed /\ g.id \in 1..sealed
             /\ of2[g.f.chain] = of[g.f.chain] /\ of[g.f.chain] \in 1..sealed
             /\ PayloadSane(g, own, of)
             /\ g.f.base # 0 => of2[g.f.base] = of[g.f.base]
  <2>1. /\ g.from \in Device /\ g.f \in Frame /\ g.f.chain \in Nat /\ PayloadSane(g, own, of)
        /\ g.id \in Nat /\ g.id \in 1..sealed
        /\ of[g.f.chain] \in Roots(conv[g.from]) /\ of[g.f.chain] \in Nat /\ g.f.base \in Nat
    BY TransitFacts
  <2>2. g.from = x
    BY <1>1, <1>2, <2>1
  <2>3. g.f.chain \in 1..sealed /\ of[g.f.chain] \in 1..sealed /\ (g.f.base # 0 => g.f.base \in 1..sealed)
    BY <1>3, <2>1 DEF PayloadSane
  <2> QED
    BY <1>4, <2>1, <2>2, <2>3
<1> HIDE DEF x, u, id
<1>c. x = Peer(d) /\ u = Get(conv'[d], id) /\ id = m.id
  BY DEF x, u, id
<1>10. PayloadsSane(own2, of2)'
  <2>1. ASSUME NEW g \in Transit PROVE PayloadSane(g, own2, of2)'
    <3>1. /\ g.from = x /\ of2[g.f.chain] = of[g.f.chain] /\ PayloadSane(g, own, of)
          /\ g.f.base # 0 => of2[g.f.base] = of[g.f.base]
          /\ g.id \in 1..sealed
      BY <1>9, <2>1
    <3>2. g.at \in Nat
      BY TransitFacts
    <3>3. g.at <= now' /\ g.id <= sealed'
      <4>1. g.at <= now
        BY <3>1 DEF PayloadSane
      <4> QED
        BY <1>s, <1>3, <1>n, <3>1, <3>2, <4>1
    <3> QED
      BY <1>1, <1>4, <3>1, <3>3 DEF PayloadSane
  <2>2. PayloadSane(m, own2, of2)'
    <3>1. m.f.chain # 0 /\ m.f.chain <= m.id /\ m.id <= sealed' /\ m.at <= now' /\ m.f.base < m.f.chain
      BY <1>3, <1>6, <1>7, <1>c, <1>n
    <3>2. /\ of2[m.f.chain] = m.f.chain /\ of2[m.f.chain] \in Roots(conv'[m.from])
          /\ of2[m.f.chain] = own2[m.from]
      BY <1>4, <1>7, <1>m, <1>o
    <3>3. of2[m.f.chain] <= m.f.chain /\ of2[m.f.chain] # 0 /\ m.f.base = 0 /\ m.prologue
      BY <1>3, <1>6, <1>7, <1>m, <3>2
    <3> QED
      BY <3>1, <3>2, <3>3, Zenon DEF PayloadSane
  <2> QED
    BY <1>e, <2>1, <2>2 DEF PayloadsSane
<1>11. PayloadsUnique'
  <2>1. ASSUME NEW g \in Transit PROVE g.id # m.id /\ g.f.chain # m.f.chain
    <3>1. g.f.chain \in 1..sealed /\ g.id \in 1..sealed
      BY <1>9
    <3> QED
      BY <1>3, <1>7, <1>c, <3>1
  <2>2. \A g, h \in Transit : g.id = h.id \/ (g.f.chain = h.f.chain /\ g.f.n = h.f.n) => g = h
    BY DEF PayloadsUnique, Core
  <2> QED
    BY <1>e, <2>1, <2>2 DEF PayloadsUnique
<1>o2. opened'[d] \subseteq 1..id /\ opened'[x] \subseteq 1..id /\ id \notin opened[x]
  <2>1. opened[d] \subseteq 1..sealed /\ opened[x] \subseteq 1..sealed
    BY <1>2 DEF EntrySane
  <2>2. 1..sealed \subseteq 1..id /\ id \notin 1..sealed
    BY <1>3
  <2> QED
    BY <1>e, <2>1, <2>2
<1>12. EntriesSane(own2, of2)'
  <2>1. EntrySane(d, own2, of2)'
    <3>1. Sane(u.s, of2, id)
      BY <1>3, <1>4, <1>6, <1>8 DEF Sane
    <3>2. OwnRoot(u)
      BY <1>8, <1>u DEF OwnRoot
    <3>3. id # own2[x]
      BY <1>3, <1>4
    <3>4. RootSane(Get(conv[d], id), d, id, own2, of2)'
      <4>1. Sane(u.s, of2, sealed')
        BY <1>3, <3>1
      <4> QED
        BY <1>4, <1>c, <3>2, <3>3, <4>1 DEF RootSane
    <3>5. own2[d] <= sealed' /\ opened'[d] \subseteq 1..sealed'
      BY <1>3, <1>4, <1>o2
    <3>6. own2[d] \in Roots(conv'[d]) /\ own2[d] # own2[Peer(d)]
      BY <1>4, <1>c, <1>o, <3>3
    <3>7. \A q, r \in Roots(conv'[d]) : q = r
      BY <1>o
    <3> QED
      BY <1>o, <3>4, <3>5, <3>6, <3>7 DEF EntrySane
  <2>2. EntrySane(x, own2, of2)'
    <3>0. ASSUME NEW r \in Roots(conv[x]) PROVE r = own[x]
      <4>1. RootSane(Get(conv[x], r), x, r, own, of) /\ r # 0
        BY <1>1, <3>0, RootFacts
      <4> QED
        BY <1>1, <1>3, <4>1 DEF RootSane
    <3>1. ASSUME NEW r \in Roots(conv[x])
          PROVE  RootSane(Get(conv[x], r), x, r, own2, of2)'
      <4> DEFINE h == Get(conv[x], r)
      <4>1. h.s \in Session /\ Sane(h.s, of, sealed) /\ RootSane(h, x, r, own, of)
        BY <1>1, <3>1, RootFacts
      <4>2. r = own[x] /\ OwnRoot(h)
        BY <3>0, <3>1, <4>1 DEF RootSane
      <4> HIDE DEF h
      <4>3. Sane(h.s, of2, sealed + 1)
        BY <1>s, <1>4, <4>1, SaneLater
      <4>4. Sane(h.s, of2, sealed')
        BY <1>3, <4>3
      <4>5. r # own2[d] /\ r = own2[x]
        BY <1>3, <1>4, <4>2
      <4>6. h = Get(conv'[x], r)
        BY <1>1 DEF h
      <4> QED
        BY <1>1, <4>2, <4>4, <4>5, <4>6 DEF RootSane
    <3>4. own2[x] <= sealed' /\ own2[x] # own2[d] /\ opened'[x] \subseteq 1..sealed'
      BY <1>3, <1>4, <1>o2
    <3>5. own2[x] # 0 => own2[x] \in Roots(conv'[x])
      BY <1>1, <1>2, <1>4 DEF EntrySane
    <3>6. \A q, r \in Roots(conv[x]) : q = r
      BY <3>0
    <3>7. Distinct(conv'[x])
      BY <1>1, <1>2 DEF EntrySane
    <3> QED
      BY <1>1, <3>1, <3>4, <3>5, <3>6, <3>7 DEF EntrySane
  <2> QED
    BY <1>1, <2>1, <2>2 DEF EntriesSane
<1>13. id \notin Roots(conv[x])
  <2> SUFFICES ASSUME id \in Roots(conv[x]) PROVE FALSE
    OBVIOUS
  <2>1. RootSane(Get(conv[x], id), x, id, own, of)
    BY <1>1, RootFacts
  <2> QED
    BY <1>1, <1>3, <2>1 DEF RootSane
<1>14. RootsLinked(of2)'
  BY <1>1, <1>13, <1>c, <1>o DEF RootsLinked
<1>15. RootsUnheard(own2, of2)'
  <2>1. Unheard(d, own2, of2)'
    <3>1. ASSUME NEW g \in Transit', of2[g.f.chain] = id PROVE g = m
      <4> SUFFICES ASSUME g \in Transit PROVE FALSE
        BY <1>e
      <4>1. of2[g.f.chain] \in 1..sealed
        BY <1>9
      <4> QED
        BY <1>3, <3>1, <4>1
    <3>2. id \notin opened'[x] /\ m.f.n < u.s.ns
      BY <1>7, <1>8, <1>e, <1>o2
    <3> QED
      BY <1>4, <1>7, <1>8, <1>c, <3>1, <3>2 DEF Unheard
  <2>2. Unheard(x, own2, of2)'
    <3> SUFFICES ASSUME own[x] # 0, NEW g \in Transit', of2[g.f.chain] = own[x]
                 PROVE  /\ g.f.chain = own[x] /\ g.f.n < Get(conv[x], own[x]).s.ns
                        /\ g.f.pn = Get(conv[x], own[x]).s.pn
                        /\ g.id \notin opened[d]
      <4>1. own[x] # 0 => Get(conv[x], own[x]).s.recv = 0
        BY <1>1, <1>2 DEF Core, RootsUnheard, Unheard
      <4> QED
        BY <1>1, <1>4, <1>e, <4>1 DEF Unheard
    <3>1. g \in Transit
      BY <1>3, <1>4, <1>7, <1>e
    <3>2. Unheard(x, own, of)
      BY <1>1 DEF Core, RootsUnheard
    <3>3. of[g.f.chain] = own[x]
      BY <1>9, <3>1
    <3> QED
      BY <1>1, <1>2, <3>1, <3>2, <3>3 DEF Unheard
  <2> QED
    BY <1>1, <2>1, <2>2 DEF RootsUnheard
<1>16. RootsOneSided(own2, of2)'
  <2>1. OneSided(x, own2, of2)'
    <3>1. own2[x] # 0 => own2[x] \notin Roots(conv'[d])
      BY <1>3, <1>4, <1>o
    <3> QED
      BY <1>1, <3>1 DEF OneSided
  <2>2. OneSided(d, own2, of2)'
    BY <1>1, <1>4, <1>13, <1>c DEF OneSided
  <2> QED
    BY <1>1, <2>1, <2>2 DEF RootsOneSided
<1> QED
  BY <1>10, <1>11, <1>12, <1>14, <1>15, <1>16 DEF Core

\* Device d seals m into the entry it holds.
GoesOn(d, m) ==
    /\ Main(conv[d]) \in Roots(conv[d]) /\ SealedView(conv[d], conv'[d], m.id)
    /\ LET h == Get(conv[d], Main(conv[d]))
       IN  m.f = SendFrame(h.s, m.id) /\ m.prologue = h.pending

(* Nothing that the peer has sent is of the chain an end sends on.         *)
LEMMA OwnChain ==
    ASSUME NEW p \in Session, NEW q \in Session, NEW of, NEW top \in Nat, NEW f \in Frame,
           Sane(p, of, top), Sane(q, of, top), Linked(q, p), Flows(q, p, f), p.send # 0
    PROVE  f.chain # p.send
<1>1. /\ p.recv \in Nat /\ p.send \in Nat /\ q.recv \in Nat /\ q.send \in Nat /\ f.chain \in Nat
      /\ p.recv < p.send /\ (q.send # 0 => q.recv < q.send)
  BY DEF Session, Frame, Sane
<1>2. p.send # q.send
  BY <1>1 DEF Linked, Leads
<1> QED
  BY <1>1, <1>2 DEF Flows

(* The session of the root in use, the frame it sends, and what it becomes. *)
LEMMA SealedEnd ==
    ASSUME ConvTypes, NEW own \in [Device -> Nat], NEW of \in [Nat -> Nat], Core(own, of),
           NEW d \in Device, NEW m, Sends(d, m), GoesOn(d, m),
           NEW of2, Changed(of, of2, m.f.chain, Main(conv[d]))
    PROVE  LET r == Main(conv[d])
               s == Get(conv[d], r).s
               u == Get(conv'[d], r).s
               f == m.f
           IN  /\ f \in Frame /\ f.base = s.recv /\ f.n = s.ns /\ f.pn = s.pn
               /\ f.chain = SendChain(s, sealed + 1) /\ f.chain <= sealed + 1 /\ f.chain # 0
               /\ s.recv < f.chain /\ r <= f.chain
               /\ s.send = 0 => f.chain = sealed + 1
               /\ s.send # 0 => f.chain = s.send
               /\ f = SendFrame(s, sealed + 1) /\ u = Sent(s, sealed + 1)
               /\ u.recv = s.recv /\ u.ns = s.ns + 1 /\ u.pn = s.pn /\ u.nr = s.nr
               /\ u.skipped = s.skipped /\ u.send = f.chain /\ u.root = r
               /\ of2[f.chain] = r /\ \A k \in 1..sealed : of2[k] = of[k]
               /\ Sane(u, of2, sealed + 1)
<1> DEFINE r == Main(conv[d])
           s == Get(conv[d], r).s
           u == Get(conv'[d], r).s
           f == m.f
           id == sealed + 1
<1>1. sealed \in Nat /\ id \in Nat /\ m.id = id /\ id # 0
  BY Constants DEF ConvTypes, Sends
<1>2. r \in Roots(conv[d]) /\ f = SendFrame(s, id) /\ u = Sent(s, id)
  BY <1>1 DEF GoesOn, SealedView
<1>3. s \in Session /\ s.root = r /\ Sane(s, of, sealed)
  <2> HIDE DEF r
  <2> QED
    BY <1>2, RootFacts
<1> HIDE DEF r, s, u, f, id
<1>4. f \in Frame /\ f.chain = SendChain(s, id) /\ f.base = s.base /\ f.n = s.ns /\ f.pn = s.pn
  BY <1>1, <1>2, <1>3, SendFrameFacts
<1>5. /\ u.send = SendChain(s, id) /\ u.ns = s.ns + 1 /\ u.root = s.root /\ u.pn = s.pn
      /\ u.recv = s.recv /\ u.nr = s.nr /\ u.skipped = s.skipped
  BY <1>1, <1>2, <1>3, SentFacts
<1>6. /\ s.send = 0 => f.chain = id
      /\ s.send # 0 => f.chain = s.send
  BY <1>4 DEF SendChain
<1>7. /\ s.base = s.recv /\ s.send <= sealed /\ s.recv <= sealed /\ s.root # 0
      /\ s.send # 0 => s.recv < s.send /\ s.root <= s.send /\ of[s.send] = s.root
      /\ s.recv # 0 => s.root <= s.recv
      /\ s.send = 0 => s.recv # 0
  BY <1>3 DEF Sane
<1>8. s.send \in Nat /\ s.recv \in Nat /\ s.root \in Nat
  BY <1>3 DEF Session
<1>i. id = sealed + 1
  BY DEF id
<1>9. /\ f.chain <= id /\ f.chain # 0 /\ f.chain \in Nat /\ s.recv < f.chain /\ r <= f.chain
      /\ f.base = s.recv
  BY <1>1, <1>3, <1>4, <1>6, <1>7, <1>8, <1>i
<1>10. of2[f.chain] = r /\ \A k \in 1..sealed : of2[k] = of[k]
  <2>1. Changed(of, of2, f.chain, r)
    BY DEF f, r
  <2>2. of2[f.chain] = r /\ \A k \in Nat : k # f.chain => of2[k] = of[k]
    BY <1>9, <2>1 DEF Changed
  <2>3. f.chain \in 1..sealed => of[f.chain] = r
    BY <1>1, <1>3, <1>6, <1>7, <1>i
  <2> QED
    BY <2>2, <2>3
<1>11. Sane(u, of2, id)
  <2>1. of2[SendChain(s, sealed + 1)] = s.root
    BY <1>3, <1>4, <1>10, <1>i
  <2> QED
    BY <1>1, <1>2, <1>3, <1>10, <1>i, <2>1, SentSane
<1> QED
  BY <1>2, <1>3, <1>4, <1>5, <1>6, <1>9, <1>10, <1>11 DEF r, s, u, f, id

(* The next payload is sealed into an entry.                               *)
LEMMA CoreSealed ==
    ASSUME ConvTypes, NEW own \in [Device -> Nat], NEW of \in [Nat -> Nat], Core(own, of),
           NEW d \in Device, NEW m, Sends(d, m), GoesOn(d, m),
           NEW of2, Changed(of, of2, m.f.chain, Main(conv[d]))
    PROVE  Core(own, of2)'
<1> DEFINE x == Peer(d)
           c == conv[d]
           e == conv'[d]
           r == Main(c)
           h == Get(c, r)
           k == Get(e, r)
           s == h.s
           u == k.s
           f == m.f
           id == m.id
<1>1. x \in Device /\ x # d /\ Peer(x) = d /\ conv'[x] = conv[x] /\ \A y \in Device : y = d \/ y = x
  BY PeerFacts DEF Sends
<1>2. EntrySane(d, own, of) /\ EntrySane(x, own, of)
  BY <1>1 DEF Core, EntriesSane
<1>3. id \in Nat /\ id = sealed + 1 /\ sealed' = id /\ sealed < id /\ sealed \in Nat
  <2>1. sealed \in Nat
    BY Constants DEF ConvTypes
  <2>2. id = sealed + 1 /\ sealed' = id
    BY DEF Sends
  <2> QED
    BY <2>1, <2>2
<1>n. m.at = now' /\ now' \in Nat /\ now <= now' /\ now \in Nat
  BY DEF Sends, ConvTypes
<1>m. m.from = d /\ m.prologue = h.pending
  BY DEF Sends, GoesOn
<1>e. Transit' = Transit \cup {m} /\ opened' = opened
  BY DEF Sends
<1>v. /\ Roots(e) = Roots(c) /\ Distinct(e) /\ Main(e) = r /\ HeardAt(e) = HeardAt(c)
      /\ \A q \in Roots(c) : q # r => Get(e, q) = Get(c, q)
      /\ r \in Roots(c)
  BY DEF GoesOn, SealedView
<1>k. k.pending = h.pending /\ k.proven = TRUE /\ k.accepted = h.accepted
  BY DEF GoesOn, SealedView
<1>4. /\ f \in Frame /\ f.base = s.recv /\ f.n = s.ns /\ f.pn = s.pn
      /\ f.chain <= id /\ f.chain # 0 /\ s.recv < f.chain /\ r <= f.chain
      /\ s.send = 0 => f.chain = id
      /\ s.send # 0 => f.chain = s.send
  <2>1. /\ f \in Frame /\ f.base = s.recv /\ f.n = s.ns /\ f.pn = s.pn
        /\ f.chain <= sealed + 1 /\ f.chain # 0 /\ s.recv < f.chain /\ r <= f.chain
        /\ s.send = 0 => f.chain = sealed + 1
        /\ s.send # 0 => f.chain = s.send
    BY SealedEnd
  <2> HIDE DEF f, s, r, id
  <2> QED
    BY <1>3, <2>1
<1>5. f = SendFrame(s, sealed + 1) /\ u = Sent(s, sealed + 1)
  <2>1. SealedView(c, e, id) /\ f = SendFrame(s, id)
    BY DEF GoesOn
  <2>2. u = Sent(s, id)
    BY <2>1 DEF SealedView
  <2> QED
    BY <1>3, <2>1, <2>2
<1>7. of2[f.chain] = r /\ (\A i \in 1..sealed : of2[i] = of[i]) /\ Sane(u, of2, id)
  BY <1>3, SealedEnd
<1>8. /\ s \in Session /\ Sane(s, of, sealed) /\ RootSane(h, d, r, own, of) /\ r \in Nat /\ r # 0
      /\ s.root = r
      /\ r = own[d] \/ r = own[x]
  <2> HIDE DEF r
  <2>1. /\ s \in Session /\ Sane(s, of, sealed) /\ RootSane(h, d, r, own, of) /\ r \in Nat /\ r # 0
        /\ s.root = r
    BY <1>v, RootFacts
  <2> QED
    BY <2>1 DEF RootSane
<1>9. ASSUME NEW g \in Transit
      PROVE  /\ g.from \in Device /\ g.f \in Frame /\ g.f.chain \in 1..sealed /\ g.id \in 1..sealed
             /\ of2[g.f.chain] = of[g.f.chain] /\ PayloadSane(g, own, of)
             /\ g.f.base # 0 => of2[g.f.base] = of[g.f.base]
             /\ g.at \in Nat /\ g.at <= now /\ of[g.f.chain] \in Roots(conv[g.from])
  <2>1. /\ g.from \in Device /\ g.f \in Frame /\ g.f.chain \in Nat /\ PayloadSane(g, own, of)
        /\ g.id \in Nat /\ g.id \in 1..sealed /\ g.f.base \in Nat /\ g.at \in Nat
    BY TransitFacts
  <2>2. /\ g.f.chain \in 1..sealed /\ (g.f.base # 0 => g.f.base \in 1..sealed)
        /\ of[g.f.chain] \in Roots(conv[g.from]) /\ g.at <= now
    BY <1>3, <2>1 DEF PayloadSane
  <2> QED
    BY <1>7, <2>1, <2>2
<1> HIDE DEF x, c, e, r, h, k, s, u, f, id
<1>6. /\ u.recv = s.recv /\ u.ns = s.ns + 1 /\ u.pn = s.pn /\ u.nr = s.nr
      /\ u.skipped = s.skipped /\ u.send = f.chain /\ u.root = r
  <2>1. f.chain = SendChain(s, sealed + 1)
    BY <1>3, <1>5, <1>8, SendFrameFacts
  <2> QED
    BY <1>3, <1>5, <1>8, <2>1, SentFacts
<1>c. x = Peer(d) /\ c = conv[d] /\ e = conv'[d] /\ f = m.f /\ id = m.id
  BY DEF x, c, e, f, id
<1>d. h = Get(c, r) /\ k = Get(e, r) /\ s = h.s /\ u = k.s
  BY DEF h, k, s, u
<1>s. /\ s.recv \in Nat /\ s.send \in Nat /\ s.ns \in Nat /\ f.chain \in Nat
      /\ s.recv # 0 => r <= s.recv
  BY <1>4, <1>8 DEF Session, Frame, Sane
<1>o. opened'[d] \subseteq 1..id /\ opened'[x] \subseteq 1..id /\ id \notin opened[x]
  <2>1. opened[d] \subseteq 1..sealed /\ opened[x] \subseteq 1..sealed
    BY <1>2 DEF EntrySane
  <2>2. 1..sealed \subseteq 1..id /\ id \notin 1..sealed
    BY <1>3
  <2> QED
    BY <1>e, <2>1, <2>2
<1>p. /\ m.prologue <=> f.chain = r
      /\ f.base = 0 <=> f.chain = r
      /\ m.prologue => r = own[d]
  <2>1. CASE s.recv = 0
    <3>1. ~HeardRoot(h) /\ r = own[d] /\ OwnRoot(h)
      BY <1>1, <1>8, <1>c, <1>d, <2>1 DEF RootSane, HeardRoot
    <3>2. h.pending /\ s.send = r
      BY <1>8, <1>d, <2>1, <3>1 DEF OwnRoot
    <3>3. f.chain = r
      BY <1>4, <1>8, <3>2
    <3> QED
      BY <1>4, <1>m, <2>1, <3>1, <3>2, <3>3
  <2>2. CASE s.recv # 0
    <3>1. f.chain # r
      BY <1>4, <1>8, <1>s, <2>2
    <3>2. ~h.pending
      BY <1>1, <1>8, <1>c, <1>d, <2>2 DEF RootSane, HeardRoot, OwnRoot
    <3> QED
      BY <1>4, <1>m, <2>2, <3>1, <3>2
  <2> QED
    BY <2>1, <2>2
<1>10. PayloadsSane(own, of2)'
  <2>1. ASSUME NEW g \in Transit PROVE PayloadSane(g, own, of2)'
    <3>1. g.at <= now' /\ g.id <= sealed'
      <4>1. g.id \in 1..sealed /\ g.at \in Nat /\ g.at <= now
        BY <1>9
      <4> QED
        BY <1>3, <1>n, <4>1
    <3>2. Roots(conv'[g.from]) = Roots(conv[g.from])
      BY <1>1, <1>9, <1>c, <1>v
    <3>3. /\ PayloadSane(g, own, of) /\ of2[g.f.chain] = of[g.f.chain]
          /\ g.f.base # 0 => of2[g.f.base] = of[g.f.base]
      BY <1>9
    <3> QED
      BY <3>1, <3>2, <3>3 DEF PayloadSane
  <2>2. PayloadSane(m, own, of2)'
    <3>1. m.f.chain # 0 /\ m.f.chain <= m.id /\ m.id <= sealed' /\ m.at <= now' /\ m.f.base < m.f.chain
      BY <1>3, <1>4, <1>c, <1>n
    <3>2. /\ of2[m.f.chain] = r /\ r <= m.f.chain /\ r # 0 /\ r \in Roots(conv'[m.from])
      BY <1>4, <1>7, <1>8, <1>c, <1>m, <1>v
    <3>3. m.f.base # 0 => of2[m.f.base] = r
      <4>1. m.f.base = s.recv
        BY <1>4, <1>c
      <4>2. s.recv # 0 => of[s.recv] = r /\ s.recv \in 1..sealed
        BY <1>3, <1>8, <1>s DEF Sane
      <4> QED
        BY <1>7, <4>1, <4>2
    <3>4. /\ m.prologue <=> m.f.chain = r
          /\ m.f.base = 0 <=> m.f.chain = r
          /\ m.prologue => r = own[m.from]
      BY <1>c, <1>m, <1>p
    <3> QED
      BY <3>1, <3>2, <3>3, <3>4, Zenon DEF PayloadSane
  <2> QED
    BY <1>e, <2>1, <2>2 DEF PayloadsSane
<1>a. ASSUME r \notin Roots(conv[x])
      PROVE  r = own[d] /\ s.recv = 0 /\ (\A g \in Transit : of[g.f.chain] = r => g.f.n < s.ns /\ g.f.pn = s.pn /\ g.f.chain = r)
  <2>1. r = own[d]
    BY <1>2, <1>8, <1>a DEF EntrySane
  <2>2. Unheard(d, own, of)
    BY DEF Core, RootsUnheard
  <2> QED
    BY <1>8, <1>a, <1>c, <1>d, <2>1, <2>2 DEF Unheard
<1>b. ASSUME r \in Roots(conv[x])
      PROVE  LET q == Get(conv[x], r).s
             IN  /\ q \in Session /\ Sane(q, of, sealed) /\ Linked(s, q) /\ Linked(q, s)
                 /\ \A g \in Transit : of[g.f.chain] = r =>
                       /\ g.from = d => Flows(s, q, g.f) /\ Arrives(g, Get(conv[x], r))
                       /\ g.from = x => Flows(q, s, g.f) /\ Arrives(g, h)
  <2>1. RootLinked(d, r, of) /\ RootLinked(x, r, of)
    BY <1>1, <1>b, <1>c, <1>v DEF Core, RootsLinked
  <2>2. Get(conv[x], r).s \in Session /\ Sane(Get(conv[x], r).s, of, sealed)
    BY <1>1, <1>b, RootFacts
  <2> QED
    BY <1>1, <1>c, <1>d, <2>1, <2>2 DEF RootLinked
<1>11. PayloadsUnique'
  <2>1. ASSUME NEW g \in Transit, g.f.chain = f.chain PROVE g.f.n # f.n
    <3>1. g.f.chain \in 1..sealed /\ g.f \in Frame /\ (g.from = d \/ g.from = x)
      BY <1>1, <1>9
    <3>2. s.send # 0 /\ f.chain = s.send
      BY <1>3, <1>4, <2>1, <3>1
    <3>3. of[g.f.chain] = r
      BY <1>7, <1>9, <2>1
    <3>4. g.f.n \in Nat
      BY <3>1 DEF Frame
    <3>5. CASE r \notin Roots(conv[x])
      <4>1. g.f.n < s.ns
        BY <1>a, <3>3, <3>5
      <4> QED
        BY <1>4, <1>s, <3>4, <4>1
    <3>6. CASE r \in Roots(conv[x])
      <4> DEFINE q == Get(conv[x], r).s
      <4>1. /\ q \in Session /\ Sane(q, of, sealed) /\ Linked(q, s)
            /\ g.from = d => Flows(s, q, g.f)
            /\ g.from = x => Flows(q, s, g.f)
        BY <1>b, <3>3, <3>6
      <4> HIDE DEF q
      <4>2. g.from = d
        BY <1>3, <1>8, <2>1, <3>1, <3>2, <4>1, OwnChain
      <4>3. g.f.n < s.ns
        BY <2>1, <3>2, <4>1, <4>2 DEF Flows
      <4> QED
        BY <1>4, <1>s, <3>4, <4>3
    <3> QED
      BY <3>5, <3>6
  <2>2. ASSUME NEW g \in Transit PROVE g.id # m.id
    <3>1. g.id \in 1..sealed
      BY <1>9
    <3> QED
      BY <1>3, <1>c, <3>1
  <2>3. \A g, i \in Transit : g.id = i.id \/ (g.f.chain = i.f.chain /\ g.f.n = i.f.n) => g = i
    BY DEF PayloadsUnique, Core
  <2> QED
    BY <1>c, <1>e, <2>1, <2>2, <2>3 DEF PayloadsUnique
<1>12. EntriesSane(own, of2)'
  <2>1. EntrySane(d, own, of2)'
    <3>1. OwnRoot(h) => OwnRoot(k)
      <4>1. ASSUME OwnRoot(h), s.recv = 0 PROVE u.send = u.root
        BY <1>4, <1>6, <1>8, <1>d, <4>1 DEF OwnRoot
      <4> QED
        BY <1>6, <1>d, <1>k, <4>1 DEF OwnRoot
    <3>2. HeardRoot(h) => HeardRoot(k)
      BY <1>6, <1>8, <1>d, <1>k DEF HeardRoot
    <3>3. /\ Sane(k.s, of2, sealed') /\ (r = own[d] => OwnRoot(k)) /\ (r = own[x] => HeardRoot(k))
      BY <1>3, <1>7, <1>8, <1>c, <1>d, <3>1, <3>2 DEF RootSane
    <3>4. ASSUME NEW z \in Roots(c), z # r
          PROVE  LET a == Get(e, z)
                 IN  /\ Sane(a.s, of2, sealed') /\ (z = own[d] \/ z = own[x])
                     /\ (z = own[d] => OwnRoot(a)) /\ (z = own[x] => HeardRoot(a))
      <4> DEFINE a == Get(c, z)
      <4>1. a.s \in Session /\ Sane(a.s, of, sealed) /\ RootSane(a, d, z, own, of)
        BY <1>c, <3>4, RootFacts
      <4> HIDE DEF a
      <4>2. Sane(a.s, of2, sealed')
        BY <1>3, <1>7, <4>1, SaneLater
      <4>3. Get(e, z) = a
        BY <1>v, <3>4 DEF a
      <4> QED
        BY <1>c, <4>1, <4>2, <4>3 DEF RootSane
    <3>5. own[d] <= sealed' /\ opened'[d] \subseteq 1..sealed'
      <4>1. own[d] <= sealed /\ own[d] \in Nat
        BY <1>2 DEF EntrySane
      <4> QED
        BY <1>3, <1>o, <4>1
    <3>6. own[d] # 0 => own[d] \in Roots(e) /\ own[d] # own[x]
      BY <1>2, <1>c, <1>v DEF EntrySane
    <3>7. ASSUME NEW q \in Roots(c), NEW z \in Roots(c), q # z
          PROVE  Get(e, q).proven /\ (q = own[x] => Get(e, q).accepted)
      <4>1. Get(c, q).proven /\ (q = own[x] => Get(c, q).accepted)
        BY <1>2, <1>c, <3>7 DEF EntrySane
      <4> QED
        BY <1>d, <1>k, <1>v, <4>1
    <3>8. ASSUME NEW z \in Roots(e)
          PROVE  LET a == Get(e, z)
                 IN  /\ Sane(a.s, of2, sealed') /\ (z = own[d] \/ z = own[x])
                     /\ (z = own[d] => OwnRoot(a)) /\ (z = own[x] => HeardRoot(a))
      BY <1>8, <1>d, <1>v, <3>3, <3>4
    <3>9. \A z \in Roots(conv'[d]) : RootSane(Get(conv[d], z), d, z, own, of2)'
      BY <1>c, <3>8 DEF RootSane
    <3> QED
      BY <1>c, <1>v, <3>5, <3>6, <3>7, <3>9 DEF EntrySane
  <2>2. EntrySane(x, own, of2)'
    <3>1. ASSUME NEW z \in Roots(conv[x]) PROVE RootSane(Get(conv[x], z), x, z, own, of2)'
      <4> DEFINE a == Get(conv[x], z)
      <4>1. a.s \in Session /\ Sane(a.s, of, sealed) /\ RootSane(a, x, z, own, of)
        BY <1>1, <3>1, RootFacts
      <4> HIDE DEF a
      <4>2. Sane(a.s, of2, sealed')
        BY <1>3, <1>7, <4>1, SaneLater
      <4>3. Get(conv'[x], z) = a
        BY <1>1 DEF a
      <4> QED
        BY <4>1, <4>2, <4>3 DEF RootSane
    <3>2. own[x] <= sealed' /\ opened'[x] \subseteq 1..sealed'
      <4>1. own[x] <= sealed /\ own[x] \in Nat
        BY <1>1, <1>2 DEF EntrySane
      <4> QED
        BY <1>3, <1>o, <4>1
    <3> QED
      BY <1>1, <1>2, <3>1, <3>2 DEF EntrySane
  <2> QED
    BY <1>1, <2>1, <2>2 DEF EntriesSane
<1>13. RootsLinked(of2)'
  <2> SUFFICES ASSUME NEW y \in Device, NEW z \in Roots(conv'[y]) \cap Roots(conv'[Peer(y)])
               PROVE  RootLinked(y, z, of2)'
    BY DEF RootsLinked
  <2>1. CASE y = d /\ z = r
    <3> DEFINE b == Get(conv[x], r)
               q == b.s
    <3>0. r \in Roots(conv[x])
      BY <1>1, <1>c, <2>1
    <3>1. /\ q \in Session /\ Sane(q, of, sealed) /\ Linked(s, q)
          /\ \A g \in Transit : g.from = d /\ of[g.f.chain] = r => Flows(s, q, g.f) /\ Arrives(g, b)
      BY <1>b, <3>0
    <3> HIDE DEF q, b
    <3>2. /\ Linked(u, q) /\ Flows(u, q, f) /\ ~Spent(q, f)
          /\ \A i \in Frame : i.chain # 0 /\ i.chain <= sealed /\ Flows(s, q, i) => Flows(u, q, i)
      BY <1>3, <1>5, <1>8, <3>1, LinkSent
    <3>3. ASSUME NEW g \in Transit, g.from = d, of2[g.f.chain] = r
          PROVE  Flows(u, q, g.f) /\ Arrives(g, b)
      <4>1. g.f \in Frame /\ g.f.chain \in 1..sealed /\ of[g.f.chain] = r
        BY <1>9, <3>3
      <4>2. g.f.chain # 0 /\ g.f.chain <= sealed
        BY <1>3, <4>1
      <4> QED
        BY <3>1, <3>2, <3>3, <4>1, <4>2
    <3>4. Get(conv'[x], r) = b /\ Get(conv'[d], r).s = u /\ q = b.s
      BY <1>1, <1>c, <1>d DEF b, q
    <3>5. ASSUME NEW g \in Transit', g.from = d, of2[g.f.chain] = r
          PROVE  /\ Flows(u, q, g.f) /\ (g.id \in opened[x] <=> Spent(q, g.f))
                 /\ Spent(q, g.f) => g.at <= HeardAt(conv[x])
      <4>1. CASE g = m
        BY <1>c, <1>o, <3>2, <4>1
      <4>2. CASE g \in Transit
        BY <1>c, <3>3, <3>4, <3>5, <4>2 DEF Arrives
      <4> QED
        BY <1>e, <4>1, <4>2
    <3> QED
      BY <1>1, <1>c, <1>e, <2>1, <3>2, <3>4, <3>5 DEF RootLinked, Arrives
  <2>2. CASE y = x /\ z = r
    <3> DEFINE b == Get(conv[x], r)
               q == b.s
    <3>0. r \in Roots(conv[x])
      BY <1>1, <1>c, <2>2
    <3>1. /\ q \in Session /\ Sane(q, of, sealed) /\ Linked(s, q)
          /\ \A g \in Transit : g.from = x /\ of[g.f.chain] = r => Flows(q, s, g.f) /\ Arrives(g, h)
      BY <1>b, <3>0
    <3> HIDE DEF q, b
    <3>2. Linked(q, u) /\ \A i \in Frame : Flows(q, s, i) => Flows(q, u, i)
      <4>1. Linked(u, q) /\ \A i \in Frame : Flows(q, s, i) => Flows(q, u, i)
        BY <1>3, <1>5, <1>8, <3>1, LinkSent
      <4> QED
        BY <4>1 DEF Linked
    <3>3. \A i : Spent(u, i) <=> Spent(s, i)
      BY <1>6 DEF Spent, Passed, Banked
    <3>4. Get(conv'[x], r) = b /\ Get(conv'[d], r) = k /\ q = b.s
      BY <1>1, <1>c, <1>d DEF b, q
    <3>5. ASSUME NEW g \in Transit', g.from = x, of2[g.f.chain] = r
          PROVE  /\ Flows(q, u, g.f) /\ (g.id \in opened[d] <=> Spent(u, g.f))
                 /\ Spent(u, g.f) => g.at <= HeardAt(c)
      <4>1. g \in Transit
        BY <1>1, <1>e, <1>m, <3>5
      <4>2. g.f \in Frame /\ of[g.f.chain] = r
        BY <1>9, <3>5, <4>1
      <4>3. Flows(q, s, g.f) /\ Arrives(g, h)
        BY <3>1, <3>5, <4>1, <4>2
      <4> QED
        BY <1>1, <1>c, <1>d, <3>2, <3>3, <3>5, <4>2, <4>3 DEF Arrives
    <3> QED
      BY <1>1, <1>c, <1>d, <1>e, <1>v, <2>2, <3>2, <3>4, <3>5 DEF RootLinked, Arrives
  <2>3. CASE z # r
    <3> DEFINE w == Peer(y)
    <3>1. w \in Device /\ ((y = x /\ w = d) \/ (y = d /\ w = x))
      BY <1>1, <1>c
    <3> HIDE DEF w
    <3>w. w = Peer(y)
      BY DEF w
    <3>2. z \in Roots(conv[y]) /\ z \in Roots(conv[w])
      BY <1>1, <1>c, <1>v, <3>1, <3>w
    <3>3. RootLinked(y, z, of)
      BY <3>2, <3>w DEF Core, RootsLinked
    <3>4. Get(conv'[y], z) = Get(conv[y], z) /\ Get(conv'[w], z) = Get(conv[w], z)
      BY <1>1, <1>c, <1>v, <2>3, <3>1, <3>2
    <3>5. HeardAt(conv'[w]) = HeardAt(conv[w])
      BY <1>1, <1>c, <1>v, <3>1
    <3>6. ASSUME NEW g \in Transit', of2[g.f.chain] = z PROVE g \in Transit /\ of[g.f.chain] = z
      BY <1>7, <1>9, <1>c, <1>e, <2>3, <3>6
    <3> QED
      BY <1>e, <3>3, <3>4, <3>5, <3>6, <3>w DEF RootLinked, Arrives
  <2> QED
    BY <1>1, <2>1, <2>2, <2>3
<1>g. ASSUME NEW g \in Transit', of2[g.f.chain] # r PROVE g \in Transit /\ of2[g.f.chain] = of[g.f.chain]
  BY <1>7, <1>9, <1>c, <1>e, <1>g
<1>r. own[d] # 0 => own[d] # own[x]
  BY <1>2, <1>c DEF EntrySane
<1>14. RootsUnheard(own, of2)'
  <2>1. Unheard(d, own, of2)'
    <3> SUFFICES ASSUME own[d] # 0, own[d] \notin Roots(conv[x])
                 PROVE  LET a == Get(e, own[d])
                        IN  /\ a.s.recv = 0
                            /\ \A g \in Transit' : of2[g.f.chain] = own[d] =>
                                  /\ g.f.chain = own[d] /\ g.f.n < a.s.ns /\ g.f.pn = a.s.pn
                                  /\ g.id \notin opened[x]
      BY <1>1, <1>c, <1>e DEF Unheard
    <3>1. own[d] \in Roots(c) /\ Unheard(d, own, of)
      BY <1>2, <1>c DEF Core, RootsUnheard, EntrySane
    <3>2. CASE own[d] # r
      <4>1. Get(e, own[d]) = Get(c, own[d])
        BY <1>v, <3>1, <3>2
      <4> QED
        BY <1>c, <1>g, <3>1, <3>2, <4>1 DEF Unheard
    <3>3. CASE own[d] = r
      <4>1. /\ s.recv = 0
            /\ \A g \in Transit : of[g.f.chain] = r =>
                  /\ g.f.chain = r /\ g.f.n < s.ns /\ g.f.pn = s.pn
                  /\ g.id \notin opened[x]
        BY <1>c, <1>d, <3>1, <3>3 DEF Unheard
      <4>2. f.chain = r
        BY <1>4, <1>p, <4>1
      <4>3. f.n < u.ns /\ f.pn = u.pn /\ u.recv = 0 /\ id \notin opened[x]
        BY <1>4, <1>6, <1>o, <1>s, <4>1
      <4>4. ASSUME NEW g \in Transit, of2[g.f.chain] = r
            PROVE  /\ g.f.chain = r /\ g.f.n < u.ns /\ g.f.pn = u.pn /\ g.id \notin opened[x]
        <5>1. of[g.f.chain] = r /\ g.f \in Frame
          BY <1>9, <4>4
        <5>2. g.f.n \in Nat /\ g.f.n < s.ns
          BY <4>1, <5>1 DEF Frame
        <5> QED
          BY <1>6, <1>s, <4>1, <5>1, <5>2
      <4> QED
        BY <1>c, <1>d, <1>e, <3>3, <4>2, <4>3, <4>4
    <3> QED
      BY <3>2, <3>3
  <2>2. Unheard(x, own, of2)'
    <3> SUFFICES ASSUME own[x] # 0, own[x] \notin Roots(c)
                 PROVE  LET a == Get(conv[x], own[x])
                        IN  /\ a.s.recv = 0
                            /\ \A g \in Transit' : of2[g.f.chain] = own[x] =>
                                  /\ g.f.chain = own[x] /\ g.f.n < a.s.ns /\ g.f.pn = a.s.pn
                                  /\ g.id \notin opened[d]
      BY <1>1, <1>c, <1>e, <1>v DEF Unheard
    <3>1. Unheard(x, own, of) /\ own[x] # r
      BY <1>1, <1>v DEF Core, RootsUnheard
    <3> QED
      BY <1>1, <1>c, <1>g, <3>1 DEF Unheard
  <2> QED
    BY <1>1, <2>1, <2>2 DEF RootsUnheard
<1>15. OneSided(d, own, of2)'
  <2> SUFFICES ASSUME own[d] # 0, own[x] # 0, own[x] \notin Roots(c), own[d] \in Roots(conv[x])
               PROVE  OneSided(d, own, of2)'
    BY <1>1, <1>c, <1>v DEF OneSided
  <2>1. r = own[d] /\ OneSided(d, own, of)
    BY <1>8, <1>v DEF Core, RootsOneSided
  <2>2. Get(conv'[d], own[d]).s.recv = Get(conv[d], own[d]).s.recv
    BY <1>6, <1>c, <1>d, <2>1
  <2>3. ASSUME NEW g \in Transit', g.from = x
        PROVE  g \in Transit /\ of2[g.f.chain] = of[g.f.chain]
    BY <1>1, <1>9, <1>e, <1>m, <2>3
  <2>4. Older(x, own[x], own[d], of) => Older(x, own[x], own[d], of2)'
    BY <2>3 DEF Older
  <2>5. Overtaken(d, x, own[x], of) => Overtaken(d, x, own[x], of2)'
    BY <1>c, <1>e, <1>v, <2>3 DEF Overtaken
  <2> QED
    BY <1>1, <1>c, <2>1, <2>2, <2>4, <2>5 DEF OneSided
<1>16. OneSided(x, own, of2)'
  <2> SUFFICES ASSUME own[x] # 0, own[d] # 0, own[d] \notin Roots(conv[x]), own[x] \in Roots(c)
               PROVE  OneSided(x, own, of2)'
    BY <1>1, <1>c, <1>v DEF OneSided
  <2>1. OneSided(x, own, of)
    BY <1>1 DEF Core, RootsOneSided
  <2>2. CASE /\ r = own[d]
             /\ Get(c, own[x]).s.send = 0 /\ Get(conv[x], own[x]).s.recv = 0
    <3>1. Get(e, own[x]) = Get(c, own[x])
      BY <1>r, <1>v, <2>2
    <3> QED
      BY <1>1, <1>c, <1>v, <2>2, <3>1 DEF OneSided
  <2>3. CASE /\ r = own[x] /\ Older(d, own[d], own[x], of)
             /\ Get(conv[x], own[x]).s.recv # 0 => Overtaken(x, d, own[d], of)
    <3>1. ASSUME NEW g \in Transit', of2[g.f.chain] = own[d]
          PROVE  g \in Transit /\ of[g.f.chain] = own[d]
      BY <1>g, <1>r, <2>3, <3>1
    <3>2. ASSUME NEW g \in Transit', g.from = d, of2[g.f.chain] = own[d],
                 NEW i \in Transit', i.from = d, of2[i.f.chain] = own[x]
          PROVE  g.id < i.id /\ g.at <= i.at
      <4>1. g \in Transit /\ of[g.f.chain] = own[d]
        BY <3>1, <3>2
      <4>2. CASE i \in Transit
        <5>1. of[i.f.chain] = own[x]
          BY <1>9, <3>2, <4>2
        <5> QED
          BY <2>3, <3>2, <4>1, <4>2, <5>1 DEF Older
      <4>3. CASE i = m
        <5>1. g.id \in 1..sealed /\ g.at \in Nat /\ g.at <= now
          BY <1>9, <4>1
        <5> QED
          BY <1>3, <1>c, <1>n, <4>3, <5>1
      <4> QED
        BY <1>e, <4>2, <4>3
    <3>3. Older(d, own[d], own[x], of2)'
      BY <3>2 DEF Older
    <3>4. Get(conv[x], own[x]).s.recv # 0 => Overtaken(x, d, own[d], of2)'
      BY <1>1, <1>e, <2>3, <3>1 DEF Overtaken
    <3> QED
      BY <1>1, <1>c, <1>v, <2>3, <3>3, <3>4 DEF OneSided
  <2> QED
    BY <1>1, <1>c, <1>v, <2>1, <2>2, <2>3 DEF OneSided, r
<1>17. RootsOneSided(own, of2)'
  BY <1>1, <1>15, <1>16 DEF RootsOneSided
<1> QED
  BY <1>10, <1>11, <1>12, <1>13, <1>14, <1>17 DEF Core

-----------------------------------------------------------------------------
(* What is not opened.                                                     *)

(* The roots of an entry and their places in it.                           *)
LEMMA Places ==
    ASSUME ConvTypes, NEW own, NEW of, Core(own, of), NEW d \in Device
    PROVE  LET c == conv[d]
           IN  /\ c \in Entry /\ Distinct(c)
               /\ \A i \in DOMAIN c : c[i].s.root \in Roots(c) /\ Get(c, c[i].s.root) = c[i]
               /\ \A r \in Roots(c) : \E i \in DOMAIN c : c[i].s.root = r /\ Get(c, r) = c[i]
               /\ c # <<>> => Main(c) \in Roots(c) /\ Get(c, Main(c)) = c[1] /\ 1 \in DOMAIN c
               /\ c = <<>> => Roots(c) = {}
<1>1. conv[d] \in Entry /\ Distinct(conv[d])
  BY TransitTypes DEF Core, EntriesSane, EntrySane
<1> QED
  BY <1>1, GetIs, HeldFacts, EntryFirst

(* A payload not opened whose root its receiver holds: a prologue is too far  *)
(* into its chain, a frame answers from beyond too wide a gap.             *)
LEMMA HeldNotOpened ==
    ASSUME ConvTypes, NEW own \in [Device -> Nat], NEW of \in [Nat -> Nat], Core(own, of),
           NEW m \in Transit, NEW d \in Device, d = Peer(m.from),
           of[m.f.chain] \in Roots(conv[d]), ~OpensHeld(conv[d], m), m.id \notin opened[d]
    PROVE  /\ m.prologue => ~AcceptFits(m.f)
           /\ ~m.prologue => GapTooWide(conv[d], m)
<1> DEFINE r == of[m.f.chain]
           c == conv[d]
           p == Get(conv[m.from], r).s
           q == Get(c, r).s
           f == m.f
<1>1. /\ p \in Session /\ q \in Session /\ p.root = r /\ q.root = r
      /\ Sane(p, of, sealed) /\ Sane(q, of, sealed) /\ Linked(p, q) /\ Flows(p, q, f)
      /\ ~Spent(q, f)
  BY OpenedEnds
<1>2. PICK i \in DOMAIN c : Get(c, r) = c[i]
  <2>1. r \in Roots(c)
    OBVIOUS
  <2>2. Distinct(c)
    BY DEF Core, EntriesSane, EntrySane
  <2>3. \A z \in Roots(c) : \E i \in DOMAIN c : Get(c, z) = c[i]
    BY <2>2, GetIs
  <2> QED
    BY <2>1, <2>3
<1>3. ~Opens(q, f)
  BY <1>2 DEF OpensHeld
<1>4. sealed \in Nat /\ f \in Frame /\ m.from \in Device /\ Peer(d) = m.from /\ PayloadSane(m, own, of)
  <2>1. f \in Frame /\ m.from \in Device /\ PayloadSane(m, own, of)
    BY TransitFacts
  <2>2. Peer(d) = m.from
    BY <2>1, PeerFacts
  <2>3. sealed \in Nat
    BY Constants DEF ConvTypes
  <2> QED
    BY <2>1, <2>2, <2>3
<1>5. /\ m.prologue <=> f.chain = r
      /\ f.base = 0 <=> f.chain = r
      /\ m.prologue => r = own[m.from]
  BY <1>4 DEF PayloadSane
<1>6. RootSane(Get(c, r), d, r, own, of)
  <2> HIDE DEF r
  <2>1. r \in Roots(c)
    BY DEF r
  <2> QED
    BY <2>1, RootFacts
<1> HIDE DEF r, p, q, f, c
<1>7. ASSUME m.prologue PROVE ~AcceptFits(f)
  <2>1. q.recv # 0
    BY <1>4, <1>5, <1>6, <1>7 DEF RootSane, HeardRoot, q
  <2> QED
    BY <1>1, <1>3, <1>4, <1>5, <1>7, <2>1, PrologueOutcome
<1>8. ASSUME ~m.prologue PROVE GapTooWide(c, m)
  <2>1. Answers(q, f) /\ ~TurnsEpoch(q, f)
    BY <1>1, <1>3, <1>4, <1>5, <1>8, FrameOutcome
  <2> QED
    BY <1>2, <2>1 DEF GapTooWide, q, f
<1> QED
  BY <1>7, <1>8 DEF f, c

(* A payload of a root the device does not hold begins that root.             *)
Unheld(d, m, own, of) ==
    /\ m.prologue /\ of[m.f.chain] = m.f.chain
    /\ conv[d] # <<>> => Main(conv[d]) = own[d] /\ conv[d][1].proven /\ Roots(conv[d]) = {own[d]}
    /\ conv[d] # <<>> /\ ~conv[d][1].pending =>
          m.at <= HeardAt(conv[d]) /\ \E i \in opened[d] : i > m.id

(* A payload whose root its receiver does not hold: it is a prologue that no  *)
(* root of the entry takes for its own; and unless the entry can be displaced *)
(* later payloads of its sender have overtaken it.                         *)
LEMMA UnheldNotOpened ==
    ASSUME ConvTypes, NEW own \in [Device -> Nat], NEW of \in [Nat -> Nat], Core(own, of),
           NEW m \in Transit, NEW d \in Device, d = Peer(m.from),
           of[m.f.chain] \notin Roots(conv[d])
    PROVE  LET c == conv[d]
           IN  /\ m.prologue /\ m.f.chain = own[m.from] /\ of[m.f.chain] = m.f.chain
               /\ m.id \notin opened[d]
               /\ ~OpensHeld(c, m) /\ ~UnavailableHeld(c, m) /\ ~Recognizes(c, m)
               /\ c # <<>> => Main(c) = own[d] /\ c[1].proven /\ Roots(c) = {own[d]}
               /\ c # <<>> /\ ~c[1].pending =>
                     m.at <= HeardAt(c) /\ \E i \in opened[d] : i > m.id
               /\ Unheld(d, m, own, of)
<1> DEFINE r == of[m.f.chain]
           c == conv[d]
           x == m.from
           f == m.f
<1>1. /\ x \in Device /\ f \in Frame /\ r \in Nat /\ r # 0 /\ r \in Roots(conv[x])
      /\ PayloadSane(m, own, of) /\ m.id \in Nat
  BY TransitFacts
<1>2. /\ Peer(d) = x /\ x # d
  BY <1>1, PeerFacts
<1>3. sealed \in Nat /\ opened[d] \subseteq Nat
  BY Constants DEF ConvTypes, HistoryTypes
<1>4. /\ c \in Entry
      /\ \A i \in DOMAIN c : c[i].s.root \in Roots(c) /\ Get(c, c[i].s.root) = c[i]
      /\ c # <<>> => Main(c) \in Roots(c) /\ Get(c, Main(c)) = c[1]
  BY Places
<1>5. \A z \in Roots(conv[x]) : z = own[x] \/ z = own[d]
  <2>1. \A z \in Roots(conv[x]) : RootSane(Get(conv[x], z), x, z, own, of)
    BY <1>1, RootFacts
  <2> QED
    BY <2>1 DEF RootSane
<1>6. \A z \in Roots(c) : /\ z = own[x] \/ z = own[d]
                          /\ z # 0 /\ z \in Nat /\ RootSane(Get(c, z), d, z, own, of)
                          /\ Get(c, z).s \in Session /\ Sane(Get(c, z).s, of, sealed)
                          /\ Get(c, z).s.root = z
  <2>1. \A z \in Roots(c) : /\ z # 0 /\ z \in Nat /\ RootSane(Get(c, z), d, z, own, of)
                             /\ Get(c, z).s \in Session /\ Sane(Get(c, z).s, of, sealed)
                             /\ Get(c, z).s.root = z
    BY RootFacts
  <2> QED
    BY <1>2, <2>1 DEF RootSane
<1>7. EntrySane(d, own, of) /\ EntrySane(x, own, of)
  BY <1>1 DEF Core, EntriesSane
<1> HIDE DEF r, c, x, f
<1>c. r = of[f.chain] /\ c = conv[d] /\ x = m.from /\ f = m.f /\ r \notin Roots(c)
  BY DEF r, c, x, f
<1>8. r = own[x]
  <2>1. own[d] # 0 => own[d] \in Roots(c)
    BY <1>7, <1>c DEF EntrySane
  <2> QED
    BY <1>1, <1>5, <1>c, <2>1
<1>9. Unheard(x, own, of)
  BY <1>1 DEF Core, RootsUnheard
<1>10. f.chain = r /\ m.id \notin opened[d]
  BY <1>1, <1>2, <1>8, <1>9, <1>c DEF Unheard
<1>11. m.prologue /\ f.chain = own[x] /\ of[f.chain] = f.chain
  BY <1>1, <1>8, <1>10, <1>c DEF PayloadSane
<1>12. f.chain # 0 /\ (f.base # 0 => of[f.base] = of[f.chain])
  BY <1>1, <1>10, <1>c DEF PayloadSane
<1>13. ASSUME NEW i \in DOMAIN c
       PROVE  ~Opens(c[i].s, f) /\ ~Unavailable(c[i].s, f) /\ c[i].s.root # f.chain
  <2> DEFINE q == c[i].s
  <2>1. q.root \in Roots(c) /\ q \in Session /\ Sane(q, of, sealed)
    BY <1>4, <1>6
  <2> HIDE DEF q
  <2>2. q.root # r
    BY <1>c, <2>1
  <2>3. ~Opens(q, f)
    BY <1>1, <1>3, <1>12, <1>c, <2>1, <2>2, OpensRoot
  <2>4. ~Unavailable(q, f)
    BY <1>1, <1>3, <1>12, <1>c, <2>1, <2>2, UnavailableRoot
  <2> QED
    BY <1>10, <2>2, <2>3, <2>4 DEF q
<1>14. ~OpensHeld(c, m) /\ ~UnavailableHeld(c, m) /\ ~Recognizes(c, m)
  BY <1>13, <1>c DEF OpensHeld, UnavailableHeld, Recognizes
<1>15. ASSUME c # <<>>
       PROVE  Main(c) = own[d] /\ c[1].proven /\ Roots(c) = {own[d]}
  <2>1. Roots(c) = {own[d]}
    <3>1. \A z \in Roots(c) : z = own[d]
      BY <1>6, <1>8, <1>c
    <3>2. Main(c) \in Roots(c)
      BY <1>4, <1>15
    <3> QED
      BY <3>1, <3>2
  <2>2. Main(c) = own[d] /\ own[d] # 0 /\ Get(c, own[d]) = c[1]
    BY <1>4, <1>6, <1>15, <2>1
  <2>3. OwnRoot(c[1])
    BY <1>6, <2>1, <2>2 DEF RootSane
  <2> QED
    BY <1>7, <2>1, <2>2, <2>3 DEF EntrySane, OwnRoot
<1>16. ASSUME c # <<>>, ~c[1].pending
       PROVE  m.at <= HeardAt(c) /\ \E i \in opened[d] : i > m.id
  <2>1. Main(c) = own[d] /\ Roots(c) = {own[d]} /\ own[d] # 0 /\ Get(c, own[d]) = c[1]
    BY <1>4, <1>6, <1>15, <1>16
  <2>2. OwnRoot(c[1])
    BY <1>6, <2>1 DEF RootSane
  <2>3. c[1].s.recv # 0
    BY <1>16, <2>2 DEF OwnRoot
  <2>4. own[d] \in Roots(conv[x])
    <3>1. Unheard(d, own, of)
      BY DEF Core, RootsUnheard
    <3> QED
      BY <1>2, <1>c, <2>1, <2>3, <3>1 DEF Unheard
  <2>5. OneSided(d, own, of)
    BY DEF Core, RootsOneSided
  <2>6. Overtaken(d, x, own[x], of)
    BY <1>1, <1>2, <1>8, <1>c, <2>1, <2>3, <2>4, <2>5 DEF OneSided
  <2>7. m.at <= HeardAt(c) /\ \E i \in opened[d] : m.id < i
    BY <1>8, <1>c, <2>6 DEF Overtaken
  <2> QED
    BY <1>1, <1>3, <2>7
<1>17. Unheld(d, m, own, of)
  BY <1>11, <1>15, <1>16, <1>c DEF Unheld
<1> QED
  BY <1>10, <1>11, <1>14, <1>15, <1>16, <1>17 DEF c, x, f

\* Why m may be refused at device d.
Reason(d, m) ==
    IF m.prologue THEN ~AcceptFits(m.f) \/ Unvouched(d) \/ \E i \in opened[d] : i > m.id
    ELSE GapTooWide(conv[d], m)

(* A refusal for a reason keeps the refusals excused.                      *)
LEMMA RefuseKeeps ==
    ASSUME Excused, NEW d, NEW m, Refuse(d, m), m.id \notin opened[d] => Reason(d, m)
    PROVE  Excused' /\ opened' = opened /\ whole' = whole
<1>1. /\ opened' = opened /\ whole' = whole /\ twice' = twice
      /\ m.id \in opened[d] \cup loose => refused' = refused
  BY DEF Refuse, RefusedNow
<1>2. ASSUME m.id \notin opened[d] \cup loose
      PROVE  refused' = refused \cup {[id |-> m.id, excused |-> Reason(d, m)]}
  BY <1>2 DEF Refuse, RefusedNow, Reason
<1>3. ASSUME m.id \notin opened[d] \cup loose, NEW r \in refused' PROVE r.excused
  <2>1. CASE r \in refused
    BY <2>1 DEF Excused
  <2>2. CASE r = [id |-> m.id, excused |-> Reason(d, m)]
    <3>1. r.excused = Reason(d, m)
      BY <2>2
    <3> QED
      BY <1>3, <3>1
  <2> QED
    BY <1>2, <1>3, <2>1, <2>2
<1>4. \A r \in refused' : r.excused
  BY <1>1, <1>3 DEF Excused
<1> QED
  BY <1>1, <1>4 DEF Excused

(* A delivery of what was not opened before keeps all excused.             *)
LEMMA DeliverKeeps ==
    ASSUME Excused, NEW d, NEW m, Deliver(d, m) \/ DeliverLoose(d, m), m.id \notin opened[d]
    PROVE  Excused' /\ whole' = whole
<1>1. HandUp(d, m) /\ UNCHANGED <<refused, whole>>
  BY DEF Deliver, DeliverLoose
<1>2. ASSUME NEW r \in twice' PROVE r.excused
  <2>1. r \in twice \/ r = [id |-> m.id, excused |-> m.id \notin opened[d]]
    BY <1>1, <1>2 DEF HandUp
  <2>2. CASE r \in twice
    BY <2>2 DEF Excused
  <2>3. CASE r = [id |-> m.id, excused |-> m.id \notin opened[d]]
    BY <2>3
  <2> QED
    BY <2>1, <2>2, <2>3
<1> QED
  BY <1>1, <1>2 DEF Excused

(* A prologue that does not open, is not known to be spent, and is of a root  *)
(* that is held.                                                           *)
LEMMA NotAvailable ==
    ASSUME NEW q \in Session, NEW of, NEW top \in Nat, NEW f \in Frame,
           Sane(q, of, top), q.recv # 0, f.chain = q.root, ~Opens(q, f), ~Unavailable(q, f)
    PROVE  ~AcceptFits(f) \/ (f.chain < q.recv /\ ~Banked(q, f))
<1>0. q.root \in Nat /\ q.recv \in Nat /\ q.nr \in Nat /\ f.n \in Nat /\ q.root <= q.recv
  BY DEF Session, Frame, Sane
<1>1. ~Banked(q, f)
  BY DEF Opens
<1>2. CASE f.chain < q.recv
  BY <1>1, <1>2
<1>3. CASE f.chain = q.recv
  <2>1. q.nr <= f.n
    BY <1>0, <1>3 DEF Unavailable
  <2>2. ~OnChain(q, f)
    BY DEF Opens
  <2> QED
    BY <1>3, <2>1, <2>2, AcceptedFits
<1> QED
  BY <1>0, <1>2, <1>3

(* A key that is spent is not banked again.                                *)
LEMMA StaysSpent ==
    ASSUME NEW q \in Session, NEW of, NEW top \in Nat, NEW f \in Frame, NEW g \in Frame,
           Sane(q, of, top), f.base < f.chain, Opens(q, f), g.chain < q.recv, ~Banked(q, g)
    PROVE  g.chain < Received(q, f).recv /\ ~Banked(Received(q, f), g)
<1> DEFINE u == Received(q, f)
<1>0. /\ q.recv \in Nat /\ q.nr \in Nat /\ f.chain \in Nat /\ f.n \in Nat /\ f.pn \in Nat
      /\ g.chain \in Nat /\ g.n \in Nat
  BY DEF Session, Frame
<1>1. CASE Banked(q, f)
  <2>1. u.recv = q.recv /\ u.skipped \subseteq q.skipped
    BY <1>1, ReceivedBanked
  <2> QED
    BY <2>1 DEF Banked
<1>2. CASE ~Banked(q, f) /\ OnChain(q, f)
  <2>1. u.recv = q.recv /\ u.skipped = q.skipped \cup Banks(f.chain, q.nr, f.n) /\ f.chain = q.recv
    BY <1>2, ReceivedOnChain DEF OnChain
  <2> HIDE DEF u
  <2>2. <<g.chain, g.n>> \notin Banks(f.chain, q.nr, f.n)
    BY <1>0, <2>1, BanksMember
  <2> QED
    BY <2>1, <2>2 DEF Banked, u
<1>3. CASE ~Banked(q, f) /\ ~OnChain(q, f)
  <2>1. /\ u.recv = f.chain
        /\ u.skipped = q.skipped \cup Banks(q.recv, q.nr, f.pn) \cup Banks(f.chain, 0, f.n)
    BY <1>3, ReceivedTurn
  <2>2. q.recv < f.chain
    BY <1>3, TurnIsLater DEF Opens, TurnsEpoch
  <2> HIDE DEF u
  <2>3. <<g.chain, g.n>> \notin Banks(q.recv, q.nr, f.pn) /\ <<g.chain, g.n>> \notin Banks(f.chain, 0, f.n)
    <3>1. 0 \in Nat /\ g.chain # q.recv /\ g.chain # f.chain
      BY <1>0, <2>2
    <3> QED
      BY <1>0, <3>1, BanksMember
  <2> QED
    BY <1>0, <2>1, <2>2, <2>3 DEF Banked, u
<1> QED
  BY <1>1, <1>2, <1>3

\* Entry e knows as much as c of what has been opened under root r.
Remembers(c, e, r) ==
    r \in Roots(e) =>
       LET k == Get(e, r)
           h == Get(c, r)
       IN  \/ k.accepted
           \/ /\ r \in Roots(c) /\ (h.accepted => k.accepted)
              /\ \A g \in Frame : g.chain < h.s.recv /\ ~Banked(h.s, g) =>
                    g.chain < k.s.recv /\ ~Banked(k.s, g)

(* The agreements after a step.                                            *)
LEMMA AgreementsKept ==
    ASSUME ConvTypes, NEW own \in [Device -> Nat], NEW of \in [Nat -> Nat], Core(own, of),
           \A t \in agreeing' :
              /\ AgreementSane(t) /\ t.m \in Transit
              /\ Remembers(conv[t.d], conv'[t.d], own[t.m.from])
    PROVE  AgreementsSane'
<1> SUFFICES ASSUME NEW t \in agreeing' PROVE AgreementSane(t)'
  BY DEF AgreementsSane
<1>1. AgreementSane(t) /\ t.m \in Transit /\ Remembers(conv[t.d], conv'[t.d], own[t.m.from])
  OBVIOUS
<1>2. t.m.prologue /\ (t.ask => t.known)
  BY <1>1 DEF AgreementSane
<1>3. t.m.f \in Frame /\ t.m.f.chain = own[t.m.from]
  <2>1. t.m.f \in Frame /\ PayloadSane(t.m, own, of)
    BY <1>1, TransitFacts
  <2> QED
    BY <1>2, <2>1 DEF PayloadSane
<1> QED
  BY <1>1, <1>2, <1>3 DEF AgreementSane, Remembers

(* An unchanged root remembers what it did.                                *)
LEMMA SameRemembers ==
    ASSUME NEW c, NEW e, NEW r, Roots(e) = Roots(c),
           r \in Roots(c) => Get(e, r).s = Get(c, r).s /\ Get(e, r).accepted = Get(c, r).accepted
    PROVE  Remembers(c, e, r)
  BY DEF Remembers

(* Opening makes no root forget what it has spent.                         *)
LEMMA OpenedRemembers ==
    ASSUME ConvTypes, NEW own \in [Device -> Nat], NEW of \in [Nat -> Nat], Core(own, of),
           NEW m \in Transit, NEW d \in Device, NEW known, NEW e,
           OpenedView(conv[d], e, m, known, of[m.f.chain]), NEW r
    PROVE  Remembers(conv[d], e, r)
<1> DEFINE c == conv[d]
           z == of[m.f.chain]
<1>1. /\ z \in Roots(c) /\ Opens(Get(c, z).s, m.f) /\ Roots(e) = Roots(c)
      /\ Get(e, z).s = Received(Get(c, z).s, m.f) /\ Get(e, z).accepted = Get(c, z).accepted
      /\ \A q \in Roots(c) : q # z => Get(e, q).s = Get(c, q).s /\ Get(e, q).accepted = Get(c, q).accepted
  BY DEF OpenedView
<1>2. CASE r # z
  BY <1>1, <1>2, SameRemembers
<1>3. CASE r = z
  <2>1. m.f \in Frame /\ PayloadSane(m, own, of)
    BY TransitFacts
  <2>2. m.f.base < m.f.chain
    BY <2>1 DEF PayloadSane
  <2>3. Get(c, z).s \in Session /\ Sane(Get(c, z).s, of, sealed)
    <3> HIDE DEF z
    <3> QED
      BY <1>1, RootFacts
  <2>4. sealed \in Nat
    BY Constants DEF ConvTypes
  <2> HIDE DEF z, c
  <2>5. ASSUME NEW g \in Frame, g.chain < Get(c, z).s.recv, ~Banked(Get(c, z).s, g)
        PROVE  g.chain < Get(e, z).s.recv /\ ~Banked(Get(e, z).s, g)
    BY <1>1, <2>1, <2>2, <2>3, <2>4, <2>5, StaysSpent
  <2>6. Remembers(c, e, z)
    BY <1>1, <2>5 DEF Remembers
  <2> QED
    BY <1>3, <2>6 DEF c
<1> QED
  BY <1>2, <1>3

(* The root of the peer's that is held, answered and not known again is alone, *)
(* and nothing takes its place.                                            *)
LEMMA AnsweredMain ==
    ASSUME ConvTypes, NEW own \in [Device -> Nat], NEW of \in [Nat -> Nat], Core(own, of),
           NEW d \in Device, NEW r \in Roots(conv[d]), r = own[Peer(d)],
           r < Get(conv[d], r).s.recv, ~Get(conv[d], r).accepted
    PROVE  conv[d][1].proven /\ ~conv[d][1].pending
<1> DEFINE c == conv[d]
           h == Get(c, r)
<1>1. h.s \in Session /\ h.s.root = r /\ RootSane(h, d, r, own, of)
  BY RootFacts
<1>2. c # <<>> /\ Main(c) \in Roots(c) /\ Get(c, Main(c)) = c[1]
  BY Places
<1> HIDE DEF c, h
<1>c. c = conv[d] /\ h = Get(c, r) /\ r \in Roots(c) /\ r < h.s.recv /\ ~h.accepted
  BY DEF c, h
<1>3. CASE Main(c) = r
  <2>1. HeardRoot(h) /\ c[1] = h
    BY <1>1, <1>2, <1>3, <1>c DEF RootSane
  <2>2. h.s.recv # r
    BY <1>1, <1>c DEF Session
  <2> QED
    BY <1>1, <1>c, <2>1, <2>2 DEF HeardRoot
<1>4. CASE Main(c) # r
  <2>1. h.accepted
    BY <1>2, <1>4, <1>c DEF Core, EntriesSane, EntrySane
  <2> QED
    BY <1>c, <2>1
<1> QED
  BY <1>3, <1>4

(* An agreement that begins now.                                           *)
LEMMA AgreementBegins ==
    ASSUME ConvTypes, NEW own \in [Device -> Nat], NEW of \in [Nat -> Nat], Core(own, of),
           NEW m \in Transit, NEW d \in Device, d = Peer(m.from), m.prologue,
           ~OpensHeld(conv[d], m), ~UnavailableHeld(conv[d], m),
           NEW t, t.d = d, t.m = m, t.ask => t.known,
           t.ask \/ conv[d] = <<>> \/ Displaceable(conv[d], m, t.known)
    PROVE  AgreementSane(t)
<1> DEFINE c == conv[d]
           f == m.f
           r == f.chain
           h == Get(c, r)
<1>1. f \in Frame /\ m.from \in Device /\ Peer(d) = m.from /\ PayloadSane(m, own, of)
  <2>1. f \in Frame /\ m.from \in Device /\ PayloadSane(m, own, of)
    BY TransitFacts
  <2> QED
    BY <2>1, PeerFacts
<1>2. r = own[m.from]
  BY <1>1 DEF PayloadSane
<1>3. sealed \in Nat
  BY Constants DEF ConvTypes
<1>4. ASSUME r \in Roots(c) PROVE ~AcceptFits(f) \/ (f.chain < h.s.recv /\ ~Banked(h.s, f))
  <2>1. /\ h.s \in Session /\ h.s.root = r /\ Sane(h.s, of, sealed) /\ RootSane(h, d, r, own, of)
    <3> HIDE DEF r
    <3> QED
      BY <1>4, RootFacts
  <2>2. h.s.recv # 0
    BY <1>1, <1>2, <2>1 DEF RootSane, HeardRoot
  <2>3. PICK i \in DOMAIN c : h = c[i]
    <3>1. Distinct(c)
      BY DEF Core, EntriesSane, EntrySane
    <3> QED
      BY <1>4, <3>1, GetIs
  <2>4. ~Opens(h.s, f) /\ ~Unavailable(h.s, f)
    BY <2>3 DEF OpensHeld, UnavailableHeld
  <2> HIDE DEF h
  <2> QED
    BY <1>1, <1>3, <2>1, <2>2, <2>4, NotAvailable
<1>5. ASSUME r \in Roots(c), ~h.accepted, f.chain < h.s.recv PROVE t.ask
  <2>1. c[1].proven /\ ~c[1].pending
    BY <1>1, <1>2, <1>5, AnsweredMain
  <2>2. c # <<>>
    BY <1>5, Places
  <2> QED
    BY <2>1, <2>2 DEF Displaceable
<1> QED
  BY <1>4, <1>5 DEF AgreementSane

-----------------------------------------------------------------------------
(* Steps that keep all of it.                                              *)

(* An agreement under way.                                                 *)
LEMMA AgreeingFacts ==
    ASSUME ConvTypes, AgreementsSane, NEW t \in agreeing
    PROVE  /\ t.d \in Device /\ t.m \in Transit /\ t.m.from \in Device /\ t.d = Peer(t.m.from)
           /\ Peer(t.d) = t.m.from /\ t.known \in BOOLEAN /\ AgreementSane(t)
<1>1. t \in Agreement /\ t.d = Peer(t.m.from)
  BY DEF ConvTypes
<1>2. t.d \in Device /\ t.m \in Payload /\ t.known \in BOOLEAN
  BY <1>1 DEF Agreement
<1>3. t.m.from \in Device
  BY <1>2, PayloadFacts
<1> QED
  BY <1>1, <1>2, <1>3, PeerFacts DEF Transit, AgreementsSane

(* A step that keeps the view of both entries keeps the invariant.         *)
LEMMA SoundKept ==
    ASSUME ConvTypes, NEW own \in [Device -> Nat], NEW of \in [Nat -> Nat], Sound(own, of),
           \A d \in Device : SameView(conv[d], conv'[d]),
           Transit' \subseteq Transit, UNCHANGED <<sealed, now, opened>>, Excused',
           \A t \in agreeing' :
              /\ AgreementSane(t) /\ t.m \in Transit /\ t.d \in Device
              /\ \A r \in Roots(conv[t.d]) : Get(conv'[t.d], r).accepted = Get(conv[t.d], r).accepted
    PROVE  Sound(own, of)'
<1>1. Core(own, of)
  BY DEF Sound
<1>2. Core(own, of)'
  BY <1>1, CoreKept
<1>3. ASSUME NEW t \in agreeing' PROVE Remembers(conv[t.d], conv'[t.d], own[t.m.from])
  <2>1. SameView(conv[t.d], conv'[t.d])
    BY <1>3
  <2> QED
    BY <1>3, <2>1, SameRemembers DEF SameView
<1>4. AgreementsSane'
  BY <1>1, <1>3, AgreementsKept
<1> QED
  BY <1>2, <1>4 DEF Sound

(* An entry has its own view.                                              *)
LEMMA SameViewSelf ==
    ASSUME ConvTypes, NEW own, NEW of, Core(own, of), NEW d \in Device
    PROVE  SameView(conv[d], conv[d])
<1>1. Distinct(conv[d])
  BY DEF Core, EntriesSane, EntrySane
<1> QED
  BY <1>1 DEF SameView

(* Entries alike agree on which roots were accepted from the peer.         *)
LEMMA AlikeAccepted ==
    ASSUME NEW c, NEW e, Distinct(c), Alike(c, e), \A i \in DOMAIN c : e[i].accepted = c[i].accepted,
           NEW r \in Roots(c)
    PROVE  Get(e, r).accepted = Get(c, r).accepted
<1>1. PICK i \in DOMAIN c : c[i].s.root = r /\ Get(c, r) = c[i]
  BY GetIs
<1>2. DOMAIN e = DOMAIN c /\ \A j \in DOMAIN c : e[j].s = c[j].s
  BY DEF Alike
<1>3. Distinct(e)
  BY <1>2 DEF Distinct
<1>4. Get(e, r) = e[i]
  BY <1>1, <1>2, <1>3, GetIs
<1> QED
  BY <1>1, <1>4

(* Opening with a held root keeps the invariant.                           *)
LEMMA SoundOpened ==
    ASSUME ConvTypes, conv' \in [Device -> Entry],
           NEW own \in [Device -> Nat], NEW of \in [Nat -> Nat], Sound(own, of),
           NEW m \in Transit, NEW d \in Device, d = Peer(m.from), NEW known \in BOOLEAN,
           OpensHeld(conv[d], m), Keep(d, OpenHeld(conv[d], m, known)), Deliver(d, m),
           agreeing' \subseteq agreeing, Transit' \subseteq Transit, UNCHANGED <<sealed, now>>
    PROVE  Sound(own, of)'
<1>1. Core(own, of) /\ AgreementsSane /\ Excused
  BY DEF Sound
<1>2. conv[d] \in Entry /\ Distinct(conv[d]) /\ m \in Payload /\ conv \in [Device -> Entry]
  BY <1>1, TransitTypes DEF Core, EntriesSane, EntrySane, ConvTypes
<1>3. ASSUME NEW q \in Roots(conv[d]), Opens(Get(conv[d], q).s, m.f) PROVE q = of[m.f.chain]
  <2>1. Get(conv[d], q).s \in Session /\ Get(conv[d], q).s.root = q /\ Sane(Get(conv[d], q).s, of, sealed)
    BY <1>1, RootFacts
  <2>2. m.f \in Frame /\ PayloadSane(m, own, of) /\ sealed \in Nat
    BY <1>1, TransitFacts, Constants DEF ConvTypes
  <2>3. m.f.chain # 0 /\ (m.f.base # 0 => of[m.f.base] = of[m.f.chain])
    BY <2>2 DEF PayloadSane
  <2> QED
    BY <1>3, <2>1, <2>2, <2>3, OpensRoot
<1>4. OpenedView(conv[d], OpenHeld(conv[d], m, known), m, known, of[m.f.chain])
  BY <1>2, <1>3, OpenedIsView
<1>5. conv'[d] = OpenHeld(conv[d], m, known) /\ \A e \in Device : e # d => conv'[e] = conv[e]
  BY <1>2 DEF Keep
<1>6. opened' = [opened EXCEPT ![d] = @ \cup {m.id}]
  BY DEF Deliver
<1>7. Core(own, of)' /\ m.id \notin opened[d]
  BY <1>1, <1>4, <1>5, <1>6, CoreOpened
<1>8. Excused'
  BY <1>1, <1>7, DeliverKeeps
<1>9. ASSUME NEW t \in agreeing'
      PROVE  AgreementSane(t) /\ t.m \in Transit /\ Remembers(conv[t.d], conv'[t.d], own[t.m.from])
  <2>1. AgreementSane(t) /\ t.m \in Transit /\ t.d \in Device
    BY <1>1, AgreeingFacts
  <2>2. CASE t.d = d
    <3>1. \A r : Remembers(conv[d], OpenHeld(conv[d], m, known), r)
      BY <1>1, <1>4, OpenedRemembers
    <3> QED
      BY <1>5, <2>1, <2>2, <3>1
  <2>3. CASE t.d # d
    BY <1>5, <2>1, <2>3, SameRemembers
  <2> QED
    BY <2>1, <2>2, <2>3
<1>10. AgreementsSane'
  BY <1>1, <1>9, AgreementsKept
<1> QED
  BY <1>7, <1>8, <1>10 DEF Sound

(* Accepting a prologue keeps the invariant.                               *)
LEMMA SoundAccepted ==
    ASSUME ConvTypes, conv' \in [Device -> Entry],
           NEW own \in [Device -> Nat], NEW of \in [Nat -> Nat], Sound(own, of),
           NEW m \in Transit, NEW d \in Device, d = Peer(m.from), m.prologue,
           m.f.chain \notin Roots(conv[d]), NEW e, AcceptedView(conv[d], e, m),
           Keep(d, e), Deliver(d, m),
           agreeing' \subseteq agreeing, Transit' \subseteq Transit, UNCHANGED <<sealed, now>>
    PROVE  Sound(own, of)'
<1>1. Core(own, of) /\ AgreementsSane /\ Excused
  BY DEF Sound
<1>2. conv'[d] = e /\ \A x \in Device : x # d => conv'[x] = conv[x]
  BY DEF Keep, ConvTypes
<1>3. opened' = [opened EXCEPT ![d] = @ \cup {m.id}]
  BY DEF Deliver
<1>4. Core(own, of)' /\ m.id \notin opened[d]
  BY <1>1, <1>2, <1>3, CoreAccepted
<1>5. Excused'
  BY <1>1, <1>4, DeliverKeeps
<1>6. m.f.chain = own[m.from] /\ Peer(d) = m.from
  <2>1. PayloadSane(m, own, of) /\ m.from \in Device
    BY <1>1, TransitFacts
  <2> QED
    BY <2>1, PeerFacts DEF PayloadSane
<1>7. ASSUME NEW t \in agreeing'
      PROVE  AgreementSane(t) /\ t.m \in Transit /\ Remembers(conv[t.d], conv'[t.d], own[t.m.from])
  <2>1. AgreementSane(t) /\ t.m \in Transit /\ t.d \in Device /\ Peer(t.d) = t.m.from
    BY <1>1, AgreeingFacts
  <2>2. CASE t.d = d
    <3>1. own[t.m.from] = m.f.chain
      BY <1>6, <2>1, <2>2
    <3>2. Get(e, m.f.chain).accepted
      BY DEF AcceptedView
    <3> QED
      BY <1>2, <2>1, <2>2, <3>1, <3>2 DEF Remembers
  <2>3. CASE t.d # d
    BY <1>2, <2>1, <2>3, SameRemembers
  <2> QED
    BY <2>1, <2>2, <2>3
<1>8. AgreementsSane'
  BY <1>1, <1>7, AgreementsKept
<1> QED
  BY <1>4, <1>5, <1>8 DEF Sound

(* open_inner up to the key agreement.                                     *)
LEMMA OpenSound ==
    ASSUME ConvTypes, conv' \in [Device -> Entry],
           NEW own \in [Device -> Nat], NEW of \in [Nat -> Nat], Sound(own, of),
           NEW m \in net, NEW d \in Device, d = Peer(m.from), Open(d, m),
           net' \subseteq net, UNCHANGED <<now, sealed>>, whole'
    PROVE  Sound(own, of)'
<1> DEFINE c == conv[d]
           Still(x) == \A r \in Roots(conv[x]) : Get(conv'[x], r).accepted = Get(conv[x], r).accepted
           Steady == \A x \in Device : SameView(conv[x], conv'[x]) /\ Still(x)
<1>0. Core(own, of) /\ AgreementsSane /\ Excused /\ m \in Transit
  BY DEF Sound, Transit
<1>1. /\ c \in Entry /\ Distinct(c) /\ m \in Payload /\ m.prologue \in BOOLEAN /\ cert[d] \in BOOLEAN
      /\ conv \in [Device -> Entry] /\ now \in Nat
  BY <1>0, TransitTypes, PayloadFacts DEF Core, EntriesSane, EntrySane, ConvTypes
<1>2. agreeing' = agreeing => Transit' \subseteq Transit
  BY DEF Transit
<1>3. ASSUME conv' = conv PROVE Steady
  BY <1>0, <1>3, SameViewSelf
<1>4. ASSUME NEW e, Keep(d, e), e \in Entry, Alike(c, e), \A i \in DOMAIN c : e[i].accepted = c[i].accepted
      PROVE  Steady
  <2>1. conv'[d] = e /\ \A x \in Device : x # d => conv'[x] = conv[x]
    BY <1>1, <1>4 DEF Keep
  <2>2. SameView(c, e)
    BY <1>1, <1>4, AlikeView
  <2>3. \A r \in Roots(c) : Get(e, r).accepted = Get(c, r).accepted
    BY <1>1, <1>4, AlikeAccepted
  <2> QED
    BY <1>0, <2>1, <2>2, <2>3, SameViewSelf
<1>5. ASSUME Refuse(d, m), Steady, UNCHANGED <<agreeing, cert>>, m.id \notin opened[d] => Reason(d, m)
      PROVE  Sound(own, of)'
  <2>1. Excused' /\ opened' = opened
    BY <1>0, <1>5, RefuseKeeps
  <2>2. ASSUME NEW t \in agreeing' PROVE AgreementSane(t) /\ t.m \in Transit /\ t.d \in Device /\ Still(t.d)
    <3>1. t \in agreeing
      BY <1>5
    <3>2. AgreementSane(t) /\ t.m \in Transit /\ t.d \in Device
      BY <1>0, <3>1, AgreeingFacts
    <3> QED
      BY <1>5, <3>2
  <2>3. \A x \in Device : SameView(conv[x], conv'[x])
    BY <1>5
  <2>4. UNCHANGED <<sealed, now, opened>>
    BY <1>5, <2>1
  <2> QED
    BY <1>2, <1>5, <2>1, <2>2, <2>3, <2>4, SoundKept
<1>6. ASSUME of[m.f.chain] \in Roots(c), ~OpensHeld(c, m), m.id \notin opened[d]
      PROVE  Reason(d, m)
  BY <1>0, <1>1, <1>6, HeldNotOpened DEF Reason
<1>7. ASSUME OpensHeld(c, m), Keep(d, OpenHeld(c, m, cert[d])), Deliver(d, m), UNCHANGED <<agreeing, cert>>
      PROVE  Sound(own, of)'
  BY <1>0, <1>1, <1>2, <1>7, SoundOpened
<1>8. ASSUME c = <<>>, ~m.prologue, Refuse(d, m), UNCHANGED <<conv, agreeing, cert>>
      PROVE  Sound(own, of)'
  <2>1. of[m.f.chain] \notin Roots(c)
    BY <1>8, EntryRoots
  <2> QED
    BY <1>0, <1>8, <2>1, UnheldNotOpened
<1>9. ASSUME NEW ask \in BOOLEAN, StartAgreement(d, m, ask), m.prologue, ~OpensHeld(c, m),
             ~UnavailableHeld(c, m), ask => cert[d], Steady, UNCHANGED cert,
             ask \/ c = <<>> \/ Displaceable(c, m, cert[d])
      PROVE  Sound(own, of)'
  <2>1. PICK k \in Thread :
           agreeing' = agreeing \cup {[d |-> d, thread |-> k, m |-> m, known |-> cert[d], ask |-> ask]}
    <3>1. StartAgreement(d, m, ask)
      BY <1>9
    <3> HIDE DEF Steady
    <3> QED
      BY <1>1, <3>1, AgreementTypes
  <2> DEFINE n == [d |-> d, thread |-> k, m |-> m, known |-> cert[d], ask |-> ask]
  <2>2. /\ n.d = d /\ n.m = m /\ (n.ask => n.known)
        /\ n.ask \/ c = <<>> \/ Displaceable(c, m, n.known)
    BY <1>9
  <2>3. agreeing' = agreeing \cup {n}
    BY <2>1
  <2> HIDE DEF n
  <2>4. AgreementSane(n)
    BY <1>0, <1>9, <2>2, AgreementBegins
  <2>5. Transit' \subseteq Transit
    BY <1>0, <2>2, <2>3 DEF Transit
  <2>6. UNCHANGED history
    BY <1>9 DEF StartAgreement
  <2>7. Excused' /\ opened' = opened
    BY <1>0, <2>6 DEF history, Excused
  <2>8. ASSUME NEW t \in agreeing' PROVE AgreementSane(t) /\ t.m \in Transit /\ t.d \in Device /\ Still(t.d)
    <3>1. AgreementSane(t) /\ t.m \in Transit /\ t.d \in Device
      <4>1. CASE t = n
        BY <1>0, <2>2, <2>4, <4>1
      <4>2. CASE t \in agreeing
        BY <1>0, <4>2, AgreeingFacts
      <4> QED
        BY <2>3, <4>1, <4>2
    <3> QED
      BY <1>9, <3>1
  <2>9. \A x \in Device : SameView(conv[x], conv'[x])
    BY <1>9
  <2>10. UNCHANGED <<sealed, now, opened>>
    BY <1>9, <2>7
  <2> QED
    BY <2>5, <2>7, <2>8, <2>9, <2>10, SoundKept
<1>10. ASSUME c = <<>>, m.prologue, StartAgreement(d, m, FALSE), UNCHANGED <<conv, cert>>
       PROVE  Sound(own, of)'
  <2>1. ~OpensHeld(c, m) /\ ~UnavailableHeld(c, m)
    BY <1>10, EntryForms DEF OpensHeld, UnavailableHeld
  <2> QED
    BY <1>3, <1>9, <1>10, <2>1
<1>11. ASSUME c # <<>>, ~OpensHeld(c, m), UnavailableHeld(c, m) \/ Recognizes(c, m), Refuse(d, m),
              UNCHANGED <<conv, agreeing, cert>>
       PROVE  Sound(own, of)'
  <2>1. of[m.f.chain] \in Roots(c)
    BY <1>0, <1>11, UnheldNotOpened
  <2> QED
    BY <1>3, <1>5, <1>6, <1>11, <2>1
<1>12. ASSUME c # <<>>, ~OpensHeld(c, m), ~UnavailableHeld(c, m), MayTry(d, m),
              Keep(d, [c EXCEPT ![1].last_displace_try = now]), StartAgreement(d, m, TRUE),
              UNCHANGED cert
       PROVE  Sound(own, of)'
  <2> DEFINE e == [c EXCEPT ![1].last_displace_try = now]
  <2>1. e \in Entry /\ Alike(c, e) /\ \A i \in DOMAIN c : e[i].accepted = c[i].accepted
    <3>1. c \in Entry /\ c # <<>> /\ now \in Int
      BY <1>1, <1>12
    <3> HIDE DEF c
    <3> QED
      BY <3>1, AttemptClaimed
  <2>2. Keep(d, e)
    BY <1>12
  <2> HIDE DEF e
  <2>3. Steady
    BY <1>4, <2>1, <2>2
  <2>4. m.prologue /\ cert[d]
    BY <1>12 DEF MayTry
  <2> HIDE DEF Steady
  <2> QED
    BY <1>9, <1>12, <2>3, <2>4
<1>13. ASSUME c # <<>>, ~OpensHeld(c, m), ~m.prologue, CountFailure(d, m), UNCHANGED <<agreeing, cert>>
       PROVE  Sound(own, of)'
  <2> DEFINE n == c[1].failures + 1
             e == [c EXCEPT ![1].failures = n]
  <2>1. n \in Nat
    <3>1. c[1] \in Kept
      BY <1>1, <1>13, EntryFirst
    <3>2. c[1].failures \in Nat
      BY <3>1, KeptFacts
    <3> QED
      BY <3>2
  <2>2. ~(n >= WedgedAfter)
    <3> SUFFICES ASSUME n >= WedgedAfter PROVE FALSE
      OBVIOUS
    <3>1. whole' = FALSE
      BY <1>13 DEF CountFailure, GiveUp
    <3> QED
      BY <3>1
  <2>3. Keep(d, e) /\ Refuse(d, m)
    BY <1>13, <2>2 DEF CountFailure
  <2>4. n < WedgedAfter
    BY <2>1, <2>2, Constants
  <2> HIDE DEF n
  <2>5. e \in Entry /\ Alike(c, e) /\ \A i \in DOMAIN c : e[i].accepted = c[i].accepted
    BY <1>1, <1>13, <2>1, <2>4, FailureCounted
  <2> HIDE DEF e
  <2>6. Steady
    BY <1>4, <2>3, <2>5
  <2>7. of[m.f.chain] \in Roots(c)
    BY <1>0, <1>13, UnheldNotOpened
  <2> HIDE DEF Steady
  <2> QED
    BY <1>5, <1>6, <1>13, <2>3, <2>6, <2>7
<1>14. ASSUME c # <<>>, ~OpensHeld(c, m), ~UnavailableHeld(c, m), Displaceable(c, m, cert[d]),
              StartAgreement(d, m, FALSE), UNCHANGED <<conv, cert>>
       PROVE  Sound(own, of)'
  <2>1. m.prologue
    BY <1>14 DEF Displaceable
  <2> QED
    BY <1>3, <1>9, <1>14, <2>1
<1>15. ASSUME c # <<>>, ~OpensHeld(c, m), m.prologue, ~Displaceable(c, m, cert[d]), Refuse(d, m),
              UNCHANGED <<conv, agreeing, cert>>
       PROVE  Sound(own, of)'
  <2>1. ASSUME m.id \notin opened[d], of[m.f.chain] \notin Roots(c) PROVE Reason(d, m)
    <3>1. CASE ~c[1].pending
      <4>1. \E i \in opened[d] : i > m.id
        BY <1>0, <1>15, <2>1, <3>1, UnheldNotOpened
      <4> QED
        BY <1>15, <4>1 DEF Reason
    <3>2. CASE c[1].pending
      <4>1. ~cert[d]
        BY <1>15, <3>2 DEF Displaceable
      <4>2. Unvouched(d)
        BY <1>15, <3>2, <4>1 DEF Unvouched
      <4> QED
        BY <1>15, <4>2 DEF Reason
    <3> QED
      BY <3>1, <3>2
  <2> QED
    BY <1>3, <1>5, <1>6, <1>15, <2>1
<1> HIDE DEF c, Still, Steady
<1>c. c = conv[d]
  BY DEF c
<1> QED
  BY <1>7, <1>8, <1>10, <1>11, <1>12, <1>13, <1>14, <1>15, <1>c DEF Open

(* A prologue whose root is held and not known again has been opened before,  *)
(* and only asks to be fresher: nothing of the entry gives way to it.      *)
LEMMA LandHeld ==
    ASSUME ConvTypes, NEW own \in [Device -> Nat], NEW of \in [Nat -> Nat], Sound(own, of),
           NEW t \in agreeing, AcceptFits(t.m.f), ~Recognizes(conv[t.d], t.m),
           of[t.m.f.chain] \in Roots(conv[t.d])
    PROVE  t.m.id \in opened[t.d] /\ ~Admits(conv[t.d], t.m, t.known) /\ t.ask
<1> DEFINE d == t.d
           m == t.m
           c == conv[d]
           r == own[m.from]
           h == Get(c, r)
<1>0. Core(own, of) /\ AgreementsSane
  BY DEF Sound
<1>1. /\ d \in Device /\ m \in Transit /\ m.from \in Device /\ d = Peer(m.from) /\ Peer(d) = m.from
      /\ AgreementSane(t)
  BY <1>0, AgreeingFacts
<1>2. m.prologue /\ m.f \in Frame /\ PayloadSane(m, own, of) /\ m.at \in Nat
  BY <1>0, <1>1, TransitFacts DEF AgreementSane
<1>3. m.f.chain = r /\ of[m.f.chain] = r
  BY <1>2 DEF PayloadSane
<1>4. r \in Roots(c)
  BY <1>3
<1> HIDE DEF d, m, c, r, h
<1>c. /\ d = t.d /\ m = t.m /\ c = conv[d] /\ r = own[m.from] /\ h = Get(c, r)
      /\ AcceptFits(m.f) /\ ~Recognizes(c, m)
  BY DEF d, m, c, r, h
<1>5. /\ h.s \in Session /\ h.s.root = r /\ Sane(h.s, of, sealed) /\ RootSane(h, d, r, own, of)
      /\ HeardAt(c) \in Nat
  <2>1. r \in Roots(conv[d])
    BY <1>4, <1>c
  <2>2. HeldSane(Get(conv[d], r), d, r, own, of)
    BY <1>0, <1>1, <2>1, RootIs
  <2> QED
    BY <1>c, <2>2 DEF HeldSane
<1>6. Distinct(c) /\ c \in Entry
  BY <1>0, <1>1, <1>c, Places
<1>7. PICK i \in DOMAIN c : c[i].s.root = r /\ h = c[i]
  BY <1>4, <1>6, <1>c, GetIs
<1>8. ~h.accepted
  BY <1>2, <1>3, <1>7, <1>c DEF Recognizes
<1>9. r < h.s.recv /\ ~Banked(h.s, m.f) /\ t.ask
  BY <1>1, <1>3, <1>4, <1>8, <1>c DEF AgreementSane
<1>10. Spent(h.s, m.f)
  BY <1>3, <1>9 DEF Spent, Passed
<1>11. m.id \in opened[d] /\ m.at <= HeardAt(c)
  BY <1>0, <1>1, <1>3, <1>4, <1>10, <1>c, OpenedEnds
<1>12. c # <<>> /\ Main(c) \in Roots(c) /\ Get(c, Main(c)) = c[1]
  BY <1>4, <1>6, HeldFacts
<1>13. ~Fresher(c, m, t.known)
  <2>1. c[1].peer_sent_at \in Nat /\ m.at \in Nat /\ m.at <= c[1].peer_sent_at
    BY <1>2, <1>5, <1>11, <1>c DEF HeardAt
  <2>2. ~(m.at > c[1].peer_sent_at)
    BY <2>1
  <2> QED
    BY <2>2 DEF Fresher
<1>14. c[1].proven /\ ~c[1].pending
  BY <1>0, <1>1, <1>4, <1>8, <1>9, <1>c, AnsweredMain
<1>15. ~Displaceable(c, m, t.known)
  BY <1>14 DEF Displaceable
<1> QED
  BY <1>9, <1>11, <1>12, <1>13, <1>15, <1>c DEF Admits

(* A prologue that an entry gives way to begins a root the device did not     *)
(* hold: it had no entry, or one root, its own and unanswered.             *)
LEMMA LandAdmits ==
    ASSUME ConvTypes, NEW own \in [Device -> Nat], NEW of \in [Nat -> Nat], Sound(own, of),
           NEW t \in agreeing, AcceptFits(t.m.f), ~Recognizes(conv[t.d], t.m),
           Admits(conv[t.d], t.m, t.known)
    PROVE  LET c == conv[t.d]
           IN  /\ t.m.prologue /\ t.m.f.chain \notin Roots(c)
               /\ Crossed(c, t.known) => Len(c) # 2 /\ Roots(c) = {c[1].s.root} /\ c[1] \in Kept /\ c[1].proven
               /\ ~Crossed(c, t.known) => c = <<>>
<1> DEFINE d == t.d
           m == t.m
           c == conv[d]
<1>0. Core(own, of) /\ AgreementsSane
  BY DEF Sound
<1>1. d \in Device /\ m \in Transit /\ d = Peer(m.from)
  BY <1>0, AgreeingFacts
<1>2. of[m.f.chain] \notin Roots(c)
  BY LandHeld
<1> HIDE DEF d, m
<1>3. /\ m.prologue /\ of[m.f.chain] = m.f.chain
      /\ c # <<>> => Main(c) = own[d] /\ c[1].proven /\ Roots(c) = {own[d]}
      /\ c # <<>> /\ ~c[1].pending => m.at <= HeardAt(c)
  <2>1. Unheld(d, m, own, of)
    BY <1>0, <1>1, <1>2, UnheldNotOpened
  <2>2. c = conv[d]
    OBVIOUS
  <2> HIDE DEF c
  <2> QED
    BY <2>1, <2>2 DEF Unheld
<1>4. /\ c \in Entry /\ Distinct(c)
      /\ \A i \in DOMAIN c : c[i].s.root \in Roots(c)
      /\ c # <<>> => Get(c, Main(c)) = c[1]
  BY <1>0, <1>1, Places
<1>5. m.at \in Nat
  BY <1>0, <1>1, TransitFacts
<1> HIDE DEF c
<1>6. ASSUME c # <<>> PROVE Len(c) # 2 /\ Roots(c) = {c[1].s.root} /\ c[1] \in Kept /\ HeardAt(c) \in Nat
  <2>1. c[1] \in Kept /\ 1 \in DOMAIN c /\ (Len(c) = 2 <=> 2 \in DOMAIN c) /\ HeardAt(c) \in Nat
    BY <1>4, <1>6, EntryFirst, HeldFacts
  <2>2. ~(2 \in DOMAIN c)
    <3> SUFFICES ASSUME 2 \in DOMAIN c PROVE FALSE
      OBVIOUS
    <3>1. c[1].s.root = own[d] /\ c[2].s.root = own[d]
      BY <1>3, <1>4, <1>6, <2>1
    <3> QED
      BY <1>4, <2>1, <3>1 DEF Distinct
  <2> QED
    BY <1>3, <1>6, <2>1, <2>2 DEF Main
<1>7. ASSUME c # <<>> PROVE Crossed(c, t.known)
  <2>1. Displaceable(c, m, t.known) \/ Fresher(c, m, t.known)
    BY <1>7 DEF Admits, c, d, m
  <2>2. t.known
    BY <2>1 DEF Displaceable, Fresher
  <2>3. c[1].pending
    <3> SUFFICES ASSUME ~c[1].pending PROVE FALSE
      OBVIOUS
    <3>1. m.at <= c[1].peer_sent_at /\ c[1].peer_sent_at \in Nat
      BY <1>3, <1>6, <1>7 DEF HeardAt
    <3>2. ~(m.at > c[1].peer_sent_at)
      BY <1>5, <3>1
    <3>3. ~Fresher(c, m, t.known)
      BY <3>2 DEF Fresher
    <3>4. ~Displaceable(c, m, t.known)
      BY <1>3, <1>7 DEF Displaceable
    <3> QED
      BY <2>1, <3>3, <3>4
  <2> QED
    BY <1>7, <2>2, <2>3 DEF Crossed
<1>8. Crossed(c, t.known) => c # <<>>
  BY DEF Crossed
<1>9. /\ m.prologue /\ m.f.chain \notin Roots(c)
      /\ Crossed(c, t.known) => Len(c) # 2 /\ Roots(c) = {c[1].s.root} /\ c[1] \in Kept /\ c[1].proven
      /\ ~Crossed(c, t.known) => c = <<>>
  BY <1>2, <1>3, <1>6, <1>7, <1>8
<1> QED
  BY <1>9 DEF c, d, m

(* After the key agreement the store is asked again.                       *)
LEMMA LandSound ==
    ASSUME ConvTypes, conv' \in [Device -> Entry],
           NEW own \in [Device -> Nat], NEW of \in [Nat -> Nat], Sound(own, of),
           NEW t \in agreeing, Land(t)
    PROVE  Sound(own, of)'
<1> DEFINE d == t.d
           m == t.m
           c == conv[d]
           known == t.known
<1>0. Core(own, of) /\ AgreementsSane /\ Excused
  BY DEF Sound
<1>1. d \in Device /\ m \in Transit /\ d = Peer(m.from) /\ known \in BOOLEAN /\ AgreementSane(t)
  BY <1>0, AgreeingFacts
<1>2. m.prologue /\ (t.ask => known)
  BY <1>1 DEF AgreementSane
<1>3. agreeing' \subseteq agreeing /\ UNCHANGED <<net, now, sealed>>
  BY DEF Land
<1>4. Transit' \subseteq Transit
  BY <1>3 DEF Transit
<1>5. ASSUME conv' = conv, Excused', opened' = opened PROVE Sound(own, of)'
  <2>1. \A x \in Device : SameView(conv[x], conv'[x])
    BY <1>0, <1>5, SameViewSelf
  <2>2. UNCHANGED <<sealed, now, opened>>
    BY <1>3, <1>5
  <2>3. ASSUME NEW u \in agreeing'
        PROVE  /\ AgreementSane(u) /\ u.m \in Transit /\ u.d \in Device
               /\ \A r \in Roots(conv[u.d]) : Get(conv'[u.d], r).accepted = Get(conv[u.d], r).accepted
    <3>1. u \in agreeing
      BY <1>3
    <3> QED
      BY <1>0, <1>5, <3>1, AgreeingFacts
  <2> QED
    BY <1>4, <1>5, <2>1, <2>2, <2>3, SoundKept
<1>6. ASSUME conv' = conv, Refuse(d, m), m.id \notin opened[d] => Reason(d, m)
      PROVE  Sound(own, of)'
  <2>1. Excused' /\ opened' = opened
    BY <1>0, <1>6, RefuseKeeps
  <2> QED
    BY <1>5, <1>6, <2>1
<1>7. ASSUME ~AcceptFits(m.f), conv' = conv, Refuse(d, m) PROVE Sound(own, of)'
  BY <1>2, <1>6, <1>7 DEF Reason
<1>8. ASSUME OpensHeld(c, m), Keep(d, OpenHeld(c, m, known)), Deliver(d, m)
      PROVE  Sound(own, of)'
  BY <1>1, <1>3, <1>4, <1>8, SoundOpened
<1>9. ASSUME AcceptFits(m.f), Recognizes(c, m), ~OpensHeld(c, m), conv' = conv, Refuse(d, m)
      PROVE  Sound(own, of)'
  <2>1. of[m.f.chain] \in Roots(c)
    BY <1>0, <1>1, <1>9, UnheldNotOpened
  <2>2. m.id \in opened[d]
    BY <1>0, <1>1, <1>2, <1>9, <2>1, HeldNotOpened
  <2> QED
    BY <1>6, <1>9, <2>2
<1>10. ASSUME AcceptFits(m.f), ~Recognizes(c, m), ~Admits(c, m, known), conv' = conv,
              IF t.ask THEN Refuse(d, m) ELSE DeliverLoose(d, m)
       PROVE  Sound(own, of)'
  <2>1. CASE ~t.ask
    <3>1. of[m.f.chain] \notin Roots(c)
      BY <1>10, <2>1, LandHeld
    <3>2. m.id \notin opened[d]
      BY <1>0, <1>1, <3>1, UnheldNotOpened
    <3>3. Excused' /\ opened' = opened
      BY <1>0, <1>10, <2>1, <3>2, DeliverKeeps DEF DeliverLoose
    <3> QED
      BY <1>5, <1>10, <3>3
  <2>2. CASE t.ask
    <3>1. ASSUME m.id \notin opened[d] PROVE Reason(d, m)
      <4>1. of[m.f.chain] \notin Roots(c)
        BY <1>10, <3>1, LandHeld
      <4>2. Unheld(d, m, own, of)
        BY <1>0, <1>1, <4>1, UnheldNotOpened
      <4>3. c # <<>> /\ ~Displaceable(c, m, known)
        BY <1>10 DEF Admits
      <4>4. ~c[1].pending
        BY <1>2, <2>2, <4>3 DEF Displaceable
      <4>5. \E i \in opened[d] : i > m.id
        BY <4>2, <4>3, <4>4 DEF Unheld
      <4> QED
        BY <1>2, <4>5 DEF Reason
    <3> QED
      BY <1>6, <1>10, <2>2, <3>1
  <2> QED
    BY <2>1, <2>2
<1>11. ASSUME m.f.chain \notin Roots(c), NEW e, AcceptedView(c, e, m), Keep(d, e), Deliver(d, m)
       PROVE  Sound(own, of)'
  BY <1>1, <1>2, <1>3, <1>4, <1>11, SoundAccepted
<1>12. m \in Payload
  BY <1>0, <1>1, TransitFacts
<1>13. ASSUME AcceptFits(m.f), ~Recognizes(c, m), Admits(c, m, known), ~Crossed(c, known),
              Keep(d, <<Incoming(m, known)>>), Deliver(d, m)
       PROVE  Sound(own, of)'
  <2> DEFINE e == <<Incoming(m, known)>>
  <2>1. c = <<>> /\ m.f.chain \notin Roots(c)
    BY <1>13, LandAdmits
  <2>2. Roots(c) = {}
    BY <2>1, EntryRoots
  <2>3. /\ Roots(e) = {m.f.chain} /\ Distinct(e) /\ Main(e) = m.f.chain /\ HeardAt(e) = m.at
        /\ LET k == Get(e, m.f.chain)
           IN  k.s = Responder(m.f) /\ k.pending = FALSE /\ k.accepted = TRUE
    BY <1>1, <1>12, AcceptedIsView
  <2>4. m.at \in Nat
    BY <1>0, <1>1, TransitFacts
  <2>5. Keep(d, e)
    BY <1>13
  <2> HIDE DEF e
  <2>6. AcceptedView(c, e, m)
    BY <2>1, <2>2, <2>3, <2>4 DEF AcceptedView
  <2> QED
    BY <1>11, <1>13, <2>1, <2>5, <2>6
<1>14. ASSUME AcceptFits(m.f), ~Recognizes(c, m), Admits(c, m, known), Crossed(c, known),
              Len(c) # 2 => Keep(d, Cross(d, c[1], m)) /\ Deliver(d, m)
       PROVE  Sound(own, of)'
  <2> DEFINE held == c[1]
             e == Cross(d, held, m)
  <2>1. /\ m.f.chain \notin Roots(c) /\ Len(c) # 2 /\ Roots(c) = {held.s.root} /\ held \in Kept
        /\ held.proven
    BY <1>14, LandAdmits
  <2>2. held.s.root # m.f.chain
    BY <2>1
  <2>3. /\ Roots(e) = {m.f.chain, held.s.root} /\ Distinct(e)
        /\ Main(e) = m.f.chain \/ Main(e) = held.s.root
        /\ HeardAt(e) >= held.peer_sent_at /\ HeardAt(e) >= m.at
        /\ LET h == Get(e, held.s.root)
           IN  h.s = held.s /\ h.pending = held.pending /\ h.proven = held.proven
        /\ LET k == Get(e, m.f.chain)
           IN  k.s = Responder(m.f) /\ k.pending = FALSE /\ k.accepted = TRUE /\ k.proven = TRUE
    BY <1>12, <2>1, <2>2, CrossedIsView
  <2>4. Keep(d, e) /\ Deliver(d, m)
    BY <1>14, <2>1
  <2>5. Get(c, held.s.root) = held
    <3>1. c # <<>>
      BY <1>14 DEF Crossed
    <3> QED
      BY <1>0, <1>1, <3>1, Places DEF Main
  <2>6. HeardAt(c) = held.peer_sent_at
    BY DEF HeardAt
  <2> HIDE DEF e, held, c
  <2>7. AcceptedView(c, e, m)
    BY <2>1, <2>3, <2>5, <2>6 DEF AcceptedView
  <2> QED
    BY <1>11, <2>1, <2>4, <2>7
<1> HIDE DEF d, m, c, known
<1>c. d = t.d /\ m = t.m /\ c = conv[d] /\ known = t.known
  BY DEF d, m, c, known
<1> QED
  BY <1>7, <1>8, <1>9, <1>10, <1>13, <1>14, <1>c DEF Land

(* Sealing spends no key of the entry.                                     *)
LEMMA SealedRemembers ==
    ASSUME NEW c \in Entry, Distinct(c), c # <<>>, NEW e, NEW id \in Nat, SealedView(c, e, id), NEW r
    PROVE  Remembers(c, e, r)
<1>1. Main(c) \in Roots(c) /\ \A q \in Roots(c) : Get(c, q).s \in Session
  BY HeldFacts
<1>2. CASE r \notin Roots(c)
  BY <1>2 DEF SealedView, Remembers
<1>3. CASE r \in Roots(c) /\ r # Main(c)
  <2>1. Get(e, r) = Get(c, r) /\ Roots(e) = Roots(c)
    BY <1>3 DEF SealedView
  <2> QED
    BY <2>1, SameRemembers
<1>4. CASE r \in Roots(c) /\ r = Main(c)
  <2> DEFINE h == Get(c, r)
             k == Get(e, r)
  <2>1. k.s = Sent(h.s, id) /\ k.accepted = h.accepted /\ h.s \in Session
    BY <1>1, <1>4 DEF SealedView
  <2>2. k.s.recv = h.s.recv /\ k.s.skipped = h.s.skipped
    BY <2>1, SentFacts
  <2> HIDE DEF h, k
  <2>3. \A g \in Frame : Banked(k.s, g) <=> Banked(h.s, g)
    BY <2>2 DEF Banked
  <2> QED
    BY <1>4, <2>1, <2>2, <2>3 DEF Remembers, h, k
<1> QED
  BY <1>2, <1>3, <1>4

(* What sealing does to the rest of the state.                             *)
LEMMA SealSends ==
    ASSUME ConvTypes, NEW d \in Device, NEW wait \in Nat, Seal(d, wait)
    PROVE  LET m == SealedPayload(d, now + wait)
           IN  /\ Sends(d, m) /\ m.f = SendFrame(Settled(d)[1].s, sealed + 1)
               /\ m.prologue = Settled(d)[1].pending /\ m.id = sealed + 1
<1> DEFINE m == SealedPayload(d, now + wait)
<1>1. conv[d] \in Entry /\ sealed \in Nat /\ now \in Nat /\ now + wait \in Nat /\ now <= now + wait
  BY Constants DEF ConvTypes
<1>2. /\ m \in Payload /\ m.id = sealed + 1 /\ m.from = d /\ m.at = now + wait
      /\ m.prologue = Settled(d)[1].pending
      /\ m.f = SendFrame(Settled(d)[1].s, sealed + 1)
  BY <1>1, SealedPayloadFacts
<1>3. \A e \in Device : e # d => conv'[e] = conv[e]
  BY SealTypes
<1>4. /\ now' = now + wait /\ sealed' = sealed + 1
      /\ net' = net \cup {m} /\ agreeing' = agreeing /\ opened' = opened
  BY DEF Seal, history
<1> HIDE DEF m
<1>5. Transit' = Transit \cup {m}
  BY <1>4 DEF Transit
<1>6. Sends(d, m)
  BY <1>1, <1>2, <1>3, <1>4, <1>5 DEF Sends
<1> QED
  BY <1>2, <1>6 DEF m

(* Sealing keeps the invariant, with the roots and chains it may begin.    *)
LEMMA SealSound ==
    ASSUME ConvTypes, NEW own \in [Device -> Nat], NEW of \in [Nat -> Nat], Sound(own, of),
           NEW d \in Device, NEW wait \in Nat, Seal(d, wait)
    PROVE  \E o \in [Device -> Nat], b \in [Nat -> Nat] : Sound(o, b)'
<1> DEFINE m == SealedPayload(d, now + wait)
           c == conv[d]
           e == [Settled(d) EXCEPT ![1].s = Sent(@, sealed + 1)]
<1>0. Core(own, of) /\ AgreementsSane /\ Excused
  BY DEF Sound
<1>1. c \in Entry /\ Distinct(c) /\ sealed \in Nat /\ sealed + 1 \in Nat
  <2>1. c \in Entry /\ Distinct(c)
    BY <1>0, Places
  <2> QED
    BY <2>1, CountTypes
<1>2. conv'[d] = e /\ \A x \in Device : x # d => conv'[x] = conv[x]
  BY SealTypes
<1>3. /\ Sends(d, m) /\ m.f = SendFrame(Settled(d)[1].s, sealed + 1)
      /\ m.prologue = Settled(d)[1].pending /\ m.id = sealed + 1
  BY SealSends
<1>4. agreeing' = agreeing
  BY DEF Seal
<1>5. Excused'
  BY <1>0 DEF Seal, history, Excused
<1> HIDE DEF m, e
<1>6. ASSUME \A r : r <= sealed => Remembers(c, e, r) PROVE AgreementsSane'
  <2>1. ASSUME NEW t \in agreeing'
        PROVE  /\ AgreementSane(t) /\ t.m \in Transit
               /\ Remembers(conv[t.d], conv'[t.d], own[t.m.from])
    <3>1. AgreementSane(t) /\ t.m \in Transit /\ t.d \in Device /\ t.m.from \in Device
      BY <1>0, <1>4, AgreeingFacts
    <3>2. own[t.m.from] <= sealed
      BY <1>0, <3>1 DEF Core, EntriesSane, EntrySane
    <3>3. CASE t.d = d
      BY <1>2, <1>6, <3>1, <3>2, <3>3
    <3>4. CASE t.d # d
      <4>1. conv'[t.d] = conv[t.d]
        BY <1>2, <3>1, <3>4
      <4>2. Remembers(conv[t.d], conv[t.d], own[t.m.from])
        BY SameRemembers
      <4> QED
        BY <3>1, <4>1, <4>2
    <3> QED
      BY <3>3, <3>4
  <2> QED
    BY <1>0, <2>1, AgreementsKept
<1>7. CASE c = <<>>
  <2>1. Roots(c) = {}
    BY <1>7, EntryRoots
  <2>2. /\ Roots(e) = {sealed + 1} /\ Distinct(e)
        /\ LET k == Get(e, sealed + 1)
           IN  /\ k.s = Sent(Initiator(sealed + 1), sealed + 1) /\ k.pending = TRUE
               /\ k.proven = TRUE
    BY <1>1, <1>7, BegunIsView DEF e
  <2>3. Settled(d)[1].s = Initiator(sealed + 1) /\ Settled(d)[1].pending = TRUE
    BY <1>1, <1>7, SealBegins
  <2>4. BegunView(conv'[d], m)
    BY <1>2, <1>3, <2>2, <2>3 DEF BegunView
  <2>5. PICK o \in [Device -> Nat] : Changed(own, o, d, m.id)
    BY <1>1, <1>3 DEF Changed
  <2>6. PICK b \in [Nat -> Nat] : Changed(of, b, m.id, m.id)
    BY <1>1, <1>3 DEF Changed
  <2>7. Core(o, b)'
    BY <1>0, <1>3, <2>1, <2>4, <2>5, <2>6, CoreBegun
  <2>8. \A r : r <= sealed => Remembers(c, e, r)
    <3>1. ~(sealed + 1 <= sealed)
      BY <1>1
    <3> QED
      BY <2>2, <3>1 DEF Remembers
  <2>9. Sound(o, b)'
    BY <1>5, <1>6, <2>7, <2>8 DEF Sound
  <2> QED
    BY <2>9
<1>8. CASE c # <<>>
  <2>1. Main(c) \in Roots(c) /\ Main(c) \in Nat
    BY <1>1, <1>8, HeldFacts
  <2>2. /\ SealedView(c, e, sealed + 1)
        /\ Settled(d)[1].s = Get(c, Main(c)).s
        /\ Settled(d)[1].pending = Get(c, Main(c)).pending
    BY <1>1, <1>8, SealedIsView DEF e
  <2>3. GoesOn(d, m)
    BY <1>2, <1>3, <2>1, <2>2 DEF GoesOn
  <2>4. PICK b \in [Nat -> Nat] : Changed(of, b, m.f.chain, Main(conv[d]))
    BY <2>1 DEF Changed
  <2>6. Core(own, b)'
    BY <1>0, <1>3, <2>3, <2>4, CoreSealed
  <2>7. \A r : Remembers(c, e, r)
    BY <1>1, <1>8, <2>2, SealedRemembers
  <2>8. Sound(own, b)'
    BY <1>5, <1>6, <2>6, <2>7 DEF Sound
  <2> QED
    BY <2>8
<1> QED
  BY <1>7, <1>8

(* An entry nobody vouched for is evicted.                                 *)
LEMMA EvictSound ==
    ASSUME ConvTypes, NEW own \in [Device -> Nat], NEW of \in [Nat -> Nat], Sound(own, of),
           NEW d \in Device, Evict(d)
    PROVE  Sound(own, of)'
<1>0. Core(own, of) /\ AgreementsSane /\ Excused
  BY DEF Sound
<1>1. conv'[d] = <<>> /\ \A x \in Device : x # d => conv'[x] = conv[x]
  BY DEF Evict, Keep, ConvTypes
<1>2. UNCHANGED <<agreeing, net, sealed, now, twice, refused>>
  BY DEF Evict
<1>3. Transit' \subseteq Transit
  BY <1>2 DEF Transit
<1>4. Core(own, of)'
  BY <1>0, <1>1, <1>2, <1>3, CoreEvicted DEF Evict
<1>5. Excused'
  BY <1>0, <1>2 DEF Excused
<1>6. Roots(conv'[d]) = {}
  BY <1>1, EntryRoots
<1>7. ASSUME NEW t \in agreeing'
      PROVE  /\ AgreementSane(t) /\ t.m \in Transit
             /\ Remembers(conv[t.d], conv'[t.d], own[t.m.from])
  <2>1. AgreementSane(t) /\ t.m \in Transit /\ t.d \in Device
    BY <1>0, <1>2, AgreeingFacts
  <2>2. CASE t.d = d
    BY <1>6, <2>1, <2>2 DEF Remembers
  <2>3. CASE t.d # d
    <3>1. conv'[t.d] = conv[t.d]
      BY <1>1, <2>1, <2>3
    <3>2. Remembers(conv[t.d], conv[t.d], own[t.m.from])
      BY SameRemembers
    <3> QED
      BY <2>1, <3>1, <3>2
  <2> QED
    BY <2>2, <2>3
<1>8. AgreementsSane'
  BY <1>0, <1>7, AgreementsKept
<1> QED
  BY <1>4, <1>5, <1>8 DEF Sound

(* A restart keeps the sessions; the agreements of the device end.         *)
LEMMA RestartSound ==
    ASSUME ConvTypes, NEW own \in [Device -> Nat], NEW of \in [Nat -> Nat], Sound(own, of),
           NEW d \in Device, Restart(d)
    PROVE  Sound(own, of)'
<1>0. Core(own, of) /\ AgreementsSane /\ Excused
  BY DEF Sound
<1>1. conv'[d] = Restored(conv[d]) /\ \A x \in Device : x # d => conv'[x] = conv[x]
  BY DEF Restart, Keep, ConvTypes
<1>2. /\ UNCHANGED <<net, sealed, now, opened, twice, refused>>
      /\ agreeing' = {t \in agreeing : t.d # d}
  BY DEF Restart, history
<1>3. Transit' \subseteq Transit
  BY <1>2 DEF Transit
<1>4. Excused'
  BY <1>0, <1>2 DEF Excused
<1>5. ASSUME NEW x \in Device PROVE SameView(conv[x], conv'[x])
  <2>1. conv[x] \in Entry /\ Distinct(conv[x])
    BY <1>0, Places
  <2>2. CASE x = d
    <3>1. Restored(conv[x]) \in Entry /\ Alike(conv[x], Restored(conv[x]))
      BY <2>1, RestoredAlike
    <3> QED
      BY <1>1, <2>1, <2>2, <3>1, AlikeView
  <2>3. CASE x # d
    BY <1>0, <1>1, <2>3, SameViewSelf
  <2> QED
    BY <2>2, <2>3
<1>6. ASSUME NEW t \in agreeing'
      PROVE  /\ AgreementSane(t) /\ t.m \in Transit /\ t.d \in Device
             /\ \A r \in Roots(conv[t.d]) : Get(conv'[t.d], r).accepted = Get(conv[t.d], r).accepted
  <2>1. t \in agreeing /\ t.d # d
    BY <1>2
  <2>2. AgreementSane(t) /\ t.m \in Transit /\ t.d \in Device
    BY <1>0, <2>1, AgreeingFacts
  <2> QED
    BY <1>1, <2>1, <2>2
<1> QED
  BY <1>2, <1>3, <1>4, <1>5, <1>6, SoundKept

(* A step that leaves the entries and what was opened alone.               *)
LEMMA SteadySound ==
    ASSUME ConvTypes, NEW own \in [Device -> Nat], NEW of \in [Nat -> Nat], Sound(own, of),
           UNCHANGED <<conv, agreeing, sealed, now, opened, twice, refused>>, net' \subseteq net
    PROVE  Sound(own, of)'
<1>0. Core(own, of) /\ AgreementsSane /\ Excused
  BY DEF Sound
<1>1. Transit' \subseteq Transit
  BY DEF Transit
<1>2. Excused'
  BY <1>0 DEF Excused
<1>3. \A x \in Device : SameView(conv[x], conv'[x])
  BY <1>0, SameViewSelf
<1>4. ASSUME NEW t \in agreeing'
      PROVE  /\ AgreementSane(t) /\ t.m \in Transit /\ t.d \in Device
             /\ \A r \in Roots(conv[t.d]) : Get(conv'[t.d], r).accepted = Get(conv[t.d], r).accepted
  BY <1>0, AgreeingFacts
<1> QED
  BY <1>1, <1>2, <1>3, <1>4, SoundKept

(* The inductive invariant: while nobody has given a conversation up, the    *)
(* numbers of the roots the devices have begun and of the root of every      *)
(* chain explain the entries, the payloads and the agreements under way.   *)
ConvInv ==
    /\ ConvTypes
    /\ whole => \E own \in [Device -> Nat], of \in [Nat -> Nat] : Sound(own, of)

(* The inductive invariant holds initially.                                *)
LEMMA ConvInvInit == Init => ConvInv
<1> SUFFICES ASSUME Init PROVE ConvInv
  OBVIOUS
<1> DEFINE own == [d \in Device |-> 0]
           of == [n \in Nat |-> 0]
<1>1. ConvTypes
  BY TypesInit
<1>2. Transit = {} /\ agreeing = {} /\ twice = {} /\ refused = {} /\ sealed = 0
  BY DEF Init, Transit
<1>3. \A d \in Device : conv[d] = <<>> /\ own[d] = 0 /\ opened[d] = {}
  BY DEF Init
<1>4. Roots(<<>>) = {}
  BY EntryRoots
<1>5. own \in [Device -> Nat] /\ of \in [Nat -> Nat]
  OBVIOUS
<1> HIDE DEF own, of
<1>6. AgreementsSane /\ Excused
  BY <1>2 DEF AgreementsSane, Excused
<1>7. PayloadsSane(own, of) /\ PayloadsUnique
  BY <1>2 DEF PayloadsSane, PayloadsUnique
<1>8. EntriesSane(own, of)
  <2> SUFFICES ASSUME NEW d \in Device PROVE EntrySane(d, own, of)
    BY DEF EntriesSane
  <2>1. Roots(conv[d]) = {} /\ DOMAIN conv[d] = {}
    BY <1>3, <1>4, EntryForms
  <2>2. own[d] = 0 /\ opened[d] = {}
    BY <1>3
  <2>3. Distinct(conv[d])
    BY <2>1 DEF Distinct
  <2> QED
    BY <1>2, <2>1, <2>2, <2>3 DEF EntrySane
<1>9. \A d \in Device : Roots(conv[d]) = {} /\ own[d] = 0
  BY <1>3, <1>4
<1>10. RootsLinked(of) /\ RootsUnheard(own, of) /\ RootsOneSided(own, of)
  BY <1>9 DEF RootsLinked, RootsUnheard, Unheard, RootsOneSided, OneSided
<1>11. Sound(own, of)
  BY <1>6, <1>7, <1>8, <1>10 DEF Sound, Core
<1> QED
  BY <1>1, <1>5, <1>11 DEF ConvInv

(* Every step keeps the inductive invariant.                               *)
LEMMA ConvInvStep == ConvInv /\ [Next]_vars => ConvInv'
<1> SUFFICES ASSUME ConvInv, [Next]_vars PROVE ConvInv'
  OBVIOUS
<1>0. ConvTypes /\ ConvTypes'
  BY TypesStep DEF ConvInv
<1>1. conv' \in [Device -> Entry]
  BY <1>0 DEF ConvTypes
<1> SUFFICES ASSUME whole' PROVE \E o \in [Device -> Nat], b \in [Nat -> Nat] : Sound(o, b)'
  BY <1>0 DEF ConvInv
<1>2. whole
  <2>1. \A d \in Device : GiveUp(d) => ~whole'
    BY DEF GiveUp
  <2>2. ASSUME NEW d, NEW m, Open(d, m) PROVE whole' = whole \/ whole' = FALSE
    BY <2>2 DEF Open, Deliver, Refuse, StartAgreement, history, CountFailure, GiveUp
  <2>3. ASSUME NEW t, Land(t) PROVE whole' = whole
    BY <2>3 DEF Land, Deliver, DeliverLoose, Refuse
  <2>4. ASSUME NEW d, HandleUnopenable(d) \/ Reset(d) PROVE whole' = whole \/ whole' = FALSE
    BY <2>4 DEF HandleUnopenable, Reset, GiveUp
  <2>5. ASSUME NEW d, Evict(d) \/ Resolve(d) \/ Restart(d) PROVE whole' = whole
    BY <2>5 DEF Evict, Resolve, Restart, history
  <2>6. ASSUME NEW d, NEW wait, Seal(d, wait) PROVE whole' = whole
    BY <2>6 DEF Seal, history
  <2>7. ASSUME Lose \/ UNCHANGED vars PROVE whole' = whole
    BY <2>7 DEF Lose, vars, history
  <2> QED
    BY <2>2, <2>3, <2>4, <2>5, <2>6, <2>7 DEF Next, Receive, Repair
<1>3. PICK own \in [Device -> Nat] : \E of \in [Nat -> Nat] : Sound(own, of)
  BY <1>2 DEF ConvInv
<1>4. PICK of \in [Nat -> Nat] : Sound(own, of)
  BY <1>3
<1>5. SUFFICES ASSUME ~ \E o \in [Device -> Nat], b \in [Nat -> Nat] : Sound(o, b)' PROVE FALSE
  OBVIOUS
<1>6. ~ Sound(own, of)'
  BY <1>5
<1>7. ASSUME NEW d \in Device, NEW wait \in Nat, Seal(d, wait) PROVE FALSE
  BY <1>0, <1>4, <1>5, <1>7, SealSound
<1>8. ASSUME NEW d \in Device, Evict(d) PROVE FALSE
  BY <1>0, <1>4, <1>6, <1>8, EvictSound
<1>9. ASSUME NEW d \in Device, Restart(d) PROVE FALSE
  BY <1>0, <1>4, <1>6, <1>9, RestartSound
<1>10. ASSUME NEW t \in agreeing, Land(t) PROVE FALSE
  BY <1>0, <1>1, <1>4, <1>6, <1>10, LandSound
<1>11. ASSUME NEW m \in net, Receive(m) PROVE FALSE
  <2>1. Peer(m.from) \in Device
    BY <1>0, <1>11, PayloadFacts, PeerFacts DEF ConvTypes
  <2>2. Open(Peer(m.from), m) /\ net' \subseteq net /\ UNCHANGED <<now, sealed>>
    BY <1>11 DEF Receive
  <2> QED
    BY <1>0, <1>1, <1>4, <1>6, <2>1, <2>2, OpenSound
<1>12. ASSUME NEW d \in Device, HandleUnopenable(d) PROVE FALSE
  <2>1. UNCHANGED <<conv, agreeing, sealed, now, opened, twice, refused, net>>
    BY <1>12 DEF HandleUnopenable, GiveUp
  <2> QED
    BY <1>0, <1>4, <1>6, <2>1, SteadySound
<1>13. ASSUME NEW d \in Device, Resolve(d) PROVE FALSE
  <2>1. UNCHANGED <<conv, agreeing, sealed, now, opened, twice, refused, net>>
    BY <1>13 DEF Resolve, history
  <2> QED
    BY <1>0, <1>4, <1>6, <2>1, SteadySound
<1>14. ASSUME NEW d \in Device, Reset(d) PROVE FALSE
  BY <1>14 DEF Reset, GiveUp
<1>15. ASSUME Lose PROVE FALSE
  <2>1. UNCHANGED <<conv, agreeing, sealed, now, opened, twice, refused>> /\ net' \subseteq net
    BY <1>15 DEF Lose, store, history
  <2> QED
    BY <1>0, <1>4, <1>6, <2>1, SteadySound
<1>16. ASSUME UNCHANGED vars PROVE FALSE
  <2>1. UNCHANGED <<conv, agreeing, sealed, now, opened, twice, refused, net>>
    BY <1>16 DEF vars, store, history
  <2> QED
    BY <1>0, <1>4, <1>6, <2>1, SteadySound
<1>17. ASSUME NEW d \in Device, Repair(d) PROVE FALSE
  BY <1>7, <1>17, Constants DEF Repair
<1>18. ASSUME NEW d \in Device, NEW wait \in Pause, Seal(d, wait) PROVE FALSE
  BY <1>7, <1>18, Constants
<1> QED
  BY <1>8, <1>9, <1>10, <1>11, <1>12, <1>13, <1>14, <1>15, <1>16, <1>17, <1>18 DEF Next

(* While nobody has given the conversation up, nothing that was opened on the   *)
(* entry a device holds is handed up again (open_inner): not by a repeat, not   *)
(* by two threads in the key agreement of one prologue, not under the second    *)
(* root, not after a restart, for every MAX_SKIP and any number of messages and *)
(* faults.  Only a prologue that went up by an agreement whose session was      *)
(* dropped may go up once more.                                               *)
THEOREM PayloadsOpenedOnce == Spec => []OpenedOnce
<1>1. ConvInv => OpenedOnce
  BY DEF ConvInv, Sound, Excused, OpenedOnce
<1> QED
  BY <1>1, ConvInvInit, ConvInvStep, PTL DEF Spec

(* Until then the only payloads refused without having been opened are those   *)
(* later ones of their sender have overtaken, prologues too far into their     *)
(* chain or at an unanswered root without a certificate, and frames from       *)
(* beyond too wide a gap (open_inner).                                      *)
THEOREM RefusalsExcused == Spec => []OnlyOvertakenRefused
<1>1. ConvInv => OnlyOvertakenRefused
  BY DEF ConvInv, Sound, Excused, OnlyOvertakenRefused
<1> QED
  BY <1>1, ConvInvInit, ConvInvStep, PTL DEF Spec

-----------------------------------------------------------------------------
(* What a device would seal next.                                          *)

(* The next frame of an end that has heard its peer opens there, or answers   *)
(* from beyond too wide a gap.                                             *)
LEMMA NextFrameOutcome ==
    ASSUME NEW p \in Session, NEW q \in Session, NEW of \in [Nat -> Nat], NEW top \in Nat,
           Sane(p, of, top), Sane(q, of, top), Linked(p, q), p.root = q.root, p.recv # 0,
           ~Opens(q, SendFrame(p, top + 1))
    PROVE  LET g == SendFrame(p, top + 1) IN Answers(q, g) /\ ~TurnsEpoch(q, g)
<1> DEFINE u == Sent(p, top + 1)
           g == SendFrame(p, top + 1)
           ch == SendChain(p, top + 1)
           by == [of EXCEPT ![ch] = p.root]
<1>1. /\ p.root \in Nat /\ p.recv \in Nat /\ p.send \in Nat
  BY DEF Session
<1>2. (p.send = 0 => ch = top + 1) /\ (p.send # 0 => ch = p.send) /\ ch \in Nat
  BY <1>1 DEF SendChain
<1>3. /\ p.base = p.recv /\ p.root <= p.recv
      /\ p.recv <= top /\ p.send <= top
      /\ p.send # 0 => p.recv < p.send /\ of[p.send] = p.root
  BY DEF Sane
<1>4. g \in Frame /\ g.chain = ch /\ g.base = p.base
  BY SendFrameFacts
<1>5. u \in Session
  BY SentFacts
<1>6. by[ch] = p.root /\ \A k \in 1..top : by[k] = of[k]
  BY <1>1, <1>2, <1>3
<1> HIDE DEF by
<1>7. Sane(u, by, top + 1)
  BY <1>6, SentSane
<1>8. Sane(q, by, top + 1)
  BY <1>6, SaneLater
<1>9. Linked(u, q) /\ Flows(u, q, g) /\ ~Spent(q, g)
  BY LinkSent
<1>10. g.chain # q.root /\ g.base # 0
  BY <1>1, <1>2, <1>3, <1>4
<1>11. ~Opens(q, g) /\ top + 1 \in Nat
  OBVIOUS
<1> HIDE DEF u, g
<1>12. Answers(q, g) /\ ~TurnsEpoch(q, g)
  BY <1>4, <1>5, <1>7, <1>8, <1>9, <1>10, <1>11, FrameOutcome
<1> QED
  BY <1>12 DEF g

(* A prologue of a root an entry does not hold means nothing to it.        *)
LEMMA ForeignPrologue ==
    ASSUME NEW c \in Entry, NEW by, NEW top \in Nat, NEW m, m.f \in Frame,
           m.f.base = 0, m.f.chain # 0, by[m.f.chain] = m.f.chain,
           \A i \in DOMAIN c : c[i].s \in Session /\ Sane(c[i].s, by, top) /\ c[i].s.root # m.f.chain
    PROVE  ~OpensHeld(c, m) /\ ~UnavailableHeld(c, m) /\ ~Recognizes(c, m)
<1>1. ASSUME NEW i \in DOMAIN c PROVE ~Opens(c[i].s, m.f) /\ ~Unavailable(c[i].s, m.f)
  <2> DEFINE q == c[i].s
  <2>1. q \in Session /\ Sane(q, by, top) /\ q.root # by[m.f.chain]
    OBVIOUS
  <2> HIDE DEF q
  <2> QED
    BY <2>1, OpensRoot, UnavailableRoot DEF q
<1> QED
  BY <1>1 DEF OpensHeld, UnavailableHeld, Recognizes

(* The next payload of a root both hold.                                   *)
LEMMA NextHeld ==
    ASSUME ConvTypes, NEW own \in [Device -> Nat], NEW of \in [Nat -> Nat], Core(own, of),
           NEW d \in Device, conv[d] # <<>>, NEW m,
           m.f = SendFrame(Get(conv[d], Main(conv[d])).s, sealed + 1),
           m.prologue = Get(conv[d], Main(conv[d])).pending,
           Main(conv[d]) \in Roots(conv[Peer(d)]), ~OpensHeld(conv[Peer(d)], m)
    PROVE  (m.prologue /\ ~AcceptFits(m.f)) \/ GapTooWide(conv[Peer(d)], m)
<1> DEFINE e == Peer(d)
           c == conv[e]
           r == Main(conv[d])
           h == Get(conv[d], r)
           k == Get(c, r)
           p == h.s
           q == k.s
           f == m.f
<1>1. e \in Device /\ e # d /\ Peer(e) = d
  BY PeerFacts
<1>2. r \in Roots(conv[d]) /\ r \in Roots(c)
  BY Places
<1>3. sealed \in Nat /\ sealed + 1 \in Nat
  BY CountTypes
<1> HIDE DEF e, c, r, h, k, p, q, f
<1>c. /\ e = Peer(d) /\ c = conv[e] /\ h = Get(conv[d], r) /\ k = Get(c, r) /\ p = h.s /\ q = k.s
      /\ f = m.f /\ f = SendFrame(p, sealed + 1) /\ m.prologue = h.pending /\ ~OpensHeld(c, m)
  BY DEF e, c, r, h, k, p, q, f
<1>4. /\ p \in Session /\ p.root = r /\ r # 0 /\ r \in Nat /\ Sane(p, of, sealed)
      /\ RootSane(h, d, r, own, of)
  BY <1>2, <1>c, RootFacts
<1>5. q \in Session /\ q.root = r /\ Sane(q, of, sealed) /\ RootSane(k, e, r, own, of)
  BY <1>1, <1>2, <1>c, RootFacts
<1>6. Linked(p, q)
  <2>1. RootLinked(d, r, of)
    BY <1>2, <1>c DEF Core, RootsLinked
  <2> QED
    BY <1>c, <2>1 DEF RootLinked
<1>7. PICK i \in DOMAIN c : c[i].s = q
  BY <1>1, <1>2, <1>c, Places
<1>8. ~Opens(q, f)
  BY <1>7, <1>c DEF OpensHeld
<1>9. ~Spent(q, f)
  BY <1>3, <1>4, <1>5, <1>6, <1>c, LinkSent
<1>10. f \in Frame /\ f.chain = SendChain(p, sealed + 1)
  BY <1>3, <1>4, <1>c, SendFrameFacts
<1>11. CASE p.recv # 0
  <2>1. Answers(q, f) /\ ~TurnsEpoch(q, f)
    <3>1. p.root = q.root /\ f = SendFrame(p, sealed + 1)
      BY <1>4, <1>5, <1>c
    <3>2. ~Opens(q, SendFrame(p, sealed + 1))
      BY <1>8, <3>1
    <3>3. LET g == SendFrame(p, sealed + 1) IN Answers(q, g) /\ ~TurnsEpoch(q, g)
      BY <1>3, <1>4, <1>5, <1>6, <1>11, <3>1, <3>2, NextFrameOutcome
    <3> QED
      BY <3>1, <3>3
  <2>2. GapTooWide(c, m)
    BY <1>7, <1>c, <2>1 DEF GapTooWide
  <2> QED
    BY <1>c, <2>2
<1>12. CASE p.recv = 0
  <2>1. ~HeardRoot(h)
    BY <1>12, <1>c DEF HeardRoot
  <2>2. r = own[d] /\ OwnRoot(h)
    BY <1>4, <2>1 DEF RootSane
  <2>3. h.pending /\ p.send = r
    BY <1>4, <1>12, <1>c, <2>2 DEF OwnRoot
  <2>4. HeardRoot(k)
    BY <1>1, <1>5, <2>2 DEF RootSane
  <2>5. q.recv # 0
    BY <1>c, <2>4 DEF HeardRoot
  <2>6. f.chain = q.root
    BY <1>4, <1>5, <1>10, <2>3 DEF SendChain
  <2>7. ~AcceptFits(f)
    BY <1>3, <1>5, <1>8, <1>9, <1>10, <2>5, <2>6, PrologueOutcome
  <2>8. m.prologue
    BY <1>c, <2>3
  <2> QED
    BY <1>c, <2>7, <2>8
<1> QED
  BY <1>11, <1>12

(* The next payload of a root the peer does not hold is a prologue; an entry  *)
(* of the peer gives way to it, since nothing has answered its root.       *)
LEMMA NextUnheld ==
    ASSUME ConvTypes, NEW own \in [Device -> Nat], NEW of \in [Nat -> Nat], Core(own, of),
           NEW d \in Device, conv[d] # <<>>, NEW m,
           m.f = SendFrame(Get(conv[d], Main(conv[d])).s, sealed + 1),
           m.prologue = Get(conv[d], Main(conv[d])).pending,
           Main(conv[d]) \notin Roots(conv[Peer(d)])
    PROVE  LET c == conv[Peer(d)]
           IN  /\ m.prologue
               /\ ~OpensHeld(c, m) /\ ~UnavailableHeld(c, m) /\ ~Recognizes(c, m)
               /\ c # <<>> => c[1].pending
<1> DEFINE e == Peer(d)
           c == conv[e]
           r == Main(conv[d])
           h == Get(conv[d], r)
           p == h.s
           f == m.f
<1>1. e \in Device /\ e # d /\ Peer(e) = d
  BY PeerFacts
<1>2. r \in Roots(conv[d]) /\ r \notin Roots(c)
  BY Places
<1>3. sealed \in Nat /\ sealed + 1 \in Nat
  BY CountTypes
<1>4. /\ c \in Entry
      /\ \A i \in DOMAIN c : c[i].s.root \in Roots(c) /\ Get(c, c[i].s.root) = c[i]
  BY <1>1, Places
<1>5. ASSUME c # <<>> PROVE Main(c) \in Roots(c) /\ Get(c, Main(c)) = c[1]
  BY <1>1, <1>5, Places
<1> HIDE DEF e, c, r, h, p, f
<1>c. /\ e = Peer(d) /\ c = conv[e] /\ r = Main(conv[d]) /\ h = Get(conv[d], r) /\ p = h.s
      /\ f = m.f /\ f = SendFrame(p, sealed + 1) /\ m.prologue = h.pending
  BY DEF e, c, r, h, p, f
<1>6. /\ p \in Session /\ p.root = r /\ r # 0 /\ r \in Nat /\ Sane(p, of, sealed)
      /\ RootSane(h, d, r, own, of)
  BY <1>2, <1>c, RootFacts
<1>7. r = own[d] /\ r # own[e] /\ OwnRoot(h)
  <2>1. EntrySane(e, own, of)
    BY <1>1 DEF Core, EntriesSane
  <2>2. own[e] # 0 => own[e] \in Roots(c)
    BY <1>c, <2>1 DEF EntrySane
  <2>3. r # own[e]
    BY <1>2, <1>6, <2>2
  <2> QED
    BY <1>6, <1>c, <2>3 DEF RootSane
<1>8. p.recv = 0
  <2>1. Unheard(d, own, of)
    BY DEF Core, RootsUnheard
  <2> QED
    BY <1>2, <1>6, <1>7, <1>c, <2>1 DEF Unheard
<1>9. h.pending /\ p.send = r /\ p.base = 0
  BY <1>6, <1>7, <1>8, <1>c DEF OwnRoot, Sane
<1>10. f \in Frame /\ f.chain = r /\ f.base = 0
  <2>1. f \in Frame /\ f.chain = SendChain(p, sealed + 1) /\ f.base = p.base
    <3>1. f = SendFrame(p, sealed + 1) /\ p \in Session
      BY <1>6, <1>c
    <3> QED
      BY <1>3, <3>1, SendFrameFacts
  <2> QED
    BY <1>6, <1>9, <2>1 DEF SendChain
<1>11. of[r] = r
  BY <1>6 DEF Sane
<1>12. ASSUME NEW i \in DOMAIN c
       PROVE  c[i].s \in Session /\ Sane(c[i].s, of, sealed) /\ c[i].s.root # r
  <2>1. c[i].s.root \in Roots(c) /\ Get(c, c[i].s.root) = c[i]
    BY <1>4
  <2> DEFINE z == c[i].s.root
  <2>2. z \in Roots(conv[e]) /\ Get(conv[e], z) = c[i] /\ z # r
    BY <1>2, <1>c, <2>1
  <2>3. c[i].s.root = z
    OBVIOUS
  <2> HIDE DEF z
  <2>4. Get(conv[e], z).s \in Session /\ Sane(Get(conv[e], z).s, of, sealed)
    BY <1>1, <2>2, RootFacts
  <2> QED
    BY <2>2, <2>3, <2>4
<1>13. ~OpensHeld(c, m) /\ ~UnavailableHeld(c, m) /\ ~Recognizes(c, m)
  <2>1. m.f \in Frame /\ m.f.base = 0 /\ m.f.chain = r
    BY <1>10, <1>c
  <2> QED
    BY <1>3, <1>4, <1>6, <1>11, <1>12, <2>1, ForeignPrologue
<1>14. ASSUME c # <<>> PROVE c[1].pending
  <2> DEFINE z == Main(c)
  <2>1. z \in Roots(c) /\ Get(c, z) = c[1]
    BY <1>5, <1>14
  <2> HIDE DEF z
  <2>2. RootSane(c[1], e, z, own, of) /\ z # 0
    <3>1. z \in Roots(conv[e]) /\ Get(conv[e], z) = c[1]
      BY <1>c, <2>1
    <3>2. RootSane(Get(conv[e], z), e, z, own, of) /\ z # 0
      BY <1>1, <3>1, RootFacts
    <3> QED
      BY <3>1, <3>2
  <2>3. z = own[e]
    BY <1>1, <1>2, <1>7, <2>1, <2>2 DEF RootSane
  <2>4. OwnRoot(c[1])
    BY <2>2, <2>3 DEF RootSane
  <2>5. c[1].s.recv = 0
    <3>1. CASE own[e] \notin Roots(conv[d])
      <4>1. Unheard(e, own, of)
        BY <1>1 DEF Core, RootsUnheard
      <4> QED
        BY <1>1, <1>c, <2>1, <2>2, <2>3, <3>1, <4>1 DEF Unheard
    <3>2. CASE own[e] \in Roots(conv[d])
      <4>1. OneSided(e, own, of)
        BY <1>1 DEF Core, RootsOneSided
      <4>2. own[e] # 0 /\ own[d] # 0 /\ own[d] \notin Roots(conv[e]) /\ Main(conv[d]) # own[e]
        BY <1>2, <1>6, <1>7, <1>c, <2>2, <2>3
      <4>3. Get(conv[e], own[e]).s.recv = 0
        BY <1>1, <3>2, <4>1, <4>2 DEF OneSided
      <4> QED
        BY <1>c, <2>1, <2>3, <4>3
    <3> QED
      BY <3>1, <3>2
  <2> QED
    BY <2>4, <2>5 DEF OwnRoot
<1>15. m.prologue
  BY <1>9, <1>c
<1> QED
  BY <1>13, <1>14, <1>15 DEF c, e

(* The first payload of a device with no entry.                            *)
LEMMA NextBegins ==
    ASSUME ConvTypes, NEW own \in [Device -> Nat], NEW of \in [Nat -> Nat], Core(own, of),
           NEW d \in Device, Roots(conv[d]) = {}, NEW m,
           m.f = SendFrame(Initiator(sealed + 1), sealed + 1)
    PROVE  LET c == conv[Peer(d)]
           IN  /\ AcceptFits(m.f)
               /\ ~OpensHeld(c, m) /\ ~UnavailableHeld(c, m) /\ ~Recognizes(c, m)
               /\ c # <<>> => c[1].pending
<1> DEFINE e == Peer(d)
           c == conv[e]
           f == m.f
           id == sealed + 1
           by == [of EXCEPT ![id] = id]
<1>1. e \in Device /\ e # d /\ Peer(e) = d
  BY PeerFacts
<1>2. sealed \in Nat
  BY Constants DEF ConvTypes
<1>3. id \in Nat /\ id # 0 /\ sealed < id
  BY <1>2
<1>4. by[id] = id /\ \A k \in 1..sealed : by[k] = of[k]
  BY <1>2, <1>3
<1>5. /\ c \in Entry
      /\ \A i \in DOMAIN c : c[i].s.root \in Roots(c) /\ Get(c, c[i].s.root) = c[i]
  BY <1>1, Places
<1>6. ASSUME c # <<>> PROVE Main(c) \in Roots(c) /\ Get(c, Main(c)) = c[1]
  BY <1>1, <1>6, Places
<1>i. id = sealed + 1
  OBVIOUS
<1> HIDE DEF e, c, f, id, by
<1>c. e = Peer(d) /\ c = conv[e] /\ f = m.f
  BY DEF e, c, f
<1>7. f \in Frame /\ f.chain = id /\ f.base = 0 /\ f.n = 0
  <2> DEFINE s == Initiator(id)
  <2>1. s \in Session /\ s.send = id /\ s.base = 0 /\ s.ns = 0
    BY <1>3, InitiatorFacts
  <2>2. f = SendFrame(s, id)
    BY <1>c, <1>i
  <2> HIDE DEF s
  <2>3. f \in Frame /\ f.chain = SendChain(s, id) /\ f.base = s.base /\ f.n = s.ns
    BY <1>3, <2>1, <2>2, SendFrameFacts
  <2> QED
    BY <1>3, <2>1, <2>3 DEF SendChain
<1>8. AcceptFits(f)
  <2>1. 0 <= MaxSkip
    BY SkipAssumption
  <2> QED
    BY <1>7, <2>1 DEF AcceptFits
<1>9. ASSUME NEW i \in DOMAIN c
      PROVE  c[i].s \in Session /\ Sane(c[i].s, by, sealed + 1) /\ c[i].s.root # id
  <2> DEFINE z == c[i].s.root
  <2>1. z \in Roots(conv[e]) /\ Get(conv[e], z) = c[i]
    BY <1>5, <1>c
  <2>2. c[i].s.root = z
    OBVIOUS
  <2> HIDE DEF z
  <2>3. Get(conv[e], z).s \in Session /\ Sane(Get(conv[e], z).s, of, sealed)
    BY <1>1, <2>1, RootFacts
  <2>4. c[i].s \in Session /\ Sane(c[i].s, of, sealed)
    BY <2>1, <2>3
  <2>5. c[i].s.root <= sealed
    BY <1>2, <2>4 DEF Sane, Session
  <2>6. Sane(c[i].s, by, sealed + 1)
    BY <1>2, <1>4, <2>4, SaneLater
  <2>7. c[i].s.root # id
    BY <1>2, <1>3, <2>4, <2>5 DEF Session
  <2> QED
    BY <2>4, <2>6, <2>7
<1>10. ~OpensHeld(c, m) /\ ~UnavailableHeld(c, m) /\ ~Recognizes(c, m)
  <2>1. m.f \in Frame /\ m.f.base = 0 /\ m.f.chain = id /\ id # 0 /\ by[m.f.chain] = m.f.chain
    BY <1>3, <1>4, <1>7, <1>c
  <2>2. sealed + 1 \in Nat
    BY <1>3, <1>i
  <2> QED
    BY <1>5, <1>9, <2>1, <2>2, ForeignPrologue
<1>11. ASSUME c # <<>> PROVE c[1].pending
  <2> DEFINE z == Main(c)
  <2>1. z \in Roots(c) /\ Get(c, z) = c[1]
    BY <1>6, <1>11
  <2> HIDE DEF z
  <2>2. RootSane(c[1], e, z, own, of) /\ z # 0
    <3>1. z \in Roots(conv[e]) /\ Get(conv[e], z) = c[1]
      BY <1>c, <2>1
    <3>2. RootSane(Get(conv[e], z), e, z, own, of) /\ z # 0
      BY <1>1, <3>1, RootFacts
    <3> QED
      BY <3>1, <3>2
  <2>3. own[d] = 0
    <3>1. EntrySane(d, own, of)
      BY DEF Core, EntriesSane
    <3> QED
      BY <3>1 DEF EntrySane
  <2>4. z = own[e] /\ OwnRoot(c[1])
    BY <1>1, <2>2, <2>3 DEF RootSane
  <2>5. Unheard(e, own, of)
    BY <1>1 DEF Core, RootsUnheard
  <2>6. c[1].s.recv = 0
    BY <1>1, <1>c, <2>1, <2>2, <2>4, <2>5 DEF Unheard
  <2> QED
    BY <2>4, <2>6 DEF OwnRoot
<1> QED
  BY <1>8, <1>10, <1>11 DEF c, e, f

(* What either device seals next is understood, or past a bound.           *)
LEMMA NextUnderstood ==
    ASSUME ConvTypes, NEW own \in [Device -> Nat], NEW of \in [Nat -> Nat], Core(own, of),
           \A x \in Device : cert[x], NEW d \in Device
    PROVE  Understood(d) \/ TooFar(d) \/ GapTooWide(conv[Peer(d)], SealedPayload(d, now))
<1> DEFINE e == Peer(d)
           c == conv[e]
           m == SealedPayload(d, now + Interval)
           g == SealedPayload(d, now)
<1>1. e \in Device
  BY PeerFacts
<1>2. conv[d] \in Entry /\ Distinct(conv[d]) /\ sealed \in Nat /\ now \in Nat /\ now + Interval \in Nat
  <2>1. sealed \in Nat /\ now \in Nat
    BY Constants DEF ConvTypes
  <2>2. conv[d] \in Entry /\ Distinct(conv[d])
    BY Places
  <2>3. now + Interval \in Nat
    BY <2>1, Constants
  <2> QED
    BY <2>1, <2>2, <2>3
<1>3. /\ m.f = SendFrame(Settled(d)[1].s, sealed + 1) /\ m.prologue = Settled(d)[1].pending
      /\ g.f = SendFrame(Settled(d)[1].s, sealed + 1) /\ g.prologue = Settled(d)[1].pending
  BY <1>2, SealedPayloadFacts
<1>4. cert[e]
  BY <1>1
<1> HIDE DEF e, c, m, g
<1>5. m.f = g.f /\ m.prologue = g.prologue
  BY <1>3
<1>6. ASSUME OpensHeld(c, m) PROVE Understood(d)
  BY <1>6 DEF Understood, c, e, m
<1>7. ASSUME m.prologue, ~AcceptFits(m.f) PROVE TooFar(d)
  BY <1>5, <1>7 DEF TooFar, g
<1>8. ASSUME GapTooWide(c, m) PROVE GapTooWide(c, g)
  BY <1>5, <1>8 DEF GapTooWide
<1>9. ASSUME m.prologue, AcceptFits(m.f), ~UnavailableHeld(c, m), ~Recognizes(c, m),
             c # <<>> => c[1].pending
      PROVE  Understood(d)
  <2>1. CASE c = <<>>
    BY <1>9, <2>1 DEF Understood, c, e, m
  <2>2. CASE c # <<>>
    <3>1. Displaceable(c, m, TRUE)
      BY <1>9, <2>2 DEF Displaceable
    <3>2. Admits(c, m, TRUE)
      BY <3>1 DEF Admits
    <3> QED
      BY <1>4, <1>9, <3>2 DEF Understood, c, e, m
  <2> QED
    BY <2>1, <2>2
<1>10. CASE conv[d] = <<>>
  <2>1. Settled(d)[1].s = Initiator(sealed + 1) /\ Settled(d)[1].pending = TRUE
    BY <1>2, <1>10, SealBegins
  <2>2. m.f = SendFrame(Initiator(sealed + 1), sealed + 1) /\ m.prologue
    BY <1>3, <2>1
  <2>3. Roots(conv[d]) = {}
    BY <1>10, EntryRoots
  <2>4. /\ AcceptFits(m.f) /\ ~UnavailableHeld(c, m) /\ ~Recognizes(c, m)
        /\ c # <<>> => c[1].pending
    BY <2>2, <2>3, NextBegins DEF c, e
  <2> QED
    BY <1>9, <2>2, <2>4
<1>11. CASE conv[d] # <<>>
  <2> DEFINE r == Main(conv[d])
             h == Get(conv[d], r)
  <2>1. Settled(d)[1].s = h.s /\ Settled(d)[1].pending = h.pending
    BY <1>2, <1>11, SealedIsView
  <2>2. m.f = SendFrame(h.s, sealed + 1) /\ m.prologue = h.pending
    BY <1>3, <2>1
  <2>3. CASE r \in Roots(c)
    <3>1. ~OpensHeld(c, m) => (m.prologue /\ ~AcceptFits(m.f)) \/ GapTooWide(c, m)
      BY <1>11, <2>2, <2>3, NextHeld DEF c, e
    <3> QED
      BY <1>6, <1>7, <1>8, <3>1 DEF c, e, g
  <2>4. CASE r \notin Roots(c)
    <3>1. /\ m.prologue /\ ~UnavailableHeld(c, m) /\ ~Recognizes(c, m)
          /\ c # <<>> => c[1].pending
      BY <1>11, <2>2, <2>4, NextUnheld DEF c, e
    <3> QED
      BY <1>7, <1>9, <3>1
  <2> QED
    BY <2>3, <2>4
<1> QED
  BY <1>10, <1>11

(* Whatever was lost, repeated, reordered or restarted: until somebody gives   *)
(* the conversation up, what either device seals next opens at the other,      *)
(* unless it is past MAX_SKIP or beyond too wide a gap (seal_inner,            *)
(* open_inner, admit).                                                     *)
THEOREM NextPayloadOpens == Spec => []NextOpens
<1>1. ConvInv => NextOpens
  BY NextUnderstood DEF ConvInv, Sound, NextOpens
<1> QED
  BY <1>1, ConvInvInit, ConvInvStep, PTL DEF Spec
=============================================================================
