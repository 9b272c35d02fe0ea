------------------------- MODULE OnionStreamProofs -------------------------
(***************************************************************************)
(* An onion stream is a byte stream: whatever the carrier delays, reorders, *)
(* repeats and loses, the reader gets the written bytes in order, each once, *)
(* and the end after the last of them; for every modulus, first sequence    *)
(* number, segment size, window and every number of faults, as long as less *)
(* than half of the sequence space is written.                              *)
(***************************************************************************)
EXTENDS OnionStream, FiniteSetTheorems, SequenceTheorems, TLAPS

\* The k bytes after the first a.
Run(a, k) == [j \in 1..k |-> a + j]

-----------------------------------------------------------------------------
(* The inductive invariant.                                                *)

TxType ==
    [phase : {"established", "closed"}, snd_una : SeqNo, snd_nxt : SeqNo,
     pending : Seq(Byte), segs : Seq(SegType), rwnd : 0..RecvWindow,
     probe : SUBSET [seq : SeqNo, replied : BOOLEAN], force_probe : BOOLEAN,
     hint_used : BOOLEAN, consec_rto : 0..(MaxRetransmits + 1), rewind_high : SUBSET SeqNo,
     rewind_fin : BOOLEAN, fin_requested : BOOLEAN, fin_sent : BOOLEAN,
     fin_acked : BOOLEAN]

EndOffset(s) == Offset(s.seq) + Span(s)

(* A segment is a run of written bytes, or the FIN.  A FIN sent again after   *)
(* a late ACK of the first one comes one number too late.                   *)
SegmentOK(t, s, w) ==
    IF s.is_fin
    THEN /\ s.data = <<>> /\ t.fin_sent
         /\ Offset(s.seq) \in {w, w + 1} /\ (Offset(s.seq) = w + 1 => t.fin_acked)
    ELSE /\ Len(s.data) >= 1 /\ Offset(s.seq) + Len(s.data) <= w
         /\ s.data = Run(Offset(s.seq), Len(s.data))

(* The flight is a chain of segments from snd_una to snd_nxt ...            *)
Chain(t) ==
    /\ \A i \in 1..Len(t.segs) :
          /\ EndOffset(t.segs[i]) <= Offset(t.snd_nxt)
          /\ i = Len(t.segs) => EndOffset(t.segs[i]) = Offset(t.snd_nxt)
          /\ i < Len(t.segs) => EndOffset(t.segs[i]) = Offset(t.segs[i + 1].seq)
          /\ \A j \in 1..Len(t.segs) : i < j => EndOffset(t.segs[i]) <= Offset(t.segs[j].seq)
    /\ Len(t.segs) = 0 => t.snd_una = t.snd_nxt
    /\ Len(t.segs) > 0 => /\ Offset(t.segs[1].seq) <= Offset(t.snd_una)
                          /\ Offset(t.snd_una) < EndOffset(t.segs[1])
    /\ Offset(t.snd_una) <= Offset(t.snd_nxt)

(* ... the FIN has the number after the last byte, and an ACK of it ends all  *)
(* rewinding ...                                                            *)
Finishing(t, w) ==
    /\ Offset(t.snd_nxt) <= w + 2
    /\ t.fin_sent => t.fin_requested /\ Offset(t.snd_nxt) >= w + 1
    /\ Offset(t.snd_nxt) > w /\ ~t.fin_sent => Offset(t.snd_nxt) = w + 1 /\ t.fin_acked
    /\ Offset(t.snd_nxt) = w + 2 => t.fin_acked
    /\ t.fin_acked => t.fin_requested /\ Offset(t.snd_una) >= w + 1 /\ t.rewind_high = {}

(* ... and a rewound flight reached no further than what was written.       *)
Rewound(t, w) ==
    /\ \A g, h \in t.rewind_high : g = h
    /\ \A h \in t.rewind_high :
          Offset(h) <= w + 1 /\ (Offset(h) = w + 1 => t.rewind_fin)
    /\ t.rewind_fin => t.fin_requested /\ \E h \in t.rewind_high : Offset(h) = w + 1

Sender(t, w) ==
    /\ \A i \in 1..Len(t.segs) : SegmentOK(t, t.segs[i], w)
    /\ Chain(t)
    /\ t.pending = Run(Offset(t.snd_nxt), SaturatingSub(w, Offset(t.snd_nxt)))
    /\ Finishing(t, w)
    /\ Rewound(t, w)

(* A probe is forced only when nothing is in flight, and a live stream has    *)
(* retries left.                                                            *)
Timers(t) ==
    /\ t.force_probe => Len(t.segs) = 0 /\ t.rwnd = 0
    /\ t.phase = "established" => t.consec_rto <= MaxRetransmits

RxType(r) ==
    r \in [phase : {"established", "closed", "lingering", "gone"}, rcv_nxt : SeqNo, read_buf : Seq(Byte),
           oo : [DOMAIN r.oo -> Byte],
           peer_fin : SUBSET SeqNo, eof : BOOLEAN, end : {"open", "eof", "reset"},
           ack_pending : BOOLEAN, last_ack_window : 0..RecvWindow]

\* Bytes the receiver has in order.
InOrder(r) == Offset(r.rcv_nxt) - (IF r.eof THEN 1 ELSE 0)

(* The receiver has a prefix of what was written, and some of the rest.      *)
Receiver(r, g, w, finished) ==
    /\ InOrder(r) \in 0..w
    /\ r.eof => InOrder(r) = w /\ finished
    /\ g \o r.read_buf = Run(0, InOrder(r))
    /\ \A n \in DOMAIN r.oo :
          /\ n \in SeqNo /\ r.oo[n] = Offset(n) + 1
          /\ Offset(r.rcv_nxt) <= Offset(n) /\ Offset(n) < w
    /\ \A n \in r.peer_fin : finished /\ (Offset(n) = w \/ (Offset(n) = w + 1 /\ r.eof))

\* A clean end is only told of a stream whose FIN was consumed.
Verdict(r) == r.end = "eof" => r.eof

\* A number the receiver has, in order or not.
Holds(r, n) == n \in DOMAIN r.oo \/ Offset(n) < Offset(r.rcv_nxt)

(* Cells say what is true, whenever they arrive.                           *)
CellOK(c, r, w, finished) ==
    /\ c.kind = "data" => /\ c.data = Run(Offset(c.seq), Len(c.data))
                          /\ Offset(c.seq) + Len(c.data) <= w
    /\ c.kind = "fin" => finished /\ (Offset(c.seq) = w \/ (Offset(c.seq) = w + 1 /\ r.eof))
    /\ c.kind = "ack" => /\ Offset(c.ack) <= Offset(r.rcv_nxt)
                         /\ \A n \in c.sacks : Holds(r, n)

(* What the sender takes for received, the receiver has.                    *)
Agreement(t, r) ==
    /\ Offset(t.snd_una) <= Offset(r.rcv_nxt)
    /\ \A i \in 1..Len(t.segs) : t.segs[i].sacked =>
          \A n \in Numbers(t.segs[i].seq, Span(t.segs[i])) : Holds(r, n)

AppOK ==
    /\ written \in 0..MaxBytes /\ got \in Seq(Byte)
    /\ DOMAIN spent = DOMAIN Bound
    /\ \A kind \in DOMAIN Bound : spent[kind] \in 0..Bound[kind]

SenderOK(t, w, r) == t \in TxType /\ Sender(t, w) /\ Timers(t) /\ Agreement(t, r)
RxOK(r, g, w, finished) == RxType(r) /\ Receiver(r, g, w, finished) /\ Verdict(r)
Sound(X, r, w, finished) == X \subseteq CellType /\ \A c \in X : CellOK(c, r, w, finished)

StreamInv ==
    /\ AppOK
    /\ SenderOK(tx, written, rx)
    /\ RxOK(rx, got, written, tx.fin_requested)
    /\ Sound(outbound \cup net, rx, written, tx.fin_requested)

-----------------------------------------------------------------------------
(* Sequence numbers.  Subtraction modulo Modulus, case by case ...          *)
LEMMA Moduli ==
    /\ Modulus \in Nat \ {0} /\ Modulus \div 2 \in Nat /\ 2 * (Modulus \div 2) = Modulus
    /\ Iss \in 0..(Modulus - 1) /\ MaxBytes \in Nat /\ MaxBytes + 2 < Modulus \div 2
<1>1. Modulus \in Nat \ {0} /\ Modulus % 2 = 0
  BY SeqAssumption
<1>2. Modulus \div 2 \in Nat /\ 2 * (Modulus \div 2) = Modulus
  BY <1>1
<1>3. Iss \in 0..(Modulus - 1) /\ MaxBytes \in Nat /\ MaxBytes + 2 < Modulus \div 2
  BY StreamAssumption DEF SeqNo
<1> QED
  BY <1>1, <1>2, <1>3

LEMMA MinusCases ==
    ASSUME NEW a \in SeqNo, NEW b \in SeqNo
    PROVE  /\ a >= b => Minus(a, b) = a - b
           /\ a < b => Minus(a, b) = a - b + Modulus
<1>1. Modulus \in Nat \ {0} /\ a \in 0..(Modulus - 1) /\ b \in 0..(Modulus - 1)
  BY Moduli DEF SeqNo
<1>2. ASSUME a >= b PROVE (a - b) % Modulus = a - b
  BY <1>1, <1>2
<1>3. ASSUME a < b PROVE (a - b) % Modulus = a - b + Modulus
  BY <1>1, <1>3
<1> QED
  BY <1>2, <1>3 DEF Minus

LEMMA PlusCases ==
    ASSUME NEW a \in SeqNo, NEW n \in 0..(Modulus - 1)
    PROVE  Plus(a, n) = IF a + n < Modulus THEN a + n ELSE a + n - Modulus
<1>1. Modulus \in Nat \ {0} /\ a \in 0..(Modulus - 1) /\ n \in 0..(Modulus - 1)
  BY Moduli DEF SeqNo
<1>2. ASSUME a + n < Modulus PROVE (a + n) % Modulus = a + n
  BY <1>1, <1>2
<1>3. ASSUME ~(a + n < Modulus) PROVE (a + n) % Modulus = a + n - Modulus
  BY <1>1, <1>3
<1> QED
  BY <1>2, <1>3 DEF Plus

(* ... so that offsets tell numbers apart and count on from each other ...   *)
LEMMA OffsetCases ==
    ASSUME NEW a \in SeqNo
    PROVE  /\ a \in Nat /\ Offset(a) \in Nat /\ Offset(a) < Modulus
           /\ Offset(a) = IF a >= Iss THEN a - Iss ELSE a - Iss + Modulus
<1>1. Iss \in SeqNo /\ Modulus \in Nat
  BY Moduli DEF SeqNo
<1>2. /\ a >= Iss => Offset(a) = a - Iss
      /\ a < Iss => Offset(a) = a - Iss + Modulus
  BY <1>1, MinusCases DEF Offset
<1> QED
  BY <1>1, <1>2 DEF SeqNo

LEMMA OffsetEq ==
    ASSUME NEW a \in SeqNo, NEW b \in SeqNo, Offset(a) = Offset(b)
    PROVE  a = b
<1>1. Iss \in 0..(Modulus - 1) /\ Modulus \in Nat /\ a \in 0..(Modulus - 1) /\ b \in 0..(Modulus - 1)
  BY Moduli DEF SeqNo
<1> QED
  BY <1>1, OffsetCases

LEMMA PlusOffset ==
    ASSUME NEW a \in SeqNo, NEW k \in Nat, Offset(a) + k < Modulus
    PROVE  Plus(a, k) \in SeqNo /\ Offset(Plus(a, k)) = Offset(a) + k
<1>1. Iss \in 0..(Modulus - 1) /\ Modulus \in Nat /\ a \in 0..(Modulus - 1)
  BY Moduli DEF SeqNo
<1>2. Offset(a) \in Nat /\ Offset(a) = IF a >= Iss THEN a - Iss ELSE a - Iss + Modulus
  BY OffsetCases
<1>3. k \in 0..(Modulus - 1)
  BY <1>1, <1>2
<1>4. Plus(a, k) = IF a + k < Modulus THEN a + k ELSE a + k - Modulus
  BY <1>3, PlusCases
<1>5. Plus(a, k) \in SeqNo
  BY <1>1, <1>3, <1>4 DEF SeqNo
<1>6. /\ Plus(a, k) \in Nat
      /\ Offset(Plus(a, k)) = IF Plus(a, k) >= Iss THEN Plus(a, k) - Iss
                              ELSE Plus(a, k) - Iss + Modulus
  BY <1>5, OffsetCases
<1> QED
  BY <1>1, <1>2, <1>3, <1>4, <1>5, <1>6

LEMMA MinusOffset ==
    ASSUME NEW a \in SeqNo, NEW b \in SeqNo
    PROVE  /\ Offset(b) <= Offset(a) => Minus(a, b) = Offset(a) - Offset(b)
           /\ Offset(a) < Offset(b) => Minus(a, b) = Offset(a) - Offset(b) + Modulus
<1>1. Iss \in 0..(Modulus - 1) /\ Modulus \in Nat /\ a \in 0..(Modulus - 1) /\ b \in 0..(Modulus - 1)
  BY Moduli DEF SeqNo
<1> QED
  BY <1>1, OffsetCases, MinusCases

(* ... and numbers near the start compare as their offsets.                 *)
Near(n) == n \in SeqNo /\ Offset(n) <= MaxBytes + 2

LEMMA Order ==
    ASSUME NEW a, NEW b, Near(a), Near(b)
    PROVE  /\ Lt(a, b) <=> Offset(a) < Offset(b)
           /\ Leq(a, b) <=> Offset(a) <= Offset(b)
           /\ Gt(a, b) <=> Offset(a) > Offset(b)
           /\ Geq(a, b) <=> Offset(a) >= Offset(b)
<1>1. /\ a \in SeqNo /\ b \in SeqNo /\ Offset(a) \in Nat /\ Offset(b) \in Nat
      /\ Offset(a) < Modulus \div 2 /\ Offset(b) < Modulus \div 2
  BY Moduli, OffsetCases DEF Near
<1>2. /\ Modulus \in Nat /\ Modulus \div 2 \in Nat /\ 2 * (Modulus \div 2) = Modulus
  BY Moduli
<1>3. Lt(a, b) <=> Offset(a) < Offset(b)
  <2>1. /\ Offset(b) <= Offset(a) => Minus(a, b) = Offset(a) - Offset(b)
        /\ Offset(a) < Offset(b) => Minus(a, b) = Offset(a) - Offset(b) + Modulus
    BY <1>1, MinusOffset
  <2> QED
    BY <1>1, <1>2, <2>1 DEF Lt
<1>4. Lt(b, a) <=> Offset(b) < Offset(a)
  <2>1. /\ Offset(a) <= Offset(b) => Minus(b, a) = Offset(b) - Offset(a)
        /\ Offset(b) < Offset(a) => Minus(b, a) = Offset(b) - Offset(a) + Modulus
    BY <1>1, MinusOffset
  <2> QED
    BY <1>1, <1>2, <2>1 DEF Lt
<1>5. Offset(a) = Offset(b) <=> a = b
  BY <1>1, OffsetEq
<1> QED
  BY <1>1, <1>3, <1>4, <1>5 DEF Leq, Gt, Geq

LEMMA Extremes ==
    ASSUME NEW a, NEW b, Near(a), Near(b)
    PROVE  /\ Near(SeqMax(a, b)) /\ Near(SeqMin(a, b))
           /\ SeqMax(a, b) \in {a, b} /\ SeqMin(a, b) \in {a, b}
           /\ Offset(SeqMax(a, b)) >= Offset(a) /\ Offset(SeqMax(a, b)) >= Offset(b)
           /\ Offset(SeqMin(a, b)) <= Offset(a) /\ Offset(SeqMin(a, b)) <= Offset(b)
<1>1. Lt(a, b) <=> Offset(a) < Offset(b)
  BY Order
<1>2. Offset(a) \in Nat /\ Offset(b) \in Nat
  BY OffsetCases DEF Near
<1> QED
  BY <1>1, <1>2 DEF SeqMax, SeqMin

(* A range of numbers is the numbers of a range of offsets.                 *)
LEMMA NumbersOffset ==
    ASSUME NEW a \in SeqNo, NEW k \in Nat, Offset(a) + k <= MaxBytes + 2, NEW n
    PROVE  n \in Numbers(a, k)
           <=> n \in SeqNo /\ Offset(a) <= Offset(n) /\ Offset(n) < Offset(a) + k
<1>1. Offset(a) \in Nat /\ MaxBytes \in Nat /\ MaxBytes + 2 < Modulus /\ Modulus \in Nat
  BY Moduli, OffsetCases
<1>2. ASSUME n \in Numbers(a, k)
      PROVE  n \in SeqNo /\ Offset(a) <= Offset(n) /\ Offset(n) < Offset(a) + k
  <2>1. PICK i \in 0..(k - 1) : n = Plus(a, i)
    BY <1>2 DEF Numbers
  <2>2. i \in Nat /\ Offset(a) + i < Modulus
    BY <1>1
  <2>3. Plus(a, i) \in SeqNo /\ Offset(Plus(a, i)) = Offset(a) + i
    BY <2>2, PlusOffset
  <2> QED
    BY <1>1, <2>1, <2>3
<1>3. ASSUME n \in SeqNo, Offset(a) <= Offset(n), Offset(n) < Offset(a) + k
      PROVE  n \in Numbers(a, k)
  <2> DEFINE i == Offset(n) - Offset(a)
  <2>1. Offset(n) \in Nat
    BY <1>3, OffsetCases
  <2>2. i \in 0..(k - 1) /\ i \in Nat /\ Offset(a) + i < Modulus /\ Offset(a) + i = Offset(n)
    BY <1>1, <1>3, <2>1
  <2> HIDE DEF i
  <2>3. Plus(a, i) \in SeqNo /\ Offset(Plus(a, i)) = Offset(n)
    BY <2>2, PlusOffset
  <2>4. n = Plus(a, i)
    BY <1>3, <2>3, OffsetEq
  <2> QED
    BY <2>2, <2>4 DEF Numbers
<1> QED
  BY <1>2, <1>3

-----------------------------------------------------------------------------
(* Sequences.  Every set of numbers that is not empty has a least one: the   *)
(* form of induction used below.                                            *)
LEMMA Least ==
    ASSUME NEW S \in SUBSET Nat, S # {}
    PROVE  \E x \in S : \A y \in S : x <= y
<1>1. IsWellFoundedOn(OpToRel(<, Nat), Nat)
  BY NatLessThanWellFounded, Zenon
<1>2. PICK x \in S : \A y \in S : ~(<<y, x>> \in OpToRel(<, Nat))
  BY <1>1, WFMin, Zenon
<1>3. ASSUME NEW y \in S PROVE ~(y < x)
  <2>1. <<y, x>> \in Nat \X Nat
    OBVIOUS
  <2>2. ~(<<y, x>>[1] < <<y, x>>[2])
    BY <1>2, <2>1, Zenon DEF OpToRel
  <2> QED
    BY <2>2
<1> QED
  BY <1>3

LEMMA RunSeq ==
    ASSUME NEW a \in Nat, NEW k \in Nat
    PROVE  /\ Run(a, k) \in Seq(Nat) /\ Len(Run(a, k)) = k
           /\ \A j \in 1..k : Run(a, k)[j] = a + j
<1>1. Run(a, k) \in [1..k -> Nat]
  BY DEF Run
<1> QED
  BY <1>1 DEF Run

(* A sequence that counts on from a is a run.                               *)
LEMMA IsRun ==
    ASSUME NEW S, NEW s \in Seq(S), NEW a \in Nat, NEW k \in Nat,
           Len(s) = k, \A j \in 1..k : s[j] = a + j
    PROVE  s = Run(a, k)
<1>1. Run(a, k) \in Seq(Nat) /\ Len(Run(a, k)) = k /\ \A j \in 1..k : Run(a, k)[j] = a + j
  BY RunSeq
<1>2. s = [j \in 1..k |-> s[j]]
  <2>1. s \in [1..k -> S]
    BY LenProperties
  <2> QED
    BY <2>1
<1>3. [j \in 1..k |-> s[j]] = [j \in 1..k |-> a + j]
  OBVIOUS
<1> QED
  BY <1>2, <1>3 DEF Run

LEMMA RunEmpty == \A a : Run(a, 0) = <<>>
<1> TAKE a
<1>1. Run(a, 0) \in [1..0 -> {}]
  BY DEF Run
<1>2. Run(a, 0) \in Seq({}) /\ Len(Run(a, 0)) = 0
  BY <1>1
<1> QED
  BY <1>2, EmptySeq

LEMMA RunConcat ==
    ASSUME NEW a \in Nat, NEW k \in Nat, NEW m \in Nat
    PROVE  Run(a, k) \o Run(a + k, m) = Run(a, k + m)
<1> DEFINE b == a + k
           p == Run(a, k)
           q == Run(b, m)
           s == p \o q
<1>0. b \in Nat /\ b = a + k
  OBVIOUS
<1> HIDE DEF b
<1>1. p \in Seq(Nat) /\ Len(p) = k /\ \A j \in 1..k : p[j] = a + j
  BY RunSeq
<1>2. q \in Seq(Nat) /\ Len(q) = m /\ \A j \in 1..m : q[j] = b + j
  BY <1>0, RunSeq
<1> HIDE DEF p, q
<1>3. /\ s \in Seq(Nat) /\ Len(s) = Len(p) + Len(q)
      /\ \A i \in 1..(Len(p) + Len(q)) : s[i] = IF i <= Len(p) THEN p[i] ELSE q[i - Len(p)]
  BY <1>1, <1>2, ConcatProperties
<1> HIDE DEF s
<1>4. ASSUME NEW i \in 1..(k + m) PROVE s[i] = a + i
  <2>1. s[i] = IF i <= k THEN p[i] ELSE q[i - k]
    BY <1>1, <1>2, <1>3
  <2>2. CASE i <= k
    BY <1>1, <2>1, <2>2
  <2>3. CASE i > k
    <3>1. i - k \in 1..m
      BY <2>3
    <3>2. s[i] = q[i - k]
      BY <2>1, <2>3
    <3> QED
      BY <1>0, <1>2, <3>1, <3>2
  <2> QED
    BY <2>2, <2>3
<1>5. k + m \in Nat /\ Len(s) = k + m
  BY <1>1, <1>2, <1>3
<1>6. s = Run(a, k + m)
  BY <1>3, <1>4, <1>5, IsRun
<1> QED
  BY <1>0, <1>6 DEF s, p, q

LEMMA RunSuffix ==
    ASSUME NEW a \in Nat, NEW k \in Nat, NEW d \in 0..k
    PROVE  SubSeq(Run(a, k), d + 1, k) = Run(a + d, k - d)
<1> DEFINE s == SubSeq(Run(a, k), d + 1, k)
<1>1. \A j \in 1..k : Run(a, k)[j] = a + j
  BY RunSeq
<1>2. \A i \in (d + 1)..k : Run(a, k)[i] \in Nat
  BY <1>1
<1>3. /\ s \in Seq(Nat) /\ Len(s) = IF d + 1 <= k THEN k - (d + 1) + 1 ELSE 0
      /\ \A i \in 1..(k - (d + 1) + 1) : s[i] = Run(a, k)[d + 1 + i - 1]
  BY <1>2, SubSeqProperties
<1> HIDE DEF s
<1>4. Len(s) = k - d
  BY <1>3
<1>5. \A i \in 1..(k - d) : s[i] = a + d + i
  <2> TAKE i \in 1..(k - d)
  <2>1. i \in 1..(k - (d + 1) + 1) /\ d + 1 + i - 1 \in 1..k /\ d + 1 + i - 1 = d + i
    OBVIOUS
  <2> QED
    BY <1>1, <1>3, <2>1
<1>6. k - d \in Nat /\ a + d \in Nat
  OBVIOUS
<1>7. s = Run(a + d, k - d)
  BY <1>3, <1>4, <1>5, <1>6, IsRun
<1> QED
  BY <1>7 DEF s

LEMMA RunPrefix ==
    ASSUME NEW a \in Nat, NEW k \in Nat, NEW d \in 0..k
    PROVE  SubSeq(Run(a, k), 1, d) = Run(a, d)
<1> DEFINE s == SubSeq(Run(a, k), 1, d)
<1>1. \A j \in 1..k : Run(a, k)[j] = a + j
  BY RunSeq
<1>2. \A i \in 1..d : Run(a, k)[i] \in Nat
  BY <1>1
<1>3. /\ s \in Seq(Nat) /\ Len(s) = IF 1 <= d THEN d - 1 + 1 ELSE 0
      /\ \A i \in 1..(d - 1 + 1) : s[i] = Run(a, k)[1 + i - 1]
  BY <1>2, SubSeqProperties
<1> HIDE DEF s
<1>4. Len(s) = d /\ \A i \in 1..d : s[i] = a + i
  <2>1. Len(s) = d
    BY <1>3
  <2>2. ASSUME NEW i \in 1..d PROVE s[i] = a + i
    <3>1. i \in 1..(d - 1 + 1) /\ 1 + i - 1 = i /\ i \in 1..k
      OBVIOUS
    <3> QED
      BY <1>1, <1>3, <3>1
  <2> QED
    BY <2>1, <2>2
<1>5. s = Run(a, d)
  BY <1>3, <1>4, IsRun
<1> QED
  BY <1>5 DEF s

LEMMA RunBytes ==
    ASSUME NEW a \in Nat, NEW k \in Nat, a + k <= MaxBytes
    PROVE  Run(a, k) \in Seq(Byte)
<1>1. MaxBytes \in Nat
  BY Moduli
<1>2. Run(a, k) \in [1..k -> Byte]
  BY <1>1 DEF Run, Byte
<1> QED
  BY <1>2

-----------------------------------------------------------------------------
(* The sender.  The numbers it works with are near the start.               *)
LEMMA SegmentNear ==
    ASSUME NEW t \in TxType, NEW w \in 0..MaxBytes, Sender(t, w), NEW i \in 1..Len(t.segs)
    PROVE  LET s == t.segs[i]
           IN  /\ s \in SegType /\ Near(s.seq) /\ Near(EndOf(s))
               /\ Span(s) \in Nat \ {0} /\ Offset(s.seq) \in Nat
               /\ Offset(EndOf(s)) = EndOffset(s) /\ EndOffset(s) <= w + 2
               /\ SegmentOK(t, s, w)
<1> DEFINE s == t.segs[i]
<1>1. s \in SegType
  BY ElementOfSeq DEF TxType
<1>2. SegmentOK(t, s, w)
  BY DEF Sender
<1>3. /\ s.seq \in SeqNo /\ s.data \in Seq(Byte) /\ s.is_fin \in BOOLEAN /\ Len(s.data) \in Nat
  BY <1>1 DEF SegType
<1>4. w \in Nat /\ w <= MaxBytes /\ MaxBytes \in Nat /\ Modulus \in Nat /\ MaxBytes + 2 < Modulus
  BY Moduli
<1>5. Offset(s.seq) \in Nat
  BY <1>3, OffsetCases
<1>6. Span(s) \in Nat \ {0} /\ EndOffset(s) <= w + 2
  <2>1. CASE s.is_fin
    BY <1>2, <1>4, <1>5, <2>1 DEF SegmentOK, Span, EndOffset
  <2>2. CASE ~s.is_fin
    BY <1>2, <1>3, <1>4, <1>5, <2>2 DEF SegmentOK, Span, EndOffset
  <2> QED
    BY <2>1, <2>2
<1> HIDE DEF s
<1>7. EndOf(s) \in SeqNo /\ Offset(EndOf(s)) = EndOffset(s)
  <2>1. Span(s) \in Nat /\ Offset(s.seq) + Span(s) < Modulus
    BY <1>4, <1>5, <1>6 DEF EndOffset
  <2> QED
    BY <1>3, <2>1, PlusOffset DEF EndOf, EndOffset
<1>8. Near(s.seq) /\ Near(EndOf(s))
  BY <1>3, <1>4, <1>5, <1>6, <1>7 DEF Near, EndOffset
<1> QED
  BY <1>1, <1>2, <1>5, <1>6, <1>7, <1>8 DEF s

LEMMA SenderNear ==
    ASSUME NEW t \in TxType, NEW w \in 0..MaxBytes, Sender(t, w)
    PROVE  /\ Near(t.snd_una) /\ Near(t.snd_nxt) /\ \A h \in t.rewind_high : Near(h)
           /\ Offset(t.snd_una) \in Nat /\ Offset(t.snd_nxt) \in Nat
           /\ \A h \in t.rewind_high : Offset(h) \in Nat
           /\ Len(t.segs) \in Nat /\ DOMAIN t.segs = 1..Len(t.segs)
<1>1. /\ t.snd_una \in SeqNo /\ t.snd_nxt \in SeqNo /\ t.rewind_high \subseteq SeqNo
      /\ t.segs \in Seq(SegType)
  BY DEF TxType
<1>2. /\ Offset(t.snd_una) <= Offset(t.snd_nxt) /\ Offset(t.snd_nxt) <= w + 2
      /\ \A h \in t.rewind_high : Offset(h) <= w + 1
  BY DEF Sender, Chain, Finishing, Rewound
<1>3. /\ Offset(t.snd_una) \in Nat /\ Offset(t.snd_nxt) \in Nat
      /\ \A h \in t.rewind_high : Offset(h) \in Nat
  BY <1>1, OffsetCases
<1>4. w \in Nat /\ w <= MaxBytes /\ MaxBytes \in Nat
  BY Moduli
<1> QED
  BY <1>1, <1>2, <1>3, <1>4 DEF Near

(* A step that only touches flags, timers and windows keeps the ledger.      *)
SameFlight(t, u) ==
    /\ u.snd_una = t.snd_una /\ u.snd_nxt = t.snd_nxt /\ u.pending = t.pending
    /\ u.rewind_high = t.rewind_high /\ u.rewind_fin = t.rewind_fin
    /\ u.fin_sent = t.fin_sent /\ u.fin_acked = t.fin_acked
    /\ t.fin_requested => u.fin_requested
    /\ Len(u.segs) = Len(t.segs)
    /\ \A i \in 1..Len(t.segs) : /\ u.segs[i].seq = t.segs[i].seq
                                 /\ u.segs[i].data = t.segs[i].data
                                 /\ u.segs[i].is_fin = t.segs[i].is_fin

LEMMA SameFlightKeeps ==
    ASSUME NEW t, NEW u, NEW w, Sender(t, w), SameFlight(t, u), Len(t.segs) \in Nat
    PROVE  Sender(u, w)
<1>1. \A i \in 1..Len(t.segs) :
         /\ Span(u.segs[i]) = Span(t.segs[i])
         /\ EndOffset(u.segs[i]) = EndOffset(t.segs[i])
         /\ u.segs[i].seq = t.segs[i].seq
  BY DEF SameFlight, Span, EndOffset
<1>2. Chain(u)
  <2>1. Len(u.segs) = Len(t.segs) /\ u.snd_una = t.snd_una /\ u.snd_nxt = t.snd_nxt
    BY DEF SameFlight
  <2>2. Chain(t)
    BY DEF Sender
  <2>3. \A i \in 1..Len(t.segs) : i < Len(t.segs) => i + 1 \in 1..Len(t.segs)
    OBVIOUS
  <2>4. Len(t.segs) > 0 => 1 \in 1..Len(t.segs)
    OBVIOUS
  <2> QED
    BY <1>1, <2>1, <2>2, <2>3, <2>4 DEF Chain
<1>3. \A i \in 1..Len(u.segs) : SegmentOK(u, u.segs[i], w)
  BY DEF Sender, SameFlight, SegmentOK
<1>4. Finishing(u, w) /\ Rewound(u, w)
  BY DEF Sender, SameFlight, Finishing, Rewound
<1> QED
  BY <1>2, <1>3, <1>4 DEF Sender, SameFlight

(* write appends the next byte.                                            *)
LEMMA WriteKeeps ==
    ASSUME NEW t \in TxType, NEW w \in 0..MaxBytes, Sender(t, w), ~t.fin_requested, w < MaxBytes,
           NEW u, u = [t EXCEPT !.pending = Append(@, w + 1)]
    PROVE  u \in TxType /\ Sender(u, w + 1)
<1>1. w \in Nat /\ MaxBytes \in Nat /\ w + 1 \in 1..MaxBytes
  BY Moduli
<1>2. Append(t.pending, w + 1) \in Seq(Byte)
  BY <1>1 DEF TxType, Byte
<1>3. /\ u \in TxType /\ u.pending = Append(t.pending, w + 1)
      /\ u.segs = t.segs /\ u.snd_una = t.snd_una /\ u.snd_nxt = t.snd_nxt
      /\ u.rewind_high = t.rewind_high /\ u.rewind_fin = t.rewind_fin
      /\ u.fin_sent = t.fin_sent /\ u.fin_acked = t.fin_acked
      /\ u.fin_requested = t.fin_requested
  BY <1>2 DEF TxType
<1>4. /\ Offset(t.snd_nxt) \in Nat /\ Offset(t.snd_una) \in Nat /\ Len(t.segs) \in Nat
      /\ \A h \in t.rewind_high : Offset(h) \in Nat
  BY SenderNear
<1>5. ~t.fin_sent /\ ~t.fin_acked /\ Offset(t.snd_nxt) <= w /\ ~t.rewind_fin
  BY <1>1, <1>4 DEF Sender, Finishing, Rewound
<1>6. \A h \in t.rewind_high : Offset(h) <= w
  BY <1>1, <1>4, <1>5 DEF Sender, Rewound
<1>7. u.pending = Run(Offset(t.snd_nxt), w + 1 - Offset(t.snd_nxt))
  <2> DEFINE a == Offset(t.snd_nxt)
             k == w - a
             p == Append(t.pending, w + 1)
  <2>1. a \in Nat /\ k \in Nat /\ w = a + k /\ SaturatingSub(w, a) = k
    BY <1>1, <1>4, <1>5 DEF SaturatingSub
  <2>2. t.pending = Run(a, k)
    BY <2>1 DEF Sender
  <2> HIDE DEF a, k
  <2>3. Len(t.pending) = k /\ \A j \in 1..k : t.pending[j] = a + j
    BY <2>1, <2>2, RunSeq
  <2>4. t.pending \in Seq(Byte) /\ w + 1 \in Byte
    BY <1>1 DEF TxType, Byte
  <2>5. /\ p \in Seq(Byte) /\ Len(p) = k + 1
        /\ \A j \in 1..k : p[j] = t.pending[j]
        /\ p[k + 1] = w + 1
    BY <2>1, <2>3, <2>4, AppendProperties
  <2> HIDE DEF p
  <2>6. \A j \in 1..(k + 1) : p[j] = a + j
    BY <2>1, <2>3, <2>5
  <2>7. k + 1 \in Nat /\ p = Run(a, k + 1)
    BY <2>1, <2>5, <2>6, IsRun
  <2>8. k + 1 = w + 1 - a
    BY <2>1
  <2> QED
    BY <1>3, <2>7, <2>8 DEF a, p
<1>8. SaturatingSub(w + 1, Offset(t.snd_nxt)) = w + 1 - Offset(t.snd_nxt)
  BY <1>1, <1>4, <1>5 DEF SaturatingSub
<1>9. ASSUME NEW i \in 1..Len(t.segs) PROVE SegmentOK(u, t.segs[i], w + 1)
  <2>1. SegmentOK(t, t.segs[i], w)
    BY DEF Sender
  <2>2. Offset(t.segs[i].seq) \in Nat /\ Len(t.segs[i].data) \in Nat
    BY SegmentNear, SMTT(30) DEF SegType
  <2> QED
    BY <1>1, <1>5, <2>1, <2>2 DEF SegmentOK
<1>10. Chain(u)
  BY <1>3 DEF Sender, Chain
<1>11. Finishing(u, w + 1)
  BY <1>1, <1>3, <1>4, <1>5 DEF Finishing
<1>12. Rewound(u, w + 1)
  BY <1>1, <1>3, <1>4, <1>5, <1>6 DEF Sender, Rewound
<1> QED
  BY <1>3, <1>7, <1>8, <1>9, <1>10, <1>11, <1>12 DEF Sender

(* create_next_segment lengthens the chain ...                              *)
LEMMA Lengthened ==
    ASSUME NEW t \in TxType, NEW w \in 0..MaxBytes, Sender(t, w),
           NEW s \in SegType, s.seq = t.snd_nxt, Span(s) \in Nat \ {0},
           Offset(t.snd_nxt) + Span(s) <= w + 2,
           NEW u, u.segs = Append(t.segs, s), u.snd_una = t.snd_una,
           u.snd_nxt = Plus(t.snd_nxt, Span(s))
    PROVE  /\ Chain(u)
           /\ Offset(u.snd_nxt) = Offset(t.snd_nxt) + Span(s) /\ u.snd_nxt \in SeqNo
           /\ Len(u.segs) = Len(t.segs) + 1 /\ u.segs \in Seq(SegType)
           /\ \A i \in 1..Len(t.segs) : u.segs[i] = t.segs[i]
           /\ u.segs[Len(t.segs) + 1] = s
<1> DEFINE n == Len(t.segs)
           a == Offset(t.snd_nxt)
<1>1. /\ w \in Nat /\ w <= MaxBytes /\ MaxBytes \in Nat /\ Modulus \in Nat /\ MaxBytes + 2 < Modulus
  BY Moduli
<1>2. n \in Nat /\ a \in Nat /\ Offset(t.snd_una) \in Nat /\ t.snd_nxt \in SeqNo
  BY SenderNear DEF Near
<1>3. Offset(u.snd_nxt) = a + Span(s) /\ u.snd_nxt \in SeqNo
  <2>1. Span(s) \in Nat /\ Offset(t.snd_nxt) + Span(s) < Modulus
    BY <1>1, <1>2
  <2> QED
    BY <1>2, <2>1, PlusOffset
<1>4. /\ Len(u.segs) = n + 1 /\ u.segs \in Seq(SegType)
      /\ \A i \in 1..n : u.segs[i] = t.segs[i]
      /\ u.segs[n + 1] = s
  <2>1. t.segs \in Seq(SegType)
    BY DEF TxType
  <2> QED
    BY <2>1, AppendProperties
<1>5. EndOffset(s) = a + Span(s) /\ Offset(s.seq) = a
  BY DEF EndOffset
<1>6. /\ \A i \in 1..n :
            /\ EndOffset(t.segs[i]) <= a
            /\ i = n => EndOffset(t.segs[i]) = a
            /\ i < n => EndOffset(t.segs[i]) = Offset(t.segs[i + 1].seq)
            /\ \A j \in 1..n : i < j => EndOffset(t.segs[i]) <= Offset(t.segs[j].seq)
      /\ n = 0 => t.snd_una = t.snd_nxt
      /\ n > 0 => /\ Offset(t.segs[1].seq) <= Offset(t.snd_una)
                  /\ Offset(t.snd_una) < EndOffset(t.segs[1])
      /\ Offset(t.snd_una) <= a
  BY DEF Sender, Chain
<1>7. \A i \in 1..n : EndOffset(t.segs[i]) \in Nat
  BY SegmentNear DEF EndOffset
<1> HIDE DEF n, a
<1>8. ASSUME NEW i \in 1..(n + 1)
      PROVE  /\ EndOffset(u.segs[i]) <= a + Span(s)
             /\ i = n + 1 => EndOffset(u.segs[i]) = a + Span(s)
             /\ i < n + 1 => EndOffset(u.segs[i]) = Offset(u.segs[i + 1].seq)
             /\ \A j \in 1..(n + 1) : i < j => EndOffset(u.segs[i]) <= Offset(u.segs[j].seq)
  <2>1. CASE i = n + 1
    BY <1>2, <1>4, <1>5, <2>1
  <2>2. CASE i \in 1..n
    <3>1. u.segs[i] = t.segs[i] /\ EndOffset(t.segs[i]) <= a /\ EndOffset(t.segs[i]) \in Nat
      BY <1>4, <1>6, <1>7, <2>2
    <3>2. EndOffset(u.segs[i]) <= a + Span(s) /\ i # n + 1
      BY <1>2, <2>2, <3>1
    <3>3. EndOffset(u.segs[i]) = Offset(u.segs[i + 1].seq)
      <4>1. CASE i = n
        BY <1>4, <1>5, <1>6, <2>2, <3>1, <4>1
      <4>2. CASE i < n
        <5>1. i + 1 \in 1..n
          BY <1>2, <2>2, <4>2
        <5> QED
          BY <1>4, <1>6, <2>2, <3>1, <4>2, <5>1
      <4>3. i = n \/ i < n
        BY <1>2, <2>2
      <4> QED
        BY <4>1, <4>2, <4>3
    <3>4. ASSUME NEW j \in 1..(n + 1), i < j
          PROVE  EndOffset(u.segs[i]) <= Offset(u.segs[j].seq)
      <4>1. CASE j = n + 1
        BY <1>4, <1>5, <3>1, <4>1
      <4>2. CASE j \in 1..n
        BY <1>4, <1>6, <2>2, <3>1, <3>4, <4>2
      <4>3. j = n + 1 \/ j \in 1..n
        BY <1>2
      <4> QED
        BY <4>1, <4>2, <4>3
    <3> QED
      BY <3>2, <3>3, <3>4
  <2>3. i = n + 1 \/ i \in 1..n
    BY <1>2
  <2> QED
    BY <2>1, <2>2, <2>3
<1>9. Len(u.segs) > 0 /\ Len(u.segs) # 0
  BY <1>2, <1>4
<1>10. /\ Offset(u.segs[1].seq) <= Offset(u.snd_una)
       /\ Offset(u.snd_una) < EndOffset(u.segs[1])
  <2>1. CASE n = 0
    <3>1. u.segs[1] = s
      BY <1>4, <2>1
    <3>2. Offset(t.snd_una) = a
      BY <1>6, <2>1 DEF a
    <3> QED
      BY <1>2, <1>5, <3>1, <3>2
  <2>2. CASE n > 0
    <3>1. 1 \in 1..n
      BY <1>2, <2>2
    <3> QED
      BY <1>4, <1>6, <2>2, <3>1
  <2> QED
    BY <1>2, <2>1, <2>2
<1>11. Offset(u.snd_una) <= Offset(u.snd_nxt)
  BY <1>2, <1>3, <1>6
<1>12. Chain(u)
  BY <1>3, <1>4, <1>8, <1>9, <1>10, <1>11 DEF Chain
<1> QED
  BY <1>3, <1>4, <1>12 DEF n, a

(* ... by n pending bytes ...                                              *)
LEMMA DataSegmentKeeps ==
    ASSUME NEW t \in TxType, NEW w \in 0..MaxBytes, Sender(t, w), Timers(t),
           NEW n \in 1..Len(t.pending), NEW u, u = WithDataSegment(t, n)
    PROVE  /\ u \in TxType /\ Sender(u, w) /\ Timers(u)
           /\ u.snd_una = t.snd_una /\ u.fin_requested = t.fin_requested /\ u.phase = t.phase
           /\ Len(u.segs) = Len(t.segs) + 1
           /\ \A i \in 1..Len(t.segs) : u.segs[i] = t.segs[i]
           /\ ~u.segs[Len(t.segs) + 1].sacked
<1> DEFINE a == Offset(t.snd_nxt)
           k == SaturatingSub(w, a)
           s == NewSeg(t.snd_nxt, SubSeq(t.pending, 1, n), FALSE, ReplayedTo(t, Plus(t.snd_nxt, n)))
           m == Len(t.segs)
<1>1. w \in Nat /\ w <= MaxBytes /\ MaxBytes \in Nat /\ Modulus \in Nat /\ MaxBytes + 2 < Modulus
  BY Moduli
<1>2. a \in Nat /\ t.snd_nxt \in SeqNo /\ m \in Nat /\ Offset(t.snd_una) \in Nat
      /\ t.segs \in Seq(SegType)
  BY SenderNear DEF Near, TxType
<1>3. t.pending = Run(a, k) /\ k \in Nat
  BY <1>1, <1>2 DEF Sender, SaturatingSub
<1>4. Len(t.pending) = k
  BY <1>2, <1>3, RunSeq
<1>5. n \in 1..k /\ k = w - a /\ a + n <= w /\ n \in 0..k /\ n \in Nat
  <2>1. n \in 1..k
    BY <1>4
  <2> QED
    BY <1>1, <1>2, <1>3, <2>1 DEF SaturatingSub
<1> HIDE DEF a, k
<1>6. SubSeq(t.pending, 1, n) = Run(a, n) /\ SubSeq(t.pending, n + 1, k) = Run(a + n, k - n)
  <2>1. SubSeq(Run(a, k), 1, n) = Run(a, n)
    BY ONLY <1>2, <1>3, <1>5, RunPrefix
  <2>2. SubSeq(Run(a, k), n + 1, k) = Run(a + n, k - n)
    BY ONLY <1>2, <1>3, <1>5, RunSuffix
  <2> QED
    BY ONLY <1>3, <2>1, <2>2
<1>7. Run(a, n) \in Seq(Byte) /\ Run(a + n, k - n) \in Seq(Byte) /\ Len(Run(a, n)) = n
  <2>1. a + n \in Nat /\ k - n \in Nat /\ a + n + (k - n) <= MaxBytes /\ a + n <= MaxBytes
    BY <1>1, <1>2, <1>3, <1>5
  <2> QED
    BY <1>2, <1>5, <2>1, RunBytes, RunSeq
<1>8. /\ s \in SegType /\ s.seq = t.snd_nxt /\ s.data = Run(a, n) /\ ~s.is_fin /\ ~s.sacked
      /\ Span(s) = n
  <2>1. ReplayedTo(t, Plus(t.snd_nxt, n)) \in BOOLEAN
    BY DEF ReplayedTo
  <2> QED
    BY <1>2, <1>6, <1>7, <2>1 DEF NewSeg, SegType, Span
<1> HIDE DEF s, m
<1>9. Plus(t.snd_nxt, n) \in SeqNo
  <2>1. Offset(t.snd_nxt) + n < Modulus
    BY <1>1, <1>2, <1>5 DEF a
  <2> QED
    BY <1>2, <1>5, <2>1, PlusOffset
<1>10. Append(t.segs, s) \in Seq(SegType)
  BY <1>2, <1>8, AppendProperties
<1>11. (IF t.force_probe /\ t.rwnd = 0 THEN {[seq |-> t.snd_nxt, replied |-> FALSE]}
        ELSE {p \in t.probe : p.seq # t.snd_nxt}) \in SUBSET [seq : SeqNo, replied : BOOLEAN]
  BY <1>2 DEF TxType
<1>12. /\ u \in TxType
       /\ u.segs = Append(t.segs, s) /\ u.snd_una = t.snd_una /\ u.snd_nxt = Plus(t.snd_nxt, n)
       /\ u.pending = Run(a + n, k - n) /\ u.force_probe = FALSE
       /\ u.rewind_high = t.rewind_high /\ u.rewind_fin = t.rewind_fin
       /\ u.fin_sent = t.fin_sent /\ u.fin_acked = t.fin_acked
       /\ u.fin_requested = t.fin_requested /\ u.phase = t.phase /\ u.consec_rto = t.consec_rto
  <2>1. u = [t EXCEPT !.pending = Run(a + n, k - n), !.force_probe = FALSE,
                      !.snd_nxt = Plus(t.snd_nxt, n), !.segs = Append(t.segs, s),
                      !.probe = IF t.force_probe /\ t.rwnd = 0
                                THEN {[seq |-> t.snd_nxt, replied |-> FALSE]}
                                ELSE {p \in t.probe : p.seq # t.snd_nxt}]
    BY <1>4, <1>6 DEF WithDataSegment, s, TxType
  <2> QED
    BY ONLY <1>7, <1>9, <1>10, <1>11, <2>1, t \in TxType DEF TxType
<1>13. /\ Chain(u) /\ Offset(u.snd_nxt) = a + n
       /\ Len(u.segs) = m + 1
       /\ \A i \in 1..m : u.segs[i] = t.segs[i]
       /\ u.segs[m + 1] = s
  <2>1. Span(s) \in Nat \ {0} /\ Offset(t.snd_nxt) + Span(s) <= w + 2
    BY <1>1, <1>2, <1>5, <1>8 DEF a
  <2> QED
    BY <1>8, <1>12, <2>1, Lengthened DEF a, m
<1>14. \A i \in 1..Len(u.segs) : SegmentOK(u, u.segs[i], w)
  <2>1. ASSUME NEW i \in 1..m PROVE SegmentOK(u, t.segs[i], w)
    BY <1>12 DEF Sender, SegmentOK, m
  <2>2. SegmentOK(u, s, w)
    <3>1. Offset(s.seq) = a /\ Len(s.data) = n
      BY <1>7, <1>8 DEF a
    <3>2. Len(s.data) >= 1 /\ Offset(s.seq) + Len(s.data) <= w
      BY <1>5, <3>1
    <3> QED
      BY <1>8, <3>1, <3>2 DEF SegmentOK
  <2>3. \A i \in 1..Len(u.segs) : i = m + 1 \/ i \in 1..m
    BY <1>2, <1>13
  <2> QED
    BY <1>13, <2>1, <2>2, <2>3
<1>15. u.pending = Run(Offset(u.snd_nxt), SaturatingSub(w, Offset(u.snd_nxt)))
  <2>1. SaturatingSub(w, a + n) = k - n
    BY <1>1, <1>2, <1>5 DEF SaturatingSub
  <2> QED
    BY <1>12, <1>13, <2>1
<1>16. Finishing(u, w)
  <2>1. /\ ~t.fin_sent /\ ~t.fin_acked
    <3>1. /\ t.fin_sent => Offset(t.snd_nxt) >= w + 1
          /\ t.fin_acked => Offset(t.snd_una) >= w + 1 /\ Offset(t.snd_una) <= Offset(t.snd_nxt)
      BY DEF Sender, Finishing, Chain
    <3> QED
      BY <1>1, <1>2, <1>5, <3>1 DEF a
  <2>2. Offset(u.snd_nxt) <= w
    BY <1>5, <1>13
  <2> QED
    BY <1>1, <1>2, <1>12, <1>13, <2>1, <2>2 DEF Finishing
<1>17. Rewound(u, w) /\ Timers(u)
  BY <1>12 DEF Sender, Rewound, Timers
<1> QED
  BY <1>8, <1>12, <1>13, <1>14, <1>15, <1>16, <1>17 DEF Sender, m

(* ... or by the FIN.                                                      *)
LEMMA FinSegmentKeeps ==
    ASSUME NEW t \in TxType, NEW w \in 0..MaxBytes, Sender(t, w), Timers(t),
           t.pending = <<>>, t.fin_requested, ~t.fin_sent,
           NEW u, u = WithFinSegment(t)
    PROVE  /\ u \in TxType /\ Sender(u, w) /\ Timers(u)
           /\ u.snd_una = t.snd_una /\ u.fin_requested = t.fin_requested /\ u.phase = t.phase
           /\ Len(u.segs) = Len(t.segs) + 1
           /\ \A i \in 1..Len(t.segs) : u.segs[i] = t.segs[i]
           /\ ~u.segs[Len(t.segs) + 1].sacked
<1> DEFINE a == Offset(t.snd_nxt)
           s == NewSeg(t.snd_nxt, <<>>, TRUE, ReplayedTo(t, Plus(t.snd_nxt, 1)))
           m == Len(t.segs)
<1>1. w \in Nat /\ w <= MaxBytes /\ MaxBytes \in Nat /\ Modulus \in Nat /\ MaxBytes + 2 < Modulus
  BY Moduli
<1>2. a \in Nat /\ t.snd_nxt \in SeqNo /\ m \in Nat /\ Offset(t.snd_una) \in Nat
      /\ t.segs \in Seq(SegType)
  BY SenderNear DEF Near, TxType
<1>3. a >= w
  <2> DEFINE k == SaturatingSub(w, a)
  <2>1. t.pending = Run(a, k) /\ k \in Nat
    BY <1>1, <1>2 DEF Sender, SaturatingSub
  <2> HIDE DEF a, k
  <2>2. Len(Run(a, k)) = k
    BY ONLY <1>2, <2>1, RunSeq
  <2>3. Run(a, k) = <<>>
    BY ONLY <2>1, t.pending = <<>>
  <2>4. k = 0
    BY ONLY <2>2, <2>3
  <2> QED
    BY <1>1, <1>2, <2>4 DEF SaturatingSub, k
<1>4. a = w \/ (a = w + 1 /\ t.fin_acked)
  BY <1>1, <1>2, <1>3 DEF Sender, Finishing
<1> HIDE DEF a
<1>5. /\ s \in SegType /\ s.seq = t.snd_nxt /\ s.data = <<>> /\ s.is_fin /\ ~s.sacked
      /\ Span(s) = 1
  <2>1. ReplayedTo(t, Plus(t.snd_nxt, 1)) \in BOOLEAN /\ <<>> \in Seq(Byte)
    BY DEF ReplayedTo
  <2> QED
    BY <1>2, <2>1 DEF NewSeg, SegType, Span
<1> HIDE DEF s, m
<1>6. Plus(t.snd_nxt, 1) \in SeqNo
  <2>1. Offset(t.snd_nxt) + 1 < Modulus
    BY <1>1, <1>2, <1>4 DEF a
  <2> QED
    BY <1>2, <2>1, PlusOffset
<1>7. Append(t.segs, s) \in Seq(SegType)
  BY <1>2, <1>5, AppendProperties
<1>8. /\ u \in TxType
      /\ u.segs = Append(t.segs, s) /\ u.snd_una = t.snd_una /\ u.snd_nxt = Plus(t.snd_nxt, 1)
      /\ u.pending = t.pending /\ u.force_probe = FALSE
      /\ u.rewind_high = t.rewind_high /\ u.rewind_fin = t.rewind_fin
      /\ u.fin_sent = TRUE /\ u.fin_acked = t.fin_acked
      /\ u.fin_requested = t.fin_requested /\ u.phase = t.phase /\ u.consec_rto = t.consec_rto
  <2>1. u = [t EXCEPT !.force_probe = FALSE, !.fin_sent = TRUE,
                      !.snd_nxt = Plus(t.snd_nxt, 1), !.segs = Append(t.segs, s)]
    BY DEF WithFinSegment, s, TxType
  <2> QED
    BY ONLY <1>6, <1>7, <2>1, t \in TxType DEF TxType
<1>9. /\ Chain(u) /\ Offset(u.snd_nxt) = a + 1
      /\ Len(u.segs) = m + 1
      /\ \A i \in 1..m : u.segs[i] = t.segs[i]
      /\ u.segs[m + 1] = s
  <2>1. Span(s) \in Nat \ {0} /\ Offset(t.snd_nxt) + Span(s) <= w + 2
    BY <1>1, <1>2, <1>4, <1>5 DEF a
  <2> QED
    BY <1>5, <1>8, <2>1, Lengthened, SMTT(30) DEF a, m
<1>10. \A i \in 1..Len(u.segs) : SegmentOK(u, u.segs[i], w)
  <2>1. ASSUME NEW i \in 1..m PROVE SegmentOK(u, t.segs[i], w)
    BY <1>8 DEF Sender, SegmentOK, m
  <2>2. SegmentOK(u, s, w)
    <3>1. Offset(s.seq) = a
      BY <1>5 DEF a
    <3> QED
      BY <1>1, <1>4, <1>5, <1>8, <3>1 DEF SegmentOK
  <2>3. \A i \in 1..Len(u.segs) : i = m + 1 \/ i \in 1..m
    BY <1>2, <1>9
  <2> QED
    BY <1>9, <2>1, <2>2, <2>3
<1>11. u.pending = Run(Offset(u.snd_nxt), SaturatingSub(w, Offset(u.snd_nxt)))
  <2>1. SaturatingSub(w, a + 1) = 0
    BY <1>1, <1>2, <1>3 DEF SaturatingSub
  <2> QED
    BY <1>8, <1>9, <2>1, RunEmpty
<1>12. Finishing(u, w)
  <2>1. t.fin_acked => Offset(t.snd_una) >= w + 1 /\ t.rewind_high = {}
    BY DEF Sender, Finishing
  <2> QED
    BY <1>1, <1>2, <1>4, <1>8, <1>9, <2>1 DEF Finishing
<1>13. Rewound(u, w) /\ Timers(u)
  BY <1>8 DEF Sender, Rewound, Timers
<1> QED
  BY <1>5, <1>8, <1>9, <1>10, <1>11, <1>12, <1>13 DEF Sender, m

-----------------------------------------------------------------------------
(* FlattenSeq puts adjacent runs together: e[i] is where the i-th ends.     *)
Adjacent(q, e, n) ==
    \A i \in 1..n : e[0] <= e[i - 1] /\ e[i - 1] <= e[i]
                    /\ q[i] = Run(e[i - 1], e[i] - e[i - 1])

LEMMA FlattenRuns ==
    ASSUME NEW n \in Nat \ {0}, NEW q, Len(q) = n,
           NEW e \in [0..n -> Nat], Adjacent(q, e, n)
    PROVE  FlattenSeq(q) = Run(e[0], e[n] - e[0])
<1> DEFINE F(f) == [i \in 1..n |-> IF i = 1 THEN q[i] ELSE f[i - 1] \o q[i]]
           g == [i \in 1..n |-> Run(e[0], e[i] - e[0])]
           h == CHOOSE f : f = F(f)
<1>0. \A i \in 1..n : e[0] <= e[i - 1] /\ e[i - 1] <= e[i]
                      /\ q[i] = Run(e[i - 1], e[i] - e[i - 1])
  BY DEF Adjacent
<1>1. ASSUME NEW i \in 1..n, i # 1 PROVE g[i - 1] \o q[i] = g[i]
  <2> DEFINE a == e[0]
             b == e[i - 1]
             d == e[i]
             k == b - a
             m == d - b
  <2>1. i - 1 \in 1..n /\ i - 1 \in 0..n /\ i \in 0..n /\ 0 \in 0..n
    BY <1>1
  <2>2. a \in Nat /\ b \in Nat /\ d \in Nat /\ a <= b /\ b <= d
    BY <1>0, <2>1
  <2>5. g[i - 1] = Run(a, k) /\ g[i] = Run(a, d - a) /\ q[i] = Run(b, m)
    BY <1>0, <2>1
  <2> HIDE DEF a, b, d
  <2>3. k \in Nat /\ m \in Nat /\ a + k = b /\ k + m = d - a
    BY <2>2
  <2> HIDE DEF k, m
  <2>4. Run(a, k) \o Run(a + k, m) = Run(a, k + m)
    BY ONLY <2>2, <2>3, RunConcat, ZenonT(60)
  <2> QED
    BY <2>3, <2>4, <2>5
<1>2. g[1] = q[1]
  BY <1>0, 1 \in 1..n
<1>3. g = F(g)
  BY <1>1, <1>2
<1>4. h = F(h)
  <2>1. \E f : f = F(f)
    BY <1>3
  <2> QED
    BY <2>1, Zenon
<1> HIDE DEF g, h
<1>5. \A i \in 1..n : h[i] = IF i = 1 THEN q[i] ELSE h[i - 1] \o q[i]
  BY <1>4
<1>6. \A i \in 1..n : h[i] = g[i]
  <2> DEFINE B == {i \in 1..n : h[i] # g[i]}
  <2> SUFFICES ASSUME B # {} PROVE FALSE
    OBVIOUS
  <2>1. B \in SUBSET Nat
    OBVIOUS
  <2>2. PICK x \in B : \A y \in B : x <= y
    BY ONLY <2>1, B # {}, Least
  <2>3. CASE x = 1
    BY <1>2, <1>5, <2>2, <2>3
  <2>4. CASE x # 1
    <3>1. x \in 1..n /\ x - 1 \in 1..n /\ h[x] # g[x]
      BY <2>2, <2>4
    <3>2. x - 1 \notin B
      <4>1. x \in Nat /\ ~(x <= x - 1)
        BY <3>1
      <4> QED
        BY <2>2, <4>1
    <3>3. h[x - 1] = g[x - 1]
      BY <3>1, <3>2
    <3> QED
      BY <1>1, <1>5, <2>4, <3>1, <3>3
  <2> QED
    BY <2>3, <2>4
<1>7. FlattenSeq(q) = h[n]
  BY DEF FlattenSeq, h
<1> QED
  BY <1>6, <1>7 DEF g

-----------------------------------------------------------------------------
(* Steps that mark segments and leave the flight as it is.                  *)
Flagged(p, q) ==
    /\ q \in Seq(SegType) /\ Len(q) = Len(p)
    /\ \A i \in 1..Len(p) :
          q[i].seq = p[i].seq /\ q[i].data = p[i].data /\ q[i].is_fin = p[i].is_fin

NoNewSacks(p, q) == \A i \in 1..Len(p) : q[i].sacked => p[i].sacked

LEMMA FlagMap ==
    ASSUME NEW p \in Seq(SegType), NEW q \in [1..Len(p) -> SegType],
           \A i \in 1..Len(p) :
              q[i].seq = p[i].seq /\ q[i].data = p[i].data /\ q[i].is_fin = p[i].is_fin
    PROVE  Flagged(p, q)
<1>1. Len(p) \in Nat
  BY LenProperties
<1>2. q \in Seq(SegType) /\ Len(q) = Len(p)
  BY <1>1
<1> QED
  BY <1>2 DEF Flagged

LEMMA SegmentMarks ==
    ASSUME NEW s \in SegType, NEW b \in BOOLEAN
    PROVE  /\ [s EXCEPT !.sacked = TRUE, !.needs_resend = FALSE] \in SegType
           /\ [s EXCEPT !.needs_resend = TRUE] \in SegType
           /\ [s EXCEPT !.local_pending = b] \in SegType
           /\ [s EXCEPT !.needs_resend = FALSE, !.local_pending = TRUE] \in SegType
           /\ [s EXCEPT !.local_pending = FALSE, !.handed_off = TRUE] \in SegType
BY DEF SegType

LEMMA SackedMarks ==
    ASSUME NEW t \in TxType, NEW S
    PROVE  LET q == [i \in 1..Len(t.segs) |->
                       IF t.segs[i].handed_off /\ Numbers(t.segs[i].seq, Span(t.segs[i])) \subseteq S
                       THEN [t.segs[i] EXCEPT !.sacked = TRUE, !.needs_resend = FALSE]
                       ELSE t.segs[i]]
           IN  /\ Sacked(t, S) = [t EXCEPT !.segs = q]
               /\ Flagged(t.segs, q)
               /\ \A i \in 1..Len(t.segs) : q[i].sacked =>
                     t.segs[i].sacked \/ Numbers(t.segs[i].seq, Span(t.segs[i])) \subseteq S
<1> DEFINE p == t.segs
           q == [i \in 1..Len(p) |->
                   IF p[i].handed_off /\ Numbers(p[i].seq, Span(p[i])) \subseteq S
                   THEN [p[i] EXCEPT !.sacked = TRUE, !.needs_resend = FALSE] ELSE p[i]]
<1>1. p \in Seq(SegType) /\ DOMAIN p = 1..Len(p)
  BY LenProperties DEF TxType
<1>2. Sacked(t, S) = [t EXCEPT !.segs = q]
  BY <1>1 DEF Sacked
<1>3. \A i \in 1..Len(p) : p[i] \in SegType
  BY <1>1, ElementOfSeq
<1> HIDE DEF p
<1>4. ASSUME NEW i \in 1..Len(p)
      PROVE  /\ q[i] \in SegType
             /\ q[i].seq = p[i].seq /\ q[i].data = p[i].data /\ q[i].is_fin = p[i].is_fin
             /\ q[i].sacked => p[i].sacked \/ Numbers(p[i].seq, Span(p[i])) \subseteq S
  <2>1. p[i] \in SegType /\ [p[i] EXCEPT !.sacked = TRUE, !.needs_resend = FALSE] \in SegType
    BY <1>3, SegmentMarks
  <2> QED
    BY <2>1, SMTT(30) DEF SegType
<1>5. q \in [1..Len(p) -> SegType]
  BY <1>4
<1> HIDE DEF q
<1>6. Flagged(p, q)
  BY <1>1, <1>4, <1>5, FlagMap
<1> QED
  BY <1>2, <1>4, <1>6 DEF p, q

LEMMA ResendMarks ==
    ASSUME NEW t \in TxType, NEW S
    PROVE  LET q == [i \in 1..Len(t.segs) |->
                       IF i \in S THEN [t.segs[i] EXCEPT !.needs_resend = TRUE] ELSE t.segs[i]]
           IN  /\ Resend(t, S) = [t EXCEPT !.segs = q]
               /\ Flagged(t.segs, q) /\ NoNewSacks(t.segs, q)
<1> DEFINE p == t.segs
           q == [i \in 1..Len(p) |->
                   IF i \in S THEN [p[i] EXCEPT !.needs_resend = TRUE] ELSE p[i]]
<1>1. p \in Seq(SegType) /\ DOMAIN p = 1..Len(p)
  BY LenProperties DEF TxType
<1>2. Resend(t, S) = [t EXCEPT !.segs = q]
  BY <1>1 DEF Resend
<1>3. \A i \in 1..Len(p) : p[i] \in SegType
  BY <1>1, ElementOfSeq
<1> HIDE DEF p
<1>4. ASSUME NEW i \in 1..Len(p)
      PROVE  /\ q[i] \in SegType
             /\ q[i].seq = p[i].seq /\ q[i].data = p[i].data /\ q[i].is_fin = p[i].is_fin
             /\ q[i].sacked => p[i].sacked
  <2>1. p[i] \in SegType /\ [p[i] EXCEPT !.needs_resend = TRUE] \in SegType
    BY <1>3, SegmentMarks
  <2> QED
    BY <2>1, SMTT(30) DEF SegType
<1>5. q \in [1..Len(p) -> SegType]
  BY <1>4
<1> HIDE DEF q
<1>6. Flagged(p, q) /\ NoNewSacks(p, q)
  BY <1>1, <1>4, <1>5, FlagMap DEF NoNewSacks
<1> QED
  BY <1>2, <1>6 DEF p, q

(* Marking segments changes nothing else of the sender.                     *)
SameRest(t, u) ==
    /\ u.snd_una = t.snd_una /\ u.snd_nxt = t.snd_nxt /\ u.pending = t.pending
    /\ u.rewind_high = t.rewind_high /\ u.rewind_fin = t.rewind_fin
    /\ u.fin_sent = t.fin_sent /\ u.fin_acked = t.fin_acked

LEMMA MarksKeep ==
    ASSUME NEW w, NEW r, NEW t, SenderOK(t, w, r),
           NEW u \in TxType, Timers(u), SameRest(t, u), t.fin_requested => u.fin_requested,
           Flagged(t.segs, u.segs), NoNewSacks(t.segs, u.segs)
    PROVE  SenderOK(u, w, r)
<1>1. t \in TxType /\ Sender(t, w) /\ Agreement(t, r)
  BY DEF SenderOK
<1>2. Len(t.segs) \in Nat
  BY <1>1, LenProperties DEF TxType
<1>3. SameFlight(t, u)
  BY DEF SameFlight, SameRest, Flagged
<1>4. Sender(u, w)
  BY <1>1, <1>2, <1>3, SameFlightKeeps
<1>5. Agreement(u, r)
  <2>1. \A i \in 1..Len(t.segs) : Span(u.segs[i]) = Span(t.segs[i]) /\ u.segs[i].seq = t.segs[i].seq
    BY DEF Flagged, Span
  <2>2. Len(u.segs) = Len(t.segs) /\ u.snd_una = t.snd_una
    BY DEF Flagged, SameRest
  <2> QED
    BY <1>1, <2>1, <2>2 DEF Agreement, NoNewSacks
<1> QED
  BY <1>4, <1>5 DEF SenderOK

LEMMA SameSegs ==
    ASSUME NEW t \in TxType PROVE Flagged(t.segs, t.segs) /\ NoNewSacks(t.segs, t.segs)
BY DEF TxType, Flagged, NoNewSacks

(* finish, the persist timer, a reset, a timeout                           *)
LEMMA PlainSteps ==
    ASSUME NEW w, NEW r, NEW t, SenderOK(t, w, r)
    PROVE  /\ SenderOK([t EXCEPT !.fin_requested = TRUE], w, r)
           /\ ZeroWindowBlocked(t) =>
                 /\ SenderOK([t EXCEPT !.force_probe = TRUE], w, r)
                 /\ SenderOK([t EXCEPT !.force_probe = TRUE, !.hint_used = TRUE], w, r)
           /\ SenderOK(Closed(t), w, r)
           /\ t.phase # "closed" => SenderOK(Closed([t EXCEPT !.consec_rto = @ + 1]), w, r)
           /\ t.consec_rto < MaxRetransmits => SenderOK([t EXCEPT !.consec_rto = @ + 1], w, r)
<1>1. t \in TxType /\ Timers(t) /\ t.segs \in Seq(SegType)
  BY DEF SenderOK, TxType
<1>2. Flagged(t.segs, t.segs) /\ NoNewSacks(t.segs, t.segs)
  BY <1>1, SameSegs
<1>3. SenderOK([t EXCEPT !.fin_requested = TRUE], w, r)
  <2> DEFINE u == [t EXCEPT !.fin_requested = TRUE]
  <2>1. /\ u \in TxType /\ u.segs = t.segs /\ SameRest(t, u) /\ u.fin_requested
        /\ u.force_probe = t.force_probe /\ u.rwnd = t.rwnd /\ u.phase = t.phase
        /\ u.consec_rto = t.consec_rto
    BY <1>1 DEF TxType, SameRest
  <2> HIDE DEF u
  <2>2. Timers(u)
    BY <1>1, <2>1 DEF Timers
  <2>3. SenderOK(u, w, r)
    BY <1>2, <2>1, <2>2, MarksKeep
  <2> QED
    BY <2>3 DEF u
<1>4. ASSUME ZeroWindowBlocked(t) PROVE SenderOK([t EXCEPT !.force_probe = TRUE], w, r)
  <2> DEFINE u == [t EXCEPT !.force_probe = TRUE]
  <2>1. /\ u \in TxType /\ u.segs = t.segs /\ SameRest(t, u) /\ u.fin_requested = t.fin_requested
        /\ u.rwnd = t.rwnd /\ u.phase = t.phase /\ u.consec_rto = t.consec_rto
    BY <1>1 DEF TxType, SameRest
  <2>2. t.segs = <<>> /\ t.rwnd = 0
    BY <1>4 DEF ZeroWindowBlocked
  <2> HIDE DEF u
  <2>3. Timers(u)
    BY <1>1, <2>1, <2>2 DEF Timers
  <2>4. SenderOK(u, w, r)
    BY <1>2, <2>1, <2>3, MarksKeep
  <2> QED
    BY <2>4 DEF u
<1>4h. ASSUME ZeroWindowBlocked(t)
       PROVE  SenderOK([t EXCEPT !.force_probe = TRUE, !.hint_used = TRUE], w, r)
  <2> DEFINE u == [t EXCEPT !.force_probe = TRUE, !.hint_used = TRUE]
  <2>1. /\ u \in TxType /\ u.segs = t.segs /\ SameRest(t, u) /\ u.fin_requested = t.fin_requested
        /\ u.rwnd = t.rwnd /\ u.phase = t.phase /\ u.consec_rto = t.consec_rto
    BY <1>1 DEF TxType, SameRest
  <2>2. t.segs = <<>> /\ t.rwnd = 0
    BY <1>4h DEF ZeroWindowBlocked
  <2> HIDE DEF u
  <2>3. Timers(u)
    BY <1>1, <2>1, <2>2 DEF Timers
  <2>4. SenderOK(u, w, r)
    BY <1>2, <2>1, <2>3, MarksKeep
  <2> QED
    BY <2>4 DEF u
<1>5. SenderOK(Closed(t), w, r)
  <2> DEFINE u == Closed(t)
  <2>1. /\ u \in TxType /\ u.segs = t.segs /\ SameRest(t, u) /\ u.fin_requested = t.fin_requested
        /\ u.rwnd = t.rwnd /\ u.phase = "closed" /\ u.force_probe = t.force_probe
    BY <1>1 DEF TxType, SameRest, Closed
  <2> HIDE DEF u
  <2>2. Timers(u)
    BY <1>1, <2>1 DEF Timers
  <2>3. SenderOK(u, w, r)
    BY <1>2, <2>1, <2>2, MarksKeep
  <2> QED
    BY <2>3 DEF u
<1>6. MaxRetransmits \in Nat
  BY StreamAssumption
<1>7. ASSUME t.phase # "closed" PROVE SenderOK(Closed([t EXCEPT !.consec_rto = @ + 1]), w, r)
  <2> DEFINE u == Closed([t EXCEPT !.consec_rto = @ + 1])
  <2>1. t.consec_rto + 1 \in 0..(MaxRetransmits + 1)
    BY <1>1, <1>6, <1>7 DEF TxType, Timers
  <2>2. /\ u \in TxType /\ u.segs = t.segs /\ SameRest(t, u) /\ u.fin_requested = t.fin_requested
        /\ u.rwnd = t.rwnd /\ u.phase = "closed" /\ u.force_probe = t.force_probe
    BY <1>1, <2>1 DEF TxType, SameRest, Closed
  <2> HIDE DEF u
  <2>3. Timers(u)
    BY <1>1, <2>2 DEF Timers
  <2>4. SenderOK(u, w, r)
    BY <1>2, <2>2, <2>3, MarksKeep
  <2> QED
    BY <2>4 DEF u
<1>8. ASSUME t.consec_rto < MaxRetransmits PROVE SenderOK([t EXCEPT !.consec_rto = @ + 1], w, r)
  <2> DEFINE u == [t EXCEPT !.consec_rto = @ + 1]
  <2>1. t.consec_rto + 1 \in 0..(MaxRetransmits + 1) /\ t.consec_rto + 1 <= MaxRetransmits
    BY <1>1, <1>6, <1>8 DEF TxType
  <2>2. /\ u \in TxType /\ u.segs = t.segs /\ SameRest(t, u) /\ u.fin_requested = t.fin_requested
        /\ u.rwnd = t.rwnd /\ u.phase = t.phase /\ u.force_probe = t.force_probe
        /\ u.consec_rto = t.consec_rto + 1
    BY <1>1, <2>1 DEF TxType, SameRest
  <2> HIDE DEF u
  <2>3. Timers(u)
    BY <1>1, <2>1, <2>2 DEF Timers
  <2>4. SenderOK(u, w, r)
    BY <1>2, <2>2, <2>3, MarksKeep
  <2> QED
    BY <2>4 DEF u
<1> QED
  BY <1>3, <1>4, <1>4h, <1>5, <1>7, <1>8

LEMMA ResendKeeps ==
    ASSUME NEW w, NEW r, NEW t, SenderOK(t, w, r), NEW S
    PROVE  LET u == Resend(t, S)
           IN  SenderOK(u, w, r) /\ u.fin_requested = t.fin_requested /\ u.phase = t.phase
<1> DEFINE q == [i \in 1..Len(t.segs) |->
                   IF i \in S THEN [t.segs[i] EXCEPT !.needs_resend = TRUE] ELSE t.segs[i]]
           u == Resend(t, S)
<1>1. t \in TxType /\ Timers(t)
  BY DEF SenderOK
<1>2. u = [t EXCEPT !.segs = q] /\ Flagged(t.segs, q) /\ NoNewSacks(t.segs, q)
  BY <1>1, ResendMarks
<1> HIDE DEF q, u
<1>3. q \in Seq(SegType) /\ Len(q) = Len(t.segs)
  BY <1>2 DEF Flagged
<1>4. /\ u \in TxType /\ u.segs = q /\ SameRest(t, u) /\ u.fin_requested = t.fin_requested
      /\ u.rwnd = t.rwnd /\ u.phase = t.phase /\ u.force_probe = t.force_probe
      /\ u.consec_rto = t.consec_rto
  BY <1>1, <1>2, <1>3 DEF TxType, SameRest
<1>5. Timers(u)
  BY <1>1, <1>3, <1>4 DEF Timers
<1>6. SenderOK(u, w, r)
  BY <1>2, <1>4, <1>5, MarksKeep
<1> QED
  BY <1>4, <1>6 DEF u

-----------------------------------------------------------------------------
(* Acknowledgements.  No ACK is taken that goes beyond what was ever sent.   *)
LEMMA AckLimitBound ==
    ASSUME NEW t \in TxType, NEW w \in 0..MaxBytes, Sender(t, w)
    PROVE  /\ Near(AckLimit(t))
           /\ \E x \in {t.snd_nxt} \cup t.rewind_high : Offset(AckLimit(t)) <= Offset(x)
<1> DEFINE g == CHOOSE h \in t.rewind_high : TRUE
           high == IF t.rewind_high = {} THEN t.snd_nxt ELSE SeqMax(t.snd_nxt, g)
           unsent == {i \in DOMAIN t.segs : ~t.segs[i].handed_off}
           s == t.segs[CHOOSE i \in unsent : \A j \in unsent : i <= j]
           from == SeqMax(s.seq, t.snd_una)
           known == IF t.rewind_high = {} THEN from ELSE SeqMax(from, SeqMin(g, EndOf(s)))
<1>1. /\ Near(t.snd_una) /\ Near(t.snd_nxt) /\ \A h \in t.rewind_high : Near(h)
      /\ Offset(t.snd_nxt) \in Nat /\ DOMAIN t.segs = 1..Len(t.segs)
  BY SenderNear
<1>2. t.rewind_high # {} => g \in t.rewind_high /\ Near(g)
  BY <1>1
<1> HIDE DEF g
<1>3. Near(high) /\ high \in {t.snd_nxt} \cup t.rewind_high
  BY <1>1, <1>2, Extremes
<1>4. ASSUME unsent # {} PROVE Near(known)
  <2>1. unsent \in SUBSET Nat
    BY <1>1
  <2>2. \E i \in unsent : \A j \in unsent : i <= j
    BY <1>4, <2>1, Least
  <2>3. PICK k \in unsent : s = t.segs[k]
    BY <2>2
  <2>4. k \in 1..Len(t.segs)
    BY <1>1
  <2>5. Near(s.seq) /\ Near(EndOf(s))
    BY <2>3, <2>4, SegmentNear
  <2> HIDE DEF s
  <2>6. Near(from)
    BY <1>1, <2>5, Extremes
  <2> HIDE DEF from
  <2>7. ASSUME t.rewind_high # {} PROVE Near(SeqMax(from, SeqMin(g, EndOf(s))))
    <3>1. Near(SeqMin(g, EndOf(s)))
      BY <1>2, <2>5, <2>7, Extremes
    <3> QED
      BY <2>6, <3>1, Extremes
  <2> QED
    BY <2>6, <2>7
<1>5. AckLimit(t) = IF unsent = {} THEN high ELSE SeqMin(high, known)
  BY DEF AckLimit, g
<1> HIDE DEF high, unsent, known
<1>6. Near(AckLimit(t)) /\ Offset(AckLimit(t)) <= Offset(high)
  <2>1. Offset(high) \in Nat
    BY <1>3, OffsetCases DEF Near
  <2>2. CASE unsent = {}
    BY <1>3, <1>5, <2>1, <2>2
  <2>3. CASE unsent # {}
    <3>1. Near(SeqMin(high, known)) /\ Offset(SeqMin(high, known)) <= Offset(high)
      BY <1>3, <1>4, <2>3, Extremes
    <3> QED
      BY <1>5, <2>3, <3>1
  <2> QED
    BY <2>2, <2>3
<1> QED
  BY <1>3, <1>6

(* The segments an ACK retires are the first c.                             *)
LEMMA RetiredPrefix ==
    ASSUME NEW t \in TxType, NEW w \in 0..MaxBytes, Sender(t, w),
           NEW ack, Near(ack)
    PROVE  LET c == Cardinality(Retired(t, ack))
           IN  /\ c \in 0..Len(t.segs) /\ Retired(t, ack) = 1..c
               /\ \A i \in 1..c : EndOffset(t.segs[i]) <= Offset(ack)
               /\ c < Len(t.segs) => EndOffset(t.segs[c + 1]) > Offset(ack)
<1> DEFINE n == Len(t.segs)
           a == Offset(ack)
           e(i) == EndOffset(t.segs[i])
           B == {k \in 0..n : k = n \/ e(k + 1) > a}
<1>1. n \in Nat /\ DOMAIN t.segs = 1..n
  BY SenderNear
<1>2. a \in Nat
  BY OffsetCases DEF Near
<1>3. \A i \in 1..n : e(i) \in Nat /\ (Leq(EndOf(t.segs[i]), ack) <=> e(i) <= a)
  <2> TAKE i \in 1..n
  <2>1. Near(EndOf(t.segs[i])) /\ Offset(EndOf(t.segs[i])) = e(i)
    BY SegmentNear
  <2>2. Leq(EndOf(t.segs[i]), ack) <=> Offset(EndOf(t.segs[i])) <= Offset(ack)
    BY <2>1, Order
  <2>3. Offset(EndOf(t.segs[i])) \in Nat
    BY <2>1, OffsetCases DEF Near
  <2> QED
    BY <2>1, <2>2, <2>3
<1>4. \A i \in 1..n : \A j \in 1..n : i < j => e(i) < e(j)
  <2> TAKE i \in 1..n
  <2> TAKE j \in 1..n
  <2> HAVE i < j
  <2>1. e(i) <= Offset(t.segs[j].seq)
    BY DEF Sender, Chain
  <2>2. Span(t.segs[j]) \in Nat \ {0} /\ Offset(t.segs[j].seq) \in Nat
    BY SegmentNear
  <2> QED
    BY <1>3, <2>1, <2>2 DEF EndOffset
<1>5. Retired(t, ack) = {i \in 1..n : \A j \in 1..i : e(j) <= a}
  <2>1. \A i \in 1..n : 1..i \subseteq 1..n
    BY <1>1
  <2>2. Retired(t, ack) = {i \in 1..n : \A j \in 1..i : Leq(EndOf(t.segs[j]), ack)}
    BY <1>1 DEF Retired
  <2> QED
    BY <1>3, <2>1, <2>2
<1> HIDE DEF n, a, e
<1>6. B \in SUBSET Nat /\ n \in B
  BY <1>1
<1>7. PICK c \in B : \A k \in B : c <= k
  BY <1>6, Least
<1>8. c \in 0..n /\ c \in Nat /\ (c = n \/ e(c + 1) > a)
  BY <1>1, <1>7
<1>9. ASSUME NEW i \in 1..c PROVE e(i) <= a
  <2>1. i - 1 \in 0..n /\ i - 1 # n /\ ~(c <= i - 1) /\ i \in 1..n
    BY <1>1, <1>8
  <2>2. i - 1 \notin B
    BY <1>7, <2>1
  <2>3. ~(e(i - 1 + 1) > a) /\ i - 1 + 1 = i
    BY <2>1, <2>2
  <2> QED
    BY <1>2, <1>3, <2>1, <2>3
<1>10. Retired(t, ack) = 1..c
  <2>1. ASSUME NEW i \in 1..c PROVE i \in Retired(t, ack)
    <3>1. i \in 1..n /\ \A j \in 1..i : j \in 1..c
      BY <1>1, <1>8
    <3> QED
      BY <1>5, <1>9, <3>1
  <2>2. ASSUME NEW i \in Retired(t, ack) PROVE i \in 1..c
    <3>1. i \in 1..n /\ \A j \in 1..i : e(j) <= a
      BY <1>5
    <3>2. ASSUME i > c PROVE FALSE
      <4>1. c + 1 \in 1..i /\ c # n /\ c + 1 \in 1..n
        BY <1>1, <1>8, <3>1, <3>2
      <4> QED
        BY <1>2, <1>3, <1>8, <3>1, <4>1
    <3> QED
      BY <1>8, <3>1, <3>2
  <2> QED
    BY <2>1, <2>2
<1>11. Cardinality(Retired(t, ack)) = c
  <2>1. 1 \in Int /\ c \in Int /\ c \in Nat
    BY <1>8
  <2>2. Cardinality(1..c) = IF 1 > c THEN 0 ELSE c - 1 + 1
    BY ONLY <2>1, FS_Interval
  <2> QED
    BY ONLY <1>10, <2>1, <2>2
<1>12. c < n => e(c + 1) > a
  BY <1>8
<1> QED
  BY <1>8, <1>9, <1>10, <1>11, <1>12 DEF n, a, e

RetiresTo(t, c, o) ==
    /\ \A i \in 1..c : EndOffset(t.segs[i]) <= o
    /\ c < Len(t.segs) => EndOffset(t.segs[c + 1]) > o

Cut(t, u, c, ack) ==
    /\ u.segs = SubSeq(t.segs, c + 1, Len(t.segs)) /\ u.snd_una = ack
    /\ u.snd_nxt = IF c = Len(t.segs) THEN ack ELSE t.snd_nxt

(* Without its first c segments the flight is still a chain.                *)
LEMMA Shortened ==
    ASSUME NEW t \in TxType, NEW w \in 0..MaxBytes, Sender(t, w), NEW ack, Near(ack),
           NEW c \in 0..Len(t.segs), Offset(t.snd_una) < Offset(ack),
           RetiresTo(t, c, Offset(ack)),
           NEW u, Cut(t, u, c, ack)
    PROVE  /\ Chain(u)
           /\ u.segs \in Seq(SegType) /\ Len(u.segs) = Len(t.segs) - c
           /\ \A i \in 1..(Len(t.segs) - c) : u.segs[i] = t.segs[c + i] /\ c + i \in 1..Len(t.segs)
           /\ c < Len(t.segs) => Offset(ack) < Offset(t.snd_nxt)
           /\ c = Len(t.segs) => Offset(t.snd_nxt) <= Offset(ack)
<1> DEFINE n == Len(t.segs)
           a == Offset(ack)
           b == Offset(t.snd_nxt)
           m == n - c
<1>0. /\ \A i \in 1..c : EndOffset(t.segs[i]) <= Offset(ack)
      /\ c < Len(t.segs) => EndOffset(t.segs[c + 1]) > Offset(ack)
      /\ u.segs = SubSeq(t.segs, c + 1, Len(t.segs)) /\ u.snd_una = ack
      /\ u.snd_nxt = IF c = Len(t.segs) THEN ack ELSE t.snd_nxt
  BY DEF RetiresTo, Cut
<1>1. n \in Nat /\ b \in Nat /\ Offset(t.snd_una) \in Nat /\ t.segs \in Seq(SegType)
  BY SenderNear DEF TxType
<1>2. a \in Nat
  BY OffsetCases DEF Near
<1>3. m \in Nat /\ c \in Nat /\ c + m = n /\ c <= n
  BY <1>1
<1>4. /\ \A i \in 1..n :
            /\ EndOffset(t.segs[i]) <= b
            /\ i = n => EndOffset(t.segs[i]) = b
            /\ i < n => EndOffset(t.segs[i]) = Offset(t.segs[i + 1].seq)
            /\ \A j \in 1..n : i < j => EndOffset(t.segs[i]) <= Offset(t.segs[j].seq)
      /\ n = 0 => t.snd_una = t.snd_nxt
      /\ n > 0 => /\ Offset(t.segs[1].seq) <= Offset(t.snd_una)
                  /\ Offset(t.snd_una) < EndOffset(t.segs[1])
      /\ Offset(t.snd_una) <= b
  BY DEF Sender, Chain
<1>5. \A i \in 1..n : EndOffset(t.segs[i]) \in Nat /\ Offset(t.segs[i].seq) \in Nat
  <2> TAKE i \in 1..n
  <2>1. Span(t.segs[i]) \in Nat /\ Offset(t.segs[i].seq) \in Nat
    BY ONLY t \in TxType, w \in 0..MaxBytes, Sender(t, w), i \in 1..n, SegmentNear
  <2> QED
    BY ONLY <2>1 DEF EndOffset
<1>6. /\ u.segs \in Seq(SegType) /\ Len(u.segs) = m
      /\ \A i \in 1..m : u.segs[i] = t.segs[c + i] /\ c + i \in 1..n
  <2>1. c + 1 \in Int /\ n \in Int /\ \A i \in (c + 1)..n : t.segs[i] \in SegType
    BY ONLY <1>1, <1>3, ElementOfSeq
  <2>2. /\ u.segs \in Seq(SegType) /\ Len(u.segs) = IF c + 1 <= n THEN n - (c + 1) + 1 ELSE 0
        /\ \A i \in 1..(n - (c + 1) + 1) : u.segs[i] = t.segs[c + 1 + i - 1]
    BY <1>0, <2>1, SubSeqProperties
  <2>3. n - (c + 1) + 1 = m /\ \A i \in 1..m : c + 1 + i - 1 = c + i /\ c + i \in 1..n
    BY ONLY <1>1, <1>3
  <2>4. Len(u.segs) = m
    BY <1>1, <1>3, <2>2
  <2> QED
    BY <2>2, <2>3, <2>4
<1>7. ASSUME c < n
      PROVE  /\ a < b
             /\ Offset(t.segs[c + 1].seq) <= a /\ a < EndOffset(t.segs[c + 1])
  <2>1. c + 1 \in 1..n
    BY <1>1, <1>3, <1>7
  <2>2. a < EndOffset(t.segs[c + 1]) /\ EndOffset(t.segs[c + 1]) <= b
        /\ EndOffset(t.segs[c + 1]) \in Nat
    BY <1>0, <1>2, <1>4, <1>5, <1>7, <2>1
  <2>3. Offset(t.segs[c + 1].seq) <= a
    <3>1. CASE c = 0
      BY <1>1, <1>2, <1>4, <1>5, <1>7, <2>1, <3>1
    <3>2. CASE c > 0
      <4>1. c \in 1..c /\ c \in 1..n
        BY ONLY <1>1, <1>3, <3>2
      <4> QED
        BY <1>0, <1>4, <1>7, <4>1
    <3> QED
      BY <1>3, <3>1, <3>2
  <2> QED
    BY <1>1, <1>2, <2>2, <2>3
<1>8. ASSUME c = n PROVE b <= a
  <2>1. CASE n = 0
    BY <1>1, <1>2, <1>4, <2>1
  <2>2. CASE n > 0
    <3>1. n \in 1..c /\ n \in 1..n
      BY <1>1, <1>8, <2>2
    <3> QED
      BY <1>0, <1>4, <3>1
  <2> QED
    BY <1>1, <2>1, <2>2
<1>9. Chain(u)
  <2>1. CASE c = n
    <3>1. m = 0 /\ u.snd_nxt = ack /\ u.snd_una = ack
      BY <1>0, <1>1, <2>1
    <3>2. Len(u.segs) = 0
      BY <1>6, <3>1
    <3> QED
      BY <1>2, <3>1, <3>2 DEF Chain
  <2>2. CASE c < n
    <3>1. u.snd_nxt = t.snd_nxt /\ m > 0 /\ u.snd_una = ack
      BY <1>0, <1>1, <1>3, <2>2
    <3> HIDE DEF n, a, b, m
    <3>2. ASSUME NEW i \in 1..m
          PROVE  /\ EndOffset(u.segs[i]) <= b
                 /\ i = m => EndOffset(u.segs[i]) = b
                 /\ i < m => EndOffset(u.segs[i]) = Offset(u.segs[i + 1].seq)
                 /\ \A j \in 1..m : i < j => EndOffset(u.segs[i]) <= Offset(u.segs[j].seq)
      <4> DEFINE k == c + i
      <4>1. k \in 1..n /\ u.segs[i] = t.segs[k] /\ (i = m => k = n) /\ (i < m => k < n)
        BY ONLY <1>3, <1>6, i \in 1..m
      <4>2. ASSUME i < m PROVE u.segs[i + 1] = t.segs[k + 1]
        <5>1. i + 1 \in 1..m /\ c + (i + 1) = k + 1
          BY <1>3, <4>2
        <5> QED
          BY <1>6, <5>1
      <4>3. ASSUME NEW j \in 1..m, i < j PROVE u.segs[j] = t.segs[c + j] /\ c + j \in 1..n /\ k < c + j
        BY <1>3, <1>6, <4>3
      <4> HIDE DEF k
      <4> QED
        BY <1>4, <4>1, <4>2, <4>3
    <3>3. u.segs[1] = t.segs[c + 1]
      BY <1>3, <1>6, <3>1
    <3>4. Offset(u.snd_una) = a /\ Offset(u.snd_nxt) = b
      BY <3>1 DEF a, b
    <3>5. Len(u.segs) # 0 /\ a <= b
      BY <1>1, <1>2, <1>3, <1>6, <1>7, <2>2, <3>1
    <3> QED
      BY <1>6, <1>7, <2>2, <3>2, <3>3, <3>4, <3>5 DEF Chain
  <2>3. c = n \/ c < n
    BY <1>1, <1>3
  <2> QED
    BY <2>1, <2>2, <2>3
<1> QED
  BY <1>6, <1>7, <1>8, <1>9

(* A cumulative ACK of new data retires the head of the flight, and takes   *)
(* what a rewind had put back out of pending again.                         *)
LEMMA AckAdvancesKeeps ==
    ASSUME NEW w \in 0..MaxBytes, NEW r, NEW t, SenderOK(t, w, r),
           NEW ack, Near(ack), Offset(t.snd_una) < Offset(ack), Offset(ack) <= w + 1,
           Offset(ack) <= Offset(r.rcv_nxt),
           \E z \in {t.snd_nxt} \cup t.rewind_high : Offset(ack) <= Offset(z),
           NEW u, u = AckAdvances(t, ack)
    PROVE  SenderOK(u, w, r) /\ u.fin_requested = t.fin_requested /\ u.phase = t.phase
<1> DEFINE n == Len(t.segs)
           c == Cardinality(Retired(t, ack))
           o == Offset(ack)
           x == Offset(t.snd_nxt)
           fin == \E i \in Retired(t, ack) : t.segs[i].is_fin
           covered == \E high \in t.rewind_high : Geq(ack, high)
           bytes == IF ~Gt(ack, t.snd_nxt) THEN 0
                    ELSE IF t.rewind_fin /\ covered
                    THEN SaturatingSub(Minus(ack, t.snd_nxt), 1) ELSE Minus(ack, t.snd_nxt)
           drop == IF bytes < Len(t.pending) THEN bytes ELSE Len(t.pending)
           Q == SubSeq(t.segs, c + 1, n)
           v == [segs |-> Q, snd_una |-> ack, snd_nxt |-> IF c = n THEN ack ELSE t.snd_nxt]
<1>1. t \in TxType /\ Sender(t, w) /\ Timers(t) /\ Agreement(t, r)
  BY DEF SenderOK
<1>2. /\ w \in Nat /\ w <= MaxBytes /\ MaxBytes \in Nat /\ Modulus \in Nat /\ MaxBytes + 2 < Modulus
  BY Moduli
<1>3. /\ Near(t.snd_una) /\ Near(t.snd_nxt) /\ \A h \in t.rewind_high : Near(h) /\ Offset(h) \in Nat
      /\ Offset(t.snd_una) \in Nat /\ x \in Nat /\ n \in Nat
  BY <1>1, SenderNear
<1>4. o \in Nat /\ ack \in SeqNo
  BY OffsetCases DEF Near
<1>5. /\ c \in 0..n /\ Retired(t, ack) = 1..c
      /\ \A i \in 1..c : EndOffset(t.segs[i]) <= o
      /\ c < n => EndOffset(t.segs[c + 1]) > o
  BY ONLY <1>1, w \in 0..MaxBytes, Near(ack), RetiredPrefix
<1> HIDE DEF c
<1>6. v.segs = SubSeq(t.segs, c + 1, Len(t.segs)) /\ v.snd_una = ack
      /\ v.snd_nxt = IF c = Len(t.segs) THEN ack ELSE t.snd_nxt
  OBVIOUS
<1> HIDE DEF v
<1>7. /\ Chain(v)
      /\ v.segs \in Seq(SegType) /\ Len(v.segs) = n - c
      /\ \A i \in 1..(n - c) : v.segs[i] = t.segs[c + i] /\ c + i \in 1..n
      /\ c < n => o < x
      /\ c = n => x <= o
  <2>1. c \in 0..Len(t.segs) /\ RetiresTo(t, c, Offset(ack)) /\ Cut(t, v, c, ack)
    BY ONLY <1>5, <1>6 DEF RetiresTo, Cut
  <2> HIDE DEF n, o, x
  <2>2. /\ Chain(v)
        /\ v.segs \in Seq(SegType) /\ Len(v.segs) = Len(t.segs) - c
        /\ \A i \in 1..(Len(t.segs) - c) : v.segs[i] = t.segs[c + i] /\ c + i \in 1..Len(t.segs)
        /\ c < Len(t.segs) => Offset(ack) < Offset(t.snd_nxt)
        /\ c = Len(t.segs) => Offset(t.snd_nxt) <= Offset(ack)
    BY ONLY <1>1, <2>1, w \in 0..MaxBytes, Near(ack), Offset(t.snd_una) < Offset(ack), Shortened
  <2> QED
    BY ONLY <2>2 DEF n, o, x
<1>8. Q = v.segs
  BY <1>6
<1> HIDE DEF Q
(* The ACK is of something new, so the FIN was not acknowledged before.      *)
<1>9. ~t.fin_acked /\ x <= w + 1
  <2>1. /\ t.fin_acked => Offset(t.snd_una) >= w + 1
        /\ x = w + 2 => t.fin_acked
        /\ x <= w + 2
    BY <1>1 DEF Sender, Finishing
  <2> QED
    BY <1>2, <1>3, <1>4, <2>1
<1>10. ASSUME fin PROVE o = w + 1 /\ t.fin_sent /\ c = n
  <2>1. PICK i \in 1..c : t.segs[i].is_fin
    BY <1>5, <1>10
  <2>2. i \in 1..n /\ EndOffset(t.segs[i]) <= o
    BY <1>3, <1>5
  <2>3. /\ SegmentOK(t, t.segs[i], w) /\ Offset(t.segs[i].seq) \in Nat
        /\ EndOffset(t.segs[i]) = Offset(t.segs[i].seq) + 1
    BY <1>1, <2>1, <2>2, SegmentNear DEF EndOffset, Span
  <2>4. t.fin_sent /\ Offset(t.segs[i].seq) >= w
    BY <1>2, <2>1, <2>3 DEF SegmentOK
  <2>5. o = w + 1
    BY <1>2, <1>4, <2>2, <2>3, <2>4
  <2>6. ~(o < x)
    BY <1>3, <1>4, <1>9, <2>5
  <2> QED
    BY <1>3, <1>5, <1>7, <2>4, <2>5, <2>6
<1>11. /\ covered <=> \E h \in t.rewind_high : Offset(h) <= o
       /\ Gt(ack, t.snd_nxt) <=> x < o
       /\ x <= o => Minus(ack, t.snd_nxt) = o - x
  <2>1. \A h \in t.rewind_high : Geq(ack, h) <=> Offset(ack) >= Offset(h)
    BY <1>3, Order
  <2>2. Gt(ack, t.snd_nxt) <=> Offset(ack) > Offset(t.snd_nxt)
    BY <1>3, Order
  <2>3. x <= o => Minus(ack, t.snd_nxt) = o - x
    BY <1>3, <1>4, MinusOffset DEF Near
  <2> QED
    BY <1>3, <1>4, <2>1, <2>2, <2>3
<1>12. /\ \A g, h \in t.rewind_high : g = h
       /\ \A h \in t.rewind_high : Offset(h) <= w + 1 /\ (Offset(h) = w + 1 => t.rewind_fin)
       /\ t.rewind_fin => t.fin_requested /\ \A h \in t.rewind_high : Offset(h) = w + 1
       /\ t.rewind_high = {} => ~t.rewind_fin
  BY <1>1 DEF Sender, Rewound
<1>13. covered /\ t.rewind_fin => o = w + 1
  BY <1>2, <1>4, <1>11, <1>12
(* What the last field of the model's TrimRewound comes to.                 *)
<1> DEFINE P == SubSeq(t.pending, drop + 1, Len(t.pending))
           N == IF Gt(ack, t.snd_nxt) THEN ack ELSE t.snd_nxt
<1>14. N = (IF c = n THEN ack ELSE t.snd_nxt) /\ (t.rewind_high = {} => N = t.snd_nxt)
  <2>1. CASE x < o
    <3>1. c = n /\ t.rewind_high # {}
      BY <1>3, <1>4, <1>5, <1>7, <2>1
    <3> QED
      BY <1>11, <2>1, <3>1
  <2>2. CASE o < x
    <3>1. c # n
      BY <1>3, <1>4, <1>7, <2>2
    <3> QED
      BY <1>3, <1>4, <1>11, <2>2, <3>1
  <2>3. CASE o = x
    <3>1. ack = t.snd_nxt
      BY <1>4, <1>3, <2>3, OffsetEq DEF Near
    <3> QED
      BY <3>1
  <2> QED
    BY <1>3, <1>4, <2>1, <2>2, <2>3
<1>15. Offset(N) = (IF x < o THEN o ELSE x) /\ N \in SeqNo
  BY <1>3, <1>4, <1>11 DEF Near
<1>16. P = Run(Offset(N), SaturatingSub(w, Offset(N))) /\ P \in Seq(Byte)
       /\ (t.rewind_high = {} => P = t.pending)
  <2> DEFINE k == SaturatingSub(w, x)
  <2>1. k \in Nat /\ (x <= w => k = w - x) /\ (x > w => k = 0)
    BY <1>2, <1>3 DEF SaturatingSub
  <2>2. t.pending = Run(x, k)
    BY <1>1 DEF Sender
  <2> HIDE DEF k
  <2>3. Len(Run(x, k)) = k
    BY ONLY <1>3, <2>1, RunSeq
  <2>4. Len(t.pending) = k
    BY ONLY <2>2, <2>3
  <2>5. /\ x < o /\ o <= w => bytes = o - x /\ k = w - x
        /\ x < o /\ o = w + 1 => bytes = w - x /\ k = w - x
        /\ ~(x < o) => bytes = 0
    <3>1. ~(x < o) => bytes = 0
      BY <1>11
    <3>2. ASSUME x < o, o <= w PROVE bytes = o - x /\ k = w - x
      <4>1. ~(t.rewind_fin /\ covered)
        BY <1>2, <1>4, <1>13, <3>2
      <4> QED
        BY <1>2, <1>3, <1>4, <1>11, <2>1, <3>2, <4>1
    <3>3. ASSUME x < o, o = w + 1 PROVE bytes = w - x /\ k = w - x
      <4>1. PICK h \in t.rewind_high : o <= Offset(h)
        BY <1>3, <1>4, <3>3
      <4>2. Offset(h) = w + 1
        BY <1>2, <1>3, <1>4, <1>12, <3>3, <4>1
      <4>3. t.rewind_fin /\ covered
        BY <1>4, <1>11, <1>12, <3>3, <4>2
      <4>4. bytes = SaturatingSub(o - x, 1)
        BY <1>3, <1>4, <1>11, <3>3, <4>3
      <4> QED
        BY <1>2, <1>3, <1>4, <2>1, <3>3, <4>4 DEF SaturatingSub
    <3> QED
      BY <3>1, <3>2, <3>3
  <2> HIDE DEF bytes
  <2>6. o <= w \/ o = w + 1
    BY <1>2, <1>4
  <2>7. drop \in 0..k /\ (x < o => drop = k - SaturatingSub(w, o)) /\ (~(x < o) => drop = 0)
    BY <1>2, <1>3, <1>4, <2>1, <2>4, <2>5, <2>6 DEF SaturatingSub
  <2> HIDE DEF drop
  <2>8. SubSeq(Run(x, k), drop + 1, k) = Run(x + drop, k - drop)
    BY ONLY <1>3, <2>1, <2>7, RunSuffix
  <2>9. P = Run(x + drop, k - drop)
    BY <2>2, <2>4, <2>8
  <2> HIDE DEF P
  <2>10. k - drop = SaturatingSub(w, Offset(N)) /\ k - drop \in Nat
    <3>1. CASE x < o
      <4>1. SaturatingSub(w, o) \in Nat
        BY <1>2, <1>4 DEF SaturatingSub
      <4> QED
        BY <1>15, <2>1, <2>7, <3>1, <4>1
    <3>2. CASE ~(x < o)
      BY <1>15, <2>1, <2>7, <3>2 DEF k
    <3> QED
      BY <3>1, <3>2
  <2>11. Run(x + drop, k - drop) = Run(Offset(N), k - drop)
    <3>1. CASE k - drop = 0
      BY <3>1, RunEmpty
    <3>2. CASE k - drop # 0
      <4>1. x < o => drop = o - x
        BY <1>2, <1>3, <1>4, <2>1, <2>6, <2>7, <3>2 DEF SaturatingSub
      <4>2. x + drop = Offset(N)
        BY <1>3, <1>4, <1>15, <2>7, <4>1
      <4> QED
        BY <4>2
    <3> QED
      BY <3>1, <3>2
  <2>12. P \in Seq(Byte)
    <3>1. x + drop \in Nat /\ k - drop \in Nat /\ (k - drop # 0 => x + drop + (k - drop) <= MaxBytes)
      BY <1>2, <1>3, <2>1, <2>7
    <3>2. CASE k - drop = 0
      <4>1. P = <<>>
        BY ONLY <2>9, <3>2, RunEmpty
      <4> QED
        BY ONLY <4>1
    <3>3. CASE k - drop # 0
      BY ONLY <2>9, <3>1, <3>3, RunBytes
    <3> QED
      BY <3>2, <3>3
  <2>13. t.rewind_high = {} => P = t.pending
    <3>1. ASSUME t.rewind_high = {} PROVE drop = 0
      BY <1>3, <1>4, <2>7, <3>1
    <3> QED
      BY <1>3, <2>1, <2>2, <2>9, <3>1
  <2> QED
    BY <2>9, <2>10, <2>11, <2>12, <2>13
<1> HIDE DEF P, N, bytes, drop, covered, fin
<1> DEFINE A == fin \/ (covered /\ t.rewind_fin)
           H == IF covered THEN {} ELSE t.rewind_high
           F == t.rewind_fin /\ ~covered
<1>17. /\ u \in TxType
       /\ u.segs = Q /\ u.snd_una = ack /\ u.snd_nxt = N /\ u.pending = P
       /\ u.fin_acked = A /\ u.rewind_high = H /\ u.rewind_fin = F
       /\ u.consec_rto = 0 /\ u.force_probe = t.force_probe /\ u.rwnd = t.rwnd
       /\ u.fin_sent = t.fin_sent /\ u.fin_requested = t.fin_requested /\ u.phase = t.phase
  <2> DEFINE R == {p \in t.probe : ~Gt(ack, p.seq)}
             t1 == [t EXCEPT !.segs = Q, !.snd_una = ack, !.consec_rto = 0,
                             !.fin_acked = t.fin_acked \/ fin, !.probe = R]
  <2>1. R \in SUBSET [seq : SeqNo, replied : BOOLEAN] /\ 0 \in 0..(MaxRetransmits + 1)
        /\ Q \in Seq(SegType) /\ fin \in BOOLEAN
    BY <1>1, <1>7, <1>8, StreamAssumption DEF TxType, fin
  <2> HIDE DEF R
  <2>2. u = TrimRewound(t1, ack)
    BY <1>1 DEF AckAdvances, TxType, Q, R, c, fin
  <2>3. /\ t1 \in TxType
        /\ t1.segs = Q /\ t1.snd_una = ack /\ t1.snd_nxt = t.snd_nxt /\ t1.pending = t.pending
        /\ t1.fin_acked = fin
        /\ t1.rewind_high = t.rewind_high /\ t1.rewind_fin = t.rewind_fin
        /\ t1.consec_rto = 0 /\ t1.force_probe = t.force_probe /\ t1.rwnd = t.rwnd
        /\ t1.fin_sent = t.fin_sent /\ t1.fin_requested = t.fin_requested /\ t1.phase = t.phase
    BY ONLY <1>1, <1>4, <1>9, <2>1 DEF TxType
  <2> HIDE DEF t1
  <2>4. t.rewind_high \in SUBSET SeqNo /\ t.rewind_fin \in BOOLEAN
    BY <1>1 DEF TxType
  <2>5. A \in BOOLEAN /\ F \in BOOLEAN /\ H \in SUBSET SeqNo
    BY <2>4
  <2>6. CASE t.rewind_high = {}
    <3>1. u = t1
      BY <2>2, <2>3, <2>6 DEF TrimRewound
    <3>2. ~covered /\ ~t.rewind_fin
      BY <1>12, <2>6 DEF covered
    <3>3. A = fin /\ H = t.rewind_high /\ F = t.rewind_fin
      BY ONLY <2>1, <2>4, <2>6, <3>2
    <3> HIDE DEF A, F, H
    <3> QED
      BY ONLY <1>14, <1>16, <2>3, <2>6, <3>1, <3>3
  <2>7. CASE t.rewind_high # {}
    <3>1. u = [t1 EXCEPT !.pending = P, !.snd_nxt = N, !.fin_acked = A,
                         !.rewind_high = H, !.rewind_fin = F]
      BY ONLY <2>2, <2>3, <2>7 DEF TrimRewound, P, N, bytes, drop, covered, TxType
    <3> HIDE DEF A, F, H
    <3> QED
      BY ONLY <1>15, <1>16, <2>3, <2>5, <3>1, ZenonT(60) DEF TxType
  <2> QED
    BY <2>6, <2>7
<1>18. Offset(u.snd_nxt) = (IF x < o THEN o ELSE x) /\ Offset(u.snd_una) = o
  BY <1>15, <1>17
<1>19. Chain(u)
  <2>1. u.segs = v.segs /\ u.snd_una = v.snd_una /\ u.snd_nxt = v.snd_nxt
    BY <1>6, <1>8, <1>14, <1>17
  <2> QED
    BY ONLY <1>7, <2>1 DEF Chain
<1>20. u.pending = Run(Offset(u.snd_nxt), SaturatingSub(w, Offset(u.snd_nxt)))
  BY <1>16, <1>17
<1>21. u.fin_acked => o = w + 1 /\ t.fin_requested /\ u.rewind_high = {}
  <2>1. ASSUME fin PROVE o = w + 1 /\ t.fin_requested /\ H = {}
    <3>1. o = w + 1 /\ t.fin_requested
      BY <1>1, <1>10, <2>1 DEF Sender, Finishing
    <3> QED
      BY <1>3, <1>11, <1>12, <3>1
  <2>2. ASSUME covered, t.rewind_fin PROVE o = w + 1 /\ t.fin_requested /\ H = {}
    BY <1>12, <1>13, <2>2
  <2> QED
    BY <1>17, <2>1, <2>2
<1>22. Finishing(u, w)
  <2>1. /\ t.fin_sent => t.fin_requested /\ x >= w + 1
        /\ x > w /\ ~t.fin_sent => t.fin_acked
    BY <1>1 DEF Sender, Finishing
  <2>2. Offset(u.snd_nxt) <= w + 1
    BY <1>2, <1>3, <1>4, <1>9, <1>18
  <2>3. u.fin_sent => u.fin_requested /\ Offset(u.snd_nxt) >= w + 1
    BY <1>2, <1>3, <1>4, <1>17, <1>18, <2>1
  <2>4. ASSUME Offset(u.snd_nxt) > w, ~u.fin_sent PROVE Offset(u.snd_nxt) = w + 1 /\ u.fin_acked
    <3>1. ~(x > w)
      BY <1>9, <1>17, <2>1, <2>4
    <3>2. x < o /\ o = w + 1
      BY <1>2, <1>3, <1>4, <1>18, <2>4, <3>1
    <3>3. PICK g \in t.rewind_high : o <= Offset(g)
      BY <1>3, <1>4, <3>2
    <3>4. Offset(g) = w + 1
      BY <1>2, <1>3, <1>4, <1>12, <3>2, <3>3
    <3>5. t.rewind_fin /\ covered
      BY <1>4, <1>11, <1>12, <3>2, <3>4
    <3> QED
      BY <1>17, <1>18, <3>2, <3>5
  <2>5. u.fin_acked => u.fin_requested /\ Offset(u.snd_una) >= w + 1 /\ u.rewind_high = {}
    BY <1>2, <1>17, <1>18, <1>21
  <2>6. Offset(u.snd_nxt) <= w + 2 /\ Offset(u.snd_nxt) # w + 2
    BY <1>2, <1>3, <1>4, <1>18, <2>2
  <2> QED
    BY <2>3, <2>4, <2>5, <2>6 DEF Finishing
<1>23. Rewound(u, w)
  <2>1. t.rewind_fin => \E g \in t.rewind_high : Offset(g) = w + 1
    BY <1>1 DEF Sender, Rewound
  <2>2. CASE covered
    BY <1>17, <2>2 DEF Rewound
  <2>3. CASE ~covered
    BY <1>12, <1>17, <2>1, <2>3 DEF Rewound
  <2> QED
    BY <2>2, <2>3
<1>24. ASSUME NEW i \in 1..Len(u.segs) PROVE SegmentOK(u, u.segs[i], w)
  <2>1. u.segs[i] = t.segs[c + i] /\ c + i \in 1..n
    BY <1>7, <1>8, <1>17
  <2>2. SegmentOK(t, t.segs[c + i], w)
    BY <1>1, <2>1 DEF Sender
  <2> QED
    BY <1>9, <1>17, <2>1, <2>2 DEF SegmentOK
<1>25. Timers(u)
  <2>1. t.force_probe => n = 0 /\ t.rwnd = 0
    BY <1>1 DEF Timers
  <2>2. n = 0 => Len(u.segs) = 0
    BY <1>5, <1>7, <1>8, <1>17
  <2>3. 0 <= MaxRetransmits
    BY StreamAssumption
  <2> QED
    BY <1>17, <2>1, <2>2, <2>3 DEF Timers
<1>26. Agreement(u, r)
  <2>1. \A i \in 1..Len(u.segs) : u.segs[i] = t.segs[c + i] /\ c + i \in 1..n
    BY <1>7, <1>8, <1>17
  <2> QED
    BY <1>1, <1>17, <2>1 DEF Agreement
<1> QED
  BY <1>17, <1>19, <1>20, <1>22, <1>23, <1>24, <1>25, <1>26 DEF SenderOK, Sender

(* SACKs mark what the receiver has.                                       *)
LEMMA SackedKeeps ==
    ASSUME NEW w, NEW r, NEW t, SenderOK(t, w, r), NEW S, \A n \in S : Holds(r, n)
    PROVE  LET u == Sacked(t, S)
           IN  /\ SenderOK(u, w, r) /\ SameRest(t, u) /\ u.rwnd = t.rwnd /\ u.probe = t.probe
               /\ u.fin_requested = t.fin_requested /\ u.phase = t.phase
<1> DEFINE q == [i \in 1..Len(t.segs) |->
                   IF t.segs[i].handed_off /\ Numbers(t.segs[i].seq, Span(t.segs[i])) \subseteq S
                   THEN [t.segs[i] EXCEPT !.sacked = TRUE, !.needs_resend = FALSE] ELSE t.segs[i]]
           u == Sacked(t, S)
<1>1. t \in TxType /\ Timers(t) /\ Sender(t, w) /\ Agreement(t, r)
  BY DEF SenderOK
<1>2. /\ u = [t EXCEPT !.segs = q] /\ Flagged(t.segs, q)
      /\ \A i \in 1..Len(t.segs) : q[i].sacked =>
            t.segs[i].sacked \/ Numbers(t.segs[i].seq, Span(t.segs[i])) \subseteq S
  BY <1>1, SackedMarks
<1> HIDE DEF q, u
<1>3. /\ q \in Seq(SegType) /\ Len(q) = Len(t.segs) /\ Len(t.segs) \in Nat
      /\ \A i \in 1..Len(t.segs) : q[i].seq = t.segs[i].seq /\ Span(q[i]) = Span(t.segs[i])
  BY <1>1, <1>2, LenProperties DEF Flagged, Span, TxType
<1>4. /\ u \in TxType /\ u.segs = q /\ SameRest(t, u) /\ u.fin_requested = t.fin_requested
      /\ u.rwnd = t.rwnd /\ u.phase = t.phase /\ u.force_probe = t.force_probe
      /\ u.consec_rto = t.consec_rto /\ u.probe = t.probe
  BY <1>1, <1>2, <1>3 DEF TxType, SameRest
<1>5. Timers(u)
  BY <1>1, <1>3, <1>4 DEF Timers
<1>6. SameFlight(t, u)
  BY <1>2, <1>4 DEF SameFlight, SameRest, Flagged
<1>7. Sender(u, w)
  BY <1>1, <1>3, <1>6, SameFlightKeeps
<1>8. Agreement(u, r)
  <2>1. Offset(u.snd_una) <= Offset(r.rcv_nxt)
    BY <1>1, <1>4 DEF Agreement, SameRest
  <2>2. ASSUME NEW i \in 1..Len(u.segs), u.segs[i].sacked,
               NEW n \in Numbers(u.segs[i].seq, Span(u.segs[i]))
        PROVE  Holds(r, n)
    <3>1. i \in 1..Len(t.segs) /\ n \in Numbers(t.segs[i].seq, Span(t.segs[i])) /\ q[i].sacked
      BY <1>3, <1>4, <2>2
    <3>2. t.segs[i].sacked \/ Numbers(t.segs[i].seq, Span(t.segs[i])) \subseteq S
      BY <1>2, <3>1
    <3> QED
      BY <1>1, <3>1, <3>2 DEF Agreement
  <2> QED
    BY <2>1, <2>2 DEF Agreement
<1> QED
  BY <1>4, <1>5, <1>7, <1>8 DEF SenderOK, u

LEMMA WithWindowKeeps ==
    ASSUME NEW w, NEW r, NEW t, SenderOK(t, w, r), NEW c, c.win \in 0..RecvWindow
    PROVE  LET u == WithWindow(t, c)
           IN  /\ SenderOK(u, w, r) /\ SameRest(t, u)
               /\ u.fin_requested = t.fin_requested /\ u.phase = t.phase
<1> DEFINE h == t.hint_used /\ c.win = 0
           p == t.force_probe /\ c.win = 0
           u == [t EXCEPT !.rwnd = c.win, !.hint_used = h, !.force_probe = p]
<1>1. t \in TxType /\ Timers(t)
  BY DEF SenderOK
<1>2. Flagged(t.segs, t.segs) /\ NoNewSacks(t.segs, t.segs)
  BY <1>1, SameSegs
<1>3. /\ u \in TxType /\ u.segs = t.segs /\ SameRest(t, u) /\ u.fin_requested = t.fin_requested
      /\ u.rwnd = c.win /\ u.phase = t.phase /\ u.consec_rto = t.consec_rto
      /\ u.force_probe = (t.force_probe /\ c.win = 0)
  <2>1. h \in BOOLEAN /\ p \in BOOLEAN
    OBVIOUS
  <2>2. p = (t.force_probe /\ c.win = 0)
    OBVIOUS
  <2> HIDE DEF h, p
  <2> QED
    BY <1>1, <2>1, <2>2 DEF TxType, SameRest
<1>3w. WithWindow(t, c) = IF Geq(c.ack, t.snd_una) THEN u ELSE t
  BY <1>1 DEF WithWindow, TxType
<1> HIDE DEF u
<1>4. Timers(u)
  BY <1>1, <1>3 DEF Timers
<1>5. SenderOK(u, w, r)
  BY <1>2, <1>3, <1>4, MarksKeep
<1>6. SameRest(t, t)
  BY DEF SameRest
<1> QED
  BY <1>3, <1>3w, <1>5, <1>6

AckSays(c, r, w) ==
    /\ c.ack \in SeqNo /\ c.win \in 0..RecvWindow
    /\ Offset(c.ack) <= Offset(r.rcv_nxt) /\ Offset(c.ack) <= w + 1
    /\ \A n \in c.sacks : Holds(r, n)

(* A reply to a window probe touches the probe, or the segment it sent.     *)
LEMMA ProbeReplies ==
    ASSUME NEW w, NEW r, NEW t, SenderOK(t, w, r)
    PROVE  /\ LET u == [t EXCEPT !.probe = {[p EXCEPT !.replied = TRUE] : p \in @},
                                 !.consec_rto = 0]
              IN  /\ SenderOK(u, w, r) /\ SameRest(t, u)
                  /\ u.fin_requested = t.fin_requested /\ u.phase = t.phase
           /\ Len(t.segs) = 1 =>
              LET u == [t EXCEPT !.segs[1].needs_resend = TRUE]
              IN  /\ SenderOK(u, w, r) /\ SameRest(t, u)
                  /\ u.fin_requested = t.fin_requested /\ u.phase = t.phase
<1>1. t \in TxType /\ Timers(t) /\ t.segs \in Seq(SegType)
  BY DEF SenderOK, TxType
<1>2. Flagged(t.segs, t.segs) /\ NoNewSacks(t.segs, t.segs)
  BY <1>1, SameSegs
<1>3. LET u == [t EXCEPT !.probe = {[p EXCEPT !.replied = TRUE] : p \in @}, !.consec_rto = 0]
      IN  /\ SenderOK(u, w, r) /\ SameRest(t, u)
          /\ u.fin_requested = t.fin_requested /\ u.phase = t.phase
  <2> DEFINE P == {[p EXCEPT !.replied = TRUE] : p \in t.probe}
             u == [t EXCEPT !.probe = P, !.consec_rto = 0]
  <2>1. P \in SUBSET [seq : SeqNo, replied : BOOLEAN]
    <3>1. t.probe \in SUBSET [seq : SeqNo, replied : BOOLEAN]
      BY <1>1 DEF TxType
    <3>2. \A p \in [seq : SeqNo, replied : BOOLEAN] :
             [p EXCEPT !.replied = TRUE] \in [seq : SeqNo, replied : BOOLEAN]
      OBVIOUS
    <3> QED
      BY ONLY <3>1, <3>2
  <2>2. MaxRetransmits \in Nat /\ 0 \in 0..(MaxRetransmits + 1)
    BY StreamAssumption
  <2> HIDE DEF P
  <2>3. /\ u \in TxType /\ u.segs = t.segs /\ SameRest(t, u) /\ u.fin_requested = t.fin_requested
        /\ u.rwnd = t.rwnd /\ u.phase = t.phase /\ u.consec_rto = 0
        /\ u.force_probe = t.force_probe
    BY <1>1, <2>1, <2>2 DEF TxType, SameRest
  <2> HIDE DEF u
  <2>4. Timers(u)
    BY <1>1, <2>2, <2>3 DEF Timers
  <2>5. SenderOK(u, w, r)
    BY <1>2, <2>3, <2>4, MarksKeep
  <2> QED
    BY <2>3, <2>5 DEF u, P
<1>4. ASSUME Len(t.segs) = 1
      PROVE  LET u == [t EXCEPT !.segs[1].needs_resend = TRUE]
             IN  /\ SenderOK(u, w, r) /\ SameRest(t, u)
                 /\ u.fin_requested = t.fin_requested /\ u.phase = t.phase
  <2> DEFINE s == [t.segs[1] EXCEPT !.needs_resend = TRUE]
             q == [t.segs EXCEPT ![1] = s]
             u == [t EXCEPT !.segs = q]
  <2>1. 1 \in 1..Len(t.segs) /\ t.segs[1] \in SegType
    BY <1>1, <1>4, ElementOfSeq
  <2>2. /\ s \in SegType /\ s.seq = t.segs[1].seq /\ s.data = t.segs[1].data
        /\ s.is_fin = t.segs[1].is_fin /\ s.sacked = t.segs[1].sacked
    BY <2>1 DEF SegType
  <2> HIDE DEF s
  <2>3. /\ q \in Seq(SegType) /\ Len(q) = Len(t.segs)
        /\ \A j \in 1..Len(t.segs) : q[j] = IF j = 1 THEN s ELSE t.segs[j]
    BY ONLY <1>1, <2>1, <2>2, ExceptSeq
  <2> HIDE DEF q
  <2>4. Flagged(t.segs, q) /\ NoNewSacks(t.segs, q)
    BY <2>2, <2>3 DEF Flagged, NoNewSacks
  <2>5. /\ u \in TxType /\ u.segs = q /\ SameRest(t, u) /\ u.fin_requested = t.fin_requested
        /\ u.rwnd = t.rwnd /\ u.phase = t.phase /\ u.consec_rto = t.consec_rto
        /\ u.force_probe = t.force_probe
    BY <1>1, <2>3 DEF TxType, SameRest
  <2> HIDE DEF u
  <2>6. Timers(u)
    BY <1>1, <2>3, <2>5 DEF Timers
  <2>7. SenderOK(u, w, r)
    BY <2>4, <2>5, <2>6, MarksKeep
  <2> QED
    BY <2>5, <2>7 DEF u, q, s
<1> QED
  BY <1>3, <1>4

LEMMA OnAckKeeps ==
    ASSUME NEW w \in 0..MaxBytes, NEW r, NEW t, SenderOK(t, w, r), NEW c, AckSays(c, r, w)
    PROVE  LET u == OnAck(t, c)
           IN  SenderOK(u, w, r) /\ u.fin_requested = t.fin_requested /\ u.phase = t.phase
<1> DEFINE reopened == t.rwnd = 0 /\ c.win > 0
           opened == WithWindow(t, c)
           marked == Sacked(opened, c.sacks)
           probed == c.ack = t.snd_una /\ ProbeHandedOff(marked)
           answered ==
             CASE probed /\ marked.rwnd = 0 ->
                    [marked EXCEPT !.probe = {[p EXCEPT !.replied = TRUE] : p \in @},
                                   !.consec_rto = 0]
               [] probed /\ reopened /\ \E p \in marked.probe : p.replied ->
                    [marked EXCEPT !.segs[1].needs_resend = TRUE]
               [] OTHER -> marked
<1>1. t \in TxType /\ Sender(t, w)
  BY DEF SenderOK
<1>2. /\ c.ack \in SeqNo /\ c.win \in 0..RecvWindow /\ Offset(c.ack) \in Nat /\ Near(c.ack)
      /\ Offset(c.ack) <= Offset(r.rcv_nxt) /\ Offset(c.ack) <= w + 1
      /\ \A n \in c.sacks : Holds(r, n)
  <2>1. w \in Nat /\ w <= MaxBytes /\ MaxBytes \in Nat
    BY Moduli
  <2> QED
    BY <2>1, OffsetCases DEF AckSays, Near
<1>3. /\ SenderOK(opened, w, r) /\ SameRest(t, opened)
      /\ opened.fin_requested = t.fin_requested /\ opened.phase = t.phase
  BY <1>2, WithWindowKeeps
<1> HIDE DEF opened
<1>4. /\ SenderOK(marked, w, r) /\ SameRest(opened, marked)
      /\ marked.fin_requested = opened.fin_requested /\ marked.phase = opened.phase
  BY <1>2, <1>3, SackedKeeps
<1> HIDE DEF marked
<1>5. /\ SenderOK(answered, w, r) /\ SameRest(marked, answered)
      /\ answered.fin_requested = marked.fin_requested /\ answered.phase = marked.phase
  <2>1. SameRest(marked, marked)
    BY DEF SameRest
  <2>2. probed => Len(marked.segs) = 1
    BY DEF ProbeHandedOff
  <2> QED
    BY <1>4, <2>1, <2>2, ProbeReplies
<1> HIDE DEF answered
<1>6. SameRest(t, answered) /\ answered.fin_requested = t.fin_requested /\ answered.phase = t.phase
  BY <1>3, <1>4, <1>5 DEF SameRest
<1>7. OnAck(t, c) =
        CASE t.phase = "closed" \/ Gt(c.ack, AckLimit(t)) -> t
          [] t.phase # "closed" /\ ~Gt(c.ack, AckLimit(t)) /\ Gt(c.ack, t.snd_una) ->
               AckAdvances(answered, c.ack)
          [] OTHER -> answered
  BY DEF OnAck, answered, marked, opened
<1>8. CASE t.phase = "closed" \/ Gt(c.ack, AckLimit(t))
  BY <1>7, <1>8
<1>9. CASE t.phase # "closed" /\ ~Gt(c.ack, AckLimit(t)) /\ Gt(c.ack, t.snd_una)
  <2> DEFINE u == AckAdvances(answered, c.ack)
  <2>1. Near(t.snd_una) /\ Offset(t.snd_una) \in Nat /\ Offset(t.snd_nxt) \in Nat
        /\ \A h \in t.rewind_high : Offset(h) \in Nat
    BY <1>1, SenderNear
  <2>2. /\ Near(AckLimit(t))
        /\ \E x \in {t.snd_nxt} \cup t.rewind_high : Offset(AckLimit(t)) <= Offset(x)
    BY <1>1, AckLimitBound
  <2>3. Offset(c.ack) <= Offset(AckLimit(t)) /\ Offset(AckLimit(t)) \in Nat
    <3>1. Gt(c.ack, AckLimit(t)) <=> Offset(c.ack) > Offset(AckLimit(t))
      BY <1>2, <2>2, Order
    <3>2. Offset(AckLimit(t)) \in Nat
      BY <2>2, OffsetCases DEF Near
    <3> QED
      BY <1>2, <1>9, <3>1, <3>2
  <2>4. Offset(t.snd_una) < Offset(c.ack)
    <3>1. Gt(c.ack, t.snd_una) <=> Offset(c.ack) > Offset(t.snd_una)
      BY <1>2, <2>1, Order
    <3> QED
      BY <1>2, <1>9, <2>1, <3>1
  <2>5. \E x \in {answered.snd_nxt} \cup answered.rewind_high : Offset(c.ack) <= Offset(x)
    <3>1. PICK x \in {t.snd_nxt} \cup t.rewind_high : Offset(AckLimit(t)) <= Offset(x)
      BY <2>2
    <3>2. Offset(c.ack) <= Offset(x)
      BY <1>2, <2>1, <2>3, <3>1
    <3> QED
      BY <1>6, <3>2 DEF SameRest
  <2>6. Offset(answered.snd_una) < Offset(c.ack)
    BY <1>6, <2>4 DEF SameRest
  <2> HIDE DEF u
  <2>7. u = AckAdvances(answered, c.ack)
    BY DEF u
  <2>8. SenderOK(u, w, r) /\ u.fin_requested = answered.fin_requested /\ u.phase = answered.phase
    BY ONLY w \in 0..MaxBytes, <1>2, <1>5, <2>5, <2>6, <2>7, AckAdvancesKeeps
  <2>9. OnAck(t, c) = u
    BY <1>7, <1>9, <2>7
  <2> QED
    BY <1>6, <2>8, <2>9
<1>10. CASE ~(t.phase = "closed" \/ Gt(c.ack, AckLimit(t))) /\ ~Gt(c.ack, t.snd_una)
  <2>1. OnAck(t, c) = answered
    BY <1>7, <1>10
  <2> QED
    BY <1>5, <1>6, <2>1
<1> QED
  BY <1>8, <1>9, <1>10

-----------------------------------------------------------------------------
(* A rewind puts the flight back before pending, in order and without a gap. *)
(* With data in flight the FIN is the last segment and not acknowledged.    *)
LEMMA FlightShape ==
    ASSUME NEW t \in TxType, NEW w \in 0..MaxBytes, Sender(t, w),
           NEW d \in 1..Len(t.segs), ~t.segs[d].is_fin
    PROVE  /\ Offset(t.snd_una) < w /\ ~t.fin_acked /\ Offset(t.snd_nxt) <= w + 1
           /\ \A i \in 1..Len(t.segs) : i < Len(t.segs) => ~t.segs[i].is_fin
           /\ t.segs[Len(t.segs)].is_fin =>
                 Offset(t.segs[Len(t.segs)].seq) = w /\ Offset(t.snd_nxt) = w + 1
           /\ ~t.segs[Len(t.segs)].is_fin => Offset(t.snd_nxt) <= w
           /\ ~t.segs[1].is_fin
<1> DEFINE n == Len(t.segs)
           y == Offset(t.snd_una)
           x == Offset(t.snd_nxt)
           b(i) == Offset(t.segs[i].seq)
           e(i) == EndOffset(t.segs[i])
<1>1. w \in Nat /\ n \in Nat /\ n \in 1..n /\ 1 \in 1..n /\ y \in Nat /\ x \in Nat /\ d \in 1..n
  BY SenderNear, Moduli
<1>2. ASSUME NEW i \in 1..n
      PROVE  /\ b(i) \in Nat /\ e(i) \in Nat /\ b(i) < e(i)
             /\ ~t.segs[i].is_fin => e(i) <= w
             /\ t.segs[i].is_fin => b(i) >= w /\ e(i) = b(i) + 1
             /\ t.segs[i].is_fin /\ b(i) # w => t.fin_acked
  <2>1. /\ SegmentOK(t, t.segs[i], w) /\ b(i) \in Nat /\ Span(t.segs[i]) \in Nat \ {0}
    BY SegmentNear
  <2>2. e(i) = b(i) + Span(t.segs[i])
    BY DEF EndOffset
  <2>3. CASE t.segs[i].is_fin
    BY <1>1, <2>1, <2>2, <2>3 DEF SegmentOK, Span
  <2>4. CASE ~t.segs[i].is_fin
    BY <1>1, <2>1, <2>2, <2>4, SMTT(30) DEF SegmentOK, Span
  <2> QED
    BY <2>3, <2>4
<1>3. /\ \A i \in 1..n : /\ i = n => e(i) = x
                         /\ i < n => e(i) = b(i + 1)
                         /\ \A j \in 1..n : i < j => e(i) <= b(j)
      /\ y < e(1)
  BY <1>1 DEF Sender, Chain
<1>4. /\ t.fin_acked => y >= w + 1
      /\ x = w + 2 => t.fin_acked
      /\ x <= w + 2
  BY DEF Sender, Finishing
<1> HIDE DEF n, y, x, b, e
<1>5. y < w
  <2>1. e(1) <= e(d)
    <3>1. CASE d = 1
      BY <1>1, <1>2, <3>1
    <3>2. CASE 1 < d
      BY <1>1, <1>2, <1>3, <3>2
    <3> QED
      BY <1>1, <3>1, <3>2
  <2>2. e(d) <= w /\ e(d) \in Nat /\ e(1) \in Nat
    BY <1>1, <1>2
  <2> QED
    BY <1>1, <1>3, <2>1, <2>2
<1>6. ~t.fin_acked /\ x <= w + 1
  BY <1>1, <1>4, <1>5
<1>7. ASSUME NEW i \in 1..n, i < n PROVE ~t.segs[i].is_fin
  <2> SUFFICES ASSUME t.segs[i].is_fin PROVE FALSE
    OBVIOUS
  <2>1. i + 1 \in 1..n
    BY <1>1, <1>7
  <2>2. b(i + 1) >= w + 1
    BY <1>1, <1>2, <1>3, <1>7, SMTT(30)
  <2>3. /\ b(i + 1) \in Nat /\ e(i + 1) \in Nat /\ b(i + 1) < e(i + 1)
        /\ ~t.segs[i + 1].is_fin => e(i + 1) <= w
        /\ t.segs[i + 1].is_fin /\ b(i + 1) # w => t.fin_acked
    BY <1>2, <2>1
  <2> QED
    BY ONLY <1>1, <1>6, <2>2, <2>3
<1>8. t.segs[n].is_fin => b(n) = w /\ x = w + 1
  BY <1>1, <1>2, <1>3, <1>6
<1>9. ~t.segs[n].is_fin => x <= w
  BY <1>1, <1>2, <1>3
<1>10. ~t.segs[1].is_fin
  <2>1. CASE 1 < n
    BY <1>1, <1>7, <2>1
  <2>2. CASE n = 1
    BY <1>1, <2>2 
  <2> QED
    BY <1>1, <2>1, <2>2
<1> QED
  BY <1>5, <1>6, <1>7, <1>8, <1>9, <1>10 DEF n, y, x, b

LEMMA UnackedRun ==
    ASSUME NEW t \in TxType, NEW w \in 0..MaxBytes, Sender(t, w),
           NEW d \in 1..Len(t.segs), ~t.segs[d].is_fin
    PROVE  UnackedData(t) \o t.pending = Run(Offset(t.snd_una), w - Offset(t.snd_una))
<1> DEFINE n == Len(t.segs)
           y == Offset(t.snd_una)
           x == Offset(t.snd_nxt)
           b(i) == Offset(t.segs[i].seq)
           l(i) == Len(t.segs[i].data)
           e == [i \in 0..n |-> IF i = 0 THEN y ELSE b(i) + l(i)]
           q == [i \in 1..n |->
                   IF Lt(t.segs[i].seq, t.snd_una)
                   THEN SubSeq(t.segs[i].data, Minus(t.snd_una, t.segs[i].seq) + 1, l(i))
                   ELSE t.segs[i].data]
<1>1. /\ w \in Nat /\ n \in Nat /\ n \in 1..n /\ 1 \in 1..n /\ y \in Nat /\ x \in Nat
      /\ Near(t.snd_una) /\ t.snd_una \in SeqNo /\ DOMAIN t.segs = 1..n
  BY SenderNear, Moduli DEF Near
<1>2. /\ y < w /\ \A i \in 1..n : i < n => ~t.segs[i].is_fin
      /\ t.segs[n].is_fin => b(n) = w /\ x = w + 1
      /\ ~t.segs[n].is_fin => x <= w
      /\ ~t.segs[1].is_fin
  BY FlightShape
<1>3. ASSUME NEW i \in 1..n
      PROVE  /\ b(i) \in Nat /\ l(i) \in Nat /\ t.segs[i].seq \in SeqNo
             /\ t.segs[i].data = Run(b(i), l(i))
             /\ EndOffset(t.segs[i]) = IF t.segs[i].is_fin THEN b(i) + 1 ELSE b(i) + l(i)
             /\ t.segs[i].is_fin => l(i) = 0
             /\ Lt(t.segs[i].seq, t.snd_una) <=> b(i) < y
             /\ b(i) <= y => Minus(t.snd_una, t.segs[i].seq) = y - b(i)
  <2>1. /\ SegmentOK(t, t.segs[i], w) /\ b(i) \in Nat /\ t.segs[i] \in SegType
        /\ Near(t.segs[i].seq)
    BY SegmentNear
  <2>2. t.segs[i].data \in Seq(Byte) /\ l(i) \in Nat /\ t.segs[i].seq \in SeqNo
    BY <2>1 DEF SegType
  <2>3. Lt(t.segs[i].seq, t.snd_una) <=> b(i) < y
    BY <1>1, <2>1, Order
  <2>4. b(i) <= y => Minus(t.snd_una, t.segs[i].seq) = y - b(i)
    BY <1>1, <2>2, MinusOffset
  <2>5. EndOffset(t.segs[i]) = IF t.segs[i].is_fin THEN b(i) + 1 ELSE b(i) + l(i)
    BY DEF EndOffset, Span
  <2>6. CASE t.segs[i].is_fin
    <3>1. t.segs[i].data = <<>>
      BY <2>1, <2>6 DEF SegmentOK
    <3>2. l(i) = 0
      BY <3>1
    <3>3. Run(b(i), 0) = <<>>
      BY RunEmpty
    <3> QED
      BY <2>1, <2>2, <2>3, <2>4, <2>5, <3>1, <3>2, <3>3
  <2>7. CASE ~t.segs[i].is_fin
    <3>1. t.segs[i].data = Run(b(i), l(i))
      BY <2>1, <2>7 DEF SegmentOK
    <3> QED
      BY <2>1, <2>2, <2>3, <2>4, <2>5, <2>7, <3>1
  <2> QED
    BY <2>6, <2>7
<1>4. /\ \A i \in 1..n : /\ i = n => EndOffset(t.segs[i]) = x
                         /\ i < n => EndOffset(t.segs[i]) = b(i + 1)
                         /\ 1 < i => EndOffset(t.segs[1]) <= b(i)
      /\ b(1) <= y /\ y < EndOffset(t.segs[1])
  BY <1>1, SMTT(30) DEF Sender, Chain
<1>5. UnackedData(t) = FlattenSeq(q)
  BY <1>1 DEF UnackedData
<1>6. t.pending = Run(x, SaturatingSub(w, x))
  BY DEF Sender
<1> HIDE DEF n, y, x, b, l
<1>7. e \in [0..n -> Nat] /\ e[0] = y /\ \A i \in 1..n : e[i] = b(i) + l(i)
  BY <1>1, <1>3, SMTT(30)
<1>8. Len(q) = n
  BY <1>1
<1>9. ASSUME NEW i \in 1..n
      PROVE  /\ e[0] <= e[i - 1] /\ e[i - 1] <= e[i]
             /\ q[i] = Run(e[i - 1], e[i] - e[i - 1])
  <2>1. CASE i = 1
    <3>1. /\ b(1) \in Nat /\ l(1) \in Nat /\ t.segs[1].data = Run(b(1), l(1))
          /\ Lt(t.segs[1].seq, t.snd_una) <=> b(1) < y
          /\ Minus(t.snd_una, t.segs[1].seq) = y - b(1)
          /\ b(1) <= y /\ y < b(1) + l(1)
      BY <1>1, <1>2, <1>3, <1>4
    <3>2. i - 1 = 0 /\ e[i - 1] = y /\ e[i] = b(1) + l(1)
      BY <1>1, <1>7, <2>1
    <3>3. q[1] = Run(y, b(1) + l(1) - y)
      <4> DEFINE k == y - b(1)
      <4>1. k \in 0..l(1) /\ b(1) + k = y /\ l(1) - k = b(1) + l(1) - y
        BY <1>1, <3>1
      <4>2. SubSeq(Run(b(1), l(1)), k + 1, l(1)) = Run(b(1) + k, l(1) - k)
        <5> HIDE DEF k
        <5> QED
          BY ONLY <3>1, <4>1, RunSuffix
      <4>3. CASE b(1) < y
        <5>1. q[1] = SubSeq(t.segs[1].data, k + 1, l(1))
          BY <1>1, <3>1, <4>3
        <5> HIDE DEF k, q
        <5> QED
          BY ONLY <3>1, <4>1, <4>2, <5>1
      <4>4. CASE b(1) = y
        <5>1. q[1] = t.segs[1].data /\ l(1) = b(1) + l(1) - y
          BY <1>1, <3>1, <4>4
        <5> HIDE DEF q
        <5> QED
          BY ONLY <3>1, <4>4, <5>1
      <4> QED
        BY <1>1, <3>1, <4>3, <4>4
    <3> HIDE DEF q, e
    <3>4. q[i] = Run(e[i - 1], e[i] - e[i - 1])
      <4> DEFINE f == e[i - 1]
                 g == e[i]
      <4>1. f = y /\ g = b(1) + l(1) /\ q[i] = q[1]
        BY <2>1, <3>2
      <4> HIDE DEF f, g
      <4>2. q[i] = Run(f, g - f)
        <5>1. g - f = b(1) + l(1) - y /\ g - f \in Int
          BY ONLY <1>1, <3>1, <4>1
        <5> QED
          BY ONLY <3>3, <4>1, <5>1
      <4> QED
        BY ONLY <4>2 DEF f, g
    <3>5. e[0] <= e[i - 1] /\ e[i - 1] <= e[i]
      BY ONLY <1>1, <1>7, <3>1, <3>2
    <3> QED
      BY ONLY <3>4, <3>5
  <2>2. CASE 1 < i
    <3>1. i - 1 \in 1..n /\ i - 1 < n /\ i - 1 + 1 = i /\ i - 1 \in 0..n /\ i - 1 # 0
      BY <1>1, <2>2
    <3>2. /\ b(i) \in Nat /\ l(i) \in Nat /\ t.segs[i].data = Run(b(i), l(i))
          /\ Lt(t.segs[i].seq, t.snd_una) <=> b(i) < y
      BY <1>3
    <3>3. e[i - 1] = b(i) /\ e[i] = b(i) + l(i)
      <4>1. ~t.segs[i - 1].is_fin /\ EndOffset(t.segs[i - 1]) = b(i - 1 + 1)
        BY <1>2, <1>4, <3>1
      <4>2. EndOffset(t.segs[i - 1]) = b(i - 1) + l(i - 1)
        BY <1>3, <3>1, <4>1
      <4>3. e[i - 1] = b(i - 1) + l(i - 1) /\ e[i] = b(i) + l(i)
        BY <1>7, <3>1
      <4> QED
        BY <3>1, <4>1, <4>2, <4>3
    <3>4. y < b(i)
      <4>1. EndOffset(t.segs[1]) <= b(i) /\ EndOffset(t.segs[1]) \in Nat
        BY <1>1, <1>2, <1>3, <1>4, <2>2
      <4> QED
        BY <1>1, <1>4, <3>2, <4>1
    <3>5. q[i] = t.segs[i].data
      BY <1>1, <3>2, <3>4
    <3>6. b(i) + l(i) - b(i) = l(i)
      BY <3>2
    <3> HIDE DEF q, e
    <3> QED
      BY <1>1, <1>7, <3>2, <3>3, <3>4, <3>5, <3>6, SMTT(30)
  <2> QED
    BY <1>1, <2>1, <2>2
<1> HIDE DEF q, e
<1>10. FlattenSeq(q) = Run(e[0], e[n] - e[0])
  <2>1. Adjacent(q, e, n)
    BY <1>9 DEF Adjacent
  <2>2. n \in Nat \ {0}
    BY ONLY <1>1
  <2> QED
    BY ONLY <1>7, <1>8, <2>1, <2>2, FlattenRuns
<1>11. CASE t.segs[n].is_fin
  <2>1. e[n] = w
    BY <1>1, <1>2, <1>3, <1>7, <1>11
  <2>2. SaturatingSub(w, x) = 0
    BY <1>1, <1>2, <1>11 DEF SaturatingSub
  <2>3. t.pending = <<>>
    BY <1>6, <2>2, RunEmpty
  <2>4. w - y \in Nat
    BY <1>1, <1>2
  <2>5. Run(y, w - y) \in Seq(Nat)
    BY <1>1, <2>4, RunSeq
  <2>6. Run(y, w - y) \o <<>> = Run(y, w - y)
    BY <2>5, ConcatEmptySeq
  <2> QED
    BY <1>5, <1>7, <1>10, <2>1, <2>3, <2>6 DEF y
<1>12. CASE ~t.segs[n].is_fin
  <2> DEFINE k == x - y
             m == w - x
  <2>1. e[n] = x
    BY <1>1, <1>2, <1>3, <1>4, <1>7, <1>12
  <2>2. y <= x
    BY DEF Sender, Chain, y, x
  <2>3. k \in Nat /\ m \in Nat /\ y + k = x /\ k + m = w - y /\ SaturatingSub(w, x) = m
    BY <1>1, <1>2, <1>12, <2>2 DEF SaturatingSub
  <2>4. e[n] - e[0] = k
    BY <1>7, <2>1
  <2> HIDE DEF k, m
  <2>5. Run(y, k) \o Run(y + k, m) = Run(y, k + m)
    BY ONLY <1>1, <2>3, RunConcat, ZenonT(60)
  <2>6. UnackedData(t) = Run(y, k) /\ t.pending = Run(x, m)
    BY <1>5, <1>6, <1>7, <1>10, <2>3, <2>4
  <2>7. UnackedData(t) \o t.pending = Run(y, w - y)
    BY ONLY <2>3, <2>5, <2>6
  <2> QED
    BY <2>7 DEF y
<1> QED
  BY <1>11, <1>12

LEMMA RequeuedKeeps ==
    ASSUME NEW w \in 0..MaxBytes, NEW r, NEW t, SenderOK(t, w, r),
           NEW d \in 1..Len(t.segs), ~t.segs[d].is_fin,
           NEW u, u = Requeued(t)
    PROVE  SenderOK(u, w, r) /\ u.fin_requested = t.fin_requested /\ u.phase = t.phase
<1> DEFINE n == Len(t.segs)
           y == Offset(t.snd_una)
           x == Offset(t.snd_nxt)
           fin == \E i \in DOMAIN t.segs : t.segs[i].is_fin
           g == IF t.rewind_high = {} THEN t.snd_nxt
                ELSE SeqMax(CHOOSE h \in t.rewind_high : TRUE, t.snd_nxt)
           F == t.rewind_fin \/ fin
           S == t.fin_sent /\ ~fin
           P == UnackedData(t) \o t.pending
<1>1. t \in TxType /\ Sender(t, w) /\ Timers(t) /\ Agreement(t, r)
  BY DEF SenderOK
<1>2. /\ w \in Nat /\ w <= MaxBytes /\ MaxBytes \in Nat
  BY Moduli
<1>3. /\ Near(t.snd_una) /\ Near(t.snd_nxt) /\ \A h \in t.rewind_high : Near(h) /\ Offset(h) \in Nat
      /\ y \in Nat /\ x \in Nat /\ n \in Nat /\ DOMAIN t.segs = 1..n /\ n \in 1..n
  BY <1>1, SenderNear
<1>4. /\ y < w /\ ~t.fin_acked /\ x <= w + 1
      /\ \A i \in 1..n : i < n => ~t.segs[i].is_fin
      /\ t.segs[n].is_fin => x = w + 1
      /\ ~t.segs[n].is_fin => x <= w
  BY <1>1, FlightShape
<1>5. P = Run(y, w - y)
  BY <1>1, UnackedRun
<1>6. P \in Seq(Byte)
  <2>1. w - y \in Nat /\ y + (w - y) <= MaxBytes
    BY <1>2, <1>3, <1>4
  <2> DEFINE k == w - y
  <2> HIDE DEF k
  <2>2. Run(y, k) \in Seq(Byte)
    BY <1>3, <2>1, RunBytes DEF k
  <2> QED
    BY <1>5, <2>2 DEF k
<1>7. (fin <=> x = w + 1) /\ (t.fin_sent => fin) /\ (fin => t.fin_requested)
  <2>1. fin <=> t.segs[n].is_fin
    <3>1. ASSUME fin PROVE t.segs[n].is_fin
      <4>1. PICK i \in 1..n : t.segs[i].is_fin
        BY <1>3, <3>1
      <4>2. ~(i < n)
        BY <1>4, <4>1
      <4>3. i = n
        BY <1>3, <4>2
      <4> QED
        BY <4>1, <4>3
    <3> QED
      BY <1>3, <3>1
  <2>2. fin <=> x = w + 1
    BY <1>2, <1>3, <1>4, <2>1
  <2>3. t.fin_sent => t.fin_requested /\ x >= w + 1
    BY <1>1 DEF Sender, Finishing
  <2>4. fin => t.fin_sent
    <3>1. SegmentOK(t, t.segs[n], w)
      BY <1>1, <1>3 DEF Sender
    <3> QED
      BY <2>1, <3>1 DEF SegmentOK
  <2> QED
    BY <1>2, <1>3, <1>4, <2>2, <2>3, <2>4
<1>8. /\ \A h \in t.rewind_high : Offset(h) <= w + 1 /\ (Offset(h) = w + 1 => t.rewind_fin)
      /\ t.rewind_fin => t.fin_requested /\ \A h \in t.rewind_high : Offset(h) = w + 1
      /\ t.rewind_high = {} => ~t.rewind_fin
  BY <1>1 DEF Sender, Rewound
<1>9. /\ Near(g) /\ g \in SeqNo /\ Offset(g) \in Nat /\ Offset(g) <= w + 1
      /\ Offset(g) = w + 1 <=> (t.rewind_fin \/ x = w + 1)
  <2>1. CASE t.rewind_high = {}
    BY <1>3, <1>4, <1>8, <2>1 DEF Near
  <2>2. CASE t.rewind_high # {}
    <3> DEFINE h0 == CHOOSE h \in t.rewind_high : TRUE
    <3>1. h0 \in t.rewind_high
      BY <2>2
    <3> HIDE DEF h0
    <3>2. /\ Near(h0) /\ Offset(h0) \in Nat /\ Offset(h0) <= w + 1
          /\ Offset(h0) = w + 1 <=> t.rewind_fin
      BY <1>3, <1>8, <3>1
    <3>3. /\ Near(SeqMax(h0, t.snd_nxt)) /\ SeqMax(h0, t.snd_nxt) \in {h0, t.snd_nxt}
          /\ Offset(SeqMax(h0, t.snd_nxt)) >= Offset(h0)
          /\ Offset(SeqMax(h0, t.snd_nxt)) >= Offset(t.snd_nxt)
      BY <1>3, <3>2, Extremes
    <3>4. g = SeqMax(h0, t.snd_nxt)
      BY <2>2 DEF h0
    <3> HIDE DEF g
    <3>5. Offset(g) \in Nat /\ Offset(g) <= w + 1 /\ Offset(g) >= Offset(h0) /\ Offset(g) >= x
          /\ (Offset(g) = Offset(h0) \/ Offset(g) = x)
      BY <1>3, <1>4, <3>2, <3>3, <3>4
    <3> QED
      BY <1>2, <1>3, <1>4, <3>2, <3>3, <3>4, <3>5 DEF Near
  <2> QED
    BY <2>1, <2>2
<1> HIDE DEF g, fin, P
<1>10. F \in BOOLEAN /\ S \in BOOLEAN
  BY <1>1 DEF TxType
<1>11. /\ u \in TxType
       /\ u.segs = <<>> /\ u.snd_una = t.snd_una /\ u.snd_nxt = t.snd_una /\ u.pending = P
       /\ u.fin_acked = t.fin_acked /\ u.rewind_high = {g} /\ u.rewind_fin = F
       /\ u.consec_rto = t.consec_rto /\ u.force_probe = t.force_probe /\ u.rwnd = t.rwnd
       /\ u.fin_sent = S /\ u.fin_requested = t.fin_requested /\ u.phase = t.phase
  <2>1. u = [t EXCEPT !.pending = P, !.segs = <<>>, !.snd_nxt = t.snd_una,
                      !.rewind_high = {g}, !.rewind_fin = F, !.fin_sent = S]
    BY <1>1 DEF Requeued, TxType, P, g, fin
  <2>2. t.snd_una \in SeqNo /\ {g} \in SUBSET SeqNo /\ <<>> \in Seq(SegType)
    BY <1>3, <1>9 DEF Near
  <2> HIDE DEF F, S
  <2> QED
    BY ONLY <1>1, <1>6, <1>10, <2>1, <2>2 DEF TxType
<1>12. Len(u.segs) = 0 /\ ~u.fin_sent /\ ~u.fin_acked
  BY <1>4, <1>7, <1>11
<1>13. Chain(u)
  BY <1>3, <1>11, <1>12 DEF Chain
<1>14. u.pending = Run(Offset(u.snd_nxt), SaturatingSub(w, Offset(u.snd_nxt)))
  <2>1. SaturatingSub(w, y) = w - y
    BY <1>2, <1>3, <1>4 DEF SaturatingSub
  <2> QED
    BY <1>5, <1>11, <2>1
<1>15. Finishing(u, w)
  BY <1>2, <1>3, <1>4, <1>11, <1>12 DEF Finishing
<1>16. Rewound(u, w)
  BY <1>7, <1>8, <1>9, <1>11 DEF Rewound
<1>17. Timers(u)
  BY <1>1, <1>3, <1>11 DEF Timers
<1>18. Agreement(u, r)
  BY <1>1, <1>11, <1>12 DEF Agreement
<1>19. \A i \in 1..Len(u.segs) : SegmentOK(u, u.segs[i], w)
  BY <1>12
<1> QED
  BY <1>11, <1>13, <1>14, <1>15, <1>16, <1>17, <1>18, <1>19 DEF SenderOK, Sender

-----------------------------------------------------------------------------
(* The driver's queue: cells discarded, handed over and sent again.         *)
SameButMarks(p, q) ==
    /\ q \in [1..Len(p) -> SegType]
    /\ \A i \in 1..Len(p) : /\ q[i].seq = p[i].seq /\ q[i].data = p[i].data
                             /\ q[i].is_fin = p[i].is_fin /\ q[i].sacked = p[i].sacked

Marked(t, q, P) == [t EXCEPT !.segs = q, !.probe = P]

LEMMA QueueMarks ==
    ASSUME NEW w, NEW r, NEW t, SenderOK(t, w, r),
           NEW q, SameButMarks(t.segs, q),
           NEW P \in SUBSET [seq : SeqNo, replied : BOOLEAN],
           NEW u, u = Marked(t, q, P)
    PROVE  SenderOK(u, w, r) /\ u.fin_requested = t.fin_requested /\ u.phase = t.phase
<1>1. t \in TxType /\ Timers(t) /\ t.segs \in Seq(SegType)
  BY DEF SenderOK, TxType
<1>2. Flagged(t.segs, q) /\ NoNewSacks(t.segs, q)
  BY <1>1, FlagMap DEF NoNewSacks, SameButMarks
<1>3. q \in Seq(SegType) /\ Len(q) = Len(t.segs)
  BY <1>2 DEF Flagged
<1>4. /\ u \in TxType /\ u.segs = q /\ SameRest(t, u) /\ u.fin_requested = t.fin_requested
      /\ u.rwnd = t.rwnd /\ u.phase = t.phase /\ u.force_probe = t.force_probe
      /\ u.consec_rto = t.consec_rto
  BY <1>1, <1>3 DEF TxType, SameRest, Marked
<1>5. Timers(u)
  BY <1>1, <1>3, <1>4 DEF Timers
<1>6. SenderOK(u, w, r)
  BY <1>2, <1>4, <1>5, MarksKeep
<1> QED
  BY <1>4, <1>6

-----------------------------------------------------------------------------
(* The receiver.  What it stores out of order are written bytes it still     *)
(* waits for.                                                               *)
Stored(oo, a, w) ==
    \A n \in DOMAIN oo : /\ n \in SeqNo /\ oo[n] = Offset(n) + 1
                         /\ a <= Offset(n) /\ Offset(n) < w

LEMMA ReceiverNear ==
    ASSUME NEW w \in 0..MaxBytes, NEW r, NEW g, NEW f, RxOK(r, g, w, f)
    PROVE  /\ Near(r.rcv_nxt) /\ r.rcv_nxt \in SeqNo /\ Offset(r.rcv_nxt) \in Nat
           /\ Offset(r.rcv_nxt) <= w + 1
           /\ ~r.eof => Offset(r.rcv_nxt) <= w /\ InOrder(r) = Offset(r.rcv_nxt)
           /\ r.eof => Offset(r.rcv_nxt) = w + 1 /\ InOrder(r) = w /\ f
           /\ Stored(r.oo, Offset(r.rcv_nxt), w)
<1>1. w \in Nat /\ w <= MaxBytes /\ MaxBytes \in Nat
  BY Moduli
<1>2. r.rcv_nxt \in SeqNo /\ r.eof \in BOOLEAN
  BY DEF RxOK, RxType
<1>3. Offset(r.rcv_nxt) \in Nat
  BY <1>2, OffsetCases
<1>4. InOrder(r) \in 0..w /\ (r.eof => InOrder(r) = w /\ f)
  BY DEF RxOK, Receiver
<1>5. /\ ~r.eof => Offset(r.rcv_nxt) <= w /\ InOrder(r) = Offset(r.rcv_nxt)
      /\ r.eof => Offset(r.rcv_nxt) = w + 1 /\ InOrder(r) = w
  BY <1>1, <1>3, <1>4 DEF InOrder
<1>6. Stored(r.oo, Offset(r.rcv_nxt), w)
  BY DEF RxOK, Receiver, Stored
<1> QED
  BY <1>1, <1>2, <1>3, <1>4, <1>5, <1>6 DEF Near

(* The bytes of a segment that fit, and what is stored with them.           *)
LEMMA StoredBytes ==
    ASSUME NEW w \in 0..MaxBytes, NEW r, Near(r.rcv_nxt), Stored(r.oo, Offset(r.rcv_nxt), w),
           NEW seq \in SeqNo, NEW data \in Seq(Byte),
           data = Run(Offset(seq), Len(data)), Offset(seq) + Len(data) <= w,
           NEW S \in SUBSET DOMAIN Acceptable(r, seq, data),
           NEW kept, kept = Restrict(Acceptable(r, seq, data), S)
    PROVE  LET oo == StoreOo(r, kept)
           IN  /\ Stored(oo, Offset(r.rcv_nxt), w)
               /\ DOMAIN r.oo \subseteq DOMAIN oo
               /\ oo = [n \in DOMAIN oo |-> oo[n]]
<1> DEFINE a == Offset(r.rcv_nxt)
           b == Offset(seq)
           l == Len(data)
           space == SaturatingSub(RecvWindow, Len(r.read_buf))
           inside == {i \in DOMAIN data : /\ ~Lt(Plus(seq, i - 1), r.rcv_nxt)
                                          /\ Minus(Plus(seq, i - 1), r.rcv_nxt) < space}
           D == {Plus(seq, i - 1) : i \in inside}
           new == [n \in D |-> data[Minus(n, seq) + 1]]
           oo == StoreOo(r, kept)
<1>1. /\ w \in Nat /\ w <= MaxBytes /\ MaxBytes \in Nat /\ Modulus \in Nat /\ MaxBytes + 2 < Modulus
  BY Moduli
<1>2. a \in Nat /\ b \in Nat /\ l \in Nat /\ DOMAIN data = 1..l
  BY OffsetCases, LenProperties DEF Near
<1>3. \A i \in 1..l : data[i] = b + i
  <2>1. \A i \in 1..l : Run(b, l)[i] = b + i
    BY ONLY <1>2, RunSeq
  <2> QED
    BY <2>1
<1>4. ASSUME NEW n \in D
      PROVE  n \in SeqNo /\ new[n] = Offset(n) + 1 /\ a <= Offset(n) /\ Offset(n) < w
  <2>1. PICK i \in 1..l : n = Plus(seq, i - 1) /\ ~Lt(n, r.rcv_nxt)
    BY <1>2
  <2>2. i - 1 \in Nat /\ b + (i - 1) < Modulus /\ b + (i - 1) < w
    BY <1>1, <1>2
  <2> DEFINE j == i - 1
  <2>3. Plus(seq, j) \in SeqNo /\ Offset(Plus(seq, j)) = Offset(seq) + j
    <3> HIDE DEF j
    <3>1. j \in Nat /\ Offset(seq) + j < Modulus
      BY <2>2 DEF j
    <3> QED
      BY <3>1, PlusOffset
  <2>4. n \in SeqNo /\ Offset(n) = b + (i - 1)
    BY <2>1, <2>3
  <2>5. Near(n)
    BY <1>1, <1>2, <2>2, <2>4 DEF Near
  <2>6. a <= Offset(n)
    <3>1. Lt(n, r.rcv_nxt) <=> Offset(n) < Offset(r.rcv_nxt)
      BY <2>5, Order
    <3> QED
      BY <1>2, <2>1, <2>2, <2>4, <3>1
  <2>7. Minus(n, seq) = i - 1
    <3>1. Offset(seq) <= Offset(n) => Minus(n, seq) = Offset(n) - Offset(seq)
      BY <2>4, MinusOffset
    <3> QED
      BY <1>2, <2>2, <2>4, <3>1
  <2>8. new[n] = data[i]
    <3>1. Minus(n, seq) + 1 = i
      BY <2>7
    <3> QED
      BY <3>1
  <2> QED
    BY <1>2, <1>3, <2>2, <2>4, <2>6, <2>8
<1>5. Acceptable(r, seq, data) = new
  BY DEF Acceptable
<1> HIDE DEF new, D
<1>6. DOMAIN new = D /\ S \subseteq D /\ kept = [n \in S |-> new[n]]
  BY <1>5 DEF new, Restrict
<1>7. oo = [n \in DOMAIN r.oo \cup S |-> IF n \in DOMAIN r.oo THEN r.oo[n] ELSE kept[n]]
  BY <1>6 DEF StoreOo
<1> HIDE DEF oo
<1>8. DOMAIN oo = DOMAIN r.oo \cup S /\ oo = [n \in DOMAIN oo |-> oo[n]]
  BY <1>7
<1>9. ASSUME NEW n \in DOMAIN oo
      PROVE  n \in SeqNo /\ oo[n] = Offset(n) + 1 /\ a <= Offset(n) /\ Offset(n) < w
  <2>1. oo[n] = IF n \in DOMAIN r.oo THEN r.oo[n] ELSE kept[n]
    BY <1>7, <1>8
  <2>2. CASE n \in DOMAIN r.oo
    BY <2>1, <2>2 DEF Stored
  <2>3. CASE n \notin DOMAIN r.oo
    <3>1. n \in S /\ n \in D /\ kept[n] = new[n]
      BY <1>6, <1>8, <2>3
    <3> QED
      BY <1>4, <2>1, <2>3, <3>1
  <2> QED
    BY <2>2, <2>3
<1> QED
  BY <1>8, <1>9 DEF Stored, oo

(* drain_oo finds the end of the run at rcv_nxt.                            *)
LEMMA RunExists ==
    ASSUME NEW w \in 0..MaxBytes, NEW nxt, Near(nxt), Offset(nxt) <= w + 1,
           NEW oo, Stored(oo, Offset(nxt), w)
    PROVE  /\ \E k \in 0..Cardinality(DOMAIN oo) :
                 Numbers(nxt, k) \subseteq DOMAIN oo /\ Plus(nxt, k) \notin DOMAIN oo
           /\ Cardinality(DOMAIN oo) \in Nat
<1> DEFINE a == Offset(nxt)
           D == DOMAIN oo
           B == {k \in Nat : a + k <= w + 1 /\ Plus(nxt, k) \notin D}
<1>1. /\ w \in Nat /\ w <= MaxBytes /\ MaxBytes \in Nat /\ Modulus \in Nat /\ MaxBytes + 2 < Modulus
  BY Moduli
<1>2. a \in Nat /\ nxt \in SeqNo
  BY OffsetCases DEF Near
<1>3. \A n \in D : n \in SeqNo /\ Offset(n) < w
  BY DEF Stored
<1>4. ASSUME NEW k \in Nat, a + k <= w + 1
      PROVE  Plus(nxt, k) \in SeqNo /\ Offset(Plus(nxt, k)) = a + k
  <2>1. Offset(nxt) + k < Modulus
    BY <1>1, <1>2, <1>4
  <2> QED
    BY <1>2, <2>1, PlusOffset
<1> HIDE DEF a, D
<1>5. B # {} /\ B \in SUBSET Nat
  <2> DEFINE k == IF a <= w THEN w - a ELSE 0
  <2>1. k \in Nat /\ a + k <= w + 1 /\ a + k >= w
    BY <1>1, <1>2 DEF a
  <2> HIDE DEF k
  <2>2. Plus(nxt, k) \notin D
    BY <1>1, <1>2, <1>3, <1>4, <2>1
  <2>3. k \in B
    BY <2>1, <2>2
  <2> QED
    BY <2>3
<1>6. PICK k \in B : \A m \in B : k <= m
  BY ONLY <1>5, Least
<1>7. k \in Nat /\ a + k <= w + 1 /\ Plus(nxt, k) \notin D
  BY <1>6
<1>8. ASSUME NEW i \in 0..(k - 1) PROVE Plus(nxt, i) \in D
  <2>1. i \in Nat /\ a + i <= w + 1 /\ ~(k <= i)
    BY <1>1, <1>2, <1>7
  <2>2. i \notin B
    BY <1>6, <2>1
  <2> QED
    BY <2>1, <2>2
<1>9. Numbers(nxt, k) \subseteq D
  BY <1>8 DEF Numbers
<1>10. IsFiniteSet(D)
  <2>1. IsFiniteSet(0..(Modulus - 1))
    <3>1. 0 \in Int /\ Modulus - 1 \in Int
      BY <1>1
    <3> QED
      BY ONLY <3>1, FS_Interval
  <2>2. D \in SUBSET (0..(Modulus - 1))
    BY <1>3 DEF SeqNo
  <2> QED
    BY ONLY <2>1, <2>2, FS_Subset
<1>11. k <= Cardinality(D) /\ Cardinality(D) \in Nat
  <2> DEFINE S == 0..(k - 1)
             F == [i \in S |-> Plus(nxt, i)]
  <2>1. F \in [S -> D]
    BY <1>8
  <2>2. \A i, j \in S : F[i] = F[j] => i = j
    <3> TAKE i, j \in S
    <3> HAVE F[i] = F[j]
    <3>1. i \in Nat /\ j \in Nat /\ a + i <= w + 1 /\ a + j <= w + 1
      BY <1>1, <1>2, <1>7
    <3>2. a + i = a + j
      BY <1>4, <3>1
    <3> QED
      BY <1>2, <3>1, <3>2
  <2> HIDE DEF F
  <2>3. F \in Injection(S, D)
    BY <2>1, <2>2 DEF Injection, IsInjective
  <2>4. Cardinality(S) <= Cardinality(D)
    BY ONLY <1>10, <2>3, FS_Injection
  <2>5. Cardinality(S) = k
    <3>1. 0 \in Int /\ k - 1 \in Int /\ k \in Nat
      BY <1>7
    <3>2. Cardinality(0..(k - 1)) = IF 0 > k - 1 THEN 0 ELSE k - 1 - 0 + 1
      BY ONLY <3>1, FS_Interval
    <3> QED
      BY ONLY <3>1, <3>2
  <2>6. Cardinality(D) \in Nat
    BY ONLY <1>10, FS_CardinalityType
  <2> QED
    BY <2>4, <2>5, <2>6
<1>12. k \in 0..Cardinality(D)
  BY <1>7, <1>11
<1> QED
  BY <1>7, <1>9, <1>11, <1>12 DEF D

(* The receiver never takes anything back.                                 *)
Grows(r, s) ==
    /\ Offset(r.rcv_nxt) <= Offset(s.rcv_nxt)
    /\ r.eof => s.eof
    /\ \A n \in SeqNo : Holds(r, n) => Holds(s, n)

LEMMA GrowsTwice ==
    ASSUME NEW r, NEW s, NEW t, Grows(r, s), Grows(s, t),
           r.rcv_nxt \in SeqNo, s.rcv_nxt \in SeqNo, t.rcv_nxt \in SeqNo
    PROVE  Grows(r, t)
<1>1. Offset(r.rcv_nxt) \in Nat /\ Offset(s.rcv_nxt) \in Nat /\ Offset(t.rcv_nxt) \in Nat
  BY OffsetCases
<1> QED
  BY <1>1 DEF Grows

(* A receiver that only sets flags.                                        *)
SameBytes(r, s) ==
    /\ s.rcv_nxt = r.rcv_nxt /\ s.eof = r.eof /\ s.oo = r.oo /\ s.peer_fin = r.peer_fin

LEMMA SameBytesKeep ==
    ASSUME NEW w, NEW g, NEW f, NEW r, RxOK(r, g, w, f),
           NEW s, RxType(s), SameBytes(r, s), s.read_buf = r.read_buf, Verdict(s)
    PROVE  RxOK(s, g, w, f) /\ Grows(r, s)
<1>1. r.rcv_nxt \in SeqNo
  BY DEF RxOK, RxType
<1>2. Offset(r.rcv_nxt) \in Nat
  BY <1>1, OffsetCases
<1>3. Receiver(s, g, w, f)
  BY DEF RxOK, Receiver, SameBytes, InOrder
<1>4. Grows(r, s)
  BY <1>2 DEF Grows, SameBytes, Holds
<1> QED
  BY <1>3, <1>4 DEF RxOK

LEMMA TryConsumeFinKeeps ==
    ASSUME NEW w \in 0..MaxBytes, NEW g, NEW f, NEW r, RxOK(r, g, w, f)
    PROVE  LET s == TryConsumeFin(r) IN RxOK(s, g, w, f) /\ Grows(r, s) /\ s.phase = r.phase
<1> DEFINE s == TryConsumeFin(r)
<1>1. /\ w \in Nat /\ w <= MaxBytes /\ MaxBytes \in Nat /\ Modulus \in Nat /\ MaxBytes + 2 < Modulus
  BY Moduli
<1>2. RxType(r) /\ Receiver(r, g, w, f)
  BY DEF RxOK
<1>3. /\ r.rcv_nxt \in SeqNo /\ Offset(r.rcv_nxt) \in Nat
      /\ ~r.eof => Offset(r.rcv_nxt) <= w /\ InOrder(r) = Offset(r.rcv_nxt)
      /\ Stored(r.oo, Offset(r.rcv_nxt), w)
  BY ReceiverNear
<1>4. CASE r.rcv_nxt \in r.peer_fin /\ ~r.eof
  <2> DEFINE x == Plus(r.rcv_nxt, 1)
  <2>1. Offset(r.rcv_nxt) = w /\ f
    BY <1>2, <1>4 DEF Receiver
  <2>2. x \in SeqNo /\ Offset(x) = w + 1
    <3>1. Offset(r.rcv_nxt) + 1 < Modulus
      BY <1>1, <2>1
    <3>2. 1 \in Nat
      OBVIOUS
    <3> QED
      BY <1>3, <2>1, <3>1, <3>2, PlusOffset
  <2> HIDE DEF x
  <2>3. /\ RxType(s) /\ s.rcv_nxt = x /\ s.eof = TRUE /\ s.read_buf = r.read_buf
        /\ s.oo = r.oo /\ s.peer_fin = r.peer_fin /\ s.phase = r.phase
    <3>1. s = [r EXCEPT !.rcv_nxt = x, !.eof = TRUE]
      BY <1>2, <1>4 DEF TryConsumeFin, RxType, x
    <3> HIDE DEF s
    <3> QED
      BY <1>2, <2>2, <3>1 DEF RxType
  <2> HIDE DEF s
  <2>4. InOrder(s) = w /\ InOrder(r) = w
    BY <1>1, <1>3, <1>4, <2>1, <2>2, <2>3 DEF InOrder
  <2>5. DOMAIN r.oo = {}
    <3>1. ASSUME NEW n \in DOMAIN r.oo PROVE FALSE
      <4>1. n \in SeqNo /\ w <= Offset(n) /\ Offset(n) < w
        BY <1>3, <2>1 DEF Stored
      <4>2. Offset(n) \in Nat
        BY <4>1, OffsetCases
      <4> QED
        BY <1>1, <4>1, <4>2
    <3> QED
      BY <3>1
  <2>6. Receiver(s, g, w, f)
    <3>1. InOrder(s) \in 0..w
      BY <1>1, <2>4
    <3>2. g \o s.read_buf = Run(0, InOrder(s))
      BY <1>2, <2>3, <2>4 DEF Receiver
    <3>3. \A n \in s.peer_fin : f /\ (Offset(n) = w \/ (Offset(n) = w + 1 /\ s.eof))
      BY <1>2, <2>3 DEF Receiver
    <3> QED
      BY <2>1, <2>3, <2>4, <2>5, <3>1, <3>2, <3>3 DEF Receiver
  <2>7. Grows(r, s)
    <3>1. Offset(r.rcv_nxt) <= Offset(s.rcv_nxt)
      BY <1>1, <2>1, <2>2, <2>3
    <3>2. ASSUME NEW n \in SeqNo, Holds(r, n) PROVE Holds(s, n)
      <4>1. Offset(n) < w
        BY <2>1, <2>5, <3>2 DEF Holds
      <4>2. Offset(n) \in Nat
        BY OffsetCases
      <4> QED
        BY <1>1, <2>2, <2>3, <4>1, <4>2 DEF Holds
    <3> QED
      BY <2>3, <3>1, <3>2 DEF Grows
  <2> QED
    BY <2>3, <2>6, <2>7 DEF RxOK, Verdict, s
<1>5. CASE ~(r.rcv_nxt \in r.peer_fin /\ ~r.eof)
  <2>1. s = r
    BY <1>5 DEF TryConsumeFin
  <2>2. Grows(r, r)
    BY <1>3 DEF Grows
  <2> QED
    BY <2>1, <2>2
<1> QED
  BY <1>4, <1>5

LEMMA BytesAssociate ==
    ASSUME NEW p \in Seq(Byte), NEW q \in Seq(Byte), NEW e \in Seq(Byte)
    PROVE  (p \o q) \o e = p \o (q \o e)
<1> DEFINE B == Byte
<1>1. p \in Seq(B) /\ q \in Seq(B) /\ e \in Seq(B)
  OBVIOUS
<1> HIDE DEF B
<1> QED
  BY ONLY <1>1, ConcatAssociative

(* What is kept of a segment is part of it.                                 *)
LEMMA KeptPart ==
    ASSUME NEW r, NEW c, NEW new \in Kept(r, c)
    PROVE  \E S \in SUBSET DOMAIN Acceptable(r, c.seq, c.data) :
              new = Restrict(Acceptable(r, c.seq, c.data), S)
<1> DEFINE acc == Acceptable(r, c.seq, c.data)
<1>1. acc = Restrict(acc, DOMAIN acc)
  BY DEF Acceptable, Restrict
<1>2. new = acc \/ \E S \in SUBSET DOMAIN acc : new = Restrict(acc, S)
  BY DEF Kept
<1> HIDE DEF acc
<1>3. \E S \in SUBSET DOMAIN acc : new = Restrict(acc, S)
  BY <1>1, <1>2
<1> QED
  BY <1>3 DEF acc

(* accept, with drain_oo: the bytes of a segment that fit are stored, and    *)
(* the run at rcv_nxt moves to the reader.                                  *)
LEMMA AcceptKeeps ==
    ASSUME NEW w \in 0..MaxBytes, NEW g \in Seq(Byte), NEW f, NEW r, RxOK(r, g, w, f),
           NEW seq \in SeqNo, NEW data \in Seq(Byte),
           data = Run(Offset(seq), Len(data)), Offset(seq) + Len(data) <= w,
           NEW S \in SUBSET DOMAIN Acceptable(r, seq, data),
           NEW new, new = Restrict(Acceptable(r, seq, data), S)
    PROVE  LET s == Accept(r, new)
           IN  RxOK(s, g, w, f) /\ Grows(r, s) /\ s.phase = r.phase
<1> DEFINE a == Offset(r.rcv_nxt)
           oo == StoreOo(r, new)
           D == DOMAIN oo
           k == CHOOSE j \in 0..Cardinality(D) :
                  Numbers(r.rcv_nxt, j) \subseteq D /\ Plus(r.rcv_nxt, j) \notin D
           x == Plus(r.rcv_nxt, k)
           E == [i \in 1..k |-> oo[Plus(r.rcv_nxt, i - 1)]]
           rest == [n \in D \ Numbers(r.rcv_nxt, k) |-> oo[n]]
           s == [r EXCEPT !.read_buf = r.read_buf \o E, !.rcv_nxt = x, !.oo = rest]
<1>1. /\ w \in Nat /\ w <= MaxBytes /\ MaxBytes \in Nat /\ Modulus \in Nat /\ MaxBytes + 2 < Modulus
  BY Moduli
<1>2. RxType(r) /\ Receiver(r, g, w, f) /\ r.read_buf \in Seq(Byte)
  BY DEF RxOK, RxType
<1>3. /\ Near(r.rcv_nxt) /\ r.rcv_nxt \in SeqNo /\ a \in Nat /\ a <= w + 1
      /\ ~r.eof => a <= w /\ InOrder(r) = a
      /\ r.eof => a = w + 1 /\ InOrder(r) = w /\ f
      /\ Stored(r.oo, a, w)
  BY ReceiverNear
<1>4. Stored(oo, a, w) /\ DOMAIN r.oo \subseteq D
  BY <1>3, StoredBytes
<1>5. /\ \E j \in 0..Cardinality(D) :
            Numbers(r.rcv_nxt, j) \subseteq D /\ Plus(r.rcv_nxt, j) \notin D
      /\ Cardinality(D) \in Nat
  BY <1>3, <1>4, RunExists
<1>6. Accept(r, new) = IF k > 0 THEN TryConsumeFin(s) ELSE s
  BY <1>2 DEF Accept, RxType
<1> HIDE DEF oo
<1>7. k \in 0..Cardinality(D) /\ Numbers(r.rcv_nxt, k) \subseteq D /\ x \notin D
  BY <1>5
<1>8. k \in Nat
  BY <1>5, <1>7
<1>9. \A n \in D : n \in SeqNo /\ oo[n] = Offset(n) + 1 /\ a <= Offset(n) /\ Offset(n) < w
                   /\ Offset(n) \in Nat
  <2>1. \A n \in D : n \in SeqNo /\ oo[n] = Offset(n) + 1 /\ a <= Offset(n) /\ Offset(n) < w
    BY <1>4 DEF Stored
  <2> QED
    BY <2>1, OffsetCases
<1> HIDE DEF k, a
<1>10. \A i \in 1..k : Plus(r.rcv_nxt, i - 1) \in D
  BY <1>7, <1>8 DEF Numbers
<1>11. k > 0 => ~r.eof /\ a + k <= w
  <2> SUFFICES ASSUME k > 0 PROVE ~r.eof /\ a + k <= w
    OBVIOUS
  <2>0. r.rcv_nxt \in D
    <3>1. Plus(r.rcv_nxt, 0) = r.rcv_nxt
      <4>1. Offset(r.rcv_nxt) + 0 < Modulus /\ 0 \in Nat
        BY <1>1, <1>3 DEF a
      <4>2. Plus(r.rcv_nxt, 0) \in SeqNo /\ Offset(Plus(r.rcv_nxt, 0)) = Offset(r.rcv_nxt) + 0
        BY <1>3, <4>1, PlusOffset
      <4> QED
        BY <1>3, <4>2, OffsetEq DEF a
    <3>2. 1 \in 1..k /\ 1 - 1 = 0
      BY <1>8
    <3> QED
      BY <1>10, <3>1, <3>2
  <2>1. a < w
    BY <1>9, <2>0 DEF a
  <2>2. ~r.eof
    BY <1>1, <1>3, <2>1
  <2>3. a + k <= w
    <3> SUFFICES ASSUME a + k > w PROVE FALSE
      BY <1>1, <1>3, <1>8
    <3> DEFINE j == w - a
    <3>1. j \in Nat /\ j + 1 \in 1..k /\ j + 1 - 1 = j /\ a + j = w
      BY <1>1, <1>3, <1>8, <2>1
    <3> HIDE DEF j
    <3>2. Offset(r.rcv_nxt) + j < Modulus
      BY <1>1, <3>1 DEF a
    <3>3. Offset(Plus(r.rcv_nxt, j)) = w
      BY <1>3, <3>1, <3>2, PlusOffset DEF a
    <3>4. Plus(r.rcv_nxt, j) \in D
      BY <1>10, <3>1
    <3> QED
      BY <1>1, <1>9, <3>3, <3>4
  <2> QED
    BY <2>2, <2>3
<1>12. a + k <= w + 1 /\ a + k < Modulus
  BY <1>1, <1>3, <1>8, <1>11
<1>13. x \in SeqNo /\ Offset(x) = a + k
  BY <1>3, <1>8, <1>12, PlusOffset DEF a
<1>14. E = Run(a, k)
  <2>1. ASSUME NEW i \in 1..k PROVE oo[Plus(r.rcv_nxt, i - 1)] = a + i
    <3> DEFINE j == i - 1
    <3>1. j \in Nat /\ j + 1 = i /\ a + j < Modulus
      BY ONLY <1>1, <1>3, <1>8, <1>12, i \in 1..k DEF a
    <3> HIDE DEF j
    <3>2. Offset(Plus(r.rcv_nxt, j)) = a + j
      BY <1>3, <3>1, PlusOffset DEF a
    <3>3. Plus(r.rcv_nxt, j) \in D
      BY <1>10 DEF j
    <3>4. oo[Plus(r.rcv_nxt, j)] = a + j + 1
      BY <1>9, <3>2, <3>3
    <3>5. a + j + 1 = a + i
      BY <1>3, <3>1
    <3> QED
      BY <3>4, <3>5 DEF j
  <2> QED
    BY <2>1 DEF Run
<1>15. E \in Seq(Byte)
  <2>1. CASE k = 0
    <3>1. E = <<>>
      BY <1>14, <2>1, RunEmpty
    <3> HIDE DEF E
    <3> QED
      BY <3>1
  <2>2. CASE k > 0
    <3>1. a + k <= MaxBytes
      BY <1>1, <1>3, <1>8, <1>11, <2>2
    <3>2. Run(a, k) \in Seq(Byte)
      BY <1>3, <1>8, <3>1, RunBytes
    <3> HIDE DEF E
    <3> QED
      BY <1>14, <3>2
  <2> QED
    BY <1>8, <2>1, <2>2
<1>16. \A n \in D : n \in Numbers(r.rcv_nxt, k) <=> Offset(n) < a + k
  <2> TAKE n \in D
  <2>1. Offset(r.rcv_nxt) + k <= MaxBytes + 2
    BY <1>1, <1>3, <1>8, <1>12 DEF a
  <2>2. n \in Numbers(r.rcv_nxt, k)
        <=> n \in SeqNo /\ Offset(r.rcv_nxt) <= Offset(n) /\ Offset(n) < Offset(r.rcv_nxt) + k
    BY <1>3, <1>8, <2>1, NumbersOffset
  <2> QED
    BY <1>9, <2>2 DEF a
<1> HIDE DEF E, x
<1>17. DOMAIN rest = D \ Numbers(r.rcv_nxt, k) /\ \A n \in DOMAIN rest : rest[n] = oo[n]
  OBVIOUS
<1>18. rest \in [DOMAIN rest -> Byte]
  <2>1. \A n \in D : oo[n] \in Byte
    BY <1>1, <1>9 DEF Byte
  <2> QED
    BY <1>17, <2>1
<1> HIDE DEF rest
<1>19. /\ RxType(s) /\ s.rcv_nxt = x /\ s.eof = r.eof /\ s.read_buf = r.read_buf \o E
       /\ s.oo = rest /\ s.peer_fin = r.peer_fin /\ s.phase = r.phase /\ s.end = r.end
  <2>1. r.read_buf \o E \in Seq(Byte)
    BY <1>2, <1>15, ConcatProperties
  <2> DEFINE b == r.read_buf \o E
  <2>2. b \in Seq(Byte)
    BY <2>1
  <2> HIDE DEF b
  <2>3. s = [r EXCEPT !.read_buf = b, !.rcv_nxt = x, !.oo = rest]
    BY DEF b
  <2> HIDE DEF s
  <2>4. /\ RxType(s) /\ s.rcv_nxt = x /\ s.eof = r.eof /\ s.read_buf = b
        /\ s.oo = rest /\ s.peer_fin = r.peer_fin /\ s.phase = r.phase /\ s.end = r.end
    BY <1>2, <1>13, <1>18, <2>2, <2>3 DEF RxType
  <2> QED
    BY <2>4 DEF b
<1> HIDE DEF s
<1>20. InOrder(s) = InOrder(r) + k /\ InOrder(s) \in 0..w /\ (r.eof => k = 0)
  <2>1. Offset(s.rcv_nxt) = a + k /\ s.eof = r.eof /\ Offset(r.rcv_nxt) = a
    BY <1>13, <1>19 DEF a
  <2> QED
    BY ONLY <1>1, <1>3, <1>8, <1>11, <2>1 DEF InOrder
<1>21. g \o s.read_buf = Run(0, InOrder(s))
  <2>1. g \o s.read_buf = (g \o r.read_buf) \o E
    <3>1. (g \o r.read_buf) \o E = g \o (r.read_buf \o E)
      BY ONLY g \in Seq(Byte), <1>2, <1>15, BytesAssociate
    <3> QED
      BY ONLY <1>19, <3>1
  <2>2. g \o r.read_buf = Run(0, InOrder(r)) /\ InOrder(r) \in Nat
    BY <1>1, <1>2 DEF Receiver
  <2>3. CASE k = 0
    <3>1. E = <<>> /\ InOrder(s) = InOrder(r)
      BY <1>14, <1>20, <2>2, <2>3, RunEmpty
    <3>2. g \o r.read_buf \in Seq(Byte)
      BY <1>2, ConcatProperties
    <3>3. (g \o r.read_buf) \o <<>> = g \o r.read_buf
      BY <3>2, ConcatEmptySeq
    <3> QED
      BY <2>1, <2>2, <3>1, <3>3
  <2>4. CASE k > 0
    <3>1. InOrder(r) = a /\ InOrder(s) = a + k
      BY <1>3, <1>11, <1>20, <2>4
    <3>2. Run(0, a) \o Run(0 + a, k) = Run(0, a + k)
      BY ONLY <1>3, <1>8, RunConcat
    <3>3. 0 + a = a
      BY <1>3
    <3> QED
      BY <1>14, <2>1, <2>2, <3>1, <3>2, <3>3
  <2> QED
    BY <1>8, <2>3, <2>4
<1>22. \A n \in DOMAIN s.oo : /\ n \in SeqNo /\ s.oo[n] = Offset(n) + 1
                              /\ Offset(s.rcv_nxt) <= Offset(n) /\ Offset(n) < w
  BY <1>3, <1>8, <1>9, <1>13, <1>16, <1>17, <1>19
<1>23. Receiver(s, g, w, f)
  <2>1. s.eof => InOrder(s) = w /\ f
    BY <1>1, <1>3, <1>19, <1>20
  <2>2. \A n \in s.peer_fin : f /\ (Offset(n) = w \/ (Offset(n) = w + 1 /\ s.eof))
    BY <1>2, <1>19 DEF Receiver
  <2> QED
    BY <1>20, <1>21, <1>22, <2>1, <2>2 DEF Receiver
<1>24. RxOK(s, g, w, f)
  <2>1. Verdict(r)
    BY DEF RxOK
  <2> QED
    BY <1>19, <1>23, <2>1 DEF RxOK, Verdict
<1>25. Grows(r, s)
  <2>1. Offset(r.rcv_nxt) <= Offset(s.rcv_nxt)
    BY <1>3, <1>8, <1>13, <1>19 DEF a
  <2>2. ASSUME NEW n \in SeqNo, Holds(r, n) PROVE Holds(s, n)
    <3>1. Offset(n) \in Nat
      BY OffsetCases
    <3>2. CASE n \in DOMAIN r.oo
      BY <1>4, <1>13, <1>16, <1>17, <1>19, <3>2 DEF Holds
    <3>3. CASE Offset(n) < a
      BY <1>3, <1>8, <1>13, <1>19, <3>1, <3>3 DEF Holds
    <3> QED
      BY <2>2, <3>2, <3>3 DEF Holds, a
  <2> QED
    BY <1>19, <2>1, <2>2 DEF Grows
<1>26. /\ RxOK(TryConsumeFin(s), g, w, f) /\ Grows(s, TryConsumeFin(s))
       /\ TryConsumeFin(s).phase = r.phase
  BY <1>19, <1>24, TryConsumeFinKeeps
<1>27. Grows(r, TryConsumeFin(s))
  <2>1. TryConsumeFin(s).rcv_nxt \in SeqNo /\ s.rcv_nxt \in SeqNo
    BY <1>24, <1>26 DEF RxOK, RxType
  <2> QED
    BY <1>3, <1>25, <1>26, <2>1, GrowsTwice
<1> QED
  BY <1>6, <1>19, <1>24, <1>25, <1>26, <1>27

LEMMA CellFields ==
    ASSUME NEW c \in CellType
    PROVE  /\ c.kind \in {"data", "fin", "ack", "rst"}
           /\ c.kind \in {"data", "fin"} => c.seq \in SeqNo /\ c.data \in Seq(Byte)
           /\ c.kind = "ack" => c.ack \in SeqNo /\ c.win \in 0..RecvWindow /\ c.sacks \in SUBSET SeqNo
           /\ c.kind = "rst" => c.to \in {"tx", "rx"}
BY DEF CellType

(* A lingering driver notes a repeat.                                       *)
LEMMA AnsweredKeeps ==
    ASSUME NEW w, NEW g, NEW f, NEW r, RxOK(r, g, w, f), NEW c
    PROVE  LET s == Answered(r, c)
           IN  RxOK(s, g, w, f) /\ Grows(r, s) /\ s.phase = r.phase /\ s.end = r.end
<1> DEFINE s == [r EXCEPT !.ack_pending = TRUE]
<1>1. RxType(r) /\ Verdict(r)
  BY DEF RxOK
<1>2. /\ RxType(s) /\ SameBytes(r, s) /\ s.read_buf = r.read_buf /\ Verdict(s)
      /\ s.phase = r.phase /\ s.end = r.end
  BY <1>1 DEF RxType, SameBytes, Verdict
<1>3. RxType(r) /\ SameBytes(r, r) /\ Verdict(r)
  BY <1>1 DEF SameBytes
<1> HIDE DEF s
<1>4. RxOK(s, g, w, f) /\ Grows(r, s) /\ Grows(r, r)
  BY <1>2, <1>3, SameBytesKeep
<1>5. Answered(r, c) = s \/ Answered(r, c) = r
  BY DEF Answered, s
<1> QED
  BY <1>2, <1>4, <1>5

LEMMA OnDataKeeps ==
    ASSUME NEW w \in 0..MaxBytes, NEW g \in Seq(Byte), NEW f, NEW r, RxOK(r, g, w, f),
           NEW c \in CellType, c.kind = "data", CellOK(c, r, w, f), NEW new \in Kept(r, c)
    PROVE  LET s == OnData(r, c, new)
           IN  /\ RxOK(s, g, w, f) /\ Grows(r, s) /\ s.phase = r.phase
               /\ r.phase # "established" => s.end = r.end
<1> DEFINE b == Accept(r, new)
           s == [b EXCEPT !.ack_pending = TRUE]
<1>1. /\ c.seq \in SeqNo /\ c.data \in Seq(Byte)
      /\ c.data = Run(Offset(c.seq), Len(c.data)) /\ Offset(c.seq) + Len(c.data) <= w
  BY CellFields DEF CellOK
<1>2. RxOK(b, g, w, f) /\ Grows(r, b) /\ b.phase = r.phase
  <2>1. PICK S \in SUBSET DOMAIN Acceptable(r, c.seq, c.data) :
               new = Restrict(Acceptable(r, c.seq, c.data), S)
    BY KeptPart
  <2> QED
    BY ONLY w \in 0..MaxBytes, g \in Seq(Byte), RxOK(r, g, w, f), <1>1, <2>1, AcceptKeeps
<1> HIDE DEF b
<1>3. RxType(b) /\ Verdict(b)
  BY <1>2 DEF RxOK
<1>4. /\ RxType(s) /\ SameBytes(b, s) /\ s.read_buf = b.read_buf /\ Verdict(s)
      /\ s.phase = b.phase
  BY <1>3 DEF RxType, SameBytes, Verdict
<1> HIDE DEF s
<1>5. RxOK(s, g, w, f) /\ Grows(b, s)
  BY <1>2, <1>4, SameBytesKeep
<1>6. r.rcv_nxt \in SeqNo /\ b.rcv_nxt \in SeqNo /\ s.rcv_nxt \in SeqNo
  BY <1>3, <1>4 DEF RxOK, RxType
<1>7. Grows(r, s)
  BY <1>2, <1>5, <1>6, GrowsTwice
<1>8. OnData(r, c, new) = IF r.phase = "established" THEN s ELSE Answered(r, c)
  BY DEF OnData, s, b
<1>9. LET a == Answered(r, c)
      IN  RxOK(a, g, w, f) /\ Grows(r, a) /\ a.phase = r.phase /\ a.end = r.end
  BY AnsweredKeeps
<1>10. CASE r.phase = "established"
  BY <1>2, <1>4, <1>5, <1>7, <1>8, <1>10
<1>11. CASE r.phase # "established"
  BY <1>8, <1>9, <1>11
<1> QED
  BY <1>10, <1>11

LEMMA OnPeerFinKeeps ==
    ASSUME NEW w \in 0..MaxBytes, NEW g \in Seq(Byte), NEW f, NEW r, RxOK(r, g, w, f),
           NEW c \in CellType, c.kind = "fin", CellOK(c, r, w, f)
    PROVE  LET s == OnPeerFin(r, c)
           IN  /\ RxOK(s, g, w, f) /\ Grows(r, s) /\ s.phase = r.phase
               /\ r.phase # "established" => s.end = r.end
<1> DEFINE p == [r EXCEPT !.peer_fin = {c.seq}]
           b == TryConsumeFin(p)
           s == [b EXCEPT !.ack_pending = TRUE,
                          !.end = IF b.eof THEN SetEnd(@, "eof") ELSE @]
<1>1. c.seq \in SeqNo /\ f /\ (Offset(c.seq) = w \/ (Offset(c.seq) = w + 1 /\ r.eof))
  BY CellFields DEF CellOK
<1>2. RxType(r) /\ Receiver(r, g, w, f) /\ Verdict(r)
  BY DEF RxOK
<1>3. /\ RxType(p) /\ p.rcv_nxt = r.rcv_nxt /\ p.eof = r.eof /\ p.oo = r.oo
      /\ p.read_buf = r.read_buf /\ p.peer_fin = {c.seq} /\ Verdict(p) /\ p.phase = r.phase
  BY <1>1, <1>2 DEF RxType, Verdict
<1> HIDE DEF p
<1>4. Receiver(p, g, w, f)
  BY <1>1, <1>2, <1>3 DEF Receiver, InOrder
<1>5. Offset(r.rcv_nxt) \in Nat /\ r.rcv_nxt \in SeqNo
  BY <1>2, OffsetCases DEF RxType
<1>6. Grows(r, p)
  BY <1>3, <1>5 DEF Grows, Holds
<1>7. RxOK(b, g, w, f) /\ Grows(p, b) /\ b.phase = r.phase
  BY <1>3, <1>4, TryConsumeFinKeeps DEF RxOK
<1> HIDE DEF b
<1>8. RxType(b) /\ Verdict(b)
  BY <1>7 DEF RxOK
<1>9. /\ RxType(s) /\ SameBytes(b, s) /\ s.read_buf = b.read_buf /\ Verdict(s)
      /\ s.phase = b.phase
  BY <1>8 DEF RxType, SameBytes, SetEnd, Verdict
<1> HIDE DEF s
<1>10. RxOK(s, g, w, f) /\ Grows(b, s)
  BY <1>7, <1>9, SameBytesKeep
<1>11. p.rcv_nxt \in SeqNo /\ b.rcv_nxt \in SeqNo /\ s.rcv_nxt \in SeqNo
  BY <1>3, <1>8, <1>9 DEF RxType
<1>12. Grows(r, b)
  BY <1>5, <1>6, <1>7, <1>11, GrowsTwice
<1>13. Grows(r, s)
  BY <1>5, <1>10, <1>11, <1>12, GrowsTwice
<1>14. OnPeerFin(r, c) = IF r.phase = "established" THEN s ELSE Answered(r, c)
  BY DEF OnPeerFin, s, b, p
<1>15. LET a == Answered(r, c)
       IN  RxOK(a, g, w, f) /\ Grows(r, a) /\ a.phase = r.phase /\ a.end = r.end
  BY AnsweredKeeps
<1>16. CASE r.phase = "established"
  BY <1>7, <1>9, <1>10, <1>13, <1>14, <1>16
<1>17. CASE r.phase # "established"
  BY <1>14, <1>15, <1>17
<1> QED
  BY <1>16, <1>17

(* on_rst and make_ack                                                     *)
LEMMA AdvertisedBound ==
    ASSUME NEW w \in 0..MaxBytes, NEW g, NEW f, NEW r, RxOK(r, g, w, f)
    PROVE  Advertised(r) \in 0..RecvWindow
<1>1. RxType(r)
  BY DEF RxOK
<1>2. RecvWindow \in Nat
  BY StreamAssumption
<1>3. Len(r.read_buf) \in Nat
  BY <1>1, LenProperties DEF RxType
<1>4. Cardinality(DOMAIN r.oo) \in Nat
  <2>1. Near(r.rcv_nxt) /\ Offset(r.rcv_nxt) <= w + 1 /\ Stored(r.oo, Offset(r.rcv_nxt), w)
    BY ReceiverNear
  <2> QED
    BY <2>1, RunExists
<1> DEFINE k == Len(r.read_buf) + Cardinality(DOMAIN r.oo)
<1>5. k \in Nat
  BY <1>3, <1>4
<1> HIDE DEF k
<1>6. SaturatingSub(RecvWindow, k) \in 0..RecvWindow
  BY <1>2, <1>5 DEF SaturatingSub
<1> QED
  BY <1>6 DEF Advertised, k

(* What the application is told, and whether its engine was reset or is gone. *)
Told(r) == r.phase \in {"lingering", "gone"} /\ r.end = "eof"
Lost(r) == r.phase \in {"closed", "gone"}

LEMMA OnRstKeeps ==
    ASSUME NEW w, NEW g, NEW f, NEW r, RxOK(r, g, w, f), NEW s, s = OnRst(r)
    PROVE  /\ RxOK(s, g, w, f) /\ Grows(r, s)
           /\ (Told(s) <=> Told(r)) /\ Lost(s)
<1> DEFINE c == [Closed(r) EXCEPT !.end = SetEnd(@, "reset")]
           o == [r EXCEPT !.phase = "gone"]
<1>1. RxType(r) /\ Verdict(r)
  BY DEF RxOK
<1>2. RxType(r) /\ SameBytes(r, r) /\ Verdict(r)
  BY <1>1 DEF SameBytes
<1>3. /\ RxType(c) /\ SameBytes(r, c) /\ c.read_buf = r.read_buf /\ Verdict(c)
      /\ c.phase = "closed"
  BY <1>1 DEF RxType, SameBytes, SetEnd, Closed, Verdict
<1>4. /\ RxType(o) /\ SameBytes(r, o) /\ o.read_buf = r.read_buf /\ Verdict(o)
      /\ o.phase = "gone" /\ o.end = r.end
  BY <1>1 DEF RxType, SameBytes, Verdict
<1> HIDE DEF c, o
<1>5. /\ RxOK(c, g, w, f) /\ Grows(r, c) /\ RxOK(o, g, w, f) /\ Grows(r, o)
      /\ Grows(r, r)
  BY <1>2, <1>3, <1>4, SameBytesKeep
<1>6. r.phase \in {"established", "closed", "lingering", "gone"}
  BY <1>1 DEF RxType
<1>7. CASE r.phase = "established"
  <2>1. s = c
    BY <1>7 DEF OnRst, c
  <2> QED
    BY <1>3, <1>5, <1>7, <2>1 DEF Told, Lost
<1>8. CASE r.phase = "lingering"
  <2>1. s = o
    BY <1>8 DEF OnRst, o
  <2> QED
    BY <1>4, <1>5, <1>8, <2>1 DEF Told, Lost
<1>9. CASE r.phase \in {"closed", "gone"}
  <2>1. s = r
    BY <1>9 DEF OnRst
  <2> QED
    BY <1>5, <1>9, <2>1 DEF Lost
<1> QED
  BY <1>6, <1>7, <1>8, <1>9

LEMMA ClosedKeeps ==
    ASSUME NEW w, NEW g, NEW f, NEW r, RxOK(r, g, w, f), r.phase = "established",
           NEW s, s = Closed(r)
    PROVE  /\ RxOK(s, g, w, f) /\ Grows(r, s)
           /\ (Told(s) <=> Told(r)) /\ Lost(s)
<1>1. RxType(r) /\ Verdict(r)
  BY DEF RxOK
<1>2. /\ RxType(s) /\ SameBytes(r, s) /\ s.read_buf = r.read_buf /\ Verdict(s)
      /\ s.phase = "closed"
  BY <1>1 DEF RxType, SameBytes, Closed, Verdict
<1>3. RxOK(s, g, w, f) /\ Grows(r, s)
  BY ONLY RxOK(r, g, w, f), <1>2, SameBytesKeep
<1>4. (Told(s) <=> Told(r)) /\ Lost(s)
  BY <1>2 DEF Told, Lost
<1> QED
  BY <1>3, <1>4

MakeAck(r) == [r EXCEPT !.ack_pending = FALSE, !.last_ack_window = AckWindow(r)]

LEMMA AckWindowBound ==
    ASSUME NEW w \in 0..MaxBytes, NEW g, NEW f, NEW r, RxOK(r, g, w, f)
    PROVE  AckWindow(r) \in 0..RecvWindow
<1>1. Advertised(r) \in 0..RecvWindow /\ RecvWindow \in Nat
  BY AdvertisedBound, StreamAssumption
<1> QED
  BY <1>1 DEF AckWindow

LEMMA MakeAckKeeps ==
    ASSUME NEW w \in 0..MaxBytes, NEW g, NEW f, NEW r, RxOK(r, g, w, f),
           NEW s, s = MakeAck(r)
    PROVE  RxOK(s, g, w, f) /\ Grows(r, s) /\ s.phase = r.phase /\ s.end = r.end
<1>1. RxType(r) /\ Verdict(r) /\ AckWindow(r) \in 0..RecvWindow
  BY AckWindowBound DEF RxOK
<1>2. /\ RxType(s) /\ SameBytes(r, s) /\ s.read_buf = r.read_buf /\ Verdict(s)
      /\ s.phase = r.phase /\ s.end = r.end
  BY <1>1 DEF RxType, SameBytes, MakeAck, Verdict
<1>3. RxOK(s, g, w, f) /\ Grows(r, s)
  BY ONLY RxOK(r, g, w, f), <1>2, SameBytesKeep
<1> QED
  BY <1>2, <1>3

(* The driver ends.                                                        *)
LEMMA RetireKeeps ==
    ASSUME NEW w, NEW g, NEW f, NEW r, RxOK(r, g, w, f), NEW s,
           \/ r.phase = "closed" /\ s = [r EXCEPT !.phase = "gone", !.end = Settled(r)]
           \/ /\ r.phase = "established" /\ IsEof(r)
              /\ s = [r EXCEPT !.phase = "lingering", !.end = Settled(r), !.ack_pending = FALSE]
    PROVE  /\ RxOK(s, g, w, f) /\ Grows(r, s) /\ ~Told(r) /\ (Lost(s) <=> Lost(r))
           /\ Told(s) => r.eof /\ (IsEof(r) \/ Lost(r))
<1>1. RxType(r) /\ Verdict(r)
  BY DEF RxOK
<1>2. Settled(r) \in {"open", "eof", "reset"} /\ (Settled(r) = "eof" => r.eof)
  BY <1>1 DEF Settled, SetEnd, IsEof, Verdict, RxType
<1>3. /\ RxType(s) /\ SameBytes(r, s) /\ s.read_buf = r.read_buf /\ s.end = Settled(r)
      /\ \/ r.phase = "closed" /\ s.phase = "gone"
         \/ r.phase = "established" /\ IsEof(r) /\ s.phase = "lingering"
  BY <1>1, <1>2 DEF RxType, SameBytes
<1>4. Verdict(s)
  BY <1>2, <1>3 DEF Verdict, SameBytes
<1>5. RxOK(s, g, w, f) /\ Grows(r, s)
  BY ONLY RxOK(r, g, w, f), <1>3, <1>4, SameBytesKeep
<1>6. ~Told(r) /\ (Lost(s) <=> Lost(r)) /\ (Told(s) => r.eof /\ (IsEof(r) \/ Lost(r)))
  BY <1>2, <1>3 DEF Told, Lost
<1> QED
  BY <1>5, <1>6

(* read                                                                    *)
LEMMA ReadKeeps ==
    ASSUME NEW w \in 0..MaxBytes, NEW g \in Seq(Byte), NEW f, NEW r, RxOK(r, g, w, f),
           NEW n \in 1..Len(r.read_buf)
    PROVE  LET s == ReadFrom(r, n)
               h == g \o SubSeq(r.read_buf, 1, n)
           IN  /\ RxOK(s, h, w, f) /\ Grows(r, s) /\ h \in Seq(Byte)
               /\ s.phase = r.phase /\ Len(h) = Len(g) + n
<1> DEFINE b == r.read_buf
           x == SubSeq(b, 1, n)
           y == SubSeq(b, n + 1, Len(b))
           s == ReadFrom(r, n)
           h == g \o x
<1>1. RxType(r) /\ Receiver(r, g, w, f) /\ b \in Seq(Byte) /\ Len(b) \in Nat /\ Verdict(r)
  BY LenProperties DEF RxOK, RxType
<1>2. x \in Seq(Byte) /\ Len(x) = n /\ y \in Seq(Byte)
  <2>1. \A i \in 1..Len(b) : b[i] \in Byte
    BY <1>1, ElementOfSeq
  <2>2. /\ 1 \in Int /\ n \in Int /\ n + 1 \in Int /\ Len(b) \in Int /\ 1 <= n
        /\ \A i \in 1..n : b[i] \in Byte
        /\ \A i \in (n + 1)..Len(b) : b[i] \in Byte
    BY <1>1, <2>1
  <2> HIDE DEF b
  <2>3. SubSeq(b, 1, n) \in Seq(Byte) /\ Len(SubSeq(b, 1, n)) = IF 1 <= n THEN n - 1 + 1 ELSE 0
    BY ONLY <2>2, SubSeqProperties
  <2>4. SubSeq(b, n + 1, Len(b)) \in Seq(Byte)
    BY ONLY <2>2, SubSeqProperties
  <2> QED
    BY <2>2, <2>3, <2>4
<1>3. x \o y = b
  <2>1. 1 \in 1..(Len(b) + 1) /\ n \in (1 - 1)..Len(b) /\ Len(b) \in n..Len(b)
    BY <1>1
  <2>2. SubSeq(b, 1, n) \o SubSeq(b, n + 1, Len(b)) = SubSeq(b, 1, Len(b))
    BY ONLY <1>1, <2>1, ConcatAdjacentSubSeq
  <2>3. SubSeq(b, 1, Len(b)) = b
    BY ONLY <1>1, SubSeqFull
  <2> QED
    BY <2>2, <2>3
<1> HIDE DEF x, y
<1>4. h \o y = g \o b
  <2>1. (g \o x) \o y = g \o (x \o y)
    BY ONLY g \in Seq(Byte), <1>2, BytesAssociate
  <2> QED
    BY <1>3, <2>1
<1>5. h \in Seq(Byte) /\ Len(h) = Len(g) + n
  BY <1>2, ConcatProperties
<1>6. /\ RxType(s) /\ s.rcv_nxt = r.rcv_nxt /\ s.eof = r.eof /\ s.oo = r.oo
      /\ s.peer_fin = r.peer_fin /\ s.read_buf = y /\ s.phase = r.phase /\ s.end = r.end
  <2> DEFINE left == [r EXCEPT !.read_buf = SubSeq(@, n + 1, Len(@))]
             A == /\ r.phase = "established" /\ ~r.eof
                  /\ r.last_ack_window <= ReadThreshold
                  /\ SaturatingSub(Advertised(left), r.last_ack_window) >= ReadThreshold
  <2>1. left = [r EXCEPT !.read_buf = y]
    BY <1>1 DEF RxType, y
  <2>2. s = [left EXCEPT !.ack_pending = @ \/ A]
    BY DEF ReadFrom
  <2> HIDE DEF A, left
  <2>3. left.ack_pending = r.ack_pending /\ r.ack_pending \in BOOLEAN
    BY <1>1, <2>1 DEF RxType
  <2> DEFINE p == left.ack_pending \/ A
  <2>4. p \in BOOLEAN
    BY <2>3
  <2> HIDE DEF p
  <2>5. s = [left EXCEPT !.ack_pending = p]
    BY <2>2 DEF p
  <2> HIDE DEF s
  <2> QED
    BY <1>1, <1>2, <2>1, <2>4, <2>5 DEF RxType
<1> HIDE DEF s, h
<1>7. Receiver(s, h, w, f)
  BY <1>1, <1>4, <1>6 DEF Receiver, InOrder
<1>8. Grows(r, s)
  <2>1. Offset(r.rcv_nxt) \in Nat
    BY <1>1, OffsetCases DEF RxType
  <2> QED
    BY <1>6, <2>1 DEF Grows, Holds
<1>9. Verdict(s)
  BY <1>1, <1>6 DEF Verdict
<1> QED
  BY <1>5, <1>6, <1>7, <1>8, <1>9 DEF RxOK, s, h, x, y

-----------------------------------------------------------------------------
(* Steps.  What the receiver has it keeps, so what was true of it stays true. *)
LEMMA GrowsAgreement ==
    ASSUME NEW w \in 0..MaxBytes, NEW r, NEW s, NEW t, SenderOK(t, w, r), Grows(r, s),
           r.rcv_nxt \in SeqNo, s.rcv_nxt \in SeqNo
    PROVE  SenderOK(t, w, s)
<1>1. t \in TxType /\ Sender(t, w) /\ Timers(t) /\ Agreement(t, r)
  BY DEF SenderOK
<1>2. /\ Offset(t.snd_una) \in Nat /\ Offset(r.rcv_nxt) \in Nat /\ Offset(s.rcv_nxt) \in Nat
  BY <1>1, SenderNear, OffsetCases
<1>3. ASSUME NEW i \in 1..Len(t.segs), t.segs[i].sacked,
             NEW n \in Numbers(t.segs[i].seq, Span(t.segs[i]))
      PROVE  Holds(s, n)
  <2> DEFINE e == t.segs[i]
  <2>1. /\ e.seq \in SeqNo /\ Span(e) \in Nat /\ Offset(e.seq) \in Nat
        /\ EndOffset(e) <= w + 2
    BY <1>1, SegmentNear DEF Near
  <2> HIDE DEF e
  <2>2. Offset(e.seq) + Span(e) <= MaxBytes + 2
    BY <2>1, Moduli, SMTT(30) DEF EndOffset
  <2>3. n \in SeqNo
    BY <1>3, <2>1, <2>2, NumbersOffset DEF e
  <2>4. Holds(r, n)
    BY <1>1, <1>3 DEF Agreement
  <2> QED
    BY <2>3, <2>4 DEF Grows
<1>4. Agreement(t, s)
  BY <1>1, <1>2, <1>3 DEF Agreement, Grows
<1> QED
  BY <1>1, <1>4 DEF SenderOK

LEMMA GrowsSound ==
    ASSUME NEW w, NEW f, NEW X, NEW r, NEW s, Sound(X, r, w, f), Grows(r, s),
           r.rcv_nxt \in SeqNo, s.rcv_nxt \in SeqNo
    PROVE  Sound(X, s, w, f)
<1>1. Offset(r.rcv_nxt) \in Nat /\ Offset(s.rcv_nxt) \in Nat
  BY OffsetCases
<1>2. ASSUME NEW c \in X
      PROVE  CellOK(c, s, w, f)
  <2>1. c \in CellType /\ CellOK(c, r, w, f)
    BY DEF Sound
  <2>2. ASSUME c.kind = "ack"
        PROVE  Offset(c.ack) <= Offset(s.rcv_nxt) /\ \A n \in c.sacks : Holds(s, n)
    <3>1. c.ack \in SeqNo /\ c.sacks \in SUBSET SeqNo /\ Offset(c.ack) \in Nat
      BY <2>1, <2>2, CellFields, OffsetCases
    <3>2. Offset(c.ack) <= Offset(r.rcv_nxt) /\ \A n \in c.sacks : Holds(r, n)
      BY <2>1, <2>2 DEF CellOK
    <3>3. Offset(c.ack) <= Offset(s.rcv_nxt)
      BY <1>1, <3>1, <3>2 DEF Grows
    <3> QED
      BY <3>1, <3>2, <3>3 DEF Grows
  <2> QED
    BY <2>1, <2>2 DEF CellOK, Grows
<1> QED
  BY <1>2 DEF Sound

(* A step in which neither the bytes written nor the writer's wish to finish *)
(* change, the receiver keeps what it has, and new cells are sound.          *)
LEMMA Assemble ==
    ASSUME StreamInv, AppOK', written' = written, tx'.fin_requested = tx.fin_requested,
           Grows(rx, rx'), SenderOK(tx', written, rx), RxOK(rx', got', written, tx.fin_requested),
           NEW X, Sound(X, rx, written, tx.fin_requested),
           outbound' \cup net' \subseteq outbound \cup net \cup X
    PROVE  StreamInv'
<1>1. written \in 0..MaxBytes /\ rx.rcv_nxt \in SeqNo /\ rx'.rcv_nxt \in SeqNo
  BY DEF StreamInv, AppOK, RxOK, RxType
<1>2. SenderOK(tx', written, rx')
  BY <1>1, GrowsAgreement
<1>3. Sound(outbound' \cup net', rx, written, tx.fin_requested)
  BY DEF StreamInv, Sound
<1>4. Sound(outbound' \cup net', rx', written, tx.fin_requested)
  BY ONLY <1>1, <1>3, Grows(rx, rx'), GrowsSound
<1>5. SenderOK(tx', written', rx')
  BY <1>2
<1>6. RxOK(rx', got', written', tx'.fin_requested)
  OBVIOUS
<1>7. Sound(outbound' \cup net', rx', written', tx'.fin_requested)
  BY <1>4
<1> QED
  BY <1>5, <1>6, <1>7 DEF StreamInv

(* A step the applications do not see, unless the writer's end dies of it, *)
Hidden ==
    /\ written' = written /\ got' = got /\ tx'.fin_requested = tx.fin_requested
    /\ tx'.phase = tx.phase \/ tx'.phase = "closed"
    /\ (Told(rx') <=> Told(rx)) /\ (Lost(rx') <=> Lost(rx))

(* one that resets the reader's end or takes it away,                       *)
Breaks ==
    /\ written' = written /\ got' = got /\ tx' = tx
    /\ (Told(rx') <=> Told(rx)) /\ Lost(rx')

(* one that moves bytes to the reader,                                      *)
Moves ==
    /\ written' = written /\ tx' = tx
    /\ Len(got) <= Len(got')
    /\ ~Told(rx) /\ ~Told(rx') /\ (Lost(rx') <=> Lost(rx))

(* and one that may tell it of the end.                                     *)
Ends ==
    /\ written' = written /\ got' = got /\ tx' = tx
    /\ ~Told(rx) /\ (Lost(rx') <=> Lost(rx))
    /\ Told(rx') => rx.eof /\ (IsEof(rx) \/ Lost(rx))

(* A step of the sender's end.                                              *)
LEMMA SenderStep ==
    ASSUME StreamInv, AppOK', UNCHANGED <<rx, written, got>>,
           tx'.fin_requested = tx.fin_requested, tx'.phase = tx.phase \/ tx'.phase = "closed",
           SenderOK(tx', written, rx),
           NEW X, Sound(X, rx, written, tx.fin_requested),
           outbound' \cup net' \subseteq outbound \cup net \cup X
    PROVE  StreamInv' /\ Hidden
<1>1. Grows(rx, rx') /\ RxOK(rx', got', written, tx.fin_requested)
  <2>1. Offset(rx.rcv_nxt) \in Nat
    BY OffsetCases DEF StreamInv, RxOK, RxType
  <2> QED
    BY <2>1 DEF Grows, StreamInv
<1>2. StreamInv'
  BY <1>1, Assemble
<1> QED
  BY <1>2 DEF Hidden

(* A step of the receiver's end.                                            *)
LEMMA ReceiverStep ==
    ASSUME StreamInv, AppOK', UNCHANGED <<tx, written>>,
           Grows(rx, rx'), RxOK(rx', got', written, tx.fin_requested),
           NEW X, Sound(X, rx, written, tx.fin_requested),
           outbound' \cup net' \subseteq outbound \cup net \cup X
    PROVE  StreamInv'
<1>1. SenderOK(tx', written, rx)
  BY DEF StreamInv
<1> QED
  BY <1>1, Assemble

LEMMA SpentKeeps ==
    ASSUME AppOK, written' = written, got' = got,
           spent' = spent \/ \E kind \in DOMAIN Bound : Spend(kind)
    PROVE  AppOK'
<1>1. CASE spent' = spent
  BY <1>1 DEF AppOK
<1>2. ASSUME NEW kind \in DOMAIN Bound, Spend(kind)
      PROVE  AppOK'
  <2>1. \A k \in DOMAIN Bound : Bound[k] \in Nat
    BY StreamAssumption DEF Bound
  <2>2. /\ spent[kind] \in 0..Bound[kind] /\ spent[kind] < Bound[kind]
        /\ spent' = [spent EXCEPT ![kind] = spent[kind] + 1]
    BY <1>2 DEF AppOK, Spend
  <2>3. DOMAIN spent' = DOMAIN Bound
    BY <2>2 DEF AppOK
  <2>4. ASSUME NEW k \in DOMAIN Bound
        PROVE  spent'[k] \in 0..Bound[k]
    BY <2>1, <2>2 DEF AppOK
  <2> QED
    BY <2>3, <2>4 DEF AppOK
<1> QED
  BY <1>1, <1>2

LEMMA Kinds == {"losses", "repeats", "alarms", "resets"} \subseteq DOMAIN Bound
BY DEF Bound

(* New cells.                                                              *)
LEMMA SegmentSound ==
    ASSUME NEW w \in 0..MaxBytes, NEW r, NEW g, NEW t, SenderOK(t, w, r),
           RxOK(r, g, w, t.fin_requested), NEW i \in 1..Len(t.segs)
    PROVE  Sound({CellOf(t.segs[i])}, r, w, t.fin_requested)
<1> DEFINE s == t.segs[i]
           c == CellOf(s)
           f == t.fin_requested
<1>1. t \in TxType /\ Sender(t, w) /\ Agreement(t, r)
  BY DEF SenderOK
<1>2. s \in SegType /\ SegmentOK(t, s, w)
  BY <1>1, SegmentNear
<1> HIDE DEF s
<1>3. s.seq \in SeqNo /\ s.data \in Seq(Byte) /\ s.is_fin \in BOOLEAN
  BY <1>2 DEF SegType
<1>4. /\ c.kind = IF s.is_fin THEN "fin" ELSE "data"
      /\ c.seq = s.seq /\ c.data = s.data /\ c \in CellType
  BY <1>3 DEF CellOf, CellType
<1>5. ASSUME s.is_fin
      PROVE  f /\ (Offset(s.seq) = w \/ (Offset(s.seq) = w + 1 /\ r.eof))
  <2>1. t.fin_sent /\ Offset(s.seq) \in {w, w + 1} /\ (Offset(s.seq) = w + 1 => t.fin_acked)
    BY <1>2, <1>5 DEF SegmentOK
  <2>2. /\ f
        /\ t.fin_acked => Offset(t.snd_una) >= w + 1
    BY <1>1, <2>1 DEF Sender, Finishing
  <2>3. /\ Offset(t.snd_una) \in Nat /\ Offset(t.snd_una) <= Offset(r.rcv_nxt)
        /\ Offset(r.rcv_nxt) \in Nat
        /\ ~r.eof => Offset(r.rcv_nxt) <= w
    BY <1>1, SenderNear, ReceiverNear DEF Agreement
  <2>4. Offset(s.seq) = w + 1 => r.eof
    BY <2>1, <2>2, <2>3
  <2> QED
    BY <2>1, <2>2, <2>4
<1>6. ASSUME ~s.is_fin
      PROVE  s.data = Run(Offset(s.seq), Len(s.data)) /\ Offset(s.seq) + Len(s.data) <= w
  BY <1>2, <1>6 DEF SegmentOK
<1> HIDE DEF c
<1>7. CellOK(c, r, w, f)
  BY <1>4, <1>5, <1>6 DEF CellOK
<1> QED
  BY <1>4, <1>7 DEF Sound, c, s

LEMMA AckSound ==
    ASSUME NEW w \in 0..MaxBytes, NEW r, NEW g, NEW f, RxOK(r, g, w, f),
           NEW win \in 0..RecvWindow, NEW sacks \in SUBSET DOMAIN r.oo
    PROVE  Sound({AckCell(r.rcv_nxt, win, sacks)}, r, w, f)
<1> DEFINE c == AckCell(r.rcv_nxt, win, sacks)
<1>1. /\ r.rcv_nxt \in SeqNo /\ Offset(r.rcv_nxt) \in Nat
      /\ Stored(r.oo, Offset(r.rcv_nxt), w)
  BY ReceiverNear
<1>2. sacks \in SUBSET SeqNo
  BY <1>1 DEF Stored
<1>3. c \in CellType
  BY <1>1, <1>2 DEF CellType, AckCell
<1>4. CellOK(c, r, w, f)
  BY <1>1 DEF CellOK, AckCell, Holds
<1> QED
  BY <1>3, <1>4 DEF Sound

LEMMA RstSound ==
    ASSUME NEW to \in {"tx", "rx"}, NEW r, NEW w, NEW f
    PROVE  Sound({RstCell(to)}, r, w, f) /\ Sound({}, r, w, f)
BY DEF Sound, CellOK, CellType, RstCell

-----------------------------------------------------------------------------
(* The applications' steps.                                                *)
Wrote ==
    /\ written' = written + 1 /\ written < MaxBytes
    /\ ~tx.fin_requested /\ ~tx'.fin_requested
    /\ tx.phase # "closed" /\ tx'.phase = tx.phase /\ UNCHANGED <<got, rx>>

LEMMA WriteInv ==
    ASSUME StreamInv, Write
    PROVE  StreamInv' /\ Wrote
<1> DEFINE w == written
           f == tx.fin_requested
           u == [tx EXCEPT !.pending = Append(@, w + 1)]
<1>1. /\ w \in 0..MaxBytes /\ w < MaxBytes /\ ~f /\ tx' = u /\ written' = w + 1
      /\ tx.phase # "closed"
      /\ UNCHANGED <<rx, got, outbound, net, spent>>
  BY DEF Write, StreamInv, AppOK
<1>2. w + 1 \in 0..MaxBytes
  <2>1. w \in 0..MaxBytes /\ w < MaxBytes
    BY <1>1
  <2> QED
    BY ONLY <2>1, Moduli
<1>3. AppOK'
  BY <1>1, <1>2 DEF StreamInv, AppOK
<1>4. tx \in TxType /\ Sender(tx, w) /\ Timers(tx) /\ Agreement(tx, rx)
  BY DEF StreamInv, SenderOK
<1>5. u \in TxType /\ Sender(u, w + 1)
  BY <1>1, <1>4, WriteKeeps
<1>6. /\ u.snd_una = tx.snd_una /\ u.segs = tx.segs /\ u.force_probe = tx.force_probe
      /\ u.rwnd = tx.rwnd /\ u.phase = tx.phase /\ u.consec_rto = tx.consec_rto
      /\ u.fin_requested = f
  BY <1>4 DEF TxType
<1> HIDE DEF u
<1>7. SenderOK(u, w + 1, rx)
  BY <1>4, <1>5, <1>6 DEF SenderOK, Timers, Agreement
<1>8. RxOK(rx, got, w, f)
  BY DEF StreamInv
<1>9. /\ Offset(rx.rcv_nxt) \in Nat /\ Offset(rx.rcv_nxt) <= w
      /\ InOrder(rx) = Offset(rx.rcv_nxt) /\ ~rx.eof
      /\ Stored(rx.oo, Offset(rx.rcv_nxt), w)
  BY <1>1, <1>8, ReceiverNear
<1>10. RxOK(rx, got, w + 1, f)
  <2>1. RxType(rx) /\ Receiver(rx, got, w, f) /\ Verdict(rx)
    BY <1>8 DEF RxOK
  <2>2. InOrder(rx) \in 0..(w + 1)
    BY <1>1, <1>9
  <2>3. \A n \in DOMAIN rx.oo :
           /\ n \in SeqNo /\ rx.oo[n] = Offset(n) + 1
           /\ Offset(rx.rcv_nxt) <= Offset(n) /\ Offset(n) < w + 1
    BY <1>1, <1>9, OffsetCases DEF Stored
  <2>4. \A n \in rx.peer_fin : FALSE
    BY <1>1, <2>1 DEF Receiver
  <2>5. got \o rx.read_buf = Run(0, InOrder(rx))
    BY <2>1 DEF Receiver
  <2> QED
    BY <1>9, <2>1, <2>2, <2>3, <2>4, <2>5 DEF RxOK, Receiver
<1>11. Sound(outbound \cup net, rx, w + 1, f)
  <2>1. Sound(outbound \cup net, rx, w, f)
    BY DEF StreamInv
  <2>2. ASSUME NEW c \in outbound \cup net
        PROVE  c \in CellType /\ CellOK(c, rx, w + 1, f)
    <3>1. c \in CellType /\ CellOK(c, rx, w, f)
      BY <2>1 DEF Sound
    <3>2. ASSUME c.kind = "data"
          PROVE  /\ c.data = Run(Offset(c.seq), Len(c.data))
                 /\ Offset(c.seq) + Len(c.data) <= w + 1
      <4>1. c.seq \in SeqNo /\ c.data \in Seq(Byte)
        BY <3>1, <3>2, CellFields
      <4>2. Offset(c.seq) \in Nat /\ Len(c.data) \in Nat
        BY <4>1, OffsetCases, LenProperties
      <4>3. /\ c.data = Run(Offset(c.seq), Len(c.data))
            /\ Offset(c.seq) + Len(c.data) <= w
        BY <3>1, <3>2 DEF CellOK
      <4> QED
        BY <1>1, <4>2, <4>3
    <3>3. c.kind # "fin"
      BY <1>1, <3>1 DEF CellOK
    <3> QED
      BY <3>1, <3>2, <3>3 DEF CellOK
  <2> QED
    BY <2>2 DEF Sound
<1>12. SenderOK(tx', written', rx')
  BY <1>1, <1>7
<1>13. tx'.fin_requested = f /\ tx'.phase = tx.phase
  BY <1>1, <1>6
<1>14. RxOK(rx', got', written', tx'.fin_requested)
  BY <1>1, <1>10, <1>13
<1>15. Sound(outbound' \cup net', rx', written', tx'.fin_requested)
  BY <1>1, <1>11, <1>13
<1>16. StreamInv'
  BY <1>3, <1>12, <1>14, <1>15 DEF StreamInv
<1> QED
  BY <1>1, <1>13, <1>16 DEF Wrote

Finished ==
    /\ written' = written /\ tx'.fin_requested /\ tx'.phase = tx.phase /\ UNCHANGED <<got, rx>>

LEMMA FinishInv ==
    ASSUME StreamInv, Finish
    PROVE  StreamInv' /\ Finished
<1> DEFINE u == [tx EXCEPT !.fin_requested = TRUE]
<1>1. tx' = u /\ UNCHANGED <<rx, written, got, outbound, net, spent>>
  BY DEF Finish, appVars
<1>2. AppOK'
  BY <1>1 DEF StreamInv, AppOK
<1>3. SenderOK(u, written, rx)
  BY PlainSteps DEF StreamInv
<1>4. u.fin_requested = TRUE /\ u.phase = tx.phase
  BY DEF StreamInv, SenderOK, TxType
<1> HIDE DEF u
<1>5. RxOK(rx, got, written, tx.fin_requested)
      /\ Sound(outbound \cup net, rx, written, tx.fin_requested)
  BY DEF StreamInv
<1>6. RxOK(rx, got, written, TRUE)
  BY <1>5 DEF RxOK, Receiver
<1>7. Sound(outbound \cup net, rx, written, TRUE)
  BY <1>5 DEF Sound, CellOK
<1>8. StreamInv'
  BY <1>1, <1>2, <1>3, <1>4, <1>6, <1>7 DEF StreamInv
<1> QED
  BY <1>1, <1>4, <1>8 DEF Finished

LEMMA ResetSenderInv ==
    ASSUME StreamInv, ResetSender
    PROVE  StreamInv' /\ Hidden
<1>1. AppOK'
  BY SpentKeeps, Kinds DEF ResetSender, appVars, StreamInv
<1>2. SenderOK(Closed(tx), written, rx)
  BY PlainSteps DEF StreamInv
<1>3. Closed(tx).fin_requested = tx.fin_requested /\ Closed(tx).phase = "closed"
  BY DEF StreamInv, SenderOK, TxType, Closed
<1>4. /\ UNCHANGED <<rx, written, got>> /\ tx' = Closed(tx)
      /\ outbound' \cup net' \subseteq outbound \cup net \cup {RstCell("rx")}
  BY DEF ResetSender, appVars
<1>5. Sound({RstCell("rx")}, rx, written, tx.fin_requested)
  BY RstSound
<1> QED
  BY <1>1, <1>2, <1>3, <1>4, <1>5, SenderStep

LEMMA ResetReceiverInv ==
    ASSUME StreamInv, ResetReceiver
    PROVE  StreamInv' /\ Breaks
<1>1. AppOK'
  BY SpentKeeps, Kinds DEF ResetReceiver, appVars, StreamInv
<1>2. /\ UNCHANGED <<tx, written, got>> /\ rx.phase = "established"
      /\ rx' = OnRst(rx) \/ rx' = Closed(rx)
      /\ outbound' \cup net' \subseteq outbound \cup net \cup {RstCell("tx")}
  BY DEF ResetReceiver, appVars
<1>3. /\ RxOK(rx', got, written, tx.fin_requested) /\ Grows(rx, rx')
      /\ (Told(rx') <=> Told(rx)) /\ Lost(rx')
  <2>1. RxOK(rx, got, written, tx.fin_requested)
    BY DEF StreamInv
  <2>2. CASE rx' = OnRst(rx)
    BY ONLY <2>1, <2>2, OnRstKeeps
  <2>3. CASE rx' = Closed(rx)
    <3>1. rx.phase = "established"
      BY <1>2
    <3> QED
      BY ONLY <2>1, <2>3, <3>1, ClosedKeeps
  <2> QED
    BY <1>2, <2>2, <2>3
<1>4. Sound({RstCell("tx")}, rx, written, tx.fin_requested)
  BY RstSound
<1>5. RxOK(rx', got', written, tx.fin_requested) /\ Grows(rx, rx')
  BY <1>2, <1>3
<1>6. StreamInv'
  BY <1>1, <1>2, <1>4, <1>5, ReceiverStep
<1> QED
  BY <1>2, <1>3, <1>6 DEF Breaks

(* The driver's last steps.                                                *)
LEMMA RetireInv ==
    ASSUME StreamInv, Retire
    PROVE  StreamInv' /\ Ends
<1>1. UNCHANGED <<tx, written, got, outbound, net, spent>>
  BY DEF Retire, appVars
<1>2. /\ RxOK(rx', got, written, tx.fin_requested) /\ Grows(rx, rx')
      /\ ~Told(rx) /\ (Lost(rx') <=> Lost(rx))
      /\ Told(rx') => rx.eof /\ (IsEof(rx) \/ Lost(rx))
  <2>1. RxOK(rx, got, written, tx.fin_requested)
    BY DEF StreamInv
  <2>2. \/ rx.phase = "closed" /\ rx' = [rx EXCEPT !.phase = "gone", !.end = Settled(rx)]
        \/ /\ rx.phase = "established" /\ IsEof(rx)
           /\ rx' = [rx EXCEPT !.phase = "lingering", !.end = Settled(rx), !.ack_pending = FALSE]
    BY DEF Retire
  <2> QED
    BY ONLY <2>1, <2>2, RetireKeeps
<1>3. AppOK' /\ Sound({}, rx, written, tx.fin_requested)
  BY <1>1, RstSound DEF StreamInv, AppOK
<1>4. /\ RxOK(rx', got', written, tx.fin_requested) /\ UNCHANGED <<tx, written>>
      /\ outbound' \cup net' \subseteq outbound \cup net \cup {}
  BY <1>1, <1>2
<1>5. StreamInv'
  BY ONLY StreamInv, <1>2, <1>3, <1>4, ReceiverStep
<1> QED
  BY <1>1, <1>2, <1>5 DEF Ends

LEMMA LingerOverInv ==
    ASSUME StreamInv, LingerOver
    PROVE  StreamInv' /\ Breaks
<1>1. /\ UNCHANGED <<tx, written, got, outbound, net, spent>>
      /\ rx.phase = "lingering" /\ rx' = [rx EXCEPT !.phase = "gone"]
  BY DEF LingerOver, appVars
<1>2. RxOK(rx, got, written, tx.fin_requested) /\ rx' = OnRst(rx)
  BY <1>1 DEF StreamInv, OnRst
<1>3. /\ RxOK(rx', got, written, tx.fin_requested) /\ Grows(rx, rx')
      /\ (Told(rx') <=> Told(rx)) /\ Lost(rx')
  BY ONLY <1>2, OnRstKeeps
<1>4. AppOK' /\ Sound({}, rx, written, tx.fin_requested)
  BY <1>1, RstSound DEF StreamInv, AppOK
<1>5. /\ RxOK(rx', got', written, tx.fin_requested) /\ UNCHANGED <<tx, written>>
      /\ outbound' \cup net' \subseteq outbound \cup net \cup {}
  BY <1>1, <1>3
<1>6. StreamInv'
  BY ONLY StreamInv, <1>3, <1>4, <1>5, ReceiverStep
<1> QED
  BY <1>1, <1>3, <1>6 DEF Breaks

LEMMA ReadInv ==
    ASSUME StreamInv, NEW n, Read(n)
    PROVE  StreamInv' /\ Moves
<1> DEFINE s == ReadFrom(rx, n)
           h == got \o SubSeq(rx.read_buf, 1, n)
<1>1. /\ UNCHANGED <<tx, written, outbound, net, spent>> /\ rx' = s /\ got' = h
      /\ n \in 1..Len(rx.read_buf) /\ rx.phase \in {"established", "closed"}
  BY DEF Read
<1>2. /\ RxOK(s, h, written, tx.fin_requested) /\ Grows(rx, s) /\ h \in Seq(Byte)
      /\ s.phase = rx.phase /\ Len(h) = Len(got) + n
  <2>1. /\ written \in 0..MaxBytes /\ got \in Seq(Byte)
        /\ RxOK(rx, got, written, tx.fin_requested) /\ n \in 1..Len(rx.read_buf)
    BY <1>1 DEF StreamInv, AppOK
  <2> QED
    BY ONLY <2>1, ReadKeeps
<1> HIDE DEF s, h
<1>3. AppOK'
  BY <1>1, <1>2 DEF StreamInv, AppOK
<1>4. Sound({}, rx, written, tx.fin_requested)
  BY RstSound
<1>5. StreamInv'
  BY <1>1, <1>2, <1>3, <1>4, ReceiverStep
<1>6. Len(got) \in Nat /\ n \in Nat
  BY <1>1, LenProperties DEF StreamInv, AppOK
<1>7. ~Told(rx) /\ ~Told(rx') /\ (Lost(rx') <=> Lost(rx))
  BY <1>1, <1>2 DEF Told, Lost
<1> QED
  BY <1>1, <1>2, <1>5, <1>6, <1>7 DEF Moves

-----------------------------------------------------------------------------
(* The driver's queue: marks that say where a copy of a segment is.          *)
LEMMA Flight ==
    ASSUME NEW w, NEW r, NEW t, SenderOK(t, w, r)
    PROVE  /\ t \in TxType /\ t.segs \in Seq(SegType) /\ DOMAIN t.segs = 1..Len(t.segs)
           /\ Len(t.segs) \in Nat /\ \A i \in 1..Len(t.segs) : t.segs[i] \in SegType
BY LenProperties, ElementOfSeq DEF SenderOK, TxType

LEMMA DiscardReceivedInv ==
    ASSUME StreamInv, DiscardReceived
    PROVE  StreamInv' /\ Hidden
<1> DEFINE p == tx.segs
           B(i) == p[i].local_pending /\ ~\E c \in Received : Overlaps(p[i], c)
           q == [i \in 1..Len(p) |-> [p[i] EXCEPT !.local_pending = B(i)]]
<1>1. SenderOK(tx, written, rx)
  BY DEF StreamInv
<1>2. /\ tx \in TxType /\ p \in Seq(SegType) /\ DOMAIN p = 1..Len(p)
      /\ \A i \in 1..Len(p) : p[i] \in SegType
  BY <1>1, Flight
<1>3. /\ UNCHANGED <<rx, written, got, net, spent>> /\ outbound' \subseteq outbound
      /\ tx' = [tx EXCEPT !.segs = q]
  <2>1. /\ UNCHANGED <<rx, written, got, net, spent>> /\ outbound' \subseteq outbound
    BY DEF DiscardReceived, appVars
  <2>2. tx' = [tx EXCEPT !.segs = [i \in DOMAIN p |-> [p[i] EXCEPT !.local_pending = B(i)]]]
    BY DEF DiscardReceived
  <2> HIDE DEF B
  <2> QED
    BY <1>2, <2>1, <2>2
<1>4. SameButMarks(p, q)
  <2> HIDE DEF p
  <2>1. ASSUME NEW i \in 1..Len(p)
        PROVE  /\ q[i] \in SegType /\ q[i].seq = p[i].seq /\ q[i].data = p[i].data
               /\ q[i].is_fin = p[i].is_fin /\ q[i].sacked = p[i].sacked
    <3> DEFINE b == B(i)
               s == p[i]
    <3>1. s \in SegType /\ s.needs_resend \in BOOLEAN /\ s.handed_off \in BOOLEAN
          /\ s.local_pending \in BOOLEAN
      BY <1>2 DEF SegType
    <3>2. b \in BOOLEAN
      BY <3>1
    <3>3. q[i] = [s EXCEPT !.local_pending = b]
      OBVIOUS
    <3> HIDE DEF b, s, q, B
    <3>4. q[i] = [s EXCEPT !.needs_resend = s.needs_resend, !.local_pending = b,
                           !.handed_off = s.handed_off]
      BY <3>1, <3>2, <3>3 DEF SegType
    <3>5. /\ q[i] \in SegType /\ q[i].seq = s.seq /\ q[i].data = s.data
          /\ q[i].is_fin = s.is_fin /\ q[i].sacked = s.sacked
      BY ONLY <3>1, <3>2, <3>4 DEF SegType
    <3> QED
      BY <3>5 DEF s
  <2> HIDE DEF B
  <2>2. q \in [1..Len(p) -> SegType]
    BY <2>1
  <2> HIDE DEF q
  <2> QED
    BY <2>1, <2>2 DEF SameButMarks
<1> HIDE DEF q, B
<1>5. tx.probe \in SUBSET [seq : SeqNo, replied : BOOLEAN]
      /\ tx' = Marked(tx, q, tx.probe)
  BY <1>2, <1>3 DEF TxType, Marked
<1>6. /\ SenderOK(tx', written, rx) /\ tx'.fin_requested = tx.fin_requested
      /\ tx'.phase = tx.phase
  BY <1>1, <1>4, <1>5, QueueMarks
<1>7. AppOK' /\ Sound({}, rx, written, tx.fin_requested)
  BY <1>3, SpentKeeps, RstSound DEF StreamInv
<1> QED
  BY <1>3, <1>6, <1>7, SenderStep

LEMMA HandoffInv ==
    ASSUME StreamInv, NEW c, Handoff(c)
    PROVE  StreamInv' /\ Hidden
<1> DEFINE p == tx.segs
           F(i) == IF p[i].local_pending /\ CellOf(p[i]) = c
                   THEN [p[i] EXCEPT !.local_pending = FALSE, !.handed_off = TRUE] ELSE p[i]
           q == [i \in 1..Len(p) |-> F(i)]
<1>1. SenderOK(tx, written, rx)
  BY DEF StreamInv
<1>2. /\ tx \in TxType /\ p \in Seq(SegType) /\ DOMAIN p = 1..Len(p)
      /\ \A i \in 1..Len(p) : p[i] \in SegType
  BY <1>1, Flight
<1>3. /\ UNCHANGED <<rx, written, got, spent>>
      /\ outbound' \cup net' \subseteq outbound \cup net \cup {}
      /\ tx' = [tx EXCEPT !.segs = q]
  <2>1. /\ UNCHANGED <<rx, written, got, spent>>
        /\ outbound' \cup net' \subseteq outbound \cup net \cup {}
    BY DEF Handoff, appVars
  <2>2. tx' = [tx EXCEPT !.segs = [i \in DOMAIN p |-> F(i)]]
    BY DEF Handoff
  <2> HIDE DEF F
  <2> QED
    BY <1>2, <2>1, <2>2
<1>4. SameButMarks(p, q)
  <2> HIDE DEF p
  <2>1. ASSUME NEW i \in 1..Len(p)
        PROVE  /\ q[i] \in SegType /\ q[i].seq = p[i].seq /\ q[i].data = p[i].data
               /\ q[i].is_fin = p[i].is_fin /\ q[i].sacked = p[i].sacked
    <3> DEFINE s == p[i]
    <3>1. s \in SegType /\ s.needs_resend \in BOOLEAN
      BY <1>2 DEF SegType
    <3>2. q[i] = s \/ q[i] = [s EXCEPT !.local_pending = FALSE, !.handed_off = TRUE]
      OBVIOUS
    <3> HIDE DEF s, q
    <3>3. CASE q[i] = s
      BY <3>1, <3>3 DEF s
    <3>4. CASE q[i] = [s EXCEPT !.local_pending = FALSE, !.handed_off = TRUE]
      <4>1. q[i] = [s EXCEPT !.needs_resend = s.needs_resend, !.local_pending = FALSE,
                             !.handed_off = TRUE]
        BY <3>1, <3>4 DEF SegType
      <4>2. /\ q[i] \in SegType /\ q[i].seq = s.seq /\ q[i].data = s.data
            /\ q[i].is_fin = s.is_fin /\ q[i].sacked = s.sacked
        BY ONLY <3>1, <4>1 DEF SegType
      <4> QED
        BY <4>2 DEF s
    <3> QED
      BY <3>2, <3>3, <3>4
  <2> HIDE DEF F
  <2>2. q \in [1..Len(p) -> SegType]
    BY <2>1
  <2> HIDE DEF q
  <2> QED
    BY <2>1, <2>2 DEF SameButMarks
<1> HIDE DEF q
<1>5. tx.probe \in SUBSET [seq : SeqNo, replied : BOOLEAN]
      /\ tx' = Marked(tx, q, tx.probe)
  BY <1>2, <1>3 DEF TxType, Marked
<1>6. /\ SenderOK(tx', written, rx) /\ tx'.fin_requested = tx.fin_requested
      /\ tx'.phase = tx.phase
  BY <1>1, <1>4, <1>5, QueueMarks
<1>7. AppOK' /\ Sound({}, rx, written, tx.fin_requested)
  BY <1>3, SpentKeeps, RstSound DEF StreamInv
<1> QED
  BY <1>3, <1>6, <1>7, SenderStep

LEMMA MinIn ==
    ASSUME NEW S \in SUBSET Nat, S # {}
    PROVE  Min(S) \in S /\ \A y \in S : Min(S) <= y
BY Least DEF Min

LEMMA RetransmitInv ==
    ASSUME StreamInv, Retransmit
    PROVE  StreamInv' /\ Hidden
<1> DEFINE p == tx.segs
           k == Min(Holes)
           s == p[k]
           e == [s EXCEPT !.needs_resend = FALSE, !.local_pending = TRUE]
           q == [i \in 1..Len(p) |-> IF i = k THEN e ELSE p[i]]
           P == {IF a.seq = s.seq THEN [a EXCEPT !.replied = FALSE] ELSE a : a \in tx.probe}
<1>1. SenderOK(tx, written, rx) /\ written \in 0..MaxBytes
      /\ RxOK(rx, got, written, tx.fin_requested)
  BY DEF StreamInv, AppOK
<1>2. /\ tx \in TxType /\ p \in Seq(SegType) /\ DOMAIN p = 1..Len(p) /\ Len(p) \in Nat
      /\ \A i \in 1..Len(p) : p[i] \in SegType
  BY <1>1, Flight
<1>3. k \in 1..Len(p)
  <2>1. Holes \in SUBSET Nat /\ Holes # {} /\ Holes \subseteq 1..Len(p)
    BY <1>2 DEF Holes, Retransmit
  <2> QED
    BY <2>1, MinIn
<1>4. /\ UNCHANGED <<rx, written, got, net, spent>> /\ outbound' = outbound \cup {CellOf(s)}
      /\ tx' = [tx EXCEPT !.segs[k].needs_resend = FALSE, !.segs[k].local_pending = TRUE,
                          !.probe = P]
  BY DEF Retransmit, appVars
<1> HIDE DEF k
<1>5. tx' = Marked(tx, q, P)
  <2>1. q = [p EXCEPT ![k] = e]
    BY <1>2, <1>3
  <2>2. tx' = [tx EXCEPT !.segs = [p EXCEPT ![k] = e], !.probe = P]
    <3> HIDE DEF P
    <3> QED
      BY <1>2, <1>3, <1>4 DEF TxType, SegType
  <2> QED
    BY <2>1, <2>2 DEF Marked
<1>6. P \in SUBSET [seq : SeqNo, replied : BOOLEAN]
  <2>1. tx.probe \subseteq [seq : SeqNo, replied : BOOLEAN]
    BY <1>2 DEF TxType
  <2>2. ASSUME NEW a \in [seq : SeqNo, replied : BOOLEAN]
        PROVE  [a EXCEPT !.replied = FALSE] \in [seq : SeqNo, replied : BOOLEAN]
    BY <2>2
  <2> HIDE DEF s
  <2> QED
    BY <2>1, <2>2
<1>7. SameButMarks(p, q)
  <2> HIDE DEF p
  <2>1. ASSUME NEW i \in 1..Len(p)
        PROVE  /\ q[i] \in SegType /\ q[i].seq = p[i].seq /\ q[i].data = p[i].data
               /\ q[i].is_fin = p[i].is_fin /\ q[i].sacked = p[i].sacked
    <3>1. s \in SegType /\ s.handed_off \in BOOLEAN /\ p[i] \in SegType
      BY <1>2, <1>3 DEF SegType
    <3>2. q[i] = IF i = k THEN e ELSE p[i]
      OBVIOUS
    <3>3. ASSUME i = k PROVE s = p[i] /\ q[i] = e
      BY <3>2, <3>3
    <3> HIDE DEF s, q
    <3>4. e = [s EXCEPT !.needs_resend = FALSE, !.local_pending = TRUE,
                        !.handed_off = s.handed_off]
      BY <3>1 DEF SegType
    <3> HIDE DEF e
    <3>5. /\ e \in SegType /\ e.seq = s.seq /\ e.data = s.data
          /\ e.is_fin = s.is_fin /\ e.sacked = s.sacked
      BY ONLY <3>1, <3>4 DEF SegType
    <3> QED
      BY <3>1, <3>2, <3>3, <3>5
  <2> HIDE DEF e
  <2>2. q \in [1..Len(p) -> SegType]
    BY <2>1
  <2> HIDE DEF q
  <2> QED
    BY <2>1, <2>2 DEF SameButMarks
<1> HIDE DEF q, P
<1>8. /\ SenderOK(tx', written, rx) /\ tx'.fin_requested = tx.fin_requested
      /\ tx'.phase = tx.phase
  BY <1>1, <1>5, <1>6, <1>7, QueueMarks
<1>9. AppOK'
  BY <1>4, SpentKeeps DEF StreamInv
<1>10. Sound({CellOf(s)}, rx, written, tx.fin_requested)
  BY <1>1, <1>3, SegmentSound
<1> QED
  BY <1>4, <1>8, <1>9, <1>10, SenderStep

LEMMA CreateNextSegmentInv ==
    ASSUME StreamInv, CreateNextSegment
    PROVE  StreamInv' /\ Hidden
<1> DEFINE m == Len(tx.segs)
<1>1. SenderOK(tx, written, rx) /\ written \in 0..MaxBytes
      /\ RxOK(rx, got, written, tx.fin_requested)
  BY DEF StreamInv, AppOK
<1>2. tx \in TxType /\ Sender(tx, written) /\ Timers(tx) /\ Agreement(tx, rx)
  BY <1>1 DEF SenderOK
<1>3. /\ UNCHANGED <<rx, written, got, net, spent>>
      /\ outbound' = outbound \cup {CellOf(Last(tx'.segs))}
  BY DEF CreateNextSegment, appVars
<1>4. /\ tx' \in TxType /\ Sender(tx', written) /\ Timers(tx')
      /\ tx'.snd_una = tx.snd_una /\ tx'.fin_requested = tx.fin_requested
      /\ tx'.phase = tx.phase /\ Len(tx'.segs) = m + 1
      /\ \A i \in 1..m : tx'.segs[i] = tx.segs[i]
      /\ ~tx'.segs[m + 1].sacked
  <2>1. ASSUME NEW n \in 1..Min({Mss, Room(tx), Len(tx.pending)}), tx' = WithDataSegment(tx, n)
        PROVE  <1>4!:
    <3> DEFINE S == {Mss, Room(tx), Len(tx.pending)}
    <3>1. Mss \in Nat /\ Len(tx.pending) \in Nat
      BY <1>2, StreamAssumption, LenProperties DEF TxType
    <3>2. Room(tx) \in Nat
      <4>1. tx.rwnd \in Nat /\ tx.snd_una \in SeqNo /\ tx.snd_nxt \in SeqNo
        BY <1>2, StreamAssumption DEF TxType
      <4>2. InFlight(tx) \in Nat
        BY <4>1, Moduli DEF InFlight, Minus, SeqNo
      <4> QED
        BY <4>1, <4>2 DEF Room, SaturatingSub
    <3>3. S \in SUBSET Nat /\ S # {}
      BY <3>1, <3>2
    <3>4. Min(S) \in Nat /\ Min(S) <= Len(tx.pending)
      BY <3>3, MinIn
    <3>5. n \in 1..Min(S)
      BY <2>1
    <3> HIDE DEF S
    <3>6. n \in 1..Len(tx.pending)
      BY <3>1, <3>4, <3>5
    <3> QED
      BY ONLY <1>1, <1>2, <2>1, <3>6, DataSegmentKeeps
  <2>2. ASSUME tx.pending = <<>>, tx.fin_requested, ~tx.fin_sent, tx' = WithFinSegment(tx)
        PROVE  <1>4!:
    BY ONLY <1>1, <1>2, <2>2, FinSegmentKeeps, ZenonT(60)
  <2> QED
    BY <2>1, <2>2 DEF CreateNextSegment
<1>5. m \in Nat
  BY <1>1, Flight
<1>6. Agreement(tx', rx)
  <2>1. ASSUME NEW i \in 1..Len(tx'.segs), tx'.segs[i].sacked
        PROVE  i \in 1..m /\ tx'.segs[i] = tx.segs[i]
    BY <1>4, <1>5, <2>1
  <2> QED
    BY <1>2, <1>4, <2>1 DEF Agreement
<1>7. SenderOK(tx', written, rx)
  BY <1>4, <1>6 DEF SenderOK
<1>8. Last(tx'.segs) = tx'.segs[m + 1] /\ m + 1 \in 1..Len(tx'.segs)
  BY <1>4, <1>5 DEF Last
<1>9. Sound({CellOf(tx'.segs[m + 1])}, rx, written, tx.fin_requested)
  BY <1>1, <1>4, <1>7, <1>8, SegmentSound
<1>10. AppOK'
  BY <1>3, SpentKeeps DEF StreamInv
<1>11. outbound' \cup net' \subseteq outbound \cup net \cup {CellOf(tx'.segs[m + 1])}
  BY <1>3, <1>8
<1> QED
  BY ONLY StreamInv, <1>3, <1>4, <1>7, <1>9, <1>10, <1>11, SenderStep

-----------------------------------------------------------------------------
(* The engines' other steps.                                               *)
LEMMA SendAckInv ==
    ASSUME StreamInv, SendAck
    PROVE  StreamInv' /\ Hidden
<1>1. written \in 0..MaxBytes /\ RxOK(rx, got, written, tx.fin_requested)
  BY DEF StreamInv, AppOK
<1>2. PICK sacks \in SUBSET DOMAIN rx.oo :
         net' = net \cup {AckCell(rx.rcv_nxt, AckWindow(rx), sacks)}
  BY DEF SendAck, Reported
<1> DEFINE c == AckCell(rx.rcv_nxt, AckWindow(rx), sacks)
<1>3. UNCHANGED <<tx, written, got, outbound, spent>> /\ rx' = MakeAck(rx)
  BY DEF SendAck, appVars, MakeAck
<1>4. Sound({c}, rx, written, tx.fin_requested)
  BY <1>1, AckSound, AckWindowBound
<1>5. /\ RxOK(rx', got, written, tx.fin_requested) /\ Grows(rx, rx')
      /\ rx'.phase = rx.phase /\ rx'.end = rx.end
  BY ONLY <1>1, <1>3, MakeAckKeeps
<1>6. AppOK'
  BY <1>3, SpentKeeps DEF StreamInv
<1>7. StreamInv'
  <2>1. /\ RxOK(rx', got', written, tx.fin_requested) /\ UNCHANGED <<tx, written>>
        /\ outbound' \cup net' \subseteq outbound \cup net \cup {c}
    BY <1>2, <1>3, <1>5
  <2> HIDE DEF c
  <2> QED
    BY ONLY StreamInv, <1>4, <1>5, <1>6, <2>1, ReceiverStep
<1>8. (Told(rx') <=> Told(rx)) /\ (Lost(rx') <=> Lost(rx))
  BY <1>5 DEF Told, Lost
<1> QED
  BY <1>3, <1>7, <1>8 DEF Hidden

LEMMA ExpiresKeeps ==
    ASSUME AppOK, written' = written, got' = got, Expires
    PROVE  AppOK'
BY SpentKeeps, Kinds DEF Expires

LEMMA RtoInv ==
    ASSUME StreamInv, Rto
    PROVE  StreamInv' /\ Hidden
<1> DEFINE t == [tx EXCEPT !.consec_rto = @ + 1]
           R == {RstCell("rx")}
<1>1. SenderOK(tx, written, rx) /\ written \in 0..MaxBytes
  BY DEF StreamInv, AppOK
<1>2. UNCHANGED <<rx, written, got, outbound>> /\ Expires /\ tx.phase # "closed"
  BY DEF Rto, appVars
<1>3. AppOK'
  BY <1>2, ExpiresKeeps DEF StreamInv
<1>4. Sound(R, rx, written, tx.fin_requested)
  BY RstSound
<1>5. /\ tx.consec_rto \in Nat /\ t.consec_rto = tx.consec_rto + 1 /\ t.segs = tx.segs
      /\ t.fin_requested = tx.fin_requested /\ t.phase = tx.phase /\ MaxRetransmits \in Nat
  BY <1>1, StreamAssumption DEF SenderOK, TxType
<1>6. CASE ProbeRefused /\ tx' = Resend(tx, {1}) /\ UNCHANGED net
  <2>1. /\ SenderOK(tx', written, rx) /\ tx'.fin_requested = tx.fin_requested
        /\ tx'.phase = tx.phase
    BY <1>1, <1>6, ResendKeeps
  <2>2. outbound' \cup net' \subseteq outbound \cup net \cup R
    BY <1>2, <1>6
  <2> QED
    BY ONLY StreamInv, <1>2, <1>3, <1>4, <2>1, <2>2, SenderStep
<1>7. CASE tx' = Closed(t) /\ net' \in {net, net \cup R}
  <2>1. SenderOK(tx', written, rx)
    BY <1>1, <1>2, <1>7, PlainSteps
  <2>2. tx'.fin_requested = tx.fin_requested /\ tx'.phase = "closed"
    <3>1. tx' = [t EXCEPT !.phase = "closed"] /\ tx \in TxType
      BY <1>1, <1>7 DEF SenderOK, Closed
    <3> QED
      BY <3>1 DEF TxType
  <2>3. outbound' \cup net' \subseteq outbound \cup net \cup R
    BY <1>2, <1>7
  <2> QED
    BY ONLY StreamInv, <1>2, <1>3, <1>4, <2>1, <2>2, <2>3, SenderStep
<1>8. ASSUME t.consec_rto <= MaxRetransmits PROVE SenderOK(t, written, rx)
  <2>1. tx.consec_rto < MaxRetransmits
    BY <1>5, <1>8
  <2> QED
    BY <1>1, <2>1, PlainSteps
<1> HIDE DEF t
<1>9. CASE t.consec_rto <= MaxRetransmits /\ Rewinds(t) /\ tx' = Requeued(t) /\ UNCHANGED net
  <2>1. PICK d \in 1..Len(t.segs) : ~t.segs[d].is_fin
    <3>1. DOMAIN t.segs = 1..Len(t.segs)
      BY <1>1, <1>5, Flight
    <3> QED
      BY <1>9, <3>1 DEF Rewinds
  <2>2. /\ SenderOK(tx', written, rx) /\ tx'.fin_requested = t.fin_requested
        /\ tx'.phase = t.phase
    BY ONLY <1>1, <1>8, <1>9, <2>1, RequeuedKeeps
  <2>3. outbound' \cup net' \subseteq outbound \cup net \cup R
    BY <1>2, <1>9
  <2>4. tx'.fin_requested = tx.fin_requested /\ tx'.phase = tx.phase
    BY <1>5, <2>2
  <2> QED
    BY ONLY StreamInv, <1>2, <1>3, <1>4, <2>2, <2>3, <2>4, SenderStep
<1>10. ASSUME t.consec_rto <= MaxRetransmits, NEW S, tx' = Resend(t, S), UNCHANGED net
       PROVE  StreamInv' /\ Hidden
  <2>1. /\ SenderOK(tx', written, rx) /\ tx'.fin_requested = t.fin_requested
        /\ tx'.phase = t.phase
    BY ONLY <1>8, <1>10, ResendKeeps
  <2>2. outbound' \cup net' \subseteq outbound \cup net \cup R
    BY <1>2, <1>10
  <2>3. tx'.fin_requested = tx.fin_requested /\ tx'.phase = tx.phase
    BY <1>5, <2>1
  <2> QED
    BY ONLY StreamInv, <1>2, <1>3, <1>4, <2>1, <2>2, <2>3, SenderStep
<1> QED
  BY <1>6, <1>7, <1>9, <1>10 DEF Rto, t

LEMMA RackTimerInv ==
    ASSUME StreamInv, RackTimer
    PROVE  StreamInv' /\ Hidden
<1>1. SenderOK(tx, written, rx)
  BY DEF StreamInv
<1>2. UNCHANGED <<rx, written, got, outbound, net>> /\ Spend("alarms")
  BY DEF RackTimer, Suspect, appVars
<1>3. PICK lost : tx' = Resend(tx, lost)
  BY DEF RackTimer, Suspect
<1>4. /\ SenderOK(tx', written, rx) /\ tx'.fin_requested = tx.fin_requested
      /\ tx'.phase = tx.phase
  BY ONLY <1>1, <1>3, ResendKeeps
<1>5. AppOK' /\ Sound({}, rx, written, tx.fin_requested)
  BY <1>2, SpentKeeps, Kinds, RstSound DEF StreamInv
<1>6. outbound' \cup net' \subseteq outbound \cup net \cup {}
  BY <1>2
<1> QED
  BY ONLY StreamInv, <1>2, <1>4, <1>5, <1>6, SenderStep

LEMMA PersistProbeInv ==
    ASSUME StreamInv, PersistProbe
    PROVE  StreamInv' /\ Hidden
<1>1. SenderOK(tx, written, rx)
  BY DEF StreamInv
<1>2. /\ UNCHANGED <<rx, written, got, outbound, net>> /\ Expires
      /\ ZeroWindowBlocked(tx) /\ tx' = [tx EXCEPT !.force_probe = TRUE]
  BY DEF PersistProbe, appVars
<1>3. SenderOK(tx', written, rx)
  BY <1>1, <1>2, PlainSteps
<1>4. tx'.fin_requested = tx.fin_requested /\ tx'.phase = tx.phase
  BY <1>1, <1>2 DEF SenderOK, TxType
<1>5. AppOK' /\ Sound({}, rx, written, tx.fin_requested)
  BY <1>2, ExpiresKeeps, RstSound DEF StreamInv
<1>6. outbound' \cup net' \subseteq outbound \cup net \cup {}
  BY <1>2
<1> QED
  BY ONLY StreamInv, <1>2, <1>3, <1>4, <1>5, <1>6, SenderStep

LEMMA HintProbeInv ==
    ASSUME StreamInv, HintProbe
    PROVE  StreamInv' /\ Hidden
<1>1. SenderOK(tx, written, rx)
  BY DEF StreamInv
<1>2. /\ UNCHANGED <<rx, written, got, outbound, net, spent>> /\ ZeroWindowBlocked(tx)
      /\ tx' = [tx EXCEPT !.force_probe = TRUE, !.hint_used = TRUE]
  BY DEF HintProbe, appVars
<1>3. SenderOK(tx', written, rx)
  BY <1>1, <1>2, PlainSteps
<1>4. tx'.fin_requested = tx.fin_requested /\ tx'.phase = tx.phase
  BY <1>1, <1>2 DEF SenderOK, TxType
<1>5. AppOK' /\ Sound({}, rx, written, tx.fin_requested)
  BY <1>2, RstSound DEF StreamInv, AppOK
<1>6. outbound' \cup net' \subseteq outbound \cup net \cup {}
  BY <1>2
<1> QED
  BY ONLY StreamInv, <1>2, <1>3, <1>4, <1>5, <1>6, SenderStep

-----------------------------------------------------------------------------
(* The carrier's steps.                                                    *)
LEMMA DeliverKeeps ==
    ASSUME StreamInv, written' = written, got' = got, NEW c, Deliver(c)
    PROVE  /\ AppOK' /\ c \in net /\ c \in CellType /\ net' \subseteq net
           /\ CellOK(c, rx, written, tx.fin_requested)
           /\ Sound({}, rx, written, tx.fin_requested)
<1>1. c \in net /\ net' \subseteq net
  BY DEF Deliver
<1>2. AppOK'
  BY SpentKeeps, Kinds DEF Deliver, StreamInv
<1> QED
  BY <1>1, <1>2, RstSound DEF StreamInv, Sound

LEMMA ReceiveDataInv ==
    ASSUME StreamInv, NEW c, ReceiveData(c)
    PROVE  StreamInv' /\ Hidden
<1>1. UNCHANGED <<tx, written, got, outbound>> /\ c.kind = "data" /\ Deliver(c)
  BY DEF ReceiveData, appVars
<1>2. /\ AppOK' /\ c \in CellType /\ net' \subseteq net
      /\ CellOK(c, rx, written, tx.fin_requested) /\ Sound({}, rx, written, tx.fin_requested)
  BY <1>1, DeliverKeeps
<1>3. /\ written \in 0..MaxBytes /\ got \in Seq(Byte) /\ RxOK(rx, got, written, tx.fin_requested)
  BY DEF StreamInv, AppOK
<1>4. /\ RxOK(rx', got, written, tx.fin_requested) /\ Grows(rx, rx') /\ rx'.phase = rx.phase
      /\ rx.phase # "established" => rx'.end = rx.end
  <2>1. PICK new \in Kept(rx, c) : rx' = OnData(rx, c, new)
    BY DEF ReceiveData
  <2> QED
    BY ONLY <1>1, <1>2, <1>3, <2>1, OnDataKeeps
<1>5. /\ RxOK(rx', got', written, tx.fin_requested) /\ UNCHANGED <<tx, written>>
      /\ outbound' \cup net' \subseteq outbound \cup net \cup {}
  BY <1>1, <1>2, <1>4
<1>6. StreamInv'
  BY ONLY StreamInv, <1>2, <1>4, <1>5, ReceiverStep
<1>7. (Told(rx') <=> Told(rx)) /\ (Lost(rx') <=> Lost(rx))
  BY <1>4 DEF Told, Lost
<1> QED
  BY <1>1, <1>6, <1>7 DEF Hidden

LEMMA ReceiveFinInv ==
    ASSUME StreamInv, NEW c, ReceiveFin(c)
    PROVE  StreamInv' /\ Hidden
<1>1. UNCHANGED <<tx, written, got, outbound>> /\ c.kind = "fin" /\ Deliver(c)
  BY DEF ReceiveFin, appVars
<1>2. /\ AppOK' /\ c \in CellType /\ net' \subseteq net
      /\ CellOK(c, rx, written, tx.fin_requested) /\ Sound({}, rx, written, tx.fin_requested)
  BY <1>1, DeliverKeeps
<1>3. /\ written \in 0..MaxBytes /\ got \in Seq(Byte) /\ RxOK(rx, got, written, tx.fin_requested)
  BY DEF StreamInv, AppOK
<1>4. /\ RxOK(rx', got, written, tx.fin_requested) /\ Grows(rx, rx') /\ rx'.phase = rx.phase
      /\ rx.phase # "established" => rx'.end = rx.end
  <2>1. rx' = OnPeerFin(rx, c)
    BY DEF ReceiveFin
  <2> QED
    BY ONLY <1>1, <1>2, <1>3, <2>1, OnPeerFinKeeps
<1>5. /\ RxOK(rx', got', written, tx.fin_requested) /\ UNCHANGED <<tx, written>>
      /\ outbound' \cup net' \subseteq outbound \cup net \cup {}
  BY <1>1, <1>2, <1>4
<1>6. StreamInv'
  BY ONLY StreamInv, <1>2, <1>4, <1>5, ReceiverStep
<1>7. (Told(rx') <=> Told(rx)) /\ (Lost(rx') <=> Lost(rx))
  BY <1>4 DEF Told, Lost
<1> QED
  BY <1>1, <1>6, <1>7 DEF Hidden

LEMMA ReceiveAckInv ==
    ASSUME StreamInv, NEW c, ReceiveAck(c)
    PROVE  StreamInv' /\ Hidden
<1> DEFINE t == OnAck(tx, c)
<1>1. UNCHANGED <<rx, written, got, outbound>> /\ c.kind = "ack" /\ c \in net /\ net' \subseteq net
  BY DEF ReceiveAck, appVars, Deliver
<1>2. spent' = spent \/ \E kind \in DOMAIN Bound : Spend(kind)
  BY Kinds DEF ReceiveAck, Deliver, Suspect
<1>3. AppOK' /\ Sound({}, rx, written, tx.fin_requested)
  BY <1>1, <1>2, SpentKeeps, RstSound DEF StreamInv
<1>4. /\ written \in 0..MaxBytes /\ RxOK(rx, got, written, tx.fin_requested)
      /\ SenderOK(tx, written, rx)
  BY DEF StreamInv, AppOK
<1>5. AckSays(c, rx, written)
  <2>1. c \in CellType /\ CellOK(c, rx, written, tx.fin_requested)
    BY <1>1 DEF StreamInv, Sound
  <2>2. c.ack \in SeqNo /\ c.win \in 0..RecvWindow
    BY <1>1, <2>1, CellFields
  <2>3. Offset(c.ack) <= Offset(rx.rcv_nxt) /\ \A n \in c.sacks : Holds(rx, n)
    BY <1>1, <2>1 DEF CellOK
  <2>4. Offset(rx.rcv_nxt) \in Nat /\ Offset(rx.rcv_nxt) <= written + 1 /\ Offset(c.ack) \in Nat
    BY <1>4, <2>2, ReceiverNear, OffsetCases
  <2>5. Offset(c.ack) <= written + 1
    BY <1>4, <2>3, <2>4
  <2> QED
    BY <2>2, <2>3, <2>5 DEF AckSays
<1>6. SenderOK(t, written, rx) /\ t.fin_requested = tx.fin_requested /\ t.phase = tx.phase
  BY ONLY <1>4, <1>5, OnAckKeeps
<1>7. /\ SenderOK(tx', written, rx) /\ tx'.fin_requested = tx.fin_requested
      /\ tx'.phase = tx.phase
  <2>1. tx' = t \/ \E lost : tx' = Resend(t, lost)
    BY DEF ReceiveAck, Suspect
  <2> HIDE DEF t
  <2>2. CASE tx' = t
    BY <1>6, <2>2
  <2>3. ASSUME NEW lost, tx' = Resend(t, lost)
        PROVE  /\ SenderOK(tx', written, rx) /\ tx'.fin_requested = tx.fin_requested
               /\ tx'.phase = tx.phase
    <3>1. /\ SenderOK(tx', written, rx) /\ tx'.fin_requested = t.fin_requested
          /\ tx'.phase = t.phase
      BY ONLY <1>6, <2>3, ResendKeeps
    <3> QED
      BY <1>6, <3>1
  <2> QED
    BY <2>1, <2>2, <2>3
<1>8. outbound' \cup net' \subseteq outbound \cup net \cup {}
  BY <1>1
<1> QED
  BY ONLY StreamInv, <1>1, <1>3, <1>7, <1>8, SenderStep

LEMMA ReceiveRstInv ==
    ASSUME StreamInv, NEW c, ReceiveRst(c)
    PROVE  StreamInv' /\ (Hidden \/ Breaks)
<1>1. UNCHANGED <<written, got, outbound>> /\ Deliver(c)
  BY DEF ReceiveRst, appVars
<1>2. AppOK' /\ net' \subseteq net /\ Sound({}, rx, written, tx.fin_requested)
  BY <1>1, DeliverKeeps
<1>3. outbound' \cup net' \subseteq outbound \cup net \cup {}
  BY <1>1, <1>2
<1>4. CASE rx' = OnRst(rx) /\ UNCHANGED tx
  <2>1. RxOK(rx, got, written, tx.fin_requested)
    BY DEF StreamInv
  <2>2. /\ RxOK(rx', got, written, tx.fin_requested) /\ Grows(rx, rx')
        /\ (Told(rx') <=> Told(rx)) /\ Lost(rx')
    BY ONLY <1>4, <2>1, OnRstKeeps
  <2>3. RxOK(rx', got', written, tx.fin_requested) /\ UNCHANGED <<tx, written>>
    BY <1>1, <1>4, <2>2
  <2>4. StreamInv'
    BY ONLY StreamInv, <1>2, <1>3, <2>2, <2>3, ReceiverStep
  <2> QED
    BY <1>1, <1>4, <2>2, <2>4 DEF Breaks
<1>5. CASE tx' = Closed(tx) /\ UNCHANGED rx
  <2>1. SenderOK(tx', written, rx)
    BY <1>5, PlainSteps DEF StreamInv
  <2>2. tx'.fin_requested = tx.fin_requested /\ tx'.phase = "closed"
    BY <1>5 DEF StreamInv, SenderOK, TxType, Closed
  <2>3. UNCHANGED <<rx, written, got>>
    BY <1>1, <1>5
  <2> QED
    BY ONLY StreamInv, <1>2, <1>3, <2>1, <2>2, <2>3, SenderStep
<1> QED
  BY <1>4, <1>5 DEF ReceiveRst

LEMMA LoseInv ==
    ASSUME StreamInv, NEW c, Lose(c)
    PROVE  StreamInv' /\ Hidden
<1>1. UNCHANGED <<tx, rx, written, got, outbound>> /\ net' \subseteq net /\ Spend("losses")
  BY DEF Lose, appVars
<1>2. AppOK' /\ Sound({}, rx, written, tx.fin_requested)
  BY <1>1, SpentKeeps, Kinds, RstSound DEF StreamInv
<1>3. SenderOK(tx', written, rx) /\ outbound' \cup net' \subseteq outbound \cup net \cup {}
      /\ tx'.fin_requested = tx.fin_requested /\ tx'.phase = tx.phase
  BY <1>1 DEF StreamInv
<1> QED
  BY ONLY StreamInv, <1>1, <1>2, <1>3, SenderStep

-----------------------------------------------------------------------------
(* The invariant.                                                          *)
LEMMA InitStreamInv ==
    ASSUME Init
    PROVE  StreamInv
<1>1. Iss \in SeqNo /\ RecvWindow \in Nat /\ MaxRetransmits \in Nat /\ MaxBytes \in Nat
  BY StreamAssumption
<1>2. Offset(Iss) = 0
  BY <1>1, OffsetCases
<1>3. AppOK
  <2>1. \A kind \in DOMAIN Bound : Bound[kind] \in Nat
    BY StreamAssumption DEF Bound
  <2> QED
    BY <1>1, <2>1 DEF Init, AppOK
<1>4. SenderOK(tx, written, rx)
  <2>1. /\ tx = TxInit /\ written = 0 /\ rx = RxInit
    BY DEF Init
  <2>2. TxInit \in TxType
    BY <1>1 DEF TxInit, TxType
  <2>3. Timers(TxInit)
    BY <1>1 DEF TxInit, Timers
  <2>4. Sender(TxInit, 0)
    <3>1. TxInit.pending = Run(Offset(TxInit.snd_nxt), SaturatingSub(0, Offset(TxInit.snd_nxt)))
      <4>1. TxInit.pending = <<>> /\ TxInit.snd_nxt = Iss
        BY DEF TxInit
      <4>2. SaturatingSub(0, 0) = 0
        BY DEF SaturatingSub
      <4> QED
        BY <1>2, <4>1, <4>2, RunEmpty
    <3>2. Len(TxInit.segs) = 0 /\ TxInit.snd_una = Iss /\ TxInit.snd_nxt = Iss
      BY DEF TxInit
    <3>3. \A i \in 1..Len(TxInit.segs) : SegmentOK(TxInit, TxInit.segs[i], 0)
      BY <3>2
    <3>4. Chain(TxInit)
      BY <1>2, <3>2 DEF Chain
    <3>5. Finishing(TxInit, 0)
      <4>1. ~TxInit.fin_sent /\ ~TxInit.fin_acked
        BY DEF TxInit
      <4> QED
        BY <1>2, <3>2, <4>1 DEF Finishing
    <3>6. Rewound(TxInit, 0)
      BY DEF TxInit, Rewound
    <3> QED
      BY <3>1, <3>3, <3>4, <3>5, <3>6 DEF Sender
  <2>5. Agreement(TxInit, RxInit)
    <3>1. /\ TxInit.snd_una = Iss /\ RxInit.rcv_nxt = Iss /\ Len(TxInit.segs) = 0
      BY DEF TxInit, RxInit
    <3> QED
      BY <1>2, <3>1 DEF Agreement
  <2> QED
    BY <2>1, <2>2, <2>3, <2>4, <2>5 DEF SenderOK
<1>5. RxOK(rx, got, written, tx.fin_requested)
  <2>1. rx = RxInit /\ got = <<>> /\ written = 0
    BY DEF Init
  <2>2. RxType(RxInit)
    BY <1>1 DEF RxType, RxInit
  <2>3. /\ RxInit.rcv_nxt = Iss /\ RxInit.eof = FALSE /\ RxInit.read_buf = <<>>
        /\ DOMAIN RxInit.oo = {} /\ RxInit.peer_fin = {}
    BY DEF RxInit
  <2>4. InOrder(RxInit) = 0
    BY <1>2, <2>3 DEF InOrder
  <2>5. <<>> \o <<>> = Run(0, 0)
    BY RunEmpty
  <2>6. Receiver(RxInit, <<>>, 0, tx.fin_requested) /\ Verdict(RxInit)
    BY <2>3, <2>4, <2>5 DEF Receiver, Verdict, RxInit
  <2> QED
    BY <2>1, <2>2, <2>6 DEF RxOK
<1>6. Sound(outbound \cup net, rx, written, tx.fin_requested)
  BY DEF Init, Sound
<1> QED
  BY <1>3, <1>4, <1>5, <1>6 DEF StreamInv

LEMMA NextStreamInv ==
    ASSUME StreamInv, Next
    PROVE  StreamInv' /\ (Wrote \/ Finished \/ Hidden \/ Breaks \/ Moves \/ Ends)
<1>1. CASE AppNext
  BY <1>1, WriteInv, FinishInv, ResetSenderInv, ResetReceiverInv, ReadInv DEF AppNext
<1>2. CASE EngineNext
  BY <1>2, DiscardReceivedInv, RetransmitInv, CreateNextSegmentInv, SendAckInv,
     RtoInv, RackTimerInv, PersistProbeInv, HintProbeInv, RetireInv, LingerOverInv
     DEF EngineNext
<1>3. CASE CarrierNext
  BY <1>3, HandoffInv, ReceiveDataInv, ReceiveFinInv, ReceiveAckInv, ReceiveRstInv,
     LoseInv DEF CarrierNext
<1> QED
  BY <1>1, <1>2, <1>3 DEF Next

LEMMA StutterStreamInv ==
    ASSUME StreamInv, UNCHANGED vars
    PROVE  StreamInv'
BY DEF vars, StreamInv, AppOK, SenderOK, RxOK, Sound, CellOK, Agreement, Holds

LEMMA StreamInvariant == Spec => []StreamInv
<1>1. Init => StreamInv
  BY InitStreamInv
<1>2. StreamInv /\ [Next]_vars => StreamInv'
  BY NextStreamInv, StutterStreamInv
<1> QED
  BY <1>1, <1>2, PTL DEF Spec

(* What the invariant says, property by property.                           *)
LEMMA InvTypes == StreamInv => TypeOK
<1> SUFFICES ASSUME StreamInv PROVE TypeOK
  OBVIOUS
<1>1. AppOK /\ tx \in TxType /\ RxType(rx) /\ outbound \cup net \subseteq CellType
  BY DEF StreamInv, SenderOK, RxOK, Sound
<1>2. rx.oo \in [DOMAIN rx.oo -> Byte]
  BY <1>1 DEF RxType
<1>3. rx.oo \in UNION {[S -> Byte] : S \in SUBSET DOMAIN rx.oo}
  BY <1>2
<1>4. rx \in [phase : {"established", "closed", "lingering", "gone"}, rcv_nxt : SeqNo, read_buf : Seq(Byte),
              oo : UNION {[S -> Byte] : S \in SUBSET DOMAIN rx.oo},
              peer_fin : SUBSET SeqNo, eof : BOOLEAN, end : {"open", "eof", "reset"},
              ack_pending : BOOLEAN, last_ack_window : 0..RecvWindow]
  BY <1>1, <1>3 DEF RxType
<1> QED
  BY <1>1, <1>4 DEF TypeOK, AppOK, TxType

LEMMA InvLedger == StreamInv => SenderLedger
<1> SUFFICES ASSUME StreamInv PROVE SenderLedger
  OBVIOUS
<1> DEFINE m == Len(tx.segs)
<1>1. tx \in TxType /\ Sender(tx, written) /\ written \in 0..MaxBytes
  BY DEF StreamInv, SenderOK, AppOK
<1>2. /\ Near(tx.snd_una) /\ Near(tx.snd_nxt) /\ m \in Nat /\ DOMAIN tx.segs = 1..m
      /\ tx.segs \in Seq(SegType)
  BY <1>1, SenderNear DEF TxType
<1>3. Chain(tx) /\ tx.pending = Run(Offset(tx.snd_nxt), SaturatingSub(written, Offset(tx.snd_nxt)))
  BY <1>1 DEF Sender
<1>4. ASSUME NEW i \in 1..m
      PROVE  /\ tx.segs[i].data = Run(Offset(tx.segs[i].seq), Len(tx.segs[i].data))
             /\ EndOf(tx.segs[i]) = IF i = m THEN tx.snd_nxt ELSE tx.segs[i + 1].seq
  <2> DEFINE s == tx.segs[i]
  <2>1. /\ SegmentOK(tx, s, written) /\ EndOf(s) \in SeqNo /\ Offset(EndOf(s)) = EndOffset(s)
    BY <1>1, SegmentNear DEF Near
  <2>2. s.data = Run(Offset(s.seq), Len(s.data))
    <3>1. CASE s.is_fin
      <4>1. s.data = <<>> /\ Len(s.data) = 0
        BY <2>1, <3>1 DEF SegmentOK
      <4> QED
        BY <4>1, RunEmpty
    <3>2. CASE ~s.is_fin
      BY <2>1, <3>2 DEF SegmentOK
    <3> QED
      BY <3>1, <3>2
  <2>3. ASSUME i = m PROVE EndOf(s) = tx.snd_nxt
    <3>1. EndOffset(s) = Offset(tx.snd_nxt)
      BY <1>3, <2>3 DEF Chain
    <3> QED
      BY <1>2, <2>1, <3>1, OffsetEq DEF Near
  <2>4. ASSUME i # m PROVE EndOf(s) = tx.segs[i + 1].seq
    <3>1. i + 1 \in 1..m /\ i < m
      BY <1>2, <2>4
    <3>2. EndOffset(s) = Offset(tx.segs[i + 1].seq)
      BY <1>3, <3>1 DEF Chain
    <3>3. tx.segs[i + 1].seq \in SeqNo
      BY <1>1, <3>1, SegmentNear DEF Near
    <3> QED
      BY <2>1, <3>2, <3>3, OffsetEq
  <2> QED
    BY <2>2, <2>3, <2>4
<1>5. ASSUME tx.segs = <<>> PROVE tx.snd_una = tx.snd_nxt
  BY <1>3, <1>5 DEF Chain
<1>6. ASSUME tx.segs # <<>>
      PROVE  Leq(tx.segs[1].seq, tx.snd_una) /\ Lt(tx.snd_una, EndOf(tx.segs[1]))
  <2>1. m > 0 /\ 1 \in 1..m
    BY <1>2, <1>6, EmptySeq
  <2>2. /\ Near(tx.segs[1].seq) /\ Near(EndOf(tx.segs[1]))
        /\ Offset(EndOf(tx.segs[1])) = EndOffset(tx.segs[1])
    BY <1>1, <2>1, SegmentNear
  <2>3. /\ Offset(tx.segs[1].seq) <= Offset(tx.snd_una)
        /\ Offset(tx.snd_una) < EndOffset(tx.segs[1])
    BY <1>3, <2>1 DEF Chain
  <2> QED
    BY <1>2, <2>2, <2>3, Order
<1> HIDE DEF m
<1>7. SenderLedger <=>
        /\ \A i \in 1..m :
              /\ tx.segs[i].data = Run(Offset(tx.segs[i].seq), Len(tx.segs[i].data))
              /\ EndOf(tx.segs[i]) = IF i = m THEN tx.snd_nxt ELSE tx.segs[i + 1].seq
        /\ IF tx.segs = <<>> THEN tx.snd_una = tx.snd_nxt
           ELSE Leq(tx.segs[1].seq, tx.snd_una) /\ Lt(tx.snd_una, EndOf(tx.segs[1]))
        /\ tx.pending = Run(Offset(tx.snd_nxt), SaturatingSub(written, Offset(tx.snd_nxt)))
  BY <1>2 DEF SenderLedger, Run, m
<1> QED
  BY <1>3, <1>4, <1>5, <1>6, <1>7

LEMMA InvSacked == StreamInv => SackedIsHeld
<1> SUFFICES ASSUME StreamInv PROVE SackedIsHeld
  OBVIOUS
<1>1. /\ tx \in TxType /\ Sender(tx, written) /\ Agreement(tx, rx) /\ written \in 0..MaxBytes
      /\ RxOK(rx, got, written, tx.fin_requested)
  BY DEF StreamInv, SenderOK, AppOK
<1>2. Near(rx.rcv_nxt) /\ DOMAIN tx.segs = 1..Len(tx.segs)
  BY <1>1, ReceiverNear, SenderNear
<1>3. ASSUME NEW i \in 1..Len(tx.segs), tx.segs[i].sacked,
             NEW n \in Numbers(tx.segs[i].seq, Span(tx.segs[i]))
      PROVE  n \in DOMAIN rx.oo \/ Lt(n, rx.rcv_nxt)
  <2> DEFINE s == tx.segs[i]
  <2>1. /\ s.seq \in SeqNo /\ Span(s) \in Nat /\ Offset(s.seq) \in Nat
        /\ EndOffset(s) <= written + 2
    BY <1>1, SegmentNear DEF Near
  <2>2. n \in Numbers(s.seq, Span(s))
    BY <1>3
  <2> HIDE DEF s
  <2>3. Offset(s.seq) + Span(s) <= MaxBytes + 2
    BY <1>1, <2>1, Moduli DEF EndOffset
  <2>4. n \in SeqNo /\ Offset(n) < Offset(s.seq) + Span(s)
    BY ONLY <2>1, <2>2, <2>3, NumbersOffset
  <2>5. Near(n)
    <3>1. Offset(n) \in Nat
      BY <2>4, OffsetCases
    <3> QED
      BY <2>1, <2>3, <2>4, <3>1, Moduli DEF Near
  <2>6. n \in DOMAIN rx.oo \/ Offset(n) < Offset(rx.rcv_nxt)
    BY <1>1, <1>3 DEF Agreement, Holds
  <2> QED
    BY <1>2, <2>5, <2>6, Order
<1> QED
  BY <1>1, <1>2, <1>3 DEF SackedIsHeld, Agreement

LEMMA InvProbe == StreamInv => ProbeOnlyFromIdle
<1> SUFFICES ASSUME StreamInv, tx.force_probe
             PROVE  tx.segs = <<>> /\ InFlight(tx) = 0 /\ tx.rwnd = 0
  BY DEF ProbeOnlyFromIdle
<1>1. tx \in TxType /\ Timers(tx) /\ Sender(tx, written)
  BY DEF StreamInv, SenderOK
<1>2. Len(tx.segs) = 0 /\ tx.rwnd = 0
  BY <1>1 DEF Timers
<1>3. tx.segs = <<>>
  BY <1>1, <1>2, EmptySeq DEF TxType
<1>4. tx.snd_una = tx.snd_nxt /\ tx.snd_nxt \in SeqNo
  BY <1>1, <1>2 DEF Sender, Chain, TxType
<1>5. Minus(tx.snd_nxt, tx.snd_nxt) = Offset(tx.snd_nxt) - Offset(tx.snd_nxt)
      /\ Offset(tx.snd_nxt) \in Nat
  BY <1>4, MinusOffset, OffsetCases
<1>6. InFlight(tx) = 0
  BY <1>4, <1>5 DEF InFlight
<1> QED
  BY <1>2, <1>3, <1>6

LEMMA InvComplete == StreamInv => CompleteMeansReceived
<1> SUFFICES ASSUME StreamInv, tx.fin_requested, IsSendComplete(tx)
             PROVE  rx.eof /\ got \o rx.read_buf = [i \in 1..written |-> i]
  BY DEF CompleteMeansReceived
<1>1. /\ tx \in TxType /\ Sender(tx, written) /\ Agreement(tx, rx) /\ written \in 0..MaxBytes
      /\ RxOK(rx, got, written, tx.fin_requested)
  BY DEF StreamInv, SenderOK, AppOK
<1>2. Offset(tx.snd_una) >= written + 1
  BY <1>1 DEF IsSendComplete, Sender, Finishing
<1>3. /\ Offset(tx.snd_una) <= Offset(rx.rcv_nxt) /\ Offset(tx.snd_una) \in Nat
      /\ Offset(rx.rcv_nxt) \in Nat
      /\ ~rx.eof => Offset(rx.rcv_nxt) <= written
      /\ rx.eof => InOrder(rx) = written
  BY <1>1, SenderNear, ReceiverNear DEF Agreement
<1>4. rx.eof /\ InOrder(rx) = written
  BY <1>1, <1>2, <1>3
<1>5. got \o rx.read_buf = Run(0, written)
  BY <1>1, <1>4 DEF RxOK, Receiver
<1>6. Run(0, written) = [i \in 1..written |-> i]
  BY <1>1 DEF Run
<1> QED
  BY <1>4, <1>5, <1>6

-----------------------------------------------------------------------------
(* The two applications.  The reader has a prefix of what was written, and   *)
(* all of it at the end of the engine's stream.                             *)
LEMMA Reading ==
    ASSUME NEW w \in 0..MaxBytes, NEW g \in Seq(Byte), NEW r, NEW f, RxOK(r, g, w, f)
    PROVE  /\ Len(g) \in 0..w /\ g = Run(0, Len(g))
           /\ r.eof => f
           /\ IsEof(r) => Len(g) = w
<1> DEFINE b == r.read_buf
           k == InOrder(r)
<1>1. /\ b \in Seq(Byte) /\ k \in 0..w /\ g \o b = Run(0, k)
      /\ r.eof => k = w /\ f
  BY DEF RxOK, RxType, Receiver
<1>2. w \in Nat /\ k \in Nat /\ Len(g) \in Nat /\ Len(b) \in Nat
  BY <1>1, LenProperties, Moduli
<1> HIDE DEF b, k
<1>3. /\ Len(g \o b) = Len(g) + Len(b)
      /\ \A i \in 1..Len(g) : (g \o b)[i] = g[i]
  BY ONLY g \in Seq(Byte), <1>1, <1>2, ConcatProperties
<1>4. Len(g) + Len(b) = k
  <2>1. Len(Run(0, k)) = k
    BY <1>2, RunSeq
  <2> QED
    BY <1>1, <1>3, <2>1
<1>5. g = Run(0, Len(g))
  <2>1. \A i \in 1..Len(g) : g[i] = 0 + i
    <3> TAKE i \in 1..Len(g)
    <3>1. i \in 1..k
      BY <1>2, <1>4
    <3>2. Run(0, k)[i] = 0 + i
      BY <1>2, <3>1, RunSeq
    <3> QED
      BY <1>1, <1>3, <3>2
  <2> QED
    BY <1>2, <2>1, IsRun
<1>6. ASSUME IsEof(r) PROVE Len(g) = w
  <2>1. r.eof /\ Len(b) = 0
    BY <1>6 DEF IsEof, b
  <2> QED
    BY <1>1, <1>2, <1>4, <2>1
<1> QED
  BY <1>1, <1>2, <1>4, <1>5, <1>6

Input(w) == [i \in 1..w |-> i]

LEMMA Inputs ==
    ASSUME NEW w \in Nat
    PROVE  /\ Input(w) = Run(0, w) /\ Input(w) \in Seq(Nat) /\ Len(Input(w)) = w
           /\ \A n \in 0..w : SubSeq(Input(w), 1, n) = Run(0, n)
           /\ Append(Input(w), w + 1) = Input(w + 1)
<1>1. Input(w) = Run(0, w)
  BY DEF Input, Run
<1>2. Input(w) \in Seq(Nat) /\ Len(Input(w)) = w /\ \A i \in 1..w : Input(w)[i] = i
  BY <1>1, RunSeq DEF Input
<1>3. ASSUME NEW n \in 0..w PROVE SubSeq(Input(w), 1, n) = Run(0, n)
  BY <1>1, RunPrefix
<1>4. Append(Input(w), w + 1) = Input(w + 1)
  <2> DEFINE a == Append(Input(w), w + 1)
  <2>1. /\ a \in Seq(Nat) /\ Len(a) = w + 1 /\ a[w + 1] = w + 1
        /\ \A i \in 1..w : a[i] = i
    BY <1>2, AppendProperties
  <2> HIDE DEF a
  <2>2. \A i \in 1..(w + 1) : a[i] = 0 + i
    BY <2>1
  <2>3. a = Run(0, w + 1)
    BY <2>1, <2>2, IsRun
  <2>4. Input(w + 1) = Run(0, w + 1)
    BY DEF Input, Run
  <2> QED
    BY <2>3, <2>4 DEF a
<1> QED
  BY <1>1, <1>2, <1>3, <1>4

LEMMA StepIsStreamStep ==
    ASSUME StreamInv, StreamInv', Wrote \/ Finished \/ Hidden \/ Breaks \/ Moves \/ Ends
    PROVE  [Stream!StreamNext]_(Stream!streamVars)
<1> DEFINE w == written
           ended == rx.phase \in {"lingering", "gone"} /\ rx.end = "eof"
           dead == tx.phase = "closed"
           broken == rx.phase \in {"closed", "gone"}
<1>1. /\ w \in 0..MaxBytes /\ w \in Nat /\ got \in Seq(Byte)
      /\ RxOK(rx, got, w, tx.fin_requested) /\ tx.fin_requested \in BOOLEAN
      /\ w' \in Nat /\ got' \in Seq(Byte) /\ w' \in 0..MaxBytes
      /\ RxOK(rx', got', w', tx'.fin_requested) /\ tx'.fin_requested \in BOOLEAN
  BY Moduli DEF StreamInv, AppOK, SenderOK, TxType
<1>2. CASE Wrote
  <2>1. /\ w' = w + 1 /\ w < MaxBytes /\ tx.fin_requested = FALSE
        /\ tx'.fin_requested = FALSE /\ dead = FALSE /\ dead' = FALSE
        /\ got' = got /\ rx' = rx
    BY <1>1, <1>2 DEF Wrote
  <2>2. w + 1 \in Byte
    BY <1>1, <2>1, Moduli DEF Byte
  <2>3. Append(Input(w), w + 1) = Input(w')
    BY <1>1, <2>1, Inputs
  <2>4. Stream!WriteBytes
    BY <2>1, <2>2, <2>3 DEF Stream!WriteBytes, Input
  <2> QED
    BY <2>4 DEF Stream!StreamNext
<1>3. CASE Finished
  <2>1. /\ w' = w /\ tx'.fin_requested = TRUE /\ dead' = dead
        /\ got' = got /\ rx' = rx
    BY <1>1, <1>3 DEF Finished
  <2>2. Stream!CloseWrite
    BY <2>1 DEF Stream!CloseWrite
  <2> QED
    BY <2>2 DEF Stream!StreamNext
<1>4. CASE Hidden
  <2>1. /\ w' = w /\ tx'.fin_requested = tx.fin_requested
        /\ dead' = dead \/ dead' = TRUE
        /\ got' = got /\ ended' = ended /\ broken' = broken
    BY <1>4 DEF Hidden, Told, Lost
  <2>2. CASE dead' = dead
    BY <2>1, <2>2 DEF Stream!streamVars
  <2>3. CASE dead' = TRUE
    BY <2>1, <2>3 DEF Stream!StreamNext, Stream!Die
  <2> QED
    BY <2>1, <2>2, <2>3
<1>5. CASE Breaks
  <2>1. w' = w /\ tx' = tx /\ got' = got /\ ended' = ended /\ broken' = TRUE
    BY <1>5 DEF Breaks, Told, Lost
  <2> QED
    BY <2>1 DEF Stream!StreamNext, Stream!Break
<1>6. CASE Moves
  <2>1. /\ w' = w /\ tx' = tx /\ Len(got) <= Len(got')
        /\ ended = FALSE /\ ended' = FALSE /\ broken' = broken
    BY <1>6 DEF Moves, Told, Lost
  <2>2. Len(got') \in 0..w /\ got' = Run(0, Len(got'))
    <3>1. RxOK(rx', got', w, tx.fin_requested)
      BY <1>1, <2>1
    <3> QED
      BY ONLY <1>1, <3>1, Reading
  <2>3. Len(Input(w)) = w /\ SubSeq(Input(w), 1, Len(got')) = got'
    BY <1>1, <2>2, Inputs
  <2>4. Len(got') \in Len(got)..Len(Input(w))
    <3>1. /\ Len(got) \in Nat /\ Len(got') \in Nat /\ Len(got) <= Len(got')
          /\ Len(got') <= w
      BY <1>1, <2>1, <2>2, LenProperties
    <3>2. Len(got') \in Len(got)..w
      BY <1>1, <3>1
    <3> QED
      BY <2>3, <3>2
  <2>5. Stream!ReadBytes
    BY <2>1, <2>3, <2>4 DEF Stream!ReadBytes, Input
  <2> QED
    BY <2>5 DEF Stream!StreamNext
<1>7. CASE Ends
  <2>1. /\ w' = w /\ tx' = tx /\ got' = got /\ ended = FALSE /\ broken' = broken
        /\ ended' => rx.eof /\ (IsEof(rx) \/ broken)
    BY <1>7 DEF Ends, Told, Lost
  <2>2. CASE ~ended'
    <3>1. ended' = ended
      BY <2>1, <2>2
    <3> QED
      BY <2>1, <3>1 DEF Stream!streamVars
  <2>3. CASE ended'
    <3>1. /\ rx.eof => tx.fin_requested
          /\ IsEof(rx) => Len(got) = w
          /\ got = Run(0, Len(got))
      BY <1>1, Reading
    <3>2. Input(w) = Run(0, w)
      BY <1>1, Inputs
    <3>3. tx.fin_requested /\ (got = Input(w) \/ broken)
      BY <2>1, <2>3, <3>1, <3>2
    <3>4. ended' = TRUE
      BY <2>3
    <3>5. Stream!End
      BY <2>1, <3>3, <3>4 DEF Stream!End, Input
    <3> QED
      BY <3>5 DEF Stream!StreamNext
  <2> QED
    BY <2>2, <2>3
<1> QED
  BY <1>2, <1>3, <1>4, <1>5, <1>6, <1>7

LEMMA StutterIsStreamStutter ==
    ASSUME UNCHANGED vars
    PROVE  UNCHANGED Stream!streamVars
BY DEF vars, Stream!streamVars

LEMMA InitIsStreamInit ==
    ASSUME Init
    PROVE  Stream!StreamInit
<1>1. Input(0) = <<>>
  BY RunEmpty DEF Input, Run
<1> QED
  BY <1>1 DEF Init, TxInit, RxInit, Input, Stream!StreamInit

-----------------------------------------------------------------------------
(* Theorems.                                                               *)

(* Every field of both engines keeps its type: no sequence number leaves the *)
(* modulus, and the timeouts in a row stop at one past max_retransmits.     *)
THEOREM StreamTypes == Spec => []TypeOK
BY StreamInvariant, InvTypes, PTL

(* Partial ACKs, rewinds (requeue_unsacked_flight_for_rto) and late ACKs of    *)
(* rewound flights (trim_rewound_pending_after_ack) never lose, repeat or     *)
(* renumber an unacknowledged byte.                                         *)
THEOREM LedgerIsExact == Spec => []SenderLedger
BY StreamInvariant, InvLedger, PTL

(* A segment the sender leaves out of every repair because it was SACKed is    *)
(* one the receiver has, however old the ACK that said so.                  *)
THEOREM SacksAreTrue == Spec => []SackedIsHeld
BY StreamInvariant, InvSacked, PTL

(* create_next_segment's probe room, window - inflight, never goes below 0.   *)
THEOREM ProbesFromIdle == Spec => []ProbeOnlyFromIdle
BY StreamInvariant, InvProbe, PTL

(* is_send_complete after finish means that the peer has every byte and the   *)
(* end of the stream.                                                      *)
THEOREM CompleteIsTrue == Spec => []CompleteMeansReceived
BY StreamInvariant, InvComplete, PTL

(* One direction of an onion stream is a byte stream, whatever the carrier    *)
(* delays, reorders, repeats and loses: the reader gets the written bytes in *)
(* order, each once.  pull reports a clean end only after finish, and after  *)
(* the last byte unless the reader's engine was reset before it drained.    *)
THEOREM StreamImplementsByteStream == Spec => ByteStreamSpec
<1>1. Init => Stream!StreamInit
  BY InitIsStreamInit
<1>2. StreamInv /\ StreamInv' /\ [Next]_vars => [Stream!StreamNext]_(Stream!streamVars)
  BY NextStreamInv, StepIsStreamStep, StutterIsStreamStutter
<1> QED
  BY <1>1, <1>2, StreamInvariant, PTL DEF Spec, ByteStreamSpec, Stream!StreamSpec
=============================================================================
