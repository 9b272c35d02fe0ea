------------------------- MODULE MailboxDrainProofs -------------------------
(***************************************************************************)
(* The store's indexes and totals stay exact and its quotas bound what it   *)
(* holds, for every set of ids and deposits, every quota, any number of      *)
(* concurrent puts, any crashes and any database of the earlier build.      *)
(* The relay with its endpoints and the device that drains it is a store as  *)
(* Mailbox specifies it, so the theorems on the store hold of it; and no      *)
(* mail leaves it early, for every set of boxes and mail, every budget of a   *)
(* reply and every number of faults.                                       *)
(***************************************************************************)
EXTENDS MailboxDrain, FiniteSetTheorems, TLAPS


\* What the rows K of a table weigh, and the rows of a receiver or a sender.
Weight(f, K) == Cardinality(BilledBytes(f, K))
OfReceiver(K, r) == {k \in K : k[1] = r}
OfSender(f, K, s) == {k \in K : f[k].sender = s}

(* The totals no restart rebuilds are exact at any time; of the sender      *)
(* totals this leaves out the one of no sender, which an earlier build used. *)
LastingExact ==
    /\ global_bytes = Weight(blobs, DOMAIN blobs)
    /\ \A r \in Receiver : receiver_bytes[r] = Weight(blobs, OfReceiver(DOMAIN blobs, r))
    /\ \A s \in Sender \ {NoSender} :
          sender_bytes[s] = Weight(blobs, OfSender(blobs, IdentifiedHeld, s))

(* The totals Mailbox::open rebuilds or drops are exact while it runs.      *)
RebuiltExact ==
    up => /\ \A r \in Receiver : anon_receiver_bytes[r] = Weight(blobs, OfReceiver(AnonHeld, r))
          /\ sender_bytes[NoSender] = 0

(* Nothing without a sender is in the index of the identified deposits.     *)
IdentifiedNamed == \A k \in IdentifiedHeld : blobs[k].sender # NoSender

(* The inductive invariant: types, exact indexes, exact totals of each kind, *)
(* the quotas, and that the bytes are finitely many, without which a         *)
(* cardinality says nothing.                                               *)
MailboxInv ==
    /\ MailboxTypeOK /\ IndexesExact
    /\ IsFiniteSet(BilledBytes(blobs, DOMAIN blobs))
    /\ LastingExact /\ RebuiltExact /\ IdentifiedNamed
    /\ QuotasHold

-----------------------------------------------------------------------------
(* The weight of rows.                                                     *)

(* A row weighs its payload and the overhead.                              *)
LEMMA WeightOne ==
    ASSUME NEW f, NEW k, f[k].len \in Nat
    PROVE  /\ IsFiniteSet(BilledBytes(f, {k}))
           /\ Weight(f, {k}) = billable_bytes(f[k].len)
<1> DEFINE n == billable_bytes(f[k].len)
<1>1. n \in Nat
  BY MailboxLimitAssumption DEF billable_bytes
<1>2. BilledBytes(f, {k}) = {k} \X (1..n)
  BY DEF BilledBytes
<1> HIDE DEF n
<1>3. IsFiniteSet({k}) /\ Cardinality({k}) = 1
  BY FS_Singleton
<1>4. IsFiniteSet(1..n) /\ Cardinality(1..n) = n
  BY <1>1, FS_Interval
<1>5. /\ IsFiniteSet({k} \X (1..n))
      /\ Cardinality({k} \X (1..n)) = Cardinality({k}) * Cardinality(1..n)
  BY <1>3, <1>4, FS_Product
<1>6. Cardinality({k} \X (1..n)) = n
  BY <1>1, <1>3, <1>4, <1>5
<1> QED
  BY <1>2, <1>5, <1>6 DEF n, Weight

(* Disjoint groups of rows add up.                                         *)
LEMMA WeightUnion ==
    ASSUME NEW f, NEW S, NEW T, S \cap T = {},
           IsFiniteSet(BilledBytes(f, S)), IsFiniteSet(BilledBytes(f, T))
    PROVE  /\ IsFiniteSet(BilledBytes(f, S \cup T))
           /\ Weight(f, S) \in Nat /\ Weight(f, T) \in Nat
           /\ Weight(f, S \cup T) = Weight(f, S) + Weight(f, T)
<1> DEFINE A == BilledBytes(f, S)
           B == BilledBytes(f, T)
<1>1. BilledBytes(f, S \cup T) = A \cup B
  BY DEF BilledBytes
<1>2. A \cap B = {}
  BY DEF BilledBytes
<1> HIDE DEF A, B
<1>3. IsFiniteSet(A) /\ IsFiniteSet(B)
  BY DEF A, B
<1>4. Cardinality(A) \in Nat /\ Cardinality(B) \in Nat
  BY <1>3, FS_CardinalityType
<1>5. /\ IsFiniteSet(A \cup B)
      /\ Cardinality(A \cup B) = Cardinality(A) + Cardinality(B) - Cardinality(A \cap B)
  BY <1>3, FS_Union
<1>6. Cardinality(A \cap B) = 0
  BY <1>2, FS_EmptySet
<1>7. Cardinality(A \cup B) = Cardinality(A) + Cardinality(B)
  BY <1>4, <1>5, <1>6
<1> QED
  BY <1>1, <1>4, <1>5, <1>7 DEF A, B, Weight

(* So a group within a finite one is lighter, and the rest is the difference: *)
(* the saturating refund is exact.                                         *)
LEMMA WeightRest ==
    ASSUME NEW f, NEW D, IsFiniteSet(BilledBytes(f, D)), NEW C \in SUBSET D, NEW R
    PROVE  /\ IsFiniteSet(BilledBytes(f, C))
           /\ IsFiniteSet(BilledBytes(f, C \ R))
           /\ Weight(f, C) \in Nat /\ Weight(f, C \ R) \in Nat
           /\ Weight(f, C \ R) <= Weight(f, C)
           /\ SaturatingSub(Weight(f, C), Weight(f, C \cap R)) = Weight(f, C \ R)
<1> DEFINE P == C \cap R
           Q == C \ R
<1>1. BilledBytes(f, P) \subseteq BilledBytes(f, D) /\ BilledBytes(f, Q) \subseteq BilledBytes(f, D)
  BY DEF BilledBytes
<1>2. IsFiniteSet(BilledBytes(f, P)) /\ IsFiniteSet(BilledBytes(f, Q))
  BY <1>1, FS_Subset
<1>3. P \cap Q = {} /\ P \cup Q = C
  OBVIOUS
<1> HIDE DEF P, Q
<1>4. /\ IsFiniteSet(BilledBytes(f, P \cup Q))
      /\ Weight(f, P) \in Nat /\ Weight(f, Q) \in Nat
      /\ Weight(f, P \cup Q) = Weight(f, P) + Weight(f, Q)
  BY ONLY <1>2, <1>3, WeightUnion
<1>5. /\ IsFiniteSet(BilledBytes(f, C))
      /\ Weight(f, P) \in Nat /\ Weight(f, Q) \in Nat
      /\ Weight(f, C) = Weight(f, P) + Weight(f, Q)
  BY ONLY <1>3, <1>4
<1>6. /\ Weight(f, C) \in Nat /\ Weight(f, Q) <= Weight(f, C)
      /\ SaturatingSub(Weight(f, C), Weight(f, P)) = Weight(f, Q)
  BY <1>5 DEF SaturatingSub
<1> QED
  BY <1>2, <1>5, <1>6 DEF P, Q

(* Only the lengths of the rows matter to their weight.                    *)
LEMMA WeightAgree ==
    ASSUME NEW f, NEW g, NEW S, \A k \in S : f[k].len = g[k].len
    PROVE  BilledBytes(f, S) = BilledBytes(g, S) /\ Weight(f, S) = Weight(g, S)
BY DEF BilledBytes, Weight

(* No rows weigh nothing.                                                  *)
LEMMA WeightNone == \A f : Weight(f, {}) = 0
<1>1. \A f : BilledBytes(f, {}) = {}
  BY DEF BilledBytes
<1> QED
  BY <1>1, FS_EmptySet DEF Weight

(* The index entries E of a table name exactly the rows whose key is in E.  *)
LEMMA RowsOfKeys ==
    ASSUME NEW f, DOMAIN f \subseteq BlobKey, NEW E,
           E \subseteq {<<f[k].deposited_at, k[1], k[2]>> : k \in DOMAIN f}
    PROVE  {RowOf(e) : e \in E} \cap DOMAIN f
             = {k \in DOMAIN f : <<f[k].deposited_at, k[1], k[2]>> \in E}
<1>1. \A k \in DOMAIN f : RowOf(<<f[k].deposited_at, k[1], k[2]>>) = k
  BY DEF RowOf, BlobKey
<1> QED
  BY <1>1

-----------------------------------------------------------------------------
(* Before a step.                                                          *)

(* While the indexes are exact the rows are split into the two classes, and  *)
(* so are the rows of any entries.                                         *)
LEMMA Classes ==
    ASSUME MailboxTypeOK, IndexesExact,
           NEW E \in SUBSET (eviction_index \cup eviction_index_anon)
    PROVE  /\ Rows(E) = {k \in DOMAIN blobs : EvictionKey(k) \in E}
           /\ AnonHeld = {k \in DOMAIN blobs : EvictionKey(k) \in eviction_index_anon}
           /\ IdentifiedHeld = {k \in DOMAIN blobs : EvictionKey(k) \in eviction_index}
           /\ AnonRows(E) = AnonHeld \cap Rows(E)
           /\ Rows(E) \ AnonRows(E) = IdentifiedHeld \cap Rows(E)
<1>1. DOMAIN blobs \subseteq BlobKey
  BY DEF MailboxTypeOK
<1>2. ASSUME NEW F \in SUBSET (eviction_index \cup eviction_index_anon)
      PROVE  Rows(F) = {k \in DOMAIN blobs : EvictionKey(k) \in F}
  <2>1. F \subseteq {<<blobs[k].deposited_at, k[1], k[2]>> : k \in DOMAIN blobs}
    BY DEF IndexesExact, EvictionKey
  <2> QED
    BY <1>1, <2>1, RowsOfKeys DEF Rows, EvictionKey
<1>3. /\ Rows(E) = {k \in DOMAIN blobs : EvictionKey(k) \in E}
      /\ AnonHeld = {k \in DOMAIN blobs : EvictionKey(k) \in eviction_index_anon}
      /\ IdentifiedHeld = {k \in DOMAIN blobs : EvictionKey(k) \in eviction_index}
      /\ AnonRows(E) = {k \in DOMAIN blobs : EvictionKey(k) \in E \cap eviction_index_anon}
  BY <1>2 DEF AnonHeld, IdentifiedHeld, AnonRows
<1>4. AnonRows(E) = AnonHeld \cap Rows(E)
  BY <1>3
<1>5. \A k \in DOMAIN blobs :
         EvictionKey(k) \in eviction_index <=> EvictionKey(k) \notin eviction_index_anon
  BY DEF IndexesExact
<1>6. Rows(E) \ AnonRows(E) = IdentifiedHeld \cap Rows(E)
  BY <1>3, <1>5
<1> QED
  BY <1>3, <1>4, <1>6

(* The invariant makes the whole ledger exact while the relay runs.         *)
LEMMA InvLedger ==
    ASSUME MailboxInv, up
    PROVE  /\ global_bytes = Weight(blobs, DOMAIN blobs)
           /\ \A r \in Receiver :
                 /\ receiver_bytes[r] = Weight(blobs, OfReceiver(DOMAIN blobs, r))
                 /\ anon_receiver_bytes[r] = Weight(blobs, OfReceiver(AnonHeld, r))
           /\ \A s \in Sender : sender_bytes[s] = Weight(blobs, OfSender(blobs, IdentifiedHeld, s))
<1>1. OfSender(blobs, IdentifiedHeld, NoSender) = {}
  BY DEF MailboxInv, IdentifiedNamed, OfSender
<1>2. sender_bytes[NoSender] = Weight(blobs, OfSender(blobs, IdentifiedHeld, NoSender))
  BY <1>1, WeightNone DEF MailboxInv, RebuiltExact
<1> QED
  BY <1>2 DEF MailboxInv, LastingExact, RebuiltExact

(* What the refunds leave of the four totals is what is left in the store.  *)
LEMMA WithoutExact ==
    ASSUME MailboxInv, up, NEW E \in SUBSET (eviction_index \cup eviction_index_anon)
    PROVE  /\ GlobalBytesWithout(E) = Weight(blobs, DOMAIN blobs \ Rows(E))
           /\ \A r \in Receiver :
                 /\ ReceiverBytesWithout(E)[r] = Weight(blobs, OfReceiver(DOMAIN blobs, r) \ Rows(E))
                 /\ AnonBytesWithout(E)[r] = Weight(blobs, OfReceiver(AnonHeld, r) \ Rows(E))
           /\ \A s \in Sender :
                 SenderBytesWithout(E)[s] = Weight(blobs, OfSender(blobs, IdentifiedHeld, s) \ Rows(E))
<1> DEFINE D == DOMAIN blobs
           R == Rows(E)
<1>1. /\ AnonRows(E) = AnonHeld \cap R /\ R \ AnonRows(E) = IdentifiedHeld \cap R
      /\ R \subseteq D /\ AnonHeld \subseteq D /\ IdentifiedHeld \subseteq D
  BY Classes DEF MailboxInv, Rows, AnonHeld, IdentifiedHeld
<1>2. \A C \in SUBSET D :
         SaturatingSub(Weight(blobs, C), Weight(blobs, C \cap R)) = Weight(blobs, C \ R)
  BY WeightRest DEF MailboxInv
<1>3. GlobalBytesWithout(E) = Weight(blobs, D \ R)
  <2>1. D \cap R = R
    BY <1>1
  <2> QED
    BY <1>2, <2>1, InvLedger DEF GlobalBytesWithout, Billed, Weight
<1>4. ASSUME NEW r \in Receiver
      PROVE  /\ ReceiverBytesWithout(E)[r] = Weight(blobs, OfReceiver(D, r) \ R)
             /\ AnonBytesWithout(E)[r] = Weight(blobs, OfReceiver(AnonHeld, r) \ R)
  <2>1. /\ OfReceiver(D, r) \in SUBSET D /\ OfReceiver(AnonHeld, r) \in SUBSET D
        /\ {k \in R : k[1] = r} = OfReceiver(D, r) \cap R
        /\ {k \in AnonRows(E) : k[1] = r} = OfReceiver(AnonHeld, r) \cap R
    BY <1>1 DEF OfReceiver
  <2>2. /\ ReceiverBytesWithout(E)[r] =
             SaturatingSub(receiver_bytes[r], Weight(blobs, {k \in R : k[1] = r}))
        /\ AnonBytesWithout(E)[r] =
             SaturatingSub(anon_receiver_bytes[r], Weight(blobs, {k \in AnonRows(E) : k[1] = r}))
    BY DEF ReceiverBytesWithout, AnonBytesWithout, Billed, Weight
  <2>3. /\ receiver_bytes[r] = Weight(blobs, OfReceiver(D, r))
        /\ anon_receiver_bytes[r] = Weight(blobs, OfReceiver(AnonHeld, r))
    BY InvLedger
  <2> HIDE DEF R, D
  <2> QED
    BY <1>2, <2>1, <2>2, <2>3
<1>5. ASSUME NEW s \in Sender
      PROVE  SenderBytesWithout(E)[s] = Weight(blobs, OfSender(blobs, IdentifiedHeld, s) \ R)
  <2>1. /\ OfSender(blobs, IdentifiedHeld, s) \in SUBSET D
        /\ {k \in R \ AnonRows(E) : blobs[k].sender = s} = OfSender(blobs, IdentifiedHeld, s) \cap R
    BY <1>1 DEF OfSender
  <2>2. SenderBytesWithout(E)[s] =
          SaturatingSub(sender_bytes[s], Weight(blobs, {k \in R \ AnonRows(E) : blobs[k].sender = s}))
    BY DEF SenderBytesWithout, Billed, Weight
  <2>3. sender_bytes[s] = Weight(blobs, OfSender(blobs, IdentifiedHeld, s))
    BY InvLedger
  <2> HIDE DEF R, D
  <2> QED
    BY <1>2, <2>1, <2>2, <2>3
<1> QED
  BY <1>3, <1>4, <1>5

-----------------------------------------------------------------------------
(* After a step.                                                           *)

(* The parts of the invariant, in terms of weights, give it back.          *)
LEMMA Reassemble ==
    ASSUME MailboxTypeOK', IndexesExact', IsFiniteSet(BilledBytes(blobs', DOMAIN blobs')),
           IdentifiedNamed', up',
           global_bytes' = Weight(blobs', DOMAIN blobs'),
           global_bytes' <= QuotaGlobal,
           \A r \in Receiver :
              /\ receiver_bytes'[r] = Weight(blobs', OfReceiver(DOMAIN blobs', r))
              /\ receiver_bytes'[r] <= QuotaReceiver
              /\ anon_receiver_bytes'[r] = Weight(blobs', OfReceiver(AnonHeld', r))
              /\ anon_receiver_bytes'[r] <= anon_receiver_cap \/ anon_receiver_bytes'[r] <= LegacyBilled(r),
           \A s \in Sender :
              /\ sender_bytes'[s] = Weight(blobs', OfSender(blobs', IdentifiedHeld', s))
              /\ sender_bytes'[s] <= QuotaSender
    PROVE  MailboxInv'
<1>1. OfSender(blobs', IdentifiedHeld', NoSender) = {}
  BY DEF IdentifiedNamed, OfSender
<1>2. sender_bytes'[NoSender] = 0
  BY <1>1, WeightNone, IdAssumption
<1>3. LastingExact' /\ RebuiltExact'
  BY <1>2 DEF LastingExact, RebuiltExact
<1>4. QuotasHold'
  <2>1. Billed(DOMAIN blobs)' <= QuotaGlobal
    BY DEF Billed, Weight
  <2>2. ASSUME NEW r \in Receiver
        PROVE  /\ Billed({k \in DOMAIN blobs : k[1] = r})' <= QuotaReceiver
               /\ \/ Billed({k \in AnonHeld : k[1] = r})' <= anon_receiver_cap
                  \/ Billed({k \in AnonHeld : k[1] = r})' <= LegacyBilled(r)
    BY DEF Billed, Weight, OfReceiver
  <2>3. ASSUME NEW s \in Sender
        PROVE  Billed({k \in IdentifiedHeld : blobs[k].sender = s})' <= QuotaSender
    BY DEF Billed, Weight, OfSender
  <2> QED
    BY <2>1, <2>2, <2>3 DEF QuotasHold
<1> QED
  BY <1>3, <1>4 DEF MailboxInv

(* The quotas in terms of weights.                                         *)
LEMMA InvQuotas ==
    ASSUME MailboxInv
    PROVE  /\ Weight(blobs, DOMAIN blobs) <= QuotaGlobal
           /\ \A r \in Receiver :
                 /\ Weight(blobs, OfReceiver(DOMAIN blobs, r)) <= QuotaReceiver
                 /\ \/ Weight(blobs, OfReceiver(AnonHeld, r)) <= anon_receiver_cap
                    \/ Weight(blobs, OfReceiver(AnonHeld, r)) <= LegacyBilled(r)
           /\ \A s \in Sender : Weight(blobs, OfSender(blobs, IdentifiedHeld, s)) <= QuotaSender
BY DEF MailboxInv, QuotasHold, Billed, Weight, OfReceiver, OfSender

(* The bytes of the earlier build's deposits are finitely many.            *)
LEMMA LegacyFinite ==
    ASSUME NEW P \in SUBSET Legacy
    PROVE  LET held == UNION {{d} \X (1..billable_bytes(d.len)) : d \in P}
           IN  IsFiniteSet(held) /\ Cardinality(held) \in Nat
<1> DEFINE bytes(d) == {d} \X (1..billable_bytes(d.len))
           each == {bytes(d) : d \in P}
           f == [d \in P |-> bytes(d)]
<1>1. IsFiniteSet(P)
  BY LegacyAssumption, FS_Subset
<1>2. f \in Surjection(P, each)
  BY DEF Surjection
<1>3. IsFiniteSet(each)
  BY ONLY <1>1, <1>2, FS_Surjection
<1>4. ASSUME NEW d \in P
      PROVE  IsFiniteSet(bytes(d))
  <2>1. d.len \in Nat
    BY DepositAssumption DEF Offer
  <2>2. billable_bytes(d.len) \in Nat
    BY <2>1, MailboxLimitAssumption DEF billable_bytes
  <2>3. \A n \in Nat : IsFiniteSet(1..n)
    BY FS_Interval
  <2>4. IsFiniteSet(1..billable_bytes(d.len)) /\ IsFiniteSet({d})
    BY <2>2, <2>3, FS_Singleton
  <2> QED
    BY <2>4, FS_Product
<1>5. \A T \in each : IsFiniteSet(T)
  BY <1>4
<1>6. IsFiniteSet(UNION each)
  BY ONLY <1>3, <1>5, FS_UNION
<1> QED
  BY <1>6, FS_CardinalityType

(* The caps of a receiver are numbers.                                     *)
LEMMA CapTypes ==
    ASSUME NEW r
    PROVE  LegacyBilled(r) \in Nat /\ anon_receiver_cap \in Nat /\ QuotaReceiver \in Nat
<1>1. LegacyBilled(r) \in Nat
  <2> DEFINE P == {x \in Legacy : x.receiver = r /\ x.sender = NoSender}
  <2>1. P \in SUBSET Legacy
    OBVIOUS
  <2> HIDE DEF P
  <2>2. Cardinality(UNION {{d} \X (1..billable_bytes(d.len)) : d \in P}) \in Nat
    BY <2>1, LegacyFinite
  <2> QED
    BY <2>2 DEF LegacyBilled, P
<1>2. anon_receiver_cap \in Nat /\ QuotaReceiver \in Nat
  BY MailboxLimitAssumption DEF anon_receiver_cap
<1> QED
  BY <1>1, <1>2

(* Removing the rows of any index entries keeps the invariant: an ack of     *)
(* either class and a TTL prune of both pools.                             *)
LEMMA RemoveKeepsInv ==
    ASSUME MailboxInv, up, NEW E \in SUBSET (eviction_index \cup eviction_index_anon),
           Remove(E), UNCHANGED <<now, up, putting>>
    PROVE  MailboxInv'
<1> DEFINE D == DOMAIN blobs
           R == Rows(E)
<1>1. /\ MailboxTypeOK /\ IndexesExact /\ IsFiniteSet(BilledBytes(blobs, D)) /\ IdentifiedNamed
      /\ D \subseteq BlobKey /\ AnonHeld \subseteq D /\ IdentifiedHeld \subseteq D
  BY DEF MailboxInv, MailboxTypeOK, AnonHeld, IdentifiedHeld, Rows
<1>2. /\ DOMAIN blobs' = D \ R /\ \A k \in D \ R : blobs'[k] = blobs[k]
  BY DEF Remove
<1>3. /\ R = {k \in D : EvictionKey(k) \in E}
      /\ AnonHeld = {k \in D : EvictionKey(k) \in eviction_index_anon}
      /\ IdentifiedHeld = {k \in D : EvictionKey(k) \in eviction_index}
  BY <1>1, Classes
<1>4. \A k \in D \ R : EvictionKey(k)' = EvictionKey(k)
  BY <1>2 DEF EvictionKey
<1>5. IndexesExact'
  <2>1. eviction_index' = eviction_index \ E /\ eviction_index_anon' = eviction_index_anon \ E
    BY DEF Remove
  <2>2. (eviction_index \cup eviction_index_anon) \ E = {EvictionKey(k) : k \in D \ R}
    BY <1>1, <1>3 DEF IndexesExact
  <2>3. {EvictionKey(k) : k \in DOMAIN blobs}' = {EvictionKey(k) : k \in D \ R}
    BY <1>2, <1>4
  <2> QED
    BY <1>1, <2>1, <2>2, <2>3 DEF IndexesExact
<1>6. AnonHeld' = AnonHeld \ R /\ IdentifiedHeld' = IdentifiedHeld \ R
  <2> DEFINE key(k) == <<blobs'[k].deposited_at, k[1], k[2]>>
  <2>1. /\ eviction_index' \subseteq {key(k) : k \in DOMAIN blobs'}
        /\ eviction_index_anon' \subseteq {key(k) : k \in DOMAIN blobs'}
        /\ DOMAIN blobs' \subseteq BlobKey
    BY <1>1, <1>2, <1>5 DEF IndexesExact, EvictionKey
  <2>2. /\ AnonHeld' = {k \in DOMAIN blobs' : key(k) \in eviction_index_anon'}
        /\ IdentifiedHeld' = {k \in DOMAIN blobs' : key(k) \in eviction_index'}
    BY <2>1, RowsOfKeys DEF AnonHeld, IdentifiedHeld, Rows
  <2>3. \A k \in D \ R : key(k) = EvictionKey(k) /\ EvictionKey(k) \notin E
    BY <1>3, <1>4 DEF EvictionKey
  <2>4. eviction_index' = eviction_index \ E /\ eviction_index_anon' = eviction_index_anon \ E
    BY DEF Remove
  <2> HIDE DEF key, D, R
  <2> QED
    BY <1>2, <1>3, <2>2, <2>3, <2>4 DEF D
<1> DEFINE W(C) == Weight(blobs, C \ R)
<1>7. \A C \in SUBSET D :
         /\ Weight(blobs', C \ R) = Weight(blobs, C \ R)
         /\ W(C) \in Nat /\ Weight(blobs, C) \in Nat /\ W(C) <= Weight(blobs, C)
  <2> TAKE C \in SUBSET D
  <2>1. \A k \in C \ R : blobs'[k].len = blobs[k].len
    BY <1>2
  <2>2. Weight(blobs', C \ R) = Weight(blobs, C \ R)
    BY ONLY <2>1, WeightAgree
  <2>3. /\ Weight(blobs, C) \in Nat /\ Weight(blobs, C \ R) \in Nat
        /\ Weight(blobs, C \ R) <= Weight(blobs, C)
    BY ONLY <1>1, C \in SUBSET D, WeightRest
  <2> QED
    BY <2>2, <2>3
<1>8. IsFiniteSet(BilledBytes(blobs', DOMAIN blobs'))
  <2>1. IsFiniteSet(BilledBytes(blobs, D \ R))
    BY <1>1, WeightRest
  <2>2. BilledBytes(blobs', D \ R) = BilledBytes(blobs, D \ R)
    BY <1>2, WeightAgree
  <2> QED
    BY <1>2, <2>1, <2>2
<1>9. /\ global_bytes' = W(D)
      /\ \A r \in Receiver : /\ receiver_bytes'[r] = W(OfReceiver(D, r))
                             /\ anon_receiver_bytes'[r] = W(OfReceiver(AnonHeld, r))
      /\ \A s \in Sender : sender_bytes'[s] = W(OfSender(blobs, IdentifiedHeld, s))
  BY WithoutExact DEF Remove
<1>10. /\ \A r \in Receiver : /\ OfReceiver(D, r) \in SUBSET D
                              /\ OfReceiver(AnonHeld, r) \in SUBSET D
       /\ \A s \in Sender : OfSender(blobs, IdentifiedHeld, s) \in SUBSET D
  BY <1>1 DEF OfReceiver, OfSender
<1>11. MailboxTypeOK'
  <2>1. \E K \in SUBSET BlobKey : blobs' \in [K -> Record]
    <3>1. \A k \in D : blobs[k] \in Record
      BY <1>1 DEF MailboxTypeOK
    <3> QED
      BY <1>1, <3>1 DEF Remove
  <2>2. /\ receiver_bytes' \in [Receiver -> Nat] /\ anon_receiver_bytes' \in [Receiver -> Nat]
        /\ sender_bytes' \in [Sender -> Nat] /\ global_bytes' \in Nat
    <3>1. /\ receiver_bytes' = [r \in Receiver |-> receiver_bytes'[r]]
          /\ anon_receiver_bytes' = [r \in Receiver |-> anon_receiver_bytes'[r]]
          /\ sender_bytes' = [s \in Sender |-> sender_bytes'[s]]
      BY DEF Remove, ReceiverBytesWithout, AnonBytesWithout, SenderBytesWithout
    <3> HIDE DEF W
    <3> QED
      BY <1>7, <1>9, <1>10, <3>1
  <2> QED
    BY <1>1, <2>1, <2>2 DEF MailboxTypeOK, Remove
<1>12. IdentifiedNamed'
  BY <1>1, <1>2, <1>6 DEF IdentifiedNamed
<1>13. W(D) = Weight(blobs', DOMAIN blobs') /\ W(D) <= QuotaGlobal
  BY <1>2, <1>7, InvQuotas, MailboxLimitAssumption
<1>14. ASSUME NEW r \in Receiver
       PROVE  /\ W(OfReceiver(D, r)) = Weight(blobs', OfReceiver(DOMAIN blobs', r))
              /\ W(OfReceiver(D, r)) <= QuotaReceiver
              /\ W(OfReceiver(AnonHeld, r)) = Weight(blobs', OfReceiver(AnonHeld', r))
              /\ \/ W(OfReceiver(AnonHeld, r)) <= anon_receiver_cap
                 \/ W(OfReceiver(AnonHeld, r)) <= LegacyBilled(r)
  <2>1. /\ OfReceiver(DOMAIN blobs', r) = OfReceiver(D, r) \ R
        /\ OfReceiver(AnonHeld', r) = OfReceiver(AnonHeld, r) \ R
    BY <1>2, <1>6 DEF OfReceiver
  <2>2. LegacyBilled(r) \in Nat /\ anon_receiver_cap \in Nat /\ QuotaReceiver \in Nat
    BY CapTypes
  <2>3. /\ Weight(blobs, OfReceiver(D, r)) <= QuotaReceiver
        /\ \/ Weight(blobs, OfReceiver(AnonHeld, r)) <= anon_receiver_cap
           \/ Weight(blobs, OfReceiver(AnonHeld, r)) <= LegacyBilled(r)
    BY InvQuotas
  <2>4. \A C \in {OfReceiver(D, r), OfReceiver(AnonHeld, r)} :
           /\ W(C) = Weight(blobs', C \ R)
           /\ W(C) \in Nat /\ Weight(blobs, C) \in Nat /\ W(C) <= Weight(blobs, C)
    BY <1>7, <1>10
  <2> HIDE DEF W, D, R
  <2> QED
    BY <2>1, <2>2, <2>3, <2>4
<1>15. ASSUME NEW s \in Sender
       PROVE  /\ W(OfSender(blobs, IdentifiedHeld, s)) = Weight(blobs', OfSender(blobs', IdentifiedHeld', s))
              /\ W(OfSender(blobs, IdentifiedHeld, s)) <= QuotaSender
  <2> DEFINE C == OfSender(blobs, IdentifiedHeld, s)
  <2>1. OfSender(blobs', IdentifiedHeld', s) = C \ R
    BY <1>1, <1>2, <1>6 DEF OfSender
  <2>2. Weight(blobs, C) <= QuotaSender /\ C \in SUBSET D
    BY <1>10, InvQuotas
  <2>3. /\ W(C) = Weight(blobs', C \ R)
        /\ W(C) \in Nat /\ Weight(blobs, C) \in Nat /\ W(C) <= Weight(blobs, C)
    BY <1>7, <2>2
  <2> HIDE DEF W, C, R
  <2>4. W(C) <= QuotaSender
    BY <2>2, <2>3, MailboxLimitAssumption
  <2> QED
    BY <2>1, <2>3, <2>4 DEF C
<1> HIDE DEF W
<1> QED
  BY <1>5, <1>8, <1>9, <1>11, <1>12, <1>13, <1>14, <1>15, Reassemble

(* Storing a deposit in place of evicted blobs keeps the invariant, whichever *)
(* class and whichever receivers and senders the victims are of.            *)
LEMMA StoreKeepsInv ==
    ASSUME MailboxInv, up, NEW d \in Offer, NEW at \in 0..MaxClock,
           NEW V \in SUBSET (eviction_index \cup eviction_index_anon),
           ~Refused(d), FitsWithout(V, d), Store(at, d, V),
           UNCHANGED <<now, up>>, putting' \subseteq putting
    PROVE  MailboxInv'
<1> DEFINE D == DOMAIN blobs
           R == Rows(V)
           row == RowFor(d)
           size == billable_bytes(d.len)
           new == <<at, d.receiver, d.content_id>>
<1>1. /\ MailboxTypeOK /\ IndexesExact /\ IsFiniteSet(BilledBytes(blobs, D)) /\ IdentifiedNamed
      /\ D \subseteq BlobKey /\ AnonHeld \subseteq D /\ IdentifiedHeld \subseteq D
  BY DEF MailboxInv, MailboxTypeOK, AnonHeld, IdentifiedHeld, Rows
<1>2. /\ DOMAIN blobs' = (D \ R) \cup {row} /\ \A k \in D \ R : blobs'[k] = blobs[k]
      /\ blobs'[row] = [sender |-> d.sender, deposited_at |-> at, len |-> d.len]
      /\ row \notin D
  BY DEF Store, Refused
<1>2a. /\ d.receiver \in Receiver /\ d.content_id \in ContentId /\ d.sender \in Sender
       /\ d.len \in Nat \ {0} /\ size \in Nat
       /\ row = <<d.receiver, d.content_id>> /\ row \in BlobKey
  BY MailboxLimitAssumption DEF Offer, RowFor, BlobKey, billable_bytes
<1>3. /\ R = {k \in D : EvictionKey(k) \in V}
      /\ AnonHeld = {k \in D : EvictionKey(k) \in eviction_index_anon}
      /\ IdentifiedHeld = {k \in D : EvictionKey(k) \in eviction_index}
  BY <1>1, Classes
<1>4. /\ \A k \in D \ R : EvictionKey(k)' = EvictionKey(k)
      /\ EvictionKey(row)' = new
  BY <1>2, <1>2a DEF EvictionKey
<1>4a. \A k \in D : EvictionKey(k) # new
  <2> SUFFICES ASSUME NEW k \in D, EvictionKey(k) = new
               PROVE  FALSE
    OBVIOUS
  <2>1. k = <<d.receiver, d.content_id>>
    BY <1>1 DEF EvictionKey, BlobKey
  <2> QED
    BY <1>2, <1>2a, <2>1
<1>4b. /\ eviction_index' = (eviction_index \ V) \cup (IF IsAnonymous(d) THEN {} ELSE {new})
       /\ eviction_index_anon' = (eviction_index_anon \ V) \cup (IF IsAnonymous(d) THEN {new} ELSE {})
  BY DEF Store
<1>5. IndexesExact'
  <2>1. eviction_index' \cup eviction_index_anon'
          = ((eviction_index \cup eviction_index_anon) \ V) \cup {new}
    BY <1>4b
  <2>2. (eviction_index \cup eviction_index_anon) \ V = {EvictionKey(k) : k \in D \ R}
    BY <1>1, <1>3 DEF IndexesExact
  <2>3. {EvictionKey(k) : k \in DOMAIN blobs}' = {EvictionKey(k) : k \in D \ R} \cup {new}
    BY <1>2, <1>4
  <2>4. eviction_index \cap eviction_index_anon = {} /\ new \notin eviction_index \cup eviction_index_anon
    BY <1>1, <1>4a DEF IndexesExact
  <2>5. eviction_index' \cap eviction_index_anon' = {}
    BY <1>4b, <2>4
  <2> QED
    BY <2>1, <2>2, <2>3, <2>5 DEF IndexesExact
<1>6. /\ AnonHeld' = (AnonHeld \ R) \cup (IF IsAnonymous(d) THEN {row} ELSE {})
      /\ IdentifiedHeld' = (IdentifiedHeld \ R) \cup (IF IsAnonymous(d) THEN {} ELSE {row})
  <2> DEFINE key(k) == <<blobs'[k].deposited_at, k[1], k[2]>>
  <2>1. /\ eviction_index' \subseteq {key(k) : k \in DOMAIN blobs'}
        /\ eviction_index_anon' \subseteq {key(k) : k \in DOMAIN blobs'}
        /\ DOMAIN blobs' \subseteq BlobKey
    BY <1>1, <1>2, <1>2a, <1>5 DEF IndexesExact, EvictionKey
  <2>2. /\ AnonHeld' = {k \in DOMAIN blobs' : key(k) \in eviction_index_anon'}
        /\ IdentifiedHeld' = {k \in DOMAIN blobs' : key(k) \in eviction_index'}
    BY <2>1, RowsOfKeys DEF AnonHeld, IdentifiedHeld, Rows
  <2>3. \A k \in D \ R : key(k) = EvictionKey(k) /\ EvictionKey(k) \notin V /\ EvictionKey(k) # new
    BY <1>3, <1>4, <1>4a DEF EvictionKey
  <2>4. key(row) = new
    BY <1>4 DEF EvictionKey
  <2>5. new \notin eviction_index \cup eviction_index_anon
    BY <1>1, <1>4a DEF IndexesExact
  <2> HIDE DEF key, R, row, new
  <2> QED
    BY <1>2, <1>3, <1>4b, <2>2, <2>3, <2>4, <2>5
<1> DEFINE W(C) == Weight(blobs, C \ R)
<1>7. \A C \in SUBSET D :
         /\ Weight(blobs', C \ R) = W(C)
         /\ Weight(blobs', (C \ R) \cup {row}) = W(C) + size
         /\ IsFiniteSet(BilledBytes(blobs', (C \ R) \cup {row}))
         /\ W(C) \in Nat /\ Weight(blobs, C) \in Nat /\ W(C) <= Weight(blobs, C)
  <2> TAKE C \in SUBSET D
  <2>1. \A k \in C \ R : blobs'[k].len = blobs[k].len
    BY <1>2
  <2>2. /\ Weight(blobs', C \ R) = Weight(blobs, C \ R)
        /\ BilledBytes(blobs', C \ R) = BilledBytes(blobs, C \ R)
    BY ONLY <2>1, WeightAgree
  <2>3. /\ Weight(blobs, C) \in Nat /\ Weight(blobs, C \ R) \in Nat
        /\ Weight(blobs, C \ R) <= Weight(blobs, C)
        /\ IsFiniteSet(BilledBytes(blobs, C \ R))
    BY ONLY <1>1, C \in SUBSET D, WeightRest
  <2>4. IsFiniteSet(BilledBytes(blobs', {row})) /\ Weight(blobs', {row}) = size
    <3>1. blobs'[row].len = d.len /\ d.len \in Nat
      BY <1>2, <1>2a
    <3> HIDE DEF row
    <3>2. /\ IsFiniteSet(BilledBytes(blobs', {row}))
          /\ Weight(blobs', {row}) = billable_bytes(blobs'[row].len)
      BY <3>1, WeightOne
    <3> QED
      BY <3>1, <3>2
  <2>5. (C \ R) \cap {row} = {}
    BY <1>2
  <2>6. /\ IsFiniteSet(BilledBytes(blobs', (C \ R) \cup {row}))
        /\ Weight(blobs', (C \ R) \cup {row}) = Weight(blobs', C \ R) + Weight(blobs', {row})
    <3> HIDE DEF R, row
    <3>1. IsFiniteSet(BilledBytes(blobs', C \ R))
      BY <2>2, <2>3
    <3> QED
      BY ONLY <2>4, <2>5, <3>1, WeightUnion
  <2> QED
    BY <2>2, <2>3, <2>4, <2>6
<1>8. IsFiniteSet(BilledBytes(blobs', DOMAIN blobs'))
  BY <1>2, <1>7
<1>9. /\ GlobalBytesWithout(V) = W(D)
      /\ \A r \in Receiver : /\ ReceiverBytesWithout(V)[r] = W(OfReceiver(D, r))
                             /\ AnonBytesWithout(V)[r] = W(OfReceiver(AnonHeld, r))
      /\ \A s \in Sender : SenderBytesWithout(V)[s] = W(OfSender(blobs, IdentifiedHeld, s))
  BY WithoutExact
<1>10. /\ \A r \in Receiver : /\ OfReceiver(D, r) \in SUBSET D
                              /\ OfReceiver(AnonHeld, r) \in SUBSET D
       /\ \A s \in Sender : OfSender(blobs, IdentifiedHeld, s) \in SUBSET D
  BY <1>1 DEF OfReceiver, OfSender
\* the totals the step writes, total by total
<1>11. /\ global_bytes' = W(D) + size
       /\ \A r \in Receiver :
             /\ receiver_bytes'[r] = W(OfReceiver(D, r)) + (IF r = d.receiver THEN size ELSE 0)
             /\ anon_receiver_bytes'[r] =
                  W(OfReceiver(AnonHeld, r)) + (IF IsAnonymous(d) /\ r = d.receiver THEN size ELSE 0)
       /\ \A s \in Sender :
             sender_bytes'[s] = W(OfSender(blobs, IdentifiedHeld, s))
                                  + (IF ~IsAnonymous(d) /\ s = d.sender THEN size ELSE 0)
  <2>1. /\ \A r \in Receiver : W(OfReceiver(D, r)) \in Nat /\ W(OfReceiver(AnonHeld, r)) \in Nat
        /\ \A s \in Sender : W(OfSender(blobs, IdentifiedHeld, s)) \in Nat
    BY <1>7, <1>10
  <2>2. /\ DOMAIN ReceiverBytesWithout(V) = Receiver /\ DOMAIN AnonBytesWithout(V) = Receiver
        /\ DOMAIN SenderBytesWithout(V) = Sender
    BY DEF ReceiverBytesWithout, AnonBytesWithout, SenderBytesWithout
  <2>3. global_bytes' = W(D) + size
    BY <1>9 DEF Store
  <2>4. ASSUME NEW r \in Receiver
        PROVE  receiver_bytes'[r] = W(OfReceiver(D, r)) + (IF r = d.receiver THEN size ELSE 0)
    <3>1. receiver_bytes' = [ReceiverBytesWithout(V) EXCEPT ![d.receiver] = @ + size]
      BY DEF Store
    <3> HIDE DEF W, size, D
    <3> QED
      BY <1>2a, <1>9, <2>1, <2>2, <3>1
  <2>5. ASSUME NEW r \in Receiver
        PROVE  anon_receiver_bytes'[r] =
                 W(OfReceiver(AnonHeld, r)) + (IF IsAnonymous(d) /\ r = d.receiver THEN size ELSE 0)
    <3>1. anon_receiver_bytes' =
             IF IsAnonymous(d)
             THEN [AnonBytesWithout(V) EXCEPT ![d.receiver] = @ + size] ELSE AnonBytesWithout(V)
      BY DEF Store
    <3> HIDE DEF W, size, D
    <3> QED
      BY <1>2a, <1>9, <2>1, <2>2, <3>1
  <2>6. ASSUME NEW s \in Sender
        PROVE  sender_bytes'[s] = W(OfSender(blobs, IdentifiedHeld, s))
                                    + (IF ~IsAnonymous(d) /\ s = d.sender THEN size ELSE 0)
    <3>1. sender_bytes' =
             IF IsAnonymous(d)
             THEN SenderBytesWithout(V) ELSE [SenderBytesWithout(V) EXCEPT ![d.sender] = @ + size]
      BY DEF Store
    <3> HIDE DEF W, size, D
    <3> QED
      BY <1>2a, <1>9, <2>1, <2>2, <3>1
  <2> QED
    BY <2>3, <2>4, <2>5, <2>6
<1>12. MailboxTypeOK'
  <2>1. \E K \in SUBSET BlobKey : blobs' \in [K -> Record]
    <3>1. \A k \in D : blobs[k] \in Record
      BY <1>1 DEF MailboxTypeOK
    <3>2. \A k \in DOMAIN blobs' : blobs'[k] \in Record
      BY <1>2, <1>2a, <3>1 DEF Record
    <3>3. DOMAIN blobs' \subseteq BlobKey
      BY <1>1, <1>2, <1>2a
    <3>4. blobs' = [k \in DOMAIN blobs' |-> blobs'[k]]
      BY DEF Store
    <3> QED
      BY <3>2, <3>3, <3>4
  <2>2. /\ receiver_bytes' \in [Receiver -> Nat] /\ anon_receiver_bytes' \in [Receiver -> Nat]
        /\ sender_bytes' \in [Sender -> Nat] /\ global_bytes' \in Nat
    <3>1. /\ receiver_bytes' = [r \in Receiver |-> receiver_bytes'[r]]
          /\ anon_receiver_bytes' = [r \in Receiver |-> anon_receiver_bytes'[r]]
          /\ sender_bytes' = [s \in Sender |-> sender_bytes'[s]]
      BY DEF Store, ReceiverBytesWithout, AnonBytesWithout, SenderBytesWithout
    <3>2. /\ W(D) \in Nat
          /\ \A r \in Receiver : W(OfReceiver(D, r)) \in Nat /\ W(OfReceiver(AnonHeld, r)) \in Nat
          /\ \A s \in Sender : W(OfSender(blobs, IdentifiedHeld, s)) \in Nat
      BY <1>7, <1>10
    <3> HIDE DEF W, size, D
    <3>3. /\ \A r \in Receiver : receiver_bytes'[r] \in Nat /\ anon_receiver_bytes'[r] \in Nat
          /\ \A s \in Sender : sender_bytes'[s] \in Nat
          /\ global_bytes' \in Nat
      BY <1>2a, <1>11, <3>2
    <3> QED
      BY <3>1, <3>3
  <2>3. eviction_index' \subseteq IndexEntry /\ eviction_index_anon' \subseteq IndexEntry
    BY <1>1, <1>2a, <1>4b DEF MailboxTypeOK, IndexEntry
  <2> QED
    BY <1>1, <2>1, <2>2, <2>3 DEF MailboxTypeOK
<1>13. IdentifiedNamed'
  <2>1. ~IsAnonymous(d) => d.sender # NoSender
    BY DEF IsAnonymous
  <2> QED
    BY <1>1, <1>2, <1>6, <2>1 DEF IdentifiedNamed
<1>14. /\ global_bytes' = Weight(blobs', DOMAIN blobs')
       /\ global_bytes' <= QuotaGlobal
  BY <1>2, <1>7, <1>9, <1>11 DEF FitsWithout
<1>15. ASSUME NEW r \in Receiver
       PROVE  /\ receiver_bytes'[r] = Weight(blobs', OfReceiver(DOMAIN blobs', r))
              /\ receiver_bytes'[r] <= QuotaReceiver
  <2> DEFINE C == OfReceiver(D, r)
  <2>1. OfReceiver(DOMAIN blobs', r) = IF r = d.receiver THEN (C \ R) \cup {row} ELSE C \ R
    BY <1>2, <1>2a DEF OfReceiver
  <2>2. /\ Weight(blobs, C) <= QuotaReceiver /\ receiver_bytes[r] = Weight(blobs, C)
        /\ r = d.receiver => receiver_bytes[r] + size <= QuotaReceiver
    BY InvQuotas, InvLedger, MailboxLimitAssumption, <1>2a, <1>1 DEF Refused, MailboxTypeOK
  <2>3. /\ Weight(blobs', C \ R) = W(C) /\ Weight(blobs', (C \ R) \cup {row}) = W(C) + size
        /\ W(C) \in Nat /\ Weight(blobs, C) \in Nat /\ W(C) <= Weight(blobs, C)
    BY <1>7, <1>10
  <2>4. receiver_bytes'[r] = W(C) + (IF r = d.receiver THEN size ELSE 0)
    BY <1>11
  <2> HIDE DEF W, C, R, size, row, D
  <2>5. receiver_bytes'[r] = Weight(blobs', OfReceiver(DOMAIN blobs', r))
    BY <1>2a, <2>1, <2>3, <2>4
  <2>6. receiver_bytes'[r] <= QuotaReceiver
    BY <1>2a, <2>2, <2>3, <2>4, MailboxLimitAssumption
  <2> QED
    BY <2>5, <2>6
<1>16. ASSUME NEW r \in Receiver
       PROVE  /\ anon_receiver_bytes'[r] = Weight(blobs', OfReceiver(AnonHeld', r))
              /\ anon_receiver_bytes'[r] <= anon_receiver_cap \/ anon_receiver_bytes'[r] <= LegacyBilled(r)
  <2> DEFINE C == OfReceiver(AnonHeld, r)
             here == IsAnonymous(d) /\ r = d.receiver
  <2>1. OfReceiver(AnonHeld', r) = IF here THEN (C \ R) \cup {row} ELSE C \ R
    BY <1>2a, <1>6 DEF OfReceiver
  <2>2. /\ Weight(blobs, C) <= anon_receiver_cap \/ Weight(blobs, C) <= LegacyBilled(r)
        /\ anon_receiver_bytes[r] = Weight(blobs, C)
    BY InvQuotas, InvLedger
  <2>3. /\ Weight(blobs', C \ R) = W(C) /\ Weight(blobs', (C \ R) \cup {row}) = W(C) + size
        /\ W(C) \in Nat /\ Weight(blobs, C) \in Nat /\ W(C) <= Weight(blobs, C)
    BY <1>7, <1>10
  <2>4. anon_receiver_bytes'[r] = W(C) + (IF here THEN size ELSE 0)
    BY <1>11
  <2>5. LegacyBilled(r) \in Nat /\ anon_receiver_cap \in Nat
    BY CapTypes
  <2>6. here => ~(Weight(blobs, C) + size > anon_receiver_cap)
    BY <2>2 DEF Refused, IngressFull
  <2> HIDE DEF W, C, R, size, row, here
  <2>7. anon_receiver_bytes'[r] = Weight(blobs', OfReceiver(AnonHeld', r))
    BY <1>2a, <2>1, <2>3, <2>4
  <2>8. anon_receiver_bytes'[r] <= anon_receiver_cap \/ anon_receiver_bytes'[r] <= LegacyBilled(r)
    BY <1>2a, <2>2, <2>3, <2>4, <2>5, <2>6
  <2> QED
    BY <2>7, <2>8
<1>17. ASSUME NEW s \in Sender
       PROVE  /\ sender_bytes'[s] = Weight(blobs', OfSender(blobs', IdentifiedHeld', s))
              /\ sender_bytes'[s] <= QuotaSender
  <2> DEFINE C == OfSender(blobs, IdentifiedHeld, s)
             theirs == ~IsAnonymous(d) /\ s = d.sender
  <2>1. OfSender(blobs', IdentifiedHeld', s) = IF theirs THEN (C \ R) \cup {row} ELSE C \ R
    BY <1>1, <1>2, <1>6 DEF OfSender
  <2>2. Weight(blobs, C) <= QuotaSender /\ sender_bytes[s] = Weight(blobs, C)
    BY InvQuotas, InvLedger
  <2>3. /\ Weight(blobs', C \ R) = W(C) /\ Weight(blobs', (C \ R) \cup {row}) = W(C) + size
        /\ W(C) \in Nat /\ Weight(blobs, C) \in Nat /\ W(C) <= Weight(blobs, C)
    BY <1>7, <1>10
  <2>4. sender_bytes'[s] = W(C) + (IF theirs THEN size ELSE 0)
    BY <1>11
  <2>5. theirs => ~(Weight(blobs, C) + size > QuotaSender)
    BY <2>2 DEF Refused, IngressFull
  <2> HIDE DEF W, C, R, size, row, theirs
  <2>6. sender_bytes'[s] = Weight(blobs', OfSender(blobs', IdentifiedHeld', s))
    BY <1>2a, <2>1, <2>3, <2>4
  <2>7. sender_bytes'[s] <= QuotaSender
    BY <1>2a, <2>2, <2>3, <2>4, <2>5, MailboxLimitAssumption
  <2> QED
    BY <2>6, <2>7
<1> HIDE DEF W
<1> QED
  BY <1>5, <1>8, <1>12, <1>13, <1>14, <1>15, <1>16, <1>17, Reassemble

(* A step that leaves the tables alone keeps what the invariant says of them. *)
LEMMA TablesKept ==
    ASSUME MailboxInv, UNCHANGED tables, MailboxTypeOK', up' => up
    PROVE  MailboxInv'
<1>1. AnonHeld' = AnonHeld /\ IdentifiedHeld' = IdentifiedHeld
  BY DEF AnonHeld, IdentifiedHeld, Rows, tables
<1>2. IndexesExact'
  BY DEF MailboxInv, IndexesExact, EvictionKey, tables
<1>3. LastingExact' /\ RebuiltExact'
  BY <1>1 DEF MailboxInv, LastingExact, RebuiltExact, tables
<1>4. IdentifiedNamed'
  BY <1>1 DEF MailboxInv, IdentifiedNamed, tables
<1>5. QuotasHold'
  BY <1>1 DEF MailboxInv, QuotasHold, Billed, tables
<1> QED
  BY <1>2, <1>3, <1>4, <1>5 DEF MailboxInv, tables

-----------------------------------------------------------------------------
(* The start, on the database of an earlier build.                         *)

(* The rows made of a part of the earlier build's deposits weigh no more     *)
(* than these.                                                             *)
LEMMA LegacyWeight ==
    ASSUME NEW f, f = [k \in {RowFor(d) : d \in Legacy} |->
                         [sender |-> LegacyRow(k).sender, deposited_at |-> 0, len |-> LegacyRow(k).len]],
           NEW P \in SUBSET Legacy
    PROVE  LET K == {RowFor(d) : d \in P}
               held == UNION {{d} \X (1..billable_bytes(d.len)) : d \in P}
           IN  /\ IsFiniteSet(BilledBytes(f, K))
               /\ Weight(f, K) \in Nat /\ Weight(f, K) <= Cardinality(held)
<1> DEFINE K == {RowFor(d) : d \in P}
           held == UNION {{d} \X (1..billable_bytes(d.len)) : d \in P}
           g == [x \in held |-> <<RowFor(x[1]), x[2]>>]
<1>1. \A d \in Legacy : f[RowFor(d)].len = d.len
  <2> TAKE d \in Legacy
  <2>1. LegacyRow(RowFor(d)) \in Legacy /\ RowFor(LegacyRow(RowFor(d))) = RowFor(d)
    BY DEF LegacyRow
  <2>2. LegacyRow(RowFor(d)) = d
    BY <2>1, LegacyAssumption
  <2> QED
    BY <2>2
<1>2. BilledBytes(f, K) = {<<RowFor(x[1]), x[2]>> : x \in held}
  <2>1. ASSUME NEW x \in held
        PROVE  <<RowFor(x[1]), x[2]>> \in BilledBytes(f, K)
    <3>1. PICK d \in P : x \in {d} \X (1..billable_bytes(d.len))
      OBVIOUS
    <3>2. x[1] = d /\ x[2] \in 1..billable_bytes(d.len)
      BY <3>1
    <3>3. <<RowFor(d), x[2]>> \in {RowFor(d)} \X (1..billable_bytes(f[RowFor(d)].len))
      BY <1>1, <3>2
    <3>4. RowFor(d) \in K
      OBVIOUS
    <3> HIDE DEF K
    <3> QED
      BY ONLY <3>2, <3>3, <3>4 DEF BilledBytes
  <2>2. ASSUME NEW y \in BilledBytes(f, K)
        PROVE  \E x \in held : y = <<RowFor(x[1]), x[2]>>
    <3>1. PICK d \in P : y \in {RowFor(d)} \X (1..billable_bytes(f[RowFor(d)].len))
      BY ONLY <2>2 DEF BilledBytes, K
    <3>2. f[RowFor(d)].len = d.len
      BY <1>1
    <3>3. y = <<RowFor(d), y[2]>> /\ y[2] \in 1..billable_bytes(d.len)
      BY ONLY <3>1, <3>2
    <3>4. <<d, y[2]>> \in held
      BY <3>3
    <3> QED
      BY <3>3, <3>4
  <2> QED
    BY <2>1, <2>2
<1> HIDE DEF K, held
<1>3. g \in Surjection(held, BilledBytes(f, K))
  BY <1>2 DEF Surjection
<1>4. IsFiniteSet(held) /\ Cardinality(held) \in Nat
  BY LegacyFinite DEF held
<1>5. IsFiniteSet(BilledBytes(f, K)) /\ Cardinality(BilledBytes(f, K)) <= Cardinality(held)
  BY ONLY <1>3, <1>4, FS_Surjection
<1>6. Cardinality(BilledBytes(f, K)) \in Nat
  BY <1>5, FS_CardinalityType
<1> QED
  BY <1>5, <1>6 DEF K, held, Weight

(* The rows of each class that the earlier build left.                      *)
LEMMA LegacyClasses ==
    ASSUME MailboxInit, DOMAIN blobs \subseteq BlobKey
    PROVE  /\ AnonHeld = OfSender(blobs, DOMAIN blobs, NoSender)
           /\ IdentifiedHeld = {k \in DOMAIN blobs : blobs[k].sender # NoSender}
           /\ IndexesExact
<1> DEFINE D == DOMAIN blobs
<1>1. /\ eviction_index = {EvictionKey(k) : k \in {x \in D : blobs[x].sender # NoSender}}
      /\ eviction_index_anon = {EvictionKey(k) : k \in {x \in D : blobs[x].sender = NoSender}}
  BY DEF MailboxInit
<1>2. \A k \in D : RowOf(EvictionKey(k)) = k
  BY DEF RowOf, BlobKey, EvictionKey
<1> HIDE DEF D
<1>3. {RowOf(e) : e \in eviction_index_anon} = OfSender(blobs, D, NoSender)
  <2>1. \A e \in eviction_index_anon : RowOf(e) \in OfSender(blobs, D, NoSender)
    BY <1>1, <1>2 DEF OfSender
  <2>2. \A k \in OfSender(blobs, D, NoSender) : \E e \in eviction_index_anon : RowOf(e) = k
    BY <1>1, <1>2 DEF OfSender
  <2> QED
    BY <2>1, <2>2
<1>4. {RowOf(e) : e \in eviction_index} = {k \in D : blobs[k].sender # NoSender}
  <2>1. \A e \in eviction_index : RowOf(e) \in {k \in D : blobs[k].sender # NoSender}
    BY <1>1, <1>2
  <2>2. \A k \in {x \in D : blobs[x].sender # NoSender} : \E e \in eviction_index : RowOf(e) = k
    BY <1>1, <1>2
  <2> QED
    BY <2>1, <2>2
<1>5. AnonHeld = OfSender(blobs, D, NoSender) /\ IdentifiedHeld = {k \in D : blobs[k].sender # NoSender}
  BY <1>3, <1>4 DEF AnonHeld, IdentifiedHeld, Rows, OfSender, D
<1>6. eviction_index \cup eviction_index_anon = {EvictionKey(k) : k \in D}
  BY <1>1
<1>7. eviction_index \cap eviction_index_anon = {}
  <2>1. ASSUME NEW e \in eviction_index, e \in eviction_index_anon
        PROVE  FALSE
    <3>1. RowOf(e) \in {k \in D : blobs[k].sender # NoSender} /\ RowOf(e) \in OfSender(blobs, D, NoSender)
      BY <1>3, <1>4, <2>1
    <3> QED
      BY <3>1 DEF OfSender
  <2> QED
    BY <2>1
<1> QED
  BY <1>5, <1>6, <1>7 DEF IndexesExact, D

(* The database the earlier build left behind satisfies the invariant.      *)
LEMMA InitInv == ASSUME MailboxInit PROVE MailboxInv
<1> DEFINE D == DOMAIN blobs
           mine(r) == {x \in Legacy : x.receiver = r}
           unnamed(r) == {x \in Legacy : x.receiver = r /\ x.sender = NoSender}
           sent(s) == {x \in Legacy : x.sender = s}
<1>1. /\ D = {RowFor(d) : d \in Legacy}
      /\ blobs = [k \in {RowFor(d) : d \in Legacy} |->
                    [sender |-> LegacyRow(k).sender, deposited_at |-> 0, len |-> LegacyRow(k).len]]
  BY DEF MailboxInit
<1>2. D \subseteq BlobKey
  BY <1>1, DepositAssumption DEF Offer, RowFor, BlobKey
<1>3. \A k \in D : blobs[k] \in Record /\ blobs[k].deposited_at = 0
  <2> TAKE k \in D
  <2>1. LegacyRow(k) \in Legacy
    BY <1>1 DEF LegacyRow
  <2>2. LegacyRow(k).len \in Nat \ {0} /\ LegacyRow(k).sender \in Sender
    BY <2>1, DepositAssumption DEF Offer
  <2>3. blobs[k] = [sender |-> LegacyRow(k).sender, deposited_at |-> 0, len |-> LegacyRow(k).len]
    BY <1>1
  <2>4. 0 \in 0..MaxClock
    BY MailboxLimitAssumption
  <2> QED
    BY <2>2, <2>3, <2>4 DEF Record
<1>s. \A d \in Legacy : blobs[RowFor(d)].sender = d.sender
  <2> TAKE d \in Legacy
  <2>1. LegacyRow(RowFor(d)) \in Legacy /\ RowFor(LegacyRow(RowFor(d))) = RowFor(d)
    BY DEF LegacyRow
  <2>2. LegacyRow(RowFor(d)) = d
    BY <2>1, LegacyAssumption
  <2> QED
    BY <1>1, <2>2
<1>4. /\ IsFiniteSet(BilledBytes(blobs, D)) /\ Weight(blobs, D) \in Nat
      /\ Weight(blobs, D) <= QuotaGlobal
  <2> DEFINE held == UNION {{d} \X (1..billable_bytes(d.len)) : d \in Legacy}
  <2>1. Legacy \in SUBSET Legacy
    OBVIOUS
  <2>2. /\ IsFiniteSet(BilledBytes(blobs, D)) /\ Weight(blobs, D) \in Nat
        /\ Weight(blobs, D) <= Cardinality(held)
    BY <1>1, <2>1, LegacyWeight
  <2>3. Cardinality(held) <= QuotaGlobal /\ Cardinality(held) \in Nat
    BY <2>1, LegacyAssumption, LegacyFinite
  <2> HIDE DEF held, D
  <2> QED
    BY <2>2, <2>3, MailboxLimitAssumption
<1>5. ASSUME NEW r \in Receiver
      PROVE  Weight(blobs, OfReceiver(D, r)) \in Nat /\ Weight(blobs, OfReceiver(D, r)) <= QuotaReceiver
  <2> DEFINE held == UNION {{d} \X (1..billable_bytes(d.len)) : d \in mine(r)}
  <2>1. mine(r) \in SUBSET Legacy
    OBVIOUS
  <2>2. OfReceiver(D, r) = {RowFor(d) : d \in mine(r)}
    BY <1>1 DEF OfReceiver, RowFor
  <2>3. Cardinality(held) <= QuotaReceiver
    BY LegacyAssumption
  <2> HIDE DEF mine
  <2>4. /\ Weight(blobs, {RowFor(d) : d \in mine(r)}) \in Nat
        /\ Weight(blobs, {RowFor(d) : d \in mine(r)}) <= Cardinality(held)
    BY <1>1, <2>1, LegacyWeight
  <2>5. Cardinality(held) \in Nat
    BY <2>1, LegacyFinite
  <2> HIDE DEF held
  <2> QED
    BY <2>2, <2>3, <2>4, <2>5, MailboxLimitAssumption
<1>6. /\ AnonHeld = OfSender(blobs, D, NoSender)
      /\ IdentifiedHeld = {k \in D : blobs[k].sender # NoSender}
      /\ IndexesExact
  BY <1>2, LegacyClasses
<1>7. ASSUME NEW r \in Receiver
      PROVE  Weight(blobs, OfReceiver(AnonHeld, r)) <= LegacyBilled(r)
  <2>1. unnamed(r) \in SUBSET Legacy
    OBVIOUS
  <2>2. OfReceiver(AnonHeld, r) = {RowFor(d) : d \in unnamed(r)}
    <3>1. ASSUME NEW k \in OfReceiver(AnonHeld, r)
          PROVE  \E d \in unnamed(r) : k = RowFor(d)
      <4>1. k \in D /\ k[1] = r /\ blobs[k].sender = NoSender
        BY <1>6, <3>1 DEF OfReceiver, OfSender
      <4>2. PICK d \in Legacy : k = RowFor(d)
        BY <1>1, <4>1
      <4>3. d.receiver = r /\ d.sender = NoSender
        BY <1>s, <4>1, <4>2 DEF RowFor
      <4> QED
        BY <4>2, <4>3
    <3>2. ASSUME NEW d \in unnamed(r)
          PROVE  RowFor(d) \in OfReceiver(AnonHeld, r)
      BY <1>1, <1>6, <1>s, <3>2 DEF OfReceiver, OfSender, RowFor
    <3> HIDE DEF unnamed
    <3> QED
      BY <3>1, <3>2
  <2>3. Weight(blobs, {RowFor(d) : d \in unnamed(r)})
          <= Cardinality(UNION {{d} \X (1..billable_bytes(d.len)) : d \in unnamed(r)})
    <3> HIDE DEF unnamed
    <3> QED
      BY <1>1, <2>1, LegacyWeight
  <2> QED
    BY <2>2, <2>3 DEF LegacyBilled
<1>t. ASSUME NEW s \in Sender
      PROVE  /\ Weight(blobs, OfSender(blobs, D, s)) \in Nat
             /\ s # NoSender => Weight(blobs, OfSender(blobs, D, s)) <= QuotaSender
  <2> DEFINE held == UNION {{d} \X (1..billable_bytes(d.len)) : d \in sent(s)}
  <2>1. sent(s) \in SUBSET Legacy
    OBVIOUS
  <2>2. OfSender(blobs, D, s) = {RowFor(d) : d \in sent(s)}
    BY <1>1, <1>s DEF OfSender
  <2>3. s # NoSender => Cardinality(held) <= QuotaSender
    BY LegacyAssumption
  <2> HIDE DEF sent
  <2>4. /\ Weight(blobs, {RowFor(d) : d \in sent(s)}) \in Nat
        /\ Weight(blobs, {RowFor(d) : d \in sent(s)}) <= Cardinality(held)
    BY <1>1, <2>1, LegacyWeight
  <2>5. Cardinality(held) \in Nat
    BY <2>1, LegacyFinite
  <2> HIDE DEF held
  <2> QED
    BY <2>2, <2>3, <2>4, <2>5, MailboxLimitAssumption
<1>8. /\ global_bytes = Weight(blobs, D)
      /\ receiver_bytes = [r \in Receiver |-> Weight(blobs, OfReceiver(D, r))]
      /\ sender_bytes = [s \in Sender |-> Weight(blobs, OfSender(blobs, D, s))]
  BY DEF MailboxInit, Billed, Weight, OfReceiver, OfSender
<1>9. MailboxTypeOK
  <2>1. \E K \in SUBSET BlobKey : blobs \in [K -> Record]
    <3>1. blobs \in [D -> Record]
      BY <1>1, <1>3
    <3> QED
      BY <1>2, <3>1
  <2>2. /\ receiver_bytes \in [Receiver -> Nat] /\ sender_bytes \in [Sender -> Nat]
        /\ anon_receiver_bytes \in [Receiver -> Nat] /\ global_bytes \in Nat
    <3>1. anon_receiver_bytes = [r \in Receiver |-> 0]
      BY DEF MailboxInit
    <3> HIDE DEF D
    <3> QED
      BY <1>4, <1>5, <1>8, <1>t, <3>1
  <2>3. eviction_index \subseteq IndexEntry /\ eviction_index_anon \subseteq IndexEntry
    <3>1. \A k \in D : EvictionKey(k) \in IndexEntry
      BY <1>2, <1>3, MailboxLimitAssumption DEF BlobKey, IndexEntry, EvictionKey
    <3> QED
      BY <3>1 DEF MailboxInit
  <2>4. /\ now \in 0..MaxClock /\ up \in BOOLEAN
        /\ putting \subseteq [deposit : Deposit, at : 0..MaxClock]
    <3>1. now = 0 /\ up = FALSE /\ putting = {}
      BY DEF MailboxInit
    <3>2. 0 \in 0..MaxClock
      BY MailboxLimitAssumption
    <3> QED
      BY <3>1, <3>2, Zenon
  <2> QED
    BY <2>1, <2>2, <2>3, <2>4, Zenon DEF MailboxTypeOK
<1>u. \A s \in Sender \ {NoSender} : OfSender(blobs, IdentifiedHeld, s) = OfSender(blobs, D, s)
  BY <1>6 DEF OfSender
<1>10. LastingExact /\ RebuiltExact /\ IdentifiedNamed
  <2>1. up = FALSE
    BY DEF MailboxInit
  <2>2. IdentifiedNamed
    BY <1>6 DEF IdentifiedNamed
  <2>3. LastingExact
    BY <1>8, <1>u DEF LastingExact
  <2> QED
    BY <2>1, <2>2, <2>3 DEF RebuiltExact
<1>11. QuotasHold
  <2>1. ASSUME NEW r \in Receiver
        PROVE  /\ Billed({k \in DOMAIN blobs : k[1] = r}) <= QuotaReceiver
               /\ Billed({k \in AnonHeld : k[1] = r}) <= LegacyBilled(r)
    BY <1>5, <1>7 DEF Billed, Weight, OfReceiver
  <2>2. ASSUME NEW s \in Sender
        PROVE  Billed({k \in IdentifiedHeld : blobs[k].sender = s}) <= QuotaSender
    <3>1. CASE s = NoSender
      <4>1. {k \in IdentifiedHeld : blobs[k].sender = s} = {}
        BY <1>6, <3>1
      <4>2. Billed({}) = 0
        BY WeightNone DEF Billed, Weight
      <4> QED
        BY <4>1, <4>2, MailboxLimitAssumption
    <3>2. CASE s # NoSender
      BY <1>t, <1>u, <3>2 DEF Billed, Weight, OfSender
    <3> QED
      BY <3>1, <3>2
  <2>3. Billed(DOMAIN blobs) <= QuotaGlobal
    BY <1>4 DEF Billed, Weight
  <2> QED
    BY <2>1, <2>2, <2>3 DEF QuotasHold
<1> QED
  BY <1>4, <1>6, <1>9, <1>10, <1>11 DEF MailboxInv

-----------------------------------------------------------------------------
(* Every step keeps the invariant.                                         *)

(* Mailbox::ack takes its entry out of whichever index holds it.           *)
LEMMA AckKeepsInv ==
    ASSUME MailboxInv, NEW k \in BlobKey, Ack(k)
    PROVE  MailboxInv'
<1>1. {EvictionKey(k)} \in SUBSET (eviction_index \cup eviction_index_anon)
  BY DEF Ack, MailboxInv, IndexesExact
<1> QED
  BY <1>1, RemoveKeepsInv DEF Ack

(* Mailbox::prune_expired, both pools at once.                             *)
LEMMA PruneKeepsInv ==
    ASSUME MailboxInv, PruneExpired
    PROVE  MailboxInv'
<1>1. PICK at \in 0..now : Remove(Expired(at))
  BY DEF PruneExpired
<1>2. Expired(at) \in SUBSET (eviction_index \cup eviction_index_anon)
  BY DEF Expired
<1> QED
  BY <1>1, <1>2, RemoveKeepsInv DEF PruneExpired

(* A put that has read the clock has not written yet.                      *)
LEMMA BeginPutKeepsInv ==
    ASSUME MailboxInv, NEW d \in Deposit, BeginPut(d)
    PROVE  MailboxInv'
<1>1. UNCHANGED tables /\ (up' => up)
  BY DEF BeginPut
<1>2. MailboxTypeOK'
  <2>1. MailboxTypeOK /\ now' = now /\ up' = up /\ putting' = putting \cup {[deposit |-> d, at |-> now]}
    BY DEF MailboxInv, BeginPut
  <2>2. putting' \subseteq [deposit : Deposit, at : 0..MaxClock]
    BY <2>1 DEF MailboxTypeOK
  <2> QED
    BY <1>1, <2>1, <2>2 DEF MailboxTypeOK, tables
<1> QED
  BY <1>1, <1>2, TablesKept

(* put_classified's transaction, whatever was written since the put began.  *)
LEMMA FinishPutKeepsInv ==
    ASSUME MailboxInv, NEW p \in putting, FinishPut(p)
    PROVE  MailboxInv'
<1>1. /\ MailboxTypeOK /\ p.deposit \in Offer /\ p.at \in 0..MaxClock
      /\ up /\ UNCHANGED <<now, up>> /\ putting' \subseteq putting
  BY DepositAssumption DEF MailboxInv, MailboxTypeOK, FinishPut
<1>2. CASE UNCHANGED tables
  <2>1. MailboxTypeOK'
    BY <1>1, <1>2 DEF MailboxTypeOK, tables
  <2> QED
    BY <1>1, <1>2, <2>1, TablesKept
<1>3. CASE /\ ~Refused(p.deposit)
           /\ \E V \in Victims(p.at, p.deposit) : Store(p.at, p.deposit, V)
  <2>1. PICK V \in Victims(p.at, p.deposit) : Store(p.at, p.deposit, V)
    BY <1>3
  <2>2. V \in SUBSET (eviction_index \cup eviction_index_anon) /\ FitsWithout(V, p.deposit)
    BY DEF Victims, Evictable
  <2> QED
    BY <1>1, <1>3, <2>1, <2>2, StoreKeepsInv
<1> QED
  BY <1>2, <1>3 DEF FinishPut

(* The first start counts the anonymous blobs an earlier build never did.   *)
LEMMA OpenKeepsInv ==
    ASSUME MailboxInv, Open
    PROVE  MailboxInv'
<1>1. AnonHeld' = AnonHeld /\ IdentifiedHeld' = IdentifiedHeld
  BY DEF AnonHeld, IdentifiedHeld, Rows, Open
<1>2. /\ UNCHANGED <<blobs, receiver_bytes, global_bytes, eviction_index, eviction_index_anon, now, putting>>
      /\ anon_receiver_bytes' = [r \in Receiver |-> Weight(blobs, OfReceiver(AnonHeld, r))]
      /\ sender_bytes' = [sender_bytes EXCEPT ![NoSender] = 0]
  BY DEF Open, AnonHeld, Billed, Weight, OfReceiver
<1>3. \A r \in Receiver : Weight(blobs, OfReceiver(AnonHeld, r)) \in Nat
  <2> TAKE r \in Receiver
  <2>1. OfReceiver(AnonHeld, r) \in SUBSET DOMAIN blobs
    BY DEF OfReceiver, AnonHeld, Rows
  <2>2. IsFiniteSet(BilledBytes(blobs, DOMAIN blobs))
    BY DEF MailboxInv
  <2> QED
    BY ONLY <2>1, <2>2, WeightRest
<1>4. MailboxTypeOK'
  <2>1. MailboxTypeOK /\ up' = TRUE
    BY DEF MailboxInv, Open
  <2>2. /\ anon_receiver_bytes' \in [Receiver -> Nat] /\ sender_bytes' \in [Sender -> Nat]
    BY <1>2, <1>3, <2>1 DEF MailboxTypeOK
  <2> QED
    BY <1>2, <2>1, <2>2 DEF MailboxTypeOK
<1>5. LastingExact' /\ RebuiltExact'
  <2>1. sender_bytes \in [Sender -> Nat] /\ NoSender \in Sender
    BY IdAssumption DEF MailboxInv, MailboxTypeOK
  <2>2. \A s \in Sender : sender_bytes'[s] = IF s = NoSender THEN 0 ELSE sender_bytes[s]
    BY <1>2, <2>1
  <2>3. LastingExact'
    BY <1>1, <1>2, <2>2 DEF MailboxInv, LastingExact
  <2>4. RebuiltExact'
    BY <1>1, <1>2, <2>1, <2>2 DEF RebuiltExact
  <2> QED
    BY <2>3, <2>4
<1>6. IndexesExact'
  BY <1>2 DEF MailboxInv, IndexesExact, EvictionKey
<1>7. IdentifiedNamed' /\ QuotasHold'
  BY <1>1, <1>2 DEF MailboxInv, IdentifiedNamed, QuotasHold, Billed
<1> QED
  BY <1>2, <1>4, <1>5, <1>6, <1>7 DEF MailboxInv

(* Together, and for the crash and the clock.                              *)
LEMMA NextKeepsInv ==
    ASSUME MailboxInv, [MailboxNext]_mailboxVars
    PROVE  MailboxInv'
<1>1. ASSUME NEW k \in BlobKey, Ack(k) PROVE MailboxInv'
  BY <1>1, AckKeepsInv
<1>2. CASE PruneExpired
  BY <1>2, PruneKeepsInv
<1>3. ASSUME NEW d \in Deposit, BeginPut(d) PROVE MailboxInv'
  BY <1>3, BeginPutKeepsInv
<1>4. ASSUME NEW p \in putting, FinishPut(p) PROVE MailboxInv'
  BY <1>4, FinishPutKeepsInv
<1>5. CASE Crash
  <2>1. MailboxTypeOK'
    BY <1>5 DEF MailboxInv, MailboxTypeOK, Crash, tables
  <2> QED
    BY <1>5, <2>1, TablesKept DEF Crash
<1>6. CASE Open
  BY <1>6, OpenKeepsInv
<1>7. CASE Clock
  <2>1. MailboxTypeOK'
    <3>1. now' \in 0..MaxClock
      BY <1>7, MailboxLimitAssumption DEF MailboxInv, MailboxTypeOK, Clock
    <3> QED
      BY <1>7, <3>1 DEF MailboxInv, MailboxTypeOK, Clock, tables
  <2> QED
    BY <1>7, <2>1, TablesKept DEF Clock
<1>8. CASE UNCHANGED mailboxVars
  <2>1. MailboxTypeOK'
    BY <1>8 DEF MailboxInv, MailboxTypeOK, mailboxVars, tables
  <2> QED
    BY <1>8, <2>1, TablesKept DEF mailboxVars
<1> QED
  BY <1>1, <1>2, <1>3, <1>4, <1>5, <1>6, <1>7, <1>8 DEF MailboxNext

-----------------------------------------------------------------------------
(* The theorems.                                                           *)

(* The invariant holds at all times.                                       *)
THEOREM MailboxInvariant == MailboxSpec => []MailboxInv
<1>1. MailboxInit => MailboxInv
  BY InitInv
<1>2. MailboxInv /\ [MailboxNext]_mailboxVars => MailboxInv'
  BY NextKeepsInv
<1> QED
  BY <1>1, <1>2, PTL DEF MailboxSpec

(* The store's tables are well typed (struct Mailbox and its tables).       *)
THEOREM MailboxTypes == MailboxSpec => []MailboxTypeOK
<1>1. MailboxInv => MailboxTypeOK
  BY DEF MailboxInv
<1> QED
  BY <1>1, MailboxInvariant, PTL

(* Every blob is in one index under its own time of deposit, and no entry    *)
(* dangles (put_classified, ack, prune_expired).                           *)
THEOREM MailboxIndexes == MailboxSpec => []IndexesExact
<1>1. MailboxInv => IndexesExact
  BY DEF MailboxInv
<1> QED
  BY <1>1, MailboxInvariant, PTL

(* While the relay runs the four totals are what the blobs of their class    *)
(* weigh (refund_ingress, put_classified, Mailbox::open).                  *)
THEOREM MailboxLedger == MailboxSpec => []LedgerExact
<1>1. ASSUME MailboxInv PROVE LedgerExact
  <2>1. CASE ~up
    BY <2>1 DEF LedgerExact
  <2>2. CASE up
    <3>1. global_bytes = Billed(DOMAIN blobs)
      BY <1>1, <2>2, InvLedger DEF Weight, Billed
    <3>2. \A r \in Receiver :
             /\ receiver_bytes[r] = Billed({k \in DOMAIN blobs : k[1] = r})
             /\ anon_receiver_bytes[r] = Billed({k \in AnonHeld : k[1] = r})
      BY <1>1, <2>2, InvLedger DEF Weight, Billed, OfReceiver
    <3>3. \A s \in Sender :
             sender_bytes[s] = Billed({k \in IdentifiedHeld : blobs[k].sender = s})
      BY <1>1, <2>2, InvLedger DEF Weight, Billed, OfSender
    <3> QED
      BY <3>1, <3>2, <3>3, Zenon DEF LedgerExact
  <2> QED
    BY <2>1, <2>2
<1>2. MailboxInv => LedgerExact
  BY <1>1
<1> QED
  BY <1>2, MailboxInvariant, PTL

(* The quotas bound what is held, by class, receiver and sender, although    *)
(* the code only compares totals (put_classified).                         *)
THEOREM MailboxQuotas == MailboxSpec => []QuotasHold
<1>1. MailboxInv => QuotasHold
  BY DEF MailboxInv
<1> QED
  BY <1>1, MailboxInvariant, PTL

-----------------------------------------------------------------------------
(* The relay and the device that drains it.                                *)

(* Nothing is stamped later than the clock.                                *)
StampsPast ==
    /\ \A p \in putting : p.at <= now
    /\ \A k \in DOMAIN blobs : blobs[k].deposited_at <= now

(* The device asks to remove only what it has.                             *)
AcksReceived == \A k \in acking : k[2] \in received

DrainInv == MailboxInv /\ TypeOK /\ StampsPast /\ AcksReceived

-----------------------------------------------------------------------------
(* The relay is a store.                                                   *)

(* Every step of the relay or the device is a step of the store or none.    *)
LEMMA DrainStep ==
    ASSUME [Next]_vars
    PROVE  [MailboxNext]_mailboxVars
<1>1. CASE StoreNext
  BY <1>1 DEF StoreNext, MailboxNext
<1>2. CASE Fetch \/ TakeReply \/ Slice \/ Lose
  BY <1>2 DEF Fetch, TakeReply, Slice, Lose
<1>3. CASE RelayCrash
  BY <1>3 DEF RelayCrash, MailboxNext
<1>4. CASE \E k \in BlobKey : HandleAck(k)
  BY <1>4 DEF HandleAck, MailboxNext
<1>5. CASE UNCHANGED vars
  BY <1>5 DEF vars
<1> QED
  BY <1>1, <1>2, <1>3, <1>4, <1>5 DEF Next

(* The relay with its endpoints implements the store.                      *)
THEOREM DrainImplementsMailbox == Spec => MailboxSpec
<1>1. Init => MailboxInit
  BY DEF Init
<1>2. [Next]_vars => [MailboxNext]_mailboxVars
  BY DrainStep
<1> QED
  BY <1>1, <1>2, PTL DEF Spec, MailboxSpec

-----------------------------------------------------------------------------
(* What leaves the store.                                                  *)

(* A removal takes the rows of its entries and no others.                  *)
LEMMA RemoveTakes ==
    ASSUME MailboxInv, NEW E \in SUBSET (eviction_index \cup eviction_index_anon), Remove(E)
    PROVE  \A k \in DOMAIN blobs \ DOMAIN blobs' : EvictionKey(k) \in E
<1>1. Rows(E) = {k \in DOMAIN blobs : EvictionKey(k) \in E}
  BY Classes DEF MailboxInv
<1>2. DOMAIN blobs' = DOMAIN blobs \ Rows(E)
  BY DEF Remove
<1> QED
  BY <1>1, <1>2

(* A put evicts only what is old enough, and an identified blob only with     *)
(* every anonymous one that is (Mailbox::put_classified).                  *)
LEMMA PutTakes ==
    ASSUME DrainInv, NEW p \in putting, FinishPut(p)
    PROVE  LeavesInTurn
<1>1. /\ MailboxInv /\ MailboxTypeOK /\ IndexesExact /\ DOMAIN blobs \subseteq BlobKey
      /\ p.at \in 0..MaxClock /\ p.deposit \in Offer /\ now \in 0..MaxClock
      /\ \A k \in DOMAIN blobs : blobs[k].deposited_at \in 0..MaxClock
      /\ eviction_index_anon \subseteq IndexEntry
  BY DepositAssumption DEF DrainInv, MailboxInv, MailboxTypeOK, Record
<1> SUFFICES ASSUME NEW k \in DOMAIN blobs \ DOMAIN blobs'
             PROVE  \E q \in putting \ putting' :
                       /\ now - blobs[k].deposited_at >= MinEvictionAge
                       /\ EvictionKey(k) \in eviction_index =>
                            \A e \in eviction_index_anon \cap eviction_index_anon' :
                               q.at - e[1] < MinEvictionAge
  BY DEF LeavesInTurn
<1>2. PICK V \in Victims(p.at, p.deposit) : ~Refused(p.deposit) /\ Store(p.at, p.deposit, V)
  BY DEF FinishPut, tables
<1>3. /\ V \subseteq Evictable(p.at)
      /\ \A v \in V : \A e \in Evictable(p.at) : EvictedBefore(e, v) => e \in V
  BY DEF Victims
<1>4. V \in SUBSET (eviction_index \cup eviction_index_anon)
  BY <1>3 DEF Evictable
<1>5. EvictionKey(k) \in V
  <2>1. Rows(V) = {x \in DOMAIN blobs : EvictionKey(x) \in V}
    BY <1>1, <1>4, Classes
  <2>2. DOMAIN blobs' = (DOMAIN blobs \ Rows(V)) \cup {RowFor(p.deposit)}
    BY <1>2 DEF Store
  <2> QED
    BY <2>1, <2>2
<1>6. now - blobs[k].deposited_at >= MinEvictionAge
  <2>1. SaturatingSub(p.at, blobs[k].deposited_at) >= MinEvictionAge
    BY <1>3, <1>5 DEF Evictable, EvictionKey
  <2>2. p.at <= now /\ blobs[k].deposited_at <= now
    BY DEF DrainInv, StampsPast
  <2> QED
    BY <1>1, <2>1, <2>2, MailboxLimitAssumption DEF SaturatingSub
<1>7. ASSUME EvictionKey(k) \in eviction_index,
             NEW e \in eviction_index_anon \cap eviction_index_anon'
      PROVE  p.at - e[1] < MinEvictionAge
  <2>1. e \notin V
    <3>1. e # <<p.at, p.deposit.receiver, p.deposit.content_id>>
      <4>1. PICK x \in DOMAIN blobs : e = EvictionKey(x)
        BY <1>1 DEF IndexesExact
      <4>2. x = <<x[1], x[2]>> /\ x # RowFor(p.deposit)
        BY <1>1, <1>2 DEF Refused, BlobKey
      <4> QED
        BY <4>1, <4>2 DEF EvictionKey, RowFor
    <3> QED
      BY <1>2, <3>1 DEF Store
  <2>2. EvictionKey(k) \notin eviction_index_anon
    BY <1>1, <1>7 DEF IndexesExact
  <2>3. EvictedBefore(e, EvictionKey(k))
    BY <2>2 DEF EvictedBefore
  <2>4. e \notin Evictable(p.at)
    BY <1>3, <1>5, <2>1, <2>3
  <2>5. ~(SaturatingSub(p.at, e[1]) >= MinEvictionAge)
    BY <2>4 DEF Evictable
  <2>6. e[1] \in 0..MaxClock
    BY <1>1 DEF IndexEntry
  <2> QED
    BY <1>1, <2>5, <2>6, MailboxLimitAssumption DEF SaturatingSub
<1>8. p \in putting \ putting'
  BY DEF FinishPut
<1> QED
  BY <1>6, <1>7, <1>8

(* Every step: an acknowledged blob is one the device has, a pruned one is   *)
(* past its TTL.                                                           *)
LEMMA StepTakes ==
    ASSUME DrainInv, [Next]_vars
    PROVE  LeavesInTurn
<1>0. MailboxInv /\ MailboxTypeOK /\ IndexesExact /\ DOMAIN blobs \subseteq BlobKey
  BY DEF DrainInv, MailboxInv, MailboxTypeOK
<1>1. CASE UNCHANGED blobs
  BY <1>1 DEF LeavesInTurn
<1>2. ASSUME NEW p \in putting, FinishPut(p)
      PROVE  LeavesInTurn
  BY <1>2, PutTakes
<1>3. CASE PruneExpired
  <2>0. PICK at \in 0..now : Remove(Expired(at))
    BY <1>3 DEF PruneExpired
  <2>1. Expired(at) \in SUBSET (eviction_index \cup eviction_index_anon)
    BY DEF Expired
  <2>2. \A k \in DOMAIN blobs \ DOMAIN blobs' : EvictionKey(k) \in Expired(at)
    BY <1>0, <2>0, <2>1, RemoveTakes
  <2>3. SaturatingSub(at, Ttl) <= SaturatingSub(now, Ttl)
    BY <1>0, MailboxLimitAssumption DEF SaturatingSub, MailboxTypeOK
  <2>4. SaturatingSub(at, Ttl) \in Nat /\ SaturatingSub(now, Ttl) \in Nat
    BY <1>0, MailboxLimitAssumption DEF SaturatingSub, MailboxTypeOK
  <2>5. ASSUME NEW k \in DOMAIN blobs \ DOMAIN blobs'
        PROVE  blobs[k].deposited_at < SaturatingSub(now, Ttl)
    <3>1. blobs[k].deposited_at < SaturatingSub(at, Ttl)
      BY <2>2 DEF Expired, EvictionKey
    <3>2. blobs[k].deposited_at \in 0..MaxClock
      BY <1>0 DEF MailboxTypeOK, Record
    <3> QED
      BY <2>3, <2>4, <3>1, <3>2, MailboxLimitAssumption
  <2> QED
    BY <2>5 DEF LeavesInTurn
<1>4. ASSUME NEW x \in BlobKey, HandleAck(x), Ack(x)
      PROVE  LeavesInTurn
  <2>1. {EvictionKey(x)} \in SUBSET (eviction_index \cup eviction_index_anon)
    BY <1>0, <1>4 DEF Ack, IndexesExact
  <2>2. \A k \in DOMAIN blobs \ DOMAIN blobs' : EvictionKey(k) = EvictionKey(x)
    BY <1>0, <1>4, <2>1, RemoveTakes DEF Ack
  <2>3. \A k \in DOMAIN blobs \ DOMAIN blobs' : k[2] = x[2]
    BY <2>2 DEF EvictionKey
  <2>4. x[2] \in received
    BY <1>4 DEF HandleAck, DrainInv, AcksReceived
  <2> QED
    BY <2>3, <2>4 DEF LeavesInTurn
<1>5. CASE StoreNext
  <2>1. CASE Open \/ Clock \/ \E d \in Deposit : BeginPut(d)
    BY <1>1, <2>1 DEF Open, Clock, BeginPut, tables
  <2> QED
    BY <1>2, <1>3, <1>5, <2>1 DEF StoreNext
<1>6. CASE Fetch \/ TakeReply \/ Slice \/ Lose \/ RelayCrash
  BY <1>1, <1>6 DEF Fetch, TakeReply, Slice, Lose, RelayCrash, Crash, mailboxVars, tables
<1>7. ASSUME NEW k \in BlobKey, HandleAck(k)
      PROVE  LeavesInTurn
  BY <1>1, <1>4, <1>7 DEF HandleAck, mailboxVars, tables
<1>8. CASE UNCHANGED vars
  BY <1>1, <1>8 DEF vars, mailboxVars, tables
<1> QED
  BY <1>5, <1>6, <1>7, <1>8 DEF Next

-----------------------------------------------------------------------------
(* The invariant holds.                                                    *)

(* No step of the store stamps anything later than the clock: a put keeps    *)
(* the time at which it began.                                             *)
LEMMA StampsKept ==
    ASSUME MailboxInv, StampsPast, [MailboxNext]_mailboxVars
    PROVE  StampsPast'
<1>1. /\ now \in 0..MaxClock
      /\ \A k \in DOMAIN blobs : blobs[k].deposited_at \in 0..MaxClock
      /\ \A p \in putting : p.at \in 0..MaxClock
  BY DEF MailboxInv, MailboxTypeOK, Record
<1>2. ASSUME NEW E, Remove(E), UNCHANGED <<now, putting>>
      PROVE  StampsPast'
  <2>1. DOMAIN blobs' \subseteq DOMAIN blobs /\ \A k \in DOMAIN blobs' : blobs'[k] = blobs[k]
    BY <1>2 DEF Remove
  <2> QED
    BY <1>2, <2>1 DEF StampsPast
<1>3. ASSUME NEW d \in Deposit, BeginPut(d)
      PROVE  StampsPast'
  <2>1. /\ blobs' = blobs /\ now' = now
        /\ putting' = putting \cup {[deposit |-> d, at |-> now]}
    BY <1>3 DEF BeginPut, tables
  <2> QED
    BY <1>1, <2>1 DEF StampsPast
<1>4. ASSUME NEW p \in putting, FinishPut(p)
      PROVE  StampsPast'
  <2>1. now' = now /\ putting' \subseteq putting /\ p.at <= now
    BY <1>4 DEF FinishPut, StampsPast
  <2>2. CASE UNCHANGED tables
    BY <2>1, <2>2 DEF StampsPast, tables
  <2>3. ASSUME NEW V, Store(p.at, p.deposit, V)
        PROVE  StampsPast'
    <3>1. \A k \in DOMAIN blobs' :
             \/ k \in DOMAIN blobs /\ blobs'[k] = blobs[k]
             \/ blobs'[k].deposited_at = p.at
      BY <2>3 DEF Store
    <3> QED
      BY <2>1, <3>1 DEF StampsPast
  <2> QED
    BY <1>4, <2>2, <2>3 DEF FinishPut
<1>5. CASE Clock
  <2>1. blobs' = blobs /\ putting' = putting /\ now' = now + 1
    BY <1>5 DEF Clock, tables
  <2> QED
    BY <1>1, <2>1 DEF StampsPast
<1>6. CASE Crash \/ Open \/ UNCHANGED mailboxVars
  BY <1>6 DEF StampsPast, Crash, Open, tables, mailboxVars
<1> QED
  BY <1>2, <1>3, <1>4, <1>5, <1>6 DEF MailboxNext, Ack, PruneExpired

(* The device: what it is sent are rows of the store, and what it asks to     *)
(* remove it has received.                                                 *)
DeviceOK ==
    /\ \A entries \in reply : entries \subseteq [row : BlobKey, whole : BOOLEAN]
    /\ acking \subseteq BlobKey
    /\ slicing \subseteq [content_id : ContentId \ Unusable, offset : Nat]
    /\ aside \subseteq Unusable /\ received \subseteq ContentId \ Unusable
    /\ AcksReceived

(* An ACK names rows of the two boxes, with the content id it is for.       *)
LEMMA AckRowsKeys ==
    ASSUME NEW c \in ContentId
    PROVE  AckRows(c) \subseteq BlobKey /\ \A k \in AckRows(c) : k[2] = c
BY DrainAssumption DEF AckRows, Boxes, BlobKey

(* Every step keeps it; the store may have changed under a reply.          *)
LEMMA DeviceKept ==
    ASSUME MailboxTypeOK, DeviceOK, [Next]_vars
    PROVE  DeviceOK'
<1>0. DOMAIN blobs \subseteq BlobKey
  BY DEF MailboxTypeOK
<1>1. CASE UNCHANGED deviceVars
  BY <1>1 DEF DeviceOK, AcksReceived, deviceVars
<1>2. CASE Fetch
  <2>1. ASSUME NEW skip
        PROVE  FetchReply(skip) \subseteq [row : BlobKey, whole : BOOLEAN]
    <3>1. \A r : FetchSkipping(r, skip) \subseteq DOMAIN blobs
      BY DEF FetchSkipping
    <3>2. FetchReply(skip) \subseteq {[row |-> k, whole |-> ~Oversized(k)] : k \in DOMAIN blobs}
      BY <3>1 DEF FetchReply
    <3>3. \A k \in DOMAIN blobs : [row |-> k, whole |-> ~Oversized(k)] \in [row : BlobKey, whole : BOOLEAN]
      BY <1>0 DEF Oversized
    <3>4. {[row |-> k, whole |-> ~Oversized(k)] : k \in DOMAIN blobs} \subseteq [row : BlobKey, whole : BOOLEAN]
      BY <3>3, Zenon
    <3> QED
      BY <3>2, <3>4, Zenon
  <2>2. PICK skip : reply' = {FetchReply(skip)}
    BY <1>2 DEF Fetch
  <2> QED
    BY <1>2, <2>1, <2>2 DEF Fetch, DeviceOK, AcksReceived
<1>3. CASE TakeReply
  <2>1. PICK entries \in reply :
          LET whole == {x.row : x \in {y \in entries : y.whole}}
              announced == {x.row : x \in entries} \ whole
              taken == {k \in whole : Usable(k)}
          IN  /\ received' = received \cup {k[2] : k \in taken}
              /\ acking' = UNION {AckRows(k[2]) : k \in taken}
              /\ aside' = aside \cup {k[2] : k \in {x \in whole \cup announced : ~Usable(x)}}
              /\ IF \E k \in announced : Usable(k)
                 THEN \E k \in announced :
                        Usable(k) /\ slicing' = {[content_id |-> k[2], offset |-> 0]}
                 ELSE slicing' = {}
    BY <1>3 DEF TakeReply
  <2> DEFINE whole == {x.row : x \in {y \in entries : y.whole}}
             announced == {x.row : x \in entries} \ whole
             taken == {k \in whole : Usable(k)}
  <2>2. whole \subseteq BlobKey /\ announced \subseteq BlobKey
    BY DEF DeviceOK
  <2>3. \A k \in BlobKey : k[2] \in ContentId /\ (Usable(k) <=> k[2] \notin Unusable)
    BY DEF BlobKey, Usable
  <2>4. /\ received' = received \cup {k[2] : k \in taken}
        /\ acking' = UNION {AckRows(k[2]) : k \in taken}
        /\ aside' = aside \cup {k[2] : k \in {x \in whole \cup announced : ~Usable(x)}}
        /\ \/ slicing' = {}
           \/ \E k \in announced : Usable(k) /\ slicing' = {[content_id |-> k[2], offset |-> 0]}
    BY <2>1
  <2>5. taken \subseteq BlobKey /\ \A k \in taken : Usable(k)
    BY <2>2
  <2> HIDE DEF whole, announced, taken
  <2>6. received' \subseteq ContentId \ Unusable /\ aside' \subseteq Unusable
    BY <2>2, <2>3, <2>4, <2>5 DEF DeviceOK
  <2>7. slicing' \subseteq [content_id : ContentId \ Unusable, offset : Nat]
    BY <2>2, <2>3, <2>4
  <2>8. acking' \subseteq BlobKey /\ \A k \in acking' : k[2] \in received'
    BY <2>3, <2>4, <2>5, AckRowsKeys
  <2>9. reply' = {}
    BY <1>3 DEF TakeReply
  <2> QED
    BY <2>6, <2>7, <2>8, <2>9 DEF DeviceOK, AcksReceived
<1>4. CASE Slice
  <2>1. reply' = reply /\ aside' = aside
    BY <1>4 DEF Slice
  <2>2. PICK s \in slicing :
          \/ slicing' = {[s EXCEPT !.offset = s.offset + SliceWindow]} /\ UNCHANGED <<acking, received>>
          \/ /\ slicing' = {} /\ received' = received \cup {s.content_id}
             /\ acking' = acking \cup AckRows(s.content_id)
          \/ slicing' = {} /\ UNCHANGED <<acking, received>>
    BY <1>4 DEF Slice
  <2>3. s \in [content_id : ContentId \ Unusable, offset : Nat]
    BY DEF DeviceOK
  <2>4. slicing' \subseteq [content_id : ContentId \ Unusable, offset : Nat]
    BY <2>2, <2>3, DrainAssumption
  <2>5. /\ received' \subseteq ContentId \ Unusable /\ acking' \subseteq BlobKey
        /\ \A k \in acking' : k[2] \in received'
    BY <2>2, <2>3, AckRowsKeys DEF DeviceOK, AcksReceived
  <2> QED
    BY <2>1, <2>4, <2>5 DEF DeviceOK, AcksReceived
<1>5. CASE Lose \/ RelayCrash \/ \E k \in BlobKey : HandleAck(k)
  <2>1. /\ reply' \subseteq reply /\ acking' \subseteq acking /\ slicing' \subseteq slicing
        /\ aside' = aside /\ received' = received
    BY <1>5 DEF Lose, RelayCrash, HandleAck
  <2> QED
    BY <2>1 DEF DeviceOK, AcksReceived
<1>6. CASE StoreNext
  BY <1>1, <1>6 DEF StoreNext
<1> QED
  BY <1>1, <1>2, <1>3, <1>4, <1>5, <1>6 DEF Next, vars

(* The invariant of the drain.                                             *)
THEOREM DrainInvariant == Spec => []DrainInv
<1> DEFINE Inv == MailboxInv /\ StampsPast /\ DeviceOK
<1>1. Init => Inv
  <2> SUFFICES ASSUME Init PROVE Inv
    OBVIOUS
  <2>1. MailboxInv
    BY InitInv DEF Init
  <2>2. DeviceOK
    BY DEF Init, DeviceOK, AcksReceived
  <2>3. StampsPast
    BY DEF Init, MailboxInit, StampsPast
  <2> QED
    BY <2>1, <2>2, <2>3
<1>2. Inv /\ [Next]_vars => Inv'
  <2> SUFFICES ASSUME Inv, [Next]_vars PROVE Inv'
    OBVIOUS
  <2>1. MailboxInv' /\ StampsPast'
    BY DrainStep, NextKeepsInv, StampsKept
  <2>2. DeviceOK'
    BY DeviceKept DEF MailboxInv
  <2> QED
    BY <2>1, <2>2
<1>3. Inv => DrainInv
  BY DEF DrainInv, TypeOK, DeviceOK, MailboxInv
<1> QED
  BY <1>1, <1>2, <1>3, PTL DEF Spec

(* The relay's tables, the replies, the acknowledgements and what the device  *)
(* keeps are well typed.                                                   *)
THEOREM DrainTypes == Spec => []TypeOK
<1>1. DrainInv => TypeOK
  BY DEF DrainInv
<1> QED
  BY <1>1, DrainInvariant, PTL

(* No mail leaves early: not by an acknowledgement the device did not mean,   *)
(* a sweep, or an eviction out of turn (handle_ack_message, prune_expired,   *)
(* put_classified).                                                        *)
THEOREM DrainLosesNothingEarly == Spec => NoEarlyLoss
<1>1. DrainInv /\ [Next]_vars => [LeavesInTurn]_vars
  BY StepTakes
<1> QED
  BY <1>1, DrainInvariant, PTL DEF Spec, NoEarlyLoss

(* What is proved of the store holds of the relay.                         *)
THEOREM DrainLedger == Spec => [](IndexesExact /\ LedgerExact /\ QuotasHold)
BY DrainImplementsMailbox, MailboxIndexes, MailboxLedger, MailboxQuotas, PTL
=============================================================================
