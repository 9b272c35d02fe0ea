-------------------------- MODULE PendingAckProofs --------------------------
(***************************************************************************)
(* The tracker's totals stay exact and inside their limits, whatever its   *)
(* callers do, for every set of ids, peers and batches and every limit.    *)
(***************************************************************************)
EXTENDS PendingAck, FiniteSetTheorems, TLAPS

(* The inductive invariant: types, exact totals, the four limits, and that  *)
(* the tables are finite, without which a cardinality says nothing.        *)
TrackerInv ==
    /\ TrackerTypeOK
    /\ IsFiniteSet(DOMAIN pending)
    /\ IsFiniteSet(RetainedBytes(pending, DOMAIN pending))
    /\ CountersExact
    /\ CapsHold

-----------------------------------------------------------------------------
(* Two disjoint groups of entries add up ...                               *)
LEMMA CardinalitySplit ==
    ASSUME NEW T, IsFiniteSet(T), NEW S \in SUBSET T
    PROVE  /\ Cardinality(S) \in Nat /\ Cardinality(T \ S) \in Nat
           /\ Cardinality(T) = Cardinality(S) + Cardinality(T \ S)
<1>1. IsFiniteSet(S) /\ IsFiniteSet(T \ S)
  BY FS_Subset
<1>2. /\ Cardinality(S) \in Nat /\ Cardinality(T \ S) \in Nat
      /\ Cardinality(T) \in Nat
  BY <1>1, FS_CardinalityType
<1>3. Cardinality(T \ S) = Cardinality(T) - Cardinality(T \cap S)
  BY FS_Difference
<1>4. T \cap S = S
  OBVIOUS
<1> QED
  BY <1>2, <1>3, <1>4

(* ... and so do their bytes.                                              *)
LEMMA RetainedSplit ==
    ASSUME NEW f, NEW T, NEW S \in SUBSET T,
           IsFiniteSet(RetainedBytes(f, T))
    PROVE  /\ IsFiniteSet(RetainedBytes(f, S))
           /\ IsFiniteSet(RetainedBytes(f, T \ S))
           /\ Cardinality(RetainedBytes(f, S)) \in Nat
           /\ Cardinality(RetainedBytes(f, T \ S)) \in Nat
           /\ Cardinality(RetainedBytes(f, T)) =
                Cardinality(RetainedBytes(f, S)) + Cardinality(RetainedBytes(f, T \ S))
<1> DEFINE A == RetainedBytes(f, S)
           B == RetainedBytes(f, T \ S)
<1>1. RetainedBytes(f, T) = A \cup B
  BY DEF RetainedBytes
<1>2. A \cap B = {}
  BY DEF RetainedBytes
<1>3. IsFiniteSet(A) /\ IsFiniteSet(B)
  BY <1>1, FS_Subset
<1>4. Cardinality(A) \in Nat /\ Cardinality(B) \in Nat
  BY <1>3, FS_CardinalityType
<1>5. Cardinality(A \cup B) = Cardinality(A) + Cardinality(B) - Cardinality(A \cap B)
  BY <1>3, FS_Union
<1>6. Cardinality(A \cap B) = 0
  BY <1>2, FS_EmptySet
<1> HIDE DEF A, B
<1>7. Cardinality(A \cup B) = Cardinality(A) + Cardinality(B)
  BY <1>4, <1>5, <1>6
<1> QED
  BY <1>1, <1>3, <1>4, <1>7 DEF A, B

(* One entry retains as many bytes as its batch has.                       *)
LEMMA RetainedOne ==
    ASSUME NEW f, NEW c, f[c].bytes \in Nat
    PROVE  /\ IsFiniteSet(RetainedBytes(f, {c}))
           /\ Cardinality(RetainedBytes(f, {c})) = f[c].bytes
<1> DEFINE n == f[c].bytes
<1>0. n \in Nat
  OBVIOUS
<1>1. RetainedBytes(f, {c}) = {c} \X (1..n)
  BY DEF RetainedBytes
<1> HIDE DEF n
<1>2. IsFiniteSet({c}) /\ Cardinality({c}) = 1
  BY FS_Singleton
<1>3. IsFiniteSet(1..n) /\ Cardinality(1..n) = n
  BY <1>0, FS_Interval
<1>4. /\ IsFiniteSet({c} \X (1..n))
      /\ Cardinality({c} \X (1..n)) = Cardinality({c}) * Cardinality(1..n)
  BY <1>2, <1>3, FS_Product
<1>5. Cardinality({c} \X (1..n)) = n
  BY <1>0, <1>2, <1>3, <1>4
<1> QED
  BY <1>1, <1>4, <1>5 DEF n

(* Only the sizes of the entries matter to what they retain.               *)
LEMMA RetainedAgree ==
    ASSUME NEW f, NEW g, NEW S, \A c \in S : f[c].bytes = g[c].bytes
    PROVE  RetainedBytes(f, S) = RetainedBytes(g, S)
BY DEF RetainedBytes

(* Taking a part back from an exact sum leaves the rest.                   *)
LEMMA SaturatingSubExact ==
    ASSUME NEW a \in Nat, NEW b \in Nat
    PROVE  SaturatingSub(a + b, a) = b
BY DEF SaturatingSub

(* Dropping a group of entries and releasing what they held keeps the       *)
(* invariant: ack, ack_and_get_info and the failures of a tick.            *)
LEMMA ReleaseKeepsInv ==
    ASSUME TrackerInv, NEW X \in SUBSET DOMAIN pending, Release(X),
           TrackerTypeOK',
           DOMAIN pending' = DOMAIN pending \ X,
           \A c \in DOMAIN pending \ X :
              /\ pending'[c].bytes = pending[c].bytes
              /\ pending'[c].dst_node_id = pending[c].dst_node_id
    PROVE  TrackerInv'
<1> DEFINE D == DOMAIN pending
<1>1. /\ IsFiniteSet(D) /\ IsFiniteSet(RetainedBytes(pending, D))
      /\ CountersExact /\ CapsHold
  BY DEF TrackerInv
<1>2. \A S \in SUBSET (D \ X) : RetainedBytes(pending', S) = RetainedBytes(pending, S)
  BY RetainedAgree
<1>3. IsFiniteSet(D \ X) /\ Cardinality(D \ X) <= Cardinality(D)
  BY <1>1, FS_Subset
<1>3a. Cardinality(D) \in Nat /\ Cardinality(D \ X) \in Nat
  BY <1>1, <1>3, FS_CardinalityType
<1>4. /\ IsFiniteSet(RetainedBytes(pending, D \ X))
      /\ ByteCount(X) \in Nat /\ ByteCount(D \ X) \in Nat
      /\ ByteCount(D) = ByteCount(X) + ByteCount(D \ X)
  BY <1>1, RetainedSplit DEF ByteCount
<1>5. total_bytes' = ByteCount(D \ X)
  <2>1. total_bytes' = SaturatingSub(ByteCount(X) + ByteCount(D \ X), ByteCount(X))
    BY <1>1, <1>4 DEF Release, CountersExact
  <2> QED
    BY <2>1, <1>4, SaturatingSubExact
<1>6. ByteCount(DOMAIN pending)' = ByteCount(D \ X)
  BY <1>2 DEF ByteCount
<1>7. ASSUME NEW p \in Peer
      PROVE  /\ per_peer'[p] = Cardinality(BoundFor(DOMAIN pending, p)')
             /\ per_peer_bytes'[p] = ByteCount(BoundFor(DOMAIN pending, p))'
             /\ Cardinality(BoundFor(DOMAIN pending, p)') <= MaxPerPeer
             /\ ByteCount(BoundFor(DOMAIN pending, p))' <= MaxBytesPerPeer
  <2> DEFINE P == BoundFor(D, p)
             Q == BoundFor(X, p)
  <2>1. Q \subseteq P /\ P \subseteq D /\ P \ Q \subseteq D \ X
    BY DEF BoundFor
  <2>2. BoundFor(DOMAIN pending, p)' = P \ Q
    BY DEF BoundFor
  <2>3. /\ per_peer[p] = Cardinality(P) /\ per_peer_bytes[p] = ByteCount(P)
        /\ Cardinality(P) <= MaxPerPeer /\ ByteCount(P) <= MaxBytesPerPeer
    BY <1>1 DEF CountersExact, CapsHold
  <2>4. /\ per_peer'[p] = SaturatingSub(per_peer[p], Cardinality(Q))
        /\ per_peer_bytes'[p] = SaturatingSub(per_peer_bytes[p], ByteCount(Q))
    BY DEF Release
  <2> HIDE DEF P, Q
  <2>5. /\ Cardinality(Q) \in Nat /\ Cardinality(P \ Q) \in Nat
        /\ Cardinality(P) = Cardinality(Q) + Cardinality(P \ Q)
    <3>1. IsFiniteSet(P)
      BY <1>1, <2>1, FS_Subset
    <3> QED
      BY <2>1, <3>1, CardinalitySplit
  <2>6. IsFiniteSet(RetainedBytes(pending, P))
    BY <1>1, <2>1, RetainedSplit
  <2>7. /\ ByteCount(Q) \in Nat /\ ByteCount(P \ Q) \in Nat
        /\ ByteCount(P) = ByteCount(Q) + ByteCount(P \ Q)
    <3>1. Q \in SUBSET P
      BY <2>1
    <3>2. /\ Cardinality(RetainedBytes(pending, Q)) \in Nat
          /\ Cardinality(RetainedBytes(pending, P \ Q)) \in Nat
          /\ Cardinality(RetainedBytes(pending, P)) =
               Cardinality(RetainedBytes(pending, Q))
               + Cardinality(RetainedBytes(pending, P \ Q))
      BY ONLY <3>1, <2>6, RetainedSplit
    <3> QED
      BY <3>2, Zenon DEF ByteCount
  <2>8. ByteCount(BoundFor(DOMAIN pending, p))' = ByteCount(P \ Q)
    BY <1>2, <2>1, <2>2 DEF ByteCount
  <2>9. per_peer'[p] = Cardinality(P \ Q)
    BY <2>3, <2>4, <2>5, SaturatingSubExact
  <2>10. per_peer_bytes'[p] = ByteCount(P \ Q)
    BY <2>3, <2>4, <2>7, SaturatingSubExact
  <2>11. Cardinality(P \ Q) <= MaxPerPeer /\ ByteCount(P \ Q) <= MaxBytesPerPeer
    BY <2>3, <2>5, <2>7, LimitAssumption
  <2> QED
    BY <2>2, <2>8, <2>9, <2>10, <2>11
<1>8. Cardinality(D \ X) <= MaxEntries /\ ByteCount(D \ X) <= MaxBytes
  <2>1. Cardinality(D) <= MaxEntries /\ ByteCount(D) <= MaxBytes
    BY <1>1 DEF CapsHold
  <2> HIDE DEF D
  <2> QED
    BY <2>1, <1>3, <1>3a, <1>4, LimitAssumption
<1>9. CountersExact'
  BY <1>5, <1>6, <1>7 DEF CountersExact
<1>10. CapsHold'
  BY <1>6, <1>7, <1>8 DEF CapsHold
<1> QED
  BY <1>2, <1>3, <1>4, <1>9, <1>10 DEF TrackerInv

(* A step that keeps every entry's recipient and size, and the totals, keeps *)
(* the invariant: the clock, update_next_hop and finish_retry_admission.    *)
LEMMA RelabelKeepsInv ==
    ASSUME TrackerInv, TrackerTypeOK',
           DOMAIN pending' = DOMAIN pending,
           \A c \in DOMAIN pending :
              /\ pending'[c].bytes = pending[c].bytes
              /\ pending'[c].dst_node_id = pending[c].dst_node_id,
           UNCHANGED <<per_peer, total_bytes, per_peer_bytes>>
    PROVE  TrackerInv'
<1>1. \A S \in SUBSET DOMAIN pending :
          RetainedBytes(pending', S) = RetainedBytes(pending, S)
  BY RetainedAgree
<1>2. \A p : BoundFor(DOMAIN pending, p)' = BoundFor(DOMAIN pending, p)
  BY DEF BoundFor
<1>3. \A p : BoundFor(DOMAIN pending, p) \in SUBSET DOMAIN pending
  BY DEF BoundFor
<1>4. ByteCount(DOMAIN pending)' = ByteCount(DOMAIN pending)
  BY <1>1 DEF ByteCount
<1>5. \A p : ByteCount(BoundFor(DOMAIN pending, p))'
              = ByteCount(BoundFor(DOMAIN pending, p))
  BY <1>1, <1>2, <1>3 DEF ByteCount
<1>6. CountersExact'
  BY <1>2, <1>4, <1>5 DEF TrackerInv, CountersExact
<1>7. CapsHold'
  BY <1>2, <1>4, <1>5 DEF TrackerInv, CapsHold
<1> QED
  BY <1>1, <1>6, <1>7 DEF TrackerInv

(* What the admission checks charge a registration of c against: the totals *)
(* over the other entries, for every recipient.                            *)
LEMMA WithoutExact ==
    ASSUME TrackerInv, NEW c
    PROVE  /\ TotalBytesWithout(c) = ByteCount(DOMAIN pending \ {c})
           /\ \A p \in Peer : PeerBytesWithout(c, p)
                               = ByteCount(BoundFor(DOMAIN pending, p) \ {c})
<1> DEFINE D == DOMAIN pending
<1>1. /\ IsFiniteSet(RetainedBytes(pending, D)) /\ CountersExact
      /\ \A x \in D : pending[x].bytes \in Nat
  BY DEF TrackerInv, TrackerTypeOK, PendingEntry
<1>2. ASSUME NEW T \in SUBSET D, NEW held, held = ByteCount(T)
      PROVE  ByteCount(T \ {c}) =
               IF c \in T THEN SaturatingSub(held, pending[c].bytes) ELSE held
  <2>1. CASE c \notin T
    <3>1. T \ {c} = T
      BY <2>1
    <3> QED
      BY <1>2, <2>1, <3>1
  <2>2. CASE c \in T
    <3>1. IsFiniteSet(RetainedBytes(pending, T))
      BY ONLY <1>1, T \in SUBSET D, RetainedSplit
    <3>2. {c} \in SUBSET T
      BY <2>2
    <3>3. /\ Cardinality(RetainedBytes(pending, {c})) \in Nat
          /\ Cardinality(RetainedBytes(pending, T \ {c})) \in Nat
          /\ Cardinality(RetainedBytes(pending, T)) =
               Cardinality(RetainedBytes(pending, {c}))
               + Cardinality(RetainedBytes(pending, T \ {c}))
      <4>1. \A S \in SUBSET T :
              /\ Cardinality(RetainedBytes(pending, S)) \in Nat
              /\ Cardinality(RetainedBytes(pending, T \ S)) \in Nat
              /\ Cardinality(RetainedBytes(pending, T)) =
                   Cardinality(RetainedBytes(pending, S))
                   + Cardinality(RetainedBytes(pending, T \ S))
        <5> TAKE S \in SUBSET T
        <5> QED
          BY ONLY <3>1, S \in SUBSET T, RetainedSplit
      <4> QED
        BY ONLY <3>2, <4>1, Zenon
    <3>4. Cardinality(RetainedBytes(pending, {c})) = pending[c].bytes
      BY ONLY <1>1, <2>2, T \in SUBSET D, RetainedOne
    <3>5. ByteCount(T) = pending[c].bytes + ByteCount(T \ {c})
      BY <3>3, <3>4, Zenon DEF ByteCount
    <3>6. pending[c].bytes \in Nat /\ ByteCount(T \ {c}) \in Nat
      BY <3>3, <3>4, Zenon DEF ByteCount
    <3>7. SaturatingSub(held, pending[c].bytes) = ByteCount(T \ {c})
      BY <1>2, <3>5, <3>6, SaturatingSubExact
    <3> QED
      BY <2>2, <3>7
  <2> QED
    BY <2>1, <2>2
<1>3. TotalBytesWithout(c) = ByteCount(D \ {c})
  <2>1. total_bytes = ByteCount(D) /\ total_bytes \in Nat
    BY <1>1 DEF CountersExact, TrackerInv, TrackerTypeOK
  <2>2. ByteCount(D \ {c}) =
          IF c \in D THEN SaturatingSub(total_bytes, pending[c].bytes) ELSE total_bytes
    BY <1>2, <2>1
  <2> QED
    BY <2>1, <2>2 DEF TotalBytesWithout, ExistingBytes, SaturatingSub
<1>4. ASSUME NEW p \in Peer
      PROVE  PeerBytesWithout(c, p) = ByteCount(BoundFor(D, p) \ {c})
  <2>1. BoundFor(D, p) \in SUBSET D /\ (c \in BoundFor(D, p) <=> p \in ExistingDst(c))
    BY DEF BoundFor, ExistingDst
  <2>2. per_peer_bytes[p] = ByteCount(BoundFor(D, p))
    BY <1>1 DEF CountersExact
  <2>3. ByteCount(BoundFor(D, p) \ {c}) =
          IF c \in BoundFor(D, p) THEN SaturatingSub(per_peer_bytes[p], pending[c].bytes)
                                  ELSE per_peer_bytes[p]
    BY <1>2, <2>1, <2>2
  <2> QED
    BY <2>1, <2>3 DEF PeerBytesWithout, ExistingBytes, ExistingDst
<1> QED
  BY <1>3, <1>4

(* Registering keeps the invariant, whether the id is new, known for the     *)
(* same recipient, or moved from another one.                              *)
LEMMA RegisterKeepsInv ==
    ASSUME TrackerInv, NEW c \in ContentId, NEW hop \in Peer, NEW dst \in Peer,
           NEW batch \in Batch, RegisterFrames(c, hop, dst, batch)
    PROVE  TrackerInv'
<1> DEFINE D == DOMAIN pending
           R == D \ {c}
<1>1. /\ TrackerTypeOK /\ IsFiniteSet(D) /\ IsFiniteSet(RetainedBytes(pending, D))
      /\ CountersExact /\ CapsHold
  BY DEF TrackerInv
<1>2. batch.bytes \in Nat /\ batch.frames \in Nat \ {0}
  BY BatchAssumption
<1>3. /\ DOMAIN pending' = D \cup {c}
      /\ pending'[c].bytes = batch.bytes /\ pending'[c].dst_node_id = dst
      /\ \A x \in R : pending'[x] = pending[x]
  BY DEF RegisterFrames
<1>4. \A T \in SUBSET R : RetainedBytes(pending', T) = RetainedBytes(pending, T)
  BY <1>3, RetainedAgree
\* the bytes of a group of entries after the step
<1>5. ASSUME NEW T \in SUBSET R
      PROVE  /\ ByteCount(T) \in Nat
             /\ Cardinality(RetainedBytes(pending', T)) = ByteCount(T)
             /\ IsFiniteSet(RetainedBytes(pending', T \cup {c}))
             /\ Cardinality(RetainedBytes(pending', T \cup {c})) = ByteCount(T) + batch.bytes
  <2>1. T \in SUBSET D
    OBVIOUS
  <2>2. IsFiniteSet(RetainedBytes(pending, T)) /\ Cardinality(RetainedBytes(pending, T)) \in Nat
    BY ONLY <1>1, <2>1, RetainedSplit
  <2>3. /\ IsFiniteSet(RetainedBytes(pending', {c}))
        /\ Cardinality(RetainedBytes(pending', {c})) = batch.bytes
    <3>1. pending'[c].bytes \in Nat /\ pending'[c].bytes = batch.bytes
      BY <1>2, <1>3
    <3> QED
      BY ONLY <3>1, RetainedOne
  <2>4. RetainedBytes(pending', T) = RetainedBytes(pending, T)
    BY <1>4
  <2>5. RetainedBytes(pending', T \cup {c})
          = RetainedBytes(pending', T) \cup RetainedBytes(pending', {c})
    BY DEF RetainedBytes
  <2>6. IsFiniteSet(RetainedBytes(pending', T \cup {c}))
    BY ONLY <2>2, <2>3, <2>4, <2>5, FS_Union
  <2>7. {c} \in SUBSET (T \cup {c}) /\ (T \cup {c}) \ {c} = T
    OBVIOUS
  <2>8. Cardinality(RetainedBytes(pending', T \cup {c})) =
          Cardinality(RetainedBytes(pending', {c}))
          + Cardinality(RetainedBytes(pending', (T \cup {c}) \ {c}))
    BY ONLY <2>6, <2>7, RetainedSplit
  <2>9. ByteCount(T) = Cardinality(RetainedBytes(pending, T))
    BY DEF ByteCount
  <2> QED
    BY ONLY <1>2, <2>2, <2>3, <2>4, <2>6, <2>7, <2>8, <2>9
<1>6. D \cup {c} = R \cup {c}
  OBVIOUS
<1>7. /\ TotalBytesWithout(c) = ByteCount(R)
      /\ \A p \in Peer : PeerBytesWithout(c, p) = ByteCount(BoundFor(D, p) \ {c})
  BY WithoutExact
<1>8. /\ ByteCount(DOMAIN pending)' = ByteCount(R) + batch.bytes
      /\ total_bytes' = ByteCount(R) + batch.bytes
      /\ ByteCount(R) + batch.bytes <= MaxBytes
  <2>1. ByteCount(DOMAIN pending)' = Cardinality(RetainedBytes(pending', D \cup {c}))
    BY <1>3 DEF ByteCount
  <2> QED
    BY <2>1, <1>5, <1>6, <1>7 DEF RegisterFrames, Admits
<1>9. IsFiniteSet(DOMAIN pending') /\ Cardinality(DOMAIN pending') <= MaxEntries
  <2>1. /\ IsFiniteSet(D \cup {c})
        /\ Cardinality(D \cup {c}) = IF c \in D THEN Cardinality(D) ELSE Cardinality(D) + 1
    BY <1>1, FS_AddElement
  <2>2. Cardinality(D) <= MaxEntries /\ Cardinality(D) \in Nat
    BY <1>1, FS_CardinalityType DEF CapsHold
  <2>3. c \in D \/ Cardinality(D) < MaxEntries
    BY DEF RegisterFrames, Admits
  <2> QED
    BY <1>3, <2>1, <2>2, <2>3, LimitAssumption
<1>10. ASSUME NEW p \in Peer
       PROVE  /\ per_peer'[p] = Cardinality(BoundFor(DOMAIN pending, p)')
              /\ per_peer_bytes'[p] = ByteCount(BoundFor(DOMAIN pending, p))'
              /\ Cardinality(BoundFor(DOMAIN pending, p)') <= MaxPerPeer
              /\ ByteCount(BoundFor(DOMAIN pending, p))' <= MaxBytesPerPeer
  <2> DEFINE P == BoundFor(D, p)
             Q == P \ {c}
  <2>1. P \subseteq D /\ Q \in SUBSET R /\ (c \in P <=> p \in ExistingDst(c))
    BY DEF BoundFor, ExistingDst
  <2>2. BoundFor(DOMAIN pending, p)' = IF p = dst THEN Q \cup {c} ELSE Q
    BY <1>3 DEF BoundFor
  <2>3. /\ per_peer[p] = Cardinality(P) /\ per_peer_bytes[p] = ByteCount(P)
        /\ Cardinality(P) <= MaxPerPeer /\ ByteCount(P) <= MaxBytesPerPeer
    BY <1>1 DEF CountersExact, CapsHold
  <2>4. PeerBytesWithout(c, p) = ByteCount(Q)
    BY <1>7
  <2>5. IsFiniteSet(P) /\ Cardinality(P) \in Nat
    BY <1>1, <2>1, FS_Subset, FS_CardinalityType
  <2>6. /\ IsFiniteSet(Q)
        /\ Cardinality(Q) = IF c \in P THEN Cardinality(P) - 1 ELSE Cardinality(P)
    BY <2>5, FS_RemoveElement
  <2>7. Cardinality(Q) \in Nat
    BY <2>6, FS_CardinalityType
  <2>8. Cardinality(Q \cup {c}) = Cardinality(Q) + 1
    BY <2>6, FS_AddElement
  <2>9. /\ per_peer_bytes'[p] =
              PeerBytesWithout(c, p) + (IF p = dst THEN batch.bytes ELSE 0)
        /\ p = dst => PeerBytesWithout(c, p) + batch.bytes <= MaxBytesPerPeer
    BY DEF RegisterFrames, Admits
  <2>10. per_peer'[p] =
           CASE dst \in ExistingDst(c) -> per_peer[p]
             [] dst \notin ExistingDst(c) /\ p = dst -> per_peer[p] + 1
             [] dst \notin ExistingDst(c) /\ p \in ExistingDst(c) ->
                   SaturatingSub(per_peer[p], 1)
             [] OTHER -> per_peer[p]
    BY DEF RegisterFrames
  <2>11. dst \in ExistingDst(c) \/ per_peer[dst] < MaxPerPeer
    BY DEF RegisterFrames, Admits
  <2>12. \A q \in ExistingDst(c) : ExistingDst(c) = {q}
    BY DEF ExistingDst
  <2>13. Q \in SUBSET P
    OBVIOUS
  <2> HIDE DEF P, Q
  <2>21. ByteCount(Q) \in Nat /\ ByteCount(Q) <= ByteCount(P) /\ ByteCount(P) \in Nat
    <3>1. IsFiniteSet(RetainedBytes(pending, P)) /\ Cardinality(RetainedBytes(pending, P)) \in Nat
      BY ONLY <1>1, <2>1, RetainedSplit
    <3>2. /\ Cardinality(RetainedBytes(pending, Q)) \in Nat
          /\ Cardinality(RetainedBytes(pending, P \ Q)) \in Nat
          /\ Cardinality(RetainedBytes(pending, P)) =
               Cardinality(RetainedBytes(pending, Q))
               + Cardinality(RetainedBytes(pending, P \ Q))
      BY ONLY <3>1, <2>13, RetainedSplit
    <3>3. /\ ByteCount(P) = Cardinality(RetainedBytes(pending, P))
          /\ ByteCount(Q) = Cardinality(RetainedBytes(pending, Q))
      BY DEF ByteCount
    <3> QED
      BY ONLY <3>1, <3>2, <3>3
  <2>14. ByteCount(BoundFor(DOMAIN pending, p))' =
           ByteCount(Q) + (IF p = dst THEN batch.bytes ELSE 0)
    <3>1. ByteCount(BoundFor(DOMAIN pending, p))'
            = Cardinality(RetainedBytes(pending', BoundFor(DOMAIN pending, p)'))
      BY DEF ByteCount
    <3>2. /\ Cardinality(RetainedBytes(pending', Q)) = ByteCount(Q)
          /\ Cardinality(RetainedBytes(pending', Q \cup {c})) = ByteCount(Q) + batch.bytes
      BY ONLY <1>5, <2>1
    <3> QED
      BY ONLY <2>2, <2>21, <3>1, <3>2
  <2>15. ByteCount(BoundFor(DOMAIN pending, p))' <= MaxBytesPerPeer
    BY ONLY <1>2, <2>3, <2>4, <2>9, <2>21, <2>14, LimitAssumption
  <2>16. per_peer_bytes'[p] = ByteCount(BoundFor(DOMAIN pending, p))'
    BY <2>4, <2>9, <2>14
  <2>17. CASE p = dst /\ dst \in ExistingDst(c)
    <3>1. c \in P /\ per_peer'[p] = per_peer[p]
      BY <2>1, <2>10, <2>17
    <3>2. Cardinality(BoundFor(DOMAIN pending, p)') = Cardinality(P)
      <4>1. BoundFor(DOMAIN pending, p)' = Q \cup {c}
        BY <2>2, <2>17
      <4>2. Cardinality(Q) = Cardinality(P) - 1
        BY <2>6, <3>1
      <4>3. Cardinality(Q \cup {c}) = Cardinality(P)
        BY <4>2, <2>5, <2>8
      <4> QED
        BY <4>1, <4>3
    <3> QED
      BY <3>1, <3>2, <2>3, <2>15, <2>16
  <2>18. CASE p = dst /\ dst \notin ExistingDst(c)
    <3>1. c \notin P /\ per_peer'[p] = per_peer[p] + 1 /\ per_peer[p] < MaxPerPeer
      BY <2>1, <2>10, <2>11, <2>18
    <3>2. Cardinality(BoundFor(DOMAIN pending, p)') = Cardinality(P) + 1
      <4>1. BoundFor(DOMAIN pending, p)' = Q \cup {c}
        BY <2>2, <2>18
      <4>2. Cardinality(Q) = Cardinality(P)
        BY <2>6, <3>1
      <4> QED
        BY ONLY <4>1, <4>2, <2>5, <2>8
    <3> QED
      BY <3>1, <3>2, <2>3, <2>5, <2>15, <2>16, LimitAssumption
  <2>19. CASE p # dst /\ p \in ExistingDst(c)
    <3>1. c \in P /\ per_peer'[p] = SaturatingSub(per_peer[p], 1)
      BY <2>1, <2>10, <2>12, <2>19
    <3>2. SaturatingSub(per_peer[p], 1) = Cardinality(Q)
      BY <3>1, <2>3, <2>5, <2>6, <2>7 DEF SaturatingSub
    <3> QED
      BY <3>1, <3>2, <2>2, <2>3, <2>5, <2>6, <2>15, <2>16, <2>19, LimitAssumption
  <2>20. CASE p # dst /\ p \notin ExistingDst(c)
    <3>1. c \notin P /\ per_peer'[p] = per_peer[p]
      BY <2>1, <2>10, <2>20
    <3> QED
      BY <3>1, <2>2, <2>3, <2>6, <2>15, <2>16, <2>20
  <2> QED
    BY <2>17, <2>18, <2>19, <2>20
<1>11. TrackerTypeOK'
  <2>1. \E S \in SUBSET ContentId : pending' \in [S -> PendingEntry]
    <3>1. D \in SUBSET ContentId /\ \A x \in D : pending[x] \in PendingEntry
      BY <1>1 DEF TrackerTypeOK
    <3>2. [frames |-> batch.frames, bytes |-> batch.bytes, next_hop |-> hop,
           dst_node_id |-> dst, attempts |-> 1, left |-> AckTimeout] \in PendingEntry
      BY <1>2, LimitAssumption DEF PendingEntry
    <3>3. pending' \in [D \cup {c} -> PendingEntry]
      BY <3>1, <3>2 DEF RegisterFrames
    <3> QED
      BY <3>1, <3>3
  <2>2. total_bytes' \in Nat
    <3>1. ByteCount(R) \in Nat
      BY <1>5
    <3> QED
      BY <1>2, <1>8, <3>1
  <2>3. \A p \in Peer : per_peer[p] \in Nat /\ PeerBytesWithout(c, p) \in Nat
    <3>1. \A p \in Peer : BoundFor(D, p) \ {c} \in SUBSET R
      BY DEF BoundFor
    <3> QED
      BY <1>1, <1>5, <1>7, <3>1 DEF TrackerTypeOK
  <2>4. per_peer' \in [Peer -> Nat]
    BY <2>3 DEF RegisterFrames, SaturatingSub
  <2>5. per_peer_bytes' \in [Peer -> Nat]
    BY <1>2, <2>3 DEF RegisterFrames
  <2> QED
    BY <2>1, <2>2, <2>4, <2>5 DEF TrackerTypeOK
<1>12. CountersExact'
  BY <1>8, <1>10 DEF CountersExact
<1>13. CapsHold'
  BY <1>8, <1>9, <1>10 DEF CapsHold
<1>14. IsFiniteSet(RetainedBytes(pending, DOMAIN pending)')
  BY <1>3, <1>5, <1>6
<1> QED
  BY <1>9, <1>11, <1>12, <1>13, <1>14 DEF TrackerInv

-----------------------------------------------------------------------------
(* The three parts of the induction.                                       *)
LEMMA InitEstablishesInv == TrackerInit => TrackerInv
<1> SUFFICES ASSUME TrackerInit PROVE TrackerInv
  OBVIOUS
<1>1. DOMAIN pending = {} /\ \A p : BoundFor(DOMAIN pending, p) = {}
  BY DEF TrackerInit, BoundFor
<1>2. RetainedBytes(pending, {}) = {}
  BY DEF RetainedBytes
<1>3. IsFiniteSet({}) /\ Cardinality({}) = 0
  BY FS_EmptySet
<1>4. ByteCount({}) = 0
  BY <1>2, <1>3 DEF ByteCount
<1>5. TrackerTypeOK
  BY DEF TrackerInit, TrackerTypeOK
<1>6. CountersExact
  BY <1>1, <1>3, <1>4 DEF TrackerInit, CountersExact
<1>7. CapsHold
  BY <1>1, <1>3, <1>4, LimitAssumption DEF CapsHold
<1> QED
  BY <1>1, <1>2, <1>3, <1>5, <1>6, <1>7 DEF TrackerInv

(* Releasing entries keeps the counters' types.                            *)
LEMMA ReleaseTypes ==
    ASSUME TrackerInv, NEW X \in SUBSET DOMAIN pending, Release(X)
    PROVE  per_peer' \in [Peer -> Nat] /\ total_bytes' \in Nat
           /\ per_peer_bytes' \in [Peer -> Nat]
<1> DEFINE D == DOMAIN pending
<1>1. /\ TrackerTypeOK /\ IsFiniteSet(D) /\ IsFiniteSet(RetainedBytes(pending, D))
  BY DEF TrackerInv
<1>2. ASSUME NEW T \in SUBSET D
      PROVE  Cardinality(T) \in Nat /\ ByteCount(T) \in Nat
  <2>1. Cardinality(T) \in Nat
    BY <1>1, FS_Subset, FS_CardinalityType
  <2>2. Cardinality(RetainedBytes(pending, T)) \in Nat
    BY ONLY <1>1, T \in SUBSET D, RetainedSplit
  <2> QED
    BY <2>1, <2>2 DEF ByteCount
<1>3. \A p : BoundFor(X, p) \in SUBSET D
  BY DEF BoundFor
<1>4. \A a, b \in Nat : SaturatingSub(a, b) \in Nat
  BY DEF SaturatingSub
<1>5. ByteCount(X) \in Nat
  BY <1>2
<1>6. \A p : Cardinality(BoundFor(X, p)) \in Nat /\ ByteCount(BoundFor(X, p)) \in Nat
  BY <1>2, <1>3
<1>7. /\ total_bytes \in Nat
      /\ \A p \in Peer : per_peer[p] \in Nat /\ per_peer_bytes[p] \in Nat
  BY <1>1 DEF TrackerTypeOK
<1> QED
  BY <1>4, <1>5, <1>6, <1>7 DEF Release

LEMMA NextKeepsInv == TrackerInv /\ [TrackerNext]_trackerVars => TrackerInv'
<1> SUFFICES ASSUME TrackerInv, [TrackerNext]_trackerVars PROVE TrackerInv'
  OBVIOUS
<1> DEFINE D == DOMAIN pending
<1>1. /\ D \in SUBSET ContentId /\ \A x \in D : pending[x] \in PendingEntry
      /\ pending \in [D -> PendingEntry]
      /\ per_peer \in [Peer -> Nat] /\ total_bytes \in Nat
      /\ per_peer_bytes \in [Peer -> Nat]
  BY DEF TrackerInv, TrackerTypeOK
<1>2. ASSUME NEW c \in ContentId, NEW hop \in Peer, NEW dst \in Peer,
             NEW batch \in Batch, RegisterFrames(c, hop, dst, batch)
      PROVE  TrackerInv'
  BY <1>2, RegisterKeepsInv
<1>3. ASSUME NEW c \in ContentId, Ack(c)
      PROVE  TrackerInv'
  <2>1. {c} \in SUBSET D /\ Release({c})
    BY <1>3 DEF Ack
  <2>2. /\ DOMAIN pending' = D \ {c}
        /\ \A x \in D \ {c} : pending'[x] = pending[x]
        /\ pending' \in [D \ {c} -> PendingEntry]
    BY <1>1, <1>3 DEF Ack
  <2>3. TrackerTypeOK'
    BY <1>1, <2>1, <2>2, ReleaseTypes DEF TrackerTypeOK
  <2> QED
    BY <2>1, <2>2, <2>3, ReleaseKeepsInv
<1>4. ASSUME NEW inFlight \in SUBSET ContentId, NEW R \in SUBSET Retryable(inFlight),
             TickWithBatchAdmission(inFlight, R)
      PROVE  TrackerInv'
  <2> DEFINE X == Exhausted(inFlight)
  <2>1. X \in SUBSET D /\ Release(X) /\ R \subseteq D
    BY <1>4 DEF TickWithBatchAdmission, Exhausted, Due, Retryable
  <2>2. \A x \in R : pending[x].attempts + 1 \in 1..MaxAttempts
    BY <1>1, <2>1, LimitAssumption DEF Retryable, Exhausted, PendingEntry
  <2>3. /\ DOMAIN pending' = D \ X
        /\ \A x \in D \ X : /\ pending'[x].bytes = pending[x].bytes
                             /\ pending'[x].dst_node_id = pending[x].dst_node_id
    BY <1>1, <1>4 DEF TickWithBatchAdmission, PendingEntry
  <2>4. pending' \in [D \ X -> PendingEntry]
    <3>1. \A x \in R : [pending[x] EXCEPT !.attempts = @ + 1, !.left = AckTimeout]
                         \in PendingEntry
      <4> TAKE x \in R
      <4>1. /\ pending[x] \in PendingEntry
            /\ pending[x].attempts + 1 \in 1..MaxAttempts
            /\ AckTimeout \in 0..AckTimeout
        BY <1>1, <2>1, <2>2, LimitAssumption
      <4> QED
        BY ONLY <4>1 DEF PendingEntry
    <3> QED
      BY <1>1, <1>4, <3>1 DEF TickWithBatchAdmission
  <2>5. TrackerTypeOK'
    BY <1>1, <2>1, <2>4, ReleaseTypes DEF TrackerTypeOK
  <2> HIDE DEF X
  <2> QED
    BY <2>1, <2>3, <2>5, ReleaseKeepsInv
<1>5. ASSUME NEW c \in ContentId, NEW attempt \in 1..MaxAttempts, NEW hops \in SUBSET Peer,
             FinishRetryAdmission(c, attempt, hops)
      PROVE  TrackerInv'
  <2>1. CASE RetryIsCurrent(c, attempt)
    <3>1. c \in D
      BY <2>1 DEF RetryIsCurrent
    <3>2. PICK hop \in (IF hops = {} THEN {pending[c].next_hop} ELSE hops) :
             pending' = [pending EXCEPT ![c].next_hop = hop, ![c].left = AckTimeout]
      BY <1>5, <2>1 DEF FinishRetryAdmission
    <3>3. hop \in Peer
      BY <1>1, <3>1, <3>2 DEF PendingEntry
    <3>4. pending' \in [D -> PendingEntry]
      BY <1>1, <3>1, <3>2, <3>3, LimitAssumption DEF PendingEntry
    <3>5. \A x \in D : /\ pending'[x].bytes = pending[x].bytes
                       /\ pending'[x].dst_node_id = pending[x].dst_node_id
      BY <1>1, <3>1, <3>2 DEF PendingEntry
    <3>6. UNCHANGED <<per_peer, total_bytes, per_peer_bytes>>
      BY <1>5 DEF FinishRetryAdmission
    <3>7. TrackerTypeOK'
      BY <1>1, <3>4, <3>6 DEF TrackerTypeOK
    <3> QED
      BY <3>4, <3>5, <3>6, <3>7, RelabelKeepsInv
  <2>2. CASE ~RetryIsCurrent(c, attempt)
    <3>1. pending' = pending /\ UNCHANGED <<per_peer, total_bytes, per_peer_bytes>>
      BY <1>5, <2>2 DEF FinishRetryAdmission
    <3>2. TrackerTypeOK'
      BY <3>1 DEF TrackerInv, TrackerTypeOK
    <3> QED
      BY <3>1, <3>2, RelabelKeepsInv
  <2> QED
    BY <2>1, <2>2
<1>6. ASSUME NEW c \in ContentId, NEW hop \in Peer, UpdateNextHop(c, hop)
      PROVE  TrackerInv'
  <2>1. /\ pending' \in [D -> PendingEntry]
        /\ \A x \in D : /\ pending'[x].bytes = pending[x].bytes
                        /\ pending'[x].dst_node_id = pending[x].dst_node_id
    BY <1>1, <1>6 DEF UpdateNextHop, PendingEntry
  <2>2. UNCHANGED <<per_peer, total_bytes, per_peer_bytes>>
    BY <1>6 DEF UpdateNextHop
  <2>3. TrackerTypeOK'
    BY <1>1, <2>1, <2>2 DEF TrackerTypeOK
  <2> QED
    BY <2>1, <2>2, <2>3, RelabelKeepsInv
<1>7. CASE ClockStep
  <2>1. \A x \in D : SaturatingSub(pending[x].left, 1) \in 0..AckTimeout
    BY <1>1, LimitAssumption DEF PendingEntry, SaturatingSub
  <2>2. /\ pending' \in [D -> PendingEntry]
        /\ \A x \in D : /\ pending'[x].bytes = pending[x].bytes
                        /\ pending'[x].dst_node_id = pending[x].dst_node_id
    BY <1>1, <1>7, <2>1 DEF ClockStep, PendingEntry
  <2>3. UNCHANGED <<per_peer, total_bytes, per_peer_bytes>>
    BY <1>7 DEF ClockStep
  <2>4. TrackerTypeOK'
    BY <1>1, <2>2, <2>3 DEF TrackerTypeOK
  <2> QED
    BY <2>2, <2>3, <2>4, RelabelKeepsInv
<1>8. CASE UNCHANGED trackerVars
  <2>1. pending' = pending /\ UNCHANGED <<per_peer, total_bytes, per_peer_bytes>>
    BY <1>8 DEF trackerVars
  <2>2. TrackerTypeOK'
    BY <2>1 DEF TrackerInv, TrackerTypeOK
  <2> QED
    BY <2>1, <2>2, RelabelKeepsInv
<1>9. \A inFlight, slots : Retransmits(inFlight, slots) \subseteq SUBSET Retryable(inFlight)
  BY DEF Retransmits
<1> QED
  BY <1>2, <1>3, <1>4, <1>5, <1>6, <1>7, <1>8, <1>9 DEF TrackerNext

-----------------------------------------------------------------------------
(* Whatever its callers do, the tracker's types hold, so an entry never      *)
(* carries an attempt number outside 1..MAX_DELIVERY_ATTEMPTS.             *)
THEOREM TrackerTypes == TrackerSpec => []TrackerTypeOK
<1>1. TrackerInv => TrackerTypeOK
  BY DEF TrackerInv
<1> QED
  BY InitEstablishesInv, NextKeepsInv, <1>1, PTL DEF TrackerSpec

(* The running totals of register_frames, ack and tick_with_batch_admission  *)
(* always equal the sums over the retained entries.                        *)
THEOREM TrackerCountersExact == TrackerSpec => []CountersExact
<1>1. TrackerInv => CountersExact
  BY DEF TrackerInv
<1> QED
  BY InitEstablishesInv, NextKeepsInv, <1>1, PTL DEF TrackerSpec

(* No sequence of operations passes any of the four limits of TrackerLimits. *)
THEOREM TrackerCapsHold == TrackerSpec => []CapsHold
<1>1. TrackerInv => CapsHold
  BY DEF TrackerInv
<1> QED
  BY InitEstablishesInv, NextKeepsInv, <1>1, PTL DEF TrackerSpec
=============================================================================
