----------------------- MODULE ChunkReassemblyProofs -----------------------
(***************************************************************************)
(* The reassembler's byte total is exact, nobody passes a quota, messages  *)
(* are handed on whole and, while tombstones suffice, once, for every set  *)
(* of chunks (well framed or not), every previous hop and every limit.     *)
(***************************************************************************)
EXTENDS ChunkReassembly, FiniteSetTheorems, TLAPS

Partial ==
    [meta : {ch.meta : ch \in Chunk}, peer : Peer, received : SUBSET Nat,
     received_count : Nat, received_bytes : Nat, left : 0..TransferTtl]
Tombstone == [content_id : {ch.meta.content_id : ch \in Chunk}, left : 0..TransferTtl]

\* Some indices of the transfer, counted right.
Counted(p) == /\ p.received \subseteq 0..(p.meta.count - 1)
              /\ p.received_count = Cardinality(p.received)
              /\ p.received_count >= 1

(* A table of transfers as add_scoped, between eviction and completion, may  *)
(* see it.                                                                 *)
Table(T) ==
    /\ DOMAIN T \subseteq Key /\ IsFiniteSet(DOMAIN T)
    /\ \A k \in DOMAIN T : T[k] \in Partial /\ Counted(T[k])

\* The quotas of one sender and one previous hop over a table.
Quotas(T) ==
    /\ Cardinality(DOMAIN T) <= MaxTransfers
    /\ HeldBytes(T, DOMAIN T) <= MaxBytes
    /\ \A k \in DOMAIN T :
          /\ Cardinality(OfSender(T, T[k].meta.sender)) <= MaxPerSender
          /\ HeldBytes(T, OfSender(T, T[k].meta.sender)) <= MaxBytesPerSender
          /\ Cardinality(OfPeer(T, T[k].peer)) <= MaxPerPeer
          /\ HeldBytes(T, OfPeer(T, T[k].peer)) <= MaxBytesPerPeer

(* The partial transfers: types, exact count of bytes, quotas, and none of   *)
(* them full.                                                              *)
Buffer ==
    /\ Table(transfers)
    /\ total_buffered = HeldBytes(transfers, DOMAIN transfers)
    /\ Quotas(transfers)
    /\ \A k \in DOMAIN transfers : transfers[k].received_count < transfers[k].meta.count

\* Keys whose message was handed on.
Done == {m.key : m \in messages}

(* Tombstones and lifetimes: a transfer outlives the carriers of its key, so *)
(* the tombstone it leaves does too; tombstones are of completed transfers. *)
Lifetimes ==
    /\ DOMAIN life \subseteq Key /\ \A k \in DOMAIN life : life[k] \in 0..EnvTtl
    /\ DOMAIN completed \subseteq Done /\ Done \subseteq DOMAIN life
    /\ IsFiniteSet(Done)
    /\ \A k \in DOMAIN completed : completed[k] \in Tombstone
    /\ \A k \in DOMAIN transfers : k \in DOMAIN life /\ life[k] <= transfers[k].left

(* While tombstones suffice, every key done has one as long as it lives.    *)
Buried ==
    Cardinality(Done) <= MaxCompleted =>
       /\ \A m \in messages : ~m.again
       /\ \A k \in Done : life[k] > 0 =>
             /\ k \in DOMAIN completed /\ life[k] <= completed[k].left
             /\ k \notin DOMAIN transfers

(* Messages handed on are whole.                                           *)
Whole ==
    \A m \in messages : m.received = 0..(m.meta.count - 1) /\ m.received_bytes = m.meta.total

ChunkInv == Buffer /\ Lifetimes /\ Buried /\ Whole

-----------------------------------------------------------------------------
(* Sums of bytes.  Finitely many transfers hold finitely many bytes ...     *)
Sized(T, S) == IsFiniteSet(S) /\ \A k \in S : T[k].received_bytes \in Nat

LEMMA HeldFinite ==
    ASSUME NEW T, NEW S, Sized(T, S)
    PROVE  IsFiniteSet(Held(T, S)) /\ HeldBytes(T, S) \in Nat
<1> DEFINE f == [k \in S |-> {k} \X (1..T[k].received_bytes)]
           R == {{k} \X (1..T[k].received_bytes) : k \in S}
<1>1. f \in Surjection(S, R)
  BY DEF Surjection
<1>2. IsFiniteSet(R)
  BY <1>1, FS_Surjection DEF Sized
<1>3. ASSUME NEW k \in S PROVE IsFiniteSet({k} \X (1..T[k].received_bytes))
  <2> DEFINE n == T[k].received_bytes
  <2>1. n \in Nat
    BY DEF Sized
  <2> HIDE DEF n
  <2>2. IsFiniteSet(1..n)
    BY <2>1, FS_Interval
  <2>3. IsFiniteSet({k})
    BY FS_Singleton
  <2> QED
    BY <2>2, <2>3, FS_Product DEF n
<1>4. IsFiniteSet(UNION R)
  BY <1>2, <1>3, FS_UNION
<1>5. Held(T, S) = UNION R
  BY DEF Held
<1> QED
  BY <1>4, <1>5, FS_CardinalityType DEF HeldBytes

(* ... a group's share and the rest add up ...                             *)
LEMMA HeldSplit ==
    ASSUME NEW T, NEW D, Sized(T, D), NEW S \in SUBSET D
    PROVE  /\ HeldBytes(T, S) \in Nat /\ HeldBytes(T, D \ S) \in Nat
           /\ HeldBytes(T, D) = HeldBytes(T, S) + HeldBytes(T, D \ S)
<1> DEFINE A == Held(T, S)
           B == Held(T, D \ S)
<1>1. Sized(T, S) /\ Sized(T, D \ S)
  BY FS_Subset DEF Sized
<1>2. IsFiniteSet(A) /\ IsFiniteSet(B) /\ HeldBytes(T, S) \in Nat /\ HeldBytes(T, D \ S) \in Nat
  BY <1>1, HeldFinite
<1>3. Held(T, D) = A \cup B /\ A \cap B = {}
  BY DEF Held
<1>4. Cardinality(A \cup B) = Cardinality(A) + Cardinality(B) - Cardinality(A \cap B)
  BY <1>2, FS_Union
<1>5. Cardinality(A \cap B) = 0
  BY <1>3, FS_EmptySet
<1>6. Cardinality(A) \in Nat /\ Cardinality(B) \in Nat
  BY <1>2 DEF HeldBytes
<1> HIDE DEF A, B
<1>7. Cardinality(A \cup B) = Cardinality(A) + Cardinality(B)
  BY <1>4, <1>5, <1>6
<1> QED
  BY <1>2, <1>3, <1>7 DEF HeldBytes, A, B

(* ... a transfer's share is its received_bytes ...                         *)
LEMMA HeldOne ==
    ASSUME NEW T, NEW k, T[k].received_bytes \in Nat
    PROVE  HeldBytes(T, {k}) = T[k].received_bytes
<1> DEFINE n == T[k].received_bytes
<1>0. n \in Nat
  OBVIOUS
<1>1. Held(T, {k}) = {k} \X (1..n)
  BY DEF Held
<1> HIDE DEF n
<1>2. IsFiniteSet({k}) /\ Cardinality({k}) = 1
  BY FS_Singleton
<1>3. IsFiniteSet(1..n) /\ Cardinality(1..n) = n
  BY <1>0, FS_Interval
<1>4. Cardinality({k} \X (1..n)) = Cardinality({k}) * Cardinality(1..n)
  BY <1>2, <1>3, FS_Product
<1>5. Cardinality({k} \X (1..n)) = n
  BY <1>0, <1>2, <1>3, <1>4
<1> QED
  BY <1>1, <1>5 DEF n, HeldBytes

(* ... and only the sizes matter.                                          *)
LEMMA HeldAgree ==
    ASSUME NEW T, NEW U, NEW S, \A k \in S : T[k].received_bytes = U[k].received_bytes
    PROVE  HeldBytes(T, S) = HeldBytes(U, S)
<1>1. Held(T, S) = Held(U, S)
  BY DEF Held
<1> QED
  BY <1>1 DEF HeldBytes

(* The groups of a table.                                                  *)
LEMMA TableGroups ==
    ASSUME NEW T, Table(T), NEW S \in SUBSET DOMAIN T
    PROVE  /\ IsFiniteSet(S) /\ Cardinality(S) \in Nat
           /\ Cardinality(S) <= Cardinality(DOMAIN T)
           /\ HeldBytes(T, S) \in Nat /\ HeldBytes(T, S) <= HeldBytes(T, DOMAIN T)
           /\ \A k \in DOMAIN T : T[k].received_bytes \in Nat
<1>0. Sized(T, DOMAIN T)
  BY DEF Table, Partial, Sized
<1>1. IsFiniteSet(DOMAIN T) /\ \A k \in DOMAIN T : T[k].received_bytes \in Nat
  BY <1>0 DEF Sized
<1>2. IsFiniteSet(S) /\ Cardinality(S) <= Cardinality(DOMAIN T)
  BY <1>1, FS_Subset
<1>3. Cardinality(S) \in Nat
  BY <1>2, FS_CardinalityType
<1>4. /\ HeldBytes(T, S) \in Nat /\ HeldBytes(T, DOMAIN T \ S) \in Nat
      /\ HeldBytes(T, DOMAIN T) = HeldBytes(T, S) + HeldBytes(T, DOMAIN T \ S)
  BY <1>0, HeldSplit
<1>5. HeldBytes(T, S) <= HeldBytes(T, DOMAIN T)
  BY <1>4
<1> QED
  BY <1>1, <1>2, <1>3, <1>4, <1>5

(* Smaller groups hold less.                                               *)
LEMMA GroupsShrink ==
    ASSUME NEW T, Table(T), NEW S \in SUBSET DOMAIN T, NEW R \in SUBSET S
    PROVE  Cardinality(R) <= Cardinality(S) /\ HeldBytes(T, R) <= HeldBytes(T, S)
<1>1. Sized(T, S)
  BY TableGroups DEF Sized
<1>2. Cardinality(R) <= Cardinality(S)
  BY <1>1, FS_Subset DEF Sized
<1>3. /\ HeldBytes(T, R) \in Nat /\ HeldBytes(T, S \ R) \in Nat
      /\ HeldBytes(T, S) = HeldBytes(T, R) + HeldBytes(T, S \ R)
  BY <1>1, HeldSplit
<1>4. HeldBytes(T, R) <= HeldBytes(T, S)
  BY ONLY <1>3
<1> QED
  BY <1>2, <1>4

(* A part of a table: evict_expired's and try_complete's result.            *)
LEMMA RestrictTable ==
    ASSUME NEW T, Table(T), NEW S \in SUBSET DOMAIN T
    PROVE  /\ DOMAIN Restrict(T, S) = S /\ \A k \in S : Restrict(T, S)[k] = T[k]
           /\ Table(Restrict(T, S))
           /\ \A R \in SUBSET S : HeldBytes(Restrict(T, S), R) = HeldBytes(T, R)
           /\ Quotas(T) => Quotas(Restrict(T, S))
<1> DEFINE U == Restrict(T, S)
<1>1. DOMAIN U = S /\ \A k \in S : U[k] = T[k]
  BY DEF Restrict
<1>2. IsFiniteSet(S) /\ Cardinality(S) <= Cardinality(DOMAIN T)
      /\ HeldBytes(T, S) <= HeldBytes(T, DOMAIN T)
  BY TableGroups
<1> HIDE DEF U
<1>3. Table(U)
  BY <1>1, <1>2 DEF Table
<1>4. ASSUME NEW R \in SUBSET S PROVE HeldBytes(U, R) = HeldBytes(T, R)
  BY <1>1, HeldAgree
<1>5. ASSUME Quotas(T) PROVE Quotas(U)
  <2>1. /\ Cardinality(DOMAIN U) <= MaxTransfers /\ HeldBytes(U, DOMAIN U) <= MaxBytes
    <3>1. /\ Cardinality(S) \in Nat /\ HeldBytes(T, S) \in Nat
          /\ Cardinality(DOMAIN T) \in Nat /\ HeldBytes(T, DOMAIN T) \in Nat
      BY TableGroups
    <3>2. HeldBytes(U, S) = HeldBytes(T, S)
      BY <1>4
    <3>3. Cardinality(DOMAIN T) <= MaxTransfers /\ HeldBytes(T, DOMAIN T) <= MaxBytes
      BY <1>5 DEF Quotas
    <3> QED
      BY <1>1, <1>2, <3>1, <3>2, <3>3, ChunkAssumption
  <2>2. ASSUME NEW k \in DOMAIN U
        PROVE  /\ Cardinality(OfSender(U, U[k].meta.sender)) <= MaxPerSender
               /\ HeldBytes(U, OfSender(U, U[k].meta.sender)) <= MaxBytesPerSender
    <3> DEFINE s == T[k].meta.sender
               R == OfSender(U, s)
               Q == OfSender(T, s)
    <3>1. R \in SUBSET S /\ R \in SUBSET Q /\ Q \in SUBSET DOMAIN T
      BY <1>1 DEF OfSender
    <3>2. Cardinality(Q) <= MaxPerSender /\ HeldBytes(T, Q) <= MaxBytesPerSender
      BY <1>1, <1>5 DEF Quotas
    <3> HIDE DEF s, R, Q
    <3>3. Cardinality(R) <= Cardinality(Q) /\ HeldBytes(T, R) <= HeldBytes(T, Q)
      BY <3>1, GroupsShrink
    <3>4. /\ Cardinality(R) \in Nat /\ HeldBytes(T, R) \in Nat
          /\ Cardinality(Q) \in Nat /\ HeldBytes(T, Q) \in Nat
      BY <3>1, TableGroups
    <3>5. HeldBytes(U, R) = HeldBytes(T, R)
      BY <1>4, <3>1
    <3>6. Cardinality(R) <= MaxPerSender /\ HeldBytes(U, R) <= MaxBytesPerSender
      BY <3>2, <3>3, <3>4, <3>5, ChunkAssumption
    <3> QED
      BY <1>1, <3>6 DEF s, R
  <2>3. ASSUME NEW k \in DOMAIN U
        PROVE  /\ Cardinality(OfPeer(U, U[k].peer)) <= MaxPerPeer
               /\ HeldBytes(U, OfPeer(U, U[k].peer)) <= MaxBytesPerPeer
    <3> DEFINE p == T[k].peer
               R == OfPeer(U, p)
               Q == OfPeer(T, p)
    <3>1. R \in SUBSET S /\ R \in SUBSET Q /\ Q \in SUBSET DOMAIN T
      BY <1>1 DEF OfPeer
    <3>2. Cardinality(Q) <= MaxPerPeer /\ HeldBytes(T, Q) <= MaxBytesPerPeer
      BY <1>1, <1>5 DEF Quotas
    <3> HIDE DEF p, R, Q
    <3>3. Cardinality(R) <= Cardinality(Q) /\ HeldBytes(T, R) <= HeldBytes(T, Q)
      BY <3>1, GroupsShrink
    <3>4. /\ Cardinality(R) \in Nat /\ HeldBytes(T, R) \in Nat
          /\ Cardinality(Q) \in Nat /\ HeldBytes(T, Q) \in Nat
      BY <3>1, TableGroups
    <3>5. HeldBytes(U, R) = HeldBytes(T, R)
      BY <1>4, <3>1
    <3>6. Cardinality(R) <= MaxPerPeer /\ HeldBytes(U, R) <= MaxBytesPerPeer
      BY <3>2, <3>3, <3>4, <3>5, ChunkAssumption
    <3> QED
      BY <1>1, <3>6 DEF p, R
  <2> QED
    BY <2>1, <2>2, <2>3 DEF Quotas
<1> QED
  BY <1>1, <1>3, <1>4, <1>5 DEF U

-----------------------------------------------------------------------------
(* Storing an accepted chunk.  The transfer it joins, first: opened by the   *)
(* chunk, or found in the table with another index still missing.          *)
LEMMA StoredPartial ==
    ASSUME NEW T, Table(T), Quotas(T), NEW ch \in Chunk, NEW peer \in Peer, NEW b,
           Opens(T, b, ch, peer) \/ Extends(T, b, ch)
    PROVE  LET k == ch.key
               u == Stored(T, ch, peer)[k]
           IN  /\ u \in Partial /\ Counted(u)
               /\ Room(T, b, u.meta.sender, u.peer, ch)
               /\ u.received_bytes =
                    (IF k \in DOMAIN T THEN T[k].received_bytes ELSE 0) + ch.len
               /\ k \in DOMAIN T => /\ u.meta = T[k].meta /\ u.peer = T[k].peer
                                    /\ u.left = T[k].left
               /\ k \notin DOMAIN T => u.left = TransferTtl
               /\ Cardinality(DOMAIN T \cup {k}) <= MaxTransfers
               /\ Cardinality(OfSender(T, u.meta.sender) \cup {k}) <= MaxPerSender
               /\ Cardinality(OfPeer(T, u.peer) \cup {k}) <= MaxPerPeer
<1> DEFINE k == ch.key
           u == Stored(T, ch, peer)[k]
           D == DOMAIN T
<1>1. /\ ch.len \in Nat /\ ch.meta.count \in Nat \ {0} /\ ch.index \in 0..(ch.meta.count - 1)
      /\ TransferTtl \in Nat /\ TransferTtl \in 0..TransferTtl
      /\ MaxTransfers \in Nat /\ MaxPerSender \in Nat /\ MaxPerPeer \in Nat
  BY ChunkAssumption
<1>2. \A S \in SUBSET D : IsFiniteSet(S) /\ Cardinality(S) \in Nat
  BY TableGroups
<1>3. /\ \A s : OfSender(T, s) \in SUBSET D
      /\ \A p : OfPeer(T, p) \in SUBSET D
  BY DEF OfSender, OfPeer
<1>4. CASE Opens(T, b, ch, peer)
  <2>1. k \notin D /\ Room(T, b, ch.meta.sender, peer, ch)
        /\ Cardinality(D) < MaxTransfers
        /\ Cardinality(OfSender(T, ch.meta.sender)) < MaxPerSender
        /\ Cardinality(OfPeer(T, peer)) < MaxPerPeer
    BY <1>4 DEF Opens
  <2>2. u = [meta |-> ch.meta, peer |-> peer, received |-> {ch.index},
             received_count |-> 1, received_bytes |-> ch.len, left |-> TransferTtl]
    BY <2>1 DEF Stored
  <2>3. u \in Partial
    BY <1>1, <2>2 DEF Partial
  <2>4. Counted(u)
    <3>1. Cardinality({ch.index}) = 1
      BY FS_Singleton
    <3> QED
      BY <1>1, <2>2, <3>1 DEF Counted
  <2>5. \A S \in SUBSET D : Cardinality(S \cup {k}) = Cardinality(S) + 1
    BY <1>2, <2>1, FS_AddElement
  <2>6. Cardinality(D \cup {k}) <= MaxTransfers
    BY <1>1, <1>2, <2>1, <2>5
  <2>7. Cardinality(OfSender(T, ch.meta.sender) \cup {k}) <= MaxPerSender
    BY <1>1, <1>2, <1>3, <2>1, <2>5
  <2>8. Cardinality(OfPeer(T, peer) \cup {k}) <= MaxPerPeer
    BY <1>1, <1>2, <1>3, <2>1, <2>5
  <2>9. u.meta = ch.meta /\ u.peer = peer /\ u.received_bytes = ch.len /\ u.left = TransferTtl
    BY <2>2
  <2> HIDE DEF u
  <2> QED
    BY <1>1, <2>1, <2>3, <2>4, <2>6, <2>7, <2>8, <2>9 DEF u
<1>5. CASE Extends(T, b, ch)
  <2>1. k \in D /\ ch.meta = T[k].meta /\ ch.index \notin T[k].received
        /\ Room(T, b, T[k].meta.sender, T[k].peer, ch)
    BY <1>5 DEF Extends
  <2>2. T[k] \in Partial /\ Counted(T[k])
    BY <2>1 DEF Table
  <2>3. u = [T[k] EXCEPT !.received = @ \cup {ch.index}, !.received_count = @ + 1,
                         !.received_bytes = @ + ch.len]
    BY <2>1 DEF Stored
  <2>4. u \in Partial
        /\ u.meta = T[k].meta /\ u.peer = T[k].peer /\ u.left = T[k].left
        /\ u.received = T[k].received \cup {ch.index}
        /\ u.received_count = T[k].received_count + 1
        /\ u.received_bytes = T[k].received_bytes + ch.len
    <3>1. /\ T[k].received \cup {ch.index} \in SUBSET Nat
          /\ T[k].received_count + 1 \in Nat /\ T[k].received_bytes + ch.len \in Nat
      BY <1>1, <2>2 DEF Partial
    <3> QED
      BY ONLY <2>2, <2>3, <3>1 DEF Partial
  <2>5. Counted(u)
    <3>1. IsFiniteSet(T[k].received)
      <4>1. 0 \in Int /\ ch.meta.count - 1 \in Int
        BY <1>1
      <4>2. IsFiniteSet(0..(ch.meta.count - 1))
        BY ONLY <4>1, FS_Interval
      <4> QED
        BY <2>1, <2>2, <4>2, FS_Subset DEF Counted
    <3>2. Cardinality(u.received) = Cardinality(T[k].received) + 1
      BY <2>1, <2>4, <3>1, FS_AddElement
    <3>3. T[k].received_count \in Nat
      BY <2>2 DEF Partial
    <3> QED
      BY <1>1, <2>1, <2>2, <2>4, <3>2, <3>3 DEF Counted
  <2>6. /\ D \cup {k} = D
        /\ OfSender(T, T[k].meta.sender) \cup {k} = OfSender(T, T[k].meta.sender)
        /\ OfPeer(T, T[k].peer) \cup {k} = OfPeer(T, T[k].peer)
    BY <2>1 DEF OfSender, OfPeer
  <2>7. /\ Cardinality(D) <= MaxTransfers
        /\ Cardinality(OfSender(T, T[k].meta.sender)) <= MaxPerSender
        /\ Cardinality(OfPeer(T, T[k].peer)) <= MaxPerPeer
    BY <2>1 DEF Quotas
  <2> HIDE DEF u
  <2> QED
    BY <1>1, <2>1, <2>4, <2>5, <2>6, <2>7 DEF u
<1> QED
  BY <1>4, <1>5

(* The whole table, then: the bytes grow by the chunk's, in total and for    *)
(* the sender and the previous hop that own the transfer, all of which had   *)
(* room for it.                                                            *)
LEMMA StoredTable ==
    ASSUME NEW T, Table(T), Quotas(T), NEW ch \in Chunk, NEW peer \in Peer,
           LET b == HeldBytes(T, DOMAIN T)
           IN  Opens(T, b, ch, peer) \/ Extends(T, b, ch)
    PROVE  LET U == Stored(T, ch, peer)
           IN  /\ DOMAIN U = DOMAIN T \cup {ch.key}
               /\ \A x \in DOMAIN T : x # ch.key => U[x] = T[x]
               /\ Table(U) /\ Quotas(U)
               /\ HeldBytes(U, DOMAIN U) = HeldBytes(T, DOMAIN T) + ch.len
<1> DEFINE D == DOMAIN T
           b == HeldBytes(T, D)
           U == Stored(T, ch, peer)
           k == ch.key
           u == U[k]
<1>1. /\ DOMAIN U = D \cup {k} /\ \A x \in D : x # k => U[x] = T[x]
  BY DEF Stored
<1>2. /\ u \in Partial /\ Counted(u) /\ Room(T, b, u.meta.sender, u.peer, ch)
      /\ u.received_bytes = (IF k \in D THEN T[k].received_bytes ELSE 0) + ch.len
      /\ k \in D => u.meta = T[k].meta /\ u.peer = T[k].peer
      /\ Cardinality(D \cup {k}) <= MaxTransfers
      /\ Cardinality(OfSender(T, u.meta.sender) \cup {k}) <= MaxPerSender
      /\ Cardinality(OfPeer(T, u.peer) \cup {k}) <= MaxPerPeer
  BY StoredPartial
<1>3. k \in Key /\ ch.len \in Nat
  BY ChunkAssumption DEF Key
<1> HIDE DEF U, u
<1>4. Table(U)
  <2>1. IsFiniteSet(D \cup {k})
    BY FS_AddElement DEF Table
  <2> QED
    BY <1>1, <1>2, <1>3, <2>1 DEF Table, u
<1>5. ASSUME NEW X \in SUBSET DOMAIN U, k \notin X
      PROVE  X \in SUBSET D /\ HeldBytes(U, X) = HeldBytes(T, X)
  <2>1. X \in SUBSET D /\ \A x \in X : U[x] = T[x]
    BY <1>1, <1>5
  <2> QED
    BY <2>1, HeldAgree
<1>6. ASSUME NEW X \in SUBSET DOMAIN U, k \in X
      PROVE  HeldBytes(U, X) = HeldBytes(T, X \cap D) + ch.len
  <2>1. X \ {k} \in SUBSET D /\ HeldBytes(U, X \ {k}) = HeldBytes(T, X \ {k})
    BY <1>5
  <2>2. Sized(U, X) /\ {k} \in SUBSET X
    BY <1>4, <1>6, TableGroups DEF Sized
  <2>3. /\ HeldBytes(U, {k}) \in Nat /\ HeldBytes(U, X \ {k}) \in Nat
        /\ HeldBytes(U, X) = HeldBytes(U, {k}) + HeldBytes(U, X \ {k})
    BY <2>2, HeldSplit
  <2>4. HeldBytes(U, {k}) = u.received_bytes
    BY <1>2, HeldOne DEF u, Partial
  <2>5. CASE k \in D
    <3>1. X \cap D = X /\ X \in SUBSET D
      BY <1>1, <2>5
    <3>2. Sized(T, X)
      BY <3>1, TableGroups DEF Sized
    <3>3. /\ HeldBytes(T, {k}) \in Nat /\ HeldBytes(T, X \ {k}) \in Nat
          /\ HeldBytes(T, X) = HeldBytes(T, {k}) + HeldBytes(T, X \ {k})
      BY <2>2, <3>2, HeldSplit
    <3>4. HeldBytes(T, {k}) = T[k].received_bytes
      BY <2>5, HeldOne, TableGroups
    <3>5. u.received_bytes = HeldBytes(T, {k}) + ch.len
      BY <1>2, <2>5, <3>4
    <3>6. HeldBytes(U, X) = HeldBytes(T, X) + ch.len
      BY ONLY <1>3, <2>1, <2>3, <2>4, <3>3, <3>5
    <3> QED
      BY <3>1, <3>6
  <2>6. CASE k \notin D
    <3>1. X \cap D = X \ {k}
      BY <2>1, <2>6
    <3>2. u.received_bytes = ch.len
      BY <1>2, <1>3, <2>6
    <3>3. HeldBytes(U, X) = HeldBytes(T, X \ {k}) + ch.len
      BY ONLY <1>3, <2>1, <2>3, <2>4, <3>2
    <3> QED
      BY <3>1, <3>3
  <2> QED
    BY <2>5, <2>6
<1>7. HeldBytes(U, DOMAIN U) = b + ch.len
  <2>1. k \in DOMAIN U /\ DOMAIN U \cap D = D
    BY <1>1
  <2> QED
    BY <1>6, <2>1
<1>8. ASSUME NEW x \in DOMAIN U
      PROVE  /\ Cardinality(OfSender(U, U[x].meta.sender)) <= MaxPerSender
             /\ HeldBytes(U, OfSender(U, U[x].meta.sender)) <= MaxBytesPerSender
  <2> DEFINE s == U[x].meta.sender
             X == OfSender(U, s)
  <2>1. X \in SUBSET DOMAIN U
    BY DEF OfSender
  <2>2. CASE s = u.meta.sender
    <3>1. X = OfSender(T, s) \cup {k} /\ X \cap D = OfSender(T, s) /\ k \in X
      BY <1>1, <1>2, <2>2 DEF OfSender, u
    <3>2. HeldBytes(U, X) = HeldBytes(T, OfSender(T, s)) + ch.len
      BY <1>6, <2>1, <3>1
    <3>3. HeldBytes(T, OfSender(T, s)) + ch.len <= MaxBytesPerSender
      BY <1>2, <2>2 DEF Room
    <3>4. Cardinality(X) <= MaxPerSender
      BY <1>2, <2>2, <3>1
    <3> QED
      BY <3>2, <3>3, <3>4
  <2>3. CASE s # u.meta.sender
    <3>1. x \in D /\ T[x].meta.sender = s
      BY <1>1, <2>3 DEF u
    <3>2. X = OfSender(T, s) /\ k \notin X
      BY <1>1, <1>2, <2>3 DEF OfSender, u
    <3>3. HeldBytes(U, X) = HeldBytes(T, X)
      BY <1>5, <2>1, <3>2
    <3>4. /\ Cardinality(OfSender(T, T[x].meta.sender)) <= MaxPerSender
          /\ HeldBytes(T, OfSender(T, T[x].meta.sender)) <= MaxBytesPerSender
      BY <3>1 DEF Quotas
    <3> QED
      BY <3>1, <3>2, <3>3, <3>4
  <2> QED
    BY <2>2, <2>3
<1>9. ASSUME NEW x \in DOMAIN U
      PROVE  /\ Cardinality(OfPeer(U, U[x].peer)) <= MaxPerPeer
             /\ HeldBytes(U, OfPeer(U, U[x].peer)) <= MaxBytesPerPeer
  <2> DEFINE p == U[x].peer
             X == OfPeer(U, p)
  <2>1. X \in SUBSET DOMAIN U
    BY DEF OfPeer
  <2>2. CASE p = u.peer
    <3>1. X = OfPeer(T, p) \cup {k} /\ X \cap D = OfPeer(T, p) /\ k \in X
      BY <1>1, <1>2, <2>2 DEF OfPeer, u
    <3>2. HeldBytes(U, X) = HeldBytes(T, OfPeer(T, p)) + ch.len
      BY <1>6, <2>1, <3>1
    <3>3. HeldBytes(T, OfPeer(T, p)) + ch.len <= MaxBytesPerPeer
      BY <1>2, <2>2 DEF Room
    <3>4. Cardinality(X) <= MaxPerPeer
      BY <1>2, <2>2, <3>1
    <3> QED
      BY <3>2, <3>3, <3>4
  <2>3. CASE p # u.peer
    <3>1. x \in D /\ T[x].peer = p
      BY <1>1, <2>3 DEF u
    <3>2. X = OfPeer(T, p) /\ k \notin X
      BY <1>1, <1>2, <2>3 DEF OfPeer, u
    <3>3. HeldBytes(U, X) = HeldBytes(T, X)
      BY <1>5, <2>1, <3>2
    <3>4. /\ Cardinality(OfPeer(T, T[x].peer)) <= MaxPerPeer
          /\ HeldBytes(T, OfPeer(T, T[x].peer)) <= MaxBytesPerPeer
      BY <3>1 DEF Quotas
    <3> QED
      BY <3>1, <3>2, <3>3, <3>4
  <2> QED
    BY <2>2, <2>3
<1>10. Quotas(U)
  <2>1. HeldBytes(U, DOMAIN U) <= MaxBytes
    BY <1>2, <1>7 DEF Room
  <2>2. Cardinality(DOMAIN U) <= MaxTransfers
    BY <1>1, <1>2
  <2> QED
    BY <1>8, <1>9, <2>1, <2>2 DEF Quotas
<1> QED
  BY <1>1, <1>4, <1>7, <1>10 DEF U

-----------------------------------------------------------------------------
(* What evict_expired leaves.                                              *)
LEMMA Evicted ==
    ASSUME ChunkInv
    PROVE  /\ DOMAIN LiveTransfers \subseteq DOMAIN transfers
           /\ \A k \in DOMAIN LiveTransfers : LiveTransfers[k] = transfers[k]
           /\ Table(LiveTransfers) /\ Quotas(LiveTransfers)
           /\ LiveBuffered = HeldBytes(LiveTransfers, DOMAIN LiveTransfers)
           /\ LiveBuffered \in Nat
           /\ DOMAIN LiveCompleted = {k \in DOMAIN completed : completed[k].left > 0}
           /\ \A k \in DOMAIN LiveCompleted : LiveCompleted[k] = completed[k]
<1> DEFINE D == DOMAIN transfers
           S == {k \in D : transfers[k].left > 0}
<1>1. S \in SUBSET D /\ Table(transfers) /\ Quotas(transfers)
      /\ total_buffered = HeldBytes(transfers, D)
  BY DEF ChunkInv, Buffer
<1>2. LiveTransfers = Restrict(transfers, S)
  BY DEF LiveTransfers
<1> HIDE DEF S
<1>3. /\ DOMAIN LiveTransfers = S /\ \A k \in S : LiveTransfers[k] = transfers[k]
      /\ Table(LiveTransfers) /\ Quotas(LiveTransfers)
      /\ HeldBytes(LiveTransfers, S) = HeldBytes(transfers, S)
  BY <1>1, <1>2, RestrictTable
<1>4. Sized(transfers, D)
  BY <1>1, TableGroups DEF Sized
<1>5. /\ HeldBytes(transfers, S) \in Nat /\ HeldBytes(transfers, D \ S) \in Nat
      /\ HeldBytes(transfers, D) = HeldBytes(transfers, S) + HeldBytes(transfers, D \ S)
  BY <1>1, <1>4, HeldSplit
<1>6. Freed = HeldBytes(transfers, D \ S)
  BY <1>3 DEF Freed
<1>7. LiveBuffered = HeldBytes(transfers, S)
  BY <1>1, <1>5, <1>6 DEF LiveBuffered, SaturatingSub
<1>8. /\ DOMAIN LiveCompleted = {k \in DOMAIN completed : completed[k].left > 0}
      /\ \A k \in DOMAIN LiveCompleted : LiveCompleted[k] = completed[k]
  BY DEF LiveCompleted, Restrict
<1> QED
  BY <1>1, <1>3, <1>5, <1>7, <1>8

(* A tombstone that outlasts the carriers of its key survives an eviction.  *)
LEMMA TombstonesStay ==
    ASSUME ChunkInv, Cardinality(Done) <= MaxCompleted, NEW k \in Done, life[k] > 0
    PROVE  /\ k \in DOMAIN LiveCompleted /\ life[k] <= LiveCompleted[k].left
           /\ k \notin DOMAIN transfers
<1>1. /\ k \in DOMAIN completed /\ life[k] <= completed[k].left /\ k \notin DOMAIN transfers
  BY DEF ChunkInv, Buried
<1>2. life[k] \in 0..EnvTtl /\ completed[k].left \in 0..TransferTtl
  BY <1>1 DEF ChunkInv, Lifetimes, Tombstone
<1>3. completed[k].left > 0
  BY <1>1, <1>2, ChunkAssumption
<1> QED
  BY <1>1, <1>3, Evicted

(* Eviction alone: evict_stale, and add when it refuses the chunk.          *)
LEMMA EvictionKeepsInv ==
    ASSUME ChunkInv,
           transfers' = LiveTransfers, total_buffered' = LiveBuffered,
           completed' = LiveCompleted, messages' = messages,
           DOMAIN life \subseteq DOMAIN life', DOMAIN life' \subseteq Key,
           \A k \in DOMAIN life' : life'[k] \in 0..EnvTtl,
           \A k \in DOMAIN life : life'[k] = life[k]
    PROVE  ChunkInv'
<1>1. Buffer'
  BY Evicted DEF ChunkInv, Buffer
<1>2. Done' = Done
  BY DEF Done
<1>3. Lifetimes'
  <2>1. DOMAIN completed' \subseteq Done' /\ Done' \subseteq DOMAIN life' /\ IsFiniteSet(Done')
    BY <1>2, Evicted DEF ChunkInv, Lifetimes
  <2>2. \A k \in DOMAIN completed' : completed'[k] \in Tombstone
    BY Evicted DEF ChunkInv, Lifetimes
  <2>3. \A k \in DOMAIN transfers' : k \in DOMAIN life' /\ life'[k] <= transfers'[k].left
    BY Evicted DEF ChunkInv, Lifetimes
  <2> QED
    BY <2>1, <2>2, <2>3 DEF Lifetimes
<1>4. Buried'
  <2> SUFFICES ASSUME Cardinality(Done) <= MaxCompleted
               PROVE  /\ \A m \in messages : ~m.again
                      /\ \A k \in Done : life'[k] > 0 =>
                            /\ k \in DOMAIN completed' /\ life'[k] <= completed'[k].left
                            /\ k \notin DOMAIN transfers'
    BY <1>2 DEF Buried
  <2>1. \A k \in Done : life'[k] = life[k]
    BY DEF ChunkInv, Lifetimes
  <2>2. \A m \in messages : ~m.again
    BY DEF ChunkInv, Buried
  <2>3. ASSUME NEW k \in Done, life'[k] > 0
        PROVE  /\ k \in DOMAIN completed' /\ life'[k] <= completed'[k].left
               /\ k \notin DOMAIN transfers'
    BY <2>1, <2>3, TombstonesStay, Evicted
  <2> QED
    BY <2>2, <2>3
<1>5. Whole'
  BY DEF ChunkInv, Whole
<1> QED
  BY <1>1, <1>3, <1>4, <1>5 DEF ChunkInv

\* What add does to the lifetime of its chunk's key.
Carried(k) ==
    /\ k \in DOMAIN life => life[k] > 0
    /\ life' = [x \in DOMAIN life \cup {k} |-> IF x \in DOMAIN life THEN life[x] ELSE EnvTtl]

LEMMA CarriedLife ==
    ASSUME ChunkInv, NEW k \in Key, Carried(k)
    PROVE  /\ DOMAIN life' = DOMAIN life \cup {k} /\ DOMAIN life' \subseteq Key
           /\ \A x \in DOMAIN life' : life'[x] \in 0..EnvTtl
           /\ \A x \in DOMAIN life : life'[x] = life[x]
           /\ life'[k] \in 0..EnvTtl /\ EnvTtl <= TransferTtl
<1>1. EnvTtl \in 1..TransferTtl /\ TransferTtl \in Nat
  BY ChunkAssumption
<1>2. DOMAIN life \subseteq Key /\ \A x \in DOMAIN life : life[x] \in 0..EnvTtl
  BY DEF ChunkInv, Lifetimes
<1> QED
  BY <1>1, <1>2 DEF Carried

(* A chunk that is accepted: the table with it, its transfer's deadline, and *)
(* that its key is new to the tombstones, so not done yet.                 *)
LEMMA Accepted ==
    ASSUME ChunkInv, NEW ch \in Chunk, NEW peer \in Peer, Carried(ch.key),
           ch.key \notin DOMAIN LiveCompleted,
           \/ Opens(LiveTransfers, LiveBuffered, ch, peer)
           \/ Extends(LiveTransfers, LiveBuffered, ch)
    PROVE  LET U == Stored(LiveTransfers, ch, peer)
               k == ch.key
           IN  /\ k \in Key /\ DOMAIN U = DOMAIN LiveTransfers \cup {k}
               /\ \A x \in DOMAIN U : x # k => x \in DOMAIN transfers /\ U[x] = transfers[x]
               /\ Table(U) /\ Quotas(U)
               /\ HeldBytes(U, DOMAIN U) = LiveBuffered + ch.len
               /\ \A x \in DOMAIN U : x \in DOMAIN life' /\ life'[x] <= U[x].left
               /\ Cardinality(Done) <= MaxCompleted => k \notin Done
<1> DEFINE T == LiveTransfers
           U == Stored(T, ch, peer)
           k == ch.key
<1>1. k \in Key
  BY DEF Key
<1>2. /\ Table(T) /\ Quotas(T) /\ LiveBuffered = HeldBytes(T, DOMAIN T)
      /\ DOMAIN T \subseteq DOMAIN transfers /\ \A x \in DOMAIN T : T[x] = transfers[x]
  BY Evicted
<1>3. /\ DOMAIN U = DOMAIN T \cup {k} /\ \A x \in DOMAIN T : x # k => U[x] = T[x]
      /\ Table(U) /\ Quotas(U) /\ HeldBytes(U, DOMAIN U) = HeldBytes(T, DOMAIN T) + ch.len
  BY <1>2, StoredTable
<1>4. /\ k \in DOMAIN T => U[k].left = T[k].left
      /\ k \notin DOMAIN T => U[k].left = TransferTtl
  BY <1>2, StoredPartial
<1> HIDE DEF U
<1>5. /\ DOMAIN life' = DOMAIN life \cup {k}
      /\ \A x \in DOMAIN life : life'[x] = life[x]
      /\ life'[k] \in 0..EnvTtl /\ EnvTtl <= TransferTtl
  BY <1>1, CarriedLife
<1>6. \A x \in DOMAIN transfers : x \in DOMAIN life /\ life[x] <= transfers[x].left
  BY DEF ChunkInv, Lifetimes
<1>7. \A x \in DOMAIN U : x \in DOMAIN life' /\ life'[x] <= U[x].left
  <2> TAKE x \in DOMAIN U
  <2>1. CASE x \in DOMAIN T
    BY <1>2, <1>3, <1>4, <1>5, <1>6, <2>1
  <2>2. CASE x \notin DOMAIN T
    <3>1. x = k /\ U[x].left = TransferTtl
      BY <1>3, <1>4, <2>2
    <3> QED
      BY <1>5, <3>1, ChunkAssumption
  <2> QED
    BY <2>1, <2>2
<1>8. ASSUME Cardinality(Done) <= MaxCompleted, k \in Done PROVE FALSE
  <2>1. k \in DOMAIN life
    BY <1>8 DEF ChunkInv, Lifetimes
  <2>2. life[k] > 0
    BY <2>1 DEF Carried
  <2> QED
    BY <1>8, <2>2, TombstonesStay
<1> QED
  BY <1>1, <1>2, <1>3, <1>7, <1>8 DEF U

(* A transfer's count of chunks never passes the count it announced, and     *)
(* reaches it when every index is there.                                   *)
LEMMA CountedFull ==
    ASSUME NEW p \in Partial, Counted(p)
    PROVE  /\ p.meta.count \in Nat \ {0} /\ p.received_count \in Nat
           /\ p.received_count <= p.meta.count
           /\ p.received_count = p.meta.count <=> p.received = 0..(p.meta.count - 1)
<1>1. p.meta.count \in Nat \ {0}
  BY ChunkAssumption DEF Partial
<1>2. p.received \in SUBSET (0..(p.meta.count - 1)) /\ p.received_count = Cardinality(p.received)
      /\ p.received_count \in Nat
  BY DEF Counted, Partial
<1>3. 0 \in Int /\ p.meta.count - 1 \in Int /\ ~(0 > p.meta.count - 1)
      /\ p.meta.count - 1 - 0 + 1 = p.meta.count
  BY <1>1
<1>4. IsFiniteSet(0..(p.meta.count - 1)) /\ Cardinality(0..(p.meta.count - 1)) = p.meta.count
  BY ONLY <1>3, FS_Interval
<1>5. /\ Cardinality(p.received) <= p.meta.count
      /\ Cardinality(p.received) = p.meta.count => p.received = 0..(p.meta.count - 1)
  BY <1>2, <1>4, FS_Subset
<1> QED
  BY <1>1, <1>2, <1>4, <1>5

(* The chunk is stored and more are missing.                               *)
LEMMA StoreKeepsInv ==
    ASSUME ChunkInv, NEW ch \in Chunk, NEW peer \in Peer, Carried(ch.key),
           ch.key \notin DOMAIN LiveCompleted,
           \/ Opens(LiveTransfers, LiveBuffered, ch, peer)
           \/ Extends(LiveTransfers, LiveBuffered, ch),
           transfers' = Stored(LiveTransfers, ch, peer),
           transfers'[ch.key].received_count # transfers'[ch.key].meta.count,
           total_buffered' = LiveBuffered + ch.len,
           completed' = LiveCompleted, messages' = messages
    PROVE  ChunkInv'
<1> DEFINE k == ch.key
<1>1. /\ k \in Key /\ DOMAIN transfers' = DOMAIN LiveTransfers \cup {k}
      /\ \A x \in DOMAIN transfers' :
            x # k => x \in DOMAIN transfers /\ transfers'[x] = transfers[x]
      /\ Table(transfers') /\ Quotas(transfers')
      /\ HeldBytes(transfers', DOMAIN transfers') = LiveBuffered + ch.len
      /\ \A x \in DOMAIN transfers' : x \in DOMAIN life' /\ life'[x] <= transfers'[x].left
      /\ Cardinality(Done) <= MaxCompleted => k \notin Done
  BY Accepted
<1>2. /\ DOMAIN life' = DOMAIN life \cup {k} /\ DOMAIN life' \subseteq Key
      /\ \A x \in DOMAIN life' : life'[x] \in 0..EnvTtl
      /\ \A x \in DOMAIN life : life'[x] = life[x]
  BY <1>1, CarriedLife
<1>3. Buffer'
  <2>1. transfers'[k].received_count < transfers'[k].meta.count
    <3>1. transfers'[k] \in Partial /\ Counted(transfers'[k])
      BY <1>1 DEF Table
    <3> QED
      BY <3>1, CountedFull
  <2>2. \A x \in DOMAIN transfers' :
           x # k => transfers'[x].received_count < transfers'[x].meta.count
    BY <1>1 DEF ChunkInv, Buffer
  <2> QED
    BY <1>1, <2>1, <2>2 DEF Buffer
<1>4. Done' = Done
  BY DEF Done
<1>5. Lifetimes'
  <2>1. DOMAIN completed' \subseteq Done' /\ Done' \subseteq DOMAIN life' /\ IsFiniteSet(Done')
    BY <1>2, <1>4, Evicted DEF ChunkInv, Lifetimes
  <2>2. \A x \in DOMAIN completed' : completed'[x] \in Tombstone
    BY Evicted DEF ChunkInv, Lifetimes
  <2> QED
    BY <1>1, <1>2, <2>1, <2>2 DEF Lifetimes
<1>6. Buried'
  <2> SUFFICES ASSUME Cardinality(Done) <= MaxCompleted
               PROVE  /\ \A m \in messages : ~m.again
                      /\ \A x \in Done : life'[x] > 0 =>
                            /\ x \in DOMAIN completed' /\ life'[x] <= completed'[x].left
                            /\ x \notin DOMAIN transfers'
    BY <1>4 DEF Buried
  <2>1. \A x \in Done : life'[x] = life[x] /\ x # k
    BY <1>1, <1>2 DEF ChunkInv, Lifetimes
  <2>2. \A m \in messages : ~m.again
    BY DEF ChunkInv, Buried
  <2>3. ASSUME NEW x \in Done, life'[x] > 0
        PROVE  /\ x \in DOMAIN completed' /\ life'[x] <= completed'[x].left
               /\ x \notin DOMAIN transfers'
    BY <1>1, <2>1, <2>3, TombstonesStay
  <2> QED
    BY <2>2, <2>3
<1>7. Whole'
  BY DEF ChunkInv, Whole
<1> QED
  BY <1>3, <1>5, <1>6, <1>7 DEF ChunkInv

(* try_complete's bookkeeping, whatever becomes of the message: the transfer *)
(* leaves the table with its bytes.                                        *)
LEMMA RemovalKeepsBuffer ==
    ASSUME ChunkInv, NEW ch \in Chunk, NEW peer \in Peer, Carried(ch.key),
           ch.key \notin DOMAIN LiveCompleted,
           \/ Opens(LiveTransfers, LiveBuffered, ch, peer)
           \/ Extends(LiveTransfers, LiveBuffered, ch),
           NEW U, U = Stored(LiveTransfers, ch, peer),
           transfers' = Restrict(U, DOMAIN U \ {ch.key}),
           total_buffered' = SaturatingSub(LiveBuffered + ch.len, U[ch.key].received_bytes)
    PROVE  /\ Buffer' /\ ch.key \notin DOMAIN transfers'
           /\ \A x \in DOMAIN transfers' :
                 /\ x \in DOMAIN transfers
                 /\ x \in DOMAIN life' /\ life'[x] <= transfers'[x].left
<1> DEFINE k == ch.key
           S == DOMAIN U \ {k}
<1>1. /\ DOMAIN U = DOMAIN LiveTransfers \cup {k}
      /\ \A x \in DOMAIN U : x # k => x \in DOMAIN transfers /\ U[x] = transfers[x]
      /\ Table(U) /\ Quotas(U)
      /\ HeldBytes(U, DOMAIN U) = LiveBuffered + ch.len
      /\ \A x \in DOMAIN U : x \in DOMAIN life' /\ life'[x] <= U[x].left
  BY Accepted
<1>2. S \in SUBSET DOMAIN U /\ {k} \in SUBSET DOMAIN U /\ DOMAIN U \ {k} = S
  BY <1>1
<1>3. /\ DOMAIN transfers' = S /\ \A x \in S : transfers'[x] = U[x]
      /\ Table(transfers') /\ Quotas(transfers')
      /\ HeldBytes(transfers', S) = HeldBytes(U, S)
  BY <1>1, <1>2, RestrictTable
<1>4. Sized(U, DOMAIN U) /\ U[k].received_bytes \in Nat
  BY <1>1, TableGroups DEF Sized
<1>5. /\ HeldBytes(U, {k}) \in Nat /\ HeldBytes(U, S) \in Nat
      /\ HeldBytes(U, DOMAIN U) = HeldBytes(U, {k}) + HeldBytes(U, S)
  BY <1>2, <1>4, HeldSplit
<1>6. HeldBytes(U, {k}) = U[k].received_bytes
  BY <1>4, HeldOne
<1>7. total_buffered' = HeldBytes(U, S)
  BY <1>1, <1>5, <1>6 DEF SaturatingSub
<1>8. \A x \in DOMAIN transfers' : transfers'[x].received_count < transfers'[x].meta.count
  <2>1. \A x \in DOMAIN transfers : transfers[x].received_count < transfers[x].meta.count
    BY DEF ChunkInv, Buffer
  <2> TAKE x \in DOMAIN transfers'
  <2>2. x \in DOMAIN U /\ x # k /\ transfers'[x] = U[x]
    BY ONLY <1>3, x \in DOMAIN transfers'
  <2>3. x \in DOMAIN transfers /\ U[x] = transfers[x]
    BY ONLY <1>1, <2>2
  <2> QED
    BY ONLY <2>1, <2>2, <2>3
<1>9. Buffer'
  BY <1>3, <1>7, <1>8 DEF Buffer
<1> QED
  BY <1>1, <1>3, <1>9

(* The last chunk, with a wrong size: the transfer is dropped.              *)
LEMMA DropKeepsInv ==
    ASSUME ChunkInv, NEW ch \in Chunk, NEW peer \in Peer, Carried(ch.key),
           ch.key \notin DOMAIN LiveCompleted,
           \/ Opens(LiveTransfers, LiveBuffered, ch, peer)
           \/ Extends(LiveTransfers, LiveBuffered, ch),
           NEW U, U = Stored(LiveTransfers, ch, peer),
           transfers' = Restrict(U, DOMAIN U \ {ch.key}),
           total_buffered' = SaturatingSub(LiveBuffered + ch.len, U[ch.key].received_bytes),
           completed' = LiveCompleted, messages' = messages
    PROVE  ChunkInv'
<1> DEFINE k == ch.key
<1>1. /\ Buffer' /\ \A x \in DOMAIN transfers' :
            x \in DOMAIN transfers /\ x \in DOMAIN life' /\ life'[x] <= transfers'[x].left
  BY RemovalKeepsBuffer
<1>2. /\ DOMAIN life' = DOMAIN life \cup {k} /\ DOMAIN life' \subseteq Key
      /\ \A x \in DOMAIN life' : life'[x] \in 0..EnvTtl
      /\ \A x \in DOMAIN life : life'[x] = life[x]
  BY CarriedLife DEF Key
<1>3. Done' = Done
  BY DEF Done
<1>4. Lifetimes'
  <2>1. DOMAIN completed' \subseteq Done' /\ Done' \subseteq DOMAIN life' /\ IsFiniteSet(Done')
    BY <1>2, <1>3, Evicted DEF ChunkInv, Lifetimes
  <2>2. \A x \in DOMAIN completed' : completed'[x] \in Tombstone
    BY Evicted DEF ChunkInv, Lifetimes
  <2> QED
    BY <1>1, <1>2, <2>1, <2>2 DEF Lifetimes
<1>5. Buried'
  <2> SUFFICES ASSUME Cardinality(Done) <= MaxCompleted
               PROVE  /\ \A m \in messages : ~m.again
                      /\ \A x \in Done : life'[x] > 0 =>
                            /\ x \in DOMAIN completed' /\ life'[x] <= completed'[x].left
                            /\ x \notin DOMAIN transfers'
    BY <1>3 DEF Buried
  <2>1. \A x \in Done : life'[x] = life[x]
    BY <1>2 DEF ChunkInv, Lifetimes
  <2>2. \A m \in messages : ~m.again
    BY DEF ChunkInv, Buried
  <2>3. ASSUME NEW x \in Done, life'[x] > 0
        PROVE  /\ x \in DOMAIN completed' /\ life'[x] <= completed'[x].left
               /\ x \notin DOMAIN transfers'
    BY <1>1, <2>1, <2>3, TombstonesStay
  <2> QED
    BY <2>2, <2>3
<1>6. Whole'
  BY DEF ChunkInv, Whole
<1> QED
  BY <1>1, <1>4, <1>5, <1>6 DEF ChunkInv

(* The last chunk, with the announced size: the message is handed on, and    *)
(* the tombstone it leaves evicts another only when there are MaxCompleted. *)
LEMMA DeliverKeepsInv ==
    ASSUME ChunkInv, NEW ch \in Chunk, NEW peer \in Peer, Carried(ch.key),
           ch.key \notin DOMAIN LiveCompleted,
           \/ Opens(LiveTransfers, LiveBuffered, ch, peer)
           \/ Extends(LiveTransfers, LiveBuffered, ch),
           NEW U, U = Stored(LiveTransfers, ch, peer),
           U[ch.key].received_count = U[ch.key].meta.count,
           U[ch.key].received_bytes = U[ch.key].meta.total,
           transfers' = Restrict(U, DOMAIN U \ {ch.key}),
           total_buffered' = SaturatingSub(LiveBuffered + ch.len, U[ch.key].received_bytes),
           NEW C \in TombstonesBefore(LiveCompleted),
           completed' = [x \in DOMAIN C \cup {ch.key} |->
              IF x = ch.key
              THEN [content_id |-> U[ch.key].meta.content_id, left |-> U[ch.key].left]
              ELSE C[x]],
           messages' = messages \cup {Message(U, ch.key)}
    PROVE  ChunkInv'
<1> DEFINE k == ch.key
           p == U[k]
<1>1. /\ Buffer' /\ k \notin DOMAIN transfers'
      /\ \A x \in DOMAIN transfers' :
            x \in DOMAIN transfers /\ x \in DOMAIN life' /\ life'[x] <= transfers'[x].left
  BY RemovalKeepsBuffer
<1>2. /\ DOMAIN life' = DOMAIN life \cup {k} /\ DOMAIN life' \subseteq Key
      /\ \A x \in DOMAIN life' : life'[x] \in 0..EnvTtl
      /\ \A x \in DOMAIN life : life'[x] = life[x]
  BY CarriedLife DEF Key
<1>3. /\ p \in Partial /\ Counted(p) /\ life'[k] <= p.left
      /\ Cardinality(Done) <= MaxCompleted => k \notin Done
  BY Accepted DEF Table
<1>4. /\ DOMAIN C \subseteq DOMAIN LiveCompleted
      /\ \A x \in DOMAIN C : C[x] = LiveCompleted[x]
      /\ ~(Cardinality(DOMAIN LiveCompleted) >= MaxCompleted) => C = LiveCompleted
  BY DEF TombstonesBefore, Restrict
<1>5. /\ DOMAIN completed' = DOMAIN C \cup {k}
      /\ \A x \in DOMAIN C : x # k => completed'[x] = C[x]
      /\ completed'[k] = [content_id |-> p.meta.content_id, left |-> p.left]
  OBVIOUS
<1>6. Done' = Done \cup {k} /\ IsFiniteSet(Done) /\ DOMAIN LiveCompleted \subseteq Done
      /\ Done \subseteq DOMAIN life
  <2>1. IsFiniteSet(Done) /\ DOMAIN completed \subseteq Done /\ Done \subseteq DOMAIN life
    BY DEF ChunkInv, Lifetimes
  <2>2. Message(U, k).key = k
    BY DEF Message
  <2>3. Done' = Done \cup {k}
    BY <2>2 DEF Done
  <2> QED
    BY <2>1, <2>3, Evicted
<1>7. Lifetimes'
  <2>1. DOMAIN completed' \subseteq Done' /\ Done' \subseteq DOMAIN life'
    BY <1>2, <1>4, <1>5, <1>6
  <2>2. IsFiniteSet(Done')
    BY <1>6, FS_AddElement
  <2>3. completed'[k] \in Tombstone
    BY <1>3, <1>5 DEF Partial, Tombstone
  <2>4. \A x \in DOMAIN LiveCompleted : LiveCompleted[x] \in Tombstone
    BY Evicted DEF ChunkInv, Lifetimes
  <2>5. \A x \in DOMAIN completed' : completed'[x] \in Tombstone
    BY <1>4, <1>5, <2>3, <2>4
  <2> QED
    BY <1>1, <1>2, <2>1, <2>2, <2>5 DEF Lifetimes
<1>8. Buried'
  <2> SUFFICES ASSUME Cardinality(Done') <= MaxCompleted
               PROVE  /\ \A m \in messages' : ~m.again
                      /\ \A x \in Done' : life'[x] > 0 =>
                            /\ x \in DOMAIN completed' /\ life'[x] <= completed'[x].left
                            /\ x \notin DOMAIN transfers'
    BY DEF Buried
  <2>1. MaxCompleted \in Nat /\ Cardinality(Done) \in Nat
    BY <1>6, FS_CardinalityType, ChunkAssumption
  <2>2. Cardinality(Done') = IF k \in Done THEN Cardinality(Done) ELSE Cardinality(Done) + 1
    BY <1>6, FS_AddElement
  <2>3. k \notin Done /\ Cardinality(Done) < MaxCompleted /\ Cardinality(Done) <= MaxCompleted
    BY <1>3, <2>1, <2>2
  <2>4. Cardinality(DOMAIN LiveCompleted) <= Cardinality(Done)
        /\ Cardinality(DOMAIN LiveCompleted) \in Nat
    BY <1>6, FS_Subset, FS_CardinalityType
  <2>5. C = LiveCompleted
    BY <1>4, <2>1, <2>3, <2>4
  <2>6. \A m \in messages' : ~m.again
    <3>1. \A m \in messages : ~m.again /\ m.key # k
      BY <2>3 DEF ChunkInv, Buried, Done
    <3>2. Message(U, k).again = FALSE
      BY <3>1 DEF Message
    <3> QED
      BY <3>1, <3>2
  <2>7. ASSUME NEW x \in Done, life'[x] > 0
        PROVE  /\ x \in DOMAIN completed' /\ life'[x] <= completed'[x].left
               /\ x \notin DOMAIN transfers'
    <3>1. life'[x] = life[x] /\ x # k
      BY <1>2, <1>6, <2>3
    <3>2. /\ x \in DOMAIN LiveCompleted /\ life[x] <= LiveCompleted[x].left
          /\ x \notin DOMAIN transfers
      BY <2>3, <2>7, <3>1, TombstonesStay
    <3> QED
      BY <1>1, <1>5, <2>5, <3>1, <3>2
  <2>8. k \in DOMAIN completed' /\ life'[k] <= completed'[k].left
    BY <1>3, <1>5
  <2> QED
    BY <1>1, <1>6, <2>6, <2>7, <2>8
<1>9. Whole'
  <2>1. p.received = 0..(p.meta.count - 1)
    BY <1>3, CountedFull
  <2>2. Message(U, k).received = p.received /\ Message(U, k).meta = p.meta
        /\ Message(U, k).received_bytes = p.received_bytes
    BY DEF Message
  <2> QED
    BY <2>1, <2>2 DEF ChunkInv, Whole
<1> QED
  BY <1>1, <1>7, <1>8, <1>9 DEF ChunkInv

(* One instant: a table ages without losing anything else.                  *)
LEMMA AgedTable ==
    ASSUME NEW T, Table(T), Quotas(T)
    PROVE  /\ DOMAIN Aged(T) = DOMAIN T /\ Table(Aged(T)) /\ Quotas(Aged(T))
           /\ HeldBytes(Aged(T), DOMAIN T) = HeldBytes(T, DOMAIN T)
           /\ \A k \in DOMAIN T :
                 /\ Aged(T)[k].received_count = T[k].received_count
                 /\ Aged(T)[k].meta = T[k].meta
                 /\ Aged(T)[k].left = IF T[k].left = 0 THEN 0 ELSE T[k].left - 1
<1> DEFINE U == Aged(T)
<1>1. DOMAIN U = DOMAIN T
  BY DEF Aged
<1>2. ASSUME NEW k \in DOMAIN T
      PROVE  /\ U[k] \in Partial /\ Counted(U[k])
             /\ U[k].received_count = T[k].received_count /\ U[k].meta = T[k].meta
             /\ U[k].peer = T[k].peer /\ U[k].received_bytes = T[k].received_bytes
             /\ U[k].left = IF T[k].left = 0 THEN 0 ELSE T[k].left - 1
  <2>1. T[k] \in Partial /\ Counted(T[k])
    BY DEF Table
  <2>2. U[k] = [T[k] EXCEPT !.left = IF T[k].left = 0 THEN 0 ELSE T[k].left - 1]
    BY DEF Aged
  <2>3. (IF T[k].left = 0 THEN 0 ELSE T[k].left - 1) \in 0..TransferTtl
    BY <2>1, ChunkAssumption DEF Partial
  <2>4. /\ U[k] \in Partial
        /\ U[k].received_count = T[k].received_count /\ U[k].meta = T[k].meta
        /\ U[k].peer = T[k].peer /\ U[k].received_bytes = T[k].received_bytes
        /\ U[k].received = T[k].received
        /\ U[k].left = IF T[k].left = 0 THEN 0 ELSE T[k].left - 1
    BY ONLY <2>1, <2>2, <2>3 DEF Partial
  <2> QED
    BY <2>1, <2>4 DEF Counted
<1> HIDE DEF U
<1>3. Table(U)
  BY <1>1, <1>2 DEF Table
<1>4. ASSUME NEW S \in SUBSET DOMAIN T PROVE HeldBytes(U, S) = HeldBytes(T, S)
  BY <1>2, HeldAgree
<1>5. Quotas(U)
  <2>1. \A s : OfSender(U, s) = OfSender(T, s) /\ HeldBytes(U, OfSender(U, s)) = HeldBytes(T, OfSender(T, s))
    <3> TAKE s
    <3>1. OfSender(U, s) = OfSender(T, s) /\ OfSender(T, s) \in SUBSET DOMAIN T
      BY <1>1, <1>2 DEF OfSender
    <3> QED
      BY <1>4, <3>1
  <2>2. \A q : OfPeer(U, q) = OfPeer(T, q) /\ HeldBytes(U, OfPeer(U, q)) = HeldBytes(T, OfPeer(T, q))
    <3> TAKE q
    <3>1. OfPeer(U, q) = OfPeer(T, q) /\ OfPeer(T, q) \in SUBSET DOMAIN T
      BY <1>1, <1>2 DEF OfPeer
    <3> QED
      BY <1>4, <3>1
  <2>3. HeldBytes(U, DOMAIN U) = HeldBytes(T, DOMAIN T)
    BY <1>1, <1>4
  <2> QED
    BY <1>1, <1>2, <2>1, <2>2, <2>3 DEF Quotas
<1> QED
  BY <1>1, <1>2, <1>3, <1>4, <1>5 DEF U

LEMMA ElapseKeepsInv ==
    ASSUME ChunkInv, Elapse
    PROVE  ChunkInv'
<1>1. /\ transfers' = Aged(transfers) /\ completed' = Aged(completed)
      /\ DOMAIN life' = DOMAIN life
      /\ \A k \in DOMAIN life : life'[k] = IF life[k] = 0 THEN 0 ELSE life[k] - 1
      /\ total_buffered' = total_buffered /\ messages' = messages
  BY DEF Elapse
<1>2. /\ DOMAIN transfers' = DOMAIN transfers /\ Table(transfers') /\ Quotas(transfers')
      /\ HeldBytes(transfers', DOMAIN transfers) = HeldBytes(transfers, DOMAIN transfers)
      /\ \A k \in DOMAIN transfers :
            /\ transfers'[k].received_count = transfers[k].received_count
            /\ transfers'[k].meta = transfers[k].meta
            /\ transfers'[k].left = IF transfers[k].left = 0 THEN 0 ELSE transfers[k].left - 1
  BY <1>1, AgedTable DEF ChunkInv, Buffer
<1>3. Buffer'
  BY <1>1, <1>2 DEF ChunkInv, Buffer
<1>4. Done' = Done
  BY <1>1 DEF Done
<1>5. EnvTtl \in Nat /\ TransferTtl \in Nat
  BY ChunkAssumption
<1>6. \A k \in DOMAIN life : life[k] \in Nat /\ life[k] <= EnvTtl
  BY <1>5 DEF ChunkInv, Lifetimes
<1>7. /\ DOMAIN completed' = DOMAIN completed
      /\ \A k \in DOMAIN completed :
            /\ completed[k].left \in Nat
            /\ completed'[k].left = IF completed[k].left = 0 THEN 0 ELSE completed[k].left - 1
            /\ completed'[k] \in Tombstone
  <2>1. DOMAIN completed' = DOMAIN completed
    BY <1>1 DEF Aged
  <2>2. ASSUME NEW k \in DOMAIN completed
        PROVE  /\ completed[k].left \in Nat
               /\ completed'[k].left = IF completed[k].left = 0 THEN 0 ELSE completed[k].left - 1
               /\ completed'[k] \in Tombstone
    <3>1. completed[k] \in Tombstone
      BY DEF ChunkInv, Lifetimes
    <3>2. completed'[k] = [completed[k] EXCEPT
             !.left = IF completed[k].left = 0 THEN 0 ELSE completed[k].left - 1]
      BY <1>1 DEF Aged
    <3>3. /\ (IF completed[k].left = 0 THEN 0 ELSE completed[k].left - 1) \in 0..TransferTtl
          /\ completed[k].left \in Nat
      BY <1>5, <3>1 DEF Tombstone
    <3> QED
      BY ONLY <3>1, <3>2, <3>3 DEF Tombstone
  <2> QED
    BY <2>1, <2>2
<1>8. Lifetimes'
  <2>1. DOMAIN life' \subseteq Key /\ \A k \in DOMAIN life' : life'[k] \in 0..EnvTtl
    <3>1. DOMAIN life \subseteq Key
      BY DEF ChunkInv, Lifetimes
    <3> QED
      BY <1>1, <1>5, <1>6, <3>1
  <2>2. DOMAIN completed' \subseteq Done' /\ Done' \subseteq DOMAIN life' /\ IsFiniteSet(Done')
    BY <1>1, <1>4, <1>7 DEF ChunkInv, Lifetimes
  <2>3. ASSUME NEW k \in DOMAIN transfers'
        PROVE  k \in DOMAIN life' /\ life'[k] <= transfers'[k].left
    <3>1. k \in DOMAIN life /\ life[k] <= transfers[k].left
      BY <1>2, <2>3 DEF ChunkInv, Lifetimes
    <3>2. transfers[k].left \in Nat
      BY <1>2, <1>5, <2>3 DEF ChunkInv, Buffer, Table, Partial
    <3> QED
      BY <1>1, <1>2, <1>6, <2>3, <3>1, <3>2
  <2> QED
    BY <1>7, <2>1, <2>2, <2>3 DEF Lifetimes
<1>9. Buried'
  <2> SUFFICES ASSUME Cardinality(Done) <= MaxCompleted
               PROVE  /\ \A m \in messages : ~m.again
                      /\ \A x \in Done : life'[x] > 0 =>
                            /\ x \in DOMAIN completed' /\ life'[x] <= completed'[x].left
                            /\ x \notin DOMAIN transfers'
    BY <1>1, <1>4 DEF Buried
  <2>1. \A m \in messages : ~m.again
    BY DEF ChunkInv, Buried
  <2>2. ASSUME NEW x \in Done, life'[x] > 0
        PROVE  /\ x \in DOMAIN completed' /\ life'[x] <= completed'[x].left
               /\ x \notin DOMAIN transfers'
    <3>1. x \in DOMAIN life
      BY DEF ChunkInv, Lifetimes
    <3>2. life[x] > 0 /\ life'[x] = life[x] - 1 /\ life[x] \in Nat
      BY <1>1, <1>6, <2>2, <3>1
    <3>3. x \in DOMAIN completed /\ life[x] <= completed[x].left /\ x \notin DOMAIN transfers
      BY <3>2 DEF ChunkInv, Buried
    <3> QED
      BY <1>2, <1>7, <3>2, <3>3
  <2> QED
    BY <2>1, <2>2
<1>10. Whole'
  BY <1>1 DEF ChunkInv, Whole
<1> QED
  BY <1>3, <1>8, <1>9, <1>10 DEF ChunkInv

(* add: refused, stored, completed with the right or the wrong size.        *)
LEMMA AddKeepsInv ==
    ASSUME ChunkInv, NEW ch \in Chunk, NEW peer \in Peer, Add(ch, peer)
    PROVE  ChunkInv'
<1> DEFINE T == LiveTransfers
           k == ch.key
           accepted == /\ k \notin DOMAIN LiveCompleted
                       /\ Opens(T, LiveBuffered, ch, peer) \/ Extends(T, LiveBuffered, ch)
           U == Stored(T, ch, peer)
<1>1. Carried(k)
  BY DEF Add, Carried
<1>2. ASSUME ~accepted PROVE ChunkInv'
  <2>1. /\ transfers' = T /\ total_buffered' = LiveBuffered
        /\ completed' = LiveCompleted /\ messages' = messages
    BY <1>2 DEF Add
  <2>2. k \in Key
    BY DEF Key
  <2>3. /\ DOMAIN life \subseteq DOMAIN life' /\ DOMAIN life' \subseteq Key
        /\ \A x \in DOMAIN life' : life'[x] \in 0..EnvTtl
        /\ \A x \in DOMAIN life : life'[x] = life[x]
    BY <1>1, <2>2, CarriedLife
  <2> QED
    BY <2>1, <2>3, EvictionKeepsInv
<1>3. ASSUME accepted, U[k].received_count # U[k].meta.count PROVE ChunkInv'
  <2>1. /\ transfers' = U /\ total_buffered' = LiveBuffered + ch.len
        /\ completed' = LiveCompleted /\ messages' = messages
    BY <1>3 DEF Add
  <2> QED
    BY <1>1, <1>3, <2>1, StoreKeepsInv
<1>4. ASSUME accepted, U[k].received_count = U[k].meta.count PROVE ChunkInv'
  <2>1. TryComplete(U, LiveBuffered + ch.len, k)
    BY <1>4 DEF Add
  <2>2. /\ transfers' = Restrict(U, DOMAIN U \ {k})
        /\ total_buffered' = SaturatingSub(LiveBuffered + ch.len, U[k].received_bytes)
    BY <2>1 DEF TryComplete
  <2>3. ASSUME U[k].received_bytes = U[k].meta.total PROVE ChunkInv'
    <3>1. PICK C \in TombstonesBefore(LiveCompleted) :
             completed' = [x \in DOMAIN C \cup {k} |->
                IF x = k THEN [content_id |-> U[k].meta.content_id, left |-> U[k].left]
                ELSE C[x]]
      BY <2>1, <2>3 DEF TryComplete
    <3>2. messages' = messages \cup {Message(U, k)}
      BY <2>1, <2>3 DEF TryComplete
    <3> QED
      BY <1>1, <1>4, <2>2, <2>3, <3>1, <3>2, DeliverKeepsInv
  <2>4. ASSUME U[k].received_bytes # U[k].meta.total PROVE ChunkInv'
    <3>1. completed' = LiveCompleted /\ messages' = messages
      BY <2>1, <2>4 DEF TryComplete
    <3> QED
      BY <1>1, <1>4, <2>2, <3>1, DropKeepsInv
  <2> QED
    BY <2>3, <2>4
<1> QED
  BY <1>2, <1>3, <1>4

LEMMA InitChunkInv == Init => ChunkInv
<1> SUFFICES ASSUME Init PROVE ChunkInv
  OBVIOUS
<1>1. DOMAIN transfers = {} /\ DOMAIN completed = {} /\ DOMAIN life = {} /\ Done = {}
  BY DEF Init, Done
<1>2. IsFiniteSet({}) /\ Cardinality({}) = 0
  BY FS_EmptySet
<1>3. HeldBytes(transfers, {}) = 0
  <2>1. Held(transfers, {}) = {}
    BY DEF Held
  <2> QED
    BY <1>2, <2>1 DEF HeldBytes
<1>4. Buffer
  BY <1>1, <1>2, <1>3, ChunkAssumption DEF Init, Buffer, Table, Quotas
<1>5. Lifetimes /\ Buried /\ Whole
  BY <1>1, <1>2 DEF Init, Lifetimes, Buried, Whole
<1> QED
  BY <1>4, <1>5 DEF ChunkInv

LEMMA NextChunkInv == ChunkInv /\ [Next]_vars => ChunkInv'
<1> SUFFICES ASSUME ChunkInv, [Next]_vars PROVE ChunkInv'
  OBVIOUS
<1>1. ASSUME NEW ch \in Chunk, NEW peer \in Peer, Add(ch, peer) PROVE ChunkInv'
  BY <1>1, AddKeepsInv
<1>2. ASSUME EvictStale PROVE ChunkInv'
  <2>1. /\ transfers' = LiveTransfers /\ completed' = LiveCompleted
        /\ total_buffered' = LiveBuffered /\ life' = life /\ messages' = messages
    BY <1>2 DEF EvictStale
  <2>2. DOMAIN life' \subseteq Key /\ \A k \in DOMAIN life' : life'[k] \in 0..EnvTtl
    BY <2>1 DEF ChunkInv, Lifetimes
  <2> QED
    BY <2>1, <2>2, EvictionKeepsInv
<1>3. ASSUME Elapse PROVE ChunkInv'
  BY <1>3, ElapseKeepsInv
<1>4. ASSUME UNCHANGED vars PROVE ChunkInv'
  <2>1. /\ transfers' = transfers /\ completed' = completed /\ messages' = messages
        /\ total_buffered' = total_buffered /\ life' = life
    BY <1>4 DEF vars
  <2> QED
    BY <2>1 DEF ChunkInv, Buffer, Lifetimes, Buried, Whole, Done
<1> QED
  BY <1>1, <1>2, <1>3, <1>4 DEF Next

-----------------------------------------------------------------------------
LEMMA ChunkInvAlways == Spec => []ChunkInv
<1> QED
  BY InitChunkInv, NextChunkInv, PTL DEF Spec

(* The tables keep their types: a partial transfer holds only indices of its *)
(* framing, and at least one (add_scoped, evict_expired, try_complete).     *)
THEOREM ChunkTypes == Spec => []TypeOK
<1>1. ChunkInv => TypeOK
  <2> SUFFICES ASSUME ChunkInv PROVE TypeOK
    OBVIOUS
  <2>1. DOMAIN transfers \subseteq Key /\ DOMAIN completed \subseteq Key
    BY DEF ChunkInv, Buffer, Table, Lifetimes
  <2>2. total_buffered \in Nat
    <3>1. Table(transfers) /\ total_buffered = HeldBytes(transfers, DOMAIN transfers)
      BY DEF ChunkInv, Buffer
    <3> QED
      BY <3>1, TableGroups
  <2>3. ASSUME NEW k \in DOMAIN transfers
        PROVE  /\ transfers[k].received \subseteq 0..(transfers[k].meta.count - 1)
               /\ transfers[k].received_count \in 1..transfers[k].meta.count
               /\ transfers[k].left \in 0..TransferTtl
    <3>1. transfers[k] \in Partial /\ Counted(transfers[k])
      BY DEF ChunkInv, Buffer, Table
    <3>2. transfers[k].meta.count \in Nat /\ transfers[k].received_count \in Nat
          /\ transfers[k].received_count <= transfers[k].meta.count
      BY <3>1, CountedFull
    <3> QED
      BY <3>1, <3>2 DEF Counted, Partial
  <2> QED
    BY <2>1, <2>2, <2>3 DEF TypeOK
<1> QED
  BY <1>1, ChunkInvAlways, PTL

(* total_buffered is at all times the sum of what the partial transfers      *)
(* hold: no path of add_scoped, evict_expired or try_complete leaks a byte  *)
(* of the shared budget, and no saturating_sub ever saturates.              *)
THEOREM BufferedIsExact == Spec => []BufferedExact
<1>1. ChunkInv => BufferedExact
  BY DEF ChunkInv, Buffer, BufferedExact
<1> QED
  BY <1>1, ChunkInvAlways, PTL

(* The count and byte quotas of the node, of every sender and of every       *)
(* previous hop hold in every state, though `usage` is only consulted for   *)
(* the owner of the transfer being opened or extended.                     *)
THEOREM QuotasAreHeld == Spec => []QuotasHold
<1>1. ChunkInv => QuotasHold
  BY DEF ChunkInv, Buffer, Quotas, QuotasHold
<1> QED
  BY <1>1, ChunkInvAlways, PTL

(* Counting distinct indices is enough: when try_complete's count is reached *)
(* every piece is there, so the rebuild never meets a missing one, and a    *)
(* table entry is never complete.                                          *)
THEOREM HandsOnWhole == Spec => []CompletesWhole
<1>1. ChunkInv => CompletesWhole
  <2> SUFFICES ASSUME ChunkInv PROVE CompletesWhole
    OBVIOUS
  <2>1. ASSUME NEW k \in DOMAIN transfers
        PROVE  transfers[k].received # 0..(transfers[k].meta.count - 1)
    <3>1. /\ transfers[k] \in Partial /\ Counted(transfers[k])
          /\ transfers[k].received_count < transfers[k].meta.count
      BY DEF ChunkInv, Buffer, Table
    <3> QED
      BY <3>1, CountedFull
  <2> QED
    BY <2>1 DEF ChunkInv, Whole, CompletesWhole
<1> QED
  BY <1>1, ChunkInvAlways, PTL

(* While no more transfers completed than there is room for tombstones, no   *)
(* key is handed on twice, and a late chunk of a retransmit does not reopen *)
(* it: because a carrier never outlives its transfer's deadline.            *)
THEOREM HandsOnOnce == Spec => []CompletesOnce
<1>1. ChunkInv => CompletesOnce
  BY DEF ChunkInv, Buried, Done, CompletesOnce
<1> QED
  BY <1>1, ChunkInvAlways, PTL
=============================================================================
