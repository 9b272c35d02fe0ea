------------------------- MODULE ExpiryCacheProofs -------------------------
(***************************************************************************)
(* Map and heap of ExpiryCache agree, and the window is remembered, for     *)
(* every set of keys, window and capacity.                                  *)
(*                                                                         *)
(* CacheInv adds to the two properties what ties entries to the history: a  *)
(* known key expires one window after it was last recorded, and nothing was *)
(* recorded in the future.  The step that matters is an insertion at        *)
(* capacity: every entry left behind was recorded no earlier than the one   *)
(* evicted, so with the new key more than MaxSize keys were.                *)
(***************************************************************************)
EXTENDS ExpiryCache, FiniteSetTheorems, TLAPS

Bookkeeping ==
    /\ DOMAIN entries \subseteq DOMAIN recorded
    /\ \A k \in DOMAIN entries : entries[k] = recorded[k] + Ttl
    /\ \A k \in DOMAIN recorded : recorded[k] <= now
    /\ IsFiniteSet(DOMAIN recorded)
    /\ Cardinality(DOMAIN entries) <= MaxSize

Remembered ==
    \A k \in DOMAIN recorded :
       (now < recorded[k] + Ttl /\ Cardinality(RecordedSince(k)) <= MaxSize)
          => k \in DOMAIN entries

CacheInv == CacheTypeOK /\ HeapMatchesEntries /\ Bookkeeping /\ Remembered

-----------------------------------------------------------------------------
(* CacheInv is enough for the property the runs check.                     *)
LEMMA InvRemembers == CacheInv => RemembersWindow
<1> SUFFICES ASSUME CacheInv PROVE RemembersWindow
  OBVIOUS
<1>1. Cardinality(DOMAIN entries) <= MaxSize
  BY DEF CacheInv, Bookkeeping
<1>2. ASSUME NEW k \in DOMAIN recorded, now < recorded[k] + Ttl,
             Cardinality(RecordedSince(k)) <= MaxSize
      PROVE  ContainsLive(k)
  BY <1>2 DEF CacheInv, Bookkeeping, Remembered, ContainsLive
<1>3. ASSUME NEW k \in DOMAIN recorded, ContainsLive(k)
      PROVE  now < recorded[k] + Ttl
  BY <1>3 DEF CacheInv, Bookkeeping, ContainsLive
<1> QED
  BY <1>1, <1>2, <1>3 DEF RemembersWindow

LEMMA InitCacheInv == CacheInit => CacheInv
<1> SUFFICES ASSUME CacheInit PROVE CacheInv
  OBVIOUS
<1>1. DOMAIN entries = {} /\ DOMAIN recorded = {}
  BY DEF CacheInit
<1>2. CacheTypeOK
  <2>1. entries \in [{} -> Nat] /\ recorded \in [{} -> Nat]
    BY DEF CacheInit
  <2> QED
    BY <2>1 DEF CacheInit, CacheTypeOK
<1>3. HeapMatchesEntries
  BY <1>1 DEF CacheInit, HeapMatchesEntries
<1>4. Bookkeeping
  BY <1>1, FS_EmptySet, CacheAssumption DEF Bookkeeping
<1>5. Remembered
  BY <1>1 DEF Remembered
<1> QED
  BY <1>2, <1>3, <1>4, <1>5 DEF CacheInv

-----------------------------------------------------------------------------
(* Pruning keeps exactly the entries still inside their window.            *)
LEMMA PrunedLive ==
    ASSUME CacheInv
    PROVE  /\ Pruned = {k \in DOMAIN entries : now < entries[k]}
           /\ heap \ Expired = {[key |-> k, expires_at |-> entries[k]] : k \in Pruned}
<1>1. \A e \in heap : e.key \in DOMAIN entries /\ e.expires_at = entries[e.key]
  BY DEF CacheInv, HeapMatchesEntries
<1>2. \A k \in DOMAIN entries : entries[k] \in Nat /\ now \in Nat
  BY DEF CacheInv, CacheTypeOK
<1>3. KeysOf(Expired) = {k \in DOMAIN entries : now >= entries[k]}
  <2>1. ASSUME NEW k \in DOMAIN entries, now >= entries[k]
        PROVE  k \in KeysOf(Expired)
    <3>1. [key |-> k, expires_at |-> entries[k]] \in Expired
      BY <2>1 DEF CacheInv, HeapMatchesEntries, Expired
    <3> QED
      BY <3>1 DEF KeysOf
  <2> QED
    BY <1>1, <2>1 DEF KeysOf, Expired
<1>4. Pruned = {k \in DOMAIN entries : now < entries[k]}
  BY <1>2, <1>3 DEF Pruned
<1>5. heap \ Expired = {[key |-> k, expires_at |-> entries[k]] : k \in Pruned}
  BY <1>1, <1>2, <1>4 DEF CacheInv, HeapMatchesEntries, Expired
<1> QED
  BY <1>4, <1>5

LEMMA DomainsFinite ==
    ASSUME CacheInv
    PROVE  IsFiniteSet(DOMAIN entries) /\ Pruned \subseteq DOMAIN entries
           /\ IsFiniteSet(Pruned) /\ Cardinality(Pruned) <= Cardinality(DOMAIN entries)
           /\ Cardinality(Pruned) \in Nat /\ Cardinality(DOMAIN entries) \in Nat
<1>1. IsFiniteSet(DOMAIN entries)
  BY FS_Subset DEF CacheInv, Bookkeeping
<1>2. Pruned \subseteq DOMAIN entries
  BY DEF Pruned
<1> QED
  BY <1>1, <1>2, FS_Subset, FS_CardinalityType

(* Forgetting what has expired preserves the invariant.                    *)
LEMMA PruneKeepsInv ==
    ASSUME CacheInv,
           entries' = [x \in Pruned |-> entries[x]], heap' = heap \ Expired,
           UNCHANGED <<now, recorded>>
    PROVE  CacheInv'
<1>1. /\ Pruned = {k \in DOMAIN entries : now < entries[k]}
      /\ heap \ Expired = {[key |-> k, expires_at |-> entries[k]] : k \in Pruned}
  BY PrunedLive
<1>2. DOMAIN entries' = Pruned /\ \A k \in Pruned : entries'[k] = entries[k]
  OBVIOUS
<1>3. CacheTypeOK'
  <2>1. PICK S \in SUBSET Key : entries \in [S -> Nat]
    BY DEF CacheInv, CacheTypeOK
  <2>2. Pruned \in SUBSET Key /\ entries' \in [Pruned -> Nat]
    BY <2>1, <1>1
  <2>3. (\E T \in SUBSET Key : entries \in [T -> Nat])'
    BY <2>2
  <2> QED
    BY <2>3 DEF CacheInv, CacheTypeOK
<1>4. HeapMatchesEntries'
  BY <1>1, <1>2 DEF HeapMatchesEntries
<1>5. Bookkeeping'
  <2>1. Cardinality(Pruned) <= MaxSize
    BY DomainsFinite, CacheAssumption DEF CacheInv, Bookkeeping
  <2> QED
    BY <1>1, <1>2, <2>1 DEF CacheInv, Bookkeeping
<1>6. Remembered'
  <2> SUFFICES ASSUME NEW k \in DOMAIN recorded, now < recorded[k] + Ttl,
                      Cardinality(RecordedSince(k)) <= MaxSize
               PROVE  k \in DOMAIN entries'
    BY DEF Remembered, RecordedSince
  <2> QED
    BY <1>1, <1>2 DEF CacheInv, Remembered, Bookkeeping
<1> QED
  BY <1>3, <1>4, <1>5, <1>6 DEF CacheInv

-----------------------------------------------------------------------------
(* An insertion evicts nothing and has room, or evicts one of the oldest    *)
(* entries of a full cache.                                                *)
LEMMA EvictedShape ==
    ASSUME CacheInv, NEW out \in Evicted
    PROVE  \/ /\ out = {}
              /\ Cardinality(Pruned) < MaxSize
           \/ /\ Cardinality(Pruned) >= MaxSize
              /\ \E j \in Pruned :
                    /\ out = {[key |-> j, expires_at |-> entries[j]]}
                    /\ \A i \in Pruned : entries[j] <= entries[i]
<1>1. heap \ Expired = {[key |-> x, expires_at |-> entries[x]] : x \in Pruned}
  BY PrunedLive
<1>2. CASE Cardinality(Pruned) >= MaxSize /\ heap \ Expired # {}
  <2>1. PICK e \in Oldest(heap \ Expired) : out = {e}
    BY <1>2 DEF Evicted
  <2>2. e \in heap \ Expired /\ \A f \in heap \ Expired : e.expires_at <= f.expires_at
    BY <2>1 DEF Oldest
  <2>3. PICK j \in Pruned : e = [key |-> j, expires_at |-> entries[j]]
    BY <1>1, <2>2
  <2>4. \A i \in Pruned : entries[j] <= entries[i]
    <3> TAKE i \in Pruned
    <3>1. [key |-> i, expires_at |-> entries[i]] \in heap \ Expired
      BY <1>1
    <3> QED
      BY <2>2, <2>3, <3>1
  <2> QED
    BY <1>2, <2>1, <2>3, <2>4
<1>3. CASE ~(Cardinality(Pruned) >= MaxSize /\ heap \ Expired # {})
  <2>1. out = {}
    BY <1>3 DEF Evicted
  <2>2. Cardinality(Pruned) < MaxSize
    <3>1. CASE heap \ Expired = {}
      <4>1. Pruned = {}
        BY <1>1, <3>1
      <4> QED
        BY <4>1, FS_EmptySet, CacheAssumption
    <3>2. CASE ~(Cardinality(Pruned) >= MaxSize)
      BY <3>2, DomainsFinite, CacheAssumption
    <3> QED
      BY <1>3, <3>1, <3>2
  <2> QED
    BY <2>1, <2>2
<1> QED
  BY <1>2, <1>3

(* Recording a new key preserves the invariant.                            *)
LEMMA InsertKeepsInv ==
    ASSUME CacheInv, NEW k \in Key, Insert(k)
    PROVE  CacheInv'
<1>1. /\ k \notin Pruned
      /\ recorded' = [x \in DOMAIN recorded \cup {k} |-> IF x = k THEN now ELSE recorded[x]]
      /\ now' = now
  BY DEF Insert
<1>2. PICK out \in Evicted :
        /\ entries' = [x \in (Pruned \ KeysOf(out)) \cup {k} |->
                         IF x = k THEN now + Ttl ELSE entries[x]]
        /\ heap' = ((heap \ Expired) \ out) \cup {[key |-> k, expires_at |-> now + Ttl]}
  BY DEF Insert
<1> DEFINE keep == Pruned \ KeysOf(out)
<1>3. /\ Pruned = {x \in DOMAIN entries : now < entries[x]}
      /\ heap \ Expired = {[key |-> x, expires_at |-> entries[x]] : x \in Pruned}
  BY PrunedLive
<1>4. \/ /\ out = {}
         /\ Cardinality(Pruned) < MaxSize
      \/ /\ Cardinality(Pruned) >= MaxSize
         /\ \E j \in Pruned :
               /\ out = {[key |-> j, expires_at |-> entries[j]]}
               /\ \A i \in Pruned : entries[j] <= entries[i]
  BY EvictedShape
<1>5. DOMAIN entries' = keep \cup {k} /\ k \notin keep
      /\ entries'[k] = now + Ttl /\ \A x \in keep : entries'[x] = entries[x]
  BY <1>1, <1>2
<1>6. DOMAIN recorded' = DOMAIN recorded \cup {k} /\ recorded'[k] = now
      /\ \A x \in DOMAIN recorded \ {k} : recorded'[x] = recorded[x]
  BY <1>1
<1>7. keep \subseteq DOMAIN entries /\ keep \subseteq DOMAIN recorded
  BY <1>3 DEF CacheInv, Bookkeeping
<1>8. /\ now \in Nat /\ DOMAIN entries \subseteq Key /\ DOMAIN recorded \subseteq Key
      /\ \A x \in DOMAIN entries : entries[x] \in Nat
      /\ \A x \in DOMAIN recorded : recorded[x] \in Nat
  BY DEF CacheInv, CacheTypeOK
<1>9. IsFiniteSet(keep) /\ Cardinality(keep) < MaxSize /\ Cardinality(keep) \in Nat
  <2>1. CASE out = {} /\ Cardinality(Pruned) < MaxSize
    <3>1. keep = Pruned
      BY <2>1 DEF KeysOf
    <3> QED
      BY <3>1, <2>1, DomainsFinite
  <2>2. CASE \E j \in Pruned : out = {[key |-> j, expires_at |-> entries[j]]}
    <3>1. PICK j \in Pruned : out = {[key |-> j, expires_at |-> entries[j]]}
      BY <2>2
    <3>2. KeysOf(out) = {j}
      BY <3>1 DEF KeysOf
    <3>3. keep = Pruned \ {j}
      BY <3>2
    <3>4. IsFiniteSet(Pruned) /\ Cardinality(Pruned) \in Nat /\ Cardinality(Pruned) <= MaxSize
      BY DomainsFinite, CacheAssumption DEF CacheInv, Bookkeeping
    <3>5. IsFiniteSet(Pruned \ {j}) /\ Cardinality(Pruned \ {j}) = Cardinality(Pruned) - 1
      BY <3>1, <3>4, FS_RemoveElement
    <3>6. Cardinality(Pruned \ {j}) \in Nat
      BY <3>5, FS_CardinalityType
    <3> QED
      BY <3>3, <3>4, <3>5, <3>6, CacheAssumption
  <2> QED
    BY <1>4, <2>1, <2>2
<1> HIDE DEF keep
<1>10. CacheTypeOK'
  <2>1. keep \cup {k} \in SUBSET Key /\ DOMAIN recorded \cup {k} \in SUBSET Key
    BY <1>7, <1>8
  <2>2. \A x \in keep \cup {k} : entries'[x] \in Nat
    BY <1>5, <1>7, <1>8, CacheAssumption
  <2>3. entries' \in [keep \cup {k} -> Nat]
    BY <1>2, <2>2 DEF keep
  <2>4. recorded' \in [DOMAIN recorded \cup {k} -> Nat]
    BY <1>1, <1>8
  <2>5. heap' \subseteq [key : Key, expires_at : Nat]
    BY <1>2, <1>8, CacheAssumption DEF CacheInv, CacheTypeOK
  <2> QED
    BY <2>1, <2>3, <2>4, <2>5, <1>1, <1>8 DEF CacheTypeOK
<1>11. HeapMatchesEntries'
  <2>1. (heap \ Expired) \ out = {[key |-> x, expires_at |-> entries[x]] : x \in keep}
    BY <1>3, <1>4 DEF keep, KeysOf
  <2>2. heap' = {[key |-> x, expires_at |-> entries[x]] : x \in keep}
                \cup {[key |-> k, expires_at |-> now + Ttl]}
    BY <1>2, <2>1
  <2> QED
    BY <2>2, <1>5 DEF HeapMatchesEntries
<1>12. Bookkeeping'
  <2>1. IsFiniteSet(DOMAIN recorded \cup {k})
    BY FS_AddElement DEF CacheInv, Bookkeeping
  <2>2. Cardinality(keep \cup {k}) = Cardinality(keep) + 1
    BY <1>5, <1>9, FS_AddElement
  <2>3. Cardinality(keep \cup {k}) <= MaxSize
    BY <2>2, <1>9, CacheAssumption
  <2>4. \A x \in keep \cup {k} : entries'[x] = recorded'[x] + Ttl
    BY <1>5, <1>6, <1>7 DEF CacheInv, Bookkeeping
  <2>5. \A x \in DOMAIN recorded \cup {k} : recorded'[x] <= now'
    BY <1>1, <1>6, <1>8 DEF CacheInv, Bookkeeping
  <2> QED
    BY <1>5, <1>6, <1>7, <2>1, <2>3, <2>4, <2>5 DEF Bookkeeping
<1>13. Remembered'
  <2> SUFFICES ASSUME NEW x \in DOMAIN recorded', now < recorded'[x] + Ttl,
                      Cardinality(RecordedSince(x)') <= MaxSize
               PROVE  x \in DOMAIN entries'
    BY <1>1 DEF Remembered
  <2>1. CASE x = k
    BY <2>1, <1>5
  <2>2. CASE x # k
    <3>1. x \in DOMAIN recorded /\ recorded'[x] = recorded[x]
      BY <2>2, <1>6
    <3>2. RecordedSince(x) \subseteq RecordedSince(x)'
      BY <3>1, <1>6, <1>8 DEF RecordedSince, CacheInv, Bookkeeping
    <3>3. IsFiniteSet(RecordedSince(x)')
      <4>1. IsFiniteSet(DOMAIN recorded')
        BY <1>6, FS_AddElement DEF CacheInv, Bookkeeping
      <4>2. RecordedSince(x)' \subseteq DOMAIN recorded'
        BY DEF RecordedSince
      <4> QED
        BY <4>1, <4>2, FS_Subset
    <3>4. Cardinality(RecordedSince(x)') \in Nat
      BY <3>3, FS_CardinalityType
    <3>5. Cardinality(RecordedSince(x)) <= MaxSize
      <4>1. /\ IsFiniteSet(RecordedSince(x))
            /\ Cardinality(RecordedSince(x)) <= Cardinality(RecordedSince(x)')
        BY <3>2, <3>3, FS_Subset
      <4>2. Cardinality(RecordedSince(x)) \in Nat
        BY <4>1, FS_CardinalityType
      <4> QED
        BY <4>1, <4>2, <3>4, CacheAssumption
    <3>6. x \in Pruned
      BY <3>1, <3>5, <1>3 DEF CacheInv, Remembered, Bookkeeping
    <3>7. ASSUME x \notin keep PROVE FALSE
      <4>1. Cardinality(Pruned) >= MaxSize /\ \A i \in Pruned : entries[x] <= entries[i]
        BY <3>6, <3>7, <1>4 DEF keep, KeysOf
      <4>2. Pruned \cup {k} \subseteq RecordedSince(x)'
        <5>1. \A i \in Pruned : i # k /\ i \in DOMAIN recorded
                 /\ entries[i] = recorded[i] + Ttl
          BY <1>1, <1>3 DEF CacheInv, Bookkeeping
        <5>2. \A i \in Pruned : recorded'[i] >= recorded'[x]
          BY <5>1, <4>1, <3>6, <1>6, <1>8, CacheAssumption
        <5>3. recorded'[k] >= recorded'[x]
          BY <3>1, <1>6, <1>8 DEF CacheInv, Bookkeeping
        <5> QED
          BY <5>1, <5>2, <5>3, <1>6 DEF RecordedSince
      <4>3. Cardinality(Pruned \cup {k}) = Cardinality(Pruned) + 1
        BY <1>1, DomainsFinite, FS_AddElement
      <4>4. Cardinality(Pruned \cup {k}) <= Cardinality(RecordedSince(x)')
        BY <4>2, <3>3, FS_Subset
      <4> QED
        BY <4>1, <4>3, <4>4, <3>4, DomainsFinite, CacheAssumption
    <3> QED
      BY <3>7, <1>5
  <2> QED
    BY <2>1, <2>2
<1> QED
  BY <1>10, <1>11, <1>12, <1>13 DEF CacheInv

LEMMA NextCacheInv == CacheInv /\ [CacheNext]_cacheVars => CacheInv'
<1> SUFFICES ASSUME CacheInv, [CacheNext]_cacheVars PROVE CacheInv'
  OBVIOUS
<1>1. ASSUME NEW k \in Key, Known(k) PROVE CacheInv'
  BY <1>1, PruneKeepsInv DEF Known
<1>2. ASSUME NEW k \in Key, Insert(k) PROVE CacheInv'
  BY <1>2, InsertKeepsInv
<1>3. CASE Get
  BY <1>3, PruneKeepsInv DEF Get
<1>4. CASE Elapse
  <2>1. now' = now + 1 /\ UNCHANGED <<entries, heap, recorded>>
    BY <1>4 DEF Elapse
  <2>2. CacheTypeOK' /\ HeapMatchesEntries'
    BY <2>1 DEF CacheInv, CacheTypeOK, HeapMatchesEntries
  <2>3. \A k \in DOMAIN recorded : recorded[k] \in Nat /\ now \in Nat
    BY DEF CacheInv, CacheTypeOK
  <2>4. Bookkeeping'
    BY <2>1, <2>3 DEF CacheInv, Bookkeeping
  <2>5. Remembered'
    BY <2>1, <2>3, CacheAssumption DEF CacheInv, Remembered, RecordedSince
  <2> QED
    BY <2>2, <2>4, <2>5 DEF CacheInv
<1>5. CASE UNCHANGED cacheVars
  BY <1>5 DEF cacheVars, CacheInv, CacheTypeOK, HeapMatchesEntries, Bookkeeping,
              Remembered, RecordedSince
<1> QED
  BY <1>1, <1>2, <1>3, <1>4, <1>5 DEF CacheNext

-----------------------------------------------------------------------------
(* Map and heap of ExpiryCache / ExpiryMap agree in every reachable state:   *)
(* no live key is dropped by a stale heap entry, none is kept for ever.    *)
THEOREM CacheHeapMatches == CacheSpec => []HeapMatchesEntries
<1>1. CacheInv => HeapMatchesEntries
  BY DEF CacheInv
<1> QED
  BY <1>1, InitCacheInv, NextCacheInv, PTL DEF CacheSpec

(* check_and_insert remembers a key for its whole window unless more than    *)
(* MaxSize keys were recorded since, and never longer.                     *)
THEOREM CacheRemembersWindow == CacheSpec => []RemembersWindow
  BY InvRemembers, InitCacheInv, NextCacheInv, PTL DEF CacheSpec

(* The types of the maps and clocks hold whatever the callers of the cache   *)
(* do, so every expiry the heap orders is a point in time.                 *)
THEOREM CacheTypes == CacheSpec => []CacheTypeOK
<1>1. CacheInv => CacheTypeOK
  BY DEF CacheInv
<1> QED
  BY <1>1, InitCacheInv, NextCacheInv, PTL DEF CacheSpec
=============================================================================
