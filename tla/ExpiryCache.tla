---------------------------- MODULE ExpiryCache ----------------------------
(***************************************************************************)
(* ExpiryCache and its value-carrying sibling ExpiryMap                     *)
(* (crates/veil-dispatcher/src/lib.rs): the bounded memory behind relay     *)
(* dedup, the terminal replay guard and the ACK replay.  A hash map says    *)
(* what is known, a heap ordered by expiry says what to forget first; the   *)
(* two are kept in step by hand.  The map's values play no part in what is  *)
(* kept, so one model stands for both types.                                *)
(***************************************************************************)
EXTENDS Integers, FiniteSets

CONSTANTS
    Key,        \* content ids and dedup keys
    Ttl,        \* FORWARD_SEEN_SET_TTL_SECS
    MaxSize,    \* MAX_FORWARD_SEEN_SET_SIZE
    MaxNow      \* bound on the clock

ASSUME CacheAssumption ==
    Ttl \in Nat \ {0} /\ MaxSize \in Nat \ {0} /\ MaxNow \in Nat

VARIABLES
    now,        \* Instant::now
    entries,    \* key -> the instant it expires
    heap,       \* [key, expires_at] records; the least expires_at is on top
    recorded    \* history: key -> the instant of its last insertion

cacheVars == <<now, entries, heap, recorded>>

CacheInit ==
    /\ now = 0
    /\ entries = [k \in {} |-> 0]
    /\ heap = {}
    /\ recorded = [k \in {} |-> 0]

\* The loop that pops expired heap entries and removes their keys.
Expired == {e \in heap : now >= e.expires_at}
KeysOf(S) == {e.key : e \in S}
Pruned == DOMAIN entries \ KeysOf(Expired)

\* Candidates for eviction: a top of the heap.  Entries of one instant are
\* equal to the heap, so any of them may be on top.
Oldest(S) == {e \in S : \A f \in S : e.expires_at <= f.expires_at}

\* Mutant: the newest entry is evicted (a max-heap: Reverse forgotten).
EvictedNewest ==
    IF Cardinality(Pruned) >= MaxSize /\ heap \ Expired # {}
    THEN {{e} : e \in {x \in heap \ Expired :
                          \A y \in heap \ Expired : x.expires_at >= y.expires_at}}
    ELSE {{}}

\* What an insertion evicts: nothing below capacity, else one oldest entry.
Evicted ==
    IF Cardinality(Pruned) >= MaxSize /\ heap \ Expired # {}
    THEN {{e} : e \in Oldest(heap \ Expired)} ELSE {{}}

\* check_and_insert answers whether k is known; ExpiryMap::insert changes the
\* value of a known k only.  Neither pushes a second heap entry for it.
Known(k) ==
    /\ k \in Pruned
    /\ entries' = [x \in Pruned |-> entries[x]]
    /\ heap' = heap \ Expired
    /\ UNCHANGED <<now, recorded>>

\* Mutant: the evicted entry leaves the heap but not the map.
InsertKeepsEvicted(k) ==
    /\ k \notin Pruned
    /\ \E out \in Evicted :
          /\ entries' = [x \in Pruned \cup {k} |-> IF x = k THEN now + Ttl ELSE entries[x]]
          /\ heap' = ((heap \ Expired) \ out) \cup {[key |-> k, expires_at |-> now + Ttl]}
    /\ recorded' = [x \in DOMAIN recorded \cup {k} |-> IF x = k THEN now ELSE recorded[x]]
    /\ UNCHANGED now

\* Mutant: the window is counted backwards.
InsertBackdated(k) ==
    /\ k \notin Pruned
    /\ \E out \in Evicted :
          /\ entries' = [x \in (Pruned \ KeysOf(out)) \cup {k} |->
                           IF x = k THEN now - Ttl ELSE entries[x]]
          /\ heap' = ((heap \ Expired) \ out) \cup {[key |-> k, expires_at |-> now - Ttl]}
    /\ recorded' = [x \in DOMAIN recorded \cup {k} |-> IF x = k THEN now ELSE recorded[x]]
    /\ UNCHANGED now

\* ... and records a new one, evicting the oldest at capacity.
Insert(k) ==
    /\ k \notin Pruned
    /\ \E out \in Evicted :
          /\ entries' = [x \in (Pruned \ KeysOf(out)) \cup {k} |->
                           IF x = k THEN now + Ttl ELSE entries[x]]
          /\ heap' = ((heap \ Expired) \ out) \cup {[key |-> k, expires_at |-> now + Ttl]}
    /\ recorded' = [x \in DOMAIN recorded \cup {k} |-> IF x = k THEN now ELSE recorded[x]]
    /\ UNCHANGED now

\* ExpiryMap::get: prune_expired, then look up.
Get ==
    /\ entries' = [x \in Pruned |-> entries[x]]
    /\ heap' = heap \ Expired
    /\ UNCHANGED <<now, recorded>>

\* contains_live: a read that prunes nothing.
ContainsLive(k) == k \in DOMAIN entries /\ now < entries[k]

Elapse ==
    /\ now < MaxNow
    /\ now' = now + 1
    /\ UNCHANGED <<entries, heap, recorded>>

CacheNext ==
    \/ \E k \in Key : Known(k) \/ Insert(k)
    \/ Get
    \/ Elapse

CacheSpec == CacheInit /\ [][CacheNext]_cacheVars

-----------------------------------------------------------------------------
(* Types of the map and the heap.                                          *)
CacheTypeOK ==
    /\ now \in Nat
    /\ \E S \in SUBSET Key : entries \in [S -> Nat]
    /\ heap \subseteq [key : Key, expires_at : Nat]
    /\ \E S \in SUBSET Key : recorded \in [S -> Nat]

(* Map and heap stay in step through expiry, eviction and re-insertion: one  *)
(* heap entry per known key, with its expiry.  A second or a stale heap      *)
(* entry would one day evict a live key early (the hazard ExpiryMap::insert  *)
(* names); a map entry without one would never be forgotten.               *)
HeapMatchesEntries == heap = {[key |-> k, expires_at |-> entries[k]] : k \in DOMAIN entries}

(* The keys recorded no earlier than k, k among them.                      *)
RecordedSince(k) == {j \in DOMAIN recorded : recorded[j] >= recorded[k]}

(* What dedup relies on, and the two caps cost: inside its window a key is   *)
(* forgotten only under pressure of more than MaxSize keys recorded at the   *)
(* same instant or later; outside it the key is no longer live.            *)
RemembersWindow ==
    /\ Cardinality(DOMAIN entries) <= MaxSize
    /\ \A k \in DOMAIN recorded :
          /\ (now < recorded[k] + Ttl /\ Cardinality(RecordedSince(k)) <= MaxSize)
                => ContainsLive(k)
          /\ ContainsLive(k) => now < recorded[k] + Ttl
=============================================================================
