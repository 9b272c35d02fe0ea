-------------------------- MODULE ChunkReassembly --------------------------
(***************************************************************************)
(* EnvelopeChunkReassembler (crates/veil-dispatcher/src/envelope_chunks.rs): *)
(* the recipient's bounded buffer of chunked messages.  Chunks arrive in    *)
(* any order, more than once, over any session, and with framing that may   *)
(* disagree with the transfer they name.  A chunk's key is its transfer id  *)
(* with its scope (relayed, or the direct peer).  A deadline is the number  *)
(* of instants left until it has passed.                                    *)
(***************************************************************************)
EXTENDS Integers, FiniteSets, Functions

CONSTANTS
    Chunk,              \* chunks that may arrive: [key, meta, index, len]
    Peer,               \* authenticated previous hops
    MaxTransfers,       \* MAX_CONCURRENT_TRANSFERS
    MaxPerSender,       \* MAX_TRANSFERS_PER_SENDER
    MaxPerPeer,         \* MAX_TRANSFERS_PER_PEER
    MaxBytes,           \* MAX_REASSEMBLY_BYTES
    MaxBytesPerSender,  \* MAX_REASSEMBLY_BYTES_PER_SENDER
    MaxBytesPerPeer,    \* MAX_REASSEMBLY_BYTES_PER_PEER
    MaxCompleted,       \* MAX_COMPLETED_TRANSFERS
    TransferTtl,        \* CHUNK_REASSEMBLY_TTL_SECS + 1 instants
    EnvTtl              \* instants the carriers live here, clock skew included

Key == {ch.key : ch \in Chunk}

\* meta is the framing and addressing every chunk of a transfer repeats:
\* [sender, count, total, content_id].  decode bounds the index.
ASSUME ChunkAssumption ==
    /\ \A ch \in Chunk : ch.len \in Nat /\ ch.meta.count \in Nat \ {0}
                         /\ ch.index \in 0..(ch.meta.count - 1)
    /\ TransferTtl \in Nat \ {0} /\ EnvTtl \in 1..TransferTtl
    /\ MaxCompleted \in Nat \ {0}
    /\ MaxTransfers \in Nat /\ MaxPerSender \in Nat /\ MaxPerPeer \in Nat
    /\ MaxBytes \in Nat /\ MaxBytesPerSender \in Nat /\ MaxBytesPerPeer \in Nat

VARIABLES
    transfers,      \* key -> partial transfer
    completed,      \* key -> tombstone [content_id, left]
    total_buffered, \* bytes held by all partial transfers
    life,           \* key -> instants its carriers still pass the TTL check
    messages        \* history: messages handed to terminal_deliver

vars == <<transfers, completed, total_buffered, life, messages>>

Init ==
    /\ transfers = [k \in {} |-> 0]
    /\ completed = [k \in {} |-> 0]
    /\ total_buffered = 0
    /\ life = [k \in {} |-> 0]
    /\ messages = {}

\* Bytes held by the transfers S of T, each byte a pair: a sum as a cardinality.
Held(T, S) == UNION {{k} \X (1..T[k].received_bytes) : k \in S}
HeldBytes(T, S) == Cardinality(Held(T, S))

\* Mutant: the operands are swapped.
SwappedSub(m, n) == n - m
SaturatingSub(m, n) == IF m >= n THEN m - n ELSE 0

-----------------------------------------------------------------------------
\* evict_expired
LiveTransfers == Restrict(transfers, {k \in DOMAIN transfers : transfers[k].left > 0})
LiveCompleted == Restrict(completed, {k \in DOMAIN completed : completed[k].left > 0})
Freed == HeldBytes(transfers, DOMAIN transfers \ DOMAIN LiveTransfers)

\* Mutant: the eviction does not give its bytes back.
LiveBufferedStale == total_buffered

LiveBuffered == SaturatingSub(total_buffered, Freed)

\* usage: the transfers of a sender, of a previous hop
OfSender(T, s) == {k \in DOMAIN T : T[k].meta.sender = s}
OfPeer(T, p) == {k \in DOMAIN T : T[k].peer = p}

\* Mutant: the byte quotas bind only the chunk that opens a transfer.
RoomAtOpeningOnly(T, buffered, sender, peer, ch) ==
    /\ buffered + ch.len <= MaxBytes
    /\ ch.key \notin DOMAIN T =>
          /\ HeldBytes(T, OfSender(T, sender)) + ch.len <= MaxBytesPerSender
          /\ HeldBytes(T, OfPeer(T, peer)) + ch.len <= MaxBytesPerPeer

\* The byte budgets, checked for every chunk against the transfer's owner.
Room(T, buffered, sender, peer, ch) ==
    /\ buffered + ch.len <= MaxBytes
    /\ HeldBytes(T, OfSender(T, sender)) + ch.len <= MaxBytesPerSender
    /\ HeldBytes(T, OfPeer(T, peer)) + ch.len <= MaxBytesPerPeer

\* A chunk that opens a transfer ...
Opens(T, buffered, ch, peer) ==
    /\ ch.key \notin DOMAIN T
    /\ Cardinality(DOMAIN T) < MaxTransfers
    /\ Cardinality(OfSender(T, ch.meta.sender)) < MaxPerSender
    /\ Cardinality(OfPeer(T, peer)) < MaxPerPeer
    /\ Room(T, buffered, ch.meta.sender, peer, ch)

\* Mutant: a duplicate index is counted again.
ExtendsAgain(T, buffered, ch) ==
    /\ ch.key \in DOMAIN T
    /\ ch.meta = T[ch.key].meta
    /\ Room(T, buffered, T[ch.key].meta.sender, T[ch.key].peer, ch)

\* ... and one that extends it: same framing, new index.
Extends(T, buffered, ch) ==
    /\ ch.key \in DOMAIN T
    /\ ch.meta = T[ch.key].meta
    /\ ch.index \notin T[ch.key].received
    /\ Room(T, buffered, T[ch.key].meta.sender, T[ch.key].peer, ch)

Stored(T, ch, peer) ==
    [k \in DOMAIN T \cup {ch.key} |->
       IF k # ch.key THEN T[k]
       ELSE IF k \notin DOMAIN T
       THEN [meta |-> ch.meta, peer |-> peer, received |-> {ch.index},
             received_count |-> 1, received_bytes |-> ch.len, left |-> TransferTtl]
       ELSE [T[k] EXCEPT !.received = @ \cup {ch.index}, !.received_count = @ + 1,
                         !.received_bytes = @ + ch.len]]

\* What try_complete may evict from the tombstones to make room for one.
Oldest(C) == {k \in DOMAIN C : \A j \in DOMAIN C : C[k].left <= C[j].left}
TombstonesBefore(C) ==
    IF Cardinality(DOMAIN C) >= MaxCompleted
    THEN {Restrict(C, DOMAIN C \ {k}) : k \in Oldest(C)} ELSE {C}

\* The rebuilt envelope, and whether its key was handed on before.
Message(T, k) ==
    [key |-> k, meta |-> T[k].meta, received |-> T[k].received,
     received_bytes |-> T[k].received_bytes, again |-> \E m \in messages : m.key = k]

\* Mutant: the tombstone is left out.
TryCompleteForgets(T, buffered, k) ==
    /\ transfers' = Restrict(T, DOMAIN T \ {k})
    /\ total_buffered' = SaturatingSub(buffered, T[k].received_bytes)
    /\ completed' = LiveCompleted
    /\ messages' = IF T[k].received_bytes = T[k].meta.total
                   THEN messages \cup {Message(T, k)} ELSE messages

\* try_complete for a transfer that has all its chunks: it leaves the table,
\* and unless its size is wrong it leaves a tombstone with its own deadline.
TryComplete(T, buffered, k) ==
    /\ transfers' = Restrict(T, DOMAIN T \ {k})
    /\ total_buffered' = SaturatingSub(buffered, T[k].received_bytes)
    /\ IF T[k].received_bytes = T[k].meta.total
       THEN /\ \E C \in TombstonesBefore(LiveCompleted) :
                 completed' = [x \in DOMAIN C \cup {k} |->
                    IF x = k THEN [content_id |-> T[k].meta.content_id, left |-> T[k].left]
                    ELSE C[x]]
            /\ messages' = messages \cup {Message(T, k)}
       ELSE completed' = LiveCompleted /\ UNCHANGED messages

\* add, add_direct_app and the add_scoped behind both.  A chunk of a completed
\* transfer or one that is refused changes nothing but the eviction.  No chunk
\* arrives after its carrier has expired (forward_ttl_already_expired).
Add(ch, peer) ==
    LET T == LiveTransfers
        k == ch.key
        accepted == /\ k \notin DOMAIN LiveCompleted
                    /\ Opens(T, LiveBuffered, ch, peer) \/ Extends(T, LiveBuffered, ch)
        stored == Stored(T, ch, peer)
        buffered == LiveBuffered + ch.len
    IN  /\ (k \in DOMAIN life => life[k] > 0)
        /\ life' = [x \in DOMAIN life \cup {k} |-> IF x \in DOMAIN life THEN life[x] ELSE EnvTtl]
        /\ IF ~accepted
           THEN /\ transfers' = T /\ total_buffered' = LiveBuffered
                /\ completed' = LiveCompleted /\ UNCHANGED messages
           ELSE IF stored[k].received_count = stored[k].meta.count
           THEN TryComplete(stored, buffered, k)
           ELSE /\ transfers' = stored /\ total_buffered' = buffered
                /\ completed' = LiveCompleted /\ UNCHANGED messages

\* Mutant: the maintenance tick sweeps only the tombstones.
EvictStaleCompleted ==
    /\ completed' = LiveCompleted
    /\ UNCHANGED <<transfers, total_buffered, life, messages>>

\* evict_stale, from the maintenance tick
EvictStale ==
    /\ transfers' = LiveTransfers /\ completed' = LiveCompleted
    /\ total_buffered' = LiveBuffered
    /\ UNCHANGED <<life, messages>>

Aged(f) == [k \in DOMAIN f |-> [f[k] EXCEPT !.left = IF @ = 0 THEN 0 ELSE @ - 1]]
Elapse ==
    /\ \/ \E k \in DOMAIN transfers : transfers[k].left > 0
       \/ \E k \in DOMAIN completed : completed[k].left > 0
       \/ \E k \in DOMAIN life : life[k] > 0
    /\ transfers' = Aged(transfers) /\ completed' = Aged(completed)
    /\ life' = [k \in DOMAIN life |-> IF life[k] = 0 THEN 0 ELSE life[k] - 1]
    /\ UNCHANGED <<total_buffered, messages>>

Next ==
    \/ \E ch \in Chunk, peer \in Peer : Add(ch, peer)
    \/ EvictStale
    \/ Elapse

\* Time passes and the maintenance tick runs.
Spec == Init /\ [][Next]_vars /\ WF_vars(Elapse) /\ WF_vars(EvictStale)

-----------------------------------------------------------------------------
(* Types of the two tables.                                                *)
TypeOK ==
    /\ DOMAIN transfers \subseteq Key /\ DOMAIN completed \subseteq Key
    /\ \A k \in DOMAIN transfers :
          /\ transfers[k].received \subseteq 0..(transfers[k].meta.count - 1)
          /\ transfers[k].received_count \in 1..transfers[k].meta.count
          /\ transfers[k].left \in 0..TransferTtl
    /\ total_buffered \in Nat

(* total_buffered is what the partial transfers hold, through completion,    *)
(* size mismatch, eviction and refusal: it gates every chunk, and a byte     *)
(* that is not given back is lost to all senders for ever.                 *)
BufferedExact == total_buffered = HeldBytes(transfers, DOMAIN transfers)

(* No sender and no previous hop ever holds more than its share, however its  *)
(* transfers grow after they are admitted and whoever relays the rest.     *)
QuotasHold ==
    /\ Cardinality(DOMAIN transfers) <= MaxTransfers
    /\ HeldBytes(transfers, DOMAIN transfers) <= MaxBytes
    /\ \A k \in DOMAIN transfers :
          /\ Cardinality(OfSender(transfers, transfers[k].meta.sender)) <= MaxPerSender
          /\ HeldBytes(transfers, OfSender(transfers, transfers[k].meta.sender))
                <= MaxBytesPerSender
          /\ Cardinality(OfPeer(transfers, transfers[k].peer)) <= MaxPerPeer
          /\ HeldBytes(transfers, OfPeer(transfers, transfers[k].peer)) <= MaxBytesPerPeer

(* A message handed on is whole: every index, the announced size (the code   *)
(* panics on a missing piece).  A partial transfer is never full.          *)
CompletesWhole ==
    /\ \A m \in messages : /\ m.received = 0..(m.meta.count - 1)
                           /\ m.received_bytes = m.meta.total
    /\ \A k \in DOMAIN transfers :
          transfers[k].received # 0..(transfers[k].meta.count - 1)

(* The tail of a retransmitted batch does not complete a transfer twice, or   *)
(* reopen it: the tombstone outlives the carriers ("suppress the tail of a    *)
(* whole-batch retransmit").  It holds while no more transfers than there    *)
(* are tombstones have completed.                                          *)
CompletesOnce ==
    Cardinality({m.key : m \in messages}) <= MaxCompleted =>
       /\ \A m \in messages : ~m.again
       /\ \A m \in messages : life[m.key] > 0 => m.key \notin DOMAIN transfers

(* No partial transfer stays: it completes or is evicted.                  *)
PartialsLeave == \A k \in Key : (k \in DOMAIN transfers) ~> (k \notin DOMAIN transfers)
=============================================================================
