# Veil: a TLA+ verification of the delivery core

Veil is an overlay network: nodes with sovereign identities keep encrypted
sessions with their peers, relay one another's envelopes, and carry application
messages either as datagrams over the delivery plane or as streams over
anonymous circuits. This directory holds TLA+ models of the parts of it that
decide whether a message arrives, arrives once, and is accounted for; the TLC
runs that check them on small instances; and TLAPS proofs for the parts whose
correctness should not rest on small instances.

`PROJECT.json` lists, for every definition, the source lines it models, and for
every property the run that checks it and a mutation of the model that breaks it.
Paths below are relative to `src/crates/`.

## 1. Inventory of the system

| Component | State it keeps | Operations | What makes it correct |
|---|---|---|---|
| **Pending-ACK tracker** (`veil-pending-ack`) | entry per unacknowledged message; running totals per recipient | register, register_batch, ack, tick, finish_retry_admission, update_next_hop | totals equal the entries; four limits never exceeded; bounded attempts |
| **ACK retry task** (`veil-node-runtime/.../service_tasks.rs`, `ack_chunk_retry.rs`) | answers of the last tick, futures retransmitting chunked messages, the ids they own | timer tick, retransmit, reroute, report failure, admit a chunk | a message ends exactly one way; one attempt at a time; everything ends |
| **Delivery plane** (`veil-dispatcher/delivery.rs`, `veil-ipc/handlers/send.rs`) | dedup windows, ACK replay cache, frames on sessions | send, relay, terminal delivery, DELIVERED | one delivery in a dedup window; an ACK means the message was opened; loops end; losses are recovered |
| **Expiry caches** (`veil-dispatcher/lib.rs`) | hash map + expiry heap | check_and_insert, insert, get, contains_live | map and heap agree; forgetting only after the window or at capacity |
| **Chunk reassembly** (`veil-dispatcher/envelope_chunks.rs`) | partial transfers, tombstones, byte total | add, add_direct_app, evict_stale | whole messages only, once; quotas hold while transfers grow; bytes are given back |
| **Onion stream** (`veil-onion-stream`) | send window, retransmission queue, SACK scoreboard, receive reassembly, timers | connect, accept, write, read, finish, on_cell, on_timeout, poll_transmit | the receiver reads a prefix of what was written; close completes; no zero-window deadlock |
| **Mailbox / outbox** (`veil-mailbox`, `veil-node-runtime/.../builtin/mailbox.rs`) | blobs per recipient, two age indexes, five byte totals, outbox leases | put, fetch, slice, ack, prune, open | totals and indexes exact; quotas hold; no blob leaves early; a reader drains its boxes |
| **Session layer** (`veil-session`) | handshake state, keys and epochs, priority queues, registry of senders, lanes | handshake, rekey, keepalive, handoff, enqueue | both ends agree on keys; no frame under a retired key; one session wins a double dial |
| **End-to-end ratchet** (`veil-ratchet`, `veil-e2e`, `veil-dispatcher/app.rs`) | per peer device: one or two roots with chains and skipped keys, unanswered prologue, failure count, times; own key ring | seal, open, forget, expire, export, import | no message opened twice; what is sealed can be opened, in any order within the bound; both ends recover from lost state |
| **DHT** (`veil-dht`) | k-buckets, value store with sequence numbers and quotas | store, find, republish, expire | a newer value never loses to an older one; bucket and quota bounds |
| **Routing** (`veil-routing`, `veil-dispatcher/routing.rs`) | route cache, probes, discovery requests | insert, age, probe, forward discovery | no route through oneself; requests end |
| **Anonymity circuits** (`veil-anonymity`, `veil-dispatcher/anonymity.rs`) | circuit table, registrations, rendezvous points | build, extend, register, relay cell, tear down | a cell leaves on its own circuit; entries are freed on every exit |
| **Self-update** (`veil-update`) | installed version record, staged files | check, fetch, verify, apply | never a downgrade; a crash leaves a runnable version |
| **Identity** (`veil-identity`) | documents, delegations, devices | publish, resolve, verify, pair | newer documents win; revoked devices stay out |
| **IPC and app registry** (`veil-ipc`, `veil-app`) | endpoints, streams and credits | bind, send, deliver, close | credits balance; closed endpoints get nothing |
| **Abuse control** (`veil-abuse`) | token buckets, violation scores, bans, replay windows | admit, record, ban, expire | honest peers are not starved; bans end |
| **Gateways** (`veil-gateway`) | leases | grant, renew, relay | no use of an expired lease |
| Transports, obfuscation, bootstrap, PEX, metrics, CLI, configuration, codecs, FFI, apps | | | I/O, formats and heuristics |

**How they interact.** An application sends over IPC. `handle_ipc_send` picks a
hop from the route cache, queues the frame on a session, and, if an ACK was asked
for, registers it with the tracker. Relays take the frame from a session thread
through `dispatch_delivery`, deduplicate it and queue it on the next session. The
recipient deduplicates by content id, decrypts, hands the payload to the
application and sends a DELIVERED, whose handler clears the tracker's entry. The
retry task shares the tracker, under one mutex, with IPC tasks and session threads.
Chunked messages are reassembled at the recipient before terminal delivery. The payload
of an envelope is sealed and opened by the ratchet, whose failures go back to the sender as
`AppSendUnopenable`. For a recipient that is offline, blobs are left at a mailbox relay and
drained later through anonymous replies of bounded size.

**What is hard.** State shared by threads under small critical sections (the
tracker); work that spans an await (chunk retries); retransmits that must pass the
dedup that stops loops; windows of different lengths that must nest (envelope TTL,
dedup window, tombstone, ACK timeout); counters kept by hand next to the tables they
summarise; registration after the send it tracks; a key agreement that runs unlocked between
two looks at the store; two devices that start a conversation at once; transactions with a
crash between them. `PROJECT.json` lists each hazard at
its line with the property that would catch it.

## 2. Modules

| Module | Models | Composes |
|---|---|---|
| `PendingAck` | the tracker, all operations, under any callers | |
| `AckRetry` | the retry task over the tracker, with sends, ACKs and time | `PendingAck` |
| `DeliveryStatus` | the DELIVERED handler at the granularity of the tracker's mutex | `PendingAck` |
| `ExpiryCache` | `ExpiryCache` and `ExpiryMap` | |
| `ForwardRelay` | origin, relays, recipient and a network that delays, reorders and loses | `PendingAck` |
| `ChunkReassembly` | the reassembler | |
| `OnionStream` | one direction of an established onion stream: both engines, the driver's queue, the carrier | `SeqArith`; refines `ByteStream` |
| `SeqArith` | wrapped sequence numbers and their order | |
| `ByteStream` | what a stream promises its applications | |
| `Mailbox` | the mailbox store: deposit in two classes, eviction, expiry, acknowledgement, crash and reopen | |
| `MailboxDrain` | the relay's request handlers, a device draining two boxes, a network that loses | `Mailbox` |
| `RatchetSession` | one end of a ratchet session as a value, and what a frame does to it | |
| `Conversation` | two devices' conversation: seal, open, key agreement, notices, restarts | `RatchetSession` |
| `PendingAckProofs`, `AckRetryProofs`, `ExpiryCacheProofs`, `ForwardRelayProofs`, `ChunkReassemblyProofs`, `MailboxDrainProofs`, `OnionStreamProofs`, `ConversationProofs` | theorems | the module they are about |
| `MC*` | instances for TLC | |

### PendingAck
`pending`, `per_peer`, `total_bytes`, `per_peer_bytes` are the fields of
`PendingAckTracker`; a missing key of the two maps is 0. Frames are abstracted to
their number and their bytes, which is what the limits and the retry slots tell
apart. Each method is one action, since each runs under the mutex. A tick visits the
entries in HashMap order, which decides who gets the last retry slots:
`Retransmits` is the set of all answers it may give. A deadline is a count-down of
clock units, so the state space is finite without a bound on time. Sums are written
as cardinalities of sets of bytes, which needs no recursion and so can be proved about.

### AckRetry
The task is one loop over a `select!`. Between two selects it handles the answers of
the last tick one by one (`outcomes`), while session and IPC threads go on; the
futures of `admit_chunk_retry` are polled only at the select (`AtSelect`). A future
checks `retry_is_current` before every frame, waits for capacity, moves to an
alternative hop when its hop is closed, and gives up at its deadline. History
variables (`acked`, `failed`, `untracked`) record what the application learns.

### DeliveryStatus
`handle_delivery_status` takes the tracker's lock in the condition of an `if let`.
In Rust such a guard is a temporary that lives until the end of the body when the
pattern matches. The module splits the handler at its lock operations and lets
several threads, the sender and the timer compete for the mutex. The other modules
treat an accepted DELIVERED as the single tracker step it is meant to be.

### ExpiryCache
`entries` and `heap` are the two structures; `recorded` is a history of insertions.
The heap orders by expiry only, so among equals any may be popped first.

### ForwardRelay
Envelopes over a graph of `Link`s. Routes are not modelled: a relay may
forward to the recipient, or to any linked peers but the one it got the frame from, or
nowhere if there is none, which covers whatever the route cache answers; that every send
fails is a loss; the retry task may also
reregister any linked hop. A frame carries its hop count and its attempt number (0:
none). `seen[n]` merges the two dedup caches of a node: the key `<<c, 0>>` is the
content id, `<<c, a>>` the hash of id and attempt. The terminal handler is split at
the decryption, between the replay guard and the ACK replay; after it the application
registry takes the message or drops it (`delivered`), and the answer is sent either way.
`age` counts the instants since the envelope was created, up to `MaxAge`, where every node
takes it for expired. A node's clock is `Behind` the origin's by a constant of its own, any
integer: it expires the envelope at the age `EnvTtl + Behind[n]`, and a relay refuses it before
the age `Behind[n] - MaxFuture`; the recipient has no such check. No relation between the
times is assumed: with 31 s, 300 s of tolerated skew and a window of 60 s in the code, an
envelope can outlive the window, and what holds is stated per window. Caches are assumed below capacity; `ExpiryCache` says exactly what that
buys.

### ChunkReassembly
A chunk's key is its transfer id with its scope. `meta` stands for all the framing
and addressing fields that each chunk repeats and that are compared. The piece
buffers are abstracted to the set of indices and the byte count. `life` is the TTL of
the carrier envelopes, which the dispatcher checks before it calls `add`; it bounds
how late a chunk may come. `EnvTtl <= TransferTtl` says that a carrier expires before the tombstone of
its transfer: 31 s against 301 s in the code, so it holds while clocks differ by at most 270 s, which is
less than the 300 s the dispatcher tolerates. Chunks of the direct-application path have no such check
but are not retransmitted that late.

### OnionStream
`tx` and `rx` are the `TxState` of one `StreamEngine` and the `RxState` of the other;
their fields keep their names. A byte is its position in what was written, so that a byte
lost, doubled or moved shows. `oo` maps sequence numbers to bytes, which is what the
BTreeMap of non-overlapping pieces amounts to, and a SACK is the set of its keys; the
D-SACK block that precedes the others only feeds timing. `outbound` holds the cells the
driver polled and the carrier has not accepted: until then a segment is `local_pending`
and cannot be lost. Each poll and each send comes after the driver's `retain`
(`PollReady`). The driver takes fresh data only when the queue is empty; the model lets it
come at any time, which allows more.

Time, pacing, the congestion window and RACK decide when a segment is sent, how long it
is and when it is taken for lost. All that is left open: a segment has any length the
receiver's window permits, and any segment on the network may be taken for lost, on an ACK
(`ReceiveAck`) or by a timer (`RackTimer`, `Rto`). A suspicion while an answer may still be
on its way is an alarm and counts against `MaxAlarms`; one after everything has come to
rest is free. The stream starts established. The window a data cell of the other direction
carries grants nothing, but may ask for one probe (`HintProbe`). What `MAX_REORDERED_SEGMENTS`
and `MAX_SACKS` cut off is left open: a segment out of order for which slots may run out is kept
in any part (`Kept`), an ACK with more blocks than it has room for reports any of them
(`Reported`).

`rx.phase` also stands for the reading driver. `Read` is its move of bytes into the
application's channel, which has room or not; `got` is what was moved. `Retire` is the end of its
loop: after a reset (`closed`) the engine is dropped with what is still in `read_buf`, and after
both halves are done only an ACK is kept, which answers repeats (`lingering`) until `LingerOver`.
What the handle then reports is `rx.end`, where the first verdict stands. When the receiver's own
sending half is done is left open.

### Mailbox and MailboxDrain
The tables of the database are the variables `blobs`, `receiver_bytes`, `sender_bytes`,
`anon_receiver_bytes`, `global_bytes`, `eviction_index` and `eviction_index_anon`. A put
reads the clock before it waits for its write transaction, so it is `BeginPut` and
`FinishPut`; every other operation is one transaction and one action. The TTL sweep also
reads the clock first, and nothing else: its cutoff is of now or of any earlier instant. The eviction loop pops
heads of the anonymous pool, then of the identified one, until the deposit fits; if it never
fits, the transaction is dropped: `Victims` is the set the loop ends with, or nothing. A
crash forgets the puts under way and keeps what was committed. `Legacy` is the database of the build just before the anonymous totals, of one shape: each row
in the index of its class and billed with its overhead to the sender its record names, so that the
anonymous ones share the total of no sender; `Open` rebuilds the one and drops the other. Still older
shapes are not covered, and `Open` does not put their totals right: identified rows of no sender
(`lib.rs:876-884`), tokenless rows charged to a named sender, and rows billed by payload alone
(`lib.rs:103-109`). On those the totals are wrong for as long as the rows live, by at most their weight. Capability tokens are
valid, absent or refused; the rate limiter may refuse any put, which is a put that does not
begin.

`MailboxDrain` adds the handlers of `builtin/mailbox.rs`: a fetch serves the identity's box
and the device's, skips the ids the reader names, cuts the reply at the reply budget and
announces an oversized blob without its bytes, which the reader then takes in slices; an
acknowledgement is two transactions, one for each box, with room for a crash between them.
The reader keeps what it cannot use in its skip list and repeats requests whose reply was lost.

### RatchetSession and Conversation
Keys are abstracted to who can derive them: a sending chain is named by the frame that first
used it and records the chain it answers, and a frame of a new chain opens only at the end
whose sending chain it answers. The first chain of a root is a hash chain, of which at most
`MaxSkip` keys are banked at once and `MaxSkipTotal` held; every later one is a tree, because
every message of this build says that its sender can open one. The first frame of a new chain
ends the one before it: if that is the hash chain and too much of it is missing, the frame
does not open (`TooManySkipped`), which the properties name `GapTooWide`.

An entry of the store is a sequence of one root or two (`crossed_receive`). Each root has its
session and the fields of `Entry`; a prologue is known by its root, so two flags say
whether the pending and the accepted one are kept. `Seal` is `seal_inner` with a valid
certificate at hand. `Open` is `open_inner` up to the key agreement, which runs with the store
unlocked: the thread waits in `agreeing`, and `Land` is the rest, with the certificate
that was known when it began and the entry that is there now. `Reply` is the rate-limited
`AppSendUnopenable`, `HandleUnopenable` its handler; `Evict` covers both the expiry and
the quota, which take only entries nobody vouched for; `Restart` applies what
`Entry::encode` leaves out and forgets the certificates, a cache in memory
(`veil-node-runtime/src/runtime/start.rs:579`); `Reset` is a device that lost all it held. Times
are seconds and advance with the messages sealed. A store too full for a new conversation
(`make_room`) is not modelled.

`OpenedOnce` is about the entry a device holds: who gives a conversation up also forgets
what it opened, so the properties on single messages speak of the time before anybody
gives up (`whole`), and `Recovers` of the time after. A prologue that opened in its agreement and
is then not admitted is handed up without being remembered (`DeliverLoose`, `loose`); a repeat of
it may be handed up again, and nothing else may. `OnlyOvertakenRefused` names what may be
refused without having been opened: among it the peer's first prologue at a device that has an
unanswered root of its own and no certificate, as after a restart (`Unvouched`).

## 3. Runs

| Run | Instance | Result |
|---|---|---|
| `ack_retry` | 3 ids in batches of one or two frames and up to 3 bytes, 2 hops and a peer that is none, one retry slot, 2 attempts | one ending; a future owns its attempt; every message ends; the tracker's totals and limits |
| `delivery_status` | 2 threads, 2 ids, one of them encrypted | **violation**: the handler locks itself out |
| `expiry_cache` | 4 keys for 2 places, 6 instants, window of 2 | map and heap agree; window remembered |
| `forward_relay` | a path of two relays and a ring at its start; an acknowledged message, an unopenable or an unnumbered one in copies; 2 attempts, 1 loss | delivered once and one pass per attempt in each dedup window; an ACK means opened |
| `forward_relay_live` | chain of two relays, 2 messages, one unopenable, 3 attempts, 1 loss | losses are recovered |
| `chunk_reassembly` | 3 transfers of 2 senders over 2 hops, wrong sizes and foreign framing | quotas, exact total, whole and once, nothing stays |
| `mailbox` | two legacy blobs, deposits of both classes for a nearly full store, 2 boxes, replies of one blob, one crash or loss | indexes and totals exact, quotas hold, nothing leaves early, all usable mail is drained |
| `conversation` | 2 devices with 2 threads, 3 payloads and 3 to recover, `MaxSkip` 1, any 2 faults of loss, repeat, restart and reset | opened once; only what is overtaken, unvouched or too far is refused; the next message opens; live roots stay; recovery |
| `conversation_crossed` | the same without faults | **violation**: a first message is refused |
| `stream` | 2 bytes and a FIN, window 2, 1 loss, 1 alarm, 1 reset, no slot for reordered bytes guaranteed, rewind on | sender's ledger, SACKs, probes and completion are right; refines `ByteStream` |
| `stream_live` | 3 bytes, window 2, 1 loss, 1 repeat, 3 retries, rewind on | all bytes and the end arrive; all are read, but for finding 2 |
| `stream_late_fin` | 1 byte, 1 lost ACK, rewind on | **violation**: a second FIN |

**Why the bounds are enough.** In `ack_retry` each of the tracker's four limits, and in
`mailbox` each of the four quotas, refuses an offer that the three others admit. In
`chunk_reassembly` the number of partial transfers and the bytes of a sender and of a hop bind; the
transfers of a sender and of a hop and the bytes in all never refuse there and are covered by the proof
alone, as are the data probes of `stream`, whose window takes all its bytes. In the runs with clocks each window can
end before, at and after the others that matter: an ACK wait ends inside the envelope's
life, the envelope's life ends with the dedup window. The ring of `forward_relay` is a
cycle that a frame can close with hops to spare, while a frame that went round once reaches
the last relay at the hop limit; the retransmit arrives while the first attempt is still
circling. Messages of different ids meet only in the tracker, so one message of each kind,
one at a time (`MaxSends = 1`), loses nothing the tracker runs do not cover. Two attempts and one loss are the smallest case in which a
retransmit is needed; the liveness run adds the attempt that a DELIVERED overtaking
`register` costs. The mailbox instance has room for all but one blob, so a deposit
evicts, is refused, or fits after an acknowledgement; the head of a box
is unusable or too large for a reply. Mail is drained past unusable heads as long as the ids set
aside fit one skip list (`MAX_FETCH_SKIP`): the instance has one such id and a list of one. In `conversation` both devices can start, each can
answer, and a third payload follows the answer, with two seconds that may differ or not:
enough for a crossed start, a prologue overtaken by its successor, an agreement begun before
and ended after any other step, and two failures in a row (`WedgedAfter = 2`). Two faults, of
one kind or of two, make a repeat after a restart, two restarts in a row and two losses happen; the last
exceeds `MaxSkip`, past which the code promises nothing: `TooFar` takes that case out of
`NextOpens` and `Recovers`. A gap that a frame must
close takes more messages than the instance has; that `GapTooWide` is the only other excuse
is shown by the proofs, which have no bound.
Symmetry is used only for interchangeable ids, keys and peers, and only
in runs without temporal properties. Deadlock checking is off but in the
stream runs, where `finish` may always be called again: all of these systems may come to
rest once the finite supply of messages is used up. The stream runs use sequence numbers
modulo 16 that start two below the wrap, so every flight of two bytes crosses it. A window of
two bytes lets a flight hold two segments, one of them out of order, and be recut as one by a
rewind; the FIN, and in `stream_live` the third byte, meet a closed window. One alarm and one loss give the
longest story the sender's ledger has to survive: a rewind, an ACK of the old flight that
splits the recut segment, and a second rewind. `stream` has `MaxReordered = 0` and `MaxSacks = 1`, so
that any part of what is out of order may go unkept and unreported; `stream_live` has room for
both bytes of its window. There `AllBytesArrive` asks for all bytes to be read unless the sender
stands with the second FIN of finding 2, whose RST ends the reading driver.

**Fairness.** Weak fairness only. The timer of the retry task fires and its answers
are handled (tokio interval, loop body without failure exits). An admission ends
(`admit_chunk_retry` is wrapped in a timeout of at most 30 s): weak fairness of `GiveUp`,
never of a successful admission. A session thread keeps running its handler.
Time passes. In `ForwardRelay` frames that are not lost arrive; for the liveness runs
`Prompt` makes them arrive before the next instant, because a message whose every copy is
late may rightly fail. Nothing in the delivery modules assumes that a
DELIVERED is ever sent or an application ever reads. In `OnionStream` the drivers loop, the
carrier accepts and delivers what it does not lose, timers fire, and the reader reads;
`MaxAlarms = 0` says that timers outlast a round trip, because premature ones may use up the
retries, and `MaxLosses < MaxRetransmits` leaves one retry for a probe that was refused. In `MailboxDrain` the relay
serves requests and the device keeps asking; after a crash the relay is started again. In
`Conversation` payloads and notices that are not lost arrive, threads finish their
agreement, certificates are resolved (`warm_ratchet_sender`), and a device that is not
understood writes again after the interval (`Repair`): the code sends nothing by itself, so
recovery is a promise to users who go on writing. `EveryMessageEnds` is about finitely many messages: with an endless supply of
chunked ones the HashMap order of the tick could pass one over for ever.

## 4. Proofs

`PendingAckProofs` proves, for all sets of ids, peers and batches and all limits,

- `TrackerTypes`: `TrackerSpec => []TrackerTypeOK`,
- `TrackerCountersExact`: `TrackerSpec => []CountersExact`,
- `TrackerCapsHold`: `TrackerSpec => []CapsHold`.

The assumptions are `BatchAssumption` (a batch has at least one frame) and
`LimitAssumption` (limits are naturals, attempts and timeout positive).
The inductive invariant `TrackerInv` joins types, exact totals, the limits
and the finiteness of the table and of the set of bytes it retains. The limits alone are
not inductive: admission tests the totals, so it protects the limits only as long as the
totals are exact; the totals are exact only because no saturating subtraction saturates,
which needs every entry to be counted in its own recipient's total. `RetainedSplit` and
`RetainedOne` say how the bytes of a table split; `WithoutExact` is the bookkeeping of a
replacement; `ReleaseKeepsInv` covers ACKs and failing ticks, `RelabelKeepsInv` the steps
that touch neither bytes nor recipients, `RegisterKeepsInv` registration.

`ExpiryCacheProofs` proves, for every set of keys, capacity, window and clock bound,

- `CacheTypes`: `CacheSpec => []CacheTypeOK`,
- `CacheHeapMatches`: `CacheSpec => []HeapMatchesEntries`,
- `CacheRemembersWindow`: `CacheSpec => []RemembersWindow`,

from `CacheAssumption` (positive window and capacity). The invariant `CacheInv` adds to
the two properties what ties the entries to the history: a known key expires one window
after it was last recorded, every known key was recorded, and none in the future. The step
that matters is an insertion at capacity: every entry left behind was recorded no earlier
than the one evicted, so together with the new key more than `MaxSize` keys were, and the
evicted key has lost its claim.

`MailboxDrainProofs` begins with the store, `Mailbox`, and proves, for all sets of ids and deposits, all quotas, any number of
concurrent puts, any crashes and every database of the shape `MailboxInit` describes (the build just
before the anonymous totals),

- `MailboxTypes`: `MailboxSpec => []MailboxTypeOK`,
- `MailboxIndexes`: `MailboxSpec => []IndexesExact`,
- `MailboxLedger`: `MailboxSpec => []LedgerExact`,
- `MailboxQuotas`: `MailboxSpec => []QuotasHold`.

The assumptions are `IdAssumption`, `DepositAssumption`, `MailboxLimitAssumption` (what the
parameters are, the share divisor positive) and `LegacyAssumption` (the earlier build's
database is finite, has one row for each id and is within the total, receiver and sender quotas).
`MailboxInv` cannot be just the properties: `LedgerExact` speaks of a running relay only, and
a crash may come at any point, so the totals are split into those no restart rebuilds, exact
always (`LastingExact`), and those `Mailbox::open` rebuilds (`RebuiltExact`); and the total of
no sender stays 0 only because nothing without a sender is ever in the identified index
(`IdentifiedNamed`). `Classes` derives from exact indexes that the rows of any entries split
into the two classes; `WithoutExact` that every refund is exact; `RemoveKeepsInv` covers
acknowledgements and sweeps, `StoreKeepsInv` a deposit with its evictions, `InitInv` the
earlier build's database.

Of the relay with its endpoints and a draining device it proves

- `DrainImplementsMailbox`: `Spec => MailboxSpec`, so the theorems above hold of it (`DrainLedger`),
- `DrainTypes`: `Spec => []TypeOK`,
- `DrainLosesNothingEarly`: `Spec => NoEarlyLoss`.

The last needs, besides `MailboxInv`, that no put or blob is stamped later than the clock
(a put keeps a time read before its transaction) and that the device asks to remove only
what it has.

`AckRetryProofs` proves of the retry task with its senders, sessions and futures, for all
ids, hops, batches and limits,

- `RetryImplementsTracker`: `Spec => TrackerSpec`, so the tracker's theorems hold under it,
- `RetryTypes`: `Spec => []TypeOK`,
- `MessagesEndOnce`: `Spec => []OneEnding`,
- `RetriesOwnAttempts`: `Spec => []RetryOwnsAttempt`,

from the tracker's assumptions and `RetryAssumption` (at least one retry slot). `RetryInv` is
`TrackerInv` with `Endings`, where a message is; `Ownership`, that there is one answer or one
future per message, on the attempt the tracker counts; and `Slots`, that futures and the batch
answers of the last tick together fit the retry slots. `Ownership` needs `Endings` (an answer
of a message that was acknowledged meanwhile is stale, not wrong) and `Slots` needs
`Ownership`: a tick hands out slots by looking at the ids in flight, not at the futures.

`ForwardRelayProofs` proves for every graph of links, hop limit, number of attempts, time
limits and clock skews and any loss, delay and repetition

- `RelayImplementsTracker`: `Spec => TrackerSpec` of the origin,
- `RelayTypes`: `Spec => []TypeOK`,
- `DeliversOncePerWindow`: `Spec => []AtMostOncePerWindow`,
- `AckMeansOpened`: `Spec => []AckedMeansOpened`,
- `RelaysPassOncePerWindow`: `Spec => []OnePassPerWindow`.

Each acceptance of an envelope, by the recipient's replay guard or by a relay for one attempt,
opens a dedup window that the next has to wait for. `Fits` puts this as an invariant: `k`
acceptances took `k` windows less what is left of the last one, counted from the age at which
the node first accepts the envelope, unless it has expired there. So `k - 1` windows fit the
time the node accepts it: with the code's numbers a relay passes an attempt at most six times
(331 s), and once if its clock is not more than 29 s behind; the recipient, which does not
refuse a `created_at` ahead of its clock, as often as windows of 60 s fit into 31 s and its
delay. `Guarded` and `Suppressed` say `Fits` of the recipient and of the relays, `Lifecycle`
that an unsent message was accepted nowhere, so that age and windows run together.
`AnswersTrue` is that a DELIVERED on its way, and one the replay cache may repeat, is about a
message that was opened.

`ChunkReassemblyProofs` proves for any set of chunks, well framed or not, all previous hops
and all six limits

- `ChunkTypes`: `Spec => []TypeOK`,
- `BufferedIsExact`: `Spec => []BufferedExact`,
- `QuotasAreHeld`: `Spec => []QuotasHold`,
- `HandsOnWhole`: `Spec => []CompletesWhole`,
- `HandsOnOnce`: `Spec => []CompletesOnce`.

`ChunkAssumption` says what the decoder has checked of a chunk (its index is below its
count) and that the carrier's TTL is not longer than a transfer's. `ChunkInv` joins `Buffer`
(types, the exact total, the quotas over the table, and no partial transfer that is full),
`Lifetimes` (a transfer, and so the tombstone it leaves, outlives the carriers of its key),
`Buried` (while tombstones suffice, every completed key has one for as long as its carriers
live) and `Whole`. The quotas are tested against running counts when a chunk is taken, so they
need `Buffer`'s exactness; the stale transfers a call evicts first are covered by
`RestrictTable`, which says that a part of a table within its quotas is within them.

`OnionStreamProofs` proves of one direction of a stream, for every even modulus, first
sequence number, segment size, window, retry limit and number of faults,

- `StreamTypes`: `Spec => []TypeOK`,
- `LedgerIsExact`: `Spec => []SenderLedger`,
- `SacksAreTrue`: `Spec => []SackedIsHeld`,
- `ProbesFromIdle`: `Spec => []ProbeOnlyFromIdle`,
- `CompleteIsTrue`: `Spec => []CompleteMeansReceived`,
- `StreamImplementsByteStream`: `Spec => ByteStreamSpec`.

`StreamAssumption` has one condition with content: `MaxBytes + 2` is below half of the
modulus. The code compares sequence numbers by their signed difference, and without a
timestamp on cells an arbitrarily late one would be taken for a new one after a wrap; within
half of the space `Order` shows that the comparison is that of byte counts (`Offset`), wherever the
first number lies and although the numbers themselves wrap. The bound is on the whole stream,
because nothing in the model limits a cell's age; a carrier that does would allow longer
streams, which is not proved.

`StreamInv` has four parts. `SenderOK`: the flight is a chain of segments, each a run of
written bytes under its own number or the FIN, from `snd_una` to `snd_nxt`; `pending` is the
run from `snd_nxt` to what was written; `Finishing` and `Rewound` place the FIN, also the second
one of finding 2, and say how far a rewound flight reached; `Timers` bounds probes and retries.
`RxOK`: what was read and what waits to be read are together the run of all bytes in order, 
what is stored out of order are written bytes beyond it, and a clean verdict has seen the
FIN. `Agreement`: the receiver holds what
the sender counts as received. `Sound`: every cell, queued or on the way, says what is true.
The last is inductive because nothing a cell says is ever taken back: the receiver only grows
(`Grows`), so an old ACK or SACK stays true of it, and written bytes keep their numbers. The
hard steps are `AckAdvancesKeeps` (a cumulative ACK, also one that splits a segment or runs
ahead of a rewound `snd_nxt`), `RequeuedKeeps` (the data of a flight whose head is partly
acknowledged is the run from `snd_una`) and `AcceptKeeps` (the run drained from what was stored).
The refinement maps each step to a write, a close, a read, an end, a death, a break or a stutter
(`StepIsStreamStep`): the application is told of the end when the driver retires with the verdict
`eof`, and of a reset engine `ByteStream` promises only that the writer had closed its half.

`ConversationProofs` proves of two devices, for all values of `MaxSkip`, `MaxSkipTotal` and the
intervals, any threads and any number of messages, losses, repeats, restarts and resets,

- `ConversationTypes`: `Spec => []TypeOK`,
- `AnsweredRootsStay`: `Spec => RootsStay`,
- `PayloadsOpenedOnce`: `Spec => []OpenedOnce`,
- `RefusalsExcused`: `Spec => []OnlyOvertakenRefused`,
- `NextPayloadOpens`: `Spec => []NextOpens`.

The assumptions are `DeviceAssumption` (two devices, numbered), `SkipAssumption` (the bounds are
naturals, `MAX_SKIP` not above `MAX_SKIP_TOTAL`) and `ConversationAssumption` (the interval and the
failure limit are positive). The first two theorems need no more than the types of the entries.

The other three share the invariant `ConvInv`: while nobody has given the conversation up there
are two functions, `own`, the root each device has begun, and `of`, the root each chain belongs to,
for which the state is `Sound`. They are quantified, not history variables, because the code
keeps neither; a seal is the only step that changes them. `Sound` says of each session alone that
its chains follow one another and its banked keys lie behind it (`Sane`); of the two ends of a
root both devices hold, that one of them has the last word and the other the next (`Linked`), that
every payload under way is of the sender's present chain or of one its receiver has met (`Flows`),
and that it was opened exactly if its key is spent (`Arrives`); of a root only its beginner holds,
that nothing but unopened prologues was sent on it (`Unheard`). The case that costs most is a crossed
start of which one device knows both roots and the other one (`OneSided`): either the first still
writes on its own root and nothing has answered the second's, or it has changed over, and then all
its prologues are older than its answers and too late once an answer has opened (`Overtaken`),
which is exactly the excuse that `OnlyOvertakenRefused` grants. `AgreementSane` ties a thread in
its key agreement to the entry it will find: if its root has come to be held meanwhile, the
prologue is known again, or too far, or it is spent and the thread only asks to be fresher, so
that it is refused, not handed up. Certificates are no part of the invariant, because a restart
takes them away.

`LinkReceived` and `LinkSent` say what a frame does to two linked sessions, `FrameOutcome` and
`PrologueOutcome` why one that does not open was spent or past a bound. `CoreBegun`, `CoreSealed`,
`CoreOpened`, `CoreAccepted`, `CoreEvicted` and `CoreKept` carry the invariant through the ways an
entry changes; `HeldNotOpened` and `UnheldNotOpened` are the two reasons for a refusal;
`OpenSound`, `LandSound` and `SealSound` put them together for the actions. `NextUnderstood` needs
no step: in a `Sound` state the next frame of a root both hold flows to the other end unspent, and
a root the peer does not hold is met by an entry that is empty or still unanswered.

The proofs corrected the model: a first version of `NextOpens` and `OnlyOvertakenRefused`, true of
the instance TLC explores, could not be proved, since it granted no excuse to a frame that ends
the first chain from beyond `MAX_SKIP`.

**Only model-checked.** Liveness under fairness, which the proof system does not reach:
`EveryMessageEnds`, `LossRecovered`, `PartialsLeave`, `EveryBlobDrains`, `AllBytesArrive` and
`Recovers`; and the three properties that fail. Every other property of a run is a theorem. The
tracker under arbitrary callers has no run of its own: the theorems cover it, and `ack_retry`
checks the same invariants under its real caller.

## 5. Disagreements found

1. *Code.* `handle_delivery_status` (`veil-dispatcher/src/delivery.rs:2141`) holds the
   tracker's mutex through the body of its `if let` and locks it again at line 2163: the
   first DELIVERED that matches an entry blocks its thread, and after it everyone who
   needs the tracker. Binding the looked-up value in a `let` before the `if let` releases the guard.
2. *Code.* A timeout that rewinds a flight with its FIN clears `fin_sent`
   (`veil-onion-stream/src/engine.rs:2306`). When an ACK covers that FIN before it is created
   again, `trim_rewound_pending_after_ack` sets `fin_acked` (2540) but not `fin_sent`; the next
   poll creates a second FIN past the end of the stream (1682). The receiver never acknowledges
   it, so the stream ends in a reset by timeout. It takes one lost ACK and a replay that pacing
   or the window spreads over more than one burst. Setting `fin_sent` with `fin_acked` cures it.

3. *Comment and code.* When both devices start a conversation, the comment at
   `veil-e2e/src/ratchet.rs:2010` says that a second receive root is kept "rather than dropping
   already sealed messages". It is kept only if the peer's prologue arrives while the own one
   is unanswered. If the peer's answer on the own root overtakes the peer's first prologue, the
   entry is proven and answered when that prologue comes; the prologue was sealed before the
   answer, so `fresher` says no (2239), and the message in it is refused for good. No reply asks
   for it again. Everything later opens (`NextOpens`).

Observations that no run is kept for:

- `docs/en/protocol-spec.md:621` says that DELIVERED means "final recipient delivered the
  payload to its app layer". `terminal_deliver` ignores what `route_ipc_deliver_with_reply`
  returns (`veil-dispatcher/src/delivery.rs:1796`): a message that the registry dropped for an
  absent endpoint or a full queue (`veil-app/src/registry.rs:529-566`) is acknowledged, and its
  retransmits are duplicates. `AckedMeansOpened` is what remains.
- The window of 60 s is shorter than an envelope's life at a node whose clock is more than 29 s
  behind, and `docs/en/CONTRACTS.md` ("`created_at` may not be more than 5 minutes in the
  future") is checked by relays (`veil-dispatcher/src/delivery.rs:608`) but not at the
  recipient: a copy that arrives after the window is delivered again. "Applications that bypass
  the mailbox layer may still see duplicates" covers it.

- `docs/en/CONTRACTS.md:18` promises that a send with `IPC_SEND_FLAG_REQUIRE_ACK` is
  acknowledged or reported failed; the send path ignores the refusal of a full tracker
  (`veil-ipc/src/handlers/send.rs:2762` and `2564`), and such a send ends neither way.
- The same document says the recipient answers with a DELIVERED; `send_delivery_ack`
  (`veil-dispatcher/src/delivery.rs:1523`) answers only over a direct session with the sender.
  `ForwardRelay` takes this as a constant, `Answers`; with it false, a message that is delivered
  over relays is retransmitted and reported failed.
- `veil-onion-stream/src/lib.rs:48` says that a clean end is reported by
  `Event::PeerFinished`; a FIN that overtakes the data is consumed in `accept` (2965) without it
  (in the model: `rx.eof` with `rx.end` still `"open"`). Until the stream retires, a reset is
  then what the application is told.
- The reverse also happens: after a FIN an RST makes the driver leave its loop
  (`veil-onion-stream/src/driver.rs:794`) and drop the engine with the bytes a slow reader's
  channel had no room for (875-908). The verdict is already `End::Eof`, so `pull` (460-464) ends the
  truncated stream with `Ok(0)`, although `driver.rs:158` calls that "transfer complete" and
  `lib.rs:51` has the application tell done from interrupted by it. Finding 2 ends in such an RST.
- `veil-mailbox/src/lib.rs:346-372` reads as if identified mail were only evicted once no
  anonymous mail is left; anonymous blobs younger than the minimum age stay, and older
  identified ones go before them.
- A repeated frame of a chain that is over and has no gaps fails as `AuthFailed`, not as
  `MessageKeyUnavailable`. It counts towards the wedge and earns an `AppSendUnopenable`, which
  makes the peer drop a healthy conversation, although `veil-dispatcher/src/app.rs:35` says that
  "Ordinary retransmission is not evidence of lost state".
- A prologue that opened in the unlocked agreement and is then not admitted, because the
  entry was answered meanwhile, is handed up without being remembered
  (`veil-e2e/src/ratchet.rs:2239-2262`, 2316), so a repeat of it is delivered again. The comment at 2218
  ("never hand up the independently opened plaintext twice") holds in the branch it stands in
  only. `OpenedOnce` excuses exactly this; without the excuse TLC finds it in seven states.
- The cache of certificates is empty after a start (`veil-node-runtime/src/runtime/start.rs:579`,
  `veil-e2e/src/ratchet.rs:2062`). A device that restarts with an unanswered root of its own refuses
  the peer's first prologue without a reply (2124-2146) until the certificate is resolved; the
  payload opens only if it comes again after that. `OnlyOvertakenRefused` excuses exactly this;
  without the excuse TLC finds it in five states.
- An unanswered prologue can be repeated in place of the lost first one only within `MAX_SKIP`:
  after more than that, a responder that lost or evicted the entry refuses it. One that still
  holds the entry, with a longer gap, refuses silently until it writes itself.
- A device that wrote more than `MAX_SKIP` messages of its first chain after the last that
  arrived, and then hears an answer, is not understood: its next frame ends that chain and is
  refused for the gap (`veil-ratchet/src/ratchet.rs:422`), although the frame's own chain is a
  tree with no such bound. It takes the wedge and a new start to get out.

## 6. Not modelled

Of the modelled parts: relay scoring (loss tracker, reputation), congestion shedding
other than as a loss, recursive relaying over gateways and the DHT, the large-transfer
path, the handshake and mux of the onion stream and its two directions together, the outbox, the reassembly of large deposits and push wake-ups of the mailbox,
the host's reservation of send positions for the ratchet (and so a crash with an older
persisted state), certificate expiry and key rotation, the budgets of skipped keys and tree
nodes and the quotas of its store, the payload formats, and cryptography (a payload can be opened or it cannot, a MAC
is the recipient's or it is not). Components without a module are listed with the reason
in `PROJECT.json`.

## 7. Plan

In order of how much of the system's correctness rests on each:

1. `StreamSetup`: the onion stream's handshake and mux, and two `OnionStream` directions
   sharing an engine.
2. `Outbox` and the host's publication of ratchet state: retries and leases, and send
   positions that survive a crash.
3. `SessionRekey`, `SessionQueues` and `Handoff`: agreement on epochs, priority queue
   bounds, double dials.
4. `UpdateApply`: apply and rollback with a crash between any two file operations.
5. `DhtStore`, `RouteCache`, `CircuitTable`, then `AbuseLimits` and `GatewayLease`.

What the proofs leave open: the liveness properties; streams longer than half of the sequence
space, for which the model would have to limit the age of a cell; and the conversation after
somebody has given it up, where only `RootsStay` and `TypeOK` are proved and `Recovers` is checked.
