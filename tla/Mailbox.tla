------------------------------- MODULE Mailbox -------------------------------
(***************************************************************************)
(* The relay's store of mail for receivers that are offline                *)
(* (crates/veil-mailbox/src/lib.rs).  Next to the blobs it keeps four       *)
(* running byte totals and two eviction indexes, one for each trust class;  *)
(* the index a blob is in is the only durable record of its class.          *)
(*                                                                         *)
(* Every operation that writes is one serialisable transaction of the       *)
(* database, so one action, and a crash loses nothing of it.  A put reads   *)
(* the clock before its transaction begins, and other tasks may write in    *)
(* between: it is two actions.  So does the TTL sweep, but that time is all *)
(* it carries over: one action, whose cutoff is of now or of any earlier     *)
(* instant.  Ids are numbers, as the database orders them; the receiver      *)
(* rate limiter may refuse any put.                                         *)
(***************************************************************************)
EXTENDS Integers, FiniteSets

CONSTANTS
    Receiver, ContentId, Sender,  \* ids ([u8; 32], in the order of their bytes)
    NoSender,         \* the all-zero sender id of an anonymous deposit
    Deposit,          \* deposits offered: [receiver, content_id, sender, token, len]
    Legacy,           \* deposits held since before the anonymous totals
    MaxTasks,         \* threads that may run a put at the same time
    RequireToken,     \* config.require_capability_token
    RecordOverhead,   \* RECORD_OVERHEAD_BYTES
    QuotaReceiver, QuotaSender, QuotaGlobal,  \* config.quota_*_bytes
    AnonDivisor,      \* ANON_RECEIVER_SHARE_DIVISOR
    MinEvictionAge,   \* MIN_EVICTION_AGE_SECS
    Ttl,              \* config.ttl_secs
    MaxClock          \* bound on the clock

Offer == [receiver : Receiver, content_id : ContentId, sender : Sender,
          token : {"valid", "none", "invalid"}, len : Nat \ {0}]

ASSUME IdAssumption ==
    Receiver \subseteq Int /\ ContentId \subseteq Int /\ NoSender \in Sender
ASSUME DepositAssumption == Deposit \subseteq Offer /\ Legacy \subseteq Offer
ASSUME MailboxLimitAssumption ==
    /\ RequireToken \in BOOLEAN /\ RecordOverhead \in Nat
    /\ QuotaReceiver \in Nat /\ QuotaSender \in Nat /\ QuotaGlobal \in Nat
    /\ AnonDivisor \in Nat \ {0} /\ MinEvictionAge \in Nat /\ Ttl \in Nat
    /\ MaxClock \in Nat /\ MaxTasks \in Nat

VARIABLES
    blobs,                \* <<receiver, content id>> -> stored record
    receiver_bytes,       \* receiver_bytes_v1; absent key = 0
    sender_bytes,         \* sender_bytes_v1: identified deposits, by sender
    anon_receiver_bytes,  \* anon_receiver_bytes_v1: anonymous ones, by receiver
    global_bytes,         \* global_bytes_v1
    eviction_index,       \* eviction_index_v1: <<deposited_at, receiver, id>>
    eviction_index_anon,  \* eviction_index_anon_v1
    now,                  \* the system clock
    up,                   \* the relay is running
    putting               \* the puts that have begun

tables == <<blobs, receiver_bytes, sender_bytes, anon_receiver_bytes,
            global_bytes, eviction_index, eviction_index_anon>>
mailboxVars == <<tables, now, up, putting>>

BlobKey == Receiver \X ContentId
Record == [sender : Sender, deposited_at : 0..MaxClock, len : Nat \ {0}]
IndexEntry == (0..MaxClock) \X Receiver \X ContentId

\* Mutant: the operands swapped.
SwappedSub(a, b) == b - a

\* u64::saturating_sub
SaturatingSub(a, b) == IF a >= b THEN a - b ELSE 0

billable_bytes(len) == len + RecordOverhead
anon_receiver_cap == QuotaReceiver \div AnonDivisor

\* The billable bytes of the rows K of a table of blobs, each byte a pair, and
\* their number: a sum written as a cardinality, so without recursion.
BilledBytes(table, K) == UNION {{k} \X (1..billable_bytes(table[k].len)) : k \in K}
Billed(K) == Cardinality(BilledBytes(blobs, K))

\* make_eviction_key and split_eviction_key
EvictionKey(k) == <<blobs[k].deposited_at, k[1], k[2]>>
RowOf(e) == <<e[2], e[3]>>
Rows(E) == {RowOf(e) : e \in E} \cap DOMAIN blobs

\* Index order: the time of deposit first, then the ids.
IndexBefore(e, f) ==
    \/ e[1] < f[1]
    \/ e[1] = f[1] /\ e[2] < f[2]
    \/ e[1] = f[1] /\ e[2] = f[2] /\ e[3] < f[3]

-----------------------------------------------------------------------------
(* Removal: ack, TTL prune and eviction alike.                             *)

\* Mutant: the class is taken from the stored sender, not from the index.
AnonRowsBySender(E) == {k \in Rows(E) : blobs[k].sender = NoSender}

\* The rows of the index entries E that were deposited anonymously.
AnonRows(E) == Rows(E \cap eviction_index_anon)

\* The tables without the rows of E, their bytes given back to the receiver, to
\* the budget of their class (refund_ingress) and to the total.
ReceiverBytesWithout(E) == [r \in Receiver |->
    SaturatingSub(receiver_bytes[r], Billed({k \in Rows(E) : k[1] = r}))]
AnonBytesWithout(E) == [r \in Receiver |->
    SaturatingSub(anon_receiver_bytes[r], Billed({k \in AnonRows(E) : k[1] = r}))]
SenderBytesWithout(E) == [s \in Sender |->
    SaturatingSub(sender_bytes[s], Billed({k \in Rows(E) \ AnonRows(E) : blobs[k].sender = s}))]
GlobalBytesWithout(E) == SaturatingSub(global_bytes, Billed(Rows(E)))

Remove(E) ==
    /\ blobs' = [k \in DOMAIN blobs \ Rows(E) |-> blobs[k]]
    /\ receiver_bytes' = ReceiverBytesWithout(E)
    /\ anon_receiver_bytes' = AnonBytesWithout(E)
    /\ sender_bytes' = SenderBytesWithout(E)
    /\ global_bytes' = GlobalBytesWithout(E)
    /\ eviction_index' = eviction_index \ E
    /\ eviction_index_anon' = eviction_index_anon \ E

\* Mutant: the index entry is looked for under the time of the ack.
AckStampedNow(k) ==
    /\ up /\ k \in DOMAIN blobs
    /\ Remove({<<now, k[1], k[2]>>})
    /\ UNCHANGED <<now, up, putting>>

\* Mailbox::ack
Ack(k) ==
    /\ up /\ k \in DOMAIN blobs
    /\ Remove({EvictionKey(k)})
    /\ UNCHANGED <<now, up, putting>>

\* Both indexes below the cutoff of a sweep that read the clock at the time at.
Expired(at) == {e \in eviction_index \cup eviction_index_anon : e[1] < SaturatingSub(at, Ttl)}

\* Mailbox::prune_expired
PruneExpired ==
    /\ up
    /\ \E at \in 0..now : Expired(at) # {} /\ Remove(Expired(at))
    /\ UNCHANGED <<now, up, putting>>

-----------------------------------------------------------------------------
(* Deposit.                                                                *)

\* put_with_capability: an identified deposit carries a token that verifies.
Accepts(d) == d.token = "valid" \/ (d.token = "none" /\ ~RequireToken)
\* put_classified: without a sender there is no sender's budget to charge.
IsAnonymous(d) == d.token = "none" \/ d.sender = NoSender

\* A put classifies the deposit, passes the rate limiter and reads the clock.
BeginPut(d) ==
    /\ up /\ Cardinality(putting) < MaxTasks /\ Accepts(d)
    /\ putting' = putting \cup {[deposit |-> d, at |-> now]}
    /\ UNCHANGED <<tables, now, up>>

RowFor(d) == <<d.receiver, d.content_id>>

\* Mutant: the anonymous slice is compared before the deposit is added.
IngressFullBefore(d) ==
    IF IsAnonymous(d)
    THEN anon_receiver_bytes[d.receiver] >= anon_receiver_cap
    ELSE sender_bytes[d.sender] + billable_bytes(d.len) > QuotaSender

\* The budget of the deposit's class is spent.
IngressFull(d) ==
    IF IsAnonymous(d)
    THEN anon_receiver_bytes[d.receiver] + billable_bytes(d.len) > anon_receiver_cap
    ELSE sender_bytes[d.sender] + billable_bytes(d.len) > QuotaSender

\* Duplicate, or one of the two budgets that eviction does not help.
Refused(d) ==
    \/ RowFor(d) \in DOMAIN blobs
    \/ receiver_bytes[d.receiver] + billable_bytes(d.len) > QuotaReceiver
    \/ IngressFull(d)

\* Mutant: an anonymous blob is evicted at any age.
EvictableIdentifiedOnly(at) ==
    {e \in eviction_index \cup eviction_index_anon :
        e \in eviction_index => SaturatingSub(at, e[1]) >= MinEvictionAge}

\* Entries old enough to be evicted, as seen from the time the put began.
Evictable(at) ==
    {e \in eviction_index \cup eviction_index_anon : SaturatingSub(at, e[1]) >= MinEvictionAge}

\* The anonymous pool goes first, each pool from its head.
EvictedBefore(e, f) ==
    \/ e \in eviction_index_anon /\ f \notin eviction_index_anon
    \/ (e \in eviction_index_anon <=> f \in eviction_index_anon) /\ IndexBefore(e, f)

FitsWithout(E, d) == GlobalBytesWithout(E) + billable_bytes(d.len) <= QuotaGlobal

\* What the eviction loop removes for d: heads of the pools, one at a time, and
\* no more than it takes.  The empty set of answers is QuotaGlobalExceeded: the
\* early return drops the transaction with every eviction in it.
Victims(at, d) ==
    {V \in SUBSET Evictable(at) :
        /\ FitsWithout(V, d)
        /\ \A v \in V : /\ \A e \in Evictable(at) : EvictedBefore(e, v) => e \in V
                        /\ (\A e \in V \ {v} : EvictedBefore(e, v)) => ~FitsWithout(V \ {v}, d)}

\* put_classified's transaction, when it answers Stored: the victims leave, and
\* the totals the deposit is added to are read after they left.
Store(at, d, V) ==
    LET size == billable_bytes(d.len)
        e == <<at, d.receiver, d.content_id>>
    IN  /\ blobs' = [k \in (DOMAIN blobs \ Rows(V)) \cup {RowFor(d)} |->
                       IF k = RowFor(d)
                       THEN [sender |-> d.sender, deposited_at |-> at, len |-> d.len]
                       ELSE blobs[k]]
        /\ receiver_bytes' = [ReceiverBytesWithout(V) EXCEPT ![d.receiver] = @ + size]
        /\ anon_receiver_bytes' =
             IF IsAnonymous(d)
             THEN [AnonBytesWithout(V) EXCEPT ![d.receiver] = @ + size] ELSE AnonBytesWithout(V)
        /\ sender_bytes' =
             IF IsAnonymous(d)
             THEN SenderBytesWithout(V) ELSE [SenderBytesWithout(V) EXCEPT ![d.sender] = @ + size]
        /\ global_bytes' = GlobalBytesWithout(V) + size
        /\ eviction_index' = (eviction_index \ V) \cup (IF IsAnonymous(d) THEN {} ELSE {e})
        /\ eviction_index_anon' = (eviction_index_anon \ V) \cup (IF IsAnonymous(d) THEN {e} ELSE {})

FinishPut(p) ==
    /\ up
    /\ \/ Refused(p.deposit) /\ UNCHANGED tables
       \/ ~Refused(p.deposit) /\ \E V \in Victims(p.at, p.deposit) : Store(p.at, p.deposit, V)
       \/ ~Refused(p.deposit) /\ Victims(p.at, p.deposit) = {} /\ UNCHANGED tables
    /\ putting' = putting \ {p}
    /\ UNCHANGED <<now, up>>

-----------------------------------------------------------------------------
(* Crash and reopen.                                                       *)

\* Puts that have not committed are lost; the database is not.
Crash ==
    /\ up /\ up' = FALSE
    /\ putting' = {}
    /\ UNCHANGED <<tables, now>>

\* Mailbox::open: the anonymous totals are rebuilt from the anonymous index,
\* and the sender total of no sender is dropped.
Open ==
    /\ ~up /\ up' = TRUE
    /\ anon_receiver_bytes' = [r \in Receiver |->
          Billed({k \in Rows(eviction_index_anon) : k[1] = r})]
    /\ sender_bytes' = [sender_bytes EXCEPT ![NoSender] = 0]
    /\ UNCHANGED <<blobs, receiver_bytes, global_bytes, eviction_index, eviction_index_anon, now, putting>>

Clock ==
    /\ now < MaxClock /\ now' = now + 1
    /\ UNCHANGED <<tables, up, putting>>

\* The closed database of the build just before the anonymous totals: each row
\* in the index of its class and billed, overhead included, to the sender its
\* record names, so that all anonymous rows share the total of no sender.
\* Still older databases, in which class and sender disagree or payload alone
\* was billed, are not described: Open does not put their totals right.
LegacyRow(k) == CHOOSE d \in Legacy : RowFor(d) = k
MailboxInit ==
    /\ blobs = [k \in {RowFor(d) : d \in Legacy} |->
                  [sender |-> LegacyRow(k).sender, deposited_at |-> 0, len |-> LegacyRow(k).len]]
    /\ receiver_bytes = [r \in Receiver |-> Billed({k \in DOMAIN blobs : k[1] = r})]
    /\ sender_bytes = [s \in Sender |-> Billed({k \in DOMAIN blobs : blobs[k].sender = s})]
    /\ anon_receiver_bytes = [r \in Receiver |-> 0]
    /\ global_bytes = Billed(DOMAIN blobs)
    /\ eviction_index = {EvictionKey(k) : k \in {x \in DOMAIN blobs : blobs[x].sender # NoSender}}
    /\ eviction_index_anon = {EvictionKey(k) : k \in {x \in DOMAIN blobs : blobs[x].sender = NoSender}}
    /\ now = 0 /\ up = FALSE
    /\ putting = {}

\* The earlier build kept within these three quotas.
ASSUME LegacyAssumption ==
    LET held(R) == UNION {{d} \X (1..billable_bytes(d.len)) : d \in R}
    IN  /\ IsFiniteSet(Legacy)
        /\ \A d, e \in Legacy : RowFor(d) = RowFor(e) => d = e
        /\ Cardinality(held(Legacy)) <= QuotaGlobal
        /\ \A r \in Receiver :
              Cardinality(held({d \in Legacy : d.receiver = r})) <= QuotaReceiver
        /\ \A s \in Sender \ {NoSender} :
              Cardinality(held({d \in Legacy : d.sender = s})) <= QuotaSender

MailboxNext ==
    \/ \E k \in BlobKey : Ack(k)
    \/ PruneExpired
    \/ \E d \in Deposit : BeginPut(d)
    \/ \E p \in putting : FinishPut(p)
    \/ Crash \/ Open \/ Clock

MailboxSpec == MailboxInit /\ [][MailboxNext]_mailboxVars

-----------------------------------------------------------------------------
(* Types of the tables and of the puts in progress.                        *)
MailboxTypeOK ==
    /\ \E K \in SUBSET BlobKey : blobs \in [K -> Record]
    /\ receiver_bytes \in [Receiver -> Nat] /\ sender_bytes \in [Sender -> Nat]
    /\ anon_receiver_bytes \in [Receiver -> Nat] /\ global_bytes \in Nat
    /\ eviction_index \subseteq IndexEntry /\ eviction_index_anon \subseteq IndexEntry
    /\ now \in 0..MaxClock /\ up \in BOOLEAN
    /\ putting \subseteq [deposit : Deposit, at : 0..MaxClock]

\* The rows of each class.
AnonHeld == Rows(eviction_index_anon)
IdentifiedHeld == Rows(eviction_index)

(* Every blob is in exactly one index, under its own time of deposit, and    *)
(* each index entry has its blob ("eviction-index entry without blobs row"    *)
(* is an error the put answers with for ever).                             *)
IndexesExact ==
    /\ eviction_index \cup eviction_index_anon = {EvictionKey(k) : k \in DOMAIN blobs}
    /\ eviction_index \cap eviction_index_anon = {}

(* While the relay runs, the four totals are what the blobs of their class    *)
(* weigh, through evictions for another receiver's deposit, acks of either    *)
(* class, expiry of both pools at once, restarts, and the first start on the   *)
(* database of the build before, whose anonymous blobs were billed to no       *)
(* sender (the saturating refunds would hide a drift for ever).            *)
LedgerExact ==
    up => /\ global_bytes = Billed(DOMAIN blobs)
          /\ \A r \in Receiver :
                /\ receiver_bytes[r] = Billed({k \in DOMAIN blobs : k[1] = r})
                /\ anon_receiver_bytes[r] = Billed({k \in AnonHeld : k[1] = r})
          /\ \A s \in Sender :
                sender_bytes[s] = Billed({k \in IdentifiedHeld : blobs[k].sender = s})

\* What the receiver's anonymous blobs of the earlier build weigh.
LegacyBilled(r) ==
    Cardinality(UNION {{d} \X (1..billable_bytes(d.len)) :
                         d \in {x \in Legacy : x.receiver = r /\ x.sender = NoSender}})

(* The quotas bound what is really held: in total, by receiver, by sender,   *)
(* and the anonymous share of a receiver, which strangers can fill, beyond    *)
(* which only blobs older than the share may go.                           *)
QuotasHold ==
    /\ Billed(DOMAIN blobs) <= QuotaGlobal
    /\ \A r \in Receiver :
          /\ Billed({k \in DOMAIN blobs : k[1] = r}) <= QuotaReceiver
          /\ \/ Billed({k \in AnonHeld : k[1] = r}) <= anon_receiver_cap
             \/ Billed({k \in AnonHeld : k[1] = r}) <= LegacyBilled(r)
    /\ \A s \in Sender : Billed({k \in IdentifiedHeld : blobs[k].sender = s}) <= QuotaSender
=============================================================================
