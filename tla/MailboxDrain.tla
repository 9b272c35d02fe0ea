---------------------------- MODULE MailboxDrain ----------------------------
(***************************************************************************)
(* How mail leaves the store: the FETCH, SLICE and ACK endpoints of the      *)
(* relay (crates/veil-node-runtime/src/builtin/mailbox.rs) and the device    *)
(* that drains its mail through them.  A fetch is answered from the box of   *)
(* the identity and the box of the device together, oldest first, within     *)
(* one reply's budget; it removes nothing.  What a reply cannot carry whole  *)
(* is announced and collected window by window.  The device acknowledges    *)
(* what it has.  Requests and replies may be lost, the relay may crash       *)
(* between any two steps, and some mail the device cannot use yet: it is     *)
(* not acknowledged and is named in the skip list of later fetches.         *)
(*                                                                         *)
(* The device's application is outside the repository: it polls, one        *)
(* request at a time.                                                      *)
(***************************************************************************)
EXTENDS Mailbox

CONSTANTS
    Identity, Device, \* the boxes the device is authenticated for
    Unusable,         \* content ids the device cannot use yet
    MaxFetchCount,    \* MAX_FETCH_COUNT
    MaxFetchBytes,    \* MAX_FETCH_BYTES
    MaxFetchSkip,     \* MAX_FETCH_SKIP
    MaxEntries,       \* MAX_MAILBOX_FETCH_ENTRIES
    ReplyBudget,      \* fetch_reply_budget()
    EntryHeader,      \* PER_BLOB_WIRE_HDR
    SliceWindow,      \* fetch_reply_budget() less the slice's header
    MaxPuts,          \* bound: puts begun
    MaxFaults         \* bound: messages lost and crashes of the relay

ASSUME DrainAssumption ==
    /\ {Identity, Device} \subseteq Receiver /\ Unusable \subseteq ContentId
    /\ MaxFetchCount \in Nat \ {0} /\ MaxFetchBytes \in Nat
    /\ MaxFetchSkip \in Nat /\ MaxEntries \in Nat \ {0}
    /\ EntryHeader \in Nat \ {0} /\ ReplyBudget \in Nat /\ ReplyBudget >= EntryHeader
    /\ SliceWindow \in Nat \ {0}
    /\ MaxPuts \in Nat /\ MaxFaults \in Nat

VARIABLES
    reply,      \* {} or {the reply under way}: rows, whole or announced
    acking,     \* rows whose removal an ACK under way asks for
    slicing,    \* {} or {an announced blob being collected}
    aside,      \* content ids the device has set aside
    received,   \* content ids the device has
    spent       \* puts and faults so far

deviceVars == <<reply, acking, slicing, aside, received>>
vars == <<mailboxVars, deviceVars, spent>>

Bound == [puts |-> MaxPuts, faults |-> MaxFaults]
Spend(kind) == spent[kind] < Bound[kind] /\ spent' = [spent EXCEPT ![kind] = @ + 1]

Boxes == {Identity, Device}

-----------------------------------------------------------------------------
(* FETCH.                                                                  *)

\* What the rows K weigh as payload, and in a reply.
Payload(K) == Cardinality(UNION {{k} \X (1..blobs[k].len) : k \in K})
Oversized(k) == blobs[k].len + EntryHeader > ReplyBudget
ReplyCost(k) == IF Oversized(k) THEN EntryHeader ELSE blobs[k].len + EntryHeader
Cost(K) == Cardinality(UNION {{k} \X (1..ReplyCost(k)) : k \in K})

\* Mutant: the rows to skip are left out of the batch, not of the selection.
FetchSkippingLate(r, skip) ==
    LET held == {k \in DOMAIN blobs : k[1] = r}
        older(k) == {x \in held : IndexBefore(EvictionKey(x), EvictionKey(k))}
    IN  {k \in held :
           /\ Cardinality(older(k)) < MaxFetchCount
           /\ older(k) = {} \/ Payload(older(k) \cup {k}) <= MaxFetchBytes
           /\ k[2] \notin skip}

\* Mailbox::fetch_skipping: the oldest rows of the box, as many as the two
\* limits permit; the first whatever it weighs.
FetchSkipping(r, skip) ==
    LET held == {k \in DOMAIN blobs : k[1] = r /\ k[2] \notin skip}
        older(k) == {x \in held : IndexBefore(EvictionKey(x), EvictionKey(k))}
    IN  {k \in held :
           /\ Cardinality(older(k)) < MaxFetchCount
           /\ older(k) = {} \/ Payload(older(k) \cup {k}) <= MaxFetchBytes}

\* Oldest first across the two boxes; at one time the identity's come first.
ServedBefore(j, k) ==
    \/ blobs[j].deposited_at < blobs[k].deposited_at
    \/ /\ blobs[j].deposited_at = blobs[k].deposited_at
       /\ (j[1] = Identity /\ k[1] # Identity) \/ (j[1] = k[1] /\ j[2] < k[2])

\* handle_fetch_message: the batch of both boxes, packed into one reply until
\* the first blob without room.
FetchReply(skip) ==
    LET batch == UNION {FetchSkipping(r, skip) : r \in Boxes}
        before(k) == {x \in batch : ServedBefore(x, k)}
        packed == {k \in batch : /\ Cardinality(before(k)) < MaxEntries
                                 /\ Cost(before(k) \cup {k}) <= ReplyBudget}
    IN  {[row |-> k, whole |-> ~Oversized(k)] : k \in packed}

\* What the device asks to leave out; the list is cut at MAX_FETCH_SKIP.
SkipLists ==
    {S \in SUBSET aside : Cardinality(S) <= MaxFetchSkip
                          /\ (S # aside => Cardinality(S) = MaxFetchSkip)}

\* The device polls when nothing it asked for is under way.
Fetch ==
    /\ up /\ reply = {} /\ slicing = {} /\ acking = {}
    /\ \E skip \in SkipLists : reply' = {FetchReply(skip)}
    /\ UNCHANGED <<mailboxVars, acking, slicing, aside, received, spent>>

-----------------------------------------------------------------------------
(* The device (external) takes the reply.                                  *)

Usable(k) == k[2] \notin Unusable

\* The ACK of content id c reaches the boxes that FETCH serves.
AckRows(c) == {<<r, c>> : r \in Boxes}

TakeReply ==
    /\ \E entries \in reply :
         LET whole == {x.row : x \in {y \in entries : y.whole}}
             announced == {x.row : x \in entries} \ whole
             taken == {k \in whole : Usable(k)}
         IN  /\ received' = received \cup {k[2] : k \in taken}
             /\ acking' = UNION {AckRows(k[2]) : k \in taken}
             /\ aside' = aside \cup {k[2] : k \in {x \in whole \cup announced : ~Usable(x)}}
             /\ IF \E k \in announced : Usable(k)
                THEN \E k \in announced :
                       Usable(k) /\ slicing' = {[content_id |-> k[2], offset |-> 0]}
                ELSE slicing' = {}
    /\ reply' = {}
    /\ UNCHANGED <<mailboxVars, spent>>

\* handle_slice_message: the blob is looked for in the identity's box, then in
\* the device's; the answer carries a window of it, or says that it is gone.
HeldFor(c) == AckRows(c) \cap DOMAIN blobs
SliceSource(c) == IF <<Identity, c>> \in DOMAIN blobs THEN <<Identity, c>> ELSE <<Device, c>>

Slice ==
    /\ up
    /\ \E s \in slicing :
         LET c == s.content_id
             end == s.offset + SliceWindow
         IN  \/ /\ HeldFor(c) # {} /\ end < blobs[SliceSource(c)].len
                /\ slicing' = {[s EXCEPT !.offset = end]}
                /\ UNCHANGED <<acking, received>>
             \/ /\ HeldFor(c) # {} /\ end >= blobs[SliceSource(c)].len
                /\ slicing' = {}
                /\ received' = received \cup {c}
                /\ acking' = acking \cup AckRows(c)
             \/ /\ HeldFor(c) = {}
                /\ slicing' = {}
                /\ UNCHANGED <<acking, received>>
    /\ UNCHANGED <<mailboxVars, reply, aside, spent>>

-----------------------------------------------------------------------------
(* ACK, and what may go wrong.                                             *)

\* handle_ack_message: one transaction for each of the two boxes, each of which
\* may find the row gone.
HandleAck(k) ==
    /\ k \in acking
    /\ acking' = acking \ {k}
    /\ Ack(k) \/ (up /\ k \notin DOMAIN blobs /\ UNCHANGED mailboxVars)
    /\ UNCHANGED <<reply, slicing, aside, received, spent>>

\* A reply, or the ACK of a reply, is lost; the device gives up waiting.
Lose ==
    /\ \/ reply # {} /\ reply' = {} /\ UNCHANGED <<acking, slicing>>
       \/ acking # {} /\ acking' = {} /\ UNCHANGED <<reply, slicing>>
       \/ slicing # {} /\ slicing' = {} /\ UNCHANGED <<reply, acking>>
    /\ Spend("faults")
    /\ UNCHANGED <<mailboxVars, aside, received>>

\* The relay crashes; a request it was handling is lost with it.
RelayCrash ==
    /\ Crash /\ Spend("faults")
    /\ acking' \in SUBSET acking
    /\ UNCHANGED <<reply, slicing, aside, received>>

Init ==
    /\ MailboxInit
    /\ reply = {} /\ acking = {} /\ slicing = {} /\ aside = {} /\ received = {}
    /\ spent = [kind \in DOMAIN Bound |-> 0]

StoreNext ==
    \/ \E d \in Deposit : BeginPut(d) /\ Spend("puts") /\ UNCHANGED deviceVars
    \/ /\ (\E p \in putting : FinishPut(p)) \/ PruneExpired \/ Open \/ Clock
       /\ UNCHANGED <<deviceVars, spent>>

Next ==
    \/ StoreNext
    \/ Fetch \/ TakeReply \/ Slice \/ Lose \/ RelayCrash
    \/ \E k \in BlobKey : HandleAck(k)

\* The relay restarts and serves what reaches it; the device keeps polling.
\* Nothing is assumed of depositors, of the clock or of the TTL sweep.
Fairness ==
    /\ WF_vars(Open /\ UNCHANGED <<deviceVars, spent>>)
    /\ WF_vars(Fetch) /\ WF_vars(TakeReply) /\ WF_vars(Slice)
    /\ \A k \in BlobKey : WF_vars(HandleAck(k))

Spec == Init /\ [][Next]_vars /\ Fairness

-----------------------------------------------------------------------------
(* Types of the device's state and of the store under it.                  *)
TypeOK ==
    /\ MailboxTypeOK
    /\ \A entries \in reply : entries \subseteq [row : BlobKey, whole : BOOLEAN]
    /\ acking \subseteq BlobKey
    /\ slicing \subseteq [content_id : ContentId \ Unusable, offset : Nat]
    /\ aside \subseteq Unusable /\ received \subseteq ContentId \ Unusable

(* Mail is never lost early: a blob that leaves the store is mail the device  *)
(* has, or is old enough to be evicted, or past its TTL; and an identified    *)
(* blob is evicted only with every anonymous one that could have gone first.  *)
(* A reply or an ACK lost, repeated after a crash or overtaken by a new       *)
(* deposit of the same id changes nothing of it.                            *)
LeavesInTurn ==
    \A k \in DOMAIN blobs \ DOMAIN blobs' :
       \/ k[2] \in received
       \/ blobs[k].deposited_at < SaturatingSub(now, Ttl)
       \/ \E p \in putting \ putting' :
             /\ now - blobs[k].deposited_at >= MinEvictionAge
             /\ EvictionKey(k) \in eviction_index =>
                  \A e \in eviction_index_anon \cap eviction_index_anon' :
                     p.at - e[1] < MinEvictionAge
NoEarlyLoss == [][LeavesInTurn]_vars

(* Every usable blob of the two boxes leaves the store, whatever mail the     *)
(* device cannot use is in front of it and however little a reply carries:    *)
(* the skip list is honoured in the selection, not after it, one box cannot   *)
(* starve the other, and a blob too large for a reply does not wedge the      *)
(* queue behind it ("wedging that receiver's mailbox and starving everything  *)
(* behind it", the fault the code describes).  It is so while the content ids *)
(* set aside fit one skip list (MAX_FETCH_SKIP).                            *)
EveryBlobDrains ==
    \A k \in Boxes \X (ContentId \ Unusable) : (k \in DOMAIN blobs) ~> (k \notin DOMAIN blobs)
=============================================================================
