---------------------------- MODULE OnionStream ----------------------------
(***************************************************************************)
(* One direction of an established onion stream: the sending half of one    *)
(* StreamEngine and the receiving half of the other                         *)
(* (crates/veil-onion-stream/src/engine.rs), the driver's queue of cells    *)
(* the carrier has not accepted yet (driver.rs), and a carrier that delays, *)
(* reorders, repeats and loses cells.                                       *)
(*                                                                         *)
(* tx and rx are TxState and RxState.  A byte is its position in what the   *)
(* application wrote.  Time, pacing and the congestion window only decide   *)
(* when a segment is sent, how long it is and when it is held for lost:     *)
(* all of that is left open, within the receiver's window.  So is what the  *)
(* other direction does: when the receiver's own sending half is done, and  *)
(* when its DATA cells carry a window.                                      *)
(***************************************************************************)
EXTENDS SeqArith, SequencesExt

CONSTANTS
    Iss,            \* sequence number of the first byte
    Mss,            \* bytes in a segment
    RecvWindow,     \* bytes the receiver buffers
    MaxRetransmits, \* timeouts in a row before the stream is dead
    Rewind,         \* rto_rewind_no_sack: on for circuits
    MaxReordered,   \* MAX_REORDERED_SEGMENTS
    MaxSacks,       \* MAX_SACKS
    MaxBytes,       \* bound: bytes written
    MaxLosses,      \* bound: cells lost
    MaxRepeats,     \* bound: cells delivered twice
    MaxAlarms,      \* bound: losses suspected while an answer may be on its way
    MaxResets       \* bound: applications and carriers giving up

ASSUME StreamAssumption ==
    /\ Iss \in SeqNo /\ Mss \in Nat \ {0} /\ RecvWindow \in Nat \ {0}
    /\ MaxRetransmits \in Nat /\ Rewind \in BOOLEAN
    /\ MaxReordered \in Nat /\ MaxSacks \in Nat
    /\ MaxLosses \in Nat /\ MaxRepeats \in Nat /\ MaxAlarms \in Nat /\ MaxResets \in Nat
    /\ MaxBytes \in Nat /\ MaxBytes + 2 < Modulus \div 2

VARIABLES
    tx,         \* the sender's engine
    rx,         \* the receiver's engine; once it is gone, as it was dropped
    written,    \* bytes the application wrote
    got,        \* bytes handed to the other application
    outbound,   \* cells polled and not accepted by the carrier
    net,        \* cells on the way
    spent       \* how much of each bound is used up

vars == <<tx, rx, written, got, outbound, net, spent>>

Bound == [losses |-> MaxLosses, repeats |-> MaxRepeats,
          alarms |-> MaxAlarms, resets |-> MaxResets]
Spend(kind) == spent[kind] < Bound[kind] /\ spent' = [spent EXCEPT ![kind] = @ + 1]

Byte == 1..MaxBytes
SaturatingSub(m, n) == IF m >= n THEN m - n ELSE 0

-----------------------------------------------------------------------------
(* Segments and cells.                                                     *)

Span(s) == IF s.is_fin THEN 1 ELSE Len(s.data)
EndOf(s) == Plus(s.seq, Span(s))
NewSeg(seq, data, is_fin, handed_off) ==
    [seq |-> seq, data |-> data, is_fin |-> is_fin, sacked |-> FALSE,
     needs_resend |-> FALSE, local_pending |-> TRUE, handed_off |-> handed_off]
CellOf(s) == [kind |-> IF s.is_fin THEN "fin" ELSE "data", seq |-> s.seq, data |-> s.data]
AckCell(ack, win, sacks) == [kind |-> "ack", ack |-> ack, win |-> win, sacks |-> sacks]
EndOfCell(c) == Plus(c.seq, IF c.kind = "fin" THEN 1 ELSE Len(c.data))
RstCell(to) == [kind |-> "rst", to |-> to]

\* The sequence numbers of n bytes from seq on.
Numbers(seq, n) == {Plus(seq, i) : i \in 0..(n - 1)}

-----------------------------------------------------------------------------
(* The receiving half.  Its phase is "closed" once the stream is reset, and  *)
(* then "gone" with the driver; a driver that retires because both halves    *)
(* are done is "lingering" for a while before it is gone.                    *)

RxInit ==
    [phase |-> "established", rcv_nxt |-> Iss, read_buf |-> <<>>,
     oo |-> [n \in {} |-> 0],          \* bytes received out of order
     peer_fin |-> {}, eof |-> FALSE,
     end |-> "open",                   \* what the driver tells the application
     ack_pending |-> FALSE, last_ack_window |-> RecvWindow]

Advertised(r) == SaturatingSub(RecvWindow, Len(r.read_buf) + Cardinality(DOMAIN r.oo))
IsEof(r) == r.eof /\ r.read_buf = <<>>

\* Mutant: the FIN is consumed wherever it stands.
TryConsumeFinEarly(r) ==
    IF r.peer_fin # {} /\ ~r.eof
    THEN [r EXCEPT !.rcv_nxt = Plus(@, 1), !.eof = TRUE] ELSE r
\* try_consume_fin
TryConsumeFin(r) ==
    IF r.rcv_nxt \in r.peer_fin /\ ~r.eof
    THEN [r EXCEPT !.rcv_nxt = Plus(@, 1), !.eof = TRUE] ELSE r

\* The bytes of a segment inside the receive window, by sequence number: below
\* rcv_nxt they are duplicates, beyond the free space they are refused.
Acceptable(r, seq, data) ==
    LET space == SaturatingSub(RecvWindow, Len(r.read_buf))
        inside == {i \in DOMAIN data : /\ ~Lt(Plus(seq, i - 1), r.rcv_nxt)
                                       /\ Minus(Plus(seq, i - 1), r.rcv_nxt) < space}
    IN  [n \in {Plus(seq, i - 1) : i \in inside} |-> data[Minus(n, seq) + 1]]

\* Mutant: new bytes evict the ones stored.
StoreEvicts(r, new) == IF DOMAIN new = {} THEN r.oo ELSE new
\* store_oo: what is stored stays.
StoreOo(r, new) ==
    [n \in DOMAIN r.oo \cup DOMAIN new |-> IF n \in DOMAIN r.oo THEN r.oo[n] ELSE new[n]]

\* The bytes of a segment that are kept.  One that starts at rcv_nxt is taken
\* whole; of one out of order store_oo drops what has no slot.  A slot holds a
\* byte or more, so slots can only run out at that many bytes.
Kept(r, c) ==
    LET new == Acceptable(r, c.seq, c.data)
        full == Cardinality(DOMAIN r.oo \cup DOMAIN new) > MaxReordered
    IN  IF full /\ r.rcv_nxt \notin DOMAIN new
        THEN {Restrict(new, S) : S \in SUBSET DOMAIN new} ELSE {new}

\* accept, with drain_oo: the run of bytes at rcv_nxt moves to the reader.
Accept(r, new) ==
    LET oo == StoreOo(r, new)
        run == CHOOSE k \in 0..Cardinality(DOMAIN oo) :
                  /\ Numbers(r.rcv_nxt, k) \subseteq DOMAIN oo
                  /\ Plus(r.rcv_nxt, k) \notin DOMAIN oo
        stored == [r EXCEPT
                     !.read_buf = @ \o [i \in 1..run |-> oo[Plus(r.rcv_nxt, i - 1)]],
                     !.rcv_nxt = Plus(@, run),
                     !.oo = [n \in DOMAIN oo \ Numbers(r.rcv_nxt, run) |-> oo[n]]]
    IN  IF run > 0 THEN TryConsumeFin(stored) ELSE stored

\* set_end: the first verdict stands.
SetEnd(old, new) == IF old = "open" THEN new ELSE old

\* linger_completed: only a repeat of what was received is answered.
Repeated(r, c) ==
    IF c.kind = "fin" THEN EndOfCell(c) = r.rcv_nxt ELSE Lt(EndOfCell(c), r.rcv_nxt)
Answered(r, c) ==
    IF r.phase = "lingering" /\ Repeated(r, c) THEN [r EXCEPT !.ack_pending = TRUE] ELSE r

\* on_data and on_peer_fin; either way an ACK follows, at once or delayed.
OnData(r, c, new) ==
    IF r.phase = "established" THEN [Accept(r, new) EXCEPT !.ack_pending = TRUE]
    ELSE Answered(r, c)
OnPeerFin(r, c) ==
    IF r.phase = "established"
    THEN LET f == TryConsumeFin([r EXCEPT !.peer_fin = {c.seq}])
         IN  [f EXCEPT !.ack_pending = TRUE,
                       !.end = IF f.eof THEN SetEnd(@, "eof") ELSE @]
    ELSE Answered(r, c)

\* on_rst, reset and declare_dead; an RST ends the lingering
Closed(e) == [e EXCEPT !.phase = "closed"]
OnRst(r) ==
    CASE r.phase = "established" -> [Closed(r) EXCEPT !.end = SetEnd(@, "reset")]
      [] r.phase = "lingering" -> [r EXCEPT !.phase = "gone"]
      [] OTHER -> r

\* read: a window that was small is announced again once there is room.
ReadThreshold == LET half == RecvWindow \div 2
                 IN  IF half < 1 THEN 1 ELSE IF half < Mss THEN half ELSE Mss
ReadFrom(r, n) ==
    LET left == [r EXCEPT !.read_buf = SubSeq(@, n + 1, Len(@))]
        announce == /\ r.phase = "established" /\ ~r.eof
                    /\ r.last_ack_window <= ReadThreshold
                    /\ SaturatingSub(Advertised(left), r.last_ack_window) >= ReadThreshold
    IN  [left EXCEPT !.ack_pending = @ \/ announce]

-----------------------------------------------------------------------------
(* The sending half.                                                       *)

TxInit ==
    [phase |-> "established", snd_una |-> Iss, snd_nxt |-> Iss,
     pending |-> <<>>, segs |-> <<>>, rwnd |-> RecvWindow,
     probe |-> {},                     \* persist_probe: [seq, replied] or none
     force_probe |-> FALSE,
     hint_used |-> FALSE,              \* window_hint_probe_used
     consec_rto |-> 0,
     rewind_high |-> {}, rewind_fin |-> FALSE,
     fin_requested |-> FALSE, fin_sent |-> FALSE, fin_acked |-> FALSE]

\* Mutant: the FIN's acknowledgement is not waited for.
IsSendCompleteNoFin(t) == t.pending = <<>> /\ t.segs = <<>>
\* is_send_complete
IsSendComplete(t) ==
    /\ t.pending = <<>> /\ t.segs = <<>>
    /\ t.fin_requested => t.fin_acked

\* Mutant: only data is probed for, not the FIN.
ZeroWindowBlockedData(t) ==
    t.phase = "established" /\ t.segs = <<>> /\ t.rwnd = 0 /\ t.pending # <<>>
\* zero_window_blocked
ZeroWindowBlocked(t) ==
    /\ t.phase = "established" /\ t.segs = <<>> /\ t.rwnd = 0
    /\ t.pending # <<>> \/ (t.fin_requested /\ ~t.fin_sent)

\* window_probe_handed_off
ProbeHandedOff(t) ==
    /\ Len(t.segs) = 1
    /\ \E p \in t.probe : p.seq = t.snd_una /\ t.segs[1].seq = p.seq
    /\ LET s == t.segs[1]
       IN  ~s.is_fin /\ Len(s.data) = 1 /\ s.handed_off /\ ~s.local_pending /\ ~s.sacked

InFlight(t) == Minus(t.snd_nxt, t.snd_una)
\* create_next_segment's room; a probe may go one byte past a closed window.
Room(t) == IF t.force_probe THEN 1 ELSE SaturatingSub(t.rwnd, InFlight(t))

\* A replayed range whose first copy left counts as handed off.
ReplayedTo(t, end) == \E high \in t.rewind_high : Leq(end, high)

\* create_next_segment, for n bytes or the FIN
WithDataSegment(t, n) ==
    [t EXCEPT
       !.pending = SubSeq(@, n + 1, Len(@)), !.force_probe = FALSE,
       !.snd_nxt = Plus(@, n),
       !.segs = Append(@, NewSeg(t.snd_nxt, SubSeq(t.pending, 1, n), FALSE,
                                 ReplayedTo(t, Plus(t.snd_nxt, n)))),
       !.probe = IF t.force_probe /\ t.rwnd = 0
                 THEN {[seq |-> t.snd_nxt, replied |-> FALSE]}
                 ELSE {p \in @ : p.seq # t.snd_nxt}]
WithFinSegment(t) ==
    [t EXCEPT
       !.force_probe = FALSE, !.fin_sent = TRUE, !.snd_nxt = Plus(@, 1),
       !.segs = Append(@, NewSeg(t.snd_nxt, <<>>, TRUE, ReplayedTo(t, Plus(t.snd_nxt, 1))))]

\* ack_limit: the furthest an ACK can be true of.
AckLimit(t) ==
    LET high == IF t.rewind_high = {} THEN t.snd_nxt
                ELSE SeqMax(t.snd_nxt, CHOOSE h \in t.rewind_high : TRUE)
        unsent == {i \in DOMAIN t.segs : ~t.segs[i].handed_off}
        s == t.segs[CHOOSE i \in unsent : \A j \in unsent : i <= j]
        from == SeqMax(s.seq, t.snd_una)
        known == IF t.rewind_high = {} THEN from
                 ELSE SeqMax(from, SeqMin(CHOOSE h \in t.rewind_high : TRUE, EndOf(s)))
    IN  IF unsent = {} THEN high ELSE SeqMin(high, known)

\* trim_rewound_pending_after_ack: a late ACK of a rewound flight takes its
\* bytes back out of pending; the FIN has a number but no byte.
TrimRewound(t, ack) ==
    LET covered == \E high \in t.rewind_high : Geq(ack, high)
        bytes == IF ~Gt(ack, t.snd_nxt) THEN 0
                 ELSE IF t.rewind_fin /\ covered
                 THEN SaturatingSub(Minus(ack, t.snd_nxt), 1) ELSE Minus(ack, t.snd_nxt)
        drop == IF bytes < Len(t.pending) THEN bytes ELSE Len(t.pending)
    IN  IF t.rewind_high = {} THEN t
        ELSE [t EXCEPT !.pending = SubSeq(@, drop + 1, Len(@)),
                       !.snd_nxt = IF Gt(ack, @) THEN ack ELSE @,
                       !.fin_acked = @ \/ (covered /\ t.rewind_fin),
                       !.rewind_high = IF covered THEN {} ELSE @,
                       !.rewind_fin = @ /\ ~covered]

\* The segments a cumulative ACK retires: the leading ones that end by it.
Retired(t, ack) ==
    {i \in DOMAIN t.segs : \A j \in 1..i : Leq(EndOf(t.segs[j]), ack)}
AckAdvances(t, ack) ==
    TrimRewound([t EXCEPT !.segs = SubSeq(@, Cardinality(Retired(t, ack)) + 1, Len(@)),
                          !.snd_una = ack, !.consec_rto = 0,
                          !.fin_acked = @ \/ \E i \in Retired(t, ack) : t.segs[i].is_fin,
                          !.probe = {p \in @ : ~Gt(ack, p.seq)}], ack)

\* SACK: segments covered whole are received; nothing resends them.
Sacked(t, sacks) ==
    [t EXCEPT !.segs = [i \in DOMAIN @ |->
       IF @[i].handed_off /\ Numbers(@[i].seq, Span(@[i])) \subseteq sacks
       THEN [@[i] EXCEPT !.sacked = TRUE, !.needs_resend = FALSE] ELSE @[i]]]

\* Mutant: a probe already due goes out although the window opened.
WindowKeepsProbe(t, c) ==
    IF Geq(c.ack, t.snd_una)
    THEN [t EXCEPT !.rwnd = c.win, !.hint_used = @ /\ c.win = 0] ELSE t
\* An old ACK carries no window.
WithWindow(t, c) ==
    IF Geq(c.ack, t.snd_una)
    THEN [t EXCEPT !.rwnd = c.win, !.hint_used = @ /\ c.win = 0,
                   !.force_probe = @ /\ c.win = 0] ELSE t

\* on_ack.  An old ACK's SACKs still count.
OnAck(t, c) ==
    LET reopened == t.rwnd = 0 /\ c.win > 0
        marked == Sacked(WithWindow(t, c), c.sacks)
        probed == c.ack = t.snd_una /\ ProbeHandedOff(marked)
        answered ==
          CASE probed /\ marked.rwnd = 0 ->
                 [marked EXCEPT !.probe = {[p EXCEPT !.replied = TRUE] : p \in @},
                                !.consec_rto = 0]
            [] probed /\ reopened /\ \E p \in marked.probe : p.replied ->
                 [marked EXCEPT !.segs[1].needs_resend = TRUE]
            [] OTHER -> marked
    IN  CASE t.phase = "closed" \/ Gt(c.ack, AckLimit(t)) -> t
          [] t.phase # "closed" /\ ~Gt(c.ack, AckLimit(t)) /\ Gt(c.ack, t.snd_una) ->
               AckAdvances(answered, c.ack)
          [] OTHER -> answered

\* Mutant: a segment an old ACK split is put back whole.
UnackedDataWhole(t) == FlattenSeq([i \in DOMAIN t.segs |-> t.segs[i].data])
\* The data of the flight that is not acknowledged, in order.
UnackedData(t) ==
    FlattenSeq([i \in DOMAIN t.segs |->
       LET s == t.segs[i]
       IN  IF Lt(s.seq, t.snd_una)
           THEN SubSeq(s.data, Minus(t.snd_una, s.seq) + 1, Len(s.data)) ELSE s.data])

\* requeue_unsacked_flight_for_rto
Requeued(t) ==
    LET fin == \E i \in DOMAIN t.segs : t.segs[i].is_fin
    IN  [t EXCEPT !.pending = UnackedData(t) \o @, !.segs = <<>>, !.snd_nxt = t.snd_una,
                  !.rewind_high = {IF @ = {} THEN t.snd_nxt
                                   ELSE SeqMax(CHOOSE h \in @ : TRUE, t.snd_nxt)},
                  !.rewind_fin = @ \/ fin, !.fin_sent = @ /\ ~fin]

\* Segments that may be lost: on the network and not reported received.
Exposed(t) == {i \in DOMAIN t.segs : ~t.segs[i].sacked /\ ~t.segs[i].local_pending}
Resend(t, S) ==
    [t EXCEPT !.segs = [i \in DOMAIN @ |->
                          IF i \in S THEN [@[i] EXCEPT !.needs_resend = TRUE] ELSE @[i]]]

\* The flight is rewound when it is all data nobody has reported anything of.
Rewinds(t) ==
    /\ Rewind
    /\ \A i \in DOMAIN t.segs : ~t.segs[i].sacked /\ ~t.segs[i].local_pending
    /\ \E i \in DOMAIN t.segs : ~t.segs[i].is_fin

-----------------------------------------------------------------------------
(* The two engines, their drivers and the carrier.                         *)

Init ==
    /\ tx = TxInit /\ rx = RxInit
    /\ written = 0 /\ got = <<>>
    /\ outbound = {} /\ net = {}
    /\ spent = [kind \in DOMAIN Bound |-> 0]

appVars == <<written, got>>

\* write, one byte at a time
Write ==
    /\ tx.phase # "closed" /\ ~tx.fin_requested
    /\ written < MaxBytes
    /\ written' = written + 1
    /\ tx' = [tx EXCEPT !.pending = Append(@, written + 1)]
    /\ UNCHANGED <<rx, got, outbound, net, spent>>

\* finish
Finish ==
    /\ tx' = [tx EXCEPT !.fin_requested = TRUE]
    /\ UNCHANGED <<rx, appVars, outbound, net, spent>>

\* reset: the application gave up or the carrier is gone.  What was queued is
\* dropped; the RST is sent once, best effort.
ResetSender ==
    /\ tx.phase # "closed"
    /\ tx' = Closed(tx)
    /\ outbound' = {}
    /\ net' \in {net, net \cup {RstCell("rx")}}
    /\ Spend("resets")
    /\ UNCHANGED <<rx, appVars>>
\* A carrier that is gone leaves the verdict to the driver's last step.
ResetReceiver ==
    /\ rx.phase = "established"
    /\ rx' \in {OnRst(rx), Closed(rx)}
    /\ net' \in {net, net \cup {RstCell("tx")}}
    /\ Spend("resets")
    /\ UNCHANGED <<tx, appVars, outbound>>

\* discard_received_cell: the peer has all of this queued cell already.
Overlaps(s, c) == Lt(s.seq, EndOfCell(c)) /\ Lt(c.seq, EndOf(s))
ReceivedCell(t, c) ==
    \/ Leq(EndOfCell(c), t.snd_una)
    \/ LET over == {i \in DOMAIN t.segs : Overlaps(t.segs[i], c)}
       IN  over # {} /\ \A i \in over : t.segs[i].sacked
Received == {c \in outbound : ReceivedCell(tx, c)}

\* The driver's outbound.retain, which comes before every poll and every send.
DiscardReceived ==
    /\ Received # {}
    /\ outbound' = outbound \ Received
    /\ tx' = [tx EXCEPT !.segs = [i \in DOMAIN @ |->
                 [@[i] EXCEPT !.local_pending = /\ tx.segs[i].local_pending
                                                /\ ~\E c \in Received : Overlaps(tx.segs[i], c)]]]
    /\ UNCHANGED <<rx, appVars, net, spent>>

\* poll_transmit_inner: a marked hole first, then a new segment.
Holes == {i \in DOMAIN tx.segs : tx.segs[i].needs_resend /\ ~tx.segs[i].local_pending}
PollReady == tx.phase = "established" /\ Received = {}

Retransmit ==
    /\ PollReady /\ Holes # {}
    /\ LET i == Min(Holes)
           s == tx.segs[i]
       IN  /\ tx' = [tx EXCEPT
                 !.segs[i].needs_resend = FALSE, !.segs[i].local_pending = TRUE,
                 !.probe = {IF p.seq = s.seq THEN [p EXCEPT !.replied = FALSE] ELSE p : p \in @}]
           /\ outbound' = outbound \cup {CellOf(s)}
    /\ UNCHANGED <<rx, appVars, net, spent>>

CreateNextSegment ==
    /\ PollReady /\ Holes = {}
    /\ \/ \E n \in 1..Min({Mss, Room(tx), Len(tx.pending)}) : tx' = WithDataSegment(tx, n)
       \/ /\ tx.pending = <<>> /\ tx.fin_requested /\ ~tx.fin_sent /\ Room(tx) >= 1
          /\ tx' = WithFinSegment(tx)
    /\ outbound' = outbound \cup {CellOf(Last(tx'.segs))}
    /\ UNCHANGED <<rx, appVars, net, spent>>

\* local_handoff: the carrier takes a cell, not always the oldest.
Handoff(c) ==
    /\ Received = {} /\ c \in outbound
    /\ outbound' = outbound \ {c}
    /\ net' = net \cup {c}
    /\ tx' = [tx EXCEPT !.segs = [i \in DOMAIN @ |->
                 IF @[i].local_pending /\ CellOf(@[i]) = c
                 THEN [@[i] EXCEPT !.local_pending = FALSE, !.handed_off = TRUE] ELSE @[i]]]
    /\ UNCHANGED <<rx, appVars, spent>>

\* mark_holes, rack_detect_loss, mark_due_sack_repairs: segments taken for lost.
Suspect(t) ==
    /\ \E lost \in SUBSET Exposed(t) : lost # {} /\ tx' = Resend(t, lost)
    /\ Spend("alarms")

\* The carrier delivers a cell, once or more often, or loses it.
Deliver(c) ==
    /\ c \in net
    /\ \/ net' = net \ {c} /\ UNCHANGED spent
       \/ UNCHANGED net /\ Spend("repeats")
Lose(c) ==
    /\ c \in net /\ net' = net \ {c}
    /\ Spend("losses")
    /\ UNCHANGED <<tx, rx, appVars, outbound>>

ReceiveData(c) ==
    /\ c.kind = "data" /\ Deliver(c)
    /\ \E new \in Kept(rx, c) : rx' = OnData(rx, c, new)
    /\ UNCHANGED <<tx, appVars, outbound>>
ReceiveFin(c) ==
    /\ c.kind = "fin" /\ Deliver(c)
    /\ rx' = OnPeerFin(rx, c)
    /\ UNCHANGED <<tx, appVars, outbound>>
\* The ACK may show that segments are lost (mark_holes, rack_detect_loss).
ReceiveAck(c) ==
    /\ c.kind = "ack"
    /\ LET t == OnAck(tx, c)
       IN  \/ tx' = t /\ Deliver(c)
           \/ /\ tx.phase # "closed" /\ Suspect(t)
              /\ c \in net /\ net' = net \ {c}
    /\ UNCHANGED <<rx, appVars, outbound>>
ReceiveRst(c) ==
    /\ c.kind = "rst" /\ Deliver(c)
    /\ \/ c.to = "rx" /\ rx' = OnRst(rx) /\ UNCHANGED tx
       \/ c.to = "tx" /\ tx' = Closed(tx) /\ UNCHANGED rx
    /\ UNCHANGED <<appVars, outbound>>

\* The blocks an ACK reports: all of them, unless there are more than it has room
\* for next to the one that may repeat what was received twice.
BlockEnds(r) == {n \in DOMAIN r.oo : Plus(n, 1) \notin DOMAIN r.oo}
Reported(r) ==
    IF Cardinality(BlockEnds(r)) < MaxSacks THEN {DOMAIN r.oo} ELSE SUBSET DOMAIN r.oo

\* make_ack; the ACK that is all a lingering driver keeps (completed_close_ack)
\* offers no window.
AckWindow(r) == IF r.phase = "lingering" THEN 0 ELSE Advertised(r)
SendAck ==
    /\ rx.phase \in {"established", "lingering"} /\ rx.ack_pending
    /\ rx' = [rx EXCEPT !.ack_pending = FALSE, !.last_ack_window = AckWindow(rx)]
    /\ \E sacks \in Reported(rx) : net' = net \cup {AckCell(rx.rcv_nxt, AckWindow(rx), sacks)}
    /\ UNCHANGED <<tx, appVars, outbound, spent>>

\* read: the driver moves bytes into the application's channel while it has room.
\* A driver whose engine is closed still does so once before it ends.
Read(n) ==
    /\ rx.phase \in {"established", "closed"}
    /\ n \in 1..Len(rx.read_buf)
    /\ got' = got \o SubSeq(rx.read_buf, 1, n)
    /\ rx' = ReadFrom(rx, n)
    /\ UNCHANGED <<tx, written, outbound, net, spent>>

\* The driver leaves its loop, settles what the application is told and drops the
\* engine, with what the application's channel had no room for: when the engine is
\* closed, or when the peer's end was read and the own sending half is done, which
\* may be any time after.
Settled(r) == SetEnd(r.end, IF IsEof(r) THEN "eof" ELSE "reset")
Retire ==
    /\ \/ /\ rx.phase = "closed"
          /\ rx' = [rx EXCEPT !.phase = "gone", !.end = Settled(rx)]
       \/ /\ rx.phase = "established" /\ IsEof(rx)
          /\ rx' = [rx EXCEPT !.phase = "lingering", !.end = Settled(rx), !.ack_pending = FALSE]
    /\ UNCHANGED <<tx, appVars, outbound, net, spent>>
\* linger_completed ends
LingerOver ==
    /\ rx.phase = "lingering"
    /\ rx' = [rx EXCEPT !.phase = "gone"]
    /\ UNCHANGED <<tx, appVars, outbound, net, spent>>

\* A timer that outlasts a round trip finds nothing on the way or about to leave.
Quiet == net = {} /\ outbound = {} /\ ~rx.ack_pending /\ Holes = {}
Expires == IF Quiet THEN UNCHANGED spent ELSE Spend("alarms")

\* on_timeout, the data RTO: a refused probe is repeated, too many timeouts in
\* a row end the stream, and otherwise the flight is rewound or repaired.
ProbeRefused == tx.rwnd = 0 /\ ProbeHandedOff(tx) /\ \E p \in tx.probe : p.replied
Rto ==
    /\ tx.phase # "closed" /\ Exposed(tx) # {} /\ Expires
    /\ LET t == [tx EXCEPT !.consec_rto = @ + 1]
       IN  \/ /\ ProbeRefused
              /\ tx' = Resend(tx, {1}) /\ UNCHANGED net
           \/ /\ ~ProbeRefused /\ t.consec_rto > MaxRetransmits
              /\ tx' = Closed(t)
              /\ net' \in {net, net \cup {RstCell("rx")}}
           \/ /\ ~ProbeRefused /\ t.consec_rto <= MaxRetransmits /\ Rewinds(t)
              /\ tx' = Requeued(t) /\ UNCHANGED net
           \/ /\ ~ProbeRefused /\ t.consec_rto <= MaxRetransmits /\ ~Rewinds(t)
              /\ \E more \in SUBSET (IF Rewind THEN Exposed(t) ELSE {}) :
                    tx' = Resend(t, more \cup {Min(Exposed(t))})
              /\ UNCHANGED net
    /\ UNCHANGED <<rx, appVars, outbound>>

\* on_timeout, the RACK and SACK-repair timers
RackTimer ==
    /\ tx.phase = "established" /\ Suspect(tx)
    /\ UNCHANGED <<rx, appVars, outbound, net>>

\* on_timeout, the persist timer
PersistProbe ==
    /\ ZeroWindowBlocked(tx) /\ Expires
    /\ tx' = [tx EXCEPT !.force_probe = TRUE]
    /\ UNCHANGED <<rx, appVars, outbound, net>>

\* on_data of the other direction: the window its cell carries grants nothing, but
\* may ask for one probe until an ACK reopens the window.
HintProbe ==
    /\ ZeroWindowBlocked(tx) /\ ~tx.hint_used
    /\ tx' = [tx EXCEPT !.force_probe = TRUE, !.hint_used = TRUE]
    /\ UNCHANGED <<rx, appVars, outbound, net, spent>>

AppNext == Write \/ Finish \/ ResetSender \/ ResetReceiver
           \/ \E n \in 1..RecvWindow : Read(n)
EngineNext == DiscardReceived \/ Retransmit \/ CreateNextSegment \/ SendAck
              \/ Rto \/ RackTimer \/ PersistProbe \/ HintProbe
              \/ Retire \/ LingerOver
CarrierNext ==
    \/ \E c \in outbound : Handoff(c)
    \/ \E c \in net : \/ ReceiveData(c) \/ ReceiveFin(c) \/ ReceiveAck(c)
                      \/ ReceiveRst(c) \/ Lose(c)
Next == AppNext \/ EngineNext \/ CarrierNext
Spec == Init /\ [][Next]_vars

\* Both drivers keep looping, the carrier delivers what it does not lose, timers
\* fire and the reader reads.  Nobody has to write, finish or reset.
Arrive == \E c \in net : ReceiveData(c) \/ ReceiveFin(c) \/ ReceiveAck(c) \/ ReceiveRst(c)
Fairness ==
    /\ WF_vars(DiscardReceived) /\ WF_vars(Retransmit) /\ WF_vars(CreateNextSegment)
    /\ WF_vars(\E c \in outbound : Handoff(c)) /\ WF_vars(Arrive)
    /\ WF_vars(SendAck) /\ WF_vars(\E n \in 1..RecvWindow : Read(n))
    /\ WF_vars(Rto) /\ WF_vars(PersistProbe)
LiveSpec == Spec /\ Fairness

-----------------------------------------------------------------------------
(* Properties.                                                             *)

SegType ==
    [seq : SeqNo, data : Seq(Byte), is_fin : BOOLEAN, sacked : BOOLEAN,
     needs_resend : BOOLEAN, local_pending : BOOLEAN, handed_off : BOOLEAN]
CellType ==
    [kind : {"data", "fin"}, seq : SeqNo, data : Seq(Byte)]
        \cup [kind : {"ack"}, ack : SeqNo, win : 0..RecvWindow, sacks : SUBSET SeqNo]
        \cup [kind : {"rst"}, to : {"tx", "rx"}]

\* Every field keeps its type: in particular no sequence number leaves 0..Modulus-1.
TypeOK ==
    /\ tx \in [phase : {"established", "closed"}, snd_una : SeqNo, snd_nxt : SeqNo,
               pending : Seq(Byte), segs : Seq(SegType), rwnd : 0..RecvWindow,
               probe : SUBSET [seq : SeqNo, replied : BOOLEAN], force_probe : BOOLEAN,
               hint_used : BOOLEAN, consec_rto : 0..(MaxRetransmits + 1), rewind_high : SUBSET SeqNo,
               rewind_fin : BOOLEAN, fin_requested : BOOLEAN, fin_sent : BOOLEAN,
               fin_acked : BOOLEAN]
    /\ rx \in [phase : {"established", "closed", "lingering", "gone"}, rcv_nxt : SeqNo, read_buf : Seq(Byte),
               oo : UNION {[S -> Byte] : S \in SUBSET DOMAIN rx.oo},
               peer_fin : SUBSET SeqNo, eof : BOOLEAN, end : {"open", "eof", "reset"},
               ack_pending : BOOLEAN, last_ack_window : 0..RecvWindow]
    /\ written \in 0..MaxBytes /\ got \in Seq(Byte)
    /\ outbound \subseteq CellType /\ net \subseteq CellType
    /\ DOMAIN spent = DOMAIN Bound
    /\ \A kind \in DOMAIN Bound : spent[kind] \in 0..Bound[kind]

\* A sequence number as a count of bytes since the start.
Offset(n) == Minus(n, Iss)

\* Through partial ACKs, rewinds and late ACKs of rewound flights, every unacked
\* byte sits in the flight or in pending, once, under the sequence number it was
\* written at: the flight runs without a gap from snd_una to snd_nxt, and pending
\* holds what was written from snd_nxt on.
SenderLedger ==
    /\ \A i \in DOMAIN tx.segs :
          LET s == tx.segs[i]
          IN  /\ s.data = [k \in 1..Len(s.data) |-> Offset(s.seq) + k]
              /\ EndOf(s) = IF i = Len(tx.segs) THEN tx.snd_nxt ELSE tx.segs[i + 1].seq
    /\ IF tx.segs = <<>> THEN tx.snd_una = tx.snd_nxt
       ELSE Leq(tx.segs[1].seq, tx.snd_una) /\ Lt(tx.snd_una, EndOf(tx.segs[1]))
    /\ tx.pending = [k \in 1..SaturatingSub(written, Offset(tx.snd_nxt)) |->
                        Offset(tx.snd_nxt) + k]

\* What the sender counts as received the receiver holds: it never takes back a
\* SACKed byte, so the sender may leave a SACKed segment out of every repair.
SackedIsHeld ==
    /\ Offset(tx.snd_una) <= Offset(rx.rcv_nxt)
    /\ \A i \in DOMAIN tx.segs : tx.segs[i].sacked =>
          \A n \in Numbers(tx.segs[i].seq, Span(tx.segs[i])) :
             n \in DOMAIN rx.oo \/ Lt(n, rx.rcv_nxt)

\* create_next_segment computes a probe's room as window - inflight, wrapping:
\* a probe is only forced when nothing is in flight, so this never goes below 0.
ProbeOnlyFromIdle == tx.force_probe => tx.segs = <<>> /\ InFlight(tx) = 0 /\ tx.rwnd = 0

\* is_send_complete after finish: the peer's engine took every byte and the end.
CompleteMeansReceived ==
    tx.fin_requested /\ IsSendComplete(tx) =>
        /\ rx.eof
        /\ got \o rx.read_buf = [i \in 1..written |-> i]

\* A late ACK of a rewound FIN has the sender send a second one, which nobody ever
\* acknowledges.
SecondFin == tx.fin_acked /\ ~IsSendComplete(tx)

\* With fewer losses than the sender has retries, and timers that outlast a round
\* trip, whatever was written before finish reaches the peer's engine to its end: no
\* lost cell or window update leaves both ends waiting.  All of it is read, unless a
\* second FIN has the sender give up and its RST overtakes a slow reader.
AllBytesArrive ==
    tx.fin_requested ~> /\ rx.eof
                        /\ Len(got) + Len(rx.read_buf) = written
                        /\ rx.read_buf = <<>> \/ SecondFin

\* "If a late cumulative ACK reaches that point, the old FIN was accepted and
\* must complete the stream" (engine.rs, rewind_fin).
FinAckedCompletes == tx.fin_acked => IsSendComplete(tx)

\* The abstract state the two engines, the driver and the network stand for.  The
\* application sees the end when the driver is gone and left no reset (pull).
Stream == INSTANCE ByteStream WITH
    input <- [i \in 1..written |-> i], finished <- tx.fin_requested,
    output <- got, ended <- rx.phase \in {"lingering", "gone"} /\ rx.end = "eof",
    dead <- tx.phase = "closed", broken <- rx.phase \in {"closed", "gone"}

\* Whatever the cells go through, the reader gets the written bytes in order, each
\* once; it is told of a clean end only after finish and, unless its engine was
\* reset first, only after the last byte; a dead stream takes no more writes.
ByteStreamSpec == Stream!StreamSpec
=============================================================================
