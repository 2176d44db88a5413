-------------------------------- MODULE Ikcp --------------------------------
(***************************************************************************)
(* ikcp.go: the retransmission protocol that carries a tunnel's data over  *)
(* UDP.  Two control blocks and one direction of data: the sender's half   *)
(* of one (snd_...) and the receiver's half of the other (rcv_...).  What  *)
(* the other halves would add to a segment (una and wnd on a PUSH) is left *)
(* out, for the opposite stream is idle.                                   *)
(*                                                                         *)
(* The network loses, repeats and reorders.  Time is abstracted: a flush   *)
(* may find the timer of any segment in snd_buf expired, or its count of   *)
(* later acks high enough, and sends it again; and it may find the time of *)
(* a window probe come.  The program calls Ikcp_nodelay(kcp, 1, 20, 2, 1), *)
(* so that nocwnd = 1 and the congestion window is never looked at.        *)
(*                                                                         *)
(* Sequence numbers are 32 bits wide and come round.  Here they are        *)
(* naturals, and what the code sees of two of them is their difference     *)
(* modulo 2^32, with a sign (_itimediff).                                  *)
(***************************************************************************)
EXTENDS Integers, Sequences, FiniteSets

CONSTANTS SndWnd, RcvWnd,  \* kcp.snd_wnd, kcp.rcv_wnd (Ikcp_wndsize)
          Half,            \* half of the sequence numbers there are (2^31)
          InitWnd,         \* IKCP_WND_RCV, the sender's first guess of the window
          Sizes,           \* the messages to send: how many fragments each has
          FwdCap, BackCap  \* bounds: segments in flight, each way

ASSUME IkcpAssumption ==
  /\ SndWnd \in Nat \ {0} /\ RcvWnd \in Nat \ {0} /\ InitWnd \in Nat \ {0}
  /\ InitWnd <= RcvWnd
  /\ Sizes \in Seq(1..RcvWnd)   \* a longer message could never be put together
  /\ FwdCap \in Nat /\ BackCap \in Nat
  /\ Half \in Nat /\ 2 * SndWnd + RcvWnd <= Half   \* 128 each in the program

VARIABLES
  stream,     \* history: every piece Ikcp_send was given
  read,       \* history: every piece Ikcp_recv returned
  snd_queue,  \* pieces without a sequence number yet
  snd_buf,    \* segments sent and not acknowledged
  snd_una, snd_nxt,
  rmt_wnd,    \* the receiver's window as the sender last heard
  probing,    \* probe_wait # 0: the timer of the window probe runs
  rcv_nxt, rcv_buf, rcv_queue,
  acklist,    \* sequence numbers to acknowledge
  tell,       \* IKCP_ASK_TELL is set in probe
  fwd, back   \* segments in flight, to the receiver and to the sender

history  == <<stream, read>>
sender   == <<snd_queue, snd_buf, snd_una, snd_nxt, rmt_wnd, probing>>
receiver == <<rcv_nxt, rcv_buf, rcv_queue, acklist, tell>>
vars     == <<history, sender, receiver, fwd, back>>

\* The part of message msg that has frg more parts after it.
Pieces == [msg : Nat, frg : Nat]
Segs   == [sn : Nat, data : Pieces]

Push(s)        == [cmd |-> "PUSH", seg |-> s]
Wask           == [cmd |-> "WASK"]
Ack(sn, una, wnd) == [cmd |-> "ACK", sn |-> sn, una |-> una, wnd |-> wnd]
Wins(una, wnd) == [cmd |-> "WINS", una |-> una, wnd |-> wnd]

\* For a mutant: the low bits subtracted without a sign that comes round.
ItimediffUnsigned(later, earlier) == (later % (2 * Half)) - (earlier % (2 * Half))

\* _itimediff: uint32 numbers are subtracted, the difference is an int32.
Itimediff(later, earlier) ==
  LET d == (later - earlier) % (2 * Half) IN IF d < Half THEN d ELSE d - 2 * Half

Lesser(a, b) == IF a <= b THEN a ELSE b
Least(S)     == CHOOSE x \in S : \A y \in S : x <= y
Sns(buf)     == {s.sn : s \in buf}
DataAt(buf, sn) == (CHOOSE s \in buf : s.sn = sn).data

Init ==
  /\ stream = <<>> /\ read = <<>>
  /\ snd_queue = <<>> /\ snd_buf = {}
  /\ snd_una = 0 /\ snd_nxt = 0
  /\ rmt_wnd = InitWnd /\ probing = FALSE
  /\ rcv_nxt = 0 /\ rcv_buf = {} /\ rcv_queue = <<>>
  /\ acklist = {} /\ tell = FALSE
  /\ fwd = {} /\ back = {}
-----------------------------------------------------------------------------
(***************************************************************************)
(* The network: what is in flight may be lost whenever something is added, *)
(* and may stay when it is delivered.  It does not stay for ever: before   *)
(* the numbers have gone half round, what carries an old one is gone.      *)
(***************************************************************************)

\* What may be left of net and the segments added to it.
Surviving(net, added, cap) ==
  {kept \in SUBSET (net \union added) : Cardinality(kept) <= cap}

Delivered(net, m) == {net, net \ {m}}

\* The numbers a datagram carries.
Numbers(m) == CASE m.cmd = "PUSH" -> {m.seg.sn}
                [] m.cmd = "ACK"  -> {m.sn, m.una}
                [] m.cmd = "WINS" -> {m.una}
                [] m.cmd = "WASK" -> {}

\* n is not half round behind the next number, with room for both windows.
Recent(n, next) == next + SndWnd + RcvWnd <= n + Half

\* What is left of net when next is the next number.
Remembered(net, next) == {m \in net : \A n \in Numbers(m) : Recent(n, next)}
-----------------------------------------------------------------------------
(***************************************************************************)
(* The sender.                                                             *)
(***************************************************************************)

\* A message ends with the piece whose frg is 0.
Last(p) == p.frg = 0

\* How many messages end within the first n pieces, and how many in all.
Ended(pieces, n) == Cardinality({i \in 1..n : Last(pieces[i])})
Count(pieces)    == Ended(pieces, Len(pieces))

Cut(m) == [i \in 1..Sizes[m] |-> [msg |-> m, frg |-> Sizes[m] - i]]

\* Ikcp_send: cut the next message into numbered pieces.
Send ==
  /\ \E m \in DOMAIN Sizes :
       /\ Count(stream) = m - 1
       /\ stream' = stream \o Cut(m)
       /\ snd_queue' = snd_queue \o Cut(m)
  /\ UNCHANGED <<read, snd_buf, snd_una, snd_nxt, rmt_wnd, probing, receiver, fwd, back>>

\* Mutant: the comparison of snd_nxt with the limit off by one.
RoomOffByOne ==
  LET limit == snd_una + Lesser(SndWnd, rmt_wnd)
  IN  Least({n \in 0..Len(snd_queue) :
               n = Len(snd_queue) \/ Itimediff(snd_nxt + n, limit) > 0})

\* How many pieces the window lets out of snd_queue (nocwnd = 1).
Room ==
  LET limit == snd_una + Lesser(SndWnd, rmt_wnd)
  IN  Least({n \in 0..Len(snd_queue) :
               n = Len(snd_queue) \/ Itimediff(snd_nxt + n, limit) >= 0})

Fresh == {[sn |-> snd_nxt + i - 1, data |-> snd_queue[i]] : i \in 1..Room}

\* Mutant: ask once, when the timer is armed, and never again.
MayProbeOnce == IF rmt_wnd = 0 /\ ~ probing THEN {Wask} ELSE {}

\* When the window is closed: arm the timer first, ask when it has expired.
MayProbe == IF rmt_wnd = 0 /\ probing THEN {Wask} ELSE {}

(***************************************************************************)
(* Ikcp_flush, the sender's part.  Which segments of snd_buf are due is    *)
(* left to the network, which loses those that are not; the same goes for  *)
(* a probe.                                                                *)
(***************************************************************************)
FlushData ==
  /\ snd_nxt' = snd_nxt + Room
  /\ fwd' \in Surviving(Remembered(fwd, snd_nxt'),
                       {Push(s) : s \in snd_buf \union Fresh} \union MayProbe, FwdCap)
  /\ back' = Remembered(back, snd_nxt')
  /\ probing' = (rmt_wnd = 0)
  /\ snd_buf' = snd_buf \union Fresh
  /\ snd_queue' = SubSeq(snd_queue, Room + 1, Len(snd_queue))
  /\ UNCHANGED <<history, snd_una, rmt_wnd, receiver>>

\* ikcp_shrink_buf
Shrink(buf) == IF buf = {} THEN snd_nxt ELSE Least(Sns(buf))

\* The number of an acknowledgement is one of those in flight.
InFlight(una, sn) == Itimediff(sn, una) >= 0 /\ Itimediff(sn, snd_nxt) < 0

\* Mutant: take an acknowledgement to cover what came before it.
ParseAckCumulative(buf, una, sn) ==
  IF InFlight(una, sn) THEN {s \in buf : Itimediff(s.sn, sn) > 0} ELSE buf

\* Mutant: una compared without a sign that comes round.
ParseUnaUnsigned(buf, una) == {s \in buf : ItimediffUnsigned(una, s.sn) <= 0}

\* ikcp_parse_una, ikcp_parse_ack
ParseUna(buf, una) == {s \in buf : Itimediff(una, s.sn) <= 0}
ParseAck(buf, una, sn) ==
  IF InFlight(una, sn) THEN {s \in buf : Itimediff(s.sn, sn) # 0} ELSE buf

\* Ikcp_input, of a segment that comes back.
InputAck(m) ==
  /\ m.cmd = "ACK"
  /\ LET buf == ParseUna(snd_buf, m.una)
     IN  snd_buf' = ParseAck(buf, Shrink(buf), m.sn)
  /\ snd_una' = Shrink(snd_buf')

InputWins(m) ==
  /\ m.cmd = "WINS"
  /\ snd_buf' = ParseUna(snd_buf, m.una)
  /\ snd_una' = Shrink(snd_buf')

SenderInput(m) ==
  /\ InputAck(m) \/ InputWins(m)
  /\ rmt_wnd' = m.wnd
  /\ back' \in Delivered(back, m)
  /\ UNCHANGED <<history, snd_queue, snd_nxt, probing, receiver, fwd>>
-----------------------------------------------------------------------------
(***************************************************************************)
(* The receiver.                                                           *)
(***************************************************************************)

(***************************************************************************)
(* Both ikcp_parse_data and Ikcp_recv end by moving what is in order from  *)
(* rcv_buf to rcv_queue, as long as the queue has room.  rcv_buf is a list *)
(* sorted by sn in the code, so the k segments that move are its first.    *)
(***************************************************************************)
MoveInOrder(buf, queue) ==
  \E k \in 0..RcvWnd - Len(queue) :
    /\ \A j \in 0..k - 1 : rcv_nxt + j \in Sns(buf)
    /\ k = RcvWnd - Len(queue) \/ rcv_nxt + k \notin Sns(buf)
    /\ rcv_buf' = {s \in buf : s.sn >= rcv_nxt + k}
    /\ rcv_queue' = queue \o [i \in 1..k |-> DataAt(buf, rcv_nxt + i - 1)]
    /\ rcv_nxt' = rcv_nxt + k

\* ikcp_parse_data: a segment in the window is stored unless it is there already.
ParseData(s) ==
  MoveInOrder(IF s.sn \in Sns(rcv_buf) THEN rcv_buf ELSE rcv_buf \union {s}, rcv_queue)

\* Ikcp_input, of a segment with data: acknowledge, then store, within the window.
InputPush(m) ==
  LET beyond == Itimediff(m.seg.sn, rcv_nxt + RcvWnd) >= 0
      before == Itimediff(m.seg.sn, rcv_nxt) < 0
  IN
  /\ m.cmd = "PUSH"
  /\ \/ beyond /\ UNCHANGED <<acklist, rcv_nxt, rcv_buf, rcv_queue>>
     \/ /\ ~beyond
        /\ acklist' = acklist \union {m.seg.sn}
        /\ IF before THEN UNCHANGED <<rcv_nxt, rcv_buf, rcv_queue>> ELSE ParseData(m.seg)
  /\ fwd' \in Delivered(fwd, m)
  /\ UNCHANGED <<history, sender, tell, back>>

InputWask ==
  /\ Wask \in fwd
  /\ tell' = TRUE
  /\ fwd' \in Delivered(fwd, Wask)
  /\ UNCHANGED <<history, sender, rcv_nxt, rcv_buf, rcv_queue, acklist, back>>

\* Mutant: one place too many.
UnusedOffByOne == IF Len(rcv_queue) <= RcvWnd THEN RcvWnd + 1 - Len(rcv_queue) ELSE 0

\* ikcp_wnd_unused
Unused == IF Len(rcv_queue) < RcvWnd THEN RcvWnd - Len(rcv_queue) ELSE 0

Answers ==
  {Ack(sn, rcv_nxt, Unused) : sn \in acklist}
    \union (IF tell THEN {Wins(rcv_nxt, Unused)} ELSE {})

\* Ikcp_flush, the receiver's part.
FlushAcks ==
  /\ Answers # {}
  /\ back' \in Surviving(back, Answers, BackCap)
  /\ acklist' = {}
  /\ tell' = FALSE
  /\ UNCHANGED <<history, sender, rcv_nxt, rcv_buf, rcv_queue, fwd>>

\* Mutant: frg counted as if it included the piece itself.
CompleteOffByOne == rcv_queue # <<>> /\ Len(rcv_queue) >= rcv_queue[1].frg

\* Ikcp_peeksize: the first message is complete.
Complete == rcv_queue # <<>> /\ Len(rcv_queue) > rcv_queue[1].frg

\* Mutant: go on after the last piece of the message.
TakenAll == Len(rcv_queue)

\* Ikcp_recv takes pieces up to one that is the last of its message.
Taken == Least({n \in 1..Len(rcv_queue) : n = Len(rcv_queue) \/ Last(rcv_queue[n])})

\* Mutant: read the pieces and leave them in the queue.
RecvPeeks ==
  /\ Complete
  /\ read' = read \o SubSeq(rcv_queue, 1, Taken)
  /\ MoveInOrder(rcv_buf, rcv_queue)
  /\ UNCHANGED <<stream, sender, acklist, tell, fwd, back>>

Recv ==
  /\ Complete
  /\ read' = read \o SubSeq(rcv_queue, 1, Taken)
  /\ MoveInOrder(rcv_buf, SubSeq(rcv_queue, Taken + 1, Len(rcv_queue)))
  /\ tell' = (tell \/ (Len(rcv_queue) >= RcvWnd /\ Len(rcv_queue') < RcvWnd))
  /\ UNCHANGED <<stream, sender, acklist, fwd, back>>
-----------------------------------------------------------------------------
Next ==
  \/ Send \/ FlushData \/ (\E m \in back : SenderInput(m))
  \/ (\E m \in fwd : InputPush(m)) \/ InputWask \/ FlushAcks \/ Recv

Spec == Init /\ [][Next]_vars

(***************************************************************************)
(* What is sent again and again arrives some day: the oldest segment of    *)
(* snd_buf, whose timer expires again and again; the probe of a closed     *)
(* window; the receiver's latest answer.  And the reader reads.            *)
(***************************************************************************)
SendOldest   == FlushData /\ snd_buf' # {} /\ \E m \in fwd' : m.cmd = "PUSH" /\ m.seg.sn = Least(Sns(snd_buf'))
InputOldest  == \E m \in fwd : m.cmd = "PUSH" /\ m.seg.sn = snd_una /\ InputPush(m)
SendProbe    == FlushData /\ rmt_wnd = 0 /\ (probing => Wask \in fwd')
SendAnswer   == FlushAcks /\ back' \cap Answers # {}
InputLatest  == \E m \in back : m.una = rcv_nxt /\ m.wnd = Unused /\ SenderInput(m)

Fairness ==
  /\ SF_vars(SendOldest) /\ SF_vars(InputOldest)
  /\ SF_vars(SendProbe)  /\ SF_vars(InputWask)
  /\ SF_vars(SendAnswer) /\ SF_vars(InputLatest)
  /\ WF_vars(Recv)

FairSpec == Spec /\ Fairness
-----------------------------------------------------------------------------
\* What flies each way.
Forward  == [cmd : {"WASK"}] \union [cmd : {"PUSH"}, seg : Segs]
Backward == [cmd : {"ACK"}, sn : Nat, una : Nat, wnd : 0..RcvWnd]
              \union [cmd : {"WINS"}, una : Nat, wnd : 0..RcvWnd]

\* Every variable has its type.
TypeOK ==
  /\ stream \in Seq(Pieces) /\ read \in Seq(Pieces)
  /\ snd_queue \in Seq(Pieces) /\ snd_buf \subseteq Segs
  /\ snd_una \in Nat /\ snd_nxt \in Nat
  /\ rmt_wnd \in 0..RcvWnd /\ probing \in BOOLEAN
  /\ rcv_nxt \in Nat /\ rcv_buf \subseteq Segs /\ rcv_queue \in Seq(Pieces)
  /\ acklist \subseteq Nat /\ tell \in BOOLEAN
  /\ fwd \subseteq Forward /\ back \subseteq Backward

\* No buffer outgrows its window (Ikcp_flush, ikcp_parse_data), whatever stale
\* window or acknowledgement the network delivers late.
WithinWindows ==
  /\ snd_una <= snd_nxt /\ snd_nxt <= snd_una + SndWnd
  /\ Sns(snd_buf) \subseteq snd_una..snd_nxt - 1
  /\ Sns(rcv_buf) \subseteq rcv_nxt..rcv_nxt + RcvWnd - 1
  /\ Len(rcv_queue) <= RcvWnd

\* What was read, and then what waits in rcv_queue, is the beginning of what was
\* sent: nothing missing, repeated or out of order (ikcp_parse_data, Ikcp_recv).
InOrder == read \o rcv_queue = SubSeq(stream, 1, rcv_nxt)

\* The sender forgets a segment only when the receiver has it: an old ack or a
\* selective one never removes what is still to be sent again (ikcp_parse_ack).
NothingLost ==
  \A sn \in 0..snd_nxt - 1 :
    sn \in Sns(snd_buf) \/ sn < rcv_nxt \/ sn \in Sns(rcv_buf)

\* Ikcp_recv hands out whole messages: what was read ends with a last piece.
WholeMessages == read # <<>> => Last(read[Len(read)])

\* Where the k-th message ends.
EndOf(pieces, k) ==
  CHOOSE i \in 1..Len(pieces) : Last(pieces[i]) /\ Ended(pieces, i) = k

\* The messages that were completely sent or read, in order.
Messages(pieces) == [k \in 1..Count(pieces) |-> pieces[EndOf(pieces, k)].msg]

Abstract ==
  INSTANCE Stream WITH Msgs <- DOMAIN Sizes, sent <- Messages(stream), got <- Messages(read)

\* The two control blocks implement a reliable stream of messages: each call of
\* Ikcp_recv returns the next one, once.
IsStream == Abstract!Spec

\* Everything that is sent is read in the end, in spite of losses and of a window
\* that closed: Ikcp_flush sends the oldest segment, or asks for the window, again.
AllRead == []<>(Count(read) = Count(stream))
=============================================================================
