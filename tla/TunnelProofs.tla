---------------------------- MODULE TunnelProofs ----------------------------
(***************************************************************************)
(* How a connection is opened and ended. Two inductive invariants: Opened, *)
(* of the messages that open a connection and have not come yet, and       *)
(* Controlled, of the connections in portMap and of those that are closed; *)
(* and the properties of module Tunnel that follow.                        *)
(***************************************************************************)
EXTENDS TunnelFacts

-----------------------------------------------------------------------------
(***************************************************************************)
(* The opening of a connection.                                            *)
(***************************************************************************)

\* There is at most one MsgTypeSyn of a connection in W.
OneSyn(W) == \A i, j \in 1..Len(W) :
  W[i].type = "syn" /\ W[j].type = "syn" /\ W[i].conn = W[j].conn => i = j

\* A message joins, which is no second MsgTypeSyn.
LEMMA OneSynAppend ==
  ASSUME NEW W \in Seq(Msgs), NEW m \in Msgs, OneSyn(W),
         m.type = "syn" => \A e \in Elems(W) : ~(e.type = "syn" /\ e.conn = m.conn)
  PROVE  OneSyn(Append(W, m))
<1> DEFINE a == Append(W, m)
<1>1. /\ Len(W) \in Nat /\ Len(a) = Len(W) + 1 /\ a[Len(W) + 1] = m
      /\ \A i \in 1..Len(W) : a[i] = W[i]
  BY AppendProperties
<1>2. \A i \in 1..Len(W) : W[i] \in Elems(W)
  BY DEF Elems
<1> HIDE DEF a
<1>3. \A i \in 1..Len(a) : i \in 1..Len(W) \/ i = Len(W) + 1
  BY <1>1
<1>4. ASSUME NEW i \in 1..Len(a), NEW j \in 1..Len(a),
             a[i].type = "syn", a[j].type = "syn", a[i].conn = a[j].conn
      PROVE  i = j
  <2>1. CASE i \in 1..Len(W) /\ j \in 1..Len(W)
    BY <1>1, <1>4, <2>1 DEF OneSyn
  <2>2. CASE i \in 1..Len(W) /\ j = Len(W) + 1
    BY <1>1, <1>2, <1>4, <2>2
  <2>3. CASE j \in 1..Len(W) /\ i = Len(W) + 1
    BY <1>1, <1>2, <1>4, <2>3
  <2> QED BY <1>3, <2>1, <2>2, <2>3
<1> QED BY <1>4 DEF OneSyn, a

\* The first message is taken; if it is a MsgTypeSyn, none of its connection is
\* left.
LEMMA OneSynTail ==
  ASSUME NEW W \in Seq(Msgs), W # <<>>, OneSyn(W)
  PROVE  /\ OneSyn(Tail(W))
         /\ Head(W).type = "syn" =>
              \A e \in Elems(Tail(W)) : ~(e.type = "syn" /\ e.conn = Head(W).conn)
<1> DEFINE t == Tail(W)
<1>1. /\ Len(W) \in Nat /\ Len(W) >= 1 /\ Len(t) = Len(W) - 1 /\ Head(W) = W[1]
      /\ \A i \in 1..Len(t) : t[i] = W[i + 1]
  BY HeadTailProperties
<1> HIDE DEF t
<1>2. \A i \in 1..Len(t) : i + 1 \in 1..Len(W) /\ i + 1 # 1
  BY <1>1
<1>3. 1 \in 1..Len(W)
  BY <1>1
<1>4. ASSUME NEW i \in 1..Len(t), NEW j \in 1..Len(t),
             t[i].type = "syn", t[j].type = "syn", t[i].conn = t[j].conn
      PROVE  i = j
  <2>1. i + 1 = j + 1
    BY <1>1, <1>2, <1>4 DEF OneSyn
  <2> QED BY <2>1
<1>5. ASSUME Head(W).type = "syn", NEW e \in Elems(t), e.type = "syn", e.conn = Head(W).conn
      PROVE  FALSE
  <2>1. PICK i \in 1..Len(t) : e = t[i]
    BY DEF Elems
  <2>2. W[i + 1].type = "syn" /\ W[i + 1].conn = W[1].conn /\ W[1].type = "syn"
    BY <1>1, <1>5, <2>1
  <2> QED BY <1>2, <1>3, <2>2 DEF OneSyn
<1> QED BY <1>4, <1>5 DEF OneSyn, t

\* The last messages are dropped.
LEMMA OneSynPrefix ==
  ASSUME NEW a \in Seq(Msgs), NEW b \in Seq(Msgs), OneSyn(a \o b)
  PROVE  OneSyn(a)
<1> DEFINE w == a \o b
<1>1. \A i \in 1..Len(a) : w[i] = a[i]
  BY ConcatLeft
<1>2. Len(w) = Len(a) + Len(b) /\ Len(a) \in Nat /\ Len(b) \in Nat
  BY Join
<1> HIDE DEF w
<1>3. \A i \in 1..Len(a) : i \in 1..Len(w)
  BY <1>2
<1>4. OneSyn(w)
  BY DEF w
<1> QED BY <1>1, <1>3, <1>4 DEF OneSyn

\* portMap has a connection under no port but its own, and a promise of NewConn
\* waits only as long as its connection is offered.
PortsOwn == \A s \in Sides, c \in Conns : portMap[s][Port[c]] \in {c, NoConn}
AddWaits == \A s \in Sides, c \in Conns :
              conn[s][c].add = "waiting" => conn[s][c].run = "offered"

\* How far the two sides of a connection may be: the proxy side knows it only
\* after the requestor's Run sent MsgTypeSyn; the requestor reads only after
\* the proxy's Run sent MsgTypeSynOk; and data is sent by a reader that was
\* started.
Opening(c) ==
  LET r == conn["requestor"][c]
      p == conn["proxy"][c]
  IN
  /\ p.run # "none" => r.run \in {"loop", "done"}
  /\ r.reader # "off" => p.run \in {"loop", "done"}
  /\ p.reader # "off" => p.run \in {"syn", "loop", "done"}
  /\ r.sent > 0 => r.reader # "off"
  /\ p.sent > 0 => p.reader # "off"

\* What is true of a message s has sent that may open a connection: a
\* MsgTypeSyn is of one the proxy side does not know yet, a MsgTypeSynOk of one
\* whose Run sent it; the port is that of the connection, except in
\* MsgTypeSynErr.
Opens(s, m) ==
  /\ m.type = "syn" => /\ s = "requestor" /\ conn["proxy"][m.conn].run = "none"
                       /\ conn["requestor"][m.conn].run \in {"loop", "done"}
  /\ m.type = "synok" => s = "proxy" /\ conn["proxy"][m.conn].run \in {"loop", "done"}
  /\ m.port = IF m.type = "synerr" THEN Inner[m.conn] ELSE Port[m.conn]

\* What is true of a message that came to c at s: it is of c; no MsgTypeSynErr
\* comes, whose port is the tunnel's index; and MsgTypeSynOk comes to the
\* requestor only.
Arrived(s, c, m) ==
  /\ m.conn = c /\ m.type # "synerr"
  /\ m.type = "synok" => s = "requestor" /\ conn["proxy"][c].run \in {"loop", "done"}

\* The messages a connection holds.
Inside(p) == Elems(p.in) \union Elems(p.rlist) \union Elems(p.w)

\* The inductive invariant of the opening of connections: portMap and the
\* promises, the two sides of a connection, every message that is on its way,
\* and the message RunC holds while it waits for room in an in.
Opened ==
  /\ PortsOwn /\ AddWaits
  /\ \A c \in Conns : Opening(c)
  /\ \A s \in Sides : OneSyn(Sent(s)) /\ \A m \in Elems(Sent(s)) : Opens(s, m)
  /\ \A s \in Sides, c \in Conns : \A m \in Inside(conn[s][c]) : Arrived(s, c, m)
  /\ \A s \in Sides : loop[s].at = "push" => Arrived(s, loop[s].conn, loop[s].msg)

\* What may happen to Run while messages about it are on their way.
RunsOn ==
  \A t \in Sides, d \in Conns :
    conn[t][d].run \in {"loop", "done"} => conn'[t][d].run \in {"loop", "done"}
NoDial == \A d \in Conns : conn["proxy"][d].run = "none" => conn'["proxy"][d].run = "none"

\* Opens of a message that stays on its way stays true.
LEMMA OpensStays ==
  ASSUME RunsOn, NoDial, NEW s \in Sides, NEW m \in Msgs, Opens(s, m)
  PROVE  Opens(s, m)'
<1>1. m.conn \in Conns /\ "proxy" \in Sides /\ "requestor" \in Sides
  BY DEF Msgs, Sides
<1> QED BY <1>1 DEF RunsOn, NoDial, Opens

\* Arrived of a message that has come stays true.
LEMMA ArrivedStays ==
  ASSUME RunsOn, NEW s \in Sides, NEW c \in Conns, NEW m, Arrived(s, c, m)
  PROVE  Arrived(s, c, m)'
  BY DEF RunsOn, Arrived, Sides

\* The elements of what a side has sent are messages.
LEMMA SentMsgs ==
  ASSUME Typed, NEW s \in Sides PROVE Elems(Sent(s)) \subseteq Msgs
<1>1. Sent(s) \in Seq(Msgs)
  BY SentTyped
<1> QED BY <1>1 DEF Elems

\* Nothing is sent or received; RunC does not start to wait to push; a
\* connection holds what it held, or what may have come to it.
SentStays == \A t \in Sides : Sent(t)' = Sent(t)
PushStays == \A t \in Sides : loop'[t].at = "push" => loop'[t] = loop[t]
InsideStays ==
  \A t \in Sides, d \in Conns : \A m \in Inside(conn'[t][d]) :
    m \in Inside(conn[t][d]) \/ Arrived(t, d, m)

\* The parts a step of one connection has to show.
LEMMA OpenedKept ==
  ASSUME Typed, Opened, RunsOn, NoDial,
         PortsOwn', AddWaits', \A d \in Conns : Opening(d)',
         \A s \in Sides :
            /\ OneSyn(Sent(s)')
            /\ \A m \in Elems(Sent(s)') : m \in Elems(Sent(s)) \/ Opens(s, m)',
         InsideStays, PushStays
  PROVE  Opened'
<1>1. \A s \in Sides : \A m \in Elems(Sent(s)') : Opens(s, m)'
  BY OpensStays, SentMsgs DEF Opened
<1>2. \A s \in Sides, c \in Conns : \A m \in Inside(conn'[s][c]) : Arrived(s, c, m)'
  BY ArrivedStays DEF Opened, InsideStays
<1>3. ASSUME NEW s \in Sides, loop'[s].at = "push"
      PROVE  Arrived(s, loop[s].conn, loop[s].msg)'
  <2>1. loop'[s] = loop[s] /\ loop[s].at = "push" /\ loop[s].conn \in Conns
    BY <1>3, StandsAt DEF PushStays
  <2>2. Arrived(s, loop[s].conn, loop[s].msg)
    BY <2>1 DEF Opened
  <2>3. (conn["proxy"][loop[s].conn].run \in {"loop", "done"}) =>
         conn'["proxy"][loop[s].conn].run \in {"loop", "done"}
    BY <2>1 DEF RunsOn, Sides
  <2> QED BY <2>1, <2>2, <2>3 DEF Arrived
<1> QED
  BY <1>1, <1>2, <1>3 DEF Opened, OneSyn, Elems, Inside, Sent

\* One connection has changed, and at most one message was sent.
LEMMA OneKept ==
  ASSUME Typed, Opened, NEW s \in Sides, NEW c \in Conns, Elsewhere(s, c), PushStays,
         PortsOwn', Opening(c)',
         conn'[s][c].add = "waiting" => conn'[s][c].run = "offered",
         conn[s][c].run \in {"loop", "done"} => conn'[s][c].run \in {"loop", "done"},
         s = "proxy" /\ conn[s][c].run = "none" => conn'[s][c].run = "none",
         \A m \in Inside(conn'[s][c]) : m \in Inside(conn[s][c]) \/ Arrived(s, c, m),
         \/ SentStays
         \/ \E m \in Msgs : /\ Queue(s, m) /\ UNCHANGED wire /\ Opens(s, m)'
                            /\ m.type = "syn" => \A e \in Elems(Sent(s)) :
                                                   ~(e.type = "syn" /\ e.conn = m.conn)
  PROVE  Opened'
<1>1. AddWaits' /\ RunsOn /\ NoDial /\ InsideStays
  BY DEF Elsewhere, Opened, AddWaits, RunsOn, NoDial, InsideStays, Sides
<1>2. \A d \in Conns : Opening(d)'
  BY DEF Elsewhere, Opened, Opening, Sides
<1>3. ASSUME NEW t \in Sides
      PROVE  /\ OneSyn(Sent(t)')
             /\ \A m \in Elems(Sent(t)') : m \in Elems(Sent(t)) \/ Opens(t, m)'
  <2>1. CASE Sent(t)' = Sent(t)
    BY <2>1 DEF Opened
  <2>2. CASE Sent(t)' # Sent(t)
    <3>1. PICK m \in Msgs : /\ Queue(s, m) /\ UNCHANGED wire /\ Opens(s, m)'
                            /\ m.type = "syn" => \A e \in Elems(Sent(s)) :
                                                   ~(e.type = "syn" /\ e.conn = m.conn)
      BY <2>2 DEF SentStays
    <3>2. t = s /\ Sent(s)' = Append(Sent(s), m)
      BY <2>2, <3>1, SentQueue
    <3>3. Sent(s) \in Seq(Msgs) /\ OneSyn(Sent(s))
      BY SentTyped DEF Opened
    <3>4. OneSyn(Append(Sent(s), m))
      BY <3>1, <3>3, OneSynAppend
    <3>5. Elems(Append(Sent(s), m)) = Elems(Sent(s)) \union {m}
      BY <3>3, ElemsFacts
    <3> QED BY <3>1, <3>2, <3>4, <3>5
  <2> QED BY <2>1, <2>2
<1> QED
  BY <1>1, <1>2, <1>3, OpenedKept

\* Opening survives when Run goes forward and a reader that runs goes on.
LEMMA OpeningMoves ==
  ASSUME Opened, NEW s \in Sides, NEW c \in Conns, Elsewhere(s, c),
         conn[s][c].run \in {"loop", "done"} => conn'[s][c].run \in {"loop", "done"},
         conn[s][c].run \in {"syn", "loop", "done"} => conn'[s][c].run \in {"syn", "loop", "done"},
         s = "proxy" /\ conn[s][c].run = "none" => conn'[s][c].run = "none",
         conn'[s][c].reader = "off" <=> conn[s][c].reader = "off",
         conn'[s][c].sent = conn[s][c].sent \/ conn[s][c].reader # "off"
  PROVE  Opening(c)'
<1>1. Opening(c)
  BY DEF Opened
<1>2. CASE s = "requestor"
  <2>1. conn'["proxy"][c] = conn["proxy"][c]
    BY <1>2 DEF Elsewhere, Sides
  <2> QED BY <1>1, <1>2, <2>1 DEF Opening
<1>3. CASE s = "proxy"
  <2>1. conn'["requestor"][c] = conn["requestor"][c]
    BY <1>3 DEF Elsewhere, Sides
  <2> QED BY <1>1, <1>3, <2>1 DEF Opening
<1> QED BY <1>2, <1>3 DEF Sides

\* Where a connection is not offered its promise does not wait for RunC.
LEMMA AddOver ==
  ASSUME Opened, NEW s \in Sides, NEW c \in Conns, conn[s][c].run # "offered"
  PROVE  conn[s][c].add # "waiting"
  BY DEF Opened, AddWaits

\* The fields of a message.
LEMMA MsgFields ==
  ASSUME NEW type, NEW c \in Conns, NEW n
  PROVE  LET m == Msg(type, c, n)
         IN  m.type = type /\ m.port = Port[c] /\ m.conn = c /\ m.n = n
  BY DEF Msg

\* Accept and DialOk keep Opened.
LEMMA OfferOpened ==
  ASSUME Typed, Opened, NEW s \in Sides, NEW c \in Conns,
         DialOk(s, c) \/ (s = "requestor" /\ Accept(c))
  PROVE  Opened'
<1>1. Opening(c)'
  BY OfferFacts DEF Elsewhere, SamePipe, SameLoops, Opened, Opening, Sides
<1>2. Inside(conn'[s][c]) = Inside(conn[s][c])
  BY OfferFacts DEF SameQueues, Inside
<1>3. SentStays /\ PushStays /\ PortsOwn'
  BY OfferFacts, SentSame DEF SentStays, PushStays, Opened, PortsOwn
<1> QED
  BY <1>1, <1>2, <1>3, OfferFacts, OneKept

\* SetupHdr and Read keep Opened.
LEMMA ReadOpened ==
  ASSUME Typed, Opened, NEW s \in Sides, NEW c \in Conns, SetupHdr(s, c) \/ Read(s, c)
  PROVE  Opened'
<1>0. /\ Elsewhere(s, c) /\ SameQueues(conn[s][c], conn'[s][c])
      /\ SamePipe(conn[s][c], conn'[s][c]) /\ SameLife(conn[s][c], conn'[s][c])
      /\ conn'[s][c].reader # "off" /\ conn[s][c].reader # "off"
      /\ UNCHANGED <<portMap, wMsg, wire, loop, dying>>
  <2>1. CASE SetupHdr(s, c)
    BY <2>1, SetupHdrFacts
  <2>2. CASE Read(s, c)
    BY <2>2, ReadFacts
  <2> QED BY <2>1, <2>2
<1>1. Opening(c)'
  <2>1. /\ Elsewhere(s, c) /\ conn'[s][c].run = conn[s][c].run
        /\ conn'[s][c].sent = conn[s][c].sent
        /\ conn'[s][c].reader # "off" /\ conn[s][c].reader # "off"
    BY <1>0 DEF SamePipe, SameLife
  <2> QED BY <2>1, OpeningMoves
<1>2. Inside(conn'[s][c]) = Inside(conn[s][c])
  BY <1>0 DEF SameQueues, Inside
<1>3. SentStays /\ PushStays /\ PortsOwn'
  BY <1>0, SentSame DEF SentStays, PushStays, Opened, PortsOwn
<1>4. /\ conn'[s][c].run = conn[s][c].run /\ conn'[s][c].add = conn[s][c].add
      /\ Elsewhere(s, c)
  BY <1>0 DEF SameLife
<1> QED
  BY <1>1, <1>2, <1>3, <1>4, OneKept DEF Opened, AddWaits

\* StartLoops keeps Opened: the proxy's reader starts before MsgTypeSynOk is
\* sent, the requestor's does not.
LEMMA StartLoopsOpened ==
  ASSUME Typed, Opened, NEW s \in Sides, NEW c \in Conns, StartLoops(s, c)
  PROVE  Opened'
<1>1. Opening(c)'
  BY StartLoopsFacts DEF Elsewhere, SamePipe, Opened, Opening, Sides
<1>2. Inside(conn'[s][c]) = Inside(conn[s][c])
  BY StartLoopsFacts DEF SameQueues, Inside
<1>3. SentStays /\ PushStays /\ PortsOwn'
  BY StartLoopsFacts, SentSame DEF SentStays, PushStays, Opened, PortsOwn
<1> QED
  BY <1>1, <1>2, <1>3, StartLoopsFacts, OneKept DEF Opened, AddWaits

\* SendSyn keeps Opened: its MsgTypeSyn is the first of the connection, which
\* the proxy side does not know.
LEMMA SendSynOpened ==
  ASSUME Typed, Opened, NEW s \in Sides, NEW c \in Conns, SendSyn(s, c)
  PROVE  Opened'
<1> DEFINE msg == Msg(IF s = "proxy" THEN "synok" ELSE "syn", c, conn[s][c].sent)
<1>0. PICK m \in Msgs : m = msg
  <2>1. conn[s][c].sent \in Nat
    BY Fields DEF Typed, ConnsOK
  <2> QED BY <2>1, MsgTyped DEF Types
<1>1. Opening(c)'
  <2>1. /\ Elsewhere(s, c) /\ conn[s][c].run = "syn" /\ conn'[s][c].run \in {"loop", "done"}
        /\ conn'[s][c].sent = conn[s][c].sent /\ conn'[s][c].reader = conn[s][c].reader
    BY SendSynFacts DEF SamePipe, SameLoops
  <2> QED BY <2>1, OpeningMoves
<1>2. Inside(conn'[s][c]) = Inside(conn[s][c])
  BY ZenonT(60), SendSynFacts DEF SameQueues, Inside
<1>3. PushStays /\ PortsOwn'
  BY SendSynFacts DEF PushStays, Opened, PortsOwn
<1>4. /\ m.type = IF s = "proxy" THEN "synok" ELSE "syn"
      /\ m.conn = c /\ m.port = Port[c]
  BY <1>0, MsgFields
<1>5. SentStays \/ (Queue(s, m) /\ UNCHANGED wire /\ conn'[s][c].run = "loop")
  BY ZenonT(60), <1>0, SendSynFacts, SentSame DEF SentStays
<1>6. ASSUME conn'[s][c].run = "loop" PROVE Opens(s, m)'
  <2>1. m.type # "synerr"
    BY <1>4
  <2>2. CASE s = "proxy"
    BY <1>4, <1>6, <2>1, <2>2 DEF Opens
  <2>3. CASE s = "requestor"
    <3>1. conn["proxy"][c].run = "none"
      BY ZenonT(60), <2>3, SendSynFacts DEF Opened, Opening
    <3>2. conn'["proxy"][c].run = "none"
      BY <2>3, <3>1, SendSynFacts DEF Elsewhere, Sides
    <3> QED BY <1>4, <1>6, <2>1, <2>3, <3>2 DEF Opens
  <2> QED BY <2>2, <2>3 DEF Sides
<1>7. m.type = "syn" => \A e \in Elems(Sent(s)) : ~(e.type = "syn" /\ e.conn = m.conn)
  <2>1. conn[s][c].run = "syn"
    BY SendSynFacts
  <2>2. m.type = "syn" => s = "requestor"
    BY <1>4 DEF Sides
  <2>3. \A e \in Elems(Sent(s)) : e.type = "syn" => conn["requestor"][e.conn].run \in {"loop", "done"}
    BY DEF Opened, Opens
  <2> QED BY <1>4, <2>1, <2>2, <2>3
<1>8. /\ Elsewhere(s, c) /\ conn[s][c].run = "syn" /\ conn'[s][c].run \in {"loop", "done"}
      /\ conn'[s][c].add # "waiting"
  <2>1. /\ Elsewhere(s, c) /\ conn[s][c].run = "syn" /\ conn'[s][c].run \in {"loop", "done"}
        /\ conn'[s][c].add = conn[s][c].add
    BY SendSynFacts
  <2> QED BY <2>1, AddOver
<1>9. SentStays \/ (Queue(s, m) /\ UNCHANGED wire /\ Opens(s, m)')
  BY <1>5, <1>6
<1> QED
  BY <1>1, <1>2, <1>3, <1>4, <1>7, <1>8, <1>9, OneKept

\* A step of one connection that moves nothing but its loops and what they sent.
LEMMA LoopStepOpened ==
  ASSUME Typed, Opened, NEW s \in Sides, NEW c \in Conns, Elsewhere(s, c),
         UNCHANGED <<portMap, loop>>,
         conn'[s][c].run = conn[s][c].run, conn'[s][c].add = conn[s][c].add,
         conn[s][c].reader # "off" \/ conn'[s][c].sent = conn[s][c].sent,
         conn'[s][c].reader = "off" <=> conn[s][c].reader = "off",
         \A m \in Inside(conn'[s][c]) : m \in Inside(conn[s][c]) \/ Arrived(s, c, m),
         \/ UNCHANGED <<wMsg, wire>>
         \/ \E m \in Msgs : /\ Queue(s, m) /\ UNCHANGED wire
                            /\ m.type \in {"data", "fin"} /\ m.port = Port[m.conn]
  PROVE  Opened'
<1>1. Opening(c)'
  BY OpeningMoves
<1>2. PushStays /\ PortsOwn'
  BY DEF PushStays, Opened, PortsOwn
<1>3. \/ SentStays
      \/ \E m \in Msgs : /\ Queue(s, m) /\ UNCHANGED wire /\ Opens(s, m)'
                         /\ m.type = "syn" => \A e \in Elems(Sent(s)) :
                                                ~(e.type = "syn" /\ e.conn = m.conn)
  <2>1. CASE UNCHANGED <<wMsg, wire>>
    BY <2>1, SentSame DEF SentStays
  <2>2. CASE ~UNCHANGED <<wMsg, wire>>
    <3>1. PICK m \in Msgs : /\ Queue(s, m) /\ UNCHANGED wire
                            /\ m.type \in {"data", "fin"} /\ m.port = Port[m.conn]
      BY <2>2
    <3>2. Opens(s, m)' /\ m.type # "syn"
      BY <3>1 DEF Opens
    <3> QED BY <3>1, <3>2
  <2> QED BY <2>1, <2>2
<1>4. conn[s][c].add = "waiting" => conn[s][c].run = "offered"
  BY DEF Opened, AddWaits
<1> QED
  BY <1>1, <1>2, <1>3, <1>4, OneKept

\* The messages the loops send are those of data and of the end.
LEMMA LoopMsg ==
  ASSUME Typed, NEW s \in Sides, NEW c \in Conns, NEW type \in {"data", "fin"},
         NEW n \in {conn[s][c].sent, conn[s][c].sent + 1}
  PROVE  LET m == Msg(type, c, n)
         IN  m \in Msgs /\ m.type \in {"data", "fin"} /\ m.port = Port[m.conn] /\ m.conn = c
<1>1. n \in Nat
  BY Fields DEF Typed, ConnsOK
<1> QED BY <1>1, MsgTyped, MsgFields DEF Types

\* PushData keeps Opened.
LEMMA PushDataOpened ==
  ASSUME Typed, Opened, NEW s \in Sides, NEW c \in Conns, PushData(s, c)
  PROVE  Opened'
<1>1. /\ Elsewhere(s, c) /\ UNCHANGED <<portMap, loop>>
      /\ conn'[s][c].run = conn[s][c].run /\ conn'[s][c].add = conn[s][c].add
      /\ conn[s][c].reader # "off" /\ conn'[s][c].reader # "off"
  BY PushDataFacts DEF SameLife
<1>2. Inside(conn'[s][c]) = Inside(conn[s][c])
  BY PushDataFacts DEF SameQueues, Inside
<1>3. \/ UNCHANGED <<wMsg, wire>>
      \/ Queue(s, Msg("data", c, conn[s][c].sent + 1)) /\ UNCHANGED wire
      \/ Queue(s, Msg("fin", c, conn[s][c].sent)) /\ UNCHANGED wire
  BY PushDataFacts DEF SendsFin
<1>4. \/ UNCHANGED <<wMsg, wire>>
      \/ \E m \in Msgs : /\ Queue(s, m) /\ UNCHANGED wire
                         /\ m.type \in {"data", "fin"} /\ m.port = Port[m.conn]
  BY ZenonT(60), <1>3, LoopMsg
<1> QED
  BY <1>1, <1>2, <1>4, LoopStepOpened

\* PushFin keeps Opened.
LEMMA PushFinOpened ==
  ASSUME Typed, Opened, NEW s \in Sides, NEW c \in Conns, PushFin(s, c)
  PROVE  Opened'
<1>1. /\ Elsewhere(s, c) /\ UNCHANGED <<portMap, loop>>
      /\ conn'[s][c].run = conn[s][c].run /\ conn'[s][c].add = conn[s][c].add
      /\ conn[s][c].reader # "off" /\ conn'[s][c].reader # "off"
  BY PushFinFacts
<1>2. Inside(conn'[s][c]) = Inside(conn[s][c])
  <2>1. SameQueues(conn[s][c], conn'[s][c])
    BY PushFinFacts
  <2> QED BY <2>1 DEF SameQueues, Inside
<1>3. \/ UNCHANGED <<wMsg, wire>>
      \/ Queue(s, Msg("fin", c, conn[s][c].sent)) /\ UNCHANGED wire
  BY PushFinFacts DEF SendsFin
<1>4. \/ UNCHANGED <<wMsg, wire>>
      \/ \E m \in Msgs : /\ Queue(s, m) /\ UNCHANGED wire
                         /\ m.type \in {"data", "fin"} /\ m.port = Port[m.conn]
  BY <1>3, LoopMsg
<1> QED
  BY <1>1, <1>2, <1>4, LoopStepOpened

\* WriterFin keeps Opened.
LEMMA WriterFinOpened ==
  ASSUME Typed, Opened, NEW s \in Sides, NEW c \in Conns, WriterFin(s, c)
  PROVE  Opened'
<1>1. /\ Elsewhere(s, c) /\ UNCHANGED <<portMap, loop>>
      /\ conn'[s][c].run = conn[s][c].run /\ conn'[s][c].add = conn[s][c].add
      /\ conn'[s][c].reader = conn[s][c].reader /\ conn'[s][c].sent = conn[s][c].sent
  BY WriterFinFacts DEF SamePipe
<1>2. Inside(conn'[s][c]) = Inside(conn[s][c])
  <2>1. SameQueues(conn[s][c], conn'[s][c])
    BY WriterFinFacts
  <2> QED BY <2>1 DEF SameQueues, Inside
<1>3. \/ UNCHANGED <<wMsg, wire>>
      \/ Queue(s, Msg("fin", c, conn[s][c].sent)) /\ UNCHANGED wire
  BY WriterFinFacts DEF SendsFin
<1>4. \/ UNCHANGED <<wMsg, wire>>
      \/ \E m \in Msgs : /\ Queue(s, m) /\ UNCHANGED wire
                         /\ m.type \in {"data", "fin"} /\ m.port = Port[m.conn]
  BY <1>3, LoopMsg
<1> QED
  BY <1>1, <1>2, <1>4, LoopStepOpened

\* The queues of a connection hold messages.
LEMMA QueuesTyped ==
  ASSUME Typed, NEW s \in Sides, NEW c \in Conns
  PROVE  /\ conn[s][c].in \in Seq(Msgs) /\ conn[s][c].rlist \in Seq(Msgs)
         /\ conn[s][c].w \in Seq(Msgs)
  BY Fields DEF Typed, ConnsOK

\* Write keeps Opened.
LEMMA WriteOpened ==
  ASSUME Typed, Opened, NEW s \in Sides, NEW c \in Conns, Write(s, c)
  PROVE  Opened'
<1>1. /\ Elsewhere(s, c) /\ UNCHANGED <<portMap, loop, wMsg, wire>>
      /\ conn'[s][c].run = conn[s][c].run /\ conn'[s][c].add = conn[s][c].add
      /\ conn'[s][c].reader = conn[s][c].reader /\ conn'[s][c].sent = conn[s][c].sent
  BY WriteFacts
<1>2. /\ conn'[s][c].in = conn[s][c].in /\ conn'[s][c].rlist = conn[s][c].rlist
      /\ \/ conn'[s][c].w = conn[s][c].w
         \/ conn[s][c].w # <<>> /\ conn'[s][c].w = Tail(conn[s][c].w)
  BY WriteFacts
<1>3. conn[s][c].w # <<>> => Elems(Tail(conn[s][c].w)) \subseteq Elems(conn[s][c].w)
  BY QueuesTyped, ElemsFacts
<1>4. Inside(conn'[s][c]) \subseteq Inside(conn[s][c])
  BY <1>2, <1>3 DEF Inside
<1> QED
  BY <1>1, <1>4, LoopStepOpened

\* RunTick keeps Opened.
LEMMA RunTickOpened ==
  ASSUME Typed, Opened, NEW s \in Sides, NEW c \in Conns, RunTick(s, c)
  PROVE  Opened'
<1> DEFINE p == conn[s][c]
           q == conn'[s][c]
<1>1. /\ Elsewhere(s, c) /\ UNCHANGED <<portMap, loop, wMsg, wire>>
      /\ q.run = p.run /\ q.add = p.add
      /\ q.reader = p.reader /\ q.sent = p.sent /\ q.in = p.in
  BY RunTickFacts DEF SameLife, SameLoops, SamePipe
<1>2. PICK z \in Seq(Msgs) : q.w = p.w \o z /\ p.rlist = z \o q.rlist
  BY RunTickFacts
<1>3. Elems(q.w) = Elems(p.w) \union Elems(z) /\ Elems(p.rlist) = Elems(z) \union Elems(q.rlist)
  <2>0. Typed'
    BY RunTickTyped
  <2>1. p.w \in Seq(Msgs) /\ q.rlist \in Seq(Msgs)
    <3>1. p.w \in Seq(Msgs)
      BY QueuesTyped
    <3>2. q.rlist \in Seq(Msgs)
      BY <2>0, Fields DEF Typed, ConnsOK
    <3> QED BY <3>1, <3>2
  <2> QED BY <1>2, <2>1, ElemsFacts
<1>4. Inside(q) = Inside(p)
  BY <1>1, <1>3 DEF Inside
<1> QED
  BY <1>1, <1>4, LoopStepOpened

\* The messages of two queues, and of a queue with one more.
LEMMA MsgElems ==
  /\ \A a, b \in Seq(Msgs) : Elems(a \o b) = Elems(a) \union Elems(b)
  /\ \A a \in Seq(Msgs), m \in Msgs : Elems(Append(a, m)) = Elems(a) \union {m}
  BY ElemsFacts

\* RunFor keeps Opened: the requestor's reader starts with a MsgTypeSynOk that
\* came, so that the proxy side has dialled.
LEMMA RunForOpened ==
  ASSUME Typed, Opened, NEW s \in Sides, NEW c \in Conns, RunFor(s, c)
  PROVE  Opened'
<1> DEFINE p == conn[s][c]
           q == conn'[s][c]
<1>1. /\ Elsewhere(s, c) /\ UNCHANGED <<portMap, loop, wMsg, wire>>
      /\ p.run = "loop" /\ q.run \in {"loop", "done"} /\ q.add = p.add /\ q.sent = p.sent
  BY RunForFacts DEF SamePipe
<1>2. q.reader = p.reader \/ (p.in # <<>> /\ Head(p.in).type = "synok" /\ q.reader = "start")
  BY RunForFacts DEF SameLoops
<1>3. /\ p.in \in Seq(Msgs) /\ p.rlist \in Seq(Msgs) /\ p.w \in Seq(Msgs)
      /\ q.rlist \in Seq(Msgs)
  <2>1. Typed'
    BY RunForTyped
  <2>2. q \in Good /\ p \in Good
    BY <2>1 DEF Typed, ConnsOK
  <2> QED BY <2>2, Fields
<1>4. p.in # <<>> => /\ Head(p.in) \in Elems(p.in) /\ Head(p.in) \in Msgs
                     /\ Elems(Tail(p.in)) \subseteq Elems(p.in)
  BY <1>3, ElemsFacts, HeadTailProperties
<1>5. Opening(c)'
  <2>1. CASE q.reader = p.reader
    BY <1>1, <2>1, OpeningMoves
  <2>2. CASE q.reader # p.reader
    <3>1. Head(p.in) \in Inside(p) /\ Head(p.in).type = "synok" /\ q.reader = "start"
      BY <1>2, <1>4, <2>2 DEF Inside
    <3>2. s = "requestor" /\ conn["proxy"][c].run \in {"loop", "done"}
      BY <3>1 DEF Opened, Arrived
    <3>3. conn'["proxy"][c] = conn["proxy"][c]
      BY <1>1, <3>2 DEF Elsewhere, Sides
    <3>4. Opening(c)
      BY DEF Opened
    <3> QED BY <1>1, <3>1, <3>2, <3>3, <3>4 DEF Opening
  <2> QED BY <2>1, <2>2
<1>6. Inside(q) \subseteq Inside(p)
  <2>1. CASE q.in \in {p.in, Tail(p.in)} /\ (q.in = Tail(p.in) => p.in # <<>> \/ q.in = p.in)
             /\ q.w = p.w /\ q.rlist = p.rlist
    BY <1>4, <2>1 DEF Inside
  <2>2. CASE /\ p.in # <<>> /\ q.in = Tail(p.in)
             /\ \E z \in Seq(Msgs) : /\ q.w = p.w \o z
                                     /\ Append(p.rlist, Head(p.in)) = z \o q.rlist
    <3>1. PICK z \in Seq(Msgs) : q.w = p.w \o z /\ Append(p.rlist, Head(p.in)) = z \o q.rlist
      BY <2>2
    <3>2. Elems(q.w) = Elems(p.w) \union Elems(z)
      BY <1>3, <3>1, MsgElems
    <3>3. Elems(Append(p.rlist, Head(p.in))) = Elems(p.rlist) \union {Head(p.in)}
      BY <1>3, <1>4, <2>2, MsgElems
    <3>4. Elems(z \o q.rlist) = Elems(z) \union Elems(q.rlist)
      BY <1>3, <3>1, MsgElems
    <3> QED BY <1>4, <2>2, <3>1, <3>2, <3>3, <3>4 DEF Inside
  <2>3. \/ q.in = p.in /\ q.w = p.w /\ q.rlist = p.rlist
        \/ p.in # <<>> /\ q.in = Tail(p.in) /\ q.w = p.w /\ q.rlist = p.rlist
        \/ /\ p.in # <<>> /\ q.in = Tail(p.in)
           /\ \E z \in Seq(Msgs) : /\ q.w = p.w \o z
                                   /\ Append(p.rlist, Head(p.in)) = z \o q.rlist
    BY RunForFacts DEF SameQueues
  <2> QED BY <2>1, <2>2, <2>3
<1>7. SentStays /\ PushStays /\ PortsOwn' /\ q.add # "waiting"
  <2>1. p.add # "waiting"
    BY <1>1, AddOver
  <2> QED BY <1>1, <2>1, SentSame DEF SentStays, PushStays, Opened, PortsOwn
<1> QED
  BY <1>1, <1>5, <1>6, <1>7, OneKept

\* DialFails keeps Opened.
LEMMA DialFailsOpened ==
  ASSUME Typed, Opened, NEW s \in Sides, NEW c \in Conns, DialFails(s, c)
  PROVE  Opened'
<1>1. /\ Elsewhere(s, c) /\ SameQueues(conn[s][c], conn'[s][c])
      /\ conn[s][c].run = "dialing" /\ conn'[s][c].run = "done"
      /\ conn'[s][c].add = conn[s][c].add /\ UNCHANGED <<portMap, wire>>
      /\ conn'[s][c].reader = conn[s][c].reader /\ conn'[s][c].sent = conn[s][c].sent
      /\ conn'[s][c].add # "waiting"
  <2>1. conn[s][c].run = "dialing" /\ conn'[s][c].add = conn[s][c].add
    BY DialFailsFacts
  <2> QED BY <2>1, AddOver, DialFailsFacts DEF SameLoops, SamePipe
<1>2. Opening(c)'
  BY <1>1, OpeningMoves
<1>3. Inside(conn'[s][c]) = Inside(conn[s][c])
  BY <1>1 DEF SameQueues, Inside
<1>4. PushStays /\ PortsOwn'
  <2>1. UNCHANGED loop \/ loop' = [loop EXCEPT ![s] = Crashed]
    BY DialFailsFacts
  <2>2. PushStays
    BY <2>1 DEF PushStays, Crashed, Typed, LoopsOK
  <2> QED BY <1>1, <2>2 DEF Opened, PortsOwn
<1>5. PICK m \in Msgs : m = SynErr(c)
  BY SynErrTyped
<1>6. m.type = "synerr" /\ m.conn = c /\ m.port = Inner[c]
  BY <1>5 DEF SynErr, Msg
<1>7. SentStays \/ Queue(s, m)
  BY <1>1, <1>5, DialFailsFacts, SentSame DEF SentStays
<1>8. Opens(s, m)'
  BY <1>6 DEF Opens
<1> QED
  BY <1>1, <1>2, <1>3, <1>4, <1>6, <1>7, <1>8, OneKept

\* A promise's answer and end keep Opened.
LEMMA PromiseOpened ==
  ASSUME Typed, Opened, NEW s \in Sides, NEW c \in Conns,
         PromiseEnds(s, c) \/ (Answered(s) /\ loop[s].conn = c)
  PROVE  Opened'
<1>1. /\ Elsewhere(s, c) /\ SameQueues(conn[s][c], conn'[s][c])
      /\ conn'[s][c].run = conn[s][c].run /\ conn'[s][c].add \in {conn[s][c].add, "over"}
      /\ UNCHANGED <<portMap, wMsg, wire>>
      /\ conn'[s][c].reader = conn[s][c].reader /\ conn'[s][c].sent = conn[s][c].sent
  BY PromiseFacts DEF SameLoops, SamePipe
<1>2. Opening(c)'
  BY <1>1, OpeningMoves
<1>3. Inside(conn'[s][c]) = Inside(conn[s][c])
  BY <1>1 DEF SameQueues, Inside
<1>4. PushStays
  <2>1. UNCHANGED loop \/ loop' = [loop EXCEPT ![s] = Select] \/ loop' = [loop EXCEPT ![s] = Crashed]
    BY PromiseFacts
  <2> QED BY <2>1 DEF PushStays, Crashed, Select, Typed, LoopsOK
<1>5. SentStays /\ PortsOwn'
  BY <1>1, SentSame DEF SentStays, Opened, PortsOwn
<1>6. conn'[s][c].add = "waiting" => conn'[s][c].run = "offered"
  BY <1>1 DEF Opened, AddWaits
<1> QED
  BY <1>1, <1>2, <1>3, <1>4, <1>5, <1>6, OneKept

\* AddConn keeps Opened: the port is that of the connection.
LEMMA AddConnOpened ==
  ASSUME Typed, Opened, NEW s \in Sides, NEW c \in Conns, AddConn(s, c)
  PROVE  Opened'
<1>1. /\ Elsewhere(s, c) /\ SameQueues(conn[s][c], conn'[s][c])
      /\ conn'[s][c].run = "init" /\ conn'[s][c].add = "sent"
      /\ conn[s][c].add = "waiting"
      /\ UNCHANGED <<wMsg, wire>>
      /\ conn'[s][c].reader = conn[s][c].reader /\ conn'[s][c].sent = conn[s][c].sent
  BY AddConnFacts DEF SameLoops, SamePipe
<1>2. conn[s][c].run = "offered"
  BY <1>1 DEF Opened, AddWaits
<1>3. Opening(c)'
  BY <1>1, <1>2, OpeningMoves
<1>4. Inside(conn'[s][c]) = Inside(conn[s][c])
  BY <1>1 DEF SameQueues, Inside
<1>5. PushStays
  <2>1. loop' = [loop EXCEPT ![s] = Answering(c, "add")]
    BY AddConnFacts
  <2> QED BY <2>1 DEF PushStays, Answering, Typed, LoopsOK
<1>6. SentStays
  BY <1>1, SentSame DEF SentStays
<1>7. PortsOwn'
  <2>1. portMap' = With(s, c) /\ PortsOK /\ PortsOwn
    BY AddConnFacts DEF Opened, Typed
  <2>2. \A d \in Conns : Port[d] \in Ports
    BY DEF Ports
  <2>3. \A d \in Conns : Port[d] = Port[c] => d = c
    BY TunnelAssumption
  <2> QED BY <2>1, <2>2, <2>3 DEF PortsOwn, PortsOK, With
<1> QED
  BY <1>1, <1>2, <1>3, <1>4, <1>5, <1>6, <1>7, OneKept

\* RemoveConn keeps Opened.
LEMMA RemoveConnOpened ==
  ASSUME Typed, Opened, NEW s \in Sides, NEW c \in Conns, RemoveConn(s, c)
  PROVE  Opened'
<1>1. /\ Elsewhere(s, c)
      /\ conn'[s][c].run = conn[s][c].run /\ conn'[s][c].add = conn[s][c].add
      /\ UNCHANGED <<wMsg, wire>>
      /\ conn'[s][c].reader = conn[s][c].reader /\ conn'[s][c].sent = conn[s][c].sent
  BY RemoveConnFacts DEF SameLoops, SamePipe
<1>2. Opening(c)'
  BY <1>1, OpeningMoves
<1>3. Inside(conn'[s][c]) \subseteq Inside(conn[s][c])
  <2>1. \/ SameQueues(conn[s][c], conn'[s][c])
        \/ conn'[s][c].in = <<>> /\ conn'[s][c].w = <<>> /\ conn'[s][c].rlist = <<>>
    BY RemoveConnFacts
  <2>2. Elems(<<>>) = {}
    BY ElemsFacts
  <2> QED BY <2>1, <2>2 DEF SameQueues, Inside
<1>4. PushStays
  <2>1. loop' = [loop EXCEPT ![s] = Answering(c, "rm")]
    BY RemoveConnFacts
  <2> QED BY <2>1 DEF PushStays, Answering, Typed, LoopsOK
<1>5. SentStays
  BY <1>1, SentSame DEF SentStays
<1>6. PortsOwn'
  <2>1. UNCHANGED portMap \/ portMap' = Without(s, c)
    BY RemoveConnFacts
  <2>2. PortsOK /\ PortsOwn
    BY DEF Opened, Typed
  <2>3. \A d \in Conns : Port[d] \in Ports
    BY DEF Ports
  <2> QED BY <2>1, <2>2, <2>3 DEF PortsOwn, PortsOK, Without
<1>7. conn'[s][c].add = "waiting" => conn'[s][c].run = "offered"
  BY <1>1 DEF Opened, AddWaits
<1> QED
  BY <1>1, <1>2, <1>3, <1>4, <1>5, <1>6, <1>7, OneKept

\* Nothing of the connections changes but killed, and nothing is sent.
LEMMA SameOpened ==
  ASSUME Typed, Opened, PortsOwn', PushStays,
         \A t \in Sides, d \in Conns :
           /\ conn'[t][d].run = conn[t][d].run /\ conn'[t][d].add = conn[t][d].add
           /\ conn'[t][d].reader = conn[t][d].reader /\ conn'[t][d].sent = conn[t][d].sent
           /\ Inside(conn'[t][d]) \subseteq Inside(conn[t][d]),
         \A t \in Sides : /\ OneSyn(Sent(t)')
                          /\ Elems(Sent(t)') \subseteq Elems(Sent(t))
  PROVE  Opened'
<1>1. RunsOn /\ NoDial /\ InsideStays
  BY DEF RunsOn, NoDial, InsideStays, Sides
<1>2. AddWaits'
  BY DEF Opened, AddWaits
<1>3. \A d \in Conns : Opening(d)'
  BY DEF Opened, Opening, Sides
<1> QED
  BY <1>1, <1>2, <1>3, OpenedKept

\* KcpSend keeps Opened.
LEMMA KcpSendOpened ==
  ASSUME Typed, Opened, NEW s \in Sides, KcpSend(s) PROVE Opened'
<1>1. UNCHANGED <<conn, portMap, loop>>
  BY DEF KcpSend
<1>2. PortsOwn' /\ PushStays
  BY <1>1 DEF Opened, PortsOwn, PushStays
<1>3. \A t \in Sides : Sent(t)' = Sent(t) /\ OneSyn(Sent(t))
  BY SentKcpSend DEF Opened
<1> QED
  BY <1>1, <1>2, <1>3, SameOpened

\* DoDying keeps Opened.
LEMMA DoDyingOpened ==
  ASSUME Typed, Opened, NEW s \in Sides, DoDying(s) PROVE Opened'
<1>1. \A t \in Sides, d \in Conns :
           /\ conn'[t][d].run = conn[t][d].run /\ conn'[t][d].add = conn[t][d].add
           /\ conn'[t][d].reader = conn[t][d].reader /\ conn'[t][d].sent = conn[t][d].sent
           /\ SameQueues(conn[t][d], conn'[t][d])
  BY DoDyingFacts DEF SamePipe, SameLoops
<1>2. UNCHANGED <<portMap, wMsg, wire>> /\ loop' = [loop EXCEPT ![s] = Returned]
  BY DoDyingFacts
<1>3. PortsOwn' /\ PushStays
  BY <1>2 DEF Opened, PortsOwn, PushStays, Returned, Typed, LoopsOK
<1>4. \A t \in Sides : Sent(t)' = Sent(t) /\ OneSyn(Sent(t))
  BY <1>2, SentSame DEF Opened
<1>5. \A t \in Sides, d \in Conns : Inside(conn'[t][d]) = Inside(conn[t][d])
  BY <1>1 DEF SameQueues, Inside
<1> QED
  BY <1>1, <1>3, <1>4, <1>5, SameOpened

\* P2pClient.Close keeps Opened, though it drops messages.
LEMMA CloseP2pOpened ==
  ASSUME Typed, Opened, NEW s \in Sides, CloseP2p(s) PROVE Opened'
<1>0. \A t \in Sides, d \in Conns : t # s => conn'[t][d] = conn[t][d]
  BY CloseP2pFacts, Zenon
<1>1. ASSUME NEW t \in Sides, NEW d \in Conns
      PROVE  /\ conn'[t][d].run = conn[t][d].run /\ conn'[t][d].add = conn[t][d].add
             /\ conn'[t][d].reader = conn[t][d].reader /\ conn'[t][d].sent = conn[t][d].sent
             /\ \/ SameQueues(conn[t][d], conn'[t][d])
                \/ conn'[t][d].in = <<>> /\ conn'[t][d].w = <<>> /\ conn'[t][d].rlist = <<>>
  <2>1. CASE t = s
    BY <2>1, CloseP2pFacts DEF SamePipe, SameLoops
  <2>2. CASE t # s
    <3>1. conn'[t][d] = conn[t][d]
      BY <1>0, <2>2
    <3> QED BY <3>1 DEF SameQueues
  <2> QED BY <2>1, <2>2
<1>2. /\ portMap' = [portMap EXCEPT ![s] = [p \in Ports |-> NoConn]]
      /\ loop' = [loop EXCEPT ![s] = Gone]
  BY CloseP2pFacts
<1>3. PortsOwn' /\ PushStays
  <2>1. \A d \in Conns : Port[d] \in Ports
    BY DEF Ports
  <2> QED BY <1>2, <2>1 DEF Opened, PortsOwn, PushStays, Gone, Typed, LoopsOK, PortsOK
<1>4. ASSUME NEW t \in Sides
      PROVE  OneSyn(Sent(t)') /\ Elems(Sent(t)') \subseteq Elems(Sent(t))
  <2>0. OneSyn(Sent(t))
    BY DEF Opened
  <2>1. CASE t = s
    <3>1. Sent(t)' = wire[t] /\ Sent(t) = wire[t] \o wMsg[t]
      BY <2>1, SentCloseP2p
    <3>2. wire[t] \in Seq(Msgs) /\ wMsg[t] \in Seq(Msgs)
      BY SentTyped
    <3>3. OneSyn(wire[t])
      BY <2>0, <3>1, <3>2, OneSynPrefix
    <3>4. Elems(wire[t] \o wMsg[t]) = Elems(wire[t]) \union Elems(wMsg[t])
      BY <3>2, ElemsFacts
    <3> QED BY <3>1, <3>3, <3>4
  <2>2. CASE t # s
    BY <2>0, <2>2, SentCloseP2p
  <2> QED BY <2>1, <2>2
<1>5. \A t \in Sides, d \in Conns : Inside(conn'[t][d]) \subseteq Inside(conn[t][d])
  <2>1. Elems(<<>>) = {}
    BY ElemsFacts
  <2> QED BY <1>1, <2>1 DEF SameQueues, Inside
<1> QED
  BY <1>1, <1>3, <1>4, <1>5, SameOpened

\* PushIn keeps Opened.
LEMMA PushInOpened ==
  ASSUME Typed, Opened, NEW s \in Sides, PushIn(s) PROVE Opened'
<1>1. PICK d \in Conns, m \in Msgs : d = loop[s].conn /\ m = loop[s].msg
  BY PushInFacts
<1>2. /\ Elsewhere(s, d) /\ loop[s].at = "push"
      /\ conn'[s][d].run = conn[s][d].run /\ conn'[s][d].add = conn[s][d].add
      /\ conn'[s][d].reader = conn[s][d].reader /\ conn'[s][d].sent = conn[s][d].sent
      /\ conn'[s][d].in = Append(conn[s][d].in, m) /\ conn'[s][d].rlist = conn[s][d].rlist
      /\ conn'[s][d].w = conn[s][d].w
      /\ loop' = [loop EXCEPT ![s] = Select] /\ UNCHANGED <<portMap, wMsg, wire>>
  BY <1>1, PushInFacts DEF SamePipe, SameLoops, SameLife
<1>3. Opening(d)'
  BY <1>2, OpeningMoves
<1>4. Arrived(s, d, m)
  BY <1>1, <1>2 DEF Opened
<1>5. \A e \in Inside(conn'[s][d]) : e \in Inside(conn[s][d]) \/ Arrived(s, d, e)
  <2>1. Elems(Append(conn[s][d].in, m)) = Elems(conn[s][d].in) \union {m}
    BY QueuesTyped, ElemsFacts
  <2> QED BY <1>2, <1>4, <2>1 DEF Inside
<1>6. SentStays /\ PortsOwn' /\ PushStays
  BY <1>2, SentSame DEF SentStays, Opened, PortsOwn, PushStays, Select, Typed, LoopsOK
<1>7. conn'[s][d].add = "waiting" => conn'[s][d].run = "offered"
  BY <1>2 DEF Opened, AddWaits
<1> QED
  BY <1>2, <1>3, <1>5, <1>6, <1>7, OneKept

\* What RunC receives: the first of what the other side has sent.
LEMMA FirstSent ==
  ASSUME Typed, Opened, NEW s \in Sides, KcpRecv(s)
  PROVE  LET m == Head(wire[Other(s)])
         IN  /\ m \in Elems(Sent(Other(s))) /\ m \in Msgs /\ Opens(Other(s), m)
             /\ OneSyn(Tail(Sent(Other(s))))
             /\ Elems(Tail(Sent(Other(s)))) \subseteq Elems(Sent(Other(s)))
             /\ m.type = "syn" => \A e \in Elems(Tail(Sent(Other(s)))) :
                                     ~(e.type = "syn" /\ e.conn = m.conn)
<1> DEFINE o == Other(s)
           W == Sent(o)
<1>1. o \in Sides
  BY OtherSide
<1>2. W # <<>> /\ Head(W) = Head(wire[o]) /\ W \in Seq(Msgs)
  BY <1>1, SentKcpRecv, SentTyped
<1>3. Elems(W) = {Head(W)} \union Elems(Tail(W))
  BY <1>2, ElemsFacts
<1>4. OneSyn(W) /\ \A e \in Elems(W) : Opens(o, e)
  BY <1>1 DEF Opened
<1>5. Head(W) \in Msgs
  BY <1>2, HeadTailProperties
<1>6. /\ OneSyn(Tail(W))
      /\ Head(W).type = "syn" => \A e \in Elems(Tail(W)) : ~(e.type = "syn" /\ e.conn = Head(W).conn)
  BY <1>2, <1>4, OneSynTail
<1> QED BY <1>2, <1>3, <1>4, <1>5, <1>6

\* KcpRecv keeps Opened: it pushes a message only to the connection it is of,
\* whose port no other has; it starts a dial only of a connection it did not
\* know; and MsgTypeSynErr, whose port is no connection's, is dropped.
LEMMA KcpRecvOpened ==
  ASSUME Typed, Opened, NEW s \in Sides, KcpRecv(s) PROVE Opened'
<1> DEFINE o == Other(s)
<1>0. o \in Sides /\ o # s
  BY OtherSide
<1>1. PICK m \in Msgs : m = Head(wire[o])
  BY FirstSent
<1>2. /\ m \in Elems(Sent(o)) /\ Opens(o, m) /\ OneSyn(Tail(Sent(o)))
      /\ Elems(Tail(Sent(o))) \subseteq Elems(Sent(o))
      /\ m.type = "syn" => \A e \in Elems(Tail(Sent(o))) : ~(e.type = "syn" /\ e.conn = m.conn)
  BY <1>1, FirstSent
<1>3. Sent(o)' = Tail(Sent(o)) /\ Sent(s)' = Sent(s)
  BY SentKcpRecv
<1>4. \A t \in Sides : OneSyn(Sent(t)') /\ Elems(Sent(t)') \subseteq Elems(Sent(t))
  <2>1. \A t \in Sides : t = s \/ t = o
    BY OtherSide DEF Sides, Other
  <2> QED BY <1>2, <1>3, <2>1 DEF Opened
<1>5. m.conn \in Conns /\ UNCHANGED portMap /\ loop[s] = Select
  BY <1>1, KcpRecvFacts
<1>6. PortsOwn'
  BY <1>5 DEF Opened, PortsOwn
<1>7. CASE \E d \in Conns : /\ m.port \in Ports /\ portMap[s][m.port] = d
                            /\ loop' = [loop EXCEPT ![s] = Pushing(d, m)]
                            /\ UNCHANGED conn
  <2>1. PICK d \in Conns : /\ m.port \in Ports /\ portMap[s][m.port] = d
                           /\ loop' = [loop EXCEPT ![s] = Pushing(d, m)] /\ UNCHANGED conn
    BY <1>7
  <2>2. PICK b \in Conns : m.port = Port[b]
    BY <2>1 DEF Ports
  <2>3. m.type # "synerr" /\ m.port = Port[m.conn]
    BY <1>2, <1>5, <2>2, TunnelAssumption DEF Opens
  <2>4. d = m.conn
    <3>1. portMap[s][Port[m.conn]] \in {m.conn, NoConn} /\ d # NoConn
      BY <1>5, TunnelAssumption DEF Opened, PortsOwn
    <3> QED BY <2>1, <2>3, <3>1
  <2>5. Arrived(s, d, m)
    <3>1. o = "proxy" => s = "requestor"
      BY DEF Other, Sides
    <3> QED BY <1>2, <2>3, <2>4, <3>1 DEF Arrived, Opens
  <2>6. RunsOn /\ NoDial /\ AddWaits' /\ InsideStays /\ \A c \in Conns : Opening(c)'
    BY <2>1 DEF RunsOn, NoDial, Opened, AddWaits, InsideStays, Opening
  <2>7. \A t \in Sides : \A e \in Elems(Sent(t)') : Opens(t, e)'
    BY <1>4, <2>1 DEF Opened, Opens
  <2>8. \A t \in Sides, c \in Conns : \A e \in Inside(conn'[t][c]) : Arrived(t, c, e)'
    BY <2>1 DEF Opened, Arrived, Inside
  <2>9. ASSUME NEW t \in Sides, loop'[t].at = "push"
        PROVE  Arrived(t, loop[t].conn, loop[t].msg)'
    <3>1. CASE t = s
      <4>1. loop'[t] = Pushing(d, m)
        BY <2>1, <3>1 DEF Typed, LoopsOK
      <4>2. loop'[t].conn = d /\ loop'[t].msg = m
        BY <4>1 DEF Pushing
      <4>3. conn'["proxy"][d].run = conn["proxy"][d].run
        BY <2>1
      <4> QED BY <2>5, <3>1, <4>2, <4>3 DEF Arrived
    <3>2. CASE t # s
      <4>1. loop'[t] = loop[t]
        BY <2>1, <3>2 DEF Typed, LoopsOK
      <4>2. Arrived(t, loop[t].conn, loop[t].msg)
        BY <2>9, <4>1 DEF Opened
      <4> QED BY <2>1, <4>1, <4>2 DEF Arrived
    <3> QED BY <3>1, <3>2
  <2> QED
    BY <1>4, <1>6, <2>6, <2>7, <2>8, <2>9 DEF Opened, OneSyn, Elems, Inside, Sent
<1>8. CASE /\ m.type = "syn" /\ UNCHANGED loop /\ Elsewhere(s, m.conn)
           /\ SameQueues(conn[s][m.conn], conn'[s][m.conn])
           /\ SamePipe(conn[s][m.conn], conn'[s][m.conn])
           /\ SameLoops(conn[s][m.conn], conn'[s][m.conn])
           /\ conn'[s][m.conn].run = "dialing"
           /\ conn'[s][m.conn].add = conn[s][m.conn].add
  <2> DEFINE c == m.conn
  <2>1. o = "requestor" /\ conn["proxy"][c].run = "none" /\ conn["requestor"][c].run \in {"loop", "done"}
    BY <1>2, <1>8 DEF Opens
  <2>2. s = "proxy"
    BY <2>1 DEF Other, Sides
  <2>3. conn'["requestor"][c] = conn["requestor"][c]
    BY <1>5, <1>8, <2>2 DEF Elsewhere, Sides
  <2>4. /\ conn'[s][c].run = "dialing" /\ conn'[s][c].add = conn[s][c].add
        /\ conn'[s][c].reader = conn[s][c].reader /\ conn'[s][c].sent = conn[s][c].sent
    BY <1>8 DEF SameLoops, SamePipe
  <2>5. RunsOn
    BY <1>8, <2>1, <2>2, <2>4 DEF RunsOn, Elsewhere
  <2>6. conn[s][c].add # "waiting"
    BY <1>5, <2>1, <2>2, AddOver
  <2>7. AddWaits'
    BY <1>8, <2>4, <2>6 DEF AddWaits, Opened, Elsewhere
  <2>8. ASSUME NEW d \in Conns PROVE Opening(d)'
    <3>1. Opening(d) /\ "proxy" \in Sides /\ "requestor" \in Sides
      BY DEF Opened, Sides
    <3>2. CASE d = c
      BY <2>1, <2>2, <2>3, <2>4, <3>1, <3>2 DEF Opening
    <3>3. CASE d # c
      <4>1. conn'["proxy"][d] = conn["proxy"][d] /\ conn'["requestor"][d] = conn["requestor"][d]
        BY <1>8, <3>1, <3>3 DEF Elsewhere
      <4> QED BY <3>1, <4>1 DEF Opening
    <3> QED BY <3>2, <3>3
  <2>9. ASSUME NEW t \in Sides, NEW e \in Elems(Sent(t)') PROVE Opens(t, e)'
    <3>1. e \in Elems(Sent(t)) /\ Opens(t, e) /\ e \in Msgs
      BY <1>4, <2>9, SentMsgs DEF Opened
    <3>2. e.conn \in Conns /\ "proxy" \in Sides /\ "requestor" \in Sides
      BY <3>1 DEF Msgs, Sides
    <3>3. e.type = "syn" => e.conn # c
      <4>1. CASE t = o
        BY <1>2, <1>3, <1>8, <2>9, <4>1
      <4>2. CASE t # o
        BY <2>1, <3>1, <4>2 DEF Opens
      <4> QED BY <4>1, <4>2
    <3>4. e.type = "syn" => conn'["proxy"][e.conn].run = conn["proxy"][e.conn].run
      BY <1>8, <3>2, <3>3 DEF Elsewhere
    <3>5. \A u \in Sides :
            conn[u][e.conn].run \in {"loop", "done"} => conn'[u][e.conn].run \in {"loop", "done"}
      BY <2>5, <3>2 DEF RunsOn
    <3> QED BY <3>1, <3>2, <3>4, <3>5 DEF Opens
  <2>10. InsideStays
    <3>1. Inside(conn'[s][c]) = Inside(conn[s][c])
      BY <1>8 DEF SameQueues, Inside
    <3> QED BY <1>8, <3>1 DEF InsideStays, Elsewhere
  <2>11. \A t \in Sides, d \in Conns : \A e \in Inside(conn'[t][d]) : Arrived(t, d, e)'
    BY <2>5, <2>10, ArrivedStays DEF Opened, InsideStays
  <2>12. ASSUME NEW t \in Sides, loop'[t].at = "push"
         PROVE  Arrived(t, loop[t].conn, loop[t].msg)'
    <3>1. loop' = loop /\ loop[t].conn \in Conns
      BY <1>8, <2>12, StandsAt
    <3>2. Arrived(t, loop[t].conn, loop[t].msg)
      BY <2>12, <3>1 DEF Opened
    <3>3. (conn["proxy"][loop[t].conn].run \in {"loop", "done"}) =>
           conn'["proxy"][loop[t].conn].run \in {"loop", "done"}
      BY <2>5, <3>1 DEF RunsOn, Sides
    <3> QED BY <3>1, <3>2, <3>3 DEF Arrived
  <2> QED
    BY <1>4, <1>6, <2>7, <2>8, <2>9, <2>11, <2>12 DEF Opened, OneSyn, Elems, Inside, Sent
<1>9. CASE UNCHANGED <<conn, loop>>
  <2>1. PushStays
    BY <1>9 DEF PushStays
  <2> QED
    BY <1>4, <1>6, <1>9, <2>1, SameOpened
<1> QED
  BY <1>1, <1>7, <1>8, <1>9, KcpRecvFacts

\* A step that changes nothing but dying keeps Opened.
LEMMA QuitOpened ==
  ASSUME Typed, Opened, UNCHANGED <<conn, portMap, wMsg, wire, loop>> PROVE Opened'
<1>1. PortsOwn' /\ PushStays
  BY DEF Opened, PortsOwn, PushStays
<1>2. \A t \in Sides : Sent(t)' = Sent(t) /\ OneSyn(Sent(t))
  BY SentSame DEF Opened
<1> QED BY <1>1, <1>2, SameOpened

\* Opened is true at first.
LEMMA InitOpened == ASSUME Init PROVE Opened
<1>1. \A s \in Sides, c \in Conns : conn[s][c] = NewP2pConn
  BY DEF Init
<1>2. \A s \in Sides, c \in Conns :
        /\ conn[s][c].run = "none" /\ conn[s][c].add = "none"
        /\ conn[s][c].reader = "off" /\ conn[s][c].sent = 0
        /\ conn[s][c].in = <<>> /\ conn[s][c].w = <<>> /\ conn[s][c].rlist = <<>>
  BY <1>1 DEF NewP2pConn
<1>3. \A s \in Sides : wire[s] = <<>> /\ wMsg[s] = <<>> /\ loop[s] = Select
  BY DEF Init
<1>4. \A s \in Sides : Sent(s) = <<>>
  <2>1. <<>> \in Seq(Msgs)
    OBVIOUS
  <2> QED BY <1>3, <2>1, ConcatEmptySeq DEF Sent
<1>5. Elems(<<>>) = {} /\ OneSyn(<<>>)
  BY ElemsFacts DEF OneSyn
<1>6. PortsOwn
  <2>1. \A c \in Conns : Port[c] \in Ports
    BY DEF Ports
  <2> QED BY <2>1 DEF Init, PortsOwn
<1>7. AddWaits /\ \A c \in Conns : Opening(c)
  BY <1>2 DEF AddWaits, Opening, Sides
<1>8. \A s \in Sides, c \in Conns : Inside(conn[s][c]) = {}
  BY <1>2, <1>5 DEF Inside
<1>9. \A s \in Sides : loop[s].at # "push"
  BY <1>3 DEF Select
<1> QED
  BY <1>4, <1>5, <1>6, <1>7, <1>8, <1>9 DEF Opened

\* Every step keeps Opened.
LEMMA StepOpened == ASSUME Typed, Opened, [Next]_vars PROVE Opened'
<1>1. CASE UNCHANGED vars
  BY <1>1, QuitOpened DEF vars
<1>2. ASSUME NEW c \in Conns, Accept(c) PROVE Opened'
  BY <1>2, OfferOpened DEF Sides
<1>3. ASSUME NEW s \in Sides, RunC(s) \/ Quit(s) \/ CloseP2p(s) PROVE Opened'
  <2>1. ASSUME NEW c \in Conns, AddConn(s, c) \/ RemoveConn(s, c) PROVE Opened'
    BY <2>1, AddConnOpened, RemoveConnOpened
  <2>2. CASE Answered(s)
    <3>1. loop[s].conn \in Conns
      BY <2>2, StandsAt DEF Answered
    <3> QED BY <2>2, <3>1, PromiseOpened
  <2>3. CASE KcpSend(s) \/ KcpRecv(s) \/ PushIn(s) \/ DoDying(s)
    BY <2>3, KcpSendOpened, KcpRecvOpened, PushInOpened, DoDyingOpened
  <2>4. CASE CloseP2p(s)
    BY <2>4, CloseP2pOpened
  <2>5. CASE Quit(s)
    BY <2>5, QuitOpened DEF Quit
  <2> QED BY <1>3, <2>1, <2>2, <2>3, <2>4, <2>5 DEF RunC
<1>4. ASSUME NEW s \in Sides, NEW c \in Conns,
             \/ RunOf(s, c) \/ Read(s, c) \/ Reader(s, c)
             \/ Writer(s, c) \/ Dials(s, c) \/ PromiseEnds(s, c)
      PROVE  Opened'
  <2>1. CASE RunOf(s, c)
    BY <2>1, StartLoopsOpened, SendSynOpened, RunForOpened, RunTickOpened DEF RunOf
  <2>2. CASE Read(s, c) \/ Reader(s, c)
    BY <2>2, ReadOpened, PushDataOpened, PushFinOpened DEF Reader
  <2>3. CASE Writer(s, c)
    BY <2>3, WriteOpened, WriterFinOpened DEF Writer
  <2>4. CASE Dials(s, c) \/ PromiseEnds(s, c)
    BY <2>4, OfferOpened, DialFailsOpened, PromiseOpened DEF Dials
  <2> QED BY <1>4, <2>1, <2>2, <2>3, <2>4
<1> QED
  BY <1>1, <1>2, <1>3, <1>4 DEF Next

\* Opened says that data is sent only after the other side has dialled.
LEMMA ReaderDials ==
  ASSUME Typed, Opened PROVE DataAfterDial
<1>1. ASSUME NEW c \in Conns PROVE
       /\ conn["requestor"][c].reader # "off" => conn["proxy"][c].run \in {"loop", "done"}
       /\ conn["requestor"][c].sent > 0 => conn["requestor"][c].reader # "off"
       /\ conn["proxy"][c].reader # "off" => conn["requestor"][c].run \in {"loop", "done"}
       /\ conn["proxy"][c].sent > 0 => conn["proxy"][c].reader # "off"
  BY DEF Opened, Opening
<1>2. ASSUME NEW s \in Sides, NEW c \in Conns PROVE
       /\ conn[s][c].reader # "off" => conn[Other(s)][c].run \in {"loop", "done"}
       /\ conn[s][c].sent > 0 => conn[s][c].reader # "off"
  BY <1>1 DEF Sides, Other
<1> QED
  BY <1>2 DEF DataAfterDial

\* No data leaves for a connection the other side has not dialled: the
\* requestor's tcpReadLoop waits for MsgTypeSynOk, on every order of the
\* messages and goroutines of any number of connections.
THEOREM DataFollowsDial == Spec => []DataAfterDial
<1>1. Init => Typed /\ Opened
  BY InitTyped, InitOpened
<1>2. (Typed /\ Opened) /\ [Next]_vars => (Typed /\ Opened)'
  <2>1. ASSUME Typed, Opened, [Next]_vars PROVE Typed' /\ Opened'
    BY <2>1, StepTyped, StepOpened
  <2> QED BY <2>1
<1>3. Typed /\ Opened => DataAfterDial
  BY ReaderDials
<1> QED
  BY <1>1, <1>2, <1>3, PTL DEF Spec

-----------------------------------------------------------------------------
(***************************************************************************)
(* The end of a connection.                                                *)
(***************************************************************************)

Started  == {"init", "syn", "loop"}
Ended    == {Gone, Crashed}

\* portMap, Run and Close of one connection: while it runs it is under its
\* port; its loops were started under its port, and it is closed when it is not
\* there any more; what is closed is over and not under its port; when RunC has
\* returned all that is under a port has been killed, and after Close nothing
\* is; and RunC waits to push only to what is under its port.
Control(s, c) ==
  LET p == conn[s][c] IN
  /\ p.run \in Started => Routed(s, c)
  /\ p.writer # "off" => p.closed \/ Routed(s, c)
  /\ p.closed => p.run = "done" /\ ~Routed(s, c)
  /\ loop[s] \in Ended => ~Routed(s, c)
  /\ loop[s] = Returned /\ Routed(s, c) => p.killed
  /\ loop[s].at = "push" /\ loop[s].conn = c => Routed(s, c)

\* Of every connection: the inductive invariant of how connections end.
Controlled == \A s \in Sides, c \in Conns : Control(s, c)

\* The places where RunC may stand, told apart.
LEMMA Stands ==
  /\ Select.at = "select" /\ Returned.at = "returned" /\ Gone.at = "gone" /\ Crashed.at = "crashed"
  /\ Select \notin Ended /\ Select # Returned /\ Returned \notin Ended
  /\ \A c, m : /\ Pushing(c, m).at = "push" /\ Pushing(c, m).conn = c
               /\ Pushing(c, m) \notin Ended /\ Pushing(c, m) # Returned
  /\ \A c, m : /\ Answering(c, m).at = "answer"
               /\ Answering(c, m) \notin Ended /\ Answering(c, m) # Returned
<1>1. /\ Select.at = "select" /\ Returned.at = "returned" /\ Gone.at = "gone" /\ Crashed.at = "crashed"
  BY DEF Select, Returned, Gone, Crashed
<1>2. \A c, m : Pushing(c, m).at = "push" /\ Pushing(c, m).conn = c
  BY DEF Pushing
<1>3. \A c, m : Answering(c, m).at = "answer"
  BY DEF Answering
<1> QED BY <1>1, <1>2, <1>3 DEF Ended

\* RunC stays where it is, returns to its select or gives an answer, or it has
\* ended and stays so.
LoopEases ==
  \A t \in Sides : \/ loop'[t] = loop[t]
                   \/ loop'[t].at \in {"select", "answer"}
                   \/ loop'[t] \in Ended /\ loop[t] \in Ended

\* A step of one connection that leaves portMap alone and does not close it
\* keeps Controlled.
LEMMA ControlMoves ==
  ASSUME Controlled, NEW s \in Sides, NEW c \in Conns, Elsewhere(s, c),
         UNCHANGED portMap, LoopEases,
         conn'[s][c].run \in Started => conn[s][c].run \in Started,
         conn[s][c].run = "done" => conn'[s][c].run = "done",
         conn'[s][c].closed <=> conn[s][c].closed,
         conn[s][c].killed => conn'[s][c].killed,
         conn'[s][c].writer # "off" => conn[s][c].writer # "off" \/ Routed(s, c)
  PROVE  Controlled'
<1>1. \A t \in Sides, d \in Conns : Routed(t, d)' <=> Routed(t, d)
  BY DEF Routed
<1>2. \A t \in Sides, d \in Conns :
        /\ conn'[t][d].run \in Started => conn[t][d].run \in Started
        /\ conn[t][d].run = "done" => conn'[t][d].run = "done"
        /\ conn'[t][d].closed <=> conn[t][d].closed
        /\ conn[t][d].killed => conn'[t][d].killed
        /\ conn'[t][d].writer # "off" => conn[t][d].writer # "off" \/ Routed(t, d)
  BY DEF Elsewhere
<1>3. \A t \in Sides :
        /\ loop'[t] \in Ended => loop[t] \in Ended
        /\ loop'[t] = Returned => loop[t] = Returned
        /\ loop'[t].at = "push" => loop'[t] = loop[t]
  BY Stands DEF LoopEases, Ended
<1> QED
  BY <1>1, <1>2, <1>3 DEF Controlled, Control

\* The steps of Run and of the two loops keep Controlled.
LEMMA LoopsControl ==
  ASSUME Typed, Controlled, NEW s \in Sides, NEW c \in Conns,
         \/ StartLoops(s, c) \/ SendSyn(s, c) \/ RunFor(s, c) \/ RunTick(s, c)
         \/ SetupHdr(s, c) \/ Read(s, c) \/ PushData(s, c) \/ PushFin(s, c)
         \/ Write(s, c) \/ WriterFin(s, c)
  PROVE  Controlled'
<1> DEFINE p == conn[s][c]
           q == conn'[s][c]
           Goal == /\ Elsewhere(s, c) /\ UNCHANGED <<portMap, loop>>
                   /\ q.run \in Started => p.run \in Started
                   /\ p.run = "done" => q.run = "done"
                   /\ q.closed <=> p.closed
                   /\ p.killed => q.killed
                   /\ q.writer # "off" => p.writer # "off" \/ Routed(s, c)
<1>0. SUFFICES Goal
  <2>1. ASSUME Goal PROVE LoopEases
    BY <2>1 DEF LoopEases
  <2> QED BY <2>1, ControlMoves
<1>1. CASE StartLoops(s, c)
  <2>1. /\ Elsewhere(s, c) /\ UNCHANGED <<portMap, loop>> /\ p.run = "init" /\ q.run = "syn"
        /\ q.closed = p.closed /\ q.killed = p.killed
    BY <1>1, StartLoopsFacts
  <2>2. Routed(s, c)
    BY <2>1 DEF Controlled, Control, Started
  <2> QED BY <2>1, <2>2 DEF Started
<1>2. CASE SendSyn(s, c)
  <2>1. /\ Elsewhere(s, c) /\ UNCHANGED <<portMap, loop>> /\ p.run = "syn"
        /\ q.closed = p.closed /\ (q.killed = p.killed \/ q.killed = TRUE)
        /\ q.writer = p.writer
    BY <1>2, SendSynFacts DEF SameLoops
  <2> QED BY <2>1 DEF Started
<1>3. CASE RunFor(s, c)
  <2>1. /\ Elsewhere(s, c) /\ UNCHANGED <<portMap, loop>> /\ p.run = "loop"
        /\ q.closed = p.closed /\ (q.killed = p.killed \/ q.killed = TRUE)
        /\ q.writer = p.writer
    BY <1>3, RunForFacts
  <2> QED BY <2>1 DEF Started
<1>4. CASE RunTick(s, c)
  BY <1>4, RunTickFacts DEF SameLife, SameLoops
<1>a. CASE SetupHdr(s, c)
  BY ZenonT(60), <1>a, SetupHdrFacts DEF SameLife
<1>5. CASE Read(s, c)
  BY ZenonT(60), <1>5, ReadFacts DEF SameLife
<1>6. CASE PushData(s, c)
  BY <1>6, PushDataFacts DEF SameLife
<1>7. CASE PushFin(s, c)
  BY <1>7, PushFinFacts
<1>8. CASE Write(s, c)
  BY <1>8, WriteFacts
<1>9. CASE WriterFin(s, c)
  BY <1>9, WriterFinFacts
<1> QED
  BY <1>1, <1>2, <1>3, <1>4, <1>a, <1>5, <1>6, <1>7, <1>8, <1>9

\* Accept, the dials and the promises keep Controlled.
LEMMA DialsControl ==
  ASSUME Typed, Controlled, NEW s \in Sides, NEW c \in Conns,
         \/ DialOk(s, c) \/ (s = "requestor" /\ Accept(c)) \/ DialFails(s, c)
         \/ PromiseEnds(s, c) \/ (Answered(s) /\ loop[s].conn = c)
  PROVE  Controlled'
<1> DEFINE p == conn[s][c]
           q == conn'[s][c]
           Goal == /\ Elsewhere(s, c) /\ UNCHANGED portMap /\ LoopEases
                   /\ q.run \in Started => p.run \in Started
                   /\ p.run = "done" => q.run = "done"
                   /\ q.closed <=> p.closed
                   /\ p.killed => q.killed
                   /\ q.writer # "off" => p.writer # "off" \/ Routed(s, c)
<1>0. SUFFICES Goal
  BY ControlMoves
<1>1. CASE DialOk(s, c) \/ (s = "requestor" /\ Accept(c))
  <2>1. /\ Elsewhere(s, c) /\ UNCHANGED <<portMap, loop>> /\ p.run # "done" /\ q.run = "offered"
        /\ q.closed = p.closed /\ q.killed = p.killed /\ q.writer = p.writer
    BY <1>1, OfferFacts DEF SameLoops
  <2> QED BY <2>1 DEF Started, LoopEases
<1>2. CASE DialFails(s, c)
  <2>1. /\ Elsewhere(s, c) /\ UNCHANGED portMap /\ q.run = "done"
        /\ q.closed = p.closed /\ q.killed = p.killed /\ q.writer = p.writer
        /\ UNCHANGED loop \/ (loop' = [loop EXCEPT ![s] = Crashed] /\ loop[s] = Gone)
    BY <1>2, DialFailsFacts DEF SameLoops
  <2>2. LoopEases
    BY <2>1 DEF LoopEases, Ended, Typed, LoopsOK
  <2> QED BY <2>1, <2>2 DEF Started
<1>3. CASE PromiseEnds(s, c) \/ (Answered(s) /\ loop[s].conn = c)
  <2>1. /\ Elsewhere(s, c) /\ UNCHANGED portMap /\ q.run = p.run
        /\ q.closed = p.closed /\ q.killed = p.killed /\ q.writer = p.writer
        /\ \/ UNCHANGED loop
           \/ loop' = [loop EXCEPT ![s] = Select]
           \/ loop[s] = Gone /\ loop' = [loop EXCEPT ![s] = Crashed]
    BY <1>3, PromiseFacts DEF SameLoops
  <2>2. LoopEases
    BY <2>1, Stands DEF LoopEases, Ended, Typed, LoopsOK
  <2> QED BY <2>1, <2>2
<1> QED
  BY <1>1, <1>2, <1>3

\* PushIn keeps Controlled: RunC is back in its select.
LEMMA PushInControl ==
  ASSUME Typed, Controlled, NEW s \in Sides, PushIn(s) PROVE Controlled'
<1>1. PICK d \in Conns : d = loop[s].conn
  BY PushInFacts
<1>2. /\ Elsewhere(s, d) /\ UNCHANGED portMap /\ loop' = [loop EXCEPT ![s] = Select]
      /\ conn'[s][d].run = conn[s][d].run /\ conn'[s][d].closed = conn[s][d].closed
      /\ conn'[s][d].killed = conn[s][d].killed /\ conn'[s][d].writer = conn[s][d].writer
  BY <1>1, PushInFacts DEF SameLife, SameLoops
<1>3. LoopEases
  BY <1>2, Stands DEF LoopEases, Typed, LoopsOK
<1> QED
  BY <1>2, <1>3, ControlMoves

\* Steps that touch neither connections, portMap nor RunC keep Controlled.
LEMMA QuietControl ==
  ASSUME Controlled, UNCHANGED <<conn, portMap, loop>> PROVE Controlled'
  BY DEF Controlled, Control, Routed

\* AddConn keeps Controlled: what was under the port can only have been the
\* connection itself.
LEMMA AddConnControl ==
  ASSUME Typed, Opened, Controlled, NEW s \in Sides, NEW c \in Conns, AddConn(s, c)
  PROVE  Controlled'
<1>1. /\ Elsewhere(s, c) /\ portMap' = With(s, c) /\ loop[s] = Select
      /\ loop' = [loop EXCEPT ![s] = Answering(c, "add")]
      /\ conn[s][c].add = "waiting" /\ conn'[s][c].run = "init"
      /\ conn'[s][c].closed = conn[s][c].closed
  BY AddConnFacts
<1>2. conn[s][c].run = "offered"
  BY <1>1 DEF Opened, AddWaits
<1>3. ~conn[s][c].closed
  BY <1>2 DEF Controlled, Control
<1>4. /\ Routed(s, c)'
      /\ \A t \in Sides, d \in Conns : t # s \/ d # c => (Routed(t, d)' <=> Routed(t, d))
  <2>1. \A d \in Conns : Port[d] \in Ports
    BY DEF Ports
  <2>2. \A d \in Conns : Port[d] = Port[c] => d = c
    BY TunnelAssumption
  <2> QED BY <1>1, <2>1, <2>2 DEF Routed, With, Typed, PortsOK
<1>5. /\ loop'[s].at = "answer" /\ loop'[s] \notin Ended /\ loop'[s] # Returned
      /\ \A t \in Sides : t # s => loop'[t] = loop[t]
  BY <1>1, Stands DEF Typed, LoopsOK
<1>6. ASSUME NEW t \in Sides, NEW d \in Conns PROVE Control(t, d)'
  <2>1. CASE t = s /\ d = c
    BY <1>1, <1>3, <1>4, <1>5, <2>1 DEF Control
  <2>2. CASE t = s /\ d # c
    <3>1. conn'[t][d] = conn[t][d] /\ Control(t, d) /\ (Routed(t, d)' <=> Routed(t, d))
      BY <1>1, <1>4, <2>2 DEF Elsewhere, Controlled
    <3> QED BY <1>5, <2>2, <3>1 DEF Control
  <2>3. CASE t # s
    <3>1. /\ conn'[t][d] = conn[t][d] /\ Control(t, d) /\ (Routed(t, d)' <=> Routed(t, d))
          /\ loop'[t] = loop[t]
      BY <1>1, <1>4, <1>5, <2>3 DEF Elsewhere, Controlled
    <3> QED BY <3>1 DEF Control
  <2> QED BY <2>1, <2>2, <2>3
<1> QED
  BY <1>6 DEF Controlled

\* RemoveConn keeps Controlled: it closes the connection that is under the port
\* only when its Run is over.
LEMMA RemoveConnControl ==
  ASSUME Typed, Opened, Controlled, NEW s \in Sides, NEW c \in Conns, RemoveConn(s, c)
  PROVE  Controlled'
<1> DEFINE p == conn[s][c]
           q == conn'[s][c]
<1>1. /\ Elsewhere(s, c) /\ loop[s] = Select /\ loop' = [loop EXCEPT ![s] = Answering(c, "rm")]
      /\ q.run = p.run /\ q.writer = p.writer
      /\ \/ /\ portMap[s][Port[c]] = NoConn /\ UNCHANGED portMap
            /\ q.closed = p.closed /\ q.killed = p.killed
         \/ portMap' = Without(s, c) /\ p.run = "done" /\ q.closed = TRUE
  BY RemoveConnFacts DEF SameLoops
<1>2. \A d \in Conns : Port[d] \in Ports /\ d # NoConn /\ (Port[d] = Port[c] => d = c)
  BY TunnelAssumption DEF Ports
<1>3. /\ ~Routed(s, c)'
      /\ \A t \in Sides, d \in Conns : t # s \/ d # c => (Routed(t, d)' <=> Routed(t, d))
  <2>1. CASE portMap' = Without(s, c)
    BY <1>2, <2>1 DEF Routed, Without, Typed, PortsOK
  <2>2. CASE portMap[s][Port[c]] = NoConn /\ UNCHANGED portMap
    BY <1>2, <2>2 DEF Routed
  <2> QED BY <1>1, <2>1, <2>2
<1>5. /\ loop'[s].at = "answer" /\ loop'[s] \notin Ended /\ loop'[s] # Returned
      /\ \A t \in Sides : t # s => loop'[t] = loop[t]
  BY <1>1, Stands DEF Typed, LoopsOK
<1>6. ASSUME NEW t \in Sides, NEW d \in Conns PROVE Control(t, d)'
  <2>1. CASE t = s /\ d = c
    <3>1. CASE portMap[s][Port[c]] = NoConn /\ q.closed = p.closed
      <4>1. ~Routed(s, c)
        BY <1>2, <3>1 DEF Routed
      <4>2. Control(s, c)
        BY DEF Controlled
      <4> QED BY <1>1, <1>3, <1>5, <2>1, <3>1, <4>1, <4>2 DEF Control
    <3>2. CASE p.run = "done" /\ q.closed = TRUE
      BY <1>1, <1>3, <1>5, <2>1, <3>2 DEF Control, Started
    <3> QED BY <1>1, <3>1, <3>2
  <2>2. CASE t = s /\ d # c
    <3>1. conn'[t][d] = conn[t][d] /\ Control(t, d) /\ (Routed(t, d)' <=> Routed(t, d))
      BY <1>1, <1>3, <2>2 DEF Elsewhere, Controlled
    <3> QED BY <1>5, <2>2, <3>1 DEF Control
  <2>3. CASE t # s
    <3>1. /\ conn'[t][d] = conn[t][d] /\ Control(t, d) /\ (Routed(t, d)' <=> Routed(t, d))
          /\ loop'[t] = loop[t]
      BY <1>1, <1>3, <1>5, <2>3 DEF Elsewhere, Controlled
    <3> QED BY <3>1 DEF Control
  <2> QED BY <2>1, <2>2, <2>3
<1> QED
  BY <1>6 DEF Controlled

\* DoDying keeps Controlled: it kills all that is under a port.
LEMMA DoDyingControl ==
  ASSUME Typed, Controlled, NEW s \in Sides, DoDying(s) PROVE Controlled'
<1>1. \A t \in Sides, d \in Conns :
        /\ conn'[t][d].run = conn[t][d].run /\ conn'[t][d].closed = conn[t][d].closed
        /\ conn'[t][d].writer = conn[t][d].writer
        /\ conn'[t][d].killed <=> (conn[t][d].killed \/ (t = s /\ Routed(s, d)))
  BY DoDyingFacts DEF SameLoops
<1>2. UNCHANGED portMap /\ loop' = [loop EXCEPT ![s] = Returned]
  BY DoDyingFacts
<1>3. \A t \in Sides, d \in Conns : Routed(t, d)' <=> Routed(t, d)
  BY <1>2 DEF Routed
<1>4. loop'[s] = Returned /\ \A t \in Sides : t # s => loop'[t] = loop[t]
  BY <1>2 DEF Typed, LoopsOK
<1>5. ASSUME NEW t \in Sides, NEW d \in Conns PROVE Control(t, d)'
  <2>1. Control(t, d)
    BY DEF Controlled
  <2>2. CASE t = s
    <3>1. conn'[t][d].killed <=> (conn[t][d].killed \/ Routed(t, d))
      BY <1>1, <2>2
    <3>2. /\ conn'[t][d].run = conn[t][d].run /\ conn'[t][d].closed = conn[t][d].closed
          /\ conn'[t][d].writer = conn[t][d].writer /\ (Routed(t, d)' <=> Routed(t, d))
          /\ loop'[t] = Returned
      BY <1>1, <1>3, <1>4, <2>2
    <3> QED BY <2>1, <3>1, <3>2, Stands DEF Control
  <2>3. CASE t # s
    <3>1. /\ conn'[t][d].run = conn[t][d].run /\ conn'[t][d].closed = conn[t][d].closed
          /\ conn'[t][d].writer = conn[t][d].writer /\ (Routed(t, d)' <=> Routed(t, d))
          /\ loop'[t] = loop[t] /\ (conn'[t][d].killed <=> conn[t][d].killed)
      BY <1>1, <1>3, <1>4, <2>3
    <3> QED BY <2>1, <3>1 DEF Control
  <2> QED BY <2>2, <2>3
<1> QED
  BY <1>5 DEF Controlled

\* P2pClient.Close keeps Controlled: it waits for every Run, and no port is
\* left.
LEMMA CloseP2pControl ==
  ASSUME Typed, Controlled, NEW s \in Sides, CloseP2p(s) PROVE Controlled'
<1>1. \A d \in Conns :
        /\ conn'[s][d].run = conn[s][d].run /\ conn'[s][d].writer = conn[s][d].writer
        /\ Routed(s, d) => conn[s][d].run = "done" /\ conn'[s][d].closed = TRUE
        /\ ~Routed(s, d) => conn'[s][d].closed = conn[s][d].closed
  BY CloseP2pFacts DEF SameLoops
<1>2. \A t \in Sides, d \in Conns : t # s => conn'[t][d] = conn[t][d]
  BY CloseP2pFacts, Zenon
<1>3. /\ portMap' = [portMap EXCEPT ![s] = [p \in Ports |-> NoConn]]
      /\ loop' = [loop EXCEPT ![s] = Gone]
  BY CloseP2pFacts
<1>4. /\ loop'[s] = Gone /\ \A t \in Sides : t # s => loop'[t] = loop[t]
      /\ \A d \in Conns : ~Routed(s, d)'
      /\ \A t \in Sides, d \in Conns : t # s => (Routed(t, d)' <=> Routed(t, d))
  <2>1. \A d \in Conns : Port[d] \in Ports /\ d # NoConn
    BY TunnelAssumption DEF Ports
  <2> QED BY <1>3, <2>1 DEF Routed, Typed, LoopsOK, PortsOK
<1>5. ASSUME NEW t \in Sides, NEW d \in Conns PROVE Control(t, d)'
  <2>1. Control(t, d)
    BY DEF Controlled
  <2>2. CASE t = s
    <3>1. /\ conn'[t][d].run = conn[t][d].run /\ conn'[t][d].writer = conn[t][d].writer
          /\ Routed(t, d) => conn[t][d].run = "done" /\ conn'[t][d].closed = TRUE
          /\ ~Routed(t, d) => conn'[t][d].closed = conn[t][d].closed
          /\ loop'[t] = Gone /\ ~Routed(t, d)'
      BY <1>1, <1>4, <2>2
    <3> QED BY <2>1, <3>1, Stands DEF Control, Started
  <2>3. CASE t # s
    <3>1. /\ conn'[t][d] = conn[t][d] /\ (Routed(t, d)' <=> Routed(t, d))
          /\ loop'[t] = loop[t]
      BY <1>2, <1>4, <2>3
    <3> QED BY <2>1, <3>1 DEF Control
  <2> QED BY <2>2, <2>3
<1> QED
  BY <1>5 DEF Controlled

\* KcpRecv keeps Controlled: RunC takes up what portMap has under the port of
\* the message.
LEMMA KcpRecvControl ==
  ASSUME Typed, Opened, Controlled, NEW s \in Sides, KcpRecv(s) PROVE Controlled'
<1>1. PICK m \in Msgs : m = Head(wire[Other(s)])
  BY FirstSent
<1>2. m.conn \in Conns /\ UNCHANGED portMap /\ loop[s] = Select
  BY <1>1, KcpRecvFacts
<1>3. CASE \E d \in Conns : /\ m.port \in Ports /\ portMap[s][m.port] = d
                            /\ loop' = [loop EXCEPT ![s] = Pushing(d, m)]
                            /\ UNCHANGED conn
  <2>1. PICK d \in Conns : /\ m.port \in Ports /\ portMap[s][m.port] = d
                           /\ loop' = [loop EXCEPT ![s] = Pushing(d, m)]
                           /\ UNCHANGED conn
    BY <1>3
  <2>2. Routed(s, d)
    <3>1. PICK e \in Conns : m.port = Port[e]
      BY <2>1 DEF Ports
    <3>2. d = e
      BY <2>1, <3>1, TunnelAssumption DEF Opened, PortsOwn
    <3> QED BY <2>1, <3>1, <3>2 DEF Routed
  <2>3. /\ loop'[s] \notin Ended /\ loop'[s] # Returned /\ loop'[s].conn = d
        /\ \A t \in Sides : t # s => loop'[t] = loop[t]
    BY <2>1, Stands DEF Typed, LoopsOK
  <2>4. \A t \in Sides, e \in Conns : Routed(t, e)' <=> Routed(t, e)
    BY <1>2 DEF Routed
  <2> QED BY <2>1, <2>2, <2>3, <2>4 DEF Controlled, Control
<1>4. CASE /\ m.type = "syn" /\ UNCHANGED loop /\ Elsewhere(s, m.conn)
           /\ SameLoops(conn[s][m.conn], conn'[s][m.conn])
           /\ conn'[s][m.conn].run = "dialing"
           /\ conn'[s][m.conn].closed = conn[s][m.conn].closed
           /\ conn'[s][m.conn].killed = conn[s][m.conn].killed
  <2>1. Opens(Other(s), m)
    BY <1>1, FirstSent
  <2>2. s = "proxy"
    BY <1>4, <2>1 DEF Opens, Other, Sides
  <2>3. conn[s][m.conn].run = "none"
    BY <1>4, <2>1, <2>2 DEF Opens
  <2>4. LoopEases
    BY <1>4 DEF LoopEases
  <2> QED
    BY <1>2, <1>4, <2>3, <2>4, ControlMoves DEF Started, SameLoops
<1>5. CASE UNCHANGED <<conn, loop>>
  BY <1>2, <1>5, QuietControl
<1> QED
  BY <1>1, <1>3, <1>4, <1>5, KcpRecvFacts

\* Controlled is true at first.
LEMMA InitControl == ASSUME Init PROVE Controlled
<1>1. \A s \in Sides, c \in Conns :
        /\ conn[s][c].run = "none" /\ conn[s][c].writer = "off" /\ ~conn[s][c].closed
        /\ loop[s] = Select
  BY DEF Init, NewP2pConn
<1> QED
  BY <1>1, Stands DEF Controlled, Control, Started

\* Every step keeps Controlled.
LEMMA StepControl == ASSUME Typed, Opened, Controlled, [Next]_vars PROVE Controlled'
<1>1. CASE UNCHANGED vars
  BY <1>1, QuietControl DEF vars
<1>2. ASSUME NEW c \in Conns, Accept(c) PROVE Controlled'
  BY <1>2, DialsControl DEF Sides
<1>3. ASSUME NEW s \in Sides, RunC(s) \/ Quit(s) \/ CloseP2p(s) PROVE Controlled'
  <2>1. ASSUME NEW c \in Conns, AddConn(s, c) \/ RemoveConn(s, c) PROVE Controlled'
    BY <2>1, AddConnControl, RemoveConnControl
  <2>2. CASE Answered(s)
    <3>1. loop[s].conn \in Conns
      BY <2>2, StandsAt DEF Answered
    <3> QED BY <2>2, <3>1, DialsControl
  <2>3. CASE KcpRecv(s) \/ PushIn(s) \/ DoDying(s) \/ CloseP2p(s)
    BY <2>3, KcpRecvControl, PushInControl, DoDyingControl, CloseP2pControl
  <2>4. CASE KcpSend(s) \/ Quit(s)
    BY <2>4, QuietControl DEF KcpSend, Quit
  <2> QED BY <1>3, <2>1, <2>2, <2>3, <2>4 DEF RunC
<1>4. ASSUME NEW s \in Sides, NEW c \in Conns,
             \/ RunOf(s, c) \/ Read(s, c) \/ Reader(s, c)
             \/ Writer(s, c) \/ Dials(s, c) \/ PromiseEnds(s, c)
      PROVE  Controlled'
  <2>1. CASE Dials(s, c) \/ PromiseEnds(s, c)
    BY <2>1, DialsControl DEF Dials
  <2>2. CASE RunOf(s, c) \/ Read(s, c) \/ Reader(s, c) \/ Writer(s, c)
    BY <2>2, LoopsControl DEF RunOf, Reader, Writer
  <2> QED BY <1>4, <2>1, <2>2
<1> QED
  BY <1>1, <1>2, <1>3, <1>4 DEF Next

\* Types, opening and ending of connections hold in every state.
LEMMA ControlHolds == Spec => [](Typed /\ Opened /\ Controlled)
<1>1. Init => Typed /\ Opened /\ Controlled
  BY InitTyped, InitOpened, InitControl
<1>2. (Typed /\ Opened /\ Controlled) /\ [Next]_vars => (Typed /\ Opened /\ Controlled)'
  <2>1. ASSUME Typed, Opened, Controlled, [Next]_vars PROVE Typed' /\ Opened' /\ Controlled'
    BY <2>1, StepTyped, StepOpened, StepControl
  <2> QED BY <2>1
<1> QED
  BY <1>1, <1>2, PTL DEF Spec

\* P2pClient never sends to the closed in of a connection, which would panic:
\* neither from portMap, nor in the push it already waits in; and what is
\* closed is run no more.
THEOREM NeverSendsToClosed == Spec => []NoSendToClosed
<1>1. Typed /\ Opened /\ Controlled => NoSendToClosed
  BY DEF Controlled, Control, NoSendToClosed, Routed
<1> QED
  BY <1>1, ControlHolds, PTL

\* While its P2pClient runs, a connection that runs is the one under its port.
THEOREM RunsUnderItsPort == Spec => []RunningIsRouted
<1>1. Typed /\ Opened /\ Controlled => RunningIsRouted
  BY DEF Controlled, Control, RunningIsRouted, Routed, Started
<1> QED
  BY <1>1, ControlHolds, PTL

\* When RunC has returned every connection in portMap has been killed, so that
\* Close will find its Run over; and after Close no connection that had been
\* started is open.
THEOREM ClosesAll == Spec => []AllClosed
<1>1. Typed /\ Opened /\ Controlled => AllClosed
  BY DEF Controlled, Control, AllClosed, Routed, Listed, Ended
<1> QED
  BY <1>1, ControlHolds, PTL
=============================================================================
