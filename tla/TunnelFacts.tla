----------------------------- MODULE TunnelFacts -----------------------------
(***************************************************************************)
(* Types, and what every step of the tunnel does: that all of Tunnel's     *)
(* variables keep their types, for any number of connections and any       *)
(* capacities, and for each action the facts about the connection it is of *)
(* that the proofs of the other properties rest on.                        *)
(***************************************************************************)
EXTENDS Tunnel, SequenceTheorems, TLAPS

-----------------------------------------------------------------------------
(***************************************************************************)
(* Types.  TypeOK is inductive as it stands; Typed says the same in parts, *)
(* and the lemmas say of every action that it keeps them.                  *)
(***************************************************************************)

\* The bounds of a connection's queues: the channels in and wMsg, and rlist,
\* whose overflow ends the connection.
Fits(p) == Len(p.in) <= InCap /\ Len(p.w) <= WCap /\ Len(p.rlist) <= RMax + 1
Good == {p \in P2pConns : Fits(p)}
ConnsOK == conn \in [Sides -> [Conns -> Good]]
PortsOK == portMap \in [Sides -> [Ports -> Conns \union {NoConn}]]
QueuesOK == /\ wMsg \in [Sides -> Seq(Msgs)] /\ wire \in [Sides -> Seq(Msgs)]
            /\ \A s \in Sides : Len(wMsg[s]) <= QCap

\* Where RunC may stand.
Standing(l) ==
  \/ l \in {Select, Returned, Gone, Crashed}
  \/ /\ l.at = "push" /\ l.conn \in Conns /\ l.msg \in Msgs
     /\ l = Pushing(l.conn, l.msg)
  \/ /\ l.at = "answer" /\ l.conn \in Conns /\ l.promise \in {"add", "rm"}
     /\ l = Answering(l.conn, l.promise)
LoopsOK == loop = [s \in Sides |-> loop[s]] /\ \A s \in Sides : Standing(loop[s])
DyingOK == dying \in [Sides -> BOOLEAN]

\* TypeOK as an induction needs it: the same types and bounds, one part for
\* each kind of variable, with loop known to be a function of the sides.
Typed == ConnsOK /\ PortsOK /\ QueuesOK /\ LoopsOK /\ DyingOK

\* Typed says what TypeOK says.
LEMMA TypedTypes == ASSUME Typed PROVE TypeOK
<1>1. conn \in [Sides -> [Conns -> P2pConns]]
  BY DEF Typed, ConnsOK, Good
<1>2. \A s \in Sides, c \in Conns : Fits(conn[s][c])
  BY DEF Typed, ConnsOK, Good
<1> QED
  BY <1>1, <1>2 DEF Typed, PortsOK, QueuesOK, LoopsOK, Standing, DyingOK, Fits, TypeOK

\* The messages a connection sends are messages.
LEMMA MsgTyped ==
  ASSUME NEW c \in Conns, NEW n \in Nat, NEW type \in Types
  PROVE  Msg(type, c, n) \in Msgs
  BY TunnelAssumption DEF Msg, Msgs

\* So is the MsgTypeSynErr of a dial that failed.
LEMMA SynErrTyped == ASSUME NEW c \in Conns PROVE SynErr(c) \in Msgs
  BY TunnelAssumption DEF SynErr, Msg, Msgs, Types

\* Pushing and answering are places RunC can stand.
LEMMA Places ==
  /\ \A c \in Conns, m \in Msgs : Standing(Pushing(c, m))
  /\ \A c \in Conns, pr \in {"add", "rm"} : Standing(Answering(c, pr))
  /\ Standing(Select) /\ Standing(Returned) /\ Standing(Gone) /\ Standing(Crashed)
  BY DEF Standing, Pushing, Answering

\* A connection is replaced by one of its type: conn keeps its type, and only
\* this connection changes.
LEMMA PutConns ==
  ASSUME ConnsOK, NEW s \in Sides, NEW c \in Conns, NEW q \in Good, Put(s, c, q)
  PROVE  /\ ConnsOK'
         /\ conn'[s][c] = q
         /\ \A t \in Sides, d \in Conns : t # s \/ d # c => conn'[t][d] = conn[t][d]
  BY DEF ConnsOK, Put

\* A message joins the P2pClient's wMsg, which has room for it.
LEMMA PutQueue ==
  ASSUME QueuesOK, NEW s \in Sides, NEW m \in Msgs, Queue(s, m), UNCHANGED wire
  PROVE  QueuesOK'
<1>1. wMsg[s] \in Seq(Msgs) /\ Len(wMsg[s]) \in Nat /\ Len(wMsg[s]) < QCap
  BY DEF QueuesOK, Queue
<1>2. /\ Append(wMsg[s], m) \in Seq(Msgs)
      /\ Len(Append(wMsg[s], m)) = Len(wMsg[s]) + 1
  BY <1>1
<1>3. wMsg' = [wMsg EXCEPT ![s] = Append(wMsg[s], m)]
  BY DEF Queue
<1> DEFINE x == Append(wMsg[s], m)
<1> HIDE DEF x
<1>4. x \in Seq(Msgs) /\ Len(x) <= QCap
  BY <1>1, <1>2, TunnelAssumption DEF x
<1>5. wMsg' = [wMsg EXCEPT ![s] = x]
  BY <1>3 DEF x
<1> QED
  BY <1>4, <1>5 DEF QueuesOK

\* RunC of one side goes to another place.
LEMMA PutLoop ==
  ASSUME LoopsOK, NEW s \in Sides, NEW l, Standing(l), loop' = [loop EXCEPT ![s] = l]
  PROVE  /\ LoopsOK'
         /\ loop'[s] = l
         /\ \A t \in Sides : t # s => loop'[t] = loop[t]
  BY DEF LoopsOK

\* The fields of a connection that are sequences or numbers.
LEMMA Fields == ASSUME NEW p \in Good
  PROVE /\ p \in P2pConns /\ Fits(p)
        /\ p.in \in Seq(Msgs) /\ p.rlist \in Seq(Msgs) /\ p.w \in Seq(Msgs)
        /\ p.sent \in Nat /\ p.reads \in Nat /\ p.out \in Seq(Conns \X Nat)
        /\ p.said \in Nat \union {None} /\ p.finHdr \in BOOLEAN
  BY DEF Good, P2pConns

\* A field of a connection set to a value of its type leaves it typed; a queue,
\* to one that fits.
LEMMA Updates ==
  ASSUME NEW p \in Good
  PROVE
    /\ \A x \in {"none", "dialing", "offered", "init", "syn", "loop", "done"} :
      [p EXCEPT !.run = x] \in Good
    /\ \A x \in {"off", "start", "read", "data", "fin", "end"} : [p EXCEPT !.reader = x] \in Good
    /\ \A x \in {"off", "write", "fin", "end"} : [p EXCEPT !.writer = x] \in Good
    /\ \A x \in BOOLEAN : [p EXCEPT !.killed = x] \in Good
    /\ \A x \in BOOLEAN : [p EXCEPT !.closed = x] \in Good
    /\ \A x \in BOOLEAN : [p EXCEPT !.finHdr = x] \in Good
    /\ \A x \in BOOLEAN : [p EXCEPT !.mbFin = x] \in Good
    /\ \A x \in Nat \union {None} : [p EXCEPT !.said = x] \in Good
    /\ \A x \in {"none", "waiting", "sent", "over"} : [p EXCEPT !.add = x] \in Good
    /\ \A x \in {"none", "waiting", "sent", "over"} : [p EXCEPT !.rm = x] \in Good
    /\ \A x \in Nat : [p EXCEPT !.reads = x] \in Good
    /\ \A x \in Nat : [p EXCEPT !.sent = x] \in Good
    /\ \A x \in Nat \union {None} : [p EXCEPT !.told = x] \in Good
    /\ \A x \in Seq(Conns \X Nat) : [p EXCEPT !.out = x] \in Good
    /\ \A x \in Seq(Msgs) : Len(x) <= InCap => [p EXCEPT !.in = x] \in Good
    /\ \A x \in Seq(Msgs) : Len(x) <= WCap => [p EXCEPT !.w = x] \in Good
    /\ \A x \in Seq(Msgs) : Len(x) <= RMax + 1 => [p EXCEPT !.rlist = x] \in Good
<1>1. \A x \in {"none", "dialing", "offered", "init", "syn", "loop", "done"} :
       [p EXCEPT !.run = x] \in Good
  BY ZenonT(60) DEF Good, P2pConns, Fits
<1>2. \A x \in {"off", "start", "read", "data", "fin", "end"} : [p EXCEPT !.reader = x] \in Good
  BY ZenonT(60) DEF Good, P2pConns, Fits
<1>3. \A x \in {"off", "write", "fin", "end"} : [p EXCEPT !.writer = x] \in Good
  BY ZenonT(60) DEF Good, P2pConns, Fits
<1>4. \A x \in BOOLEAN : [p EXCEPT !.killed = x] \in Good
  BY ZenonT(60) DEF Good, P2pConns, Fits
<1>5. \A x \in BOOLEAN : [p EXCEPT !.closed = x] \in Good
  BY ZenonT(60) DEF Good, P2pConns, Fits
<1>6. \A x \in BOOLEAN : [p EXCEPT !.finHdr = x] \in Good
  BY ZenonT(60) DEF Good, P2pConns, Fits
<1>a. \A x \in BOOLEAN : [p EXCEPT !.mbFin = x] \in Good
  BY ZenonT(60) DEF Good, P2pConns, Fits
<1>b. \A x \in Nat \union {None} : [p EXCEPT !.said = x] \in Good
  BY ZenonT(60) DEF Good, P2pConns, Fits
<1>7. \A x \in {"none", "waiting", "sent", "over"} : [p EXCEPT !.add = x] \in Good
  BY ZenonT(60) DEF Good, P2pConns, Fits
<1>8. \A x \in {"none", "waiting", "sent", "over"} : [p EXCEPT !.rm = x] \in Good
  BY ZenonT(60) DEF Good, P2pConns, Fits
<1>9. \A x \in Nat : [p EXCEPT !.reads = x] \in Good
  BY ZenonT(60) DEF Good, P2pConns, Fits
<1>10. \A x \in Nat : [p EXCEPT !.sent = x] \in Good
  BY DEF Good, P2pConns, Fits
<1>11. \A x \in Nat \union {None} : [p EXCEPT !.told = x] \in Good
  BY ZenonT(60) DEF Good, P2pConns, Fits
<1>12. \A x \in Seq(Conns \X Nat) : [p EXCEPT !.out = x] \in Good
  BY ZenonT(60) DEF Good, P2pConns, Fits
<1>13. \A x \in Seq(Msgs) : Len(x) <= InCap => [p EXCEPT !.in = x] \in Good
  BY ZenonT(60) DEF Good, P2pConns, Fits
<1>14. \A x \in Seq(Msgs) : Len(x) <= WCap => [p EXCEPT !.w = x] \in Good
  BY ZenonT(60) DEF Good, P2pConns, Fits
<1>15. \A x \in Seq(Msgs) : Len(x) <= RMax + 1 => [p EXCEPT !.rlist = x] \in Good
  BY DEF Good, P2pConns, Fits
<1> QED
  BY <1>1, <1>2, <1>3, <1>4, <1>5, <1>6, <1>7, <1>8, <1>9, <1>10, <1>11, <1>12, <1>13, <1>14, <1>15,
     <1>a, <1>b

\* Accept (NewConn for a connection of the listener) keeps the types.
LEMMA AcceptTyped == ASSUME Typed, NEW c \in Conns, Accept(c) PROVE Typed'
<1> DEFINE p == conn["requestor"][c]
           q == [p EXCEPT !.run = "offered", !.add = "waiting"]
<1>1. p \in Good
  BY DEF Typed, ConnsOK, Sides
<1>2. q \in Good
  BY <1>1, Fields, Updates
<1>3. q \in Good
  BY <1>2
<1>4. ConnsOK'
  BY <1>3, PutConns DEF Accept, Typed, Sides
<1> QED
  BY <1>4 DEF Typed, PortsOK, QueuesOK, LoopsOK, DyingOK, Accept

\* A dial that succeeds keeps the types.
LEMMA DialOkTyped ==
  ASSUME Typed, NEW s \in Sides, NEW c \in Conns, DialOk(s, c) PROVE Typed'
<1> DEFINE p == conn[s][c]
           q == [p EXCEPT !.run = "offered", !.add = "waiting"]
<1>1. p \in Good
  BY DEF Typed, ConnsOK
<1>2. q \in Good
  BY <1>1, Fields, Updates
<1>3. ConnsOK'
  BY <1>1, <1>2, PutConns DEF DialOk, Typed
<1> QED
  BY <1>3 DEF Typed, PortsOK, QueuesOK, LoopsOK, DyingOK, DialOk

\* A dial that fails keeps the types, whether its MsgTypeSynErr is queued, left
\* out, or sent to a closed channel.
LEMMA DialFailsTyped ==
  ASSUME Typed, NEW s \in Sides, NEW c \in Conns, DialFails(s, c) PROVE Typed'
<1> DEFINE p == conn[s][c]
           q == [p EXCEPT !.run = "done"]
<1>1. p \in Good
  BY DEF Typed, ConnsOK
<1>2. q \in Good
  BY <1>1, Fields, Updates
<1>3. ConnsOK'
  BY <1>1, <1>2, PutConns DEF DialFails, Typed
<1>4. QueuesOK'
  <2>1. CASE Queue(s, SynErr(c))
    BY <2>1, SynErrTyped, PutQueue DEF DialFails, Typed
  <2>2. CASE UNCHANGED wMsg
    BY <2>2 DEF DialFails, Typed, QueuesOK
  <2> QED BY <2>1, <2>2 DEF DialFails
<1>5. LoopsOK'
  <2>1. CASE loop' = [loop EXCEPT ![s] = Crashed]
    BY <2>1, Places, PutLoop DEF Typed
  <2>2. CASE UNCHANGED loop
    BY <2>2 DEF Typed, LoopsOK
  <2> QED BY <2>1, <2>2 DEF DialFails
<1> QED
  BY <1>3, <1>4, <1>5 DEF Typed, PortsOK, DyingOK, DialFails

\* AddConn, the function of NewConn that RunC runs, keeps the types.
LEMMA AddConnTyped ==
  ASSUME Typed, NEW s \in Sides, NEW c \in Conns, AddConn(s, c) PROVE Typed'
<1> DEFINE p == conn[s][c]
           q == [p EXCEPT !.run = "init", !.add = "sent"]
<1>1. p \in Good
  BY DEF Typed, ConnsOK
<1>2. q \in Good
  BY <1>1, Fields, Updates
<1>3. ConnsOK'
  BY <1>1, <1>2, PutConns DEF AddConn, Typed
<1>4. PortsOK'
  BY DEF AddConn, With, Typed, PortsOK, Ports
<1>5. LoopsOK'
  BY Places, PutLoop DEF AddConn, Typed
<1> QED
  BY <1>3, <1>4, <1>5 DEF Typed, QueuesOK, DyingOK, AddConn

\* The start of tcpReadLoop and tcpWriteLoop keeps the types.
LEMMA StartLoopsTyped ==
  ASSUME Typed, NEW s \in Sides, NEW c \in Conns, StartLoops(s, c) PROVE Typed'
<1> DEFINE p == conn[s][c]
           q == [p EXCEPT !.run = "syn", !.writer = "write",
                          !.reader = FirstReader(s)]
<1>1. p \in Good
  BY DEF Typed, ConnsOK
<1>2. q \in Good
  BY <1>1, Fields, Updates DEF FirstReader
<1>3. ConnsOK'
  BY <1>1, <1>2, PutConns DEF StartLoops, Typed
<1> QED
  BY <1>3 DEF Typed, PortsOK, QueuesOK, LoopsOK, DyingOK, StartLoops

\* The MsgTypeSyn or MsgTypeSynOk of Init keeps the types.
LEMMA SendSynTyped ==
  ASSUME Typed, NEW s \in Sides, NEW c \in Conns, SendSyn(s, c) PROVE Typed'
<1> DEFINE p == conn[s][c]
           q == [p EXCEPT !.run = "loop"]
           r == [p EXCEPT !.run = "done", !.killed = TRUE]
           m == Msg(IF s = "proxy" THEN "synok" ELSE "syn", c, p.sent)
<1>1. p \in Good
  BY DEF Typed, ConnsOK
<1>2. q \in Good
  BY <1>1, Fields, Updates
<1>3. r \in Good
  BY <1>1, Fields, Updates
<1>4. m \in Msgs
  BY <1>1, Fields, MsgTyped DEF Types
<1>5. ConnsOK'
  BY <1>1, <1>2, <1>3, PutConns DEF SendSyn, Typed
<1>6. QueuesOK'
  <2>1. CASE Queue(s, m)
    BY <2>1, <1>4, PutQueue DEF SendSyn, Typed
  <2>2. CASE UNCHANGED wMsg
    BY <2>2 DEF SendSyn, Typed, QueuesOK
  <2> QED BY <2>1, <2>2 DEF SendSyn
<1> QED
  BY <1>5, <1>6 DEF Typed, PortsOK, LoopsOK, DyingOK, SendSyn

\* The reader's header keeps the types.
LEMMA SetupHdrTyped ==
  ASSUME Typed, NEW s \in Sides, NEW c \in Conns, SetupHdr(s, c) PROVE Typed'
<1> DEFINE p == conn[s][c]
           q == [p EXCEPT !.reader = "read", !.mbFin = p.finHdr]
<1>1. p \in Good
  BY DEF Typed, ConnsOK
<1>2. q \in Good
  BY <1>1, Fields, Updates
<1>3. ConnsOK'
  BY <1>1, <1>2, PutConns DEF SetupHdr, Typed
<1> QED
  BY <1>3 DEF Typed, PortsOK, QueuesOK, LoopsOK, DyingOK, SetupHdr

\* A Read of the socket keeps the types.
LEMMA ReadTyped ==
  ASSUME Typed, NEW s \in Sides, NEW c \in Conns, Read(s, c) PROVE Typed'
<1> DEFINE p == conn[s][c]
           q1 == [p EXCEPT !.reader = "data", !.reads = @ + 1]
           q2 == [p EXCEPT !.finHdr = TRUE, !.mbFin = FALSE]
<1>1. p \in Good
  BY DEF Typed, ConnsOK
<1>2. q1 \in Good
  <2>1. p.reads + 1 \in Nat
    BY <1>1, Fields
  <2> QED BY <1>1, <2>1, Updates
<1>3. q2 \in Good
  BY <1>1, Fields, Updates
<1>4. [q2 EXCEPT !.reader = "end"] \in Good /\ [q2 EXCEPT !.reader = "fin"] \in Good
  <2> HIDE DEF q2
  <2> QED BY <1>3, Updates
<1>5. ConnsOK'
  BY <1>1, <1>2, <1>4, PutConns DEF Read, Typed
<1> QED
  BY <1>5 DEF Typed, PortsOK, QueuesOK, LoopsOK, DyingOK, Read

\* A connection that has said its end is typed.
LEMMA SaysGood == ASSUME NEW p \in Good PROVE SaysFin(p) \in Good
<1>1. (IF p.said = None THEN p.sent ELSE p.said) \in Nat \union {None}
  BY Fields
<1> QED
  BY <1>1, Updates DEF SaysFin

\* What tcpReadLoop pushes after a Read keeps the types: data, or a MsgTypeFin
\* when its buffer has that type.
LEMMA PushDataTyped ==
  ASSUME Typed, NEW s \in Sides, NEW c \in Conns, PushData(s, c) PROVE Typed'
<1> DEFINE p == conn[s][c]
           q == [p EXCEPT !.reader = "start", !.mbFin = FALSE]
           d == Msg("data", c, p.sent + 1)
           m == Msg("fin", c, p.sent)
<1>1. p \in Good
  BY DEF Typed, ConnsOK
<1>2. q \in Good
  BY <1>1, Fields, Updates
<1>3. [q EXCEPT !.sent = @ + 1] \in Good /\ [q EXCEPT !.reader = "end"] \in Good
  <2> HIDE DEF q
  <2>1. q.sent + 1 \in Nat
    BY <1>2, Fields
  <2> QED BY <1>2, <2>1, Updates
<1>4. SaysFin(q) \in Good
  <2> HIDE DEF q
  <2> QED BY <1>2, SaysGood
<1>5. d \in Msgs /\ m \in Msgs
  BY <1>1, Fields, MsgTyped DEF Types
<1>6. ConnsOK'
  <2> HIDE DEF q
  <2>1. \E g \in Good : Put(s, c, g)
    BY <1>3, <1>4 DEF PushData, q
  <2> QED BY <2>1, PutConns DEF Typed
<1>7. QueuesOK'
  <2>1. CASE Queue(s, d)
    BY <2>1, <1>5, PutQueue DEF PushData, Typed
  <2>2. CASE Queue(s, m)
    BY <2>2, <1>5, PutQueue DEF PushData, Typed
  <2>3. CASE UNCHANGED wMsg
    BY <2>3 DEF PushData, Typed, QueuesOK
  <2> QED BY <2>1, <2>2, <2>3 DEF PushData
<1> QED
  BY <1>6, <1>7 DEF Typed, PortsOK, LoopsOK, DyingOK, PushData

\* The MsgTypeFin of tcpReadLoop keeps the types.
LEMMA PushFinTyped ==
  ASSUME Typed, NEW s \in Sides, NEW c \in Conns, PushFin(s, c) PROVE Typed'
<1> DEFINE p == conn[s][c]
           q == [p EXCEPT !.reader = "end", !.killed = TRUE]
<1>1. p \in Good
  BY DEF Typed, ConnsOK
<1>2. q \in Good
  BY <1>1, Fields, Updates
<1>3. Msg("fin", c, p.sent) \in Msgs
  BY <1>1, Fields, MsgTyped DEF Types
<1>4. ConnsOK'
  <2>1. SaysFin(q) \in Good
    BY <1>2, SaysGood
  <2>2. \E g \in Good : Put(s, c, g)
    BY <1>2, <2>1 DEF PushFin
  <2> QED BY <2>2, PutConns DEF Typed
<1>5. QueuesOK'
  <2>1. CASE Queue(s, Msg("fin", c, p.sent))
    BY <2>1, <1>3, PutQueue DEF PushFin, Typed
  <2>2. CASE UNCHANGED wMsg
    BY <2>2 DEF PushFin, Typed, QueuesOK
  <2> QED BY <2>1, <2>2 DEF PushFin
<1> QED
  BY <1>4, <1>5 DEF Typed, PortsOK, LoopsOK, DyingOK, PushFin

\* The MsgTypeFin of tcpWriteLoop keeps the types.
LEMMA WriterFinTyped ==
  ASSUME Typed, NEW s \in Sides, NEW c \in Conns, WriterFin(s, c) PROVE Typed'
<1> DEFINE p == conn[s][c]
           q == [p EXCEPT !.writer = "end", !.killed = TRUE]
<1>1. p \in Good
  BY DEF Typed, ConnsOK
<1>2. q \in Good
  BY <1>1, Fields, Updates
<1>3. Msg("fin", c, p.sent) \in Msgs
  BY <1>1, Fields, MsgTyped DEF Types
<1>4. ConnsOK'
  <2>1. SaysFin(q) \in Good
    BY <1>2, SaysGood
  <2>2. \E g \in Good : Put(s, c, g)
    BY <1>2, <2>1 DEF WriterFin
  <2> QED BY <2>2, PutConns DEF Typed
<1>5. QueuesOK'
  <2>1. CASE Queue(s, Msg("fin", c, p.sent))
    BY <2>1, <1>3, PutQueue DEF WriterFin, Typed
  <2>2. CASE UNCHANGED wMsg
    BY <2>2 DEF WriterFin, Typed, QueuesOK
  <2> QED BY <2>1, <2>2 DEF WriterFin
<1> QED
  BY <1>4, <1>5 DEF Typed, PortsOK, LoopsOK, DyingOK, WriterFin

\* The elements and the length of a concatenation.
LEMMA Join ==
  ASSUME NEW S, NEW a \in Seq(S), NEW b \in Seq(S)
  PROVE  a \o b \in Seq(S) /\ Len(a \o b) = Len(a) + Len(b)
  BY ConcatProperties

\* As many messages as there are or as there is room for fit into a channel of
\* capacity w that holds b.
LEMMA Room ==
  ASSUME NEW a \in Nat, NEW b \in Nat, NEW w \in Nat, b <= w
  PROVE  LET room == w - b
             n == IF a < room THEN a ELSE room
         IN  n \in Nat /\ n <= a /\ b + n <= w
  OBVIOUS

\* A sequence is its first n elements and the others.
LEMMA SplitAt ==
  ASSUME NEW S, NEW a \in Seq(S), NEW n \in Nat, n <= Len(a)
  PROVE  /\ SubSeq(a, 1, n) \in Seq(S) /\ SubSeq(a, n + 1, Len(a)) \in Seq(S)
         /\ Len(SubSeq(a, 1, n)) = n /\ Len(SubSeq(a, n + 1, Len(a))) = Len(a) - n
         /\ SubSeq(a, 1, n) \o SubSeq(a, n + 1, Len(a)) = a
<1>1. Len(a) \in Nat /\ \A i \in 1..Len(a) : a[i] \in S
  OBVIOUS
<1>2. \A i \in 1..n : a[i] \in S
  BY <1>1
<1>3. \A i \in (n + 1)..Len(a) : a[i] \in S
  BY <1>1
<1>4. SubSeq(a, 1, n) \in Seq(S) /\ Len(SubSeq(a, 1, n)) = n
  BY <1>2, SubSeqProperties
<1>5. SubSeq(a, n + 1, Len(a)) \in Seq(S) /\ Len(SubSeq(a, n + 1, Len(a))) = Len(a) - n
  BY <1>1, <1>3, SubSeqProperties
<1>6. SubSeq(a, 1, n) \o SubSeq(a, n + 1, Len(a)) = SubSeq(a, 1, Len(a))
  <2>1. 1 \in 1..(Len(a) + 1) /\ n \in (1 - 1)..Len(a) /\ Len(a) \in n..Len(a)
    BY <1>1
  <2> QED BY <2>1, ConcatAdjacentSubSeq
<1>7. SubSeq(a, 1, Len(a)) = a
  BY <1>1, SubSeqFull
<1> QED BY <1>4, <1>5, <1>6, <1>7

\* writeAll moves a front part z of rlist behind wMsg, and leaves the rest: it
\* neither drops, repeats nor reorders a message, and wMsg keeps to its
\* capacity.
LEMMA WriteAllMoves ==
  ASSUME NEW p \in P2pConns, Len(p.w) <= WCap
  PROVE  \E x, y, z \in Seq(Msgs) :
           /\ WriteAll(p) = [p EXCEPT !.w = x, !.rlist = y]
           /\ x = p.w \o z /\ p.rlist = z \o y
           /\ Len(x) <= WCap /\ Len(y) <= Len(p.rlist)
<1> DEFINE room == WCap - Len(p.w)
           n == IF Len(p.rlist) < room THEN Len(p.rlist) ELSE room
           z == SubSeq(p.rlist, 1, n)
           x == p.w \o z
           y == SubSeq(p.rlist, n + 1, Len(p.rlist))
<1>1. p.w \in Seq(Msgs) /\ p.rlist \in Seq(Msgs)
  BY DEF P2pConns
<1>a. Len(p.w) \in Nat /\ Len(p.rlist) \in Nat
  BY <1>1
<1>b. WCap \in Nat
  BY TunnelAssumption
<1>2. n \in Nat /\ n <= Len(p.rlist) /\ Len(p.w) + n <= WCap
  BY <1>a, <1>b, Room
<1>3. WriteAll(p) = [p EXCEPT !.w = x, !.rlist = y]
  BY DEF WriteAll
<1> HIDE DEF n
<1>4. z \in Seq(Msgs) /\ y \in Seq(Msgs) /\ Len(z) = n /\ Len(y) = Len(p.rlist) - n /\ z \o y = p.rlist
  BY <1>1, <1>2, SplitAt
<1> HIDE DEF z, y
<1>5. x \in Seq(Msgs) /\ Len(x) = Len(p.w) + n
  BY <1>1, <1>4, Join
<1>6. x = p.w \o z
  OBVIOUS
<1> HIDE DEF x
<1>7. Len(x) <= WCap /\ Len(y) <= Len(p.rlist)
  BY <1>1, <1>2, <1>4, <1>5, <1>a, <1>b
<1> QED
  BY <1>3, <1>4, <1>5, <1>6, <1>7

\* The part of Updates that is about queues.
LEMMA QueuesUpdated ==
  ASSUME NEW p \in Good, NEW x \in Seq(Msgs)
  PROVE  /\ Len(x) <= InCap => [p EXCEPT !.in = x] \in Good
         /\ Len(x) <= WCap => [p EXCEPT !.w = x] \in Good
         /\ Len(x) <= RMax + 1 => [p EXCEPT !.rlist = x] \in Good
  BY Updates

\* Close leaves a connection of its type.
LEMMA ClosedGood ==
  ASSUME NEW p \in Good PROVE Closed(p) \in Good
<1> DEFINE e == <<>>
<1>1. e \in Seq(Msgs) /\ Len(e) <= InCap /\ Len(e) <= WCap /\ Len(e) <= RMax + 1
  <2>1. e \in Seq(Msgs) /\ Len(e) = 0
    OBVIOUS
  <2> HIDE DEF e
  <2> QED BY <2>1, TunnelAssumption
<1>2. Closed(p) = [p EXCEPT !.closed = TRUE, !.killed = TRUE,
                            !.in = e, !.w = e, !.rlist = e]
  BY Zenon DEF Closed
<1> HIDE DEF e
<1>3. [p EXCEPT !.closed = TRUE, !.killed = TRUE] \in Good
  BY Updates
<1>4. [p EXCEPT !.closed = TRUE, !.killed = TRUE, !.in = e] \in Good
  BY <1>1, <1>3, QueuesUpdated
<1>5. [p EXCEPT !.closed = TRUE, !.killed = TRUE, !.in = e, !.w = e] \in Good
  BY <1>1, <1>4, QueuesUpdated
<1> QED BY <1>1, <1>2, <1>5, QueuesUpdated

\* A message that is taken from in or from wMsg.
LEMMA TailGood ==
  ASSUME NEW p \in Good
  PROVE  /\ p.in # <<>> => [p EXCEPT !.in = Tail(@)] \in Good
         /\ p.w # <<>> => [p EXCEPT !.w = Tail(@)] \in Good
<1>1. p.in \in Seq(Msgs) /\ p.w \in Seq(Msgs) /\ Len(p.in) <= InCap /\ Len(p.w) <= WCap
  BY Fields DEF Fits
<1>2. p.in # <<>> => Tail(p.in) \in Seq(Msgs) /\ Len(Tail(p.in)) <= InCap
  BY <1>1, TunnelAssumption, HeadTailProperties
<1>3. p.w # <<>> => Tail(p.w) \in Seq(Msgs) /\ Len(Tail(p.w)) <= WCap
  BY <1>1, TunnelAssumption, HeadTailProperties
<1> QED BY <1>2, <1>3, Updates

\* GoDying leaves a connection of its type.
LEMMA GoDyingGood ==
  ASSUME NEW s \in Sides, NEW p \in Good PROVE GoDying(s, p) \in Good
  BY Updates DEF GoDying

\* writeAll leaves a connection of its type, with wMsg within its capacity.
LEMMA WriteAllGood ==
  ASSUME NEW p \in Good PROVE WriteAll(p) \in Good
<1>1. p \in P2pConns /\ Len(p.w) <= WCap /\ Len(p.rlist) <= RMax + 1 /\ Len(p.rlist) \in Nat
  BY Fields DEF Fits
<1>2. PICK x, y, z \in Seq(Msgs) :
           /\ WriteAll(p) = [p EXCEPT !.w = x, !.rlist = y]
           /\ Len(x) <= WCap /\ Len(y) <= Len(p.rlist)
  BY <1>1, WriteAllMoves
<1>3. Len(y) <= RMax + 1
  BY <1>1, <1>2, TunnelAssumption
<1>4. [p EXCEPT !.w = x] \in Good
  BY <1>2, QueuesUpdated
<1> QED BY <1>2, <1>3, <1>4, QueuesUpdated

\* A message that joins rlist before it is too long.
LEMMA JoinGood ==
  ASSUME NEW p \in Good, NEW m \in Msgs, ~Overflow(p)
  PROVE  [p EXCEPT !.rlist = Append(@, m)] \in Good
<1>1. p.rlist \in Seq(Msgs) /\ Len(p.rlist) \in Nat /\ Len(p.rlist) <= RMax
  <2>1. p.rlist \in Seq(Msgs)
    BY Fields
  <2> QED BY <2>1, TunnelAssumption DEF Overflow
<1>2. Append(p.rlist, m) \in Seq(Msgs) /\ Len(Append(p.rlist, m)) <= RMax + 1
  BY <1>1, AppendProperties, TunnelAssumption
<1> QED BY <1>2, Updates

\* A turn of P2pConn.Run keeps the types; rlist grows by one only when it is
\* not too long.
LEMMA RunForTyped ==
  ASSUME Typed, NEW s \in Sides, NEW c \in Conns, RunFor(s, c) PROVE Typed'
<1> DEFINE p == conn[s][c]
           q == [p EXCEPT !.in = Tail(@)]
           m == Head(p.in)
<1>1. p \in Good
  BY DEF Typed, ConnsOK
<1>2. ASSUME p.in # <<>> PROVE q \in Good /\ m \in Msgs
  BY <1>1, <1>2, TailGood, Fields, HeadTailProperties
<1>3. \E g \in Good : Put(s, c, g)
  <2>1. [p EXCEPT !.run = "done", !.killed = TRUE] \in Good
    BY <1>1, Updates
  <2>2. GoDying(s, p) \in Good
    BY <1>1, GoDyingGood
  <2>3. CASE p.in = <<>>
    BY <2>1, <2>2, <2>3 DEF RunFor
  <2>4. CASE p.in # <<>>
    <3>1. q \in Good /\ m \in Msgs
      BY <1>2, <2>4
    <3>2. [q EXCEPT !.reader = "start"] \in Good
      BY <3>1, Updates
    <3>3. GoDying(s, q) \in Good
      BY <3>1, GoDyingGood
    <3>4. ASSUME ~Overflow(p) PROVE WriteAll([q EXCEPT !.rlist = Append(@, m)]) \in Good
      <4>1. ~Overflow(q)
        BY <1>1, <3>4, Fields DEF Overflow, P2pConns
      <4> HIDE DEF q, m
      <4> QED BY <3>1, <4>1, JoinGood, WriteAllGood
    <3> QED BY <2>1, <2>2, <3>2, <3>3, <3>4 DEF RunFor
  <2> QED BY <2>3, <2>4
<1>4. ConnsOK'
  BY <1>3, PutConns DEF Typed
<1> QED
  BY <1>4 DEF Typed, PortsOK, QueuesOK, LoopsOK, DyingOK, RunFor

\* The ticker of Run keeps the types.
LEMMA RunTickTyped ==
  ASSUME Typed, NEW s \in Sides, NEW c \in Conns, RunTick(s, c) PROVE Typed'
<1>1. conn[s][c] \in Good
  BY DEF Typed, ConnsOK
<1>2. ConnsOK'
  BY <1>1, WriteAllGood, PutConns DEF RunTick, Typed
<1> QED
  BY <1>2 DEF Typed, PortsOK, QueuesOK, LoopsOK, DyingOK, RunTick

\* A turn of tcpWriteLoop keeps the types.
LEMMA WriteTyped ==
  ASSUME Typed, NEW s \in Sides, NEW c \in Conns, Write(s, c) PROVE Typed'
<1> DEFINE p == conn[s][c]
           q == [p EXCEPT !.w = Tail(@)]
           m == Head(p.w)
<1>1. p \in Good
  BY DEF Typed, ConnsOK
<1>2. \E g \in Good : Put(s, c, g)
  <2>1. [p EXCEPT !.writer = "end"] \in Good
    BY <1>1, Updates
  <2>2. CASE p.w = <<>>
    BY <2>1, <2>2 DEF Write
  <2>3. CASE p.w # <<>>
    <3>1. q \in Good /\ m \in Msgs
      BY <1>1, <2>3, TailGood, Fields, HeadTailProperties
    <3>2. [q EXCEPT !.writer = "fin", !.finHdr = TRUE] \in Good
      BY <3>1, Updates
    <3>3. [q EXCEPT !.writer = "end", !.killed = TRUE, !.told = m.n] \in Good
      <4>1. m.n \in Nat \union {None}
        BY <3>1 DEF Msgs
      <4> HIDE DEF q, m
      <4> QED BY <3>1, <4>1, Updates
    <3>4. [q EXCEPT !.out = Append(@, <<m.conn, m.n>>)] \in Good
      <4>1. <<m.conn, m.n>> \in Conns \X Nat
        BY <3>1 DEF Msgs
      <4>2. q.out \in Seq(Conns \X Nat)
        BY <3>1, Fields
      <4> DEFINE e == <<m.conn, m.n>>
      <4> HIDE DEF q, e
      <4>3. Append(q.out, e) \in Seq(Conns \X Nat)
        BY <4>1, <4>2, AppendProperties DEF e
      <4>4. [q EXCEPT !.out = Append(@, e)] \in Good
        BY <3>1, <4>3, Updates
      <4> QED BY <4>4 DEF e
    <3> QED BY <2>1, <3>1, <3>2, <3>3, <3>4 DEF Write
  <2> QED BY <2>2, <2>3
<1>3. ConnsOK'
  BY <1>2, PutConns DEF Typed
<1> QED
  BY <1>3 DEF Typed, PortsOK, QueuesOK, LoopsOK, DyingOK, Write

\* RunC gives a message to ikcp.
LEMMA KcpSendTyped ==
  ASSUME Typed, NEW s \in Sides, KcpSend(s) PROVE Typed'
<1> DEFINE h == Head(wMsg[s])
           x == Append(wire[s], h)
           y == Tail(wMsg[s])
<1>1. wMsg[s] \in Seq(Msgs) /\ wire[s] \in Seq(Msgs) /\ wMsg[s] # <<>> /\ Len(wMsg[s]) <= QCap
  BY DEF Typed, QueuesOK, KcpSend
<1>2. h \in Msgs /\ y \in Seq(Msgs) /\ Len(y) <= QCap
  BY <1>1, HeadTailProperties, TunnelAssumption
<1>3. x \in Seq(Msgs)
  <2> HIDE DEF h
  <2> QED BY <1>1, <1>2, AppendProperties
<1>4. wire' = [wire EXCEPT ![s] = x] /\ wMsg' = [wMsg EXCEPT ![s] = y]
  BY DEF KcpSend
<1> HIDE DEF h, x, y
<1>5. QueuesOK'
  BY <1>2, <1>3, <1>4 DEF Typed, QueuesOK
<1> QED
  BY <1>5 DEF Typed, ConnsOK, PortsOK, LoopsOK, DyingOK, KcpSend

\* The other side is another side, and its other side is this one.
LEMMA OtherSide == \A s \in Sides : Other(s) \in Sides /\ Other(s) # s /\ Other(Other(s)) = s
  BY DEF Sides, Other

\* What RunC finds at the head of the stream from the other side.
LEMMA Received ==
  ASSUME Typed, NEW s \in Sides, wire[Other(s)] # <<>>
  PROVE  /\ Head(wire[Other(s)]) \in Msgs
         /\ Tail(wire[Other(s)]) \in Seq(Msgs)
         /\ Head(wire[Other(s)]).conn \in Conns
<1>1. wire[Other(s)] \in Seq(Msgs)
  BY OtherSide DEF Typed, QueuesOK
<1>2. Head(wire[Other(s)]) \in Msgs /\ Tail(wire[Other(s)]) \in Seq(Msgs)
  BY <1>1, HeadTailProperties
<1> QED
  BY <1>2 DEF Msgs

\* tryToRecvFor keeps the types, whether RunC is to push the message, dials, or
\* drops it.
LEMMA KcpRecvTyped ==
  ASSUME Typed, NEW s \in Sides, KcpRecv(s) PROVE Typed'
<1> DEFINE from == wire[Other(s)]
           m == Head(from)
           d == IF m.port \in Ports THEN portMap[s][m.port] ELSE NoConn
           y == Tail(from)
<1>1. m \in Msgs /\ y \in Seq(Msgs) /\ m.conn \in Conns
  BY Received DEF KcpRecv
<1>2. d # NoConn => d \in Conns
  BY DEF Typed, PortsOK
<1>3. wire' = [wire EXCEPT ![Other(s)] = y]
  BY DEF KcpRecv
<1> HIDE DEF y
<1>4. QueuesOK'
  <2>1. UNCHANGED wMsg
    BY DEF KcpRecv
  <2> QED BY <1>1, <1>3, <2>1, OtherSide DEF Typed, QueuesOK
<1>5. LoopsOK' /\ ConnsOK'
  <2>1. CASE d # NoConn
    <3>1. loop' = [loop EXCEPT ![s] = Pushing(d, m)] /\ UNCHANGED conn
      BY <2>1 DEF KcpRecv
    <3>2. Standing(Pushing(d, m))
      BY <1>1, <1>2, <2>1, Places
    <3> HIDE DEF d, m
    <3> QED BY <3>1, <3>2, PutLoop DEF Typed, ConnsOK
  <2>2. CASE d = NoConn
    <3>1. UNCHANGED loop /\ \/ UNCHANGED conn
                            \/ Put(s, m.conn, [conn[s][m.conn] EXCEPT !.run = "dialing"])
      BY <2>2 DEF KcpRecv
    <3>2. conn[s][m.conn] \in Good
      BY <1>1 DEF Typed, ConnsOK
    <3> HIDE DEF d, m
    <3>3. [conn[s][m.conn] EXCEPT !.run = "dialing"] \in Good
      BY <3>2, Updates
    <3>4. ConnsOK'
      BY <1>1, <3>1, <3>3, PutConns DEF Typed, ConnsOK
    <3> QED BY <3>1, <3>4 DEF Typed, LoopsOK
  <2> QED BY <2>1, <2>2
<1> QED
  BY <1>4, <1>5 DEF Typed, PortsOK, DyingOK, KcpRecv

\* Where RunC stands when it waits for a connection or for a promise.
LEMMA StandsAt ==
  ASSUME Typed, NEW s \in Sides
  PROVE  /\ loop[s].at = "push" => /\ loop[s].conn \in Conns /\ loop[s].msg \in Msgs
                                   /\ loop[s] = Pushing(loop[s].conn, loop[s].msg)
         /\ loop[s].at = "answer" => /\ loop[s].conn \in Conns
                                     /\ loop[s].promise \in {"add", "rm"}
                                     /\ loop[s] = Answering(loop[s].conn, loop[s].promise)
         /\ loop[s].at \notin {"push", "answer"} => loop[s] \in {Select, Returned, Gone, Crashed}
  BY DEF Typed, LoopsOK, Standing, Select, Returned, Gone, Crashed, Pushing, Answering

\* RunC's push into the in of a connection keeps the types and the bound of in.
LEMMA PushInTyped ==
  ASSUME Typed, NEW s \in Sides, PushIn(s) PROVE Typed'
<1> DEFINE d == loop[s].conn
           m == loop[s].msg
           x == Append(conn[s][d].in, m)
<1>1. d \in Conns /\ m \in Msgs
  BY StandsAt DEF PushIn
<1>2. conn[s][d] \in Good /\ Len(conn[s][d].in) < InCap
  BY <1>1 DEF Typed, ConnsOK, PushIn
<1>3. Put(s, d, [conn[s][d] EXCEPT !.in = x])
  BY DEF PushIn
<1> HIDE DEF d, m
<1>4. conn[s][d].in \in Seq(Msgs)
  BY <1>2, Fields
<1>5. x \in Seq(Msgs) /\ Len(x) <= InCap
  BY <1>1, <1>2, <1>4, AppendProperties, TunnelAssumption
<1> HIDE DEF x
<1>6. [conn[s][d] EXCEPT !.in = x] \in Good
  BY <1>2, <1>5, QueuesUpdated
<1>7. ConnsOK'
  BY <1>1, <1>3, <1>6, PutConns DEF Typed
<1>8. LoopsOK'
  BY Places, PutLoop DEF PushIn, Typed
<1> QED
  BY <1>7, <1>8 DEF Typed, PortsOK, QueuesOK, DyingOK, PushIn

\* RemoveConn keeps the types.
LEMMA RemoveConnTyped ==
  ASSUME Typed, NEW s \in Sides, NEW c \in Conns, RemoveConn(s, c) PROVE Typed'
<1> DEFINE p == conn[s][c]
           q == [p EXCEPT !.rm = "sent"]
<1>1. p \in Good
  BY DEF Typed, ConnsOK
<1>2. q \in Good /\ Closed(q) \in Good
  <2>1. q \in Good
    BY <1>1, Updates
  <2> QED BY <2>1, ClosedGood
<1>3. ConnsOK'
  BY <1>2, PutConns DEF RemoveConn, Typed
<1>4. PortsOK'
  <2>1. portMap' = portMap \/ portMap' = Without(s, c)
    BY DEF RemoveConn
  <2>2. Port[c] \in Ports
    BY DEF Ports
  <2>3. PortsOK
    BY DEF Typed
  <2> QED BY <2>1, <2>2, <2>3 DEF Without, PortsOK
<1>5. LoopsOK'
  BY Places, PutLoop DEF RemoveConn, Typed
<1> QED
  BY <1>3, <1>4, <1>5 DEF Typed, QueuesOK, DyingOK, RemoveConn

\* The answer RunC gives to a promise keeps the types.
LEMMA AnsweredTyped ==
  ASSUME Typed, NEW s \in Sides, Answered(s) PROVE Typed'
<1> DEFINE c == loop[s].conn
           p == conn[s][c]
<1>1. c \in Conns
  BY StandsAt DEF Answered
<1>2. p \in Good
  BY <1>1 DEF Typed, ConnsOK
<1>3. [p EXCEPT !.add = "over"] \in Good /\ [p EXCEPT !.rm = "over"] \in Good
  BY <1>2, Updates
<1>4. \E g \in Good : Put(s, c, g)
  BY <1>3 DEF Answered
<1> HIDE DEF c
<1>5. ConnsOK'
  BY <1>1, <1>4, PutConns DEF Typed
<1>6. LoopsOK'
  BY Places, PutLoop DEF Answered, Typed
<1> QED
  BY <1>5, <1>6 DEF Typed, PortsOK, QueuesOK, DyingOK, Answered

\* A promise that ends because its target is dying keeps the types.
LEMMA PromiseEndsTyped ==
  ASSUME Typed, NEW s \in Sides, NEW c \in Conns, PromiseEnds(s, c) PROVE Typed'
<1> DEFINE p == conn[s][c]
<1>1. p \in Good
  BY DEF Typed, ConnsOK
<1>2. [p EXCEPT !.add = "over"] \in Good /\ [p EXCEPT !.rm = "over"] \in Good
  BY <1>1, Updates
<1>3. ConnsOK'
  BY <1>2, PutConns DEF PromiseEnds, Typed
<1>4. LoopsOK'
  <2>1. CASE UNCHANGED loop
    BY <2>1 DEF Typed, LoopsOK
  <2>2. CASE loop' = [loop EXCEPT ![s] = Crashed]
    BY <2>2, Places, PutLoop DEF Typed
  <2> QED BY <2>1, <2>2 DEF PromiseEnds
<1> QED
  BY <1>3, <1>4 DEF Typed, PortsOK, QueuesOK, DyingOK, PromiseEnds

\* The end of a P2pClient that MsgTypeClientQuit asks for keeps the types.
LEMMA QuitTyped ==
  ASSUME Typed, NEW s \in Sides, Quit(s) PROVE Typed'
  BY DEF Typed, ConnsOK, PortsOK, QueuesOK, LoopsOK, DyingOK, Quit

\* Every connection of a side changed at once.
LEMMA PutAll ==
  ASSUME ConnsOK, NEW s \in Sides, NEW f \in [Conns -> Good],
         conn' = [conn EXCEPT ![s] = f]
  PROVE  /\ ConnsOK' /\ conn'[s] = f
         /\ \A t \in Sides : t # s => conn'[t] = conn[t]
  BY DEF ConnsOK

\* DoDying keeps the types.
LEMMA DoDyingTyped ==
  ASSUME Typed, NEW s \in Sides, DoDying(s) PROVE Typed'
<1> DEFINE f == [c \in Conns |-> IF c \in Listed(s)
                                 THEN [conn[s][c] EXCEPT !.killed = TRUE]
                                 ELSE conn[s][c]]
<1>1. \A c \in Conns : conn[s][c] \in Good
  BY DEF Typed, ConnsOK
<1>2. \A c \in Conns : [conn[s][c] EXCEPT !.killed = TRUE] \in Good
  BY <1>1, Updates
<1>3. f \in [Conns -> Good]
  BY <1>1, <1>2
<1>4. conn' = [conn EXCEPT ![s] = f]
  BY DEF DoDying
<1> HIDE DEF f
<1>5. ConnsOK'
  BY <1>3, <1>4, PutAll DEF Typed
<1>6. LoopsOK'
  BY Places, PutLoop DEF DoDying, Typed
<1>7. DyingOK'
  BY DEF DoDying, Typed, DyingOK
<1> QED
  BY <1>5, <1>6, <1>7 DEF Typed, PortsOK, QueuesOK, DoDying

\* P2pClient.Close keeps the types.
LEMMA CloseP2pTyped ==
  ASSUME Typed, NEW s \in Sides, CloseP2p(s) PROVE Typed'
<1> DEFINE f == [c \in Conns |-> IF c \in Listed(s) THEN Closed(conn[s][c])
                                 ELSE conn[s][c]]
           e == <<>>
<1>1. \A c \in Conns : conn[s][c] \in Good
  BY DEF Typed, ConnsOK
<1>2. \A c \in Conns : Closed(conn[s][c]) \in Good
  BY <1>1, ClosedGood
<1>3. f \in [Conns -> Good]
  BY <1>1, <1>2
<1>4. conn' = [conn EXCEPT ![s] = f]
  BY DEF CloseP2p
<1> HIDE DEF f
<1>5. ConnsOK'
  BY <1>3, <1>4, PutAll DEF Typed
<1>6. LoopsOK'
  BY Places, PutLoop DEF CloseP2p, Typed
<1>7. PortsOK'
  BY DEF CloseP2p, Typed, PortsOK
<1>8. QueuesOK'
  <2>1. e \in Seq(Msgs) /\ Len(e) <= QCap
    <3>1. e \in Seq(Msgs) /\ Len(e) = 0
      OBVIOUS
    <3> HIDE DEF e
    <3> QED BY <3>1, TunnelAssumption
  <2>2. wMsg' = [wMsg EXCEPT ![s] = e] /\ UNCHANGED wire
    BY DEF CloseP2p
  <2> HIDE DEF e
  <2> QED BY <2>1, <2>2 DEF Typed, QueuesOK
<1> QED
  BY <1>5, <1>6, <1>7, <1>8 DEF Typed, DyingOK, CloseP2p

\* The first state is typed.
LEMMA InitTyped == ASSUME Init PROVE Typed
<1> DEFINE e == <<>>
<1>0. e \in Seq(Msgs) /\ e \in Seq(Conns \X Nat) /\ Len(e) = 0
  OBVIOUS
<1>1. NewP2pConn = [run |-> "none", killed |-> FALSE, in |-> e, rlist |-> e, w |-> e,
                    reader |-> "off", writer |-> "off", finHdr |-> FALSE,
                    mbFin |-> FALSE, said |-> None, closed |-> FALSE, add |-> "none", rm  |-> "none",
                    reads |-> 0, sent |-> 0, out |-> e, told |-> None]
  BY DEF NewP2pConn
<1>2. wMsg = [s \in Sides |-> e] /\ wire = [s \in Sides |-> e]
  BY DEF Init
<1> HIDE DEF e
<1>3. NewP2pConn \in P2pConns
  BY <1>0, <1>1 DEF P2pConns, None
<1>4. Fits(NewP2pConn)
  BY <1>0, <1>1, TunnelAssumption DEF Fits
<1>5. ConnsOK
  BY <1>3, <1>4 DEF Init, ConnsOK, Good
<1>6. QueuesOK
  BY <1>0, <1>2, TunnelAssumption DEF QueuesOK
<1>7. LoopsOK
  BY DEF Init, LoopsOK, Standing
<1> QED
  BY <1>5, <1>6, <1>7 DEF Init, Typed, PortsOK, DyingOK

\* Every step keeps the types.
LEMMA StepTyped == ASSUME Typed, [Next]_vars PROVE Typed'
<1>1. CASE UNCHANGED vars
  BY <1>1 DEF Typed, ConnsOK, PortsOK, QueuesOK, LoopsOK, DyingOK, vars
<1>2. ASSUME NEW c \in Conns, Accept(c) PROVE Typed'
  BY <1>2, AcceptTyped
<1>3. ASSUME NEW s \in Sides, RunC(s) \/ Quit(s) \/ CloseP2p(s) PROVE Typed'
  <2>1. ASSUME NEW c \in Conns, AddConn(s, c) \/ RemoveConn(s, c) PROVE Typed'
    BY <2>1, AddConnTyped, RemoveConnTyped
  <2>2. CASE KcpSend(s) \/ KcpRecv(s) \/ PushIn(s) \/ Answered(s) \/ DoDying(s)
    BY <2>2, KcpSendTyped, KcpRecvTyped, PushInTyped, AnsweredTyped, DoDyingTyped
  <2>3. CASE Quit(s) \/ CloseP2p(s)
    BY <2>3, QuitTyped, CloseP2pTyped
  <2> QED BY <1>3, <2>1, <2>2, <2>3 DEF RunC
<1>4. ASSUME NEW s \in Sides, NEW c \in Conns,
             \/ RunOf(s, c) \/ Read(s, c) \/ Reader(s, c)
             \/ Writer(s, c) \/ Dials(s, c) \/ PromiseEnds(s, c)
      PROVE  Typed'
  <2>1. CASE RunOf(s, c)
    BY <2>1, StartLoopsTyped, SendSynTyped, RunForTyped, RunTickTyped DEF RunOf
  <2>2. CASE Read(s, c) \/ Reader(s, c)
    BY <2>2, ReadTyped, SetupHdrTyped, PushDataTyped, PushFinTyped DEF Reader
  <2>3. CASE Writer(s, c)
    BY <2>3, WriteTyped, WriterFinTyped DEF Writer
  <2>4. CASE Dials(s, c) \/ PromiseEnds(s, c)
    BY <2>4, DialOkTyped, DialFailsTyped, PromiseEndsTyped DEF Dials
  <2> QED BY <1>4, <2>1, <2>2, <2>3, <2>4
<1> QED
  BY <1>1, <1>2, <1>3, <1>4 DEF Next

\* All variables of the tunnel keep their types, and no channel holds more than
\* its capacity; rlist is never more than one longer than the length at which
\* Run gives the connection up.
THEOREM TypesKept == Spec => []TypeOK
<1>1. Init => Typed
  BY InitTyped
<1>2. Typed /\ [Next]_vars => Typed'
  BY StepTyped
<1>3. Typed => TypeOK
  BY TypedTypes
<1> QED
  BY <1>1, <1>2, <1>3, PTL DEF Spec

-----------------------------------------------------------------------------
(***************************************************************************)
(* What the actions do.  For every action the facts the other proofs need, *)
(* stated once: which connection changes, which of its fields stay, and    *)
(* what is sent.  The proofs below use these facts and expand no action.   *)
(***************************************************************************)

\* No connection but c at s changes.
Elsewhere(s, c) ==
  \A t \in Sides, d \in Conns : t # s \/ d # c => conn'[t][d] = conn[t][d]

\* What a step may leave alone of a connection: its queues; what its program
\* sees of it; Run, promise and end; the loops at its socket.
SameQueues(p, q) == q.in = p.in /\ q.rlist = p.rlist /\ q.w = p.w
SamePipe(p, q)   == q.out = p.out /\ q.told = p.told /\ q.sent = p.sent /\ q.said = p.said
SameLife(p, q)   == q.run = p.run /\ q.add = p.add /\ q.closed = p.closed /\ q.killed = p.killed
SameLoops(p, q)  == q.reader = p.reader /\ q.writer = p.writer

\* A MsgTypeFin is sent; the first one is the one that says the end.
SendsFin(s, c, p, q) ==
  /\ Open(s) /\ Queue(s, Msg("fin", c, p.sent))
  /\ q.sent = p.sent /\ q.said = IF p.said = None THEN p.sent ELSE p.said

\* Put changes one connection.
LEMMA PutFacts ==
  ASSUME Typed, NEW s \in Sides, NEW c \in Conns, NEW q, Put(s, c, q)
  PROVE  conn[s][c] \in P2pConns /\ conn'[s][c] = q /\ Elsewhere(s, c)
  BY DEF Typed, ConnsOK, Good, Put, Elsewhere

\* A connection is offered to RunC: Accept and DialOk.
LEMMA OfferFacts ==
  ASSUME Typed, NEW s \in Sides, NEW c \in Conns,
         DialOk(s, c) \/ (s = "requestor" /\ Accept(c))
  PROVE  LET p == conn[s][c]
             q == conn'[s][c]
         IN  /\ Elsewhere(s, c) /\ SameQueues(p, q) /\ SamePipe(p, q) /\ SameLoops(p, q)
             /\ p.run = (IF DialOk(s, c) THEN "dialing" ELSE "none")
             /\ q.run = "offered" /\ q.add = "waiting"
             /\ q.closed = p.closed /\ q.killed = p.killed
             /\ UNCHANGED <<portMap, wMsg, wire, loop, dying>>
<1> DEFINE p == conn[s][c]
           q == conn'[s][c]
           x == [p EXCEPT !.run = "offered", !.add = "waiting"]
<1>1. /\ Put(s, c, x) /\ UNCHANGED <<portMap, wMsg, wire, loop, dying>>
      /\ p.run = (IF DialOk(s, c) THEN "dialing" ELSE "none")
  <2>1. CASE DialOk(s, c)
    BY <2>1 DEF DialOk
  <2>2. CASE ~DialOk(s, c) /\ s = "requestor" /\ Accept(c)
    BY <2>2 DEF Accept
  <2> QED BY <2>1, <2>2
<1>2. p \in P2pConns /\ Elsewhere(s, c) /\ q = x
  BY <1>1, PutFacts
<1> HIDE DEF p, q
<1>3. SameQueues(p, q) /\ SamePipe(p, q) /\ SameLoops(p, q)
     /\ q.run = "offered" /\ q.add = "waiting" /\ q.closed = p.closed /\ q.killed = p.killed
  BY <1>2 DEF SameQueues, SamePipe, SameLoops, P2pConns
<1> QED
  BY <1>1, <1>2, <1>3 DEF p, q

\* DialFails: Run is over, and at most a MsgTypeSynErr is sent.
LEMMA DialFailsFacts ==
  ASSUME Typed, NEW s \in Sides, NEW c \in Conns, DialFails(s, c)
  PROVE  LET p == conn[s][c]
             q == conn'[s][c]
         IN  /\ Elsewhere(s, c) /\ SameQueues(p, q) /\ SamePipe(p, q) /\ SameLoops(p, q)
             /\ p.run = "dialing" /\ q.run = "done" /\ q.add = p.add
             /\ q.closed = p.closed /\ q.killed = p.killed
             /\ UNCHANGED <<portMap, wire, dying>>
             /\ \/ Queue(s, SynErr(c)) /\ UNCHANGED loop
                \/ UNCHANGED <<wMsg, loop>>
                \/ loop' = [loop EXCEPT ![s] = Crashed] /\ loop[s] = Gone /\ UNCHANGED wMsg
<1> DEFINE p == conn[s][c]
           q == conn'[s][c]
<1>1. p \in P2pConns /\ Elsewhere(s, c)
      /\ (q = [p EXCEPT !.run = "done"])
  BY PutFacts DEF DialFails, Open
<1> HIDE DEF p, q
<1>2. SameQueues(p, q) /\ SamePipe(p, q) /\ SameLoops(p, q)
     /\ q.run = "done" /\ q.add = p.add /\ q.closed = p.closed /\ q.killed = p.killed
  BY <1>1 DEF SameQueues, SamePipe, SameLoops, P2pConns
<1> QED
  BY <1>1, <1>2 DEF DialFails, Open, p, q

\* AddConn: the connection is put into portMap and RunC waits to answer.
LEMMA AddConnFacts ==
  ASSUME Typed, NEW s \in Sides, NEW c \in Conns, AddConn(s, c)
  PROVE  LET p == conn[s][c]
             q == conn'[s][c]
         IN  /\ Elsewhere(s, c) /\ SameQueues(p, q) /\ SamePipe(p, q) /\ SameLoops(p, q)
             /\ p.add = "waiting" /\ q.run = "init" /\ q.add = "sent"
             /\ q.closed = p.closed /\ q.killed = p.killed
             /\ portMap' = With(s, c) /\ loop[s] = Select
             /\ loop' = [loop EXCEPT ![s] = Answering(c, "add")]
             /\ UNCHANGED <<wMsg, wire, dying>>
<1> DEFINE p == conn[s][c]
           q == conn'[s][c]
<1>1. p \in P2pConns /\ Elsewhere(s, c)
      /\ (q = [p EXCEPT !.run = "init", !.add = "sent"])
  BY PutFacts DEF AddConn
<1> HIDE DEF p, q
<1>2. SameQueues(p, q) /\ SamePipe(p, q) /\ SameLoops(p, q)
     /\ q.run = "init" /\ q.add = "sent" /\ q.closed = p.closed /\ q.killed = p.killed
  BY <1>1 DEF SameQueues, SamePipe, SameLoops, P2pConns
<1> QED
  BY <1>1, <1>2 DEF AddConn, p, q

\* StartLoops: the writer starts, and on the proxy side the reader.
LEMMA StartLoopsFacts ==
  ASSUME Typed, NEW s \in Sides, NEW c \in Conns, StartLoops(s, c)
  PROVE  LET p == conn[s][c]
             q == conn'[s][c]
         IN  /\ Elsewhere(s, c) /\ SameQueues(p, q) /\ SamePipe(p, q)
             /\ p.run = "init" /\ q.run = "syn" /\ q.add = p.add
             /\ q.closed = p.closed /\ q.killed = p.killed
             /\ q.writer = "write"
             /\ q.reader = (IF s = "proxy" THEN "start" ELSE "off")
             /\ UNCHANGED <<portMap, wMsg, wire, loop, dying>>
<1> DEFINE p == conn[s][c]
           q == conn'[s][c]
<1>1. p \in P2pConns /\ Elsewhere(s, c)
      /\ (q = [p EXCEPT !.run = "syn", !.writer = "write", !.reader = FirstReader(s)])
  BY PutFacts DEF StartLoops, FirstReader
<1> HIDE DEF p, q
<1>2. SameQueues(p, q) /\ SamePipe(p, q)
     /\ q.run = "syn" /\ q.add = p.add /\ q.writer = "write"
     /\ q.reader = FirstReader(s)
     /\ q.closed = p.closed /\ q.killed = p.killed
  BY <1>1 DEF SameQueues, SamePipe, P2pConns
<1> QED
  BY <1>1, <1>2 DEF StartLoops, FirstReader, p, q

\* SendSyn: the connection runs on after the message it sent, or is over.
LEMMA SendSynFacts ==
  ASSUME Typed, NEW s \in Sides, NEW c \in Conns, SendSyn(s, c)
  PROVE  LET p == conn[s][c]
             q == conn'[s][c]
         IN  /\ Elsewhere(s, c) /\ SameQueues(p, q) /\ SamePipe(p, q) /\ SameLoops(p, q)
             /\ p.run = "syn" /\ q.add = p.add /\ q.closed = p.closed
             /\ \/ /\ q.run = "loop" /\ q.killed = p.killed
                   /\ Queue(s, Msg(IF s = "proxy" THEN "synok" ELSE "syn", c, p.sent))
                \/ /\ q.run = "done" /\ q.killed = TRUE
                   /\ UNCHANGED wMsg
             /\ UNCHANGED <<portMap, wire, loop, dying>>
<1> DEFINE p == conn[s][c]
           q == conn'[s][c]
           m == Msg(IF s = "proxy" THEN "synok" ELSE "syn", c, p.sent)
<1>1. p \in P2pConns /\ Elsewhere(s, c) /\ p.run = "syn"
      /\ UNCHANGED <<portMap, wire, loop, dying>>
  BY PutFacts DEF SendSyn
<1>2. \/ q = [p EXCEPT !.run = "loop"] /\ Queue(s, m)
      \/ q = [p EXCEPT !.run = "done", !.killed = TRUE] /\ UNCHANGED wMsg
  BY PutFacts DEF SendSyn
<1> HIDE DEF p, q, m
<1>3. CASE q = [p EXCEPT !.run = "loop"] /\ Queue(s, m)
  BY <1>1, <1>3 DEF SameQueues, SamePipe, SameLoops, P2pConns, p, q, m
<1>4. CASE q = [p EXCEPT !.run = "done", !.killed = TRUE] /\ UNCHANGED wMsg
  BY <1>1, <1>4 DEF SameQueues, SamePipe, SameLoops, P2pConns, p, q, m
<1> QED
  BY <1>2, <1>3, <1>4

\* RunFor: Run is over, or it takes one message of in, which starts the reader
\* or goes behind rlist; then a front part of rlist goes behind wMsg.
LEMMA RunForFacts ==
  ASSUME Typed, NEW s \in Sides, NEW c \in Conns, RunFor(s, c)
  PROVE  LET p == conn[s][c]
             q == conn'[s][c]
         IN  /\ Elsewhere(s, c) /\ SamePipe(p, q)
             /\ p.run = "loop" /\ q.add = p.add /\ q.closed = p.closed
             /\ q.writer = p.writer
             /\ \/ /\ q.run = "done" /\ q.killed = TRUE
                   /\ SameQueues(p, q) /\ SameLoops(p, q)
                \/ /\ q.run = "done" /\ q.killed = TRUE
                   /\ p.in # <<>> /\ q.in = Tail(p.in) /\ q.w = p.w /\ q.rlist = p.rlist
                   /\ SameLoops(p, q)
                \/ /\ p.in # <<>> /\ Head(p.in).type = "synok"
                   /\ q.in = Tail(p.in) /\ q.w = p.w /\ q.rlist = p.rlist
                   /\ q.run = "loop" /\ q.killed = p.killed /\ q.reader = "start"
                \/ /\ p.in # <<>> /\ Head(p.in).type # "synok"
                   /\ q.in = Tail(p.in)
                   /\ \E z \in Seq(Msgs) : /\ q.w = p.w \o z
                                           /\ Append(p.rlist, Head(p.in)) = z \o q.rlist
                   /\ q.run = "loop" /\ q.killed = p.killed /\ SameLoops(p, q)
             /\ UNCHANGED <<portMap, wMsg, wire, loop, dying>>
<1> DEFINE p == conn[s][c]
           m == Head(p.in)
           cut == [p EXCEPT !.in = Tail(@)]
           q == conn'[s][c]
<1>1. p \in Good /\ p \in P2pConns
  BY DEF Typed, ConnsOK, Good
<1>2. /\ p.run = "loop" /\ Elsewhere(s, c)
      /\ UNCHANGED <<portMap, wMsg, wire, loop, dying>>
  BY PutFacts DEF RunFor
<1>3. \/ q = [p EXCEPT !.run = "done", !.killed = TRUE]
      \/ q = GoDying(s, p)
      \/ p.in # <<>> /\ m.type = "synok" /\ q = [cut EXCEPT !.reader = "start"]
      \/ p.in # <<>> /\ m.type # "synok" /\ ~Overflow(p) /\ q = WriteAll([cut EXCEPT !.rlist = Append(@, m)])
      \/ p.in # <<>> /\ q = GoDying(s, cut)
  BY PutFacts DEF RunFor
<1> HIDE DEF p, q, m
<1>4. CASE q = [p EXCEPT !.run = "done", !.killed = TRUE] \/ q = GoDying(s, p)
  BY ZenonT(60), <1>1, <1>2, <1>4 DEF GoDying, SameQueues, SamePipe, SameLoops, P2pConns, p, q
<1>5. CASE p.in # <<>> /\ m.type = "synok" /\ q = [cut EXCEPT !.reader = "start"]
  BY <1>1, <1>2, <1>5 DEF SamePipe, P2pConns, p, q, m
<1>6. CASE p.in # <<>> /\ q = GoDying(s, cut)
  <2>1. /\ cut.in = Tail(p.in) /\ cut.w = p.w /\ cut.rlist = p.rlist
        /\ SamePipe(p, cut) /\ SameLoops(p, cut) /\ SameLife(p, cut)
    BY <1>1 DEF P2pConns, SamePipe, SameLoops, SameLife
  <2>2. cut \in P2pConns
    BY <1>1, <1>6, TailGood, Fields
  <2> HIDE DEF cut
  <2>3. /\ q.in = cut.in /\ q.w = cut.w /\ q.rlist = cut.rlist
        /\ SamePipe(cut, q) /\ SameLoops(cut, q) /\ q.run = "done" /\ q.killed = TRUE
        /\ q.add = cut.add /\ q.closed = cut.closed
    BY <1>6, <2>2 DEF GoDying, SamePipe, SameLoops, P2pConns
  <2> QED
    BY <1>2, <1>6, <2>1, <2>3 DEF SamePipe, SameLoops, SameLife, p, q
<1>7. CASE p.in # <<>> /\ m.type # "synok" /\ ~Overflow(p)
           /\ q = WriteAll([cut EXCEPT !.rlist = Append(@, m)])
  <2> DEFINE r == [cut EXCEPT !.rlist = Append(@, m)]
  <2>1. m \in Msgs
    BY <1>1, <1>7, Fields, HeadTailProperties DEF m
  <2>2. cut \in Good
    BY <1>1, <1>7, TailGood
  <2>3. r \in Good
    <3>1. ~Overflow(cut)
      BY <1>1, <1>7 DEF Overflow, P2pConns
    <3> HIDE DEF cut
    <3> QED BY <2>1, <2>2, <3>1, JoinGood
  <2>4. /\ r.in = Tail(p.in) /\ r.w = p.w /\ r.rlist = Append(p.rlist, m)
        /\ SamePipe(p, r) /\ SameLoops(p, r) /\ SameLife(p, r)
    BY <1>1 DEF P2pConns, SamePipe, SameLoops, SameLife
  <2> HIDE DEF r
  <2>5. r \in P2pConns /\ Len(r.w) <= WCap
    BY <2>3, Fields DEF Fits
  <2>6. PICK x, y, z \in Seq(Msgs) : /\ WriteAll(r) = [r EXCEPT !.w = x, !.rlist = y]
                                     /\ x = r.w \o z /\ r.rlist = z \o y
                                     /\ Len(x) <= WCap /\ Len(y) <= Len(r.rlist)
    BY <2>5, WriteAllMoves
  <2>7. /\ q.w = x /\ q.rlist = y /\ q.in = r.in
        /\ SamePipe(r, q) /\ SameLoops(r, q) /\ SameLife(r, q)
    BY ZenonT(60), <2>5, <2>6, <1>7 DEF P2pConns, SamePipe, SameLoops, SameLife, r
  <2>8. /\ q.in = Tail(p.in) /\ q.w = p.w \o z /\ Append(p.rlist, m) = z \o q.rlist
        /\ SamePipe(p, q) /\ SameLoops(p, q) /\ SameLife(p, q)
    BY <2>4, <2>6, <2>7 DEF SamePipe, SameLoops, SameLife
  <2> QED
    BY <1>2, <1>7, <2>6, <2>8 DEF SamePipe, SameLoops, SameLife, p, q, m
<1> QED
  BY <1>3, <1>4, <1>5, <1>6, <1>7

\* RunTick: a front part of rlist goes behind wMsg.
LEMMA RunTickFacts ==
  ASSUME Typed, NEW s \in Sides, NEW c \in Conns, RunTick(s, c)
  PROVE  LET p == conn[s][c]
             q == conn'[s][c]
         IN  /\ Elsewhere(s, c) /\ SamePipe(p, q) /\ SameLoops(p, q) /\ SameLife(p, q)
             /\ p.run = "loop" /\ q.in = p.in
             /\ \E z \in Seq(Msgs) : q.w = p.w \o z /\ p.rlist = z \o q.rlist
             /\ UNCHANGED <<portMap, wMsg, wire, loop, dying>>
<1> DEFINE p == conn[s][c]
           q == conn'[s][c]
<1>1. p \in P2pConns /\ Len(p.w) <= WCap
  BY DEF Typed, ConnsOK, Good, Fits
<1>2. /\ p.run = "loop" /\ Elsewhere(s, c) /\ q = WriteAll(p)
      /\ UNCHANGED <<portMap, wMsg, wire, loop, dying>>
  BY PutFacts DEF RunTick
<1> HIDE DEF p, q
<1>3. PICK x, y, z \in Seq(Msgs) : /\ WriteAll(p) = [p EXCEPT !.w = x, !.rlist = y]
                                   /\ x = p.w \o z /\ p.rlist = z \o y
                                   /\ Len(x) <= WCap /\ Len(y) <= Len(p.rlist)
  BY <1>1, WriteAllMoves
<1>4. /\ q.w = x /\ q.rlist = y /\ q.in = p.in
      /\ SamePipe(p, q) /\ SameLoops(p, q) /\ SameLife(p, q)
  BY <1>1, <1>2, <1>3 DEF P2pConns, SamePipe, SameLoops, SameLife
<1> QED
  BY <1>2, <1>3, <1>4 DEF p, q

\* SetupHdr: the reader goes on to read.
LEMMA SetupHdrFacts ==
  ASSUME Typed, NEW s \in Sides, NEW c \in Conns, SetupHdr(s, c)
  PROVE  LET p == conn[s][c]
             q == conn'[s][c]
         IN  /\ Elsewhere(s, c) /\ SameQueues(p, q) /\ SamePipe(p, q) /\ SameLife(p, q)
             /\ p.reader = "start" /\ q.reader = "read" /\ q.writer = p.writer
             /\ UNCHANGED <<portMap, wMsg, wire, loop, dying>>
<1> DEFINE p == conn[s][c]
           q == conn'[s][c]
<1>1. /\ p \in P2pConns /\ Elsewhere(s, c) /\ p.reader = "start"
      /\ q = [p EXCEPT !.reader = "read", !.mbFin = p.finHdr]
      /\ UNCHANGED <<portMap, wMsg, wire, loop, dying>>
  BY PutFacts DEF SetupHdr
<1> HIDE DEF p, q
<1> QED
  BY <1>1 DEF SameQueues, SamePipe, SameLife, P2pConns, p, q

\* Read: the reader holds data, or it ends.
LEMMA ReadFacts ==
  ASSUME Typed, NEW s \in Sides, NEW c \in Conns, Read(s, c)
  PROVE  LET p == conn[s][c]
             q == conn'[s][c]
         IN  /\ Elsewhere(s, c) /\ SameQueues(p, q) /\ SamePipe(p, q) /\ SameLife(p, q)
             /\ p.reader = "read" /\ q.writer = p.writer
             /\ q.reader \in {"data", "fin", "end"}
             /\ UNCHANGED <<portMap, wMsg, wire, loop, dying>>
<1> DEFINE p == conn[s][c]
           q == conn'[s][c]
           r == [p EXCEPT !.finHdr = TRUE, !.mbFin = FALSE]
<1>1. p \in P2pConns /\ Elsewhere(s, c) /\ p.reader = "read"
      /\ UNCHANGED <<portMap, wMsg, wire, loop, dying>>
  BY PutFacts DEF Read
<1>2. \/ q = [p EXCEPT !.reader = "data", !.reads = @ + 1]
      \/ q = [r EXCEPT !.reader = "end"]
      \/ q = [r EXCEPT !.reader = "fin"]
  BY PutFacts DEF Read
<1> HIDE DEF p, q
<1>3. CASE q = [p EXCEPT !.reader = "data", !.reads = @ + 1]
  BY <1>1, <1>3 DEF SameQueues, SamePipe, SameLife, P2pConns, p, q
<1>4. CASE q = [r EXCEPT !.reader = "end"]
  BY <1>1, <1>4 DEF SameQueues, SamePipe, SameLife, P2pConns, p, q
<1>5. CASE q = [r EXCEPT !.reader = "fin"]
  BY <1>1, <1>5 DEF SameQueues, SamePipe, SameLife, P2pConns, p, q
<1> QED
  BY <1>2, <1>3, <1>4, <1>5

\* SaysFin sets one field.
LEMMA SaysFacts ==
  ASSUME NEW r \in P2pConns
  PROVE  LET q == SaysFin(r) IN
         /\ SameQueues(r, q) /\ SameLoops(r, q) /\ SameLife(r, q)
         /\ q.out = r.out /\ q.told = r.told /\ q.sent = r.sent
         /\ q.said = IF r.said = None THEN r.sent ELSE r.said
  BY DEF SaysFin, SameQueues, SameLoops, SameLife, P2pConns

\* PushData: a piece of data, a MsgTypeFin in its place, or nothing.
LEMMA PushDataFacts ==
  ASSUME Typed, NEW s \in Sides, NEW c \in Conns, PushData(s, c)
  PROVE  LET p == conn[s][c]
             q == conn'[s][c]
         IN  /\ Elsewhere(s, c) /\ SameQueues(p, q) /\ SameLife(p, q)
             /\ q.out = p.out /\ q.told = p.told
             /\ p.reader = "data" /\ q.writer = p.writer
             /\ \/ /\ Open(s) /\ Queue(s, Msg("data", c, p.sent + 1))
                   /\ q.reader = "start" /\ q.sent = p.sent + 1 /\ q.said = p.said
                \/ SendsFin(s, c, p, q) /\ q.reader = "start"
                \/ q.reader = "end" /\ SamePipe(p, q) /\ UNCHANGED wMsg
             /\ UNCHANGED <<portMap, wire, loop, dying>>
<1> DEFINE p == conn[s][c]
           q == conn'[s][c]
           r == [p EXCEPT !.reader = "start", !.mbFin = FALSE]
<1>1. p \in P2pConns /\ Elsewhere(s, c) /\ p.reader = "data"
      /\ UNCHANGED <<portMap, wire, loop, dying>>
  BY PutFacts DEF PushData
<1>2. \/ /\ q = [r EXCEPT !.sent = @ + 1] /\ Open(s)
         /\ Queue(s, Msg("data", c, p.sent + 1))
      \/ q = SaysFin(r) /\ Open(s) /\ Queue(s, Msg("fin", c, p.sent))
      \/ q = [r EXCEPT !.reader = "end"] /\ UNCHANGED wMsg
  BY PutFacts DEF PushData
<1> HIDE DEF p, q
<1>3. /\ r \in P2pConns /\ SameQueues(p, r) /\ SamePipe(p, r) /\ SameLife(p, r)
      /\ r.reader = "start" /\ r.writer = p.writer
  BY <1>1 DEF SameQueues, SamePipe, SameLife, P2pConns
<1> HIDE DEF r
<1>4. CASE /\ q = [r EXCEPT !.sent = @ + 1] /\ Open(s)
           /\ Queue(s, Msg("data", c, p.sent + 1))
  <2>1. /\ SameQueues(r, q) /\ SameLife(r, q) /\ SameLoops(r, q)
        /\ q.out = r.out /\ q.told = r.told /\ q.sent = r.sent + 1 /\ q.said = r.said
    BY <1>3, <1>4 DEF SameQueues, SameLife, SameLoops, P2pConns
  <2> QED
    BY <1>1, <1>3, <1>4, <2>1 DEF SameQueues, SamePipe, SameLife, SameLoops, p, q
<1>5. CASE q = SaysFin(r) /\ Open(s) /\ Queue(s, Msg("fin", c, p.sent))
  <2>1. /\ SameQueues(r, q) /\ SameLoops(r, q) /\ SameLife(r, q)
        /\ q.out = r.out /\ q.told = r.told /\ q.sent = r.sent
        /\ q.said = IF r.said = None THEN r.sent ELSE r.said
    BY <1>3, <1>5, SaysFacts
  <2> QED
    BY <1>1, <1>3, <1>5, <2>1
       DEF SameQueues, SamePipe, SameLife, SameLoops, SendsFin, p, q
<1>6. CASE q = [r EXCEPT !.reader = "end"] /\ UNCHANGED wMsg
  <2>1. SameQueues(r, q) /\ SamePipe(r, q) /\ SameLife(r, q) /\ q.reader = "end" /\ q.writer = r.writer
    BY <1>3, <1>6 DEF SameQueues, SamePipe, SameLife, P2pConns
  <2> QED
    BY <1>1, <1>3, <1>6, <2>1 DEF SameQueues, SamePipe, SameLife, p, q
<1> QED
  BY <1>2, <1>4, <1>5, <1>6

\* PushFin: at most a MsgTypeFin is sent, and the connection is killed.
LEMMA PushFinFacts ==
  ASSUME Typed, NEW s \in Sides, NEW c \in Conns, PushFin(s, c)
  PROVE  LET p == conn[s][c]
             q == conn'[s][c]
         IN  /\ Elsewhere(s, c) /\ SameQueues(p, q)
             /\ q.out = p.out /\ q.told = p.told /\ q.sent = p.sent
             /\ p.reader = "fin" /\ q.reader = "end" /\ q.writer = p.writer
             /\ q.run = p.run /\ q.add = p.add
             /\ q.closed = p.closed /\ q.killed = TRUE
             /\ SendsFin(s, c, p, q) \/ (SamePipe(p, q) /\ UNCHANGED wMsg)
             /\ UNCHANGED <<portMap, wire, loop, dying>>
<1> DEFINE p == conn[s][c]
           q == conn'[s][c]
           r == [p EXCEPT !.reader = "end", !.killed = TRUE]
<1>1. /\ p \in P2pConns /\ Elsewhere(s, c) /\ p.reader = "fin"
      /\ \/ q = SaysFin(r) /\ Open(s) /\ Queue(s, Msg("fin", c, p.sent))
         \/ q = r /\ UNCHANGED wMsg
      /\ UNCHANGED <<portMap, wire, loop, dying>>
  BY PutFacts DEF PushFin
<1> HIDE DEF p, q
<1>2. /\ r \in P2pConns /\ SameQueues(p, r) /\ SamePipe(p, r)
      /\ r.reader = "end" /\ r.writer = p.writer
      /\ r.run = p.run /\ r.add = p.add /\ r.closed = p.closed /\ r.killed = TRUE
  BY <1>1 DEF SameQueues, SamePipe, P2pConns
<1> HIDE DEF r
<1>3. CASE q = SaysFin(r) /\ Open(s) /\ Queue(s, Msg("fin", c, p.sent))
  <2>1. /\ SameQueues(r, q) /\ SameLoops(r, q) /\ SameLife(r, q)
        /\ q.out = r.out /\ q.told = r.told /\ q.sent = r.sent
        /\ q.said = IF r.said = None THEN r.sent ELSE r.said
    BY <1>2, <1>3, SaysFacts
  <2> QED
    BY <1>1, <1>2, <1>3, <2>1
       DEF SameQueues, SamePipe, SameLife, SameLoops, SendsFin, p, q
<1>4. CASE q = r /\ UNCHANGED wMsg
  BY <1>1, <1>2, <1>4 DEF SamePipe, p, q
<1> QED
  BY <1>1, <1>3, <1>4

\* WriterFin: the same of the writer.
LEMMA WriterFinFacts ==
  ASSUME Typed, NEW s \in Sides, NEW c \in Conns, WriterFin(s, c)
  PROVE  LET p == conn[s][c]
             q == conn'[s][c]
         IN  /\ Elsewhere(s, c) /\ SameQueues(p, q)
             /\ q.out = p.out /\ q.told = p.told /\ q.sent = p.sent
             /\ p.writer = "fin" /\ q.writer = "end" /\ q.reader = p.reader
             /\ q.run = p.run /\ q.add = p.add
             /\ q.closed = p.closed /\ q.killed = TRUE
             /\ SendsFin(s, c, p, q) \/ (SamePipe(p, q) /\ UNCHANGED wMsg)
             /\ UNCHANGED <<portMap, wire, loop, dying>>
<1> DEFINE p == conn[s][c]
           q == conn'[s][c]
           r == [p EXCEPT !.writer = "end", !.killed = TRUE]
<1>1. /\ p \in P2pConns /\ Elsewhere(s, c) /\ p.writer = "fin"
      /\ \/ q = SaysFin(r) /\ Open(s) /\ Queue(s, Msg("fin", c, p.sent))
         \/ q = r /\ UNCHANGED wMsg
      /\ UNCHANGED <<portMap, wire, loop, dying>>
  BY PutFacts DEF WriterFin
<1> HIDE DEF p, q
<1>2. /\ r \in P2pConns /\ SameQueues(p, r) /\ SamePipe(p, r)
      /\ r.writer = "end" /\ r.reader = p.reader
      /\ r.run = p.run /\ r.add = p.add /\ r.closed = p.closed /\ r.killed = TRUE
  BY <1>1 DEF SameQueues, SamePipe, P2pConns
<1> HIDE DEF r
<1>3. CASE q = SaysFin(r) /\ Open(s) /\ Queue(s, Msg("fin", c, p.sent))
  <2>1. /\ SameQueues(r, q) /\ SameLoops(r, q) /\ SameLife(r, q)
        /\ q.out = r.out /\ q.told = r.told /\ q.sent = r.sent
        /\ q.said = IF r.said = None THEN r.sent ELSE r.said
    BY <1>2, <1>3, SaysFacts
  <2> QED
    BY <1>1, <1>2, <1>3, <2>1
       DEF SameQueues, SamePipe, SameLife, SameLoops, SendsFin, p, q
<1>4. CASE q = r /\ UNCHANGED wMsg
  BY <1>1, <1>2, <1>4 DEF SamePipe, p, q
<1> QED
  BY <1>1, <1>3, <1>4

\* Write: data is written or the write fails; MsgTypeFin or MsgTypeSynErr end
\* the connection; another type is passed over; or the writer sees that the
\* connection was killed and takes nothing.
LEMMA WriteFacts ==
  ASSUME Typed, NEW s \in Sides, NEW c \in Conns, Write(s, c)
  PROVE  LET p == conn[s][c]
             q == conn'[s][c]
             m == Head(p.w)
         IN  /\ Elsewhere(s, c) /\ q.in = p.in /\ q.rlist = p.rlist
             /\ q.sent = p.sent /\ q.said = p.said /\ q.run = p.run /\ q.add = p.add /\ q.closed = p.closed
             /\ p.writer = "write" /\ q.reader = p.reader
             /\ \/ /\ p.w # <<>> /\ m.type = "data" /\ q.w = Tail(p.w) /\ ~p.closed
                   /\ q.out = Append(p.out, <<m.conn, m.n>>) /\ q.told = p.told
                   /\ q.writer = "write" /\ q.killed = p.killed
                \/ /\ p.w # <<>> /\ m.type = "data" /\ q.w = Tail(p.w)
                   /\ q.out = p.out /\ q.told = p.told
                   /\ q.writer = "fin" /\ q.killed = p.killed
                \/ /\ p.w # <<>> /\ m.type \in Ending /\ q.w = Tail(p.w)
                   /\ q.out = p.out /\ q.told = m.n
                   /\ q.writer = "end" /\ q.killed = TRUE
                \/ /\ p.w # <<>> /\ m.type \notin Ending \union {"data"} /\ q.w = Tail(p.w)
                   /\ q.out = p.out /\ q.told = p.told
                   /\ q.writer = "write" /\ q.killed = p.killed
                \/ /\ p.killed /\ q.w = p.w /\ q.out = p.out /\ q.told = p.told
                   /\ q.writer = "end" /\ q.killed = p.killed
             /\ UNCHANGED <<portMap, wMsg, wire, loop, dying>>
<1> DEFINE p == conn[s][c]
           q == conn'[s][c]
           m == Head(p.w)
           cut == [p EXCEPT !.w = Tail(@)]
           e == <<m.conn, m.n>>
<1>1. p \in P2pConns /\ Elsewhere(s, c) /\ p.writer = "write"
      /\ UNCHANGED <<portMap, wMsg, wire, loop, dying>>
  BY ZenonT(60), PutFacts DEF Write
<1>2. \/ p.w # <<>> /\ m.type = "data" /\ ~p.closed /\ q = [cut EXCEPT !.out = Append(@, e)]
      \/ p.w # <<>> /\ m.type = "data" /\ q = [cut EXCEPT !.writer = "fin", !.finHdr = TRUE]
      \/ /\ p.w # <<>> /\ m.type \in Ending
         /\ q = [cut EXCEPT !.writer = "end", !.killed = TRUE, !.told = m.n]
      \/ p.w # <<>> /\ m.type \notin Ending \union {"data"} /\ q = cut
      \/ p.killed /\ q = [p EXCEPT !.writer = "end"]
  <2>1. \A x : Put(s, c, x) => q = x
    BY PutFacts
  <2> HIDE DEF q
  <2> QED BY <2>1 DEF Write
<1>3. /\ cut.w = Tail(p.w) /\ cut.in = p.in /\ cut.rlist = p.rlist
      /\ SamePipe(p, cut) /\ SameLoops(p, cut) /\ SameLife(p, cut)
  BY <1>1 DEF P2pConns, SamePipe, SameLoops, SameLife
<1>4. p.w # <<>> => cut \in P2pConns
  <2>1. p \in Good
    BY DEF Typed, ConnsOK
  <2> QED BY <2>1, TailGood, Fields
<1> HIDE DEF p, q, m, cut, e
<1>5. CASE p.w # <<>> /\ m.type = "data" /\ ~p.closed /\ q = [cut EXCEPT !.out = Append(@, e)]
  <2>1. /\ q.w = cut.w /\ q.in = cut.in /\ q.rlist = cut.rlist /\ q.out = Append(cut.out, e)
        /\ q.told = cut.told /\ q.sent = cut.sent /\ q.said = cut.said /\ SameLoops(cut, q) /\ SameLife(cut, q)
    BY <1>4, <1>5 DEF P2pConns, SameLoops, SameLife
  <2> QED
    BY <1>1, <1>3, <1>5, <2>1 DEF SamePipe, SameLoops, SameLife, p, q, m, e
<1>6. CASE p.w # <<>> /\ m.type = "data" /\ q = [cut EXCEPT !.writer = "fin", !.finHdr = TRUE]
  <2>1. /\ q.w = cut.w /\ q.in = cut.in /\ q.rlist = cut.rlist
        /\ q.reader = cut.reader /\ q.writer = "fin"
        /\ SamePipe(cut, q) /\ SameLife(cut, q)
    BY <1>4, <1>6 DEF P2pConns, SamePipe, SameLife
  <2> QED
    BY <1>1, <1>3, <1>6, <2>1 DEF SamePipe, SameLoops, SameLife, p, q, m
<1>7. CASE /\ p.w # <<>> /\ m.type \in Ending
           /\ q = [cut EXCEPT !.writer = "end", !.killed = TRUE, !.told = m.n]
  <2>1. /\ q.w = cut.w /\ q.in = cut.in /\ q.rlist = cut.rlist
        /\ q.reader = cut.reader /\ q.writer = "end"
        /\ q.out = cut.out /\ q.sent = cut.sent /\ q.said = cut.said /\ q.told = m.n
        /\ q.run = cut.run /\ q.add = cut.add /\ q.closed = cut.closed /\ q.killed = TRUE
    BY <1>4, <1>7 DEF P2pConns
  <2> QED
    BY <1>1, <1>3, <1>7, <2>1 DEF SamePipe, SameLoops, SameLife, p, q, m
<1>8. CASE p.w # <<>> /\ m.type \notin Ending \union {"data"} /\ q = cut
  BY <1>1, <1>3, <1>8 DEF SamePipe, SameLoops, SameLife, p, q, m
<1>9. CASE p.killed /\ q = [p EXCEPT !.writer = "end"]
  <2>1. /\ SameQueues(p, q) /\ SamePipe(p, q) /\ SameLife(p, q)
        /\ q.reader = p.reader /\ q.writer = "end"
    BY <1>1, <1>9 DEF P2pConns, SameQueues, SamePipe, SameLife
  <2> QED
    BY <1>1, <1>9, <2>1 DEF SameQueues, SamePipe, SameLife, p, q
<1> QED
  BY <1>2, <1>5, <1>6, <1>7, <1>8, <1>9

\* The answer of a promise, and its end, change nothing but the promise.
LEMMA PromiseFacts ==
  ASSUME Typed, NEW s \in Sides, NEW c \in Conns,
         PromiseEnds(s, c) \/ (Answered(s) /\ loop[s].conn = c)
  PROVE  LET p == conn[s][c]
             q == conn'[s][c]
         IN  /\ Elsewhere(s, c) /\ SameQueues(p, q) /\ SamePipe(p, q) /\ SameLoops(p, q)
             /\ q.run = p.run /\ q.add \in {p.add, "over"}
             /\ q.closed = p.closed /\ q.killed = p.killed
             /\ \/ UNCHANGED loop
                \/ loop[s].at = "answer" /\ loop' = [loop EXCEPT ![s] = Select]
                \/ loop[s] = Gone /\ loop' = [loop EXCEPT ![s] = Crashed]
             /\ UNCHANGED <<portMap, wMsg, wire, dying>>
<1> DEFINE p == conn[s][c]
           q == conn'[s][c]
<1>1. /\ Put(s, c, [p EXCEPT !.add = "over"]) \/ Put(s, c, [p EXCEPT !.rm = "over"])
      /\ UNCHANGED <<portMap, wMsg, wire, dying>>
      /\ \/ UNCHANGED loop
         \/ loop[s].at = "answer" /\ loop' = [loop EXCEPT ![s] = Select]
         \/ loop[s] = Gone /\ loop' = [loop EXCEPT ![s] = Crashed]
  <2>1. CASE PromiseEnds(s, c)
    BY <2>1 DEF PromiseEnds, Open
  <2>2. CASE Answered(s) /\ loop[s].conn = c
    BY <2>2 DEF Answered
  <2> QED BY <2>1, <2>2
<1>2. /\ p \in P2pConns /\ Elsewhere(s, c)
      /\ q = [p EXCEPT !.add = "over"] \/ q = [p EXCEPT !.rm = "over"]
  BY <1>1, PutFacts
<1> HIDE DEF p, q
<1>3. /\ SameQueues(p, q) /\ SamePipe(p, q) /\ SameLoops(p, q)
      /\ q.run = p.run /\ q.add \in {p.add, "over"}
      /\ q.closed = p.closed /\ q.killed = p.killed
  <2>1. CASE q = [p EXCEPT !.add = "over"]
    BY <1>2, <2>1 DEF P2pConns, SameQueues, SamePipe, SameLoops
  <2>2. CASE q = [p EXCEPT !.rm = "over"]
    BY <1>2, <2>2 DEF P2pConns, SameQueues, SamePipe, SameLoops
  <2> QED BY <1>2, <2>1, <2>2
<1> QED
  BY <1>1, <1>2, <1>3 DEF p, q

\* Close empties the queues and marks the connection closed and killed.
LEMMA ClosedFacts ==
  ASSUME NEW p \in P2pConns
  PROVE  LET q == Closed(p)
         IN  /\ SamePipe(p, q) /\ SameLoops(p, q) /\ q.run = p.run /\ q.add = p.add
             /\ q.closed = TRUE /\ q.killed = TRUE
             /\ q.in = <<>> /\ q.w = <<>> /\ q.rlist = <<>>
<1> DEFINE e == <<>>
           q == Closed(p)
<1>1. q = [p EXCEPT !.closed = TRUE, !.killed = TRUE, !.in = e, !.w = e, !.rlist = e]
  BY Zenon DEF Closed
<1> HIDE DEF e, q
<1>2. /\ SamePipe(p, q) /\ SameLoops(p, q) /\ q.run = p.run /\ q.add = p.add
      /\ q.closed = TRUE /\ q.killed = TRUE
      /\ q.in = e /\ q.w = e /\ q.rlist = e
  BY <1>1 DEF P2pConns, SamePipe, SameLoops
<1> QED
  BY <1>2 DEF e, q

\* RemoveConn: nothing when the port is free; else what portMap has there is
\* closed, after Run is over, and taken out.
LEMMA RemoveConnFacts ==
  ASSUME Typed, NEW s \in Sides, NEW c \in Conns, RemoveConn(s, c)
  PROVE  LET p == conn[s][c]
             q == conn'[s][c]
         IN  /\ Elsewhere(s, c) /\ SamePipe(p, q) /\ SameLoops(p, q)
             /\ q.run = p.run /\ q.add = p.add
             /\ \/ /\ portMap[s][Port[c]] = NoConn /\ UNCHANGED portMap
                   /\ SameQueues(p, q) /\ q.closed = p.closed /\ q.killed = p.killed
                \/ /\ portMap[s][Port[c]] # NoConn /\ portMap' = Without(s, c)
                   /\ p.run = "done" /\ q.closed = TRUE /\ q.killed = TRUE
                   /\ q.in = <<>> /\ q.w = <<>> /\ q.rlist = <<>>
             /\ loop[s] = Select /\ loop' = [loop EXCEPT ![s] = Answering(c, "rm")]
             /\ UNCHANGED <<wMsg, wire, dying>>
<1> DEFINE p == conn[s][c]
           q == conn'[s][c]
           r == [p EXCEPT !.rm = "sent"]
<1>1. /\ loop[s] = Select /\ loop' = [loop EXCEPT ![s] = Answering(c, "rm")]
      /\ UNCHANGED <<wMsg, wire, dying>>
      /\ p \in P2pConns /\ Elsewhere(s, c)
      /\ \/ portMap[s][Port[c]] = NoConn /\ UNCHANGED portMap /\ q = r
         \/ /\ portMap[s][Port[c]] # NoConn /\ portMap' = Without(s, c)
            /\ p.run = "done" /\ q = Closed(r)
  BY PutFacts DEF RemoveConn
<1> HIDE DEF p, q
<1>2. /\ SameQueues(p, r) /\ SamePipe(p, r) /\ SameLoops(p, r) /\ SameLife(p, r)
  BY <1>1 DEF P2pConns, SameQueues, SamePipe, SameLoops, SameLife
<1>3. r \in P2pConns
  BY <1>1 DEF P2pConns
<1> HIDE DEF r
<1>4. CASE portMap[s][Port[c]] = NoConn /\ UNCHANGED portMap /\ q = r
  BY <1>1, <1>2, <1>4 DEF p, q, SameLife
<1>5. CASE /\ portMap[s][Port[c]] # NoConn /\ portMap' = Without(s, c)
           /\ p.run = "done" /\ q = Closed(r)
  <2>1. /\ SamePipe(r, q) /\ SameLoops(r, q) /\ q.run = r.run /\ q.add = r.add
        /\ q.closed = TRUE /\ q.killed = TRUE
        /\ q.in = <<>> /\ q.w = <<>> /\ q.rlist = <<>>
    BY <1>3, <1>5, ClosedFacts
  <2>2. SamePipe(p, q) /\ SameLoops(p, q) /\ q.run = p.run /\ q.add = p.add
    BY <1>2, <2>1 DEF SamePipe, SameLoops, SameLife
  <2> QED
    BY <1>1, <1>5, <2>1, <2>2 DEF p, q
<1> QED
  BY <1>1, <1>4, <1>5

\* KcpRecv: RunC is to push the message, or a dial starts, or it is dropped.
LEMMA KcpRecvFacts ==
  ASSUME Typed, NEW s \in Sides, KcpRecv(s)
  PROVE  LET from == wire[Other(s)]
             m    == Head(from)
         IN  /\ from # <<>> /\ wire' = [wire EXCEPT ![Other(s)] = Tail(wire[Other(s)])]
             /\ m \in Msgs /\ m.conn \in Conns /\ loop[s] = Select
             /\ \/ \E d \in Conns :
                     /\ m.port \in Ports /\ portMap[s][m.port] = d
                     /\ loop' = [loop EXCEPT ![s] = Pushing(d, m)]
                     /\ UNCHANGED conn
                \/ /\ m.port \in Ports => portMap[s][m.port] = NoConn
                   /\ m.type = "syn" /\ UNCHANGED loop
                   /\ LET p == conn[s][m.conn]
                          q == conn'[s][m.conn]
                      IN  /\ Elsewhere(s, m.conn)
                          /\ SameQueues(p, q) /\ SamePipe(p, q) /\ SameLoops(p, q)
                          /\ q.run = "dialing" /\ q.add = p.add
                          /\ q.closed = p.closed /\ q.killed = p.killed
                \/ /\ m.port \in Ports => portMap[s][m.port] = NoConn
                   /\ m.type # "syn" /\ UNCHANGED <<conn, loop>>
             /\ UNCHANGED <<portMap, wMsg, dying>>
<1> DEFINE from == wire[Other(s)]
           m    == Head(from)
           d    == IF m.port \in Ports THEN portMap[s][m.port] ELSE NoConn
           c    == m.conn
           p    == conn[s][c]
           q    == conn'[s][c]
<1>1. m \in Msgs /\ c \in Conns
  BY Received DEF KcpRecv
<1>2. d # NoConn => d \in Conns /\ m.port \in Ports /\ portMap[s][m.port] = d
  BY DEF Typed, PortsOK
<1>3. d = NoConn /\ m.port \in Ports => portMap[s][m.port] = NoConn
  OBVIOUS
<1>4. /\ from # <<>> /\ wire' = [wire EXCEPT ![Other(s)] = Tail(wire[Other(s)])] /\ loop[s] = Select
      /\ UNCHANGED <<portMap, wMsg, dying>>
      /\ \/ d # NoConn /\ loop' = [loop EXCEPT ![s] = Pushing(d, m)] /\ UNCHANGED conn
         \/ /\ d = NoConn /\ UNCHANGED loop /\ m.type = "syn"
            /\ Put(s, c, [p EXCEPT !.run = "dialing"])
         \/ d = NoConn /\ UNCHANGED <<conn, loop>> /\ m.type # "syn"
  BY DEF KcpRecv
<1> HIDE DEF d
<1>5. CASE d # NoConn /\ loop' = [loop EXCEPT ![s] = Pushing(d, m)] /\ UNCHANGED conn
  <2>1. d \in Conns /\ m.port \in Ports /\ portMap[s][m.port] = d
    BY <1>2, <1>5
  <2> QED BY <1>1, <1>4, <1>5, <2>1
<1>6. CASE /\ d = NoConn /\ UNCHANGED loop /\ m.type = "syn"
           /\ Put(s, c, [p EXCEPT !.run = "dialing"])
  <2>1. p \in P2pConns /\ Elsewhere(s, c) /\ q = [p EXCEPT !.run = "dialing"]
    BY <1>1, <1>6, PutFacts
  <2> HIDE DEF p, q
  <2>2. /\ SameQueues(p, q) /\ SamePipe(p, q) /\ SameLoops(p, q)
        /\ q.run = "dialing" /\ q.add = p.add
        /\ q.closed = p.closed /\ q.killed = p.killed
    BY <2>1 DEF P2pConns, SameQueues, SamePipe, SameLoops
  <2> QED BY <1>1, <1>3, <1>4, <1>6, <2>1, <2>2 DEF p, q, from
<1>7. CASE d = NoConn /\ UNCHANGED <<conn, loop>> /\ m.type # "syn"
  BY <1>1, <1>3, <1>4, <1>7
<1> QED
  BY <1>4, <1>5, <1>6, <1>7

\* PushIn: the message is the last of in, and RunC goes on.
LEMMA PushInFacts ==
  ASSUME Typed, NEW s \in Sides, PushIn(s)
  PROVE  LET d == loop[s].conn
             m == loop[s].msg
             p == conn[s][d]
             q == conn'[s][d]
         IN  /\ loop[s].at = "push" /\ d \in Conns /\ m \in Msgs
             /\ Elsewhere(s, d) /\ SamePipe(p, q) /\ SameLoops(p, q) /\ SameLife(p, q)
             /\ q.in = Append(p.in, m) /\ q.w = p.w /\ q.rlist = p.rlist
             /\ loop' = [loop EXCEPT ![s] = Select]
             /\ UNCHANGED <<portMap, wMsg, wire, dying>>
<1> DEFINE d == loop[s].conn
           m == loop[s].msg
           p == conn[s][d]
           q == conn'[s][d]
           x == Append(p.in, m)
<1>1. /\ loop[s].at = "push" /\ d \in Conns /\ m \in Msgs
      /\ Put(s, d, [p EXCEPT !.in = x])
      /\ loop' = [loop EXCEPT ![s] = Select]
      /\ UNCHANGED <<portMap, wMsg, wire, dying>>
  BY StandsAt DEF PushIn
<1>2. p \in P2pConns /\ Elsewhere(s, d) /\ q = [p EXCEPT !.in = x]
  <2> HIDE DEF d, x
  <2> QED BY <1>1, PutFacts
<1> HIDE DEF p, q, x
<1>3. /\ q.in = x /\ q.w = p.w /\ q.rlist = p.rlist
      /\ SamePipe(p, q) /\ SameLoops(p, q) /\ SameLife(p, q)
  BY <1>2 DEF P2pConns, SamePipe, SameLoops, SameLife
<1> QED
  BY <1>1, <1>2, <1>3 DEF p, q, x

\* The connection is the one portMap has under its port.
Routed(s, c) == portMap[s][Port[c]] = c

\* DoDying kills the connections in portMap and nothing else changes.
LEMMA DoDyingFacts ==
  ASSUME Typed, NEW s \in Sides, DoDying(s)
  PROVE  /\ \A t \in Sides, c \in Conns :
              LET p == conn[t][c]
                  q == conn'[t][c]
              IN  /\ SameQueues(p, q) /\ SamePipe(p, q) /\ SameLoops(p, q)
                  /\ q.run = p.run /\ q.add = p.add /\ q.closed = p.closed
                  /\ q.killed <=> (p.killed \/ (t = s /\ Routed(s, c)))
         /\ loop[s] = Select /\ loop' = [loop EXCEPT ![s] = Returned]
         /\ UNCHANGED <<portMap, wMsg, wire>>
<1>1. ASSUME NEW c \in Conns
      PROVE  LET p == conn[s][c]
                 q == conn'[s][c]
             IN  /\ SameQueues(p, q) /\ SamePipe(p, q) /\ SameLoops(p, q)
                 /\ q.run = p.run /\ q.add = p.add /\ q.closed = p.closed
                 /\ q.killed <=> (p.killed \/ Routed(s, c))
  <2> DEFINE p == conn[s][c]
             q == conn'[s][c]
  <2>1. p \in P2pConns /\ q = IF Routed(s, c) THEN [p EXCEPT !.killed = TRUE] ELSE p
    BY DEF Listed, Routed, DoDying, Typed, ConnsOK, Good
  <2> HIDE DEF p, q
  <2>2. CASE Routed(s, c)
    <3>1. /\ SameQueues(p, q) /\ SamePipe(p, q) /\ SameLoops(p, q)
          /\ q.run = p.run /\ q.add = p.add /\ q.closed = p.closed /\ q.killed = TRUE
      BY <2>1, <2>2 DEF P2pConns, SameQueues, SamePipe, SameLoops
    <3> QED BY <2>2, <3>1 DEF p, q
  <2>3. CASE ~Routed(s, c)
    <3>1. q = p /\ p.killed \in BOOLEAN
      BY <2>1, <2>3 DEF P2pConns
    <3>2. /\ SameQueues(p, q) /\ SamePipe(p, q) /\ SameLoops(p, q)
          /\ q.run = p.run /\ q.add = p.add /\ q.closed = p.closed
      BY <3>1 DEF SameQueues, SamePipe, SameLoops
    <3> QED BY <2>3, <3>1, <3>2 DEF p, q
  <2> QED BY <2>2, <2>3
<1>2. ASSUME NEW t \in Sides, t # s, NEW c \in Conns
      PROVE  conn'[t][c] = conn[t][c] /\ conn[t][c].killed \in BOOLEAN
  BY <1>2 DEF DoDying, Typed, ConnsOK, Good, P2pConns
<1>3. /\ loop[s] = Select /\ loop' = [loop EXCEPT ![s] = Returned]
      /\ UNCHANGED <<portMap, wMsg, wire>>
  BY DEF DoDying
<1>4. ASSUME NEW t \in Sides, t # s, NEW c \in Conns
      PROVE  LET p == conn[t][c]
                 q == conn'[t][c]
             IN  /\ SameQueues(p, q) /\ SamePipe(p, q) /\ SameLoops(p, q)
                 /\ q.run = p.run /\ q.add = p.add /\ q.closed = p.closed
                 /\ q.killed <=> (p.killed \/ (t = s /\ Routed(s, c)))
  BY <1>2, <1>4 DEF SameQueues, SamePipe, SameLoops
<1>5. ASSUME NEW t \in Sides, NEW c \in Conns
      PROVE  LET p == conn[t][c]
                 q == conn'[t][c]
             IN  /\ SameQueues(p, q) /\ SamePipe(p, q) /\ SameLoops(p, q)
                 /\ q.run = p.run /\ q.add = p.add /\ q.closed = p.closed
                 /\ q.killed <=> (p.killed \/ (t = s /\ Routed(s, c)))
  <2>1. CASE t = s
    BY <1>1, <2>1
  <2>2. CASE t # s
    BY <1>4, <2>2
  <2> QED BY <2>1, <2>2
<1> QED
  BY <1>3, <1>5

\* P2pClient.Close closes the connections in portMap, of which Run is over,
\* empties portMap and drops what was queued.
LEMMA CloseP2pFacts ==
  ASSUME Typed, NEW s \in Sides, CloseP2p(s)
  PROVE  /\ \A c \in Conns :
              LET p == conn[s][c]
                  q == conn'[s][c]
              IN  /\ SamePipe(p, q) /\ SameLoops(p, q) /\ q.run = p.run /\ q.add = p.add
                  /\ Routed(s, c) => /\ p.run = "done" /\ q.closed = TRUE /\ q.killed = TRUE
                                        /\ q.in = <<>> /\ q.w = <<>> /\ q.rlist = <<>>
                  /\ ~Routed(s, c) => /\ SameQueues(p, q)
                                           /\ q.closed = p.closed /\ q.killed = p.killed
         /\ \A t \in Sides, c \in Conns : t # s => conn'[t][c] = conn[t][c]
         /\ portMap' = [portMap EXCEPT ![s] = [p \in Ports |-> NoConn]]
         /\ wMsg' = [wMsg EXCEPT ![s] = <<>>]
         /\ loop[s] = Returned /\ loop' = [loop EXCEPT ![s] = Gone]
         /\ UNCHANGED <<wire, dying>>
<1>1. ASSUME NEW c \in Conns
      PROVE  LET p == conn[s][c]
                  q == conn'[s][c]
              IN  /\ SamePipe(p, q) /\ SameLoops(p, q) /\ q.run = p.run /\ q.add = p.add
                  /\ Routed(s, c) => /\ p.run = "done" /\ q.closed = TRUE /\ q.killed = TRUE
                                        /\ q.in = <<>> /\ q.w = <<>> /\ q.rlist = <<>>
                  /\ ~Routed(s, c) => /\ SameQueues(p, q)
                                           /\ q.closed = p.closed /\ q.killed = p.killed
  <2> DEFINE p == conn[s][c]
             q == conn'[s][c]
  <2>1. /\ p \in P2pConns /\ q = IF Routed(s, c) THEN Closed(p) ELSE p
        /\ Routed(s, c) => p.run = "done"
    BY DEF Listed, Routed, CloseP2p, Typed, ConnsOK, Good
  <2> HIDE DEF p, q
  <2>2. CASE Routed(s, c)
    BY ZenonT(60), <2>1, <2>2, ClosedFacts DEF p, q
  <2>3. CASE ~Routed(s, c)
    BY <2>1, <2>3 DEF SamePipe, SameLoops, SameQueues, p, q
  <2> QED BY <2>2, <2>3
<1>2. \A t \in Sides, c \in Conns : t # s => conn'[t][c] = conn[t][c]
  BY DEF CloseP2p, Typed, ConnsOK
<1> QED
  BY <1>1, <1>2 DEF CloseP2p

-----------------------------------------------------------------------------
(***************************************************************************)
(* Queues: their elements, and what a side has sent.                       *)
(***************************************************************************)

\* The elements of a queue.
Elems(q) == {q[i] : i \in 1..Len(q)}

\* The elements of a queue that grows at its end, shrinks at its head, or is a
\* concatenation.
LEMMA ElemsFacts ==
  ASSUME NEW S
  PROVE  /\ Elems(<<>>) = {}
         /\ \A q \in Seq(S), m \in S : Elems(Append(q, m)) = Elems(q) \union {m}
         /\ \A q \in Seq(S) : q # <<>> => Elems(q) = {Head(q)} \union Elems(Tail(q))
         /\ \A a, b \in Seq(S) : Elems(a \o b) = Elems(a) \union Elems(b)
<1>1. Elems(<<>>) = {}
  <2>1. Len(<<>>) = 0
    OBVIOUS
  <2> QED BY <2>1 DEF Elems
<1>2. ASSUME NEW q \in Seq(S), NEW m \in S
      PROVE  Elems(Append(q, m)) = Elems(q) \union {m}
  <2> DEFINE a == Append(q, m)
  <2>1. /\ Len(q) \in Nat /\ Len(a) = Len(q) + 1 /\ a[Len(q) + 1] = m
        /\ \A i \in 1..Len(q) : a[i] = q[i]
    BY AppendProperties
  <2> HIDE DEF a
  <2>2. \A i \in 1..Len(a) : i \in 1..Len(q) \/ i = Len(q) + 1
    BY <2>1
  <2>3. \A i \in 1..Len(q) : i \in 1..Len(a)
    BY <2>1
  <2>4. Len(q) + 1 \in 1..Len(a)
    BY <2>1
  <2>5. Elems(a) \subseteq Elems(q) \union {m}
    BY <2>1, <2>2 DEF Elems
  <2>6. Elems(q) \union {m} \subseteq Elems(a)
    <3>1. ASSUME NEW e \in Elems(q) PROVE e \in Elems(a)
      <4>1. PICK i \in 1..Len(q) : e = q[i]
        BY <3>1 DEF Elems
      <4> QED BY <4>1, <2>1, <2>3 DEF Elems
    <3>2. m \in Elems(a)
      BY <2>1, <2>4 DEF Elems
    <3> QED BY <3>1, <3>2
  <2> QED BY <2>5, <2>6 DEF a
<1>3. ASSUME NEW q \in Seq(S), q # <<>>
      PROVE  Elems(q) = {Head(q)} \union Elems(Tail(q))
  <2> DEFINE t == Tail(q)
  <2>1. /\ Len(q) \in Nat /\ Len(t) = Len(q) - 1 /\ Head(q) = q[1] /\ Len(q) >= 1
        /\ \A i \in 1..Len(t) : t[i] = q[i + 1]
    BY <1>3, HeadTailProperties
  <2> HIDE DEF t
  <2>2. ASSUME NEW i \in 1..Len(q) PROVE q[i] = Head(q) \/ q[i] \in Elems(t)
    <3>1. CASE i = 1
      BY <2>1, <3>1
    <3>2. CASE i # 1
      <4>1. i - 1 \in 1..Len(t) /\ (i - 1) + 1 = i
        BY <2>1, <3>2
      <4> QED BY <4>1, <2>1 DEF Elems
    <3> QED BY <3>1, <3>2
  <2>3. 1 \in 1..Len(q) /\ \A i \in 1..Len(t) : i + 1 \in 1..Len(q)
    BY <2>1
  <2>4. Elems(q) \subseteq {Head(q)} \union Elems(t)
    BY <2>2 DEF Elems
  <2>5. {Head(q)} \union Elems(t) \subseteq Elems(q)
    BY <2>1, <2>3 DEF Elems
  <2> QED BY <2>4, <2>5 DEF t
<1>4. ASSUME NEW a \in Seq(S), NEW b \in Seq(S)
      PROVE  Elems(a \o b) = Elems(a) \union Elems(b)
  <2> DEFINE w == a \o b
  <2>1. /\ Len(a) \in Nat /\ Len(b) \in Nat /\ Len(w) = Len(a) + Len(b)
        /\ \A i \in 1..(Len(a) + Len(b)) : w[i] = IF i <= Len(a) THEN a[i] ELSE b[i - Len(a)]
    BY ConcatProperties
  <2> HIDE DEF w
  <2>2. ASSUME NEW i \in 1..Len(w) PROVE w[i] \in Elems(a) \union Elems(b)
    <3>1. CASE i <= Len(a)
      <4>1. i \in 1..Len(a) /\ w[i] = a[i]
        BY <2>1, <3>1
      <4> QED BY <4>1 DEF Elems
    <3>2. CASE ~(i <= Len(a))
      <4>1. i - Len(a) \in 1..Len(b) /\ w[i] = b[i - Len(a)]
        BY <2>1, <3>2
      <4> QED BY <4>1 DEF Elems
    <3> QED BY <3>1, <3>2
  <2>3. ASSUME NEW i \in 1..Len(a) PROVE a[i] \in Elems(w)
    <3>1. i \in 1..Len(w) /\ w[i] = a[i]
      BY <2>1
    <3> QED BY <3>1 DEF Elems
  <2>4. ASSUME NEW i \in 1..Len(b) PROVE b[i] \in Elems(w)
    <3>1. i + Len(a) \in 1..Len(w) /\ w[i + Len(a)] = b[i]
      BY <2>1
    <3> QED BY <3>1 DEF Elems
  <2>5. Elems(w) \subseteq Elems(a) \union Elems(b)
    BY <2>2 DEF Elems
  <2>6. Elems(a) \union Elems(b) \subseteq Elems(w)
    BY <2>3, <2>4 DEF Elems
  <2> QED BY <2>5, <2>6 DEF w
<1> QED
  BY <1>1, <1>2, <1>3, <1>4

\* What a side has sent and the other has not received: what it gave to ikcp,
\* then what is queued for it.
Sent(s) == wire[s] \o wMsg[s]

\* The first elements of a concatenation.
LEMMA ConcatLeft ==
  ASSUME NEW S, NEW a \in Seq(S), NEW b \in Seq(S), NEW i \in 1..Len(a)
  PROVE  (a \o b)[i] = a[i]
<1>1. i \in 1..(Len(a) + Len(b)) /\ i <= Len(a)
  OBVIOUS
<1> QED BY <1>1, ConcatProperties

\* The others.
LEMMA ConcatRight ==
  ASSUME NEW S, NEW a \in Seq(S), NEW b \in Seq(S), NEW i \in 1..Len(b)
  PROVE  (a \o b)[Len(a) + i] = b[i]
<1>1. /\ Len(a) + i \in 1..(Len(a) + Len(b)) /\ ~(Len(a) + i <= Len(a))
      /\ (Len(a) + i) - Len(a) = i
  OBVIOUS
<1> QED BY <1>1, ConcatProperties

\* What joins the second of two queues joins both.
LEMMA AppendConcat ==
  ASSUME NEW S, NEW a \in Seq(S), NEW b \in Seq(S), NEW m \in S
  PROVE  a \o Append(b, m) = Append(a \o b, m)
<1>1. Append(b, m) = b \o <<m>> /\ <<m>> \in Seq(S) /\ a \o b \in Seq(S)
  BY AppendIsConcat, ConcatProperties
<1>2. Append(a \o b, m) = (a \o b) \o <<m>>
  BY <1>1, AppendIsConcat
<1> QED
  BY <1>1, <1>2, ConcatAssociative

\* What leaves the first of two queues leaves both.
LEMMA HeadConcat ==
  ASSUME NEW S, NEW a \in Seq(S), NEW b \in Seq(S), a # <<>>
  PROVE  /\ a = <<Head(a)>> \o Tail(a)
         /\ a \o b = <<Head(a)>> \o (Tail(a) \o b)
         /\ Head(a \o b) = Head(a) /\ Tail(a \o b) = Tail(a) \o b /\ a \o b # <<>>
<1> DEFINE h == <<Head(a)>>
           t == Tail(a)
           w == a \o b
           v == t \o b
<1>1. /\ Head(a) \in S /\ t \in Seq(S) /\ Len(t) = Len(a) - 1 /\ Head(a) = a[1]
      /\ \A i \in 1..Len(t) : t[i] = a[i + 1]
  BY HeadTailProperties
<1>2. Len(a) \in Nat /\ Len(b) \in Nat /\ Len(a) >= 1
  OBVIOUS
<1>3. h \in Seq(S) /\ Len(h) = 1 /\ h[1] = Head(a)
  BY <1>1
<1>4. a = h \o t
  <2> HIDE DEF h, t
  <2>1. h \o t \in Seq(S) /\ Len(h \o t) = Len(a)
    <3>1. h \o t \in Seq(S) /\ Len(h \o t) = Len(h) + Len(t)
      BY <1>1, <1>3, Join
    <3> QED BY <1>1, <1>2, <1>3, <3>1
  <2>2. \A i \in 1..Len(a) : (h \o t)[i] = a[i]
    <3> TAKE i \in 1..Len(a)
    <3>1. CASE i = 1
      <4>1. 1 \in 1..Len(h)
        BY <1>3
      <4>2. (h \o t)[1] = h[1]
        BY <1>1, <1>3, <4>1, ConcatLeft
      <4> QED BY <1>1, <1>3, <3>1, <4>2
    <3>2. CASE i # 1
      <4>1. i - 1 \in 1..Len(t) /\ (i - 1) + 1 = i /\ Len(h) + (i - 1) = i
        BY <1>1, <1>2, <1>3, <3>2
      <4>2. PICK k \in 1..Len(t) : k + 1 = i /\ Len(h) + k = i
        BY <4>1
      <4>3. (h \o t)[Len(h) + k] = t[k]
        <5>1. h \in Seq(S) /\ t \in Seq(S)
          BY <1>1, <1>3
        <5> QED BY <5>1, ConcatRight
      <4> QED BY <1>1, <4>2, <4>3
    <3> QED BY <3>1, <3>2
  <2> QED BY <2>1, <2>2, SeqEqual
<1>5. w = h \o v
  <2> HIDE DEF h, t
  <2> QED BY <1>1, <1>3, <1>4, ConcatAssociative
<1>6. w \in Seq(S) /\ Len(w) = Len(a) + Len(b) /\ w # <<>> /\ w[1] = a[1]
  BY <1>2, ConcatProperties
<1>7. v \in Seq(S) /\ Len(v) = Len(t) + Len(b)
  <2> HIDE DEF t
  <2> QED BY <1>1, ConcatProperties
<1>8. Head(w) = Head(a)
  BY <1>1, <1>6
<1>9. Tail(w) = v
  <2>1. Tail(w) \in Seq(S) /\ Len(Tail(w)) = Len(w) - 1 /\ \A i \in 1..Len(Tail(w)) : Tail(w)[i] = w[i + 1]
    <3> HIDE DEF w
    <3> QED BY <1>6, HeadTailProperties
  <2>2. Len(Tail(w)) = Len(v)
    BY <1>1, <1>2, <1>6, <1>7, <2>1
  <2>3. ASSUME NEW i \in 1..Len(v) PROVE Tail(w)[i] = v[i]
    <3>1. Tail(w)[i] = w[i + 1]
      BY <2>1, <2>2
    <3>2. i + 1 = Len(h) + i
      BY <1>3, <1>7
    <3>3. (h \o v)[Len(h) + i] = v[i]
      <4> HIDE DEF h, v
      <4> QED BY ZenonT(60), <1>3, <1>7, ConcatRight
    <3> QED BY <1>5, <3>1, <3>2, <3>3
  <2> HIDE DEF w, v
  <2> QED BY <1>7, <2>1, <2>2, <2>3, SeqEqual
<1> QED
  BY <1>4, <1>5, <1>6, <1>8, <1>9

\* What a side has sent are messages.
LEMMA SentTyped ==
  ASSUME Typed, NEW s \in Sides
  PROVE  wire[s] \in Seq(Msgs) /\ wMsg[s] \in Seq(Msgs) /\ Sent(s) \in Seq(Msgs)
<1>1. wire[s] \in Seq(Msgs) /\ wMsg[s] \in Seq(Msgs)
  BY DEF Typed, QueuesOK
<1> QED BY <1>1, Join DEF Sent

\* A message given to the P2pClient is the last of what its side has sent.
LEMMA SentQueue ==
  ASSUME Typed, NEW s \in Sides, NEW m \in Msgs, Queue(s, m), UNCHANGED wire
  PROVE  /\ Sent(s)' = Append(Sent(s), m)
         /\ \A t \in Sides : t # s => Sent(t)' = Sent(t)
<1>1. wire'[s] = wire[s] /\ wMsg'[s] = Append(wMsg[s], m)
      /\ \A t \in Sides : t # s => wMsg'[t] = wMsg[t] /\ wire'[t] = wire[t]
  BY DEF Queue, Typed, QueuesOK
<1>2. wire[s] \o Append(wMsg[s], m) = Append(wire[s] \o wMsg[s], m)
  <2>1. wire[s] \in Seq(Msgs) /\ wMsg[s] \in Seq(Msgs)
    BY SentTyped
  <2>2. \A x, y \in Seq(Msgs) : \A e \in Msgs : x \o Append(y, e) = Append(x \o y, e)
    BY AppendConcat
  <2> QED BY <2>1, <2>2
<1> QED
  BY <1>1, <1>2 DEF Sent

\* A step that touches neither queue sends nothing.
LEMMA SentSame ==
  ASSUME UNCHANGED <<wire, wMsg>>
  PROVE  \A t \in Sides : Sent(t)' = Sent(t)
  BY DEF Sent

\* KcpSend moves a message from one queue to the next: what has been sent is
\* the same, in the same order.
LEMMA SentKcpSend ==
  ASSUME Typed, NEW s \in Sides, KcpSend(s)
  PROVE  \A t \in Sides : Sent(t)' = Sent(t)
<1> DEFINE a == wire[s]
           b == wMsg[s]
<1>1. a \in Seq(Msgs) /\ b \in Seq(Msgs) /\ b # <<>>
  BY SentTyped DEF KcpSend
<1>2. wire'[s] = Append(a, Head(b)) /\ wMsg'[s] = Tail(b)
      /\ \A t \in Sides : t # s => wMsg'[t] = wMsg[t] /\ wire'[t] = wire[t]
  BY DEF KcpSend, Typed, QueuesOK
<1> HIDE DEF a, b
<1>3. Head(b) \in Msgs /\ Tail(b) \in Seq(Msgs) /\ <<Head(b)>> \in Seq(Msgs)
  BY <1>1, HeadTailProperties
<1>4. Append(a, Head(b)) = a \o <<Head(b)>>
  BY <1>1, <1>3, AppendIsConcat
<1>5. b = <<Head(b)>> \o Tail(b)
  <2>1. <<>> \in Seq(Msgs)
    OBVIOUS
  <2> QED BY <1>1, <2>1, HeadConcat
<1>6. (a \o <<Head(b)>>) \o Tail(b) = a \o (<<Head(b)>> \o Tail(b))
  BY <1>1, <1>3, ConcatAssociative
<1>7. wire'[s] \o wMsg'[s] = a \o b
  BY <1>2, <1>4, <1>5, <1>6
<1> QED
  BY <1>2, <1>7 DEF Sent, a, b

\* KcpRecv takes the first message the other side has sent.
LEMMA SentKcpRecv ==
  ASSUME Typed, NEW s \in Sides, KcpRecv(s)
  PROVE  /\ Sent(Other(s)) # <<>>
         /\ Head(Sent(Other(s))) = Head(wire[Other(s)])
         /\ Sent(Other(s))' = Tail(Sent(Other(s)))
         /\ Sent(s)' = Sent(s)
<1> DEFINE o == Other(s)
<1>1. o \in Sides /\ o # s
  BY OtherSide
<1> HIDE DEF o
<1>2. wire[o] \in Seq(Msgs) /\ wMsg[o] \in Seq(Msgs)
  BY <1>1, SentTyped
<1>3. /\ wire[o] # <<>> /\ wire'[o] = Tail(wire[o]) /\ wire'[s] = wire[s]
      /\ UNCHANGED wMsg
  BY <1>1 DEF KcpRecv, Typed, QueuesOK, o
<1>4. /\ Head(wire[o] \o wMsg[o]) = Head(wire[o])
      /\ Tail(wire[o] \o wMsg[o]) = Tail(wire[o]) \o wMsg[o]
      /\ wire[o] \o wMsg[o] # <<>>
  BY ZenonT(60), <1>2, <1>3, HeadConcat
<1> QED
  BY <1>3, <1>4 DEF Sent, o

\* P2pClient.Close drops what it has not given to ikcp: a front part stays.
LEMMA SentCloseP2p ==
  ASSUME Typed, NEW s \in Sides, CloseP2p(s)
  PROVE  /\ Sent(s)' = wire[s] /\ Sent(s) = wire[s] \o wMsg[s]
         /\ \A t \in Sides : t # s => Sent(t)' = Sent(t)
<1>1. wire' = wire /\ wMsg'[s] = <<>> /\ \A t \in Sides : t # s => wMsg'[t] = wMsg[t]
  BY DEF CloseP2p, Typed, QueuesOK
<1>2. wire[s] \o <<>> = wire[s]
  BY SentTyped, ConcatEmptySeq
<1> QED
  BY <1>1, <1>2 DEF Sent
=============================================================================
