------------------------------- MODULE Tunnel -------------------------------
(***************************************************************************)
(* client/p2pconn.go and the part of client/p2pclient.go that multiplexes  *)
(* TCP connections over one peer-to-peer session, on both sides of it.     *)
(* A local connection of the requestor becomes a P2pConn, MsgTypeSyn asks  *)
(* the proxy side to dial, and from then on each side copies what it reads *)
(* from its socket to the other one.                                       *)
(*                                                                         *)
(* Goroutines of a side: the P2pClient's RunC, and of every connection its *)
(* Run, tcpReadLoop and tcpWriteLoop, a dial, and the two promises (of     *)
(* NewConn and of GoDying) that hand a function to RunC.  The channels     *)
(* in, wMsg (of a connection) and wMsg (of the P2pClient) are bounded      *)
(* queues.  wire[s] is what side s gave to Ikcp_send and the other has not *)
(* received yet: a reliable stream of messages, as module Stream says and  *)
(* Ikcp shows.                                                             *)
(*                                                                         *)
(* A message's n is a history value: for data its number among those of    *)
(* its connection, for the others how many data messages went before it.   *)
(***************************************************************************)
EXTENDS Integers, Sequences

CONSTANTS
  Conns,             \* the connections local programs open
  Port,              \* Port[c]: remote port of c, the key of portMap
  Inner,             \* Inner[c]: index of the tunnel c came in by
  InCap, WCap, QCap, \* capacities of in, wMsg of a connection, of P2pClient
  RMax,              \* the length of rlist that ends a connection (64)
  MaxData,           \* bound: MaxData[s][c] times side s reads data from c
  MayQuit,           \* the sides whose P2pClient may be ended
  NoConn

ASSUME TunnelAssumption ==
  /\ NoConn \notin Conns
  /\ Port \in [Conns -> Nat] /\ Inner \in [Conns -> Nat]
  /\ \A c, d \in Conns : /\ Port[c] = Port[d] => c = d
                         /\ Inner[c] # Port[d]   \* 0, 1, ... and TCP ports
  /\ InCap \in Nat \ {0} /\ WCap \in Nat \ {0} /\ QCap \in Nat \ {0}
  /\ RMax \in Nat
  /\ MaxData \in [{"requestor", "proxy"} -> [Conns -> Nat]]

VARIABLES
  conn,     \* conn[s][c]: the P2pConn of c on side s
  portMap,  \* portMap[s]: port -> connection
  wMsg,     \* wMsg[s]: messages for the other side, not yet given to ikcp
  wire,     \* wire[s]: messages s gave to ikcp
  loop,     \* loop[s]: where RunC stands
  dying     \* dying[s]: the P2pClient was killed

vars == <<conn, portMap, wMsg, wire, loop, dying>>

Sides    == {"requestor", "proxy"}
Other(s) == IF s = "requestor" THEN "proxy" ELSE "requestor"
Ports    == {Port[c] : c \in Conns}
None     == -1

Msg(type, c, n) == [type |-> type, port |-> Port[c], conn |-> c, n |-> n]

\* RunC is in its select, waits to push m to a connection, or for the promise
\* of c to take the answer of the function it ran; or it has returned.
Select       == [at |-> "select"]
Pushing(c, m) == [at |-> "push", conn |-> c, msg |-> m]
Answering(c, pr) == [at |-> "answer", conn |-> c, promise |-> pr]
Returned     == [at |-> "returned"]   \* RunC is over
Gone         == [at |-> "gone"]       \* P2pClient.Close has run
Crashed      == [at |-> "crashed"]    \* a panic ended the process

NewP2pConn ==
  [run    |-> "none",  \* Run: none, dialing, offered, init, syn, loop, done
   killed |-> FALSE,
   in |-> <<>>, rlist |-> <<>>, w |-> <<>>,
   reader |-> "off",   \* tcpReadLoop: off, start, read, data, fin, end
   writer |-> "off",   \* tcpWriteLoop: off, write, fin, end
   finHdr |-> FALSE,   \* hdr.Type was set to MsgTypeFin
   mbFin  |-> FALSE,   \* the buffer the reader holds has that type
   closed |-> FALSE,
   add |-> "none",     \* the promise of NewConn: none, waiting, sent, over
   rm  |-> "none",     \* the promise of GoDying
   reads |-> 0,        \* history: how often data was read from the socket
   sent |-> 0,         \* history: data messages pushed to the P2pClient
   said |-> None,      \* history: how many went before the first MsgTypeFin
   out |-> <<>>,       \* history: what was written to the socket
   told |-> None]      \* history: n of the message that ended the connection

Init ==
  /\ conn = [s \in Sides |-> [c \in Conns |-> NewP2pConn]]
  /\ portMap = [s \in Sides |-> [p \in Ports |-> NoConn]]
  /\ wMsg = [s \in Sides |-> <<>>]
  /\ wire = [s \in Sides |-> <<>>]
  /\ loop = [s \in Sides |-> Select]
  /\ dying = [s \in Sides |-> FALSE]

Put(s, c, p)  == conn' = [conn EXCEPT ![s][c] = p]
Queue(s, m)   == Len(wMsg[s]) < QCap /\ wMsg' = [wMsg EXCEPT ![s] = Append(@, m)]
Open(s)       == loop[s] # Gone
Up(s)         == loop[s] # Crashed
-----------------------------------------------------------------------------
(***************************************************************************)
(* Opening a connection.                                                   *)
(***************************************************************************)

\* NewConn: the P2pConn and its promise; the client calls it for a connection
\* its listener accepted, as long as it has this P2pClient in p2ps.
Accept(c) ==
  LET p == conn["requestor"][c] IN
  /\ Up("requestor") /\ Open("requestor") /\ p.run = "none"
  /\ Put("requestor", c, [p EXCEPT !.run = "offered", !.add = "waiting"])
  /\ UNCHANGED <<portMap, wMsg, wire, loop, dying>>

\* The goroutine of a MsgTypeSyn reached the tunnel's ProxyAddr.
DialOk(s, c) ==
  LET p == conn[s][c] IN
  /\ Up(s) /\ p.run = "dialing"
  /\ Put(s, c, [p EXCEPT !.run = "offered", !.add = "waiting"])
  /\ UNCHANGED <<portMap, wMsg, wire, loop, dying>>

\* MsgTypeSynErr, with the tunnel's index as its Port and the port as its Seq.
SynErr(c) == [Msg("synerr", c, 0) EXCEPT !.port = Inner[c]]

DialFails(s, c) ==
  LET p == conn[s][c] IN
  /\ Up(s) /\ p.run = "dialing"
  /\ Put(s, c, [p EXCEPT !.run = "done"])
  /\ \/ Open(s) /\ Queue(s, SynErr(c)) /\ UNCHANGED loop
     \/ dying[s] /\ UNCHANGED <<wMsg, loop>>
     \/ ~Open(s) /\ loop' = [loop EXCEPT ![s] = Crashed] /\ UNCHANGED wMsg
  /\ UNCHANGED <<portMap, wire, dying>>

\* Variant for mutation: the key is the other number of the connection.
WithInner(s, c) ==
  [portMap EXCEPT ![s] = [p \in Ports |-> IF p = Inner[c] THEN c ELSE @[p]]]

\* portMap with c under its port.
With(s, c) == [portMap EXCEPT ![s][Port[c]] = c]

\* RunC takes the function of NewConn from the promise and runs it.
AddConn(s, c) ==
  LET p == conn[s][c] IN
  /\ loop[s] = Select /\ p.add = "waiting"
  /\ portMap' = With(s, c)
  /\ Put(s, c, [p EXCEPT !.run = "init", !.add = "sent"])
  /\ loop' = [loop EXCEPT ![s] = Answering(c, "add")]
  /\ UNCHANGED <<wMsg, wire, dying>>

\* Variant for mutation: both sides read at once.
FirstReaderBoth(s) == "start"

\* On the proxy side the reader starts with the connection, on the requestor's
\* when MsgTypeSynOk has come.
FirstReader(s) == IF s = "proxy" THEN "start" ELSE "off"

\* P2pConn.Init starts the loops ...
StartLoops(s, c) ==
  LET p == conn[s][c] IN
  /\ Up(s) /\ p.run = "init"
  /\ Put(s, c, [p EXCEPT !.run = "syn", !.writer = "write",
                         !.reader = FirstReader(s)])
  /\ UNCHANGED <<portMap, wMsg, wire, loop, dying>>

\* ... and sends MsgTypeSyn or MsgTypeSynOk; an error of Init ends Run.
SendSyn(s, c) ==
  LET p == conn[s][c] IN
  /\ Up(s) /\ p.run = "syn"
  /\ \/ /\ Queue(s, Msg(IF s = "proxy" THEN "synok" ELSE "syn", c, p.sent))
        /\ Put(s, c, [p EXCEPT !.run = "loop"])
     \/ /\ dying[s]
        /\ Put(s, c, [p EXCEPT !.run = "done", !.killed = TRUE])
        /\ UNCHANGED wMsg
  /\ UNCHANGED <<portMap, wire, loop, dying>>
-----------------------------------------------------------------------------
(***************************************************************************)
(* P2pConn.Run.                                                            *)
(***************************************************************************)

\* Variants for mutation: forgets to cut rlist when all was moved; cuts one too
\* many when wMsg is full.
WriteAllKeeps(p) ==
  LET room == WCap - Len(p.w)
      n    == IF Len(p.rlist) < room THEN Len(p.rlist) ELSE room
  IN [p EXCEPT !.w = @ \o SubSeq(p.rlist, 1, n),
               !.rlist = IF n = Len(@) THEN @ ELSE SubSeq(@, n + 1, Len(@))]
WriteAllSkips(p) ==
  LET room == WCap - Len(p.w)
      n    == IF Len(p.rlist) < room THEN Len(p.rlist) ELSE room
  IN [p EXCEPT !.w = @ \o SubSeq(p.rlist, 1, n),
               !.rlist = SubSeq(@, n + 2, Len(@))]

\* As much of rlist as wMsg has room for moves on.
WriteAll(p) ==
  LET room == WCap - Len(p.w)
      n    == IF Len(p.rlist) < room THEN Len(p.rlist) ELSE room
  IN [p EXCEPT !.w = @ \o SubSeq(p.rlist, 1, n),
               !.rlist = SubSeq(@, n + 1, Len(@))]

\* Variant for mutation: one message later.
OverflowLate(p) == Len(p.rlist) > RMax + 1

\* tcpWriteLoop is given up: rlist has grown too long.
Overflow(p) == Len(p.rlist) > RMax

\* GoDying: a promise, unless the P2pClient is dying already, and Run returns.
GoDying(s, p) ==
  [p EXCEPT !.run = "done", !.killed = TRUE,
            !.rm = IF dying[s] THEN "over" ELSE "waiting"]

RunFor(s, c) ==
  LET p == conn[s][c]
      q == [p EXCEPT !.in = Tail(@)]
      m == Head(p.in)
  IN
  /\ Up(s) /\ p.run = "loop"
  /\ \/ dying[s] /\ Put(s, c, [p EXCEPT !.run = "done", !.killed = TRUE])
     \/ p.killed /\ Put(s, c, GoDying(s, p))
     \/ p.in # <<>> /\ m.type = "synok" /\ Put(s, c, [q EXCEPT !.reader = "start"])
     \/ /\ p.in # <<>> /\ m.type # "synok" /\ ~Overflow(p)
        /\ Put(s, c, WriteAll([q EXCEPT !.rlist = Append(@, m)]))
     \/ /\ p.in # <<>> /\ m.type # "synok" /\ Overflow(p)
        /\ Put(s, c, GoDying(s, q))
  /\ UNCHANGED <<portMap, wMsg, wire, loop, dying>>

\* Variant for mutation: no ticker.
RunTickNever(s, c) == FALSE

\* The ticker of Run.
RunTick(s, c) ==
  LET p == conn[s][c] IN
  /\ Up(s) /\ p.run = "loop" /\ p.rlist # <<>> /\ Len(p.w) < WCap
  /\ Put(s, c, WriteAll(p))
  /\ UNCHANGED <<portMap, wMsg, wire, loop, dying>>
-----------------------------------------------------------------------------
(***************************************************************************)
(* tcpReadLoop and tcpWriteLoop, which share p.hdr.                        *)
(***************************************************************************)

\* The reader has waited for ikcp's queue to shrink, and copies the header as
\* it is now into the buffer it is going to read into.
SetupHdr(s, c) ==
  LET p == conn[s][c] IN
  /\ Up(s) /\ p.reader = "start"
  /\ Put(s, c, [p EXCEPT !.reader = "read", !.mbFin = p.finHdr])
  /\ UNCHANGED <<portMap, wMsg, wire, loop, dying>>

\* tcpConn.Read returned data, or an error; or it returned after the reader
\* had waited too long for ikcp's queue to shrink (wait > 10000), and what
\* was read is dropped.  On the last two it ends with MsgTypeFin, which is
\* left out when the connection or the P2pClient is dying.
Read(s, c) ==
  LET p == conn[s][c]
      q == [p EXCEPT !.finHdr = TRUE, !.mbFin = FALSE]
  IN
  /\ Up(s) /\ p.reader = "read"
  /\ \/ /\ ~p.closed /\ p.reads < MaxData[s][c]
        /\ Put(s, c, [p EXCEPT !.reader = "data", !.reads = @ + 1])
     \/ /\ dying[s] \/ p.killed
        /\ Put(s, c, [q EXCEPT !.reader = "end"])
     \/ /\ ~dying[s] /\ ~p.killed
        /\ Put(s, c, [q EXCEPT !.reader = "fin"])
  /\ UNCHANGED <<portMap, wMsg, wire, loop, dying>>

\* p as it is when a MsgTypeFin of it has been sent.
SaysFin(p) == [p EXCEPT !.said = IF @ = None THEN p.sent ELSE @]

\* The type is the one the header had before the read: data read while the
\* writer failed follows the writer's MsgTypeFin, as data; what is read after
\* that goes out as a MsgTypeFin.
PushData(s, c) ==
  LET p == conn[s][c]
      q == [p EXCEPT !.reader = "start", !.mbFin = FALSE]
  IN
  /\ Up(s) /\ p.reader = "data"
  /\ \/ /\ Open(s) /\ ~p.mbFin
        /\ Queue(s, Msg("data", c, p.sent + 1))
        /\ Put(s, c, [q EXCEPT !.sent = @ + 1])
     \/ /\ Open(s) /\ p.mbFin
        /\ Queue(s, Msg("fin", c, p.sent))
        /\ Put(s, c, SaysFin(q))
     \/ /\ dying[s]
        /\ Put(s, c, [q EXCEPT !.reader = "end"])
        /\ UNCHANGED wMsg
  /\ UNCHANGED <<portMap, wire, loop, dying>>

PushFin(s, c) ==
  LET p == conn[s][c]
      q == [p EXCEPT !.reader = "end", !.killed = TRUE]
  IN
  /\ Up(s) /\ p.reader = "fin"
  /\ \/ /\ Open(s) /\ Queue(s, Msg("fin", c, p.sent))
        /\ Put(s, c, SaysFin(q))
     \/ /\ p.killed \/ dying[s]
        /\ Put(s, c, q)
        /\ UNCHANGED wMsg
  /\ UNCHANGED <<portMap, wire, loop, dying>>

\* Variant for mutation: MsgTypeFin is passed over.
EndingNotFin == {"synerr"}

\* The types by which the other side ends a connection.
Ending == {"fin", "synerr"}

\* Variant for mutation: no return on MsgTypeFin, so the loop goes on.
WriteGoesOn(s, c) ==
  LET p == conn[s][c]
      m == Head(p.w)
      q == [p EXCEPT !.w = Tail(@)]
  IN
  /\ Up(s) /\ p.writer = "write"
  /\ \/ /\ p.w # <<>> /\ m.type = "data"
        /\ \/ ~p.closed /\ Put(s, c, [q EXCEPT !.out = Append(@, <<m.conn, m.n>>)])
           \/ Put(s, c, [q EXCEPT !.writer = "fin", !.finHdr = TRUE])
     \/ /\ p.w # <<>> /\ m.type \in Ending
        /\ Put(s, c, [q EXCEPT !.killed = TRUE, !.told = m.n])
     \/ p.killed /\ Put(s, c, [p EXCEPT !.writer = "end"])
  /\ UNCHANGED <<portMap, wMsg, wire, loop, dying>>

\* One message of p.wMsg: data is written or the write fails, MsgTypeFin and
\* MsgTypeSynErr end the connection, other types are passed over.
Write(s, c) ==
  LET p == conn[s][c]
      m == Head(p.w)
      q == [p EXCEPT !.w = Tail(@)]
  IN
  /\ Up(s) /\ p.writer = "write"
  /\ \/ /\ p.w # <<>> /\ m.type = "data"
        /\ \/ ~p.closed /\ Put(s, c, [q EXCEPT !.out = Append(@, <<m.conn, m.n>>)])
           \/ Put(s, c, [q EXCEPT !.writer = "fin", !.finHdr = TRUE])
     \/ /\ p.w # <<>> /\ m.type \in Ending
        /\ Put(s, c, [q EXCEPT !.writer = "end", !.killed = TRUE, !.told = m.n])
     \/ /\ p.w # <<>> /\ m.type \notin Ending \union {"data"}
        /\ Put(s, c, q)
     \/ p.killed /\ Put(s, c, [p EXCEPT !.writer = "end"])
  /\ UNCHANGED <<portMap, wMsg, wire, loop, dying>>

WriterFin(s, c) ==
  LET p == conn[s][c]
      q == [p EXCEPT !.writer = "end", !.killed = TRUE]
  IN
  /\ Up(s) /\ p.writer = "fin"
  /\ \/ /\ Open(s) /\ Queue(s, Msg("fin", c, p.sent))
        /\ Put(s, c, SaysFin(q))
     \/ /\ dying[s]
        /\ Put(s, c, q)
        /\ UNCHANGED wMsg
  /\ UNCHANGED <<portMap, wire, loop, dying>>
-----------------------------------------------------------------------------
(***************************************************************************)
(* RunC of the P2pClient.                                                  *)
(***************************************************************************)

KcpSend(s) ==
  /\ loop[s] = Select /\ wMsg[s] # <<>>
  /\ wire' = [wire EXCEPT ![s] = Append(@, Head(wMsg[s]))]
  /\ wMsg' = [wMsg EXCEPT ![s] = Tail(@)]
  /\ UNCHANGED <<conn, portMap, loop, dying>>

\* tryToRecvFor: a message goes to the connection portMap has under its port,
\* a MsgTypeSyn for a port without one starts a dial, others are dropped.
KcpRecv(s) ==
  LET from == wire[Other(s)]
      m    == Head(from)
      d    == IF m.port \in Ports THEN portMap[s][m.port] ELSE NoConn
  IN
  /\ loop[s] = Select /\ from # <<>>
  /\ wire' = [wire EXCEPT ![Other(s)] = Tail(@)]
  /\ IF d # NoConn
       THEN loop' = [loop EXCEPT ![s] = Pushing(d, m)] /\ UNCHANGED conn
       ELSE /\ UNCHANGED loop
            /\ IF m.type = "syn"
                 THEN Put(s, m.conn, [conn[s][m.conn] EXCEPT !.run = "dialing"])
                 ELSE UNCHANGED conn
  /\ UNCHANGED <<portMap, wMsg, dying>>

\* p.in <- mb, which has no alternative.
PushIn(s) ==
  /\ loop[s].at = "push"
  /\ LET d == loop[s].conn IN
     /\ Len(conn[s][d].in) < InCap
     /\ Put(s, d, [conn[s][d] EXCEPT !.in = Append(@, loop[s].msg)])
  /\ loop' = [loop EXCEPT ![s] = Select]
  /\ UNCHANGED <<portMap, wMsg, wire, dying>>

\* P2pConn.Close.
Closed(p) ==
  [p EXCEPT !.closed = TRUE, !.killed = TRUE,
            !.in = <<>>, !.w = <<>>, !.rlist = <<>>]

\* Variant for mutation: the entry stays.
WithoutDelete(s, c) == portMap

\* portMap without what is under the port of c.
Without(s, c) == [portMap EXCEPT ![s][Port[c]] = NoConn]

\* RunC runs RemoveConn for the promise of GoDying; it waits for Run to be over.
RemoveConn(s, c) ==
  LET p == conn[s][c]
      q == [p EXCEPT !.rm = "sent"]
  IN
  /\ loop[s] = Select /\ p.rm = "waiting"
  /\ IF portMap[s][Port[c]] = NoConn
       THEN Put(s, c, q) /\ UNCHANGED portMap
       ELSE /\ p.run = "done"
            /\ Put(s, c, Closed(q))
            /\ portMap' = Without(s, c)
  /\ loop' = [loop EXCEPT ![s] = Answering(c, "rm")]
  /\ UNCHANGED <<wMsg, wire, dying>>

\* The promise takes the answer RunC waits to give.
Answered(s) ==
  /\ loop[s].at = "answer"
  /\ LET c == loop[s].conn
         p == conn[s][c]
     IN IF loop[s].promise = "add"
          THEN p.add = "sent" /\ Put(s, c, [p EXCEPT !.add = "over"])
          ELSE p.rm  = "sent" /\ Put(s, c, [p EXCEPT !.rm = "over"])
  /\ loop' = [loop EXCEPT ![s] = Select]
  /\ UNCHANGED <<portMap, wMsg, wire, dying>>

\* A promise ends as soon as its target is dying, answered or not; one that
\* still waits when calls has been closed may choose to send, and panics.
PromiseEnds(s, c) ==
  LET p == conn[s][c] IN
  /\ Up(s) /\ dying[s]
  /\ \/ p.add \in {"waiting", "sent"} /\ Put(s, c, [p EXCEPT !.add = "over"])
     \/ p.rm \in {"waiting", "sent"} /\ Put(s, c, [p EXCEPT !.rm = "over"])
  /\ \/ UNCHANGED loop
     \/ ~Open(s) /\ loop' = [loop EXCEPT ![s] = Crashed]
  /\ UNCHANGED <<portMap, wMsg, wire, dying>>

\* MsgTypeClientQuit makes the client kill the P2pClient.
Quit(s) ==
  /\ Up(s) /\ s \in MayQuit /\ ~dying[s]
  /\ dying' = [dying EXCEPT ![s] = TRUE]
  /\ UNCHANGED <<conn, portMap, wMsg, wire, loop>>

\* Variant for mutation: leaves out those whose removal is on its way.
ListedOnly(s) ==
  {c \in Conns : portMap[s][Port[c]] = c /\ conn[s][c].rm # "waiting"}

\* The connections in portMap.
Listed(s) == {c \in Conns : portMap[s][Port[c]] = c}

\* RunC sees it, or gives the handshake up: DoDying kills the connections, and
\* RunC returns.
DoDying(s) ==
  /\ loop[s] = Select
  /\ dying[s] \/ s \in MayQuit
  /\ conn' = [conn EXCEPT ![s] = [c \in Conns |->
                IF c \in Listed(s) THEN [@[c] EXCEPT !.killed = TRUE]
                                   ELSE @[c]]]
  /\ loop' = [loop EXCEPT ![s] = Returned]
  /\ dying' = [dying EXCEPT ![s] = TRUE]
  /\ UNCHANGED <<portMap, wMsg, wire>>

\* The client runs RemoveClient: P2pClient.Close closes the connections when
\* their Run is over, then its own channels.
CloseP2p(s) ==
  /\ loop[s] = Returned
  /\ \A c \in Listed(s) : conn[s][c].run = "done"
  /\ conn' = [conn EXCEPT ![s] = [c \in Conns |->
                IF c \in Listed(s) THEN Closed(@[c]) ELSE @[c]]]
  /\ portMap' = [portMap EXCEPT ![s] = [p \in Ports |-> NoConn]]
  /\ wMsg' = [wMsg EXCEPT ![s] = <<>>]
  /\ loop' = [loop EXCEPT ![s] = Gone]
  /\ UNCHANGED <<wire, dying>>
-----------------------------------------------------------------------------
RunOf(s, c) == StartLoops(s, c) \/ SendSyn(s, c) \/ RunFor(s, c) \/ RunTick(s, c)
Reader(s, c) == SetupHdr(s, c) \/ PushData(s, c) \/ PushFin(s, c)
Writer(s, c) == Write(s, c) \/ WriterFin(s, c)
Dials(s, c)  == DialOk(s, c) \/ DialFails(s, c)
RunC(s) ==
  \/ KcpSend(s) \/ KcpRecv(s) \/ PushIn(s) \/ Answered(s) \/ DoDying(s)
  \/ \E c \in Conns : AddConn(s, c) \/ RemoveConn(s, c)

Next ==
  \/ \E c \in Conns : Accept(c)
  \/ \E s \in Sides : RunC(s) \/ Quit(s) \/ CloseP2p(s)
  \/ \E s \in Sides, c \in Conns :
       \/ RunOf(s, c) \/ Read(s, c) \/ Reader(s, c)
       \/ Writer(s, c) \/ Dials(s, c) \/ PromiseEnds(s, c)

Spec == Init /\ [][Next]_vars

\* Goroutines that can go on do; dials end; local programs take what is
\* written to them.  They need not send anything, nor end.
FairSpec ==
  /\ Spec
  /\ \A s \in Sides :
       /\ WF_vars(RunC(s))
       /\ \A c \in Conns :
            /\ WF_vars(RunOf(s, c)) /\ WF_vars(Reader(s, c))
            /\ WF_vars(Writer(s, c)) /\ WF_vars(Dials(s, c))
-----------------------------------------------------------------------------
(***************************************************************************)
(* Properties.                                                             *)
(***************************************************************************)

Types == {"syn", "synok", "synerr", "data", "fin"}
Msgs  == [type : Types, port : Nat, conn : Conns, n : Nat]

P2pConns ==
  [run : {"none", "dialing", "offered", "init", "syn", "loop", "done"},
   killed : BOOLEAN, in : Seq(Msgs), rlist : Seq(Msgs), w : Seq(Msgs),
   reader : {"off", "start", "read", "data", "fin", "end"},
   writer : {"off", "write", "fin", "end"},
   finHdr : BOOLEAN, mbFin : BOOLEAN, closed : BOOLEAN,
   add : {"none", "waiting", "sent", "over"},
   rm : {"none", "waiting", "sent", "over"},
   reads : Nat, sent : Nat, said : Nat \union {None},
   out : Seq(Conns \X Nat), told : Nat \union {None}]

\* Every variable has its type, and no queue outgrows its channel; rlist is at
\* most one longer than the length that ends the connection.
TypeOK ==
  /\ conn \in [Sides -> [Conns -> P2pConns]]
  /\ portMap \in [Sides -> [Ports -> Conns \union {NoConn}]]
  /\ wMsg \in [Sides -> Seq(Msgs)] /\ wire \in [Sides -> Seq(Msgs)]
  /\ \A s \in Sides :
       \/ loop[s] \in {Select, Returned, Gone, Crashed}
       \/ /\ loop[s].at = "push" /\ loop[s].conn \in Conns /\ loop[s].msg \in Msgs
          /\ loop[s] = Pushing(loop[s].conn, loop[s].msg)
       \/ /\ loop[s].at = "answer" /\ loop[s].conn \in Conns
          /\ loop[s].promise \in {"add", "rm"}
          /\ loop[s] = Answering(loop[s].conn, loop[s].promise)
  /\ dying \in [Sides -> BOOLEAN]
  /\ \A s \in Sides :
       /\ Len(wMsg[s]) <= QCap
       /\ \A c \in Conns : /\ Len(conn[s][c].in) <= InCap
                           /\ Len(conn[s][c].w) <= WCap
                           /\ Len(conn[s][c].rlist) <= RMax + 1

\* What a connection writes to its socket is what the other side read from
\* its own, in that order and without a gap, through in, rlist, wMsg, ikcp and
\* the two queues of the P2pClients.
OutInOrder ==
  \A s \in Sides, c \in Conns :
    LET out == conn[s][c].out IN
    /\ Len(out) <= conn[Other(s)][c].sent
    /\ out = [i \in 1..Len(out) |-> <<c, i>>]

\* A connection that a message of the other side ended has written all that the
\* other side sent before that message: MsgTypeFin overtakes nothing, neither
\* in rlist nor in wMsg.
EndedAfterAll ==
  \A s \in Sides, c \in Conns :
    conn[s][c].told # None => Len(conn[s][c].out) = conn[s][c].told

\* The tunnel implements Pipes.
Promised == INSTANCE Pipes WITH
  given <- [s \in Sides |-> [c \in Conns |-> conn[Other(s)][c].sent]],
  got   <- [s \in Sides |-> [c \in Conns |-> conn[s][c].out]],
  said  <- [s \in Sides |-> [c \in Conns |-> conn[Other(s)][c].said]],
  told  <- [s \in Sides |-> [c \in Conns |-> conn[s][c].told]]

\* Two pipes for every connection, whatever fails: nothing is lost, repeated
\* or overtaken on the way; and what ends a connection is the first MsgTypeFin
\* of the other side, after all that was sent before it and before all that
\* its reader, which shares the header with the writer that failed, sends
\* after it.
ArePipes == Promised!Spec

\* P2pClient never sends to a closed in, which would panic in its own
\* goroutine: what it waits to send to and what it can find in portMap is not
\* closed; and what is closed is no longer run.
NoSendToClosed ==
  \A s \in Sides, c \in Conns :
    conn[s][c].closed =>
      /\ portMap[s][Port[c]] # c
      /\ ~(loop[s].at = "push" /\ loop[s].conn = c)
      /\ conn[s][c].run = "done"

\* No data leaves for a connection the other side has not dialled yet: the
\* requestor reads its socket only after MsgTypeSynOk.
DataAfterDial ==
  \A s \in Sides, c \in Conns :
    /\ conn[s][c].sent > 0 => conn[Other(s)][c].run \notin {"none", "dialing"}
    /\ conn[s][c].reader = "data"
         => conn[Other(s)][c].run \notin {"none", "dialing"}

\* While its P2pClient runs, a connection that runs is the one under its port.
RunningIsRouted ==
  \A s \in Sides, c \in Conns :
    /\ conn[s][c].run \in {"init", "syn", "loop"}
    /\ loop[s] \notin {Returned, Gone, Crashed}
    => portMap[s][Port[c]] = c

\* When P2pClient.Close runs every connection in portMap has been killed, and
\* after it no connection that had been started is open.
AllClosed ==
  \A s \in Sides, c \in Conns :
    /\ loop[s] = Returned /\ c \in Listed(s) => conn[s][c].killed
    /\ loop[s] = Gone /\ conn[s][c].writer # "off" => conn[s][c].closed

\* RunC waits for room in the in of a connection that nobody empties any more.
Held(s) ==
  /\ loop[s].at = "push"
  /\ LET p == conn[s][loop[s].conn]
     IN p.run = "done" /\ Len(p.in) = InCap
SomeHeld == \E s \in Sides : Held(s)

\* What one side sent is written by the other, unless that connection ends or
\* the P2pClient of a side is held up for ever by a connection that ended.
AllWritten ==
  \A s \in Sides, c \in Conns : \A n \in 1..MaxData[Other(s)][c] :
    conn[Other(s)][c].sent = n
      ~> Len(conn[s][c].out) >= n \/ conn[s][c].run = "done" \/ SomeHeld

\* A side that is told of the end of a connection closes its own, wherever it
\* stands; and so does the side that tells.
FinCloses ==
  \A s \in Sides, c \in Conns :
    (\E i \in DOMAIN wMsg[s] : wMsg[s][i].type = "fin" /\ wMsg[s][i].conn = c)
      ~> (conn[s][c].closed /\ conn[Other(s)][c].closed) \/ SomeHeld

\* A connection whose tunnel cannot be dialled is ended at the requestor, as
\* tcpWriteLoop does on MsgTypeSynErr.
RefusedEnds ==
  \A c \in Conns :
    (\E i \in DOMAIN wMsg["proxy"] :
       wMsg["proxy"][i].type = "synerr" /\ wMsg["proxy"][i].conn = c)
      ~> conn["requestor"][c].killed
=============================================================================
