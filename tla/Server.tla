------------------------------- MODULE Server -------------------------------
(***************************************************************************)
(* The rendezvous server: the registry of spaces, the loop that owns it,   *)
(* and the goroutines of one TCP connection (handler, WriteLoop,           *)
(* ReadLoop).                                                              *)
(*                                                                         *)
(* One server goroutine (ServerMgr.Run) owns the registry.  It selects     *)
(* between the buffered channel `in' and the futures other goroutines ask  *)
(* it to run (registration, Close).  Every endpoint has an UNBUFFERED      *)
(* channel `out': a send is a rendezvous with the endpoint's WriteLoop, so *)
(* the sender waits.  srv says what the loop is doing:                     *)
(*   select   it is in runFor's select                                     *)
(*   send     it waits to hand a message to srv.to, and gives up when that *)
(*            endpoint is dying                                            *)
(*   notify   it waits, inside the Close of srv.who, to hand a ClientQuit  *)
(*            to srv.to; this send has no alternative                      *)
(*   crashed  a send on a closed channel has panicked                      *)
(*                                                                         *)
(* Abstracted: payloads, passwords as values compared for equality, and    *)
(* the time outs of a read or a write, which are failures that may happen  *)
(* at any time.  The connection's first message (MsgReg) is fixed by       *)
(* `req'.  The assist registry is empty here: a ping of type 0 is then     *)
(* answered by the loop itself, as one of type 1 or 3 always is.           *)
(***************************************************************************)
EXTENDS Integers, Sequences

CONSTANTS Conns,     \* TCP connections; each carries one MsgReg
          Names,     \* names of spaces
          Passes,    \* passwords
          Ids,       \* the ids unique() draws from (1..0xFD)
          InCap,     \* capacity of ServerMgr.in (common.MessageSeqSize)
          MaxMsgs,   \* bound: messages that reach the server, after the MsgRegs
          NoConn, NoPass

ASSUME ServerAssumption ==
  /\ Ids \subseteq Nat \ {0}
  /\ InCap \in Nat \ {0}
  /\ MaxMsgs \in Nat
  /\ NoConn \notin Conns
  /\ NoPass \notin Passes

VARIABLES
  pass,       \* spaces[n].spaceProp.pass, NoPass when n is not in spaces
  endpoints,  \* spaces[n].endpoints, by slot
  req,        \* the MsgReg of a connection
  pc,         \* where its handler goroutine is
  clientId,   \* Endpoint.clientId
  dying,      \* endpoints that were killed
  writer,     \* WriteLoop
  reader,     \* ReadLoop; holds the message it is pushing
  in,         \* ServerMgr.in
  srv,        \* the server loop
  msgs        \* bound: messages that have arrived

registry == <<pass, endpoints>>
handler  == <<req, pc, clientId>>
vars     == <<registry, handler, dying, writer, reader, in, srv, msgs>>

Slots == {0} \union Ids   \* clientIds; a listener registers as 0

Requests == [kind : {"listen", "request"}, name : Names, pass : Passes]

Messages ==
  [type : {"TcpPing"}, from : Conns]                      \* echoed to its sender
    \union [type : {"Addr"}, from : Conns, to : Slots]    \* AddrReq, AddrResp, DoShake
    \union [type : {"UdpPing"}, name : Names, id : Slots] \* by UDP, sender unknown

\* The handler goroutine, from the accept to the end of its endpoint.
PCs == {"new", "refused", "registered", "init", "run", "closing", "closed"}

\* ReadLoop; pushing, it holds the message it read.
Idle(at) == [at |-> at]
Readers  == {Idle(at) : at \in {"off", "reading", "done"}}
              \union [at : {"push"}, msg : Messages]

Select == [at |-> "select"]
Crashed == [at |-> "crashed"]

\* A blocked send; via says where the handler found the endpoint.
Sends   == [at : {"send"}, to : Conns, via : {"registry", "sender"}]
Notices == [at : {"notify"}, to : Conns, who : Conns]

Space(c)   == req[c].name
OutOpen(c) == pc[c] # "closed"   \* its channel out is open
-----------------------------------------------------------------------------
(***************************************************************************)
(* The first message of every connection is part of the initial state: it  *)
(* is what the client at the other end will ask.                           *)
(***************************************************************************)
Init ==
  /\ pass = [n \in Names |-> NoPass]
  /\ endpoints = [n \in Names |-> [i \in Slots |-> NoConn]]
  /\ req \in [Conns -> Requests]
  /\ pc = [c \in Conns |-> "new"]
  /\ clientId = [c \in Conns |-> IF req[c].kind = "listen" THEN 0 ELSE -1]
  /\ dying = {}
  /\ writer = [c \in Conns |-> "off"]
  /\ reader = [c \in Conns |-> Idle("off")]
  /\ in = <<>>
  /\ srv = Select
  /\ msgs = 0
-----------------------------------------------------------------------------
(***************************************************************************)
(* Registration: the future that registSpace has the server loop run.      *)
(***************************************************************************)

Refuse(c) ==
  /\ pc' = [pc EXCEPT ![c] = "refused"]
  /\ UNCHANGED <<registry, clientId>>

RegistListener(c) ==
  /\ srv = Select
  /\ pc[c] = "new"
  /\ req[c].kind = "listen"
  /\ \/ /\ pass[Space(c)] # NoPass
        /\ Refuse(c)
     \/ /\ pass[Space(c)] = NoPass
        /\ pass' = [pass EXCEPT ![Space(c)] = req[c].pass]
        /\ endpoints' = [endpoints EXCEPT ![Space(c)] =
                           [i \in Slots |-> IF i = 0 THEN c ELSE NoConn]]
        /\ pc' = [pc EXCEPT ![c] = "registered"]
        /\ UNCHANGED <<clientId>>
  /\ UNCHANGED <<req, dying, writer, reader, in, srv, msgs>>

(***************************************************************************)
(* Space.unique draws ten times and takes the first id that is free; when  *)
(* all ten are in use, which needs one id in use, it returns 0.  The       *)
(* source is seeded with the second, so that everyone who registers in one *)
(* second is offered the same ten.                                         *)
(***************************************************************************)
\* Mutant: rand.Intn(0xFD) + 2.
UniqueOffByOne(n) == {i + 1 : i \in Ids}

Unique(n) ==
  LET used == {i \in Ids : endpoints[n][i] # NoConn}
  IN  (Ids \ used) \union {i \in {0} : used # {}}

RegistRequestor(c) ==
  /\ srv = Select
  /\ pc[c] = "new"
  /\ req[c].kind = "request"
  /\ \/ /\ pass[Space(c)] # req[c].pass
        /\ Refuse(c)
     \/ /\ pass[Space(c)] = req[c].pass
        /\ \E id \in Unique(Space(c)) :
             /\ clientId' = [clientId EXCEPT ![c] = id]
             /\ endpoints' = [endpoints EXCEPT ![Space(c)][id] = c]
        /\ pc' = [pc EXCEPT ![c] = "registered"]
        /\ UNCHANGED pass
  /\ UNCHANGED <<req, dying, writer, reader, in, srv, msgs>>
-----------------------------------------------------------------------------
(***************************************************************************)
(* The handler goroutine: handleTcpClient after the registration.          *)
(***************************************************************************)

\* go WriteLoop; go ReadLoop; enter RunS, that is init.
StartLoops(c) ==
  /\ pc[c] = "registered"
  /\ pc' = [pc EXCEPT ![c] = "init"]
  /\ writer' = [writer EXCEPT ![c] = "ready"]
  /\ reader' = [reader EXCEPT ![c] = Idle("reading")]
  /\ UNCHANGED <<registry, req, clientId, dying, in, srv, msgs>>

\* init hands RegResp to WriteLoop; the send has no alternative.
SendRegResp(c) ==
  /\ pc[c] = "init"
  /\ writer[c] = "ready"
  /\ pc' = [pc EXCEPT ![c] = "run"]
  /\ writer' = [writer EXCEPT ![c] = "writing"]
  /\ UNCHANGED <<registry, req, clientId, dying, reader, in, srv, msgs>>

\* Mutant: the Close is forgotten.
RunSReturnsOnly(c) ==
  /\ pc[c] = "run"
  /\ c \in dying
  /\ pc' = [pc EXCEPT ![c] = "closed"]
  /\ UNCHANGED <<registry, req, clientId, dying, writer, reader, in, srv, msgs>>

(***************************************************************************)
(* runSFor sees Dying: the deferred Close asks the server loop to run its  *)
(* future, and the deferred conn.Close follows at once.                    *)
(***************************************************************************)
RunSReturns(c) ==
  /\ pc[c] = "run"
  /\ c \in dying
  /\ pc' = [pc EXCEPT ![c] = "closing"]
  /\ UNCHANGED <<registry, req, clientId, dying, writer, reader, in, srv, msgs>>

-----------------------------------------------------------------------------
(***************************************************************************)
(* WriteLoop.  The rendezvous itself is part of the sender's action.       *)
(***************************************************************************)

WriteOk(c) ==
  /\ writer[c] = "writing"
  /\ writer' = [writer EXCEPT ![c] = "ready"]
  /\ UNCHANGED <<registry, handler, dying, reader, in, srv, msgs>>

WriteFails(c) ==
  /\ writer[c] = "writing"
  /\ writer' = [writer EXCEPT ![c] = "done"]
  /\ dying' = dying \union {c}
  /\ UNCHANGED <<registry, handler, reader, in, srv, msgs>>

WriterSeesDying(c) ==
  /\ writer[c] = "ready"
  /\ c \in dying
  /\ writer' = [writer EXCEPT ![c] = "done"]
  /\ UNCHANGED <<registry, handler, dying, reader, in, srv, msgs>>

(***************************************************************************)
(* ReadLoop: read a message, then push it into `in' unless dying.  A       *)
(* client writes after it has been sent RegResp.                           *)
(***************************************************************************)

Read(c) ==
  /\ reader[c].at = "reading"
  /\ msgs < MaxMsgs
  /\ msgs' = msgs + 1
  /\ pc[c] = "run"
  /\ \E m \in {[type |-> "TcpPing", from |-> c]}
                \union {[type |-> "Addr", from |-> c, to |-> i] : i \in Slots} :
       reader' = [reader EXCEPT ![c] = [at |-> "push", msg |-> m]]
  /\ UNCHANGED <<registry, handler, dying, writer, in, srv>>

ReadFails(c) ==
  /\ reader[c].at = "reading"
  /\ reader' = [reader EXCEPT ![c] = Idle("done")]
  /\ dying' = dying \union {c}
  /\ UNCHANGED <<registry, handler, writer, in, srv, msgs>>

Push(c) ==
  /\ reader[c].at = "push"
  /\ Len(in) < InCap
  /\ in' = Append(in, reader[c].msg)
  /\ reader' = [reader EXCEPT ![c] = Idle("reading")]
  /\ UNCHANGED <<registry, handler, dying, writer, srv, msgs>>

ReaderSeesDying(c) ==
  /\ reader[c].at = "push"
  /\ c \in dying
  /\ reader' = [reader EXCEPT ![c] = Idle("done")]
  /\ UNCHANGED <<registry, handler, dying, writer, in, srv, msgs>>

\* handleUdpConnFor: any datagram may name any client of any space.
UdpArrives ==
  /\ Len(in) < InCap
  /\ msgs < MaxMsgs
  /\ msgs' = msgs + 1
  /\ \E n \in Names, i \in Slots :
       in' = Append(in, [type |-> "UdpPing", name |-> n, id |-> i])
  /\ UNCHANGED <<registry, handler, dying, writer, reader, srv>>
-----------------------------------------------------------------------------
(***************************************************************************)
(* handleIncomeMsg: find the endpoint a message goes to.                   *)
(***************************************************************************)

\* TcpPing goes to the endpoint it came from, in the registry or not.
Addressee(m) ==
  CASE m.type = "TcpPing" -> m.from
    [] m.type = "UdpPing" -> endpoints[m.name][m.id]
    [] m.type = "Addr"    ->
         IF endpoints[Space(m.from)][clientId[m.from]] # NoConn
         THEN endpoints[Space(m.from)][m.to] ELSE NoConn

TakeMsg ==
  /\ srv = Select
  /\ in # <<>>
  /\ in' = Tail(in)
  /\ LET m == Head(in)
         c == Addressee(m)
     IN  srv' = IF c = NoConn THEN Select
                ELSE [at |-> "send", to |-> c,
                      via |-> IF m.type = "TcpPing" THEN "sender" ELSE "registry"]
  /\ UNCHANGED <<registry, handler, dying, writer, reader, msgs>>

\* select { case end.out <- msg: ... case <-end.Dying(): }
SendDone ==
  /\ srv.at = "send"
  /\ OutOpen(srv.to)
  /\ writer[srv.to] = "ready"
  /\ writer' = [writer EXCEPT ![srv.to] = "writing"]
  /\ srv' = Select
  /\ UNCHANGED <<registry, handler, dying, reader, in, msgs>>

\* Mutant: the send of the handlers without its Dying alternative.
SendInsists == FALSE /\ UNCHANGED vars

SendGivesUp ==
  /\ srv.at = "send"
  /\ srv.to \in dying
  /\ srv' = Select
  /\ UNCHANGED <<registry, handler, dying, writer, reader, in, msgs>>

\* Chosen by select, a send on a closed channel panics.
SendPanics ==
  /\ srv.at = "send"
  /\ ~OutOpen(srv.to)
  /\ srv' = Crashed
  /\ UNCHANGED <<registry, handler, dying, writer, reader, in, msgs>>
-----------------------------------------------------------------------------
(***************************************************************************)
(* Endpoint.Close: the future that ends an endpoint.                       *)
(***************************************************************************)

Closing(c) == srv = Select /\ pc[c] = "closing"

\* close(end.out)
CloseOut(c) == pc' = [pc EXCEPT ![c] = "closed"]

\* Mutant: only the head is killed.
CloseSpaceQuietly(c) ==
  /\ Closing(c)
  /\ clientId[c] = 0
  /\ dying' = dying \union {c}
  /\ pass' = [pass EXCEPT ![Space(c)] = NoPass]
  /\ endpoints' = [endpoints EXCEPT ![Space(c)] = [i \in Slots |-> NoConn]]
  /\ CloseOut(c)
  /\ UNCHANGED <<req, clientId, writer, reader, in, srv, msgs>>

\* clientId 0: kill everyone in the space, drop the space.
CloseSpace(c) ==
  /\ Closing(c)
  /\ clientId[c] = 0
  /\ dying' = dying \union ({endpoints[Space(c)][i] : i \in Slots} \ {NoConn})
  /\ pass' = [pass EXCEPT ![Space(c)] = NoPass]
  /\ endpoints' = [endpoints EXCEPT ![Space(c)] = [i \in Slots |-> NoConn]]
  /\ CloseOut(c)
  /\ UNCHANGED <<req, clientId, writer, reader, in, srv, msgs>>

\* Mutant: the entry stays in the registry.
LeaveSlotNot(c) == UNCHANGED endpoints

LeaveSlot(c) == endpoints' = [endpoints EXCEPT ![Space(c)][clientId[c]] = NoConn]

\* Mutant: what is not a listener leaves by the second branch, whatever its id.
NotHeadByKind(c) == req[c].kind = "request"

NotHead(c) == clientId[c] # 0

\* Mutant: the channel is closed before the listener is told.
CloseOutFirst(c, l) ==
  /\ srv' = [at |-> "notify", to |-> l, who |-> c]
  /\ CloseOut(c)

TellHead(c, l) ==
  /\ srv' = [at |-> "notify", to |-> l, who |-> c]
  /\ UNCHANGED pc

\* Any other: empty the slot, then tell whoever is in slot 0, waiting for it.
CloseRequestor(c) ==
  /\ Closing(c)
  /\ NotHead(c)
  /\ LeaveSlot(c)
  /\ LET l == endpoints[Space(c)][0]
     IN  \/ /\ l = NoConn
            /\ CloseOut(c)
            /\ UNCHANGED srv
         \/ /\ l # NoConn
            /\ TellHead(c, l)
  /\ UNCHANGED <<pass, req, clientId, dying, writer, reader, in, msgs>>

NotifyDone ==
  /\ srv.at = "notify"
  /\ writer[srv.to] = "ready"
  /\ writer' = [writer EXCEPT ![srv.to] = "writing"]
  /\ srv' = Select
  /\ CloseOut(srv.who)
  /\ UNCHANGED <<registry, req, clientId, dying, reader, in, msgs>>
-----------------------------------------------------------------------------
Regist(c)  == RegistListener(c) \/ RegistRequestor(c)
Close(c)   == CloseSpace(c) \/ CloseRequestor(c)
Handler(c) == StartLoops(c) \/ SendRegResp(c) \/ RunSReturns(c)
Writer(c)  == WriteOk(c) \/ WriteFails(c) \/ WriterSeesDying(c)
Reader(c)  == Read(c) \/ ReadFails(c) \/ Push(c) \/ ReaderSeesDying(c)
Sending    == SendDone \/ SendGivesUp \/ SendPanics \/ NotifyDone

Next ==
  \/ \E c \in Conns : Regist(c) \/ Close(c) \/ Handler(c) \/ Writer(c) \/ Reader(c)
  \/ UdpArrives
  \/ TakeMsg
  \/ Sending

Spec == Init /\ [][Next]_vars

(***************************************************************************)
(* Fairness.  As long as some goroutine of the server can go on, one does; *)
(* a write ends, by its deadline at the latest.  Nothing obliges a client  *)
(* to connect or to write, or a connection to fail.  With finitely many    *)
(* messages this one condition is enough: no goroutine can run for ever    *)
(* while another waits.                                                    *)
(***************************************************************************)
System ==
  \/ \E c \in Conns : Handler(c) \/ Writer(c) \/ Close(c) \/ Push(c) \/ ReaderSeesDying(c)
  \/ TakeMsg
  \/ Sending

Fairness == WF_vars(System)

FairSpec == Spec /\ Fairness
-----------------------------------------------------------------------------
(***************************************************************************)
(* Properties.                                                             *)
(***************************************************************************)

\* Every variable has its type: the states of the goroutines, the messages in
\* the queue, the endpoint the server loop waits for (server.go:21-59).
TypeOK ==
  /\ pass \in [Names -> Passes \union {NoPass}]
  /\ endpoints \in [Names -> [Slots -> Conns \union {NoConn}]]
  /\ req \in [Conns -> Requests]
  /\ pc \in [Conns -> PCs]
  /\ clientId \in [Conns -> Slots \union {-1}]
  /\ dying \in SUBSET Conns
  /\ writer \in [Conns -> {"off", "ready", "writing", "done"}]
  /\ reader \in [Conns -> Readers]
  /\ in \in Seq(Messages) /\ Len(in) <= InCap
  /\ msgs \in 0..MaxMsgs
  /\ srv \in {Select, Crashed} \union Sends \union Notices

\* Who is listed asked for that space with its present password, believes it
\* has that id, and has an open channel (registSpace, Endpoint.Close): across
\* spaces that end and are opened again, however late a Close runs.
Listed(n, i, c) ==
  /\ Space(c) = n
  /\ req[c].pass = pass[n]
  /\ clientId[c] = i
  /\ pc[c] \in {"registered", "init", "run", "closing"}

RegistryConsistent ==
  \A n \in Names, i \in Slots :
    endpoints[n][i] # NoConn => Listed(n, i, endpoints[n][i])

\* A space exists exactly while slot 0 is taken: no Close, not even that of an
\* endpoint which unique() gave the id 0, leaves a space that nobody can end
\* or a head without its space.
SpaceHasHead ==
  \A n \in Names : pass[n] # NoPass <=> endpoints[n][0] # NoConn

\* The loop never waits on a closed channel for an endpoint it found in the
\* registry; the echo of a TcpPing, which goes to the endpoint the message
\* came from, is the only send that can panic.
SendsToOpen ==
  /\ srv.at = "send" /\ srv.via = "registry" => OutOpen(srv.to)
  /\ srv.at = "notify" => OutOpen(srv.to) /\ OutOpen(srv.who)

MembersDie ==
  \A n \in Names :
    pass[n] # NoPass /\ pass'[n] = NoPass =>
      \A i \in Slots : endpoints[n][i] # NoConn => endpoints[n][i] \in dying'

\* Nobody listed survives the end of a space (endpoint.go:171-178).
SpaceEndKillsMembers == [][MembersDie]_vars

\* Beyond repair: the loop has panicked, or waits in Endpoint.Close for a
\* listener whose WriteLoop has gone.
Stuck ==
  \/ srv.at = "crashed"
  \/ srv.at = "notify" /\ writer[srv.to] = "done"

\* A send with the Dying alternative never holds the loop for ever, not even
\* when the endpoint's WriteLoop has not started or has already gone.
SendCompletes == srv.at = "send" ~> srv.at # "send"

InRegistry(c) == \E n \in Names, i \in Slots : endpoints[n][i] = c

\* An endpoint that was killed leaves the registry, unless its handler is held
\* in init (no WriteLoop to take RegResp) or the server loop is stuck.
DyingLeaves ==
  \A c \in Conns :
    (c \in dying /\ InRegistry(c))
      ~> (~InRegistry(c) \/ Stuck \/ (pc[c] = "init" /\ writer[c] = "done"))
-----------------------------------------------------------------------------
(***************************************************************************)
(* What the source says of itself and the model refutes.                   *)
(***************************************************************************)

\* endpoint.go:180 "Notify the listener that requestor quit": the notice that
\* Close sends is delivered.
QuitNoticeDelivered == srv.at = "notify" ~> srv.at # "notify"

\* The same comment: a notice names a requestor that quit, so no other endpoint
\* is listed under the id it names when that endpoint's Close runs.
QuitNoticeIsTrue ==
  [][\A c \in Conns :
       srv.at = "select" /\ srv'.at = "notify" /\ srv'.who = c
         => endpoints[Space(c)][clientId[c]] \in {c, NoConn}]_vars

\* The same comment again: the one who is notified is a listener.
QuitNoticeToListener == srv.at = "notify" => req[srv.to].kind = "listen"

\* client.go:237 asserts that the first message after MsgReg is a MsgRegResp:
\* WriteLoop takes no message from the server loop before that of init.
RegRespFirst ==
  [][\A c \in Conns :
       srv.at \in {"send", "notify"} /\ writer[c] = "ready" /\ writer'[c] = "writing"
         => pc[c] # "init"]_vars

\* endpoint.go:161 "Close after dead": an endpoint that was killed is closed,
\* as long as the server loop is not stuck.
ClosedAfterDead ==
  \A c \in Conns : (c \in dying) ~> (pc[c] = "closed" \/ Stuck)
=============================================================================
