# koolnet in TLA+

koolnet tunnels TCP connections between two clients behind NATs.  A *proxy*
("listen") opens a named space on a public server, a *requestor* joins it, the
two shake hands over UDP and then carry TCP streams over ikcp, a retransmission
protocol on top of UDP.  The program is 50 files of Go; everything below names
them from the root of the repository (`src/server/server.go` is
`src/src/server/server.go` in `PROJECT.json`).

1. Inventory
2. Modules: how they correspond to the code
3. Runs: what each one asks, its bounds
4. Fairness
5. Proofs
6. Where the code and its words disagree
7. What is not modelled
8. Plan

## 1. Inventory

Goroutines talk over Go channels and over *promises*: a closure that is sent to
the goroutine that owns some state, runs there, and is answered over another
channel.

| component | files | state | operations | modelled |
|---|---|---|---|---|
| server registry and loop | server/server.go | spaces, endpoints by id, assists, hooks, queue `in` | registSpace, registAssist, handleIncomeMsg, handleAddrMsg, processUdpPing, UDP reader | `Server`; assists, hooks and pings in `Relay`; handleAddrMsg in `Handshake` |
| endpoint | server/endpoint.go | one TCP client: unbuffered `out`, killed flag, id | RunS, init, WriteLoop, ReadLoop, GoDying, Close | `Server` |
| server's assists | server/assist.go | the TCP side of a helper with another address | loops, GoDying, Close | `Relay` |
| hooks | common/hook.go | a pending answer by sequence number | NewMsgHook, Wait | `Relay` |
| promises | common/future.go | one closure, its target, its answer | Resolve, Run, GetValue | inside `Server`, `Tunnel` |
| client loop | client/client.go | P2pClients by id, hooks, `in`, `out`, listeners | RunFor, handleIncomeMsg, requestP2p, RemoveClient, Close | what concerns connections in `Tunnel`, P2pClients in `Handshake`, hooks in `Relay` |
| P2pClient, handshake | client/p2pclient.go | state Begin/Shaking/Ok, role, candidates, addresses | Init, p2pDiscovery, chooseRole, handleMsgIn, handleShakeingMsg, pings | `Handshake`; p2pDiscovery in `Relay` |
| P2pClient, tunnel | client/p2pclient.go | portMap, wMsg, kcp | NewConn, tryToRecvFor, RemoveConn, DoDying, Close | `Tunnel` |
| P2pConn | client/p2pconn.go | one TCP connection: in, rlist, wMsg, hdr | Run, writeAll, read and write loop, GoDying, Close | `Tunnel`, `Pipes` |
| ikcp | ikcp/ikcp.go | windows, queues, buffers, acklist, timers | send, recv, input, flush, update, check | `Ikcp`, `Stream` |
| assist manager | assist/assistmgr.go | the helper's process | loop, TCP and UDP readers | one process in `Relay` |
| message pool, codec, config, certificates, profiling, mains | common/msg.go, pack.go, util.go, client/config.go, *pem.go, profile/, main_*.go | reference counts; data | | no |

How they interact.  Clients and assists reach the server by TCP (one endpoint
or assist each, with a reader and a writer goroutine) and by UDP pings; the
server's loop relays address messages between the endpoints of a space.  In a
client, the client's loop owns the P2pClients and passes them what arrives;
each P2pClient is a goroutine that owns one kcp and its connections; each
connection is a P2pConn with three goroutines.  P2pConn and P2pClient reach each
other by channels (`in`, `wMsg`) and by promises; a P2pClient that ends asks the
client's loop, by a promise, to remove it.

What is hard, and what makes each part correct:

* **Server**.  The handlers of a connection run beside the loop that owns the
  registry; a connection may fail between any two steps, and its Close comes
  whenever the loop gets to it.  The registry must list only open endpoints
  under their own name, password and id; a space must exist exactly while it
  has a head; the loop must not send to closed channels, nor wait for ever.
* **Ikcp**.  The network loses, repeats, reorders and delays.  What is read must
  be what was sent, in order, in whole messages; windows must hold against stale
  news; a closed window must open again.
* **Tunnel**.  Six goroutines per connection and five bounded queues between two
  sockets; either socket may fail at any time on either side, a dial may fail,
  the session may be killed.  Data must come through in order; an end must not
  overtake data, must reach both sides and must close both; P2pClient must not
  send to a closed channel; nothing started may stay open.
* **Handshake**.  Messages by way of the server race with datagrams between the
  peers, which are lost, repeated and reordered; a requestor may end and come back
  under its old id.  The two must become ready only on a pair of addresses that
  works; neither may shake hands, or stay ready, for ever without the other.
* **Relay**.  Answers race with the timeouts that take hooks back; assists die and
  register again before their death is known; numbers are cut to 16 bits on the
  way.  A hook must be ready to take an answer as long as it is in the map, a
  ping must get its own answer or none, and must end.
* **Promises**.  The target may die while it has the closure or the answer.

The hazards, line by line, with the properties that cover them, are in
`PROJECT.json`.

## 2. Modules

### Server (MCServer, ServerProofs)

The loop (`srv`), the registry (`pass`, `endpoints`) and, per TCP connection, the
handler goroutine (`pc`), WriteLoop (`writer`), ReadLoop (`reader`) and the killed
flag (`dying`).  `out` is an unbuffered channel: a send is one step that the sender
waits for (`srv.at = "send"`, `"notify"`) and WriteLoop takes.  `in` is a bounded
queue.

| actions | code |
|---|---|
| RegistListener, RegistRequestor, Refuse, Unique | registSpace, registTcpClient, Space.unique |
| StartLoops, SendRegResp, RunSReturns | handleTcpClient, Endpoint.init, RunS |
| WriteOk, WriteFails, WriterSeesDying; Read, ReadFails, Push, ReaderSeesDying | writeLoopFor; readLoopFor |
| UdpArrives, TakeMsg, Addressee | handleUdpConnFor, handleIncomeMsg, handleAddrMsg, processUdpPing |
| SendDone, SendGivesUp, SendPanics, NotifyDone | the selects on `out` of those and of Close |
| CloseOut, CloseSpace, LeaveSlot, TellHead, CloseRequestor | Endpoint.Close |

`Unique` may return 0, as ten unlucky guesses do in the code.  A read or write
deadline is a failure that may happen at any time.  A message's payload is left
out; a password is a value that is equal to another or not.  The assist registry
is empty, so the loop answers every ping itself; `Relay` has the rest.

### Stream and Ikcp (MCIkcp, IkcpProofs)

`Stream` is the promise: messages are sent, and received one by one in that order.
`Ikcp` is the sending half of one control block, the receiving half of another
and the network between them (`fwd`, `back`: sets from which anything may vanish
and in which anything may stay).

| actions | code |
|---|---|
| Send | Ikcp_send: a message is cut into pieces that count down to 0 |
| FlushData (Room, Fresh, MayProbe) | Ikcp_flush from the window probe on: move into snd_buf what the windows allow, send new, expired and skipped segments |
| SenderInput (ParseAck, ParseUna, InFlight, Shrink) | Ikcp_input on ACK and WINS; the comparisons by _itimediff |
| InputPush (ParseData, MoveInOrder), InputWask | Ikcp_input on PUSH and WASK, ikcp_parse_data |
| FlushAcks (Answers, Unused) | Ikcp_flush's acks and window answer |
| Recv (Complete, Taken) | Ikcp_peeksize, Ikcp_recv |

Abstractions: one direction of data, the other is idle; buffers that the code
keeps sorted are sets of numbered segments; segments that share a datagram are
handled one after the other; which timer has expired is a choice; the congestion
window is off (`Ikcp_nodelay(kcp, 1, 20, 2, 1)`); a message fits the receive window
and the reader's buffer.

Sequence numbers are 32 bits wide and come round.  In `Ikcp` they are naturals, so that
it can be said which piece a number stands for, but the code's comparisons are made by
`Itimediff`, which sees only their difference modulo 2 * Half (2^32).  That works because
old numbers do not stay: a datagram is gone before the numbers have gone half round, less
both windows (`Remembered`; in FlushData, the only step that makes a number).  Two thousand
million segments are days at any rate the program reaches (a window of 128 is flushed every
20 ms, 6400 segments a second), and no datagram lives for days.
`IsStream` states that Ikcp implements Stream under a refinement mapping: what was
sent, or read, are the messages whose last piece is in `stream`, or `read`.

### Tunnel and Pipes (MCTunnel, TunnelFacts, TunnelProofs, TunnelFlowProofs)

Both ends of a session: for each side RunC of the P2pClient (`loop`, `dying`,
`portMap`, `wMsg`) and for each connection a record that holds the position of Run,
tcpReadLoop, tcpWriteLoop and the dial, the two promises, and its queues.  Between
the sides is `wire`, one reliable stream of messages each way: what `Stream` promises.

| actions | code |
|---|---|
| Accept; DialOk, DialFails, SynErr | LocalListen.Run and newConn; the goroutine of tryToRecvFor |
| AddConn, With; RemoveConn, Without, Closed | the closures of NewConn and GoDying, RemoveConn, P2pConn.Close |
| Answered, PromiseEnds | Promise.Run: the answer is taken; the target is dying |
| StartLoops, SendSyn | P2pConn.Init |
| RunFor, RunTick, WriteAll, Overflow, GoDying | P2pConn.RunFor, writeAll, GoDying |
| SetupHdr, Read, PushData, PushFin; Write, WriterFin (SaysFin) | tcpReadLoopFor; tcpWriteLoopFor |
| KcpSend, KcpRecv, PushIn | RunCFor on wMsg; tryToRecvFor, whose send to `in` may wait |
| Quit, DoDying, CloseP2p | ClientQuit; DoDying and the return of RunC; RemoveClient and P2pClient.Close |

A send on a channel whose owner has closed it panics: loops recover and end, a dial
or a promise does not and the process ends (`Crashed`).  Each message carries a
number that only the properties use.  Abstractions: how long a reader sleeps when
ikcp's queue is long, and whether it finally gives up, is a choice; a partial TCP
write is part of one write; the client's loop itself lives as long as the session;
there is one session; connections have distinct ports (`TunnelAssumption`).  The last
two are real limits: a port that is used again too early is hazard
`client/p2pclient.go:576`, not covered.

Reader and writer of a connection share its header (`finHdr`), and the reader copies it
into its buffer before it blocks in Read (`SetupHdr`, `mbFin`).  When the writer fails
meanwhile its MsgTypeFin goes out first: what the reader had read, or reads with that
buffer, follows it as MsgTypeData, and what it reads after that goes out as a MsgTypeFin
of its own.

`Pipes` is the promise to the two local programs: each connection is two pipes, and one
end gets the pieces the other gave, in order.  The end is said once (`said`), pieces may
be given after it, and who is told of it has got exactly those that were given before.
`ArePipes` states that Tunnel implements it, whatever the reader sends after the writer's
MsgTypeFin.

### Handshake (MCHandshake, HandshakeProofs)

The P2pClients of the proxy and of one requestor (`peer`), the processes they run in
(`proc`), their sockets (`opened`, `open`), the messages that go by way of the server
(`tcp`, one queue each way) and the datagrams between them (`net`, a set from which
anything may vanish and in which anything may stay).

| actions | code |
|---|---|
| RequestP2p, Begin, NewPeer | requestP2p, P2pClient.Init |
| StartReq, RoleOf | the startReq case of RunCFor, resetLocalAddrs, genAddrResp, requestAddr, chooseRole |
| AddrReq, AddrResp, DoShake, Dropped | handleIncomeMsg of the client, handleMsgIn; handleAddrMsg of the server |
| HandleShake (WithCand, Usable, Least, Chosen) | handleShakeingMsg, onChooseOk |
| HandlePing, HandlePong, SendIkcp | handleMsgIn; udp_output, whose MsgTypeIkcp is a sign of life for the other side |
| TickShaking, TickOk, Restart, Age | the pingTick case of RunCFor; lastPing grows old |
| DoDying, Remove, ClientQuit | DoDying, RemoveClient, MsgTypeClientQuit |
| DiscoveryPanics, Quit, Rejoin | the goroutine of p2pDiscovery that outlived its P2pClient; the requestor's process ends, and is started again |

An address is a socket and a path to it; `Works[s]` says by which paths datagrams
come to s, so that a path may work in one direction only.  A pair of addresses, which
the code writes as text, is a record, and the order of the texts is `Rank`.  The NAT
is what discovery says of it, a choice among `Nat2[s]`, or that discovery failed;
how it comes to its answer is `Relay`.  A hook of a discovery takes any message with
its number, so that a DoShake may disappear while one is under way.  The ports
updateAddrs guesses are left out, as is a public address that discovery did not
learn: both only change which paths there are.  `age` is lastPing in the two steps
the code asks about.

### Relay (MCRelay, RelayProofs)

A client's p2pDiscovery (`client`), the server's hooks and the goroutines that wait
for them (`hooks`, `relay`), the list of assists and the assists (`assists`, `assist`), and
the server's queue `in`, a set because UDP reader and ReadLoops race for it.

| actions | code |
|---|---|
| Discover, Ask, AskTimeout, AskDelete, AskEnds (Again) | p2pDiscovery, NewMsgHook, Wait, tcpPongRecv |
| Answered | handleIncomeMsg of the client: hooks first |
| TakePing, TakeFromAss, OthersPing | processUdpPing |
| HookAdd, HookDel, TakeTest (Unhooked, RespOfDeleted) | runFor, MsgTypeP2pTest |
| RelaySend, RelayWait, RelayDrained, RelayAnswers, RelayFallsBack (ToClient) | the goroutine of processUdpPing and its Wait |
| RegistAssist, AssistGoesDying, AssistCloses (Without), TakeAssPing | registAssist, assist.go, MsgTypeAssPing |
| AssistTakes | handleIncomeMsg of the assist's process |

`resp` is what is in a hook's channel: nothing, closed without an answer, or closed
after the answer to ping n or after a fallback of the server.  An answer goes to the client
under the number of the client's ping; the fallback, after a timeout or the end of an
assist, still has the number the server gave the ping (server.go:351, 389), so that the
client has no hook for it, or the hook of another of its pings takes it
(`RelayFallsBack`).  The map of hooks has the 32-bit number of a ping, its
answer only `seq % SeqSpace`; numbers go round slower than any timeout
(`NotRoundYet`: 65536 pings take longer than 3 s), but not slower than a goroutine that
waits for ever.  Pings of other endpoints only take numbers (`OthersPing`).

## 3. Runs

Every bound is a constant of the cfg.

| run | asks | bounds and why they are enough |
|---|---|---|
| server | TypeOK, RegistryConsistent, SpaceHasHead, SendsToOpen, SpaceEndKillsMembers | three connections, each a listener or a requestor with one of two passwords, one space, one id, so that a space ends and is opened again and ids run out; queue of one, two messages |
| server_live | SendCompletes, DyingLeaves | two connections, two messages, a queue that fills |
| quit_notice, stale_close, first_message | refuted, see 6 | two connections; four for stale_close (two listeners, two requestors in turn) |
| ikcp | TypeOK, WithinWindows, InOrder, NothingLost, WholeMessages, IsStream | messages of 2, 1, 1 pieces, more than both windows (2) hold; one segment in flight forwards and two back, so that news overtake each other; the first guess of the window (1) is smaller than the window; the numbers do not come round (Half = 100) |
| ikcp_live | NothingLost, AllRead | nine messages of 13 pieces and twelve numbers (Half = 6, the least that windows of 2 allow), so that the numbers come round and every comparison is made across the end; windows of 2, so that the window closes |
| tunnel | TypeOK, NoSendToClosed, RunningIsRouted, AllClosed, DataAfterDial, ArePipes | one connection, a message each way and the end of each, so that a reader may have data, or wait for it, when its writer fails; every queue holds one and rlist overflows at its second message, so that each stage is seen full; the proxy's P2pClient killed or given up at any step |
| tunnel_live | OutInOrder, EndedAfterAll, AllWritten, FinCloses | one connection, two messages down: the second waits in rlist for the ticker, and the end behind it |
| syn_refused | refuted, see 6 | as tunnel_live |
| handshake | TypeOK, OkOnWorkingPath, HeardByBoth, ShakeEnds, LostIsNoticed, QuitEnds | two paths, of which the one that comes first in the order of texts works one way only, so that the tempting choice is wrong; the requestor behind the easier NAT; three sockets, so that either side may restart, or the requestor quit and come back; one datagram in flight, which may be repeated and be late by any number of steps; two ticks of shaking |
| relay | TypeOK, HooksReady, OwnAnswer, ListedOpen, DiscoveryEnds, RelayEnds | one client and two pings; two connections of assists at one address; numbers modulo three, one of which goes to somebody else, so that they come round to the hook an earlier ping has left behind, and a fallback meets the hook of another ping |

Deadlock is not checked: all of these systems may stop (clients come and go, messages
are bounded, a process may crash or, in the Server and the Tunnel, be stuck for ever
as section 6 says).

Some properties have exceptions, and the exceptions are defects that the runs reach:

* `DyingLeaves` excepts a loop that is `Stuck` (panicked, or notifying a listener
  whose WriteLoop has gone) and a handler held in init.
* `AllWritten` and `FinCloses` except `SomeHeld`: RunC waits for room in the `in` of a
  connection whose Run is over.  Only RunC could remove that connection, so it waits
  for ever, and with it every connection of the session.
* `FinCloses` begins at a Fin: a connection that ends because its rlist is too long
  sends none, and the other side is not told.
* `HeardByBoth` speaks of a pair with the peer's present socket, and of the peer's half of
  it only.  cands are kept when a P2pClient begins anew, so that a side may even settle on
  a pair with its own closed socket, or its peer's; the pings on it fail, as
  `LostIsNoticed` says, and the next restart follows.  Of its own half a side may have
  forgotten the peer's address, when a late datagram from a former socket came to the same
  address of its own (`WithCand`), which a run shows as soon as two datagrams may be in
  flight.  The two may also settle on different pairs, both good.
* `LostIsNoticed` and `QuitEnds` count a process that a discovery goroutine made panic
  (`DiscoveryPanics`) among those that have ended.
* `RelayEnds` says that the goroutine that relays a ping ends and leaves no hook behind,
  not that the client is answered: a fallback goes out under another number than the
  client's.  It excepts a ping whose client has ended, whose goroutine waits for an
  answer that may never come, and a server that panicked because the assist or the
  endpoint a select was to send to had been closed (`crashed`).
* `OwnAnswer` tells an answer from a fallback: what a client takes for the answer to its
  ping belongs to that ping, but a hook may also take a fallback meant for another.
* That an assist which lives stays listed is false: when its former connection is
  closed late, `Without` removes it, and pings are answered without an assist.

## 4. Fairness

* Server: one weak fairness on all steps of the server's own goroutines.  A write
  ends by its deadline.  Clients owe nothing.
* Ikcp: strong fairness on sending the oldest segment, on its arrival, on the probe of
  a closed window and its arrival, on the answers and the arrival of the latest one.
  Ikcp_flush runs on a 20 ms ticker and resends for ever (dead_link only sets a state
  that is never read), so that "sent again and again" holds of the code; "what is sent
  again and again arrives some day" is the one assumption on the network.  The reader
  reads (tryToRecvFor is called after every input).
* Tunnel: weak fairness on RunC, on each connection's Run, pushes and writer, and on
  dials (DialTimeout).  Go's scheduler runs what can run.  Fairness of the writer
  assumes that a local program takes what is written to it, or fails.  No fairness on
  Accept, on Read (a program may stay silent) or on Quit.
* Handshake: weak fairness on each P2pClient's own steps (its goroutine, its ticker,
  the end of a discovery by its timeouts as long as the P2pClient lives), on messages
  by way of the server and on the passing of time.  `Lose` is fair: a datagram does not
  stay in the network for ever; that one arrives is never assumed.  Nothing is owed by
  users.
* Relay: weak fairness on a client's steps and on each relaying goroutine with the
  loop's part in its hook (a select takes what is offered again and again).  Assists,
  clients' connections and the network owe nothing, which is why only timeouts can end
  anything.

## 5. Proofs

TLAPS proves, for every value of the constants that meets the module's named assumption:

* **ServerProofs**: TypeCorrect, RegistryIsConsistent, SpacesHaveHeads,
  RegistrySendsAreOpen and SpaceEndKills, from ServerAssumption.  The registry's
  consistency is not inductive alone: that CloseRequestor leaves the head of a space
  untouched needs that a listener has id 0 (ListenerIsZero), and that a notice is
  sent on an open channel needs that the endpoint named in it has left the registry
  (NoticeAfterLeaving).  IInv is the conjunction; the proof of a step has one lemma
  for the goroutines of a connection, which leave the registry alone, and one each for
  registration, the loop and Close.
* **IkcpProofs**: TypeCorrect, WindowsHold, ReadInOrder, NoneForgotten, ComparisonsExact,
  ReadsWhole and ImplementsStream, from IkcpAssumption, for any windows, any messages, numbers that come
  round any number of times (two send windows and a receive window fit into half of them)
  and a network of any capacity. IInv adds that what has no number is the rest of the stream (Queued),
  that every segment anywhere carries the piece its number stands for (AllGenuine), and
  that whatever is acknowledged, in acklist or in flight, is at the receiver (AcksTrue).
  ReadInOrder needs AllGenuine, NoneForgotten needs AcksTrue.

  IInv speaks of natural numbers, and is inductive only as long as a comparison modulo
  2^32 comes out as one of naturals would.  NearDifference says that it does when the two
  are less than half round apart, and Young that they are: what flies is not old, and an
  acknowledgement still to be sent is not either (Told).  The last is not a matter of the
  network: a number in acklist may be as old as the segment that brought it, and is held
  for as long as the receiver does not flush.  What bounds it is that the sender's window
  does not move meanwhile: nothing the receiver got since its last answer has been told,
  so that the sender is at most both windows ahead of that answer.  ComparisonsExact
  says so of every comparison of Ikcp_input; RoomFits, RemovedIsAcked and PushCases draw
  the consequences for the loop of Ikcp_flush, the sender's and the receiver's input.

  Whole, on top of IInv, is about messages: in `stream` the message of every piece ends
  `frg` places later (Shaped), so that what Complete looks at (the length of rcv_queue and
  the first frg) is enough for a whole message, and Ikcp_recv stops exactly at its end
  (TakenIsMessage); and the messages that `stream` and `read` are said to hold have their
  ends in them (Ranked).  OneMore shows that pieces that are one message add one message to
  a sequence, PrefixMessages that a prefix has the first ones: with them Ikcp_send is the
  Send of Stream and Ikcp_recv its Recv, and every other step a stutter, for it leaves
  `stream` and `read` alone.

* **RelayProofs**: TypeCorrect, HooksAreReady, AnswersAreOwn and ListedAreOpen, from
  RelayAssumption, for any clients, assists, addresses and numbers of pings.  IInv says
  of each goroutine, client and assist what it needs (RelaysGood, ClientsGood,
  AssistsGood): HooksReady is not inductive without the fact that a goroutine which has
  not offered its hook has nothing in it.  OwnAnswer needs two facts more: every number
  in a header was cut from one ping's (AllGenuine), and the hook of a goroutine that
  waits is less than SeqSpace pings old (Numbers, which rests on the model's NotRoundYet:
  65536 pings take longer than the timeout), so that two numbers whose cut is the same
  are the same.  On a client numbers do not come round: a header's 16 bits are looked up
  among numbers of 32, no ping under way or relayed is younger than its client's last
  (OldPings), and a hook has the last, so that a cut number finds a hook only when nothing
  was cut off and the ping is its own.  A step either leaves the numbers alone (Quiet) or takes the next
  (NewNumber); that is all the proof about numbers has to know of the actions.

* **TunnelFacts, TunnelProofs, TunnelFlowProofs**: TypesKept, DataFollowsDial,
  NeverSendsToClosed, RunsUnderItsPort, ClosesAll, WritesInOrder, EndsAfterAll and
  ImplementsPipes, from TunnelAssumption, for any number of connections with distinct
  ports, any capacities and any amount of data.  The invariant is a conjunction, proved
  part by part, each from those before it:
  * Typed: types, and the bound of every queue.
  * Opened: a MsgTypeSyn is under way at most once, towards a proxy that has no such
    connection, and MsgTypeSynOk only after the dial; data follows (DataFollowsDial).
  * Controlled: a connection that runs is in portMap under its port, and so is one whose
    loops were started and that is not closed; what is closed is over and not in portMap;
    after RunC has returned all that is in portMap was killed; RunC waits to push only to
    what is in portMap.
  * Looping (LoopOK): the loops of a connection start once; a writer fails only on data the
    other side sent, and only a reader, or a writer that failed, says an end.
  * Flowed: what was written are the first pieces that were sent, what was told of the end
    is what was said; and what is on its way to
    the socket, in the connection's wMsg, rlist and `in`, in RunC's hands, on the wire and
    in the other P2pClient's wMsg, continues them in order (Orderly), without a gap while the
    other P2pClient lives (Full).  Of each message on the way InPlace says what is before
    it: every earlier piece that was not written yet and, when it was sent after the end
    was said, the first MsgTypeFin, whose number is how many pieces had been sent by then;
    that one is on the way as long as it was not taken (Marked).

  WriteAllMoves (a front part of rlist goes behind wMsg, nothing else happens) and the
  lemmas on concatenation carry that through the queues.  ImplementsPipes maps the push of
  data at one side to Give on the pipe to the other, the write of data to Get, and the
  write that finds the MsgTypeFin to End; the first MsgTypeFin pushed, by either loop, is
  Say, and every other step a stutter.  Data may be pushed after it.  That the writer at the
  other end is told at the first one, and writes nothing of what follows, is InPlace: a
  piece sent after the end was said has that MsgTypeFin before it, so that it is not what
  the writer finds first, and a MsgTypeFin found first is the first that was sent.
* **HandshakeProofs**: TypesHold, OkPathsWork and BothHaveHeard, from
  HandshakeAssumption, for any paths that work in any directions, any NATs, any order of
  the texts, and any number of sockets and of datagrams in flight.  Neither property is
  inductive: what a side settles on was chosen by the other from what it was told before,
  by a datagram that may have been late.  IInv (Typed and Heard) says that everything held
  by a side, or under way, is true: a side has its half of a pair (Half) when the path
  works towards it, the sockets have been opened, and it has a candidate with the same
  address of its own unless it has left that socket; a chosen pair, also one in flight, has
  both halves (Agreed).  No step takes a half away (Grows, HalfStays), so that one lemma
  (StepKept) asks of each handler only whether what it adds is true.  For the requestor's
  choice that is UsableAgreed, with LeastChosen, which shows that Least is defined: the
  least of any set of naturals exists (LeastNat), from the well-founded order of finite
  sets, since induction itself is out of the prover's reach.

  The corrected form of `HeardByBoth` is due to this proof: an earlier one, which spoke of
  both halves of a pair, held only because the run has one datagram in flight.

Only model-checked: every liveness property and everything with ENABLED.  The messages of
`stream` are counted with Cardinality and found with CHOOSE (Ended, EndOf) rather than
selected by recursion, which would be beyond the prover.

## 6. Where the code and its words disagree

| run | words | code |
|---|---|---|
| quit_notice | endpoint.go:180 "Notify the listener that requestor quit" | the send of the notice has no alternative; a listener whose WriteLoop has returned never takes it, and the server serves nobody again |
| stale_close | the same | Close goes by name and id, not by identity: a late Close removes a live requestor of a new space and reports its quitting |
| first_message | client.go:237 asserts that the first message is a MsgRegResp | the endpoint is in the registry before MsgRegResp is written, so another message can be first |
| syn_refused | p2pclient.go:592 "Response error", p2pconn.go:320 ends a connection on MsgTypeSynErr | Port and Seq of the response are exchanged, so that it never finds its connection, which waits for ever |

## 7. What is not modelled

* Encryption, JSON and headers (pack.go, most of msg.go), password hash, configuration,
  certificates, profiling, mains: data or I/O without state of the protocol.
* The tests directory: scratch programs and packet traces.
* In the modelled parts: clock and round trip estimator of ikcp; its
  data in both directions at once; a chain of several functions in one promise; the
  proxy's reconnect to the server; guessed ports of a harder NAT (updateAddrs); ports
  used again; more than one session at a time; reference counts of messages.

## 8. Plan

In this order, most important first.

1. `Promise`: Promise.Run with a chain of functions, targets that die, and an abstract
   call that is answered at most once; Server's and Tunnel's promises as instances.
2. `Client`: the loop with Close and the proxy's reconnect; composes P2pClients as
   processes that may be held up.
3. Ikcp's clock: the estimator of Ikcp_update_ack, update and check, whose times come
   round as the numbers do; opposite data.
4. Tunnel with ports used again, and MsgBuf reference counts.

Runs of one module are merged where they ask the same question.
