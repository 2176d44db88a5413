-------------------------------- MODULE Relay --------------------------------
(***************************************************************************)
(* How a client learns its public addresses (p2pDiscovery): it pings the   *)
(* server, whose loop has the ping relayed to an assist and back to        *)
(* measure the NAT, and then it pings the assist.  Both answers come by    *)
(* way of the server (server/server.go: processUdpPing, registAssist;      *)
(* server/assist.go; assist/assistmgr.go), and both the client and the     *)
(* goroutine of the server that relays wait for theirs with a MsgHook      *)
(* (common/hook.go), which a timeout takes back.                           *)
(*                                                                         *)
(* UDP loses.  The server's queue s.in is a set: the UDP reader and the    *)
(* ReadLoops race for it.  A WriteLoop and the TCP connection behind it    *)
(* are one step with what the receiver does; a message that is lost with   *)
(* its connection is one that was not taken.                               *)
(***************************************************************************)
EXTENDS Integers, Sequences, FiniteSets

CONSTANTS
  Clients,   \* each is an endpoint of the server
  Assists,   \* the connections that assists make, in order of registration
  Address,   \* Address[a]: where the assist of connection a listens
  SeqSpace,  \* how many numbers a header has room for (65536)
  MaxPings,  \* bound: pings the server's loop relays
  MaxAsks,   \* bound: pings a client sends
  MaxSeq,    \* bound: pings of others do not take numbers above it
  NoAddress

Addresses == {Address[a] : a \in Assists}

ASSUME RelayAssumption ==
  /\ \A a \in Assists : Address[a] # NoAddress
  /\ SeqSpace \in Nat \ {0} /\ MaxPings \in Nat /\ MaxAsks \in Nat
  /\ MaxSeq \in Nat
  /\ Assists \subseteq Nat /\ NoAddress \notin Assists

VARIABLES
  seqMax,   \* the server's counter
  relay,    \* relay[k]: the goroutine that relays the k-th ping
  hooks,    \* the server's hooks: those goroutines whose hook is in the map
  in,       \* s.in
  assists,  \* s.assists: address -> connection
  assist,   \* assist[a]: the server's Assist and the assist's process
  client,   \* client[c]: endpoint, discovery and the client's hook
  crashed   \* the server's process has panicked

vars == <<seqMax, relay, hooks, in, assists, assist, client, crashed>>

Relays == 1..MaxPings
Nobody == NoAddress

\* What a header keeps of a number: uint16(n).
Hdr(n) == n % SeqSpace

\* Resp of a hook: empty, closed without an answer, or closed after the answer
\* to ping n; a client's also after a fallback of the server.
Empty    == 0
Closed   == -1
Fallback == -2

NewRelay == [at |-> "none", seq |-> 0, client |-> Nobody, num |-> 0,
             assist |-> Nobody, alter |-> NoAddress, resp |-> Empty]
Done == [NewRelay EXCEPT !.at = "done"]
NewAssist == [state |-> "none", \* none, up, killed, closed
              open  |-> TRUE,   \* out is open
              out   |-> <<>>]
NewClient == [endpoint |-> "up",  \* up, killed, closed
              at    |-> "idle", \* of p2pDiscovery: idle, add, wait, del, drain
              phase |-> 1,      \* the server's answer, the assist's
              num   |-> 0,      \* c.seqMax
              hook  |-> FALSE,  \* the hook is in c.hooks
              resp  |-> Empty,
              alter |-> NoAddress]

Init ==
  /\ seqMax = 0
  /\ relay = [k \in Relays |-> NewRelay]
  /\ hooks = {} /\ in = {}
  /\ assists = [x \in Addresses |-> Nobody]
  /\ assist = [a \in Assists |-> NewAssist]
  /\ client = [c \in Clients |-> NewClient]
  /\ crashed = FALSE

UdpPing(c, num)  == [type |-> "udpPing", client |-> c, num |-> num]
AssPong(c, num)  == [type |-> "fromAss", client |-> c, num |-> num]
P2pTest(k, seq)  == [type |-> "p2pTest", id |-> k, seq |-> seq]

PutR(k, r) == relay' = [relay EXCEPT ![k] = r]
PutA(a, r) == assist' = [assist EXCEPT ![a] = r]
PutC(c, r) == client' = [client EXCEPT ![c] = r]

Crash == crashed' = TRUE
-----------------------------------------------------------------------------
(***************************************************************************)
(* The client: p2pDiscovery, tcpPongRecv and the hooks of its loop.        *)
(***************************************************************************)
Up(c) == client[c].endpoint = "up"

\* A goroutine of a P2pClient begins, or has come to its second ping.
Discover(c) ==
  /\ Up(c) /\ client[c].at = "idle" /\ client[c].num < MaxAsks
  /\ PutC(c, [client[c] EXCEPT !.at = "add", !.phase = 1])
  /\ UNCHANGED <<seqMax, relay, hooks, in, assists, assist, crashed>>

\* Where the ping arrives, if it does: at the server, or at an assist that
\* sends it on to the server.
Arrives(p, m) ==
  \/ UNCHANGED in
  \/ p.phase = 1 /\ ~crashed /\ in' = in \cup {m}
  \/ /\ p.phase = 2 /\ ~crashed
     /\ \E a \in Assists : assist[a].state = "up" /\ Address[a] = p.alter
     /\ in' = in \cup {m}

\* The client's loop takes the hook; then the ping is sent.
Ask(c) ==
  LET p == [client[c] EXCEPT !.at = "wait", !.num = @ + 1, !.hook = TRUE,
                             !.resp = Empty]
  IN
  /\ Up(c) /\ client[c].at = "add"
  /\ PutC(c, p)
  /\ Arrives(p, IF p.phase = 1 THEN UdpPing(c, p.num) ELSE AssPong(c, p.num))
  /\ UNCHANGED <<seqMax, relay, hooks, assists, assist, crashed>>

\* handleIncomeMsg of the client: the hook with the number in the header takes
\* what comes, whatever it is.  The map has numbers of 32 bits, the header one
\* of 16.
Answered(c, hdr, what, alter) ==
  LET p == client[c] IN
  IF p.hook /\ p.num = hdr
  THEN PutC(c, [p EXCEPT !.hook = FALSE, !.resp = what, !.alter = alter])
  ELSE UNCHANGED client

\* Variant for mutation: the timeout is looked at when the answer has come.
AskTimeoutLate(c) ==
  /\ Up(c) /\ client[c].at = "wait" /\ client[c].resp # Empty
  /\ PutC(c, [client[c] EXCEPT !.at = "del"])
  /\ UNCHANGED <<seqMax, relay, hooks, in, assists, assist, crashed>>

\* 5 s have passed: Wait wants its hook back.
AskTimeout(c) ==
  /\ Up(c) /\ client[c].at = "wait"
  /\ PutC(c, [client[c] EXCEPT !.at = "del"])
  /\ UNCHANGED <<seqMax, relay, hooks, in, assists, assist, crashed>>

\* The loop deletes it, unless the answer was faster.
AskDelete(c) ==
  LET p == client[c] IN
  /\ Up(c) /\ p.at = "del"
  /\ PutC(c, [p EXCEPT !.at = "drain", !.hook = FALSE,
                       !.resp = IF p.hook THEN Closed ELSE @])
  /\ UNCHANGED <<seqMax, relay, hooks, in, assists, assist, crashed>>

\* Variant for mutation: without looking whether an assist was named.
AgainBlindly(p, alter) == p.phase = 1 /\ p.num < MaxAsks

\* The second ping goes to the assist that the first answer names.
Again(p, alter) == p.phase = 1 /\ alter # NoAddress /\ p.num < MaxAsks

\* Wait returns, with the answer if it had not given up.
AskEnds(c) ==
  LET p == client[c]
      alter == IF p.at = "wait" /\ p.resp # Closed THEN p.alter ELSE NoAddress
      next  == IF Again(p, alter)
               THEN [p EXCEPT !.at = "add", !.phase = 2, !.alter = alter]
               ELSE [p EXCEPT !.at = "idle", !.phase = 1, !.alter = NoAddress]
  IN
  /\ Up(c) /\ p.at \in {"wait", "drain"} /\ p.resp # Empty
  /\ PutC(c, [next EXCEPT !.resp = Empty])
  /\ UNCHANGED <<seqMax, relay, hooks, in, assists, assist, crashed>>

\* The client's connection fails; its process ends, the server closes the
\* endpoint later.
EndpointFails(c) ==
  /\ ~crashed /\ Up(c)
  /\ PutC(c, [client[c] EXCEPT !.endpoint = "killed", !.at = "idle",
                               !.hook = FALSE, !.resp = Empty,
                               !.alter = NoAddress, !.phase = 1])
  /\ UNCHANGED <<seqMax, relay, hooks, in, assists, assist, crashed>>

EndpointCloses(c) ==
  /\ ~crashed /\ client[c].endpoint = "killed"
  /\ PutC(c, [client[c] EXCEPT !.endpoint = "closed"])
  /\ UNCHANGED <<seqMax, relay, hooks, in, assists, assist, crashed>>
-----------------------------------------------------------------------------
(***************************************************************************)
(* The server's loop: runFor and handleIncomeMsg.                          *)
(***************************************************************************)
Take(m) == ~crashed /\ m \in in /\ in' = in \ {m}

\* Variant for mutation: all pings get the same number.
NextSeqSame == seqMax' = IF seqMax = 0 THEN 1 ELSE seqMax

NextSeq == seqMax' = seqMax + 1

\* The numbers in headers come round later than any timeout: 65536 pings take
\* longer than 3 s.  A goroutine that drains its hook may stay for ever.
NotRoundYet ==
  \A k \in Relays : relay[k].at \notin {"none", "drain", "done"}
                    => relay[k].seq + SeqSpace > seqMax + 1

FirstUnused(k) == relay[k].at = "none" /\ \A j \in 1..(k - 1) : relay[j].at # "none"

\* processUdpPing: the ping of a client the server knows is relayed to any
\* assist, or answered at once.
TakePing(c, num) ==
  /\ Take(UdpPing(c, num))
  /\ \/ /\ client[c].endpoint # "closed" /\ NotRoundYet /\ NextSeq
        /\ \/ /\ \E x \in Addresses, k \in Relays :
                   /\ assists[x] # Nobody /\ FirstUnused(k)
                   /\ PutR(k, [NewRelay EXCEPT
                        !.at = "add", !.seq = seqMax', !.client = c, !.num = num,
                        !.assist = assists[x], !.alter = x])
              /\ UNCHANGED client
           \/ /\ \A x \in Addresses : assists[x] = Nobody
              /\ Answered(c, Hdr(num), num, NoAddress)
              /\ UNCHANGED relay
     \/ client[c].endpoint = "closed" /\ UNCHANGED <<seqMax, relay, client>>
  /\ UNCHANGED <<hooks, assists, assist, crashed>>

\* Pings of other endpoints, of which only the numbers they take matter here.
OthersPing ==
  /\ ~crashed /\ NotRoundYet /\ seqMax < MaxSeq
  /\ NextSeq
  /\ UNCHANGED <<relay, hooks, in, assists, assist, client, crashed>>

\* The ping that an assist sent on.
TakeFromAss(c, num) ==
  /\ Take(AssPong(c, num))
  /\ Answered(c, Hdr(num), num, NoAddress)
  /\ UNCHANGED <<seqMax, relay, hooks, assists, assist, crashed>>

\* A relaying goroutine's hook comes in.  One whose number is in the map
\* already is refused.
HookAdd(k) ==
  LET r == [relay[k] EXCEPT !.at = "send"] IN
  /\ ~crashed /\ relay[k].at = "add"
  /\ IF \E j \in hooks : relay[j].seq = r.seq
     THEN PutR(k, [r EXCEPT !.resp = Closed]) /\ UNCHANGED hooks
     ELSE PutR(k, r) /\ hooks' = hooks \cup {k}
  /\ UNCHANGED <<seqMax, in, assists, assist, client, crashed>>

\* Variant for mutation: the hook stays in the map when it is answered.
UnhookedNot(j) == hooks

\* hooks without that of j.
Unhooked(j) == hooks \ {j}

\* MsgTypeP2pTest: an answer for the hook with its number; the map has numbers
\* of 32 bits, the answer one of 16.
TakeTest(k, seq) ==
  /\ Take(P2pTest(k, seq))
  /\ \/ \E j \in hooks : /\ relay[j].seq = seq
                         /\ PutR(j, [relay[j] EXCEPT !.resp = k])
                         /\ hooks' = Unhooked(j)
     \/ /\ \A j \in hooks : relay[j].seq # seq
        /\ UNCHANGED <<relay, hooks>>
  /\ UNCHANGED <<seqMax, assists, assist, client, crashed>>

\* Variant for mutation: the deleted hook is not closed.
RespOfDeletedOpen(k) == relay[k].resp

\* What a Wait that gave up finds in Resp.
RespOfDeleted(k) == IF k \in hooks THEN Closed ELSE relay[k].resp

HookDel(k) ==
  /\ ~crashed /\ relay[k].at = "del"
  /\ PutR(k, [relay[k] EXCEPT !.at = "drain", !.resp = RespOfDeleted(k)])
  /\ hooks' = hooks \ {k}
  /\ UNCHANGED <<seqMax, in, assists, assist, client, crashed>>

\* MsgTypeAssPing is echoed, which nobody looks at.  Of the pings (tcpPingServ)
\* of an assist that has ever been up, some may still be in s.in: when the
\* assist has been closed meanwhile, the select may choose the closed channel,
\* and the server panics.
TakeAssPing(a) ==
  /\ ~crashed /\ assist[a].state # "none"
  /\ \/ UNCHANGED crashed
     \/ ~assist[a].open /\ Crash
  /\ UNCHANGED <<seqMax, relay, hooks, in, assists, assist, client>>
-----------------------------------------------------------------------------
(***************************************************************************)
(* The goroutine that relays a ping.                                       *)
(***************************************************************************)

\* v.out takes the ping, or v is dying; out may be closed by now.
RelaySend(k) ==
  LET r == relay[k]
      sent == [r EXCEPT !.at = "wait", !.assist = Nobody]
  IN
  /\ ~crashed /\ r.at = "send"
  /\ \/ /\ assist[r.assist].state = "up"
        /\ PutA(r.assist, [assist[r.assist] EXCEPT
                             !.out = Append(@, P2pTest(k, Hdr(r.seq)))])
        /\ PutR(k, sent) /\ UNCHANGED crashed
     \/ /\ assist[r.assist].state # "up"   \* or out takes it, for nobody
        /\ PutR(k, sent) /\ UNCHANGED <<assist, crashed>>
     \/ ~assist[r.assist].open /\ Crash /\ UNCHANGED <<relay, assist>>
  /\ UNCHANGED <<seqMax, hooks, in, assists, client>>

\* Wait: the endpoint is dying, 3 s have passed, or Resp has something.
RelayWait(k) ==
  LET r == relay[k] IN
  /\ ~crashed /\ r.at = "wait"
  /\ \/ ~Up(r.client) /\ PutR(k, [r EXCEPT !.at = "drain"])
     \/ PutR(k, [r EXCEPT !.at = "del"])
     \/ r.resp = Closed /\ PutR(k, [r EXCEPT !.at = "drain"])
     \/ r.resp > Empty /\ PutR(k, [r EXCEPT !.at = "forward"])
  /\ UNCHANGED <<seqMax, hooks, in, assists, assist, client, crashed>>

\* range mhook.Resp ends when somebody has closed it.
RelayDrained(k) ==
  LET r == relay[k] IN
  /\ ~crashed /\ r.at = "drain" /\ r.resp # Empty
  /\ PutR(k, IF Up(r.client) THEN [r EXCEPT !.at = "fallback"] ELSE Done)
  /\ UNCHANGED <<seqMax, hooks, in, assists, assist, client, crashed>>

\* end.out takes m, or the endpoint is dying; out may be closed by now.
ToClient(k, m) ==
  LET c == relay[k].client IN
  /\ \/ Up(c) /\ m /\ PutR(k, Done) /\ UNCHANGED crashed
     \/ ~Up(c) /\ PutR(k, Done) /\ UNCHANGED <<client, crashed>>
     \/ client[c].endpoint = "closed" /\ Crash /\ UNCHANGED <<relay, client>>
  /\ UNCHANGED <<seqMax, hooks, in, assists, assist>>

\* The answer goes to the client under the number of the client's ping.
RelayAnswers(k) ==
  LET r == relay[k] IN
  /\ ~crashed /\ r.at = "forward"
  /\ ToClient(k, Answered(r.client, Hdr(r.num), relay[r.resp].num, r.alter))

\* Without an answer the ping itself goes back, under the number the server had
\* given it: it is lost on the client, or taken for the answer to another ping.
RelayFallsBack(k) ==
  LET r == relay[k] IN
  /\ ~crashed /\ r.at = "fallback"
  /\ ToClient(k, Answered(r.client, Hdr(r.seq), Fallback, r.alter))
-----------------------------------------------------------------------------
(***************************************************************************)
(* Assists.                                                                *)
(***************************************************************************)

\* registAssist: a second one at an address is answered, but not listed.
RegistAssist(a) ==
  LET x == Address[a] IN
  /\ ~crashed /\ assist[a].state = "none"
  /\ \A b \in Assists : b < a => assist[b].state # "none"
  /\ PutA(a, [assist[a] EXCEPT !.state = "up"])
  /\ assists' = [assists EXCEPT ![x] = IF @ = Nobody THEN a ELSE @]
  /\ UNCHANGED <<seqMax, relay, hooks, in, client, crashed>>

\* The assist's process takes what the server wrote: a P2pTest is sent to the
\* client's address (which opens its NAT, no more) and back to the server.
AssistTakes(a) ==
  LET r == assist[a]
      m == Head(r.out)
  IN
  /\ ~crashed /\ r.out # <<>> /\ r.state = "up"
  /\ PutA(a, [r EXCEPT !.out = Tail(@)])
  /\ in' = in \cup {m}
  /\ UNCHANGED <<seqMax, relay, hooks, assists, client, crashed>>

\* The assist's process or connection has failed, maybe long ago: until the
\* server sees it, it takes nothing any more.
AssistGoesDying(a) ==
  /\ ~crashed /\ assist[a].state = "up"
  /\ PutA(a, [assist[a] EXCEPT !.state = "killed", !.out = <<>>])
  /\ UNCHANGED <<seqMax, relay, hooks, in, assists, client, crashed>>

\* Variant for mutation: the channel is closed, the registry left alone.
WithoutNot(x) == assists

Without(x) == [assists EXCEPT ![x] = Nobody]

\* Assist.Close: whoever is listed at the address leaves, and the own out is
\* closed.
AssistCloses(a) ==
  LET x == Address[a] IN
  /\ ~crashed /\ assist[a].state = "killed"
  /\ assists' = Without(x)
  /\ PutA(a, [assist[a] EXCEPT !.state = "closed", !.out = <<>>,
                               !.open = @ /\ assists[x] = Nobody])
  /\ UNCHANGED <<seqMax, relay, hooks, in, client, crashed>>

Client(c) == Ask(c) \/ AskTimeout(c) \/ AskDelete(c) \/ AskEnds(c)
Loop ==
  \/ OthersPing
  \/ \E c \in Clients, n \in 1..MaxAsks : TakePing(c, n) \/ TakeFromAss(c, n)
  \/ \E k \in Relays : \/ HookAdd(k) \/ HookDel(k)
                       \/ \E q \in 0..(SeqSpace - 1) : TakeTest(k, q)
  \/ \E a \in Assists : TakeAssPing(a) \/ AssistCloses(a)
Relaying(k) ==
  \/ RelaySend(k) \/ RelayWait(k) \/ RelayDrained(k)
  \/ RelayAnswers(k) \/ RelayFallsBack(k)

Next ==
  \/ Loop
  \/ \E c \in Clients : \/ Discover(c) \/ Client(c)
                        \/ EndpointFails(c) \/ EndpointCloses(c)
  \/ \E k \in Relays : Relaying(k)
  \/ \E a \in Assists : \/ RegistAssist(a) \/ AssistTakes(a)
                        \/ AssistGoesDying(a)

Spec == Init /\ [][Next]_vars

\* Goroutines run, timers expire, and a loop's select takes a hook that is
\* offered again and again.  Assists and the network owe nothing.
Fairness ==
  /\ \A c \in Clients : WF_vars(Client(c))
  /\ \A k \in Relays : WF_vars(Relaying(k) \/ HookAdd(k) \/ HookDel(k))

FairSpec == Spec /\ Fairness
-----------------------------------------------------------------------------
Tests == [type : {"p2pTest"}, id : Relays, seq : 0..(SeqSpace - 1)]
Messages ==
  [type : {"udpPing", "fromAss"}, client : Clients, num : 1..MaxAsks] \cup Tests

RelayStates == {"none", "add", "send", "wait", "del", "drain", "forward",
                "fallback", "done"}
RelayRecs ==
  [at : RelayStates, seq : Nat, client : Clients \cup {Nobody},
   num : 0..MaxAsks, assist : Assists \cup {Nobody},
   alter : Addresses \cup {NoAddress}, resp : Relays \cup {Empty, Closed}]
AssistRecs ==
  [state : {"none", "up", "killed", "closed"}, open : BOOLEAN, out : Seq(Tests)]
ClientRecs ==
  [endpoint : {"up", "killed", "closed"},
   at : {"idle", "add", "wait", "del", "drain"}, phase : {1, 2},
   num : 0..MaxAsks, hook : BOOLEAN, resp : 0..MaxAsks \cup {Closed, Fallback},
   alter : Addresses \cup {NoAddress}]

\* Every variable has its type; a second ping has an address to go to.
TypeOK ==
  /\ seqMax \in Nat /\ crashed \in BOOLEAN
  /\ relay \in [Relays -> RelayRecs]
  /\ hooks \subseteq Relays
  /\ in \subseteq Messages
  /\ assists \in [Addresses -> Assists \cup {Nobody}]
  /\ assist \in [Assists -> AssistRecs]
  /\ client \in [Clients -> ClientRecs]
  /\ \A c \in Clients : client[c].at = "add" /\ client[c].phase = 2
                         => client[c].alter # NoAddress

\* A hook in the map belongs to a goroutine that has not had its answer, and its
\* Resp is open and empty: the loop can send to it, and close it, without
\* waiting or a panic, however answers and timeouts race (hook.go:33).
HooksReady ==
  /\ \A k \in hooks : relay[k].at \in {"send", "wait", "del", "drain"}
                        /\ relay[k].resp = Empty
  /\ \A c \in Clients : client[c].hook => client[c].at \in {"wait", "del"}
                                         /\ client[c].resp = Empty

\* What the server takes for the answer of an assist to a ping comes from that
\* ping, also when the numbers in headers have come round and find the hook of
\* a goroutine that nobody waits for any more (server.go:351); and what a
\* client takes for the answer to its ping does so too, unless it is a fallback
\* of the server, which goes out under another number (server.go:389).
OwnAnswer ==
  /\ \A k \in Relays : relay[k].at = "forward" => relay[k].resp = k
  /\ \A c \in Clients : client[c].resp > Empty => client[c].resp = client[c].num

\* The assist the server sends pings to can take them: it is listed at its own
\* address, and its out is open, although assists at one address close each
\* other's entries (assist.go:27).
ListedOpen ==
  \A x \in Addresses : assists[x] # Nobody =>
    LET r == assist[assists[x]] IN
    Address[assists[x]] = x /\ r.open /\ r.state \in {"up", "killed"}

\* A discovery ends, whatever is lost, and whoever dies but its client.
DiscoveryEnds == \A c \in Clients : []<>(client[c].at = "idle" \/ ~Up(c))

\* Whatever is lost, and whoever dies but its client and the server, the
\* goroutine that relays a ping ends, and leaves no hook in the map.
RelayEnds ==
  \A k \in Relays :
    []<>(\/ relay[k].at \in {"none", "done"} /\ k \notin hooks
         \/ ~Up(relay[k].client) \/ crashed)
=============================================================================
