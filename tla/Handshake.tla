------------------------------ MODULE Handshake ------------------------------
(***************************************************************************)
(* The handshake of client/p2pclient.go between the P2pClients of a proxy  *)
(* and of one requestor, and what the clients' loops (client/client.go)    *)
(* and the server do for it: addresses go by way of the server, then the   *)
(* two send each other datagrams, agree on a pair of addresses that works  *)
(* both ways, ping each other, and shake hands again on a new socket when  *)
(* the pings cease.  Either may give up, and is then asked for anew.       *)
(*                                                                         *)
(* An address is a socket and the path to it (a local network, the         *)
(* Internet, ...).  A side knows its own address on every path, and a      *)
(* datagram to the peer's address on a path comes from the own address on  *)
(* that path, if it comes at all: Works[s] are the paths that lead to s.   *)
(* A pair of addresses ("proxy;requestor" in the code) is a record.        *)
(***************************************************************************)
EXTENDS Integers, Sequences, FiniteSets

CONSTANTS
  Paths,
  Works,      \* Works[s]: the paths by which datagrams come to s
  Nat2,       \* Nat2[s]: what discovery may say of the NAT before s
  Rank,       \* the order of the pairs' text
  MaxShakes,  \* shakeCount may not pass it (5)
  MaxSock,    \* bound: sockets that both sides open together
  NetCap,     \* bound: datagrams in flight
  None

Sides    == {"proxy", "requestor"}
Other(s) == IF s = "proxy" THEN "requestor" ELSE "proxy"
Pairs    == [path : Paths, proxy : 1..MaxSock, requestor : 1..MaxSock]

ASSUME HandshakeAssumption ==
  /\ IsFiniteSet(Paths)   \* a machine has finitely many addresses
  /\ Works \in [Sides -> SUBSET Paths]
  /\ Nat2 \in [Sides -> SUBSET BOOLEAN]
  /\ MaxShakes \in Nat /\ NetCap \in Nat /\ MaxSock \in Nat
  /\ None \notin Pairs
  /\ Rank \in [Pairs -> Nat] /\ \A u, v \in Pairs : Rank[u] = Rank[v] => u = v

VARIABLES
  proc,    \* proc[s]: the client is up, leaving (still registered) or down
  opened,  \* opened[s]: number of sockets opened
  open,    \* open[s]: those that are read
  peer,    \* peer[s]: the P2pClient
  orphan,  \* orphan[s]: a discovery outlived its P2pClient
  tcp,     \* tcp[s]: messages to s, at the server
  net      \* datagrams in flight

vars == <<proc, opened, open, peer, orphan, tcp, net>>

NoPeer ==
  [life   |-> "none",   \* none, up, killed, over (RunC has returned)
   state  |-> "begin",  \* P2pBegin, P2pShaking, P2pOk
   sock   |-> 0,        \* udpConn
   disc   |-> 0,        \* the socket p2pDiscovery is asking about
   raddr  |-> 0,        \* raddrs: the addresses of this socket
   loc    |-> FALSE,    \* pongAddr, pongAddr2 say NAT2
   rem    |-> FALSE,    \* pubAddr, pubAddr2 say NAT2
   role   |-> "MASTER",
   cands  |-> {},       \* one pair for each own address
   choose |-> None,
   pair   |-> None,     \* local and remote
   count  |-> 0,        \* shakeCount
   age    |-> "fresh"]  \* of lastPing: past UdpP2pPingTimeout, past ...Close

NewPeer(n) == [NoPeer EXCEPT !.life = "up", !.sock = n, !.disc = n]

Init ==
  /\ proc = [s \in Sides |-> "up"]
  /\ opened = [s \in Sides |-> 0]
  /\ open = [s \in Sides |-> {}]
  /\ peer = [s \in Sides |-> NoPeer]
  /\ orphan = [s \in Sides |-> FALSE]
  /\ tcp = [s \in Sides |-> <<>>]
  /\ net = {}

Runs(s) == proc[s] # "down" /\ peer[s].life \in {"up", "killed"}
Put(s, q) == peer' = [peer EXCEPT ![s] = q]
-----------------------------------------------------------------------------
(***************************************************************************)
(* Datagrams and messages.                                                 *)
(***************************************************************************)
Shake(s, v, choose, cands) ==
  [type |-> "shake", to |-> s, pair |-> v, choose |-> choose, cands |-> cands]
Ping(s, v) == [type |-> "ping", to |-> s, pair |-> v]
Pong(s, v) == [type |-> "pong", to |-> s, pair |-> v]

\* The socket n of s and the socket m of the other side, on a path.
Between(s, path, n, m) ==
  [path |-> path, proxy |-> IF s = "proxy" THEN n ELSE m,
   requestor |-> IF s = "proxy" THEN m ELSE n]

\* The address of s in a pair.
Own(s, v) == <<v.path, v[s]>>

\* From the present socket of q to the peer's address in pair v.
Via(s, q, v) == Between(s, v.path, q.sock, v[Other(s)])

\* What is in flight when D is sent: anything may be lost, and what has
\* arrived may arrive again.
Surviving(D) ==
  LET arriving == {d \in D : /\ d.pair.path \in Works[d.to]
                             /\ d.pair[d.to] \in open[d.to]}
  IN {N \in SUBSET (net \cup arriving) : Cardinality(N) <= NetCap}

\* Messages to the other side, by way of the server.
Tell(s, msgs)        == tcp' = [tcp EXCEPT ![Other(s)] = @ \o msgs]
TakeAndTell(s, msgs) == tcp' = [tcp EXCEPT ![s] = Tail(@), ![Other(s)] = @ \o msgs]

AddrMsg(type, q) == [type |-> type, sock |-> q.sock, nat2 |-> q.loc]
DoShakeMsg       == [type |-> "DoShake"]

\* A message at its addressee; the server drops those of a client it has not
\* any more.
Incoming(s, type) ==
  /\ proc[s] # "down" /\ tcp[s] # <<>> /\ Head(tcp[s]).type = type
  /\ proc[Other(s)] # "down"

\* Variant for mutation: shakeCount is not counted.
ShakingUncounted(q) == [q EXCEPT !.state = "shaking"]

\* shakeAll counts, and sends a datagram to each address of the peer.
Shaking(q) == [q EXCEPT !.state = "shaking", !.count = @ + 1]

ShakeAll(s, q) ==
  IF q.raddr = 0 THEN {}
  ELSE {Shake(Other(s), Between(s, p, q.sock, q.raddr), None, {}) : p \in Paths}

\* chooseRole: who is behind the easier NAT waits for the other.
RoleOf(s, q) ==
  IF s = "proxy" THEN IF ~q.loc /\ q.rem THEN "SLAVE" ELSE "MASTER"
                 ELSE IF ~q.rem /\ q.loc THEN "MASTER" ELSE "SLAVE"
-----------------------------------------------------------------------------
(***************************************************************************)
(* A P2pClient begins: the client's loop creates it and Init opens its     *)
(* socket; p2pDiscovery asks the server about it.                          *)
(***************************************************************************)
NextSocket(s) ==
  /\ opened["proxy"] + opened["requestor"] < MaxSock
  /\ opened' = [opened EXCEPT ![s] = @ + 1]

Begin(s) ==
  /\ NextSocket(s)
  /\ open' = [open EXCEPT ![s] = @ \cup {opened[s] + 1}]

\* requestP2p: at the start, and for a local connection when there is none.
RequestP2p ==
  /\ proc["requestor"] = "up" /\ peer["requestor"].life = "none"
  /\ Begin("requestor")
  /\ Put("requestor", NewPeer(opened["requestor"] + 1))
  /\ UNCHANGED <<proc, orphan, tcp, net>>

\* RunCFor takes a StartInfo; discovery may have failed (FALSE).
StartReq(s) ==
  LET p == peer[s] IN
  /\ Runs(s) /\ p.disc # 0
  /\ \E nat2 \in Nat2[s] :
       LET q == [p EXCEPT !.state = "shaking", !.sock = p.disc, !.disc = 0,
                          !.loc = nat2]
           r == [q EXCEPT !.role = RoleOf(s, q)]
       IN IF s = "requestor"
          THEN /\ Put(s, q) /\ Tell(s, <<AddrMsg("AddrReq", q)>>)
               /\ UNCHANGED net
          ELSE /\ Tell(s, <<AddrMsg("AddrResp", q)>>)
               /\ IF r.role = "SLAVE"
                  THEN Put(s, Shaking(r)) /\ net' \in Surviving(ShakeAll(s, r))
                  ELSE Put(s, r) /\ UNCHANGED net
  /\ open' = [open EXCEPT ![s] = IF p.disc = p.sock THEN @
                                 ELSE (@ \ {p.sock}) \cup {p.disc}]
  /\ UNCHANGED <<proc, opened, orphan>>

\* MsgTypeAddrReq at the proxy, which may have to create the P2pClient first.
AddrReq(s) ==
  LET m == Head(tcp[s])
      p == IF peer[s].life = "none" THEN NewPeer(opened[s] + 1) ELSE peer[s]
  IN
  /\ Incoming(s, "AddrReq")
  /\ IF peer[s].life = "none" THEN Begin(s) ELSE UNCHANGED <<opened, open>>
  /\ IF p.life # "over" /\ (p.state # "ok" \/ p.age = "close")
     THEN /\ Put(s, [p EXCEPT !.raddr = m.sock, !.rem = m.nat2])
          /\ TakeAndTell(s, IF p.state = "shaking"
                            THEN <<AddrMsg("AddrResp", p)>> ELSE <<>>)
     ELSE UNCHANGED peer /\ TakeAndTell(s, <<>>)
  /\ UNCHANGED <<proc, orphan, net>>

\* MsgTypeAddrResp at the requestor.
AddrResp(s) ==
  LET m == Head(tcp[s])
      p == peer[s]
      q == [p EXCEPT !.choose = None, !.raddr = m.sock, !.rem = m.nat2]
      r == [q EXCEPT !.role = RoleOf(s, q)]
  IN
  /\ Incoming(s, "AddrResp")
  /\ IF Runs(s) /\ (p.state # "ok" \/ p.age # "fresh")
     THEN /\ TakeAndTell(s, <<DoShakeMsg>>)
          /\ IF r.role = "SLAVE"
             THEN Put(s, Shaking(r)) /\ net' \in Surviving(ShakeAll(s, r))
             ELSE Put(s, r) /\ UNCHANGED net
     ELSE TakeAndTell(s, <<>>) /\ UNCHANGED <<peer, net>>
  /\ UNCHANGED <<proc, opened, open, orphan>>

\* MsgTypeDoShake on either side.  A hook that waits for its number gets it
\* instead of the P2pClient, whatever the hook was made for.
DoShake(s) ==
  LET p == peer[s] IN
  /\ Incoming(s, "DoShake")
  /\ \/ /\ Runs(s) /\ p.state # "ok"
        /\ TakeAndTell(s, IF s = "proxy" THEN <<DoShakeMsg>> ELSE <<>>)
        /\ IF p.role = "MASTER"
           THEN Put(s, Shaking(p)) /\ net' \in Surviving(ShakeAll(s, p))
           ELSE UNCHANGED <<peer, net>>
     \/ /\ ~Runs(s) \/ p.state = "ok" \/ p.disc # 0 \/ orphan[s]
        /\ TakeAndTell(s, <<>>) /\ UNCHANGED <<peer, net>>
  /\ UNCHANGED <<proc, opened, open, orphan>>

\* The server has lost the sender.
Dropped(s) ==
  /\ tcp[s] # <<>> /\ "down" \in {proc["proxy"], proc["requestor"]}
  /\ TakeAndTell(s, <<>>)
  /\ UNCHANGED <<proc, opened, open, peer, orphan, net>>
-----------------------------------------------------------------------------
(***************************************************************************)
(* handleShakeingMsg.                                                      *)
(***************************************************************************)

\* cands with the pair of a datagram under the own address.
WithCand(s, cands, v) == {c \in cands : Own(s, c) # Own(s, v)} \cup {v}

\* Variant for mutation: the requestor believes what the proxy has heard.
UsableUnheard(cands, heard) == cands

\* The pairs the proxy has heard on whose addresses the requestor has heard.
Usable(cands, heard) ==
  {c \in cands : \E h \in heard : Own("requestor", h) = Own("requestor", c)}

Least(V) == IF V = {} THEN None
            ELSE CHOOSE v \in V : \A u \in V : Rank[v] <= Rank[u]

\* Variant for mutation: local and remote are not set.
ChosenNothing(p) == [p EXCEPT !.state = "ok", !.count = 0, !.age = "fresh"]

\* onChooseOk.
Chosen(p) ==
  [p EXCEPT !.state = "ok", !.pair = p.choose, !.count = 0, !.age = "fresh"]

HandleShake(s, d) ==
  LET p == [peer[s] EXCEPT !.cands = WithCand(s, @, d.pair)]
      back == Via(s, p, d.pair)
      ok == d.choose # None /\ d.choose = p.choose
  IN
  /\ Runs(s) /\ p.state = "shaking" /\ d.to = s /\ d.type = "shake"
  /\ IF ok THEN
       /\ Put(s, Chosen(p))
       /\ net' \in Surviving(
            IF s = "proxy" THEN {Shake("requestor", back, p.choose, p.cands)}
            ELSE {Ping("proxy", Via(s, p, p.choose))})
     ELSE IF s = "requestor" THEN
       LET usable == Usable(d.cands, p.cands) IN
       /\ Put(s, [p EXCEPT !.choose = d.choose])
       /\ net' \in Surviving({Shake("proxy", back, Least(usable), usable)})
     ELSE
       LET choose == IF d.choose = None THEN p.choose ELSE d.choose IN
       /\ Put(s, [p EXCEPT !.choose = choose])
       /\ net' \in Surviving({Shake("requestor", back, choose, p.cands)})
  /\ UNCHANGED <<proc, opened, open, orphan, tcp>>
-----------------------------------------------------------------------------
(***************************************************************************)
(* Pings and time.                                                         *)
(***************************************************************************)
HandlePing(s, d) ==
  LET p == [peer[s] EXCEPT !.age = "fresh"] IN
  /\ Runs(s) /\ d.to = s /\ d.type = "ping"
  /\ Put(s, p)
  /\ net' \in Surviving(IF p.pair = None THEN {}
                        ELSE {Pong(Other(s), Via(s, p, p.pair))})
  /\ UNCHANGED <<proc, opened, open, orphan, tcp>>

HandlePong(s, d) ==
  /\ Runs(s) /\ d.to = s /\ d.type = "pong"
  /\ Put(s, [peer[s] EXCEPT !.age = "fresh"])
  /\ net' \in Surviving({})
  /\ UNCHANGED <<proc, opened, open, orphan, tcp>>

\* MsgTypeIkcp: what connections send is for module Ikcp; here it is a sign of
\* life, as a pong is, and goes to the remote address whatever the state.
SendIkcp(s) ==
  LET p == peer[s] IN
  /\ Runs(s) /\ p.pair # None
  /\ net' \in Surviving({Pong(Other(s), Via(s, p, p.pair))})
  /\ UNCHANGED <<proc, opened, open, peer, orphan, tcp>>

\* A datagram does not stay in the network for ever.
Lose ==
  /\ \E d \in net : net' = net \ {d}
  /\ UNCHANGED <<proc, opened, open, peer, orphan, tcp>>

\* lastPing grows old; a discovery ends before it is UdpP2pPingClose ago.
Age(s) ==
  LET p == peer[s] IN
  /\ Runs(s) /\ p.state = "ok" /\ p.age # "close" /\ p.disc = 0
  /\ Put(s, [p EXCEPT !.age = IF @ = "fresh" THEN "timeout" ELSE "close"])
  /\ UNCHANGED <<proc, opened, open, orphan, tcp, net>>

Over(s) == Put(s, [peer[s] EXCEPT !.life = "over"])

\* pingTick while shaking.
TickShaking(s) ==
  LET q == Shaking(peer[s]) IN
  /\ Runs(s) /\ peer[s].state = "shaking"
  /\ Put(s, IF q.count > MaxShakes THEN [q EXCEPT !.life = "over"] ELSE q)
  /\ net' \in Surviving(ShakeAll(s, q))
  /\ UNCHANGED <<proc, opened, open, orphan, tcp>>

\* Variant for mutation: only the first of the two limits is looked at.
RestartNever(s) == peer[s].age = "timeout" /\ UNCHANGED <<peer, opened>>

\* No ping for too long: shake hands again on a new socket, if there is one.
Restart(s) ==
  /\ peer[s].age = "close"
  /\ \/ /\ NextSocket(s)
        /\ Put(s, [peer[s] EXCEPT !.state = "begin", !.age = "fresh",
                                  !.disc = opened[s] + 1])
     \/ Over(s) /\ UNCHANGED opened

\* pingTick when ok.
TickOk(s) ==
  LET p == peer[s] IN
  /\ Runs(s) /\ p.state = "ok"
  /\ \/ /\ p.age = "timeout"
        /\ net' \in Surviving({Ping(Other(s), Via(s, p, p.pair))})
        /\ UNCHANGED <<peer, opened>>
     \/ Restart(s) /\ UNCHANGED net
  /\ UNCHANGED <<proc, open, orphan, tcp>>
-----------------------------------------------------------------------------
(***************************************************************************)
(* Ends.                                                                   *)
(***************************************************************************)

\* Variant for mutation: a P2pClient looks at it only when it has begun.
DoDyingBegun(s) ==
  /\ proc[s] # "down" /\ peer[s].life = "killed" /\ peer[s].state # "begin"
  /\ Over(s)
  /\ UNCHANGED <<proc, opened, open, orphan, tcp, net>>

\* The P2pClient sees that it was killed.
DoDying(s) ==
  /\ proc[s] # "down" /\ peer[s].life = "killed" /\ Over(s)
  /\ UNCHANGED <<proc, opened, open, orphan, tcp, net>>

\* RemoveClient and Close, by the promise of DoDying.  The socket stays open.
Remove(s) ==
  LET p == peer[s] IN
  /\ proc[s] # "down" /\ p.life = "over"
  /\ Put(s, NoPeer)
  /\ orphan' = [orphan EXCEPT ![s] = @ \/ p.disc # 0]
  /\ UNCHANGED <<proc, opened, open, tcp, net>>

\* The client's process ends.
Down(s) ==
  /\ proc' = [proc EXCEPT ![s] = IF s = "requestor" THEN "leaving" ELSE "down"]
  /\ peer' = [peer EXCEPT ![s] = NoPeer]
  /\ open' = [open EXCEPT ![s] = {}]
  /\ orphan' = [orphan EXCEPT ![s] = FALSE]
  /\ UNCHANGED <<opened, tcp, net>>

\* A discovery sends its result to the closed startReq of its P2pClient: a
\* panic in a goroutine of its own.
DiscoveryPanics(s) == proc[s] = "up" /\ orphan[s] /\ Down(s)

Quit == proc["requestor"] = "up" /\ Down("requestor")

Killed(p) == IF p.life = "up" THEN [p EXCEPT !.life = "killed"] ELSE p

\* The server closes the requestor's endpoint and tells the proxy, whose
\* client kills the P2pClient (MsgTypeClientQuit).
ClientQuit ==
  /\ proc["requestor"] = "leaving"
  /\ proc' = [proc EXCEPT !["requestor"] = "down"]
  /\ Put("proxy", Killed(peer["proxy"]))
  /\ UNCHANGED <<opened, open, orphan, tcp, net>>

\* The requestor is started again and gets the same id.
Rejoin ==
  /\ proc["requestor"] = "down" /\ proc["proxy"] = "up"
  /\ proc' = [proc EXCEPT !["requestor"] = "up"]
  /\ UNCHANGED <<opened, open, peer, orphan, tcp, net>>

Receive(s) == \E d \in net : HandleShake(s, d) \/ HandlePing(s, d) \/ HandlePong(s, d)
Messages(s) == \/ s = "proxy" /\ AddrReq(s)
               \/ s = "requestor" /\ AddrResp(s)
               \/ DoShake(s) \/ Dropped(s)
Ticks(s)   == TickShaking(s) \/ TickOk(s)

Next ==
  \/ RequestP2p \/ Quit \/ ClientQuit \/ Rejoin \/ Lose
  \/ \E s \in Sides : \/ StartReq(s) \/ Messages(s) \/ Receive(s)
                      \/ Ticks(s) \/ Age(s) \/ SendIkcp(s)
                      \/ DoDying(s) \/ Remove(s) \/ DiscoveryPanics(s)

Spec == Init /\ [][Next]_vars

\* Goroutines run, tickers tick, a discovery of a P2pClient that lives ends by
\* its timeouts.  Nothing is owed by users, or by the network but to forget.
Fairness ==
  /\ WF_vars(Lose) /\ WF_vars(ClientQuit)
  /\ \A s \in Sides :
       /\ WF_vars(\/ peer[s].life = "up" /\ StartReq(s)
                  \/ Ticks(s) \/ DoDying(s) \/ Remove(s))
       /\ WF_vars(Age(s)) /\ WF_vars(Messages(s))

FairSpec == Spec /\ Fairness
-----------------------------------------------------------------------------
Socks == 0..MaxSock

\* Every variable has its type; a P2pClient that is P2pOk has a pair, and
\* shakeCount starts from zero when it must shake hands again.
TypeOK ==
  /\ proc \in [Sides -> {"up", "leaving", "down"}]
  /\ opened \in [Sides -> Socks]
  /\ open \in [Sides -> SUBSET Socks] /\ orphan \in [Sides -> BOOLEAN]
  /\ \A s \in Sides :
       LET p == peer[s] IN
       /\ p.life \in {"none", "up", "killed", "over"}
       /\ p.state \in {"begin", "shaking", "ok"}
       /\ {p.sock, p.disc, p.raddr} \subseteq Socks
       /\ {p.loc, p.rem} \subseteq BOOLEAN /\ p.role \in {"MASTER", "SLAVE"}
       /\ p.cands \subseteq Pairs
       /\ {p.choose, p.pair} \subseteq Pairs \cup {None}
       /\ p.state = "ok" => p.pair # None /\ p.count = 0
       /\ p.age \in {"fresh", "timeout", "close"}
  /\ Cardinality(net) <= NetCap

\* A side that is P2pOk has settled on a path that works in both directions,
\* although each has seen only one of them, candidates come in any order and
\* the choice may change with each (handleShakeingMsg).
OkOnWorkingPath ==
  \A s \in Sides : peer[s].state = "ok" =>
    peer[s].pair.path \in Works["proxy"] \cap Works["requestor"]

\* A side that is P2pOk on the present socket of its peer has a peer that has
\* heard datagrams at the very address the pair has of it: the other never
\* believes a candidate because of what it has heard itself.  (Of its own half
\* of the pair the peer may have forgotten, when a late datagram came from a
\* former socket.)
HeardByBoth ==
  \A s \in Sides :
    LET p == peer[s]
        o == peer[Other(s)]
    IN p.state = "ok" /\ p.pair[Other(s)] = o.sock
         => \E c \in o.cands : Own(Other(s), c) = Own(Other(s), p.pair)

\* No P2pClient shakes hands for ever (shakeCount).
ShakeEnds ==
  \A s \in Sides : []<>(peer[s].state # "shaking")

\* A side that is P2pOk does not stay so when the other has no P2pClient and
\* gets none: the pings cease, it shakes hands in vain and gives up.
LostIsNoticed ==
  \A s \in Sides :
    <>[](peer[Other(s)].life = "none") => <>[](peer[s].state # "ok")

\* When the requestor has gone for good, so does its P2pClient at the proxy,
\* also one that a late AddrReq has created.
QuitEnds ==
  <>[](proc["requestor"] = "down") => <>[](peer["proxy"].life = "none")
=============================================================================
