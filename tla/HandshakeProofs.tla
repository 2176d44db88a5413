--------------------------- MODULE HandshakeProofs ---------------------------
(***************************************************************************)
(* The invariants of Handshake, for any paths and sockets, any NATs, and   *)
(* any number of datagrams in flight. IInv says that whatever a side holds *)
(* or is being told is true: of a pair that is chosen each side has its    *)
(* own half, i.e. datagrams come to it on the pair's path, and it has      *)
(* heard one at its own address (Half). No step takes a half from a side   *)
(* as long as it matters (HalfStays), so that what is under way stays true *)
(* however late it comes; a handler needs to be looked at only for what it *)
(* adds (StepKept).                                                        *)
(***************************************************************************)
EXTENDS Handshake, FiniteSetTheorems, WellFoundedInduction, SequenceTheorems, TLAPS

-----------------------------------------------------------------------------
(***************************************************************************)
(* Types.                                                                  *)
(***************************************************************************)

\* The records a P2pClient may be.
Peers ==
  [life : {"none", "up", "killed", "over"}, state : {"begin", "shaking", "ok"},
   sock : Socks, disc : Socks, raddr : Socks, loc : BOOLEAN, rem : BOOLEAN,
   role : {"MASTER", "SLAVE"}, cands : SUBSET Pairs,
   choose : Pairs \cup {None}, pair : Pairs \cup {None}, count : Nat,
   age : {"fresh", "timeout", "close"}]

\* The messages that go by way of the server, and the datagrams.
AddrMsgs == [type : {"AddrReq", "AddrResp"}, sock : 1..MaxSock, nat2 : BOOLEAN]
Msgs   == AddrMsgs \cup {DoShakeMsg}
Shakes == [type : {"shake"}, to : Sides, pair : Pairs,
           choose : Pairs \cup {None}, cands : SUBSET Pairs]
Beats  == [type : {"ping", "pong"}, to : Sides, pair : Pairs]
Grams  == Shakes \cup Beats

\* A P2pClient has a socket; one that is P2pOk has a pair and has reset
\* shakeCount.
Ready(p) == /\ p.life # "none" => p.sock # 0
            /\ p.state = "ok" => p.pair # None /\ p.count = 0

\* The P2pClients a side may have.
Good == {p \in Peers : Ready(p)}

\* The types, one part for each kind of variable.
ProcsOK == proc \in [Sides -> {"up", "leaving", "down"}] /\ orphan \in [Sides -> BOOLEAN]
SocksOK == /\ opened \in [Sides -> Socks] /\ opened["proxy"] + opened["requestor"] <= MaxSock
           /\ open \in [Sides -> SUBSET Socks]
PeersOK == peer \in [Sides -> Good]
TcpOK   == tcp \in [Sides -> Seq(Msgs)]
NetOK   == net \subseteq Grams /\ IsFiniteSet(net) /\ Cardinality(net) <= NetCap
Typed == ProcsOK /\ SocksOK /\ PeersOK /\ TcpOK /\ NetOK

\* The other side of a side.
LEMMA OtherSide ==
  /\ \A s \in Sides : Other(s) \in Sides /\ Other(s) # s /\ Other(Other(s)) = s
  /\ \A s, t \in Sides : t = s \/ t = Other(s)
  BY DEF Sides, Other

\* A set of naturals has a least member: of the intervals 0..x the one that has
\* none of them within.
LEMMA LeastNat ==
  ASSUME NEW T \in SUBSET Nat, T # {}
  PROVE  \E x \in T : \A y \in T : x <= y
<1> DEFINE U == {0..x : x \in T}
<1>1. U # {} /\ U \subseteq FiniteSubsetsOf(Nat)
  <2>1. \A x \in T : 0..x \subseteq Nat /\ IsFiniteSet(0..x)
    BY FS_Interval
  <2> QED BY <2>1 DEF FiniteSubsetsOf
<1>2. PICK m \in U : \A n \in U : ~ (<<n, m>> \in StrictSubsetOrdering(Nat))
  BY <1>1, FS_StrictSubsetOrderingWellFounded, WFMin
<1>3. PICK x \in T : m = 0..x
  OBVIOUS
<1>4. ASSUME NEW y \in T, y < x PROVE FALSE
  <2>1. 0..y \in U /\ 0..y \subseteq 0..x /\ x \in 0..x /\ x \notin 0..y
    BY <1>4
  <2>2. <<0..y, m>> \in StrictSubsetOrdering(Nat)
    BY <2>1, <1>3 DEF StrictSubsetOrdering
  <2> QED BY <1>2, <2>1, <2>2
<1>5. \A y \in T : x <= y
  BY <1>4
<1> QED BY <1>5

\* The pair the requestor chooses is one it may choose from, if there is any:
\* no two pairs rank alike and a rank is a natural.
LEMMA LeastChosen ==
  ASSUME NEW V \in SUBSET Pairs PROVE Least(V) \in V \cup {None}
<1> SUFFICES ASSUME V # {} PROVE \E v \in V : \A u \in V : Rank[v] <= Rank[u]
  BY DEF Least
<1>1. {Rank[v] : v \in V} \in SUBSET Nat /\ {Rank[v] : v \in V} # {}
  BY HandshakeAssumption
<1>2. PICK x \in {Rank[v] : v \in V} : \A y \in {Rank[v] : v \in V} : x <= y
  BY <1>1, LeastNat
<1> QED BY <1>2

\* A side's P2pClient is replaced by one it may have.
LEMMA PutPeer ==
  ASSUME PeersOK, NEW s \in Sides, NEW q \in Good, Put(s, q)
  PROVE  /\ PeersOK' /\ peer'[s] = q
         /\ \A t \in Sides : t # s => peer'[t] = peer[t]
  BY DEF PeersOK, Put

\* What is at the server after a message was sent, or taken and answered: what
\* was there, and what was sent to the other side.
LEMMA Telling ==
  ASSUME TcpOK, NEW s \in Sides, NEW msgs \in Seq(Msgs),
         Tell(s, msgs) \/ (tcp[s] # <<>> /\ TakeAndTell(s, msgs))
  PROVE  /\ TcpOK'
         /\ \A t \in Sides : \A i \in 1..Len(tcp'[t]) :
              \/ \E j \in 1..Len(tcp[t]) : tcp'[t][i] = tcp[t][j]
              \/ t = Other(s) /\ \E j \in 1..Len(msgs) : tcp'[t][i] = msgs[j]
<1> DEFINE o == Other(s)
<1>1. o \in Sides /\ o # s /\ \A t \in Sides : t = s \/ t = o
  BY OtherSide
<1>2. PICK a \in Seq(Msgs), b \in Seq(Msgs) : a = tcp[o] /\ b = tcp[s]
  BY <1>1 DEF TcpOK
<1> HIDE DEF o
<1>3. /\ a \o msgs \in Seq(Msgs)
      /\ \A i \in 1..Len(a \o msgs) : \/ \E j \in 1..Len(a) : (a \o msgs)[i] = a[j]
                                      \/ \E j \in 1..Len(msgs) : (a \o msgs)[i] = msgs[j]
  <2>1. /\ a \o msgs \in Seq(Msgs) /\ Len(a \o msgs) = Len(a) + Len(msgs)
        /\ \A i \in 1..(Len(a) + Len(msgs)) :
              (a \o msgs)[i] = IF i <= Len(a) THEN a[i] ELSE msgs[i - Len(a)]
    BY ConcatProperties
  <2>2. Len(a) \in Nat /\ Len(msgs) \in Nat
    OBVIOUS
  <2> QED BY <2>1, <2>2
<1>4. b # <<>> => /\ Tail(b) \in Seq(Msgs)
                  /\ \A i \in 1..Len(Tail(b)) : \E j \in 1..Len(b) : Tail(b)[i] = b[j]
  BY HeadTailProperties
<1>5. CASE Tell(s, msgs)
  <2>1. tcp' = [tcp EXCEPT ![o] = a \o msgs]
    BY <1>2, <1>5 DEF Tell, o
  <2>2. tcp'[o] = a \o msgs /\ tcp'[s] = b /\ tcp' \in [Sides -> Seq(Msgs)]
    BY <1>1, <1>2, <1>3, <2>1 DEF TcpOK
  <2>3. ASSUME NEW t \in Sides, NEW i \in 1..Len(tcp'[t])
        PROVE  \/ \E j \in 1..Len(tcp[t]) : tcp'[t][i] = tcp[t][j]
               \/ t = Other(s) /\ \E j \in 1..Len(msgs) : tcp'[t][i] = msgs[j]
    <3>1. CASE t = o
      BY <1>2, <1>3, <2>2, <3>1 DEF o
    <3>2. CASE t = s
      BY <1>2, <2>2, <3>2
    <3> QED BY <1>1, <3>1, <3>2
  <2> QED BY <2>2, <2>3 DEF TcpOK
<1>6. CASE b # <<>> /\ TakeAndTell(s, msgs)
  <2>4. PICK e \in Seq(Msgs) : /\ e = Tail(b)
                               /\ \A i \in 1..Len(e) : \E j \in 1..Len(b) : e[i] = b[j]
    BY <1>4, <1>6
  <2>1. tcp' = [tcp EXCEPT ![s] = e, ![o] = a \o msgs]
    BY <1>1, <1>2, <1>6, <2>4 DEF TakeAndTell, o
  <2>2. tcp'[o] = a \o msgs /\ tcp'[s] = e /\ tcp' \in [Sides -> Seq(Msgs)]
    BY <1>1, <1>2, <1>3, <2>1 DEF TcpOK
  <2>3. ASSUME NEW t \in Sides, NEW i \in 1..Len(tcp'[t])
        PROVE  \/ \E j \in 1..Len(tcp[t]) : tcp'[t][i] = tcp[t][j]
               \/ t = Other(s) /\ \E j \in 1..Len(msgs) : tcp'[t][i] = msgs[j]
    <3>1. CASE t = o
      BY <1>2, <1>3, <2>2, <3>1 DEF o
    <3>2. CASE t = s
      BY <1>2, <2>2, <2>4, <3>2
    <3> QED BY <1>1, <3>1, <3>2
  <2> QED BY <2>2, <2>3 DEF TcpOK
<1> QED BY <1>2, <1>5, <1>6

\* What is in flight after datagrams were sent: some of what was, and some of
\* those whose path leads to their addressee.
LEMMA Survivors ==
  ASSUME NetOK, NEW D \in SUBSET Grams, IsFiniteSet(D), net' \in Surviving(D)
  PROVE  /\ NetOK'
         /\ \A d \in net' : d \in net \/ (d \in D /\ d.pair.path \in Works[d.to])
<1> DEFINE arriving == {d \in D : /\ d.pair.path \in Works[d.to]
                                  /\ d.pair[d.to] \in open[d.to]}
<1>1. net' \subseteq net \cup arriving /\ Cardinality(net') <= NetCap
  BY DEF Surviving
<1>2. IsFiniteSet(arriving)
  BY FS_Subset
<1>3. IsFiniteSet(net \cup arriving)
  BY <1>2, FS_Union DEF NetOK
<1>4. IsFiniteSet(net')
  BY <1>1, <1>3, FS_Subset
<1> QED BY <1>1, <1>4 DEF NetOK

-----------------------------------------------------------------------------
(***************************************************************************)
(* Pairs and datagrams, and the invariant.                                 *)
(***************************************************************************)

\* The parts of a pair.
LEMMA PairSocks ==
  ASSUME NEW v \in Pairs, NEW s \in Sides
  PROVE  v[s] \in 1..MaxSock /\ v[s] \in Socks /\ v.path \in Paths
  BY HandshakeAssumption DEF Pairs, Sides, Socks

\* The pair of two sockets on a path.
LEMMA BetweenPair ==
  ASSUME NEW s \in Sides, NEW path \in Paths, NEW n \in 1..MaxSock, NEW m \in 1..MaxSock
  PROVE  LET v == Between(s, path, n, m)
         IN  v \in Pairs /\ v.path = path /\ v[s] = n /\ v[Other(s)] = m
<1>1. CASE s = "proxy"
  BY <1>1 DEF Between, Pairs, Other
<1>2. CASE s = "requestor"
  BY <1>2 DEF Between, Pairs, Other
<1> QED BY <1>1, <1>2 DEF Sides

\* The pair that leads from the present socket to the peer's address in another
\* pair.
LEMMA ViaPair ==
  ASSUME NEW s \in Sides, NEW q \in Peers, q.sock # 0, NEW v \in Pairs
  PROVE  LET u == Via(s, q, v)
         IN  u \in Pairs /\ u.path = v.path /\ u[s] = q.sock /\ u[Other(s)] = v[Other(s)]
<1>1. q.sock \in 1..MaxSock
  BY HandshakeAssumption DEF Peers, Socks
<1>2. v[Other(s)] \in 1..MaxSock /\ v.path \in Paths
  BY OtherSide, PairSocks
<1> QED BY <1>1, <1>2, BetweenPair DEF Via

\* What a datagram of the handshake is made of.
LEMMA ShakeTyped ==
  ASSUME NEW s \in Sides, NEW v \in Pairs, NEW choose \in Pairs \cup {None},
         NEW cands \in SUBSET Pairs
  PROVE  LET d == Shake(s, v, choose, cands)
         IN  /\ d \in Grams /\ d \in Shakes /\ d.type = "shake" /\ d.to = s /\ d.pair = v
             /\ d.choose = choose /\ d.cands = cands
  BY DEF Shake, Shakes, Grams

\* What a ping and a pong are made of.
LEMMA BeatTyped ==
  ASSUME NEW s \in Sides, NEW v \in Pairs
  PROVE  /\ Ping(s, v) \in Grams /\ Ping(s, v).type = "ping"
         /\ Ping(s, v).to = s /\ Ping(s, v).pair = v
         /\ Pong(s, v) \in Grams /\ Pong(s, v).type = "pong"
         /\ Pong(s, v).to = s /\ Pong(s, v).pair = v
  BY DEF Ping, Pong, Beats, Grams

\* What a datagram has.
LEMMA GramTyped ==
  ASSUME NEW d \in Grams
  PROVE  /\ d.to \in Sides /\ d.pair \in Pairs
         /\ d.type = "shake" => d.choose \in Pairs \cup {None} /\ d.cands \in SUBSET Pairs
  BY DEF Grams, Shakes, Beats

\* shakeAll sends finitely many datagrams that choose nothing, each from the
\* present socket to the peer's address.
LEMMA ShakeAllTyped ==
  ASSUME NEW s \in Sides, NEW q \in Peers, q.sock # 0
  PROVE  /\ ShakeAll(s, q) \in SUBSET Grams /\ IsFiniteSet(ShakeAll(s, q))
         /\ \A d \in ShakeAll(s, q) :
              /\ d.type = "shake" /\ d.choose = None /\ d.cands = {}
              /\ d.pair[s] = q.sock /\ d.pair[Other(s)] = q.raddr
<1>1. CASE q.raddr = 0
  BY <1>1, FS_EmptySet DEF ShakeAll
<1>2. CASE q.raddr # 0
  <2> DEFINE f == [p \in Paths |-> Shake(Other(s), Between(s, p, q.sock, q.raddr), None, {})]
             T == {Shake(Other(s), Between(s, p, q.sock, q.raddr), None, {}) : p \in Paths}
  <2>1. q.sock \in 1..MaxSock /\ q.raddr \in 1..MaxSock
    BY <1>2, HandshakeAssumption DEF Peers, Socks
  <2>2. \A p \in Paths : LET v == Between(s, p, q.sock, q.raddr)
                         IN v \in Pairs /\ v[s] = q.sock /\ v[Other(s)] = q.raddr
    BY <2>1, BetweenPair
  <2>3. \A p \in Paths : LET d == Shake(Other(s), Between(s, p, q.sock, q.raddr), None, {})
                         IN /\ d \in Grams /\ d.type = "shake" /\ d.choose = None /\ d.cands = {}
                            /\ d.pair[s] = q.sock /\ d.pair[Other(s)] = q.raddr
    BY <2>2, OtherSide, ShakeTyped
  <2>4. f \in Surjection(Paths, T)
    BY DEF Surjection
  <2>5. IsFiniteSet(T)
    BY <2>4, FS_Surjection, HandshakeAssumption
  <2>6. ShakeAll(s, q) = T
    BY <1>2 DEF ShakeAll
  <2> QED BY <2>3, <2>5, <2>6
<1> QED BY <1>1, <1>2

\* One datagram or none is sent.
LEMMA OneTyped ==
  ASSUME NEW d \in Grams
  PROVE  {d} \in SUBSET Grams /\ IsFiniteSet({d}) /\ {} \in SUBSET Grams /\ IsFiniteSet({})
  BY FS_Singleton, FS_EmptySet

-----------------------------------------------------------------------------

\* The sockets of a pair have been opened.
Used(v) == \A s \in Sides : v[s] <= opened[s]

\* When the pair is of a socket that s uses, s has among its candidates one
\* with the same address of its own.
Seen(s, v) == v[s] \in {peer[s].sock, peer[s].disc} =>
                \E c \in peer[s].cands : Own(s, c) = Own(s, v)

\* s has its half of the pair: datagrams come to it on the path, and it has
\* heard one at its own address of the pair, if it has not begun anew on
\* another socket since.
Half(s, v) == v.path \in Works[s] /\ Used(v) /\ Seen(s, v)

\* Both sides have their half of a pair that is chosen.
Agreed(v) == v # None => Half("proxy", v) /\ Half("requestor", v)

\* What a P2pClient holds: addresses of sockets that have been opened,
\* candidates of which it has its own half, and pairs of which both have
\* theirs.
PeerHas(s) ==
  LET p == peer[s] IN
  /\ p.sock <= opened[s] /\ p.disc <= opened[s] /\ p.raddr <= opened[Other(s)]
  /\ \A c \in p.cands : Half(s, c)
  /\ Agreed(p.choose) /\ Agreed(p.pair)

\* The address in a message is that of a socket that has been opened.
MsgHas(s, m) == m.type # "DoShake" => m.sock <= opened[Other(s)]

\* What a datagram carries: a choice both sides agreed to, and the candidates
\* of its sender: those of the proxy, which the requestor intersects with its
\* own, or those that are left.
GramHas(d) ==
  /\ Used(d.pair)
  /\ d.type = "shake" =>
       /\ Agreed(d.choose)
       /\ \A c \in d.cands : Half("proxy", c) /\ (d.to = "proxy" => Half("requestor", c))
TcpHas == \A s \in Sides : \A i \in 1..Len(tcp[s]) : MsgHas(s, tcp[s][i])

\* What the sides know of each other, by themselves and by what is under way.
Heard ==
  /\ \A s \in Sides : PeerHas(s)
  /\ TcpHas
  /\ \A d \in net : d.pair.path \in Works[d.to] /\ GramHas(d)

\* A step opens sockets and closes the use of others, but of a socket that s
\* goes on to use it forgets no address at which it has heard a datagram. (It
\* may forget the peer's address: a new datagram replaces the candidate with
\* the same address of its own.)
Grows ==
  \A s \in Sides :
    /\ opened[s] <= opened'[s]
    /\ \A n \in {peer'[s].sock, peer'[s].disc} :
         n # 0 /\ n <= opened[s] =>
           /\ n \in {peer[s].sock, peer[s].disc}
           /\ \A c \in peer[s].cands : \E e \in peer'[s].cands : Own(s, e) = Own(s, c)

\* Sockets that have been opened stay so.
LEMMA UsedStays ==
  ASSUME Typed, Typed', Grows, NEW v \in Pairs, Used(v) PROVE Used(v)'
<1>1. \A s \in Sides : v[s] \in Int /\ opened[s] \in Int /\ opened'[s] \in Int
  BY PairSocks DEF Typed, SocksOK, Socks
<1> QED BY <1>1 DEF Used, Grows

\* What one side has heard it does not unlearn, as long as it matters: no step
\* takes a half from it.
LEMMA HalfStays ==
  ASSUME Typed, Typed', Grows, NEW v \in Pairs, NEW s \in Sides, Half(s, v) PROVE Half(s, v)'
<1>1. Used(v)'
  BY UsedStays DEF Half
<1>2. SUFFICES ASSUME v[s] \in {peer'[s].sock, peer'[s].disc}
               PROVE  \E c \in peer'[s].cands : Own(s, c) = Own(s, v)
  BY <1>1 DEF Half, Seen, Own
<1>3. v[s] # 0 /\ v[s] <= opened[s]
  BY PairSocks DEF Half, Used
<1>4. PICK c \in peer[s].cands : Own(s, c) = Own(s, v)
  BY <1>2, <1>3 DEF Half, Seen, Grows
<1> QED BY <1>2, <1>3, <1>4 DEF Grows

\* So an agreed pair stays agreed.
LEMMA AgreedStays ==
  ASSUME Typed, Typed', Grows, NEW v \in Pairs \cup {None}, Agreed(v) PROVE Agreed(v)'
  BY HalfStays DEF Agreed, Sides

\* And what a datagram says stays true while it is under way.
LEMMA GramStays ==
  ASSUME Typed, Typed', Grows, NEW d \in Grams, GramHas(d) PROVE GramHas(d)'
<1>1. Used(d.pair)'
  BY UsedStays, GramTyped DEF GramHas
<1>2. ASSUME d.type = "shake"
      PROVE  /\ Agreed(d.choose)'
             /\ \A c \in d.cands : Half("proxy", c)' /\ (d.to = "proxy" => Half("requestor", c)')
  BY <1>2, GramTyped, AgreedStays, HalfStays DEF GramHas, Sides
<1> QED BY <1>1, <1>2 DEF GramHas

\* A P2pClient that does not change goes on to hold what it holds.
LEMMA PeerStays ==
  ASSUME Typed, Typed', Grows, NEW s \in Sides, PeerHas(s), peer'[s] = peer[s]
  PROVE  PeerHas(s)'
<1>1. peer[s] \in Peers /\ Other(s) \in Sides
  BY OtherSide DEF Typed, PeersOK, Good
<1>2. peer[s].sock \in Int /\ peer[s].disc \in Int /\ peer[s].raddr \in Int
  BY <1>1 DEF Peers, Socks
<1>3. \A t \in Sides : opened[t] \in Int /\ opened'[t] \in Int
  BY DEF Typed, SocksOK, Socks
<1>4. peer[s].sock <= opened'[s] /\ peer[s].disc <= opened'[s] /\ peer[s].raddr <= opened'[Other(s)]
  BY <1>1, <1>2, <1>3 DEF PeerHas, Grows
<1>5. \A c \in peer[s].cands : Half(s, c)'
  BY <1>1, HalfStays DEF PeerHas, Peers
<1>6. Agreed(peer[s].choose)' /\ Agreed(peer[s].pair)'
  BY <1>1, AgreedStays DEF PeerHas, Peers
<1> QED BY <1>4, <1>5, <1>6 DEF PeerHas

-----------------------------------------------------------------------------
(***************************************************************************)
(* Steps of one side.                                                      *)
(***************************************************************************)

\* Messages to the other side are sent, or one is taken first.
Says(s, msgs) == Tell(s, msgs) \/ (tcp[s] # <<>> /\ TakeAndTell(s, msgs))

\* Whatever s does to the messages and the datagrams.
Tells(s) == UNCHANGED tcp \/ \E msgs \in Seq(Msgs) : Says(s, msgs)
Sends(D) == D \in SUBSET Grams /\ IsFiniteSet(D) /\ net' \in Surviving(D)

\* The messages and datagrams that s sends say what is true after the step.
Told(s) ==
  \/ UNCHANGED tcp
  \/ \E msgs \in Seq(Msgs) :
       Says(s, msgs) /\ \A j \in 1..Len(msgs) : MsgHas(Other(s), msgs[j])'

Sent == UNCHANGED net \/ \E D : Sends(D) /\ \A d \in D : GramHas(d)'

\* Sockets are only opened.
Later == \A t \in Sides : opened[t] <= opened'[t]

\* Types of what is under way are kept by whatever is sent.
LEMMA SentTyped ==
  ASSUME Typed, NEW s \in Sides, PeersOK', ProcsOK', SocksOK', Tells(s),
         UNCHANGED net \/ \E D : Sends(D)
  PROVE  Typed'
<1>1. TcpOK'
  BY Telling DEF Typed, TcpOK, Tells, Says
<1>2. NetOK'
  BY Survivors DEF Typed, NetOK, Sends
<1> QED BY <1>1, <1>2 DEF Typed

\* q uses new sockets, or those its predecessor used, and then has heard on
\* them at least where that has.
Keeps(s, q) ==
  LET p == peer[s] IN
  \A n \in {q.sock, q.disc} :
    \/ n = 0 \/ n > opened[s]
    \/ /\ n \in {p.sock, p.disc}
       /\ \A c \in p.cands : \E e \in q.cands : Own(s, e) = Own(s, c)

\* A step of one side forgets nothing that matters when its P2pClient does not.
LEMMA KeepsGrows ==
  ASSUME Typed, Typed', NEW s \in Sides, NEW q \in Good, Put(s, q), Keeps(s, q), Later
  PROVE  Grows
<1>1. peer'[s] = q /\ \A t \in Sides : t # s => peer'[t] = peer[t]
  BY PutPeer DEF Typed
<1>2. q.sock \in Int /\ q.disc \in Int /\ opened[s] \in Int
  BY DEF Good, Peers, Socks, Typed, SocksOK
<1>3. ASSUME NEW t \in Sides, NEW n \in {peer'[t].sock, peer'[t].disc},
             n # 0, n <= opened[t]
      PROVE  /\ n \in {peer[t].sock, peer[t].disc}
             /\ \A c \in peer[t].cands : \E e \in peer'[t].cands : Own(t, e) = Own(t, c)
  <2>1. CASE t = s
    BY <1>1, <1>2, <1>3, <2>1 DEF Keeps
  <2>2. CASE t # s
    BY <1>1, <1>3, <2>2
  <2> QED BY <2>1, <2>2
<1> QED BY <1>3 DEF Grows, Later

\* The address in a message stays true.
LEMMA MsgStays ==
  ASSUME Typed, Typed', Grows, NEW s \in Sides, NEW m \in Msgs, MsgHas(s, m)
  PROVE  MsgHas(s, m)'
<1>1. m.type # "DoShake" => m.sock \in Int
  BY HandshakeAssumption DEF Msgs, AddrMsgs, DoShakeMsg
<1>2. Other(s) \in Sides /\ \A t \in Sides : opened[t] \in Int /\ opened'[t] \in Int
  BY OtherSide DEF Typed, SocksOK, Socks
<1> QED BY <1>1, <1>2 DEF MsgHas, Grows

\* The addresses that are under way stay true.
LEMMA TcpStays ==
  ASSUME Typed, Typed', Grows, TcpHas, NEW s \in Sides, Told(s)
  PROVE  TcpHas'
<1>1. \A t \in Sides : \A i \in 1..Len(tcp[t]) : tcp[t][i] \in Msgs /\ MsgHas(t, tcp[t][i])
  <2>1. \A t \in Sides : tcp[t] \in Seq(Msgs)
    BY DEF Typed, TcpOK
  <2> QED BY <2>1 DEF TcpHas
<1>2. \A t \in Sides, m \in Msgs : MsgHas(t, m) => MsgHas(t, m)'
  BY MsgStays
<1>3. SUFFICES ASSUME NEW t \in Sides, NEW i \in 1..Len(tcp'[t])
               PROVE  \E m : m = tcp'[t][i] /\ MsgHas(t, m)'
  BY DEF TcpHas, MsgHas
<1>4. ASSUME NEW j \in 1..Len(tcp[t]), tcp'[t][i] = tcp[t][j]
      PROVE  \E m : m = tcp'[t][i] /\ MsgHas(t, m)'
  <2>1. PICK m \in Msgs : m = tcp[t][j] /\ MsgHas(t, m)
    BY <1>1
  <2> QED BY <1>2, <1>4, <2>1
<1>5. CASE UNCHANGED tcp
  BY <1>4, <1>5
<1>6. CASE \E msgs \in Seq(Msgs) :
              Says(s, msgs) /\ \A j \in 1..Len(msgs) : MsgHas(Other(s), msgs[j])'
  <2>1. PICK msgs \in Seq(Msgs) :
              Says(s, msgs) /\ \A j \in 1..Len(msgs) : MsgHas(Other(s), msgs[j])'
    BY <1>6
  <2>2. \/ \E j \in 1..Len(tcp[t]) : tcp'[t][i] = tcp[t][j]
        \/ t = Other(s) /\ \E j \in 1..Len(msgs) : tcp'[t][i] = msgs[j]
    BY <2>1, Telling DEF Typed, Says
  <2>3. ASSUME NEW j \in 1..Len(msgs), t = Other(s), tcp'[t][i] = msgs[j]
        PROVE  \E m : m = tcp'[t][i] /\ MsgHas(t, m)'
    BY <2>1, <2>3
  <2> QED BY <1>4, <2>2, <2>3
<1> QED BY <1>5, <1>6 DEF Told

\* What is in flight after a step is what was, or has been sent by it.
LEMMA NetStays ==
  ASSUME Typed, Typed', Grows, Heard,
         \A d \in net' : d \in net \/ (d.pair.path \in Works[d.to] /\ GramHas(d)')
  PROVE  \A d \in net' : d.pair.path \in Works[d.to] /\ GramHas(d)'
<1>1. \A d \in net : d \in Grams /\ d.pair.path \in Works[d.to] /\ GramHas(d)
  BY DEF Typed, NetOK, Heard
<1>2. \A d \in Grams : GramHas(d) => GramHas(d)'
  BY GramStays
<1> QED BY <1>1, <1>2

\* What q has that its predecessor did not have is true after the step.
Holds(s, q) ==
  LET p == peer[s] IN
  /\ q.sock <= opened'[s] /\ q.disc <= opened'[s] /\ q.raddr <= opened'[Other(s)]
  /\ \A c \in q.cands : c \in p.cands \/ Half(s, c)'
  /\ q.choose = p.choose \/ Agreed(q.choose)'
  /\ q.pair = p.pair \/ Agreed(q.pair)'

\* shakeAll claims nothing.
LEMMA ShakeAllHas ==
  ASSUME NEW s \in Sides, NEW q \in Peers, q.sock # 0,
         q.sock <= opened'[s], q.raddr <= opened'[Other(s)]
  PROVE  \A d \in ShakeAll(s, q) : GramHas(d)'
<1>1. \A d \in ShakeAll(s, q) :
              /\ d.type = "shake" /\ d.choose = None /\ d.cands = {}
              /\ d.pair[s] = q.sock /\ d.pair[Other(s)] = q.raddr
  BY ShakeAllTyped
<1>2. \A t \in Sides : t = s \/ t = Other(s)
  BY OtherSide
<1> QED BY <1>1, <1>2 DEF GramHas, Used, Agreed

-----------------------------------------------------------------------------
(***************************************************************************)
(* What the step of one side must show.                                    *)
(***************************************************************************)

\* The P2pClient that has made the step holds what it should.
LEMMA Holding ==
  ASSUME Typed, Typed', Heard, NEW s \in Sides, NEW q \in Good, Put(s, q), Later,
         Keeps(s, q), Holds(s, q)
  PROVE  /\ Grows /\ PeerHas(s)'
         /\ \A c \in q.cands : Half(s, c)'
         /\ Agreed(q.choose)' /\ Agreed(q.pair)'
<1>1. Grows
  BY KeepsGrows
<1>2. peer'[s] = q
  BY PutPeer DEF Typed
<1> USE <1>1
<1>3. PICK p \in Peers : p = peer[s]
  BY DEF Typed, PeersOK, Good
<1>4. \A c \in q.cands : Half(s, c)'
  BY <1>3, HalfStays DEF Holds, Heard, PeerHas, Peers
<1>5. Agreed(q.choose)' /\ Agreed(q.pair)'
  <2>2. Agreed(p.choose) /\ Agreed(p.pair)
    BY <1>3 DEF Heard, PeerHas
  <2>3. p.choose \in Pairs \cup {None} /\ p.pair \in Pairs \cup {None}
    BY DEF Peers
  <2>4. Agreed(p.choose)' /\ Agreed(p.pair)'
    BY <2>2, <2>3, AgreedStays
  <2>5. /\ q.choose = p.choose \/ Agreed(q.choose)'
        /\ q.pair = p.pair \/ Agreed(q.pair)'
    BY <1>3 DEF Holds
  <2> QED BY <2>4, <2>5
<1> QED BY <1>2, <1>4, <1>5 DEF Holds, PeerHas

\* A step of one side keeps the invariant when what its P2pClient then has, and
\* what it sends, are true.
LEMMA StepKept ==
  ASSUME Typed, Heard, NEW s \in Sides, NEW q \in Good, Put(s, q), ProcsOK', SocksOK',
         Later, Keeps(s, q), Holds(s, q), Told(s), Sent
  PROVE  Typed' /\ Heard'
<1>1. PeersOK'
  BY PutPeer DEF Typed
<1>2. Typed'
  BY <1>1, SentTyped DEF Told, Sent, Tells
<1>3. Grows /\ PeerHas(s)'
  BY <1>2, Holding
<1>4. TcpHas'
  BY <1>2, <1>3, TcpStays DEF Heard
<1>5. \A d \in net' : d \in net \/ (d.pair.path \in Works[d.to] /\ GramHas(d)')
  BY Survivors DEF Typed, Sent, Sends
<1>6. \A d \in net' : d.pair.path \in Works[d.to] /\ GramHas(d)'
  BY <1>2, <1>3, <1>5, NetStays
<1>7. ASSUME NEW t \in Sides PROVE PeerHas(t)'
  <2>1. CASE t = s
    BY <1>3, <2>1
  <2>2. CASE t # s
    <3>1. peer'[t] = peer[t]
      BY <2>2, PutPeer DEF Typed
    <3> QED BY <1>2, <1>3, <3>1, PeerStays DEF Heard
  <2> QED BY <2>1, <2>2
<1> QED BY <1>2, <1>4, <1>6, <1>7 DEF Heard

\* A P2pClient by itself, and what it holds.
LEMMA OnePeer ==
  ASSUME Typed, Heard, NEW s \in Sides
  PROVE  \E p \in Good :
           /\ p = peer[s] /\ p \in Peers /\ Ready(p)
           /\ p.sock \in Int /\ p.disc \in Int /\ p.raddr \in Int
           /\ p.sock <= opened[s] /\ p.disc <= opened[s] /\ p.raddr <= opened[Other(s)]
           /\ \A c \in p.cands : Half(s, c)
           /\ Agreed(p.choose) /\ Agreed(p.pair)
<1>1. PICK p \in Good : p = peer[s]
  BY DEF Typed, PeersOK
<1>2. p \in Peers /\ Ready(p) /\ p.sock \in Int /\ p.disc \in Int /\ p.raddr \in Int
  BY DEF Good, Peers, Socks
<1>3. PeerHas(s)
  BY DEF Heard
<1> QED BY <1>1, <1>2, <1>3 DEF PeerHas

\* A socket is opened.
LEMMA Socketed ==
  ASSUME Typed, NEW s \in Sides, NextSocket(s)
  PROVE  /\ opened'[s] = opened[s] + 1 /\ opened[s] + 1 \in 1..MaxSock /\ opened[s] \in Nat
         /\ opened[s] + 1 \in Socks
         /\ Later
         /\ opened' \in [Sides -> Socks] /\ opened'["proxy"] + opened'["requestor"] <= MaxSock
<1>1. MaxSock \in Nat /\ \A t \in Sides : opened[t] \in 0..MaxSock
  BY HandshakeAssumption DEF Typed, SocksOK, Socks
<1>2. s = "proxy" \/ s = "requestor"
  BY DEF Sides
<1>3. /\ "proxy" \in Sides /\ "requestor" \in Sides
      /\ opened["proxy"] + opened["requestor"] < MaxSock
      /\ opened' = [opened EXCEPT ![s] = opened[s] + 1] /\ opened \in [Sides -> Socks]
  BY DEF NextSocket, Sides, Typed, SocksOK
<1>4. opened[s] + 1 \in Socks /\ opened[s] + 1 \in 1..MaxSock
  BY <1>1, <1>2, <1>3 DEF Socks
<1>5. opened'[s] = opened[s] + 1 /\ \A t \in Sides : t # s => opened'[t] = opened[t]
  BY <1>3
<1>6. opened'["proxy"] + opened'["requestor"] <= MaxSock
  BY <1>1, <1>2, <1>3, <1>5
<1>7. Later
  BY <1>1, <1>5 DEF Later
<1> QED BY <1>1, <1>3, <1>4, <1>5, <1>6, <1>7

\* A P2pClient opens its first socket.
LEMMA Begun ==
  ASSUME Typed, NEW s \in Sides, Begin(s)
  PROVE  /\ SocksOK' /\ opened'[s] = opened[s] + 1 /\ opened[s] + 1 \in 1..MaxSock
         /\ opened[s] \in Nat /\ opened[s] + 1 \in Socks /\ Later
<1>1. NextSocket(s)
  BY DEF Begin
<1>2. open' \in [Sides -> SUBSET Socks]
  BY <1>1, Socketed DEF Begin, Typed, SocksOK
<1> QED BY <1>1, <1>2, Socketed DEF SocksOK

\* No socket is opened.
LEMMA Unopened ==
  ASSUME Typed, UNCHANGED opened PROVE Later
  BY DEF Later, Typed, SocksOK, Socks

\* A side may have no P2pClient.
LEMMA NoPeerGood == NoPeer \in Good
<1>1. NoPeer \in Peers
  BY HandshakeAssumption DEF NoPeer, Peers, Socks
<1> QED BY <1>1 DEF Good, Ready, NoPeer

\* A side may have one that has just begun.
LEMMA NewPeerGood ==
  ASSUME NEW n \in 1..MaxSock PROVE NewPeer(n) \in Good
<1>1. NoPeer \in Peers /\ n \in Socks /\ n # 0
  BY NoPeerGood, HandshakeAssumption DEF Good, Socks
<1>3. NewPeer(n) \in Peers
  BY <1>1 DEF NewPeer, Peers
<1>4. NewPeer(n).sock = n /\ NewPeer(n).state = "begin"
  BY DEF NewPeer, NoPeer
<1> QED BY <1>1, <1>3, <1>4 DEF Good, Ready

\* A P2pClient that has heard nothing holds what it should.
LEMMA EmptyHolds ==
  ASSUME Typed, Typed' \/ SocksOK', NEW s \in Sides, NEW q,
         q.cands = {}, q.choose = None, q.pair = None,
         q.raddr = 0 \/ q.raddr <= opened'[Other(s)],
         \/ q.sock = 0 /\ q.disc = 0
         \/ q.sock = opened[s] + 1 /\ q.disc = q.sock /\ opened'[s] = q.sock
  PROVE  Keeps(s, q) /\ Holds(s, q)
<1>1. \A t \in Sides : opened[t] \in Nat /\ opened'[t] \in Nat
  BY HandshakeAssumption DEF Typed, SocksOK, Socks
<1>2. Keeps(s, q)
  BY <1>1 DEF Keeps
<1>3. Holds(s, q)
  BY <1>1, OtherSide DEF Holds, Agreed
<1> QED BY <1>2, <1>3

\* So does one that has heard and agreed what its predecessor had.
LEMMA SameHolds ==
  ASSUME Typed, Heard, SocksOK', Later, NEW s \in Sides, NEW p \in Good, p = peer[s], NEW q,
         q.cands = p.cands, q.choose \in {p.choose, None}, q.pair = p.pair,
         q.sock \in {p.sock, p.disc}, q.disc \in {0, p.disc, opened'[s]},
         q.disc \in {0, p.disc} \/ opened'[s] = opened[s] + 1,
         q.raddr = p.raddr \/ q.raddr <= opened'[Other(s)]
  PROVE  Keeps(s, q) /\ Holds(s, q)
<1>1. \A t \in Sides : opened[t] \in Nat /\ opened'[t] \in Nat
  BY HandshakeAssumption DEF Typed, SocksOK, Socks
<1>2. /\ p.sock \in Int /\ p.disc \in Int /\ p.raddr \in Int
      /\ p.sock <= opened[s] /\ p.disc <= opened[s] /\ p.raddr <= opened[Other(s)]
  BY OnePeer
<1>3. Keeps(s, q)
  BY <1>1, <1>2 DEF Keeps
<1>4. Holds(s, q)
  <2>1. opened[s] <= opened'[s] /\ opened[Other(s)] <= opened'[Other(s)] /\ Other(s) \in Sides
    BY OtherSide DEF Later
  <2>2. q.sock <= opened'[s] /\ q.disc <= opened'[s] /\ q.raddr <= opened'[Other(s)]
    BY <1>1, <1>2, <2>1
  <2>3. q.choose = peer[s].choose \/ Agreed(q.choose)'
    BY DEF Agreed
  <2> QED BY <2>2, <2>3 DEF Holds
<1> QED BY <1>3, <1>4

\* A P2pClient that does not change is put where it is.
LEMMA SamePeer ==
  ASSUME PeersOK, UNCHANGED peer, NEW s \in Sides PROVE Put(s, peer[s])
  BY DEF PeersOK, Put

-----------------------------------------------------------------------------
(***************************************************************************)
(* Messages and datagrams that are sent; beginning and end.                *)
(***************************************************************************)

\* shakeAll leaves what has been heard and agreed.
LEMMA ShakingGood ==
  ASSUME NEW p \in Peers, p.life # "none" => p.sock # 0
  PROVE  LET q == Shaking(p)
         IN  /\ q \in Good /\ q \in Peers /\ q.life = p.life /\ q.sock = p.sock /\ q.disc = p.disc /\ q.raddr = p.raddr
             /\ q.cands = p.cands /\ q.choose = p.choose /\ q.pair = p.pair
<1> DEFINE q == Shaking(p)
<1>1. q \in Peers
  <2>1. PICK n \in Nat : n = p.count + 1
    BY DEF Peers
  <2>2. q = [p EXCEPT !.state = "shaking", !.count = n]
    BY <2>1 DEF Shaking, Peers
  <2> QED BY <2>2 DEF Peers
<1>2. /\ q.life = p.life /\ q.sock = p.sock /\ q.disc = p.disc /\ q.raddr = p.raddr
      /\ q.cands = p.cands /\ q.choose = p.choose /\ q.pair = p.pair /\ q.state = "shaking"
  <2>1. q.life = p.life /\ q.sock = p.sock /\ q.disc = p.disc /\ q.raddr = p.raddr
    BY DEF Shaking, Peers
  <2>2. q.cands = p.cands /\ q.choose = p.choose
    BY DEF Shaking, Peers
  <2>3. q.pair = p.pair
    BY DEF Shaking, Peers
  <2>4. q.state = "shaking"
    BY DEF Shaking, Peers
  <2> QED BY <2>1, <2>2, <2>3, <2>4
<1> QED BY <1>1, <1>2 DEF Good, Ready

\* What a handler leaves alone.
LEMMA OthersStay ==
  ASSUME Typed
  PROVE  /\ UNCHANGED <<proc, orphan>> => ProcsOK'
         /\ UNCHANGED <<opened, open>> => SocksOK' /\ Later
  BY Unopened DEF Typed, ProcsOK, SocksOK

\* A message is taken and not answered.
LEMMA NoMsgs ==
  ASSUME NEW s \in Sides, tcp[s] # <<>>, TakeAndTell(s, <<>>)
  PROVE  Told(s)
<1>1. <<>> \in Seq(Msgs) /\ \A j \in 1..Len(<<>>) : MsgHas(Other(s), <<>>[j])'
  BY EmptySeq
<1> QED BY <1>1 DEF Told, Says

\* One message is sent that says what is true.
LEMMA OneMsg ==
  ASSUME Typed, NEW s \in Sides, NEW m \in Msgs, Says(s, <<m>>), MsgHas(Other(s), m)'
  PROVE  Told(s)
<1> DEFINE ms == <<m>>
<1>1. ms \in Seq(Msgs) /\ \A j \in 1..Len(ms) : ms[j] = m
  OBVIOUS
<1> QED BY <1>1 DEF Told, MsgHas

\* MsgTypeDoShake says nothing.
LEMMA DoShakeSaid ==
  ASSUME Typed, NEW s \in Sides, Says(s, <<DoShakeMsg>>)
  PROVE  Told(s)
<1>1. DoShakeMsg \in Msgs /\ DoShakeMsg.type = "DoShake"
  BY DEF Msgs, DoShakeMsg
<1> QED BY <1>1, OneMsg DEF MsgHas

\* MsgTypeAddrReq and MsgTypeAddrResp carry the address of the present socket.
LEMMA AddrSaid ==
  ASSUME Typed, SocksOK', Later, NEW s \in Sides, NEW type \in {"AddrReq", "AddrResp"}, NEW q \in Peers,
         q.sock # 0, q.sock <= opened'[s], Says(s, <<AddrMsg(type, q)>>)
  PROVE  Told(s)
<1>1. q.sock \in 1..MaxSock
  BY HandshakeAssumption DEF Peers, Socks
<1> DEFINE m == AddrMsg(type, q)
<1>2. m \in Msgs /\ m.sock = q.sock
  BY <1>1 DEF AddrMsg, Msgs, AddrMsgs, Peers
<1>3. MsgHas(Other(s), m)'
  BY <1>2, OtherSide DEF MsgHas
<1> QED BY <1>2, <1>3, OneMsg

\* No datagram is sent.
LEMMA NoneSent ==
  ASSUME net' \in Surviving({}) PROVE Sent
<1>1. {} \in SUBSET Grams /\ IsFiniteSet({})
  BY FS_EmptySet
<1> QED BY <1>1 DEF Sent, Sends

\* A datagram is sent that says what is true.
LEMMA OneSent ==
  ASSUME NEW d \in Grams, GramHas(d)', net' \in Surviving({d}) PROVE Sent
<1>1. {d} \in SUBSET Grams /\ IsFiniteSet({d})
  BY OneTyped
<1> QED BY <1>1 DEF Sent, Sends, GramHas

\* The datagrams of shakeAll are sent.
LEMMA AllSent ==
  ASSUME NEW s \in Sides, NEW q \in Peers, q.sock # 0,
         q.sock <= opened'[s], q.raddr <= opened'[Other(s)],
         net' \in Surviving(ShakeAll(s, q))
  PROVE  Sent
  BY ShakeAllTyped, ShakeAllHas DEF Sent, Sends

\* A ping or a pong is sent on a pair of sockets that have been opened.
LEMMA BeatSent ==
  ASSUME NEW s \in Sides, NEW q \in Peers, q.sock # 0, q.sock <= opened'[s],
         NEW v \in Pairs, v[Other(s)] <= opened'[Other(s)],
         NEW d \in {Ping(Other(s), Via(s, q, v)), Pong(Other(s), Via(s, q, v))},
         net' \in Surviving({d})
  PROVE  Sent
<1> DEFINE u == Via(s, q, v)
<1>1. u \in Pairs /\ u[s] = q.sock /\ u[Other(s)] = v[Other(s)]
  BY ViaPair
<1>2. Other(s) \in Sides /\ \A t \in Sides : t = s \/ t = Other(s)
  BY OtherSide
<1>3. d \in Grams /\ d.pair = u /\ d.type # "shake"
  BY <1>1, <1>2, BeatTyped
<1>4. GramHas(d)'
  BY <1>1, <1>2, <1>3 DEF GramHas, Used
<1> QED BY <1>3, <1>4, OneSent

-----------------------------------------------------------------------------

\* requestP2p creates a P2pClient.
LEMMA DoesRequestP2p ==
  ASSUME Typed, Heard, RequestP2p PROVE Typed' /\ Heard'
<1> DEFINE s == "requestor"
           q == NewPeer(opened[s] + 1)
<1>1. s \in Sides
  BY DEF Sides
<1>2. Begin(s) /\ Put(s, q) /\ UNCHANGED <<proc, orphan, tcp, net>>
  BY DEF RequestP2p
<1> HIDE DEF s
<1>3. PICK n \in 1..MaxSock : /\ n = opened[s] + 1 /\ opened'[s] = n /\ opened[s] \in Nat
                              /\ SocksOK' /\ Later
  BY <1>1, <1>2, Begun
<1> DEFINE r == NewPeer(n)
<1>4. r \in Good /\ Put(s, r)
  BY <1>2, <1>3, NewPeerGood
<1>5. /\ r.cands = {} /\ r.choose = None /\ r.pair = None /\ r.raddr = 0
      /\ r.sock = n /\ r.disc = n
  BY DEF NewPeer, NoPeer
<1> HIDE DEF q, r
<1>6. Keeps(s, r) /\ Holds(s, r)
  BY <1>1, <1>3, <1>5, EmptyHolds
<1>7. ProcsOK' /\ Told(s) /\ Sent
  BY <1>2, OthersStay DEF Told, Sent
<1> QED BY <1>1, <1>3, <1>4, <1>6, <1>7, StepKept

\* A P2pClient is gone, and what it had heard does not matter any more.
LEMMA EndsPeer ==
  ASSUME Typed, Heard, NEW s \in Sides, peer' = [peer EXCEPT ![s] = NoPeer],
         ProcsOK', SocksOK', UNCHANGED <<opened, tcp, net>>
  PROVE  Typed' /\ Heard'
<1> DEFINE q == NoPeer
<1>1. q \in Good /\ Put(s, q)
  BY NoPeerGood DEF Put
<1>2. /\ q.cands = {} /\ q.choose = None /\ q.pair = None /\ q.raddr = 0 /\ q.sock = 0 /\ q.disc = 0
  BY DEF NoPeer
<1> HIDE DEF q
<1>3. Keeps(s, q) /\ Holds(s, q)
  BY <1>2, EmptyHolds
<1>4. Later /\ Told(s) /\ Sent
  BY Unopened DEF Told, Sent
<1> QED BY <1>1, <1>3, <1>4, StepKept

\* A client's process ends.
LEMMA DoesDown ==
  ASSUME Typed, Heard, NEW s \in Sides, Down(s) PROVE Typed' /\ Heard'
<1>1. peer' = [peer EXCEPT ![s] = NoPeer] /\ UNCHANGED <<opened, tcp, net>>
  BY DEF Down
<1>2. ProcsOK' /\ SocksOK'
  BY DEF Down, Typed, ProcsOK, SocksOK
<1> QED BY <1>1, <1>2, EndsPeer

\* RemoveClient.
LEMMA DoesRemove ==
  ASSUME Typed, Heard, NEW s \in Sides, Remove(s) PROVE Typed' /\ Heard'
<1>1. peer' = [peer EXCEPT ![s] = NoPeer] /\ UNCHANGED <<opened, tcp, net>>
  BY DEF Remove, Put
<1>2. SocksOK'
  BY OthersStay DEF Remove
<1>3. ProcsOK'
  <2>1. PICK b \in BOOLEAN : b = (orphan[s] \/ peer[s].disc # 0)
    BY DEF Typed, ProcsOK
  <2>2. orphan' = [orphan EXCEPT ![s] = b]
    BY <2>1 DEF Remove
  <2> QED BY <2>2 DEF Remove, Typed, ProcsOK
<1> QED BY <1>1, <1>2, <1>3, EndsPeer

-----------------------------------------------------------------------------
(***************************************************************************)
(* Steps that hear nothing new.                                            *)
(***************************************************************************)

\* A step that changes no P2pClient.
LEMMA StillKept ==
  ASSUME Typed, Heard, NEW s \in Sides, UNCHANGED <<peer, opened>>, ProcsOK', SocksOK',
         Told(s), Sent
  PROVE  Typed' /\ Heard'
<1>1. PICK p \in Good : p = peer[s]
  BY OnePeer
<1>2. Put(s, p) /\ Later
  BY <1>1, SamePeer, Unopened DEF Typed
<1>3. Keeps(s, p) /\ Holds(s, p)
  BY <1>1, <1>2, SameHolds
<1> QED BY <1>2, <1>3, StepKept

\* A step in which a P2pClient hears and agrees nothing new.
LEMMA OneKept ==
  ASSUME Typed, Heard, NEW s \in Sides, NEW p \in Good, p = peer[s], NEW q \in Good, Put(s, q),
         q.cands = p.cands, q.choose = p.choose, q.pair = p.pair, q.sock = p.sock,
         q.disc = p.disc, q.raddr = p.raddr,
         UNCHANGED opened, ProcsOK', SocksOK', Told(s), Sent
  PROVE  Typed' /\ Heard'
<1>1. Later
  BY Unopened
<1>2. Keeps(s, q) /\ Holds(s, q)
  BY <1>1, SameHolds
<1> QED BY <1>1, <1>2, StepKept

\* A P2pClient is killed, or RunC has returned.
LEMMA Lived ==
  ASSUME NEW p \in Good, NEW x \in {"none", "up", "killed", "over"}, p.life # "none" \/ x = "none"
  PROVE  LET q == [p EXCEPT !.life = x]
         IN  /\ q \in Good /\ q.cands = p.cands /\ q.choose = p.choose /\ q.pair = p.pair
             /\ q.sock = p.sock /\ q.disc = p.disc /\ q.raddr = p.raddr
<1> DEFINE q == [p EXCEPT !.life = x]
<1>1. p \in Peers /\ Ready(p)
  BY DEF Good
<1>2. q \in Peers
  BY <1>1 DEF Peers
<1>3. /\ q.cands = p.cands /\ q.choose = p.choose /\ q.pair = p.pair
      /\ q.sock = p.sock /\ q.disc = p.disc /\ q.raddr = p.raddr
  BY <1>1 DEF Peers
<1>4. q.life = x /\ q.state = p.state /\ q.count = p.count
  BY <1>1 DEF Peers
<1> QED BY <1>1, <1>2, <1>3, <1>4 DEF Good, Ready

\* lastPing grows old, or is set anew.
LEMMA Aged ==
  ASSUME NEW p \in Good, NEW x \in {"fresh", "timeout", "close"}
  PROVE  LET q == [p EXCEPT !.age = x]
         IN  /\ q \in Good /\ q.cands = p.cands /\ q.choose = p.choose /\ q.pair = p.pair
             /\ q.sock = p.sock /\ q.disc = p.disc /\ q.raddr = p.raddr /\ q.life = p.life
<1> DEFINE q == [p EXCEPT !.age = x]
<1>1. p \in Peers /\ Ready(p)
  BY DEF Good
<1>2. q \in Peers
  BY <1>1 DEF Peers
<1>3. /\ q.cands = p.cands /\ q.choose = p.choose /\ q.pair = p.pair
      /\ q.sock = p.sock /\ q.disc = p.disc /\ q.raddr = p.raddr
  BY <1>1 DEF Peers
<1>4. q.life = p.life /\ q.state = p.state /\ q.count = p.count
  BY <1>1 DEF Peers
<1> QED BY <1>1, <1>2, <1>3, <1>4 DEF Good, Ready

\* The requestor is started again.
LEMMA DoesRejoin ==
  ASSUME Typed, Heard, Rejoin PROVE Typed' /\ Heard'
<1> DEFINE s == "requestor"
<1>1. s \in Sides
  BY DEF Sides
<1>2. UNCHANGED <<opened, open, peer, orphan, tcp, net>> /\ proc' = [proc EXCEPT ![s] = "up"]
  BY DEF Rejoin
<1>3. ProcsOK' /\ SocksOK' /\ Told(s) /\ Sent
  BY <1>2 DEF Typed, ProcsOK, SocksOK, Told, Sent
<1> QED BY <1>1, <1>2, <1>3, StillKept

\* A datagram is lost.
LEMMA DoesLose ==
  ASSUME Typed, Heard, Lose PROVE Typed' /\ Heard'
<1> DEFINE s == "requestor"
<1>1. s \in Sides
  BY DEF Sides
<1>2. PICK d \in net : net' = net \ {d}
  BY DEF Lose
<1>3. UNCHANGED <<proc, opened, open, peer, orphan, tcp>>
  BY DEF Lose
<1>4. IsFiniteSet(net) /\ Cardinality(net) <= NetCap /\ NetCap \in Nat
  BY HandshakeAssumption DEF Typed, NetOK
<1>5. Cardinality(net') <= Cardinality(net) /\ Cardinality(net') \in Nat /\ Cardinality(net) \in Nat
  BY <1>2, <1>4, FS_Subset, FS_CardinalityType
<1>6. net' \in Surviving({})
  BY <1>2, <1>4, <1>5 DEF Surviving
<1>7. ProcsOK' /\ SocksOK' /\ Told(s) /\ Sent
  BY <1>3, <1>6, NoneSent, OthersStay DEF Told
<1> QED BY <1>1, <1>3, <1>7, StillKept

\* The server drops a message.
LEMMA DoesDropped ==
  ASSUME Typed, Heard, NEW s \in Sides, Dropped(s) PROVE Typed' /\ Heard'
<1>1. Told(s) /\ UNCHANGED <<proc, opened, open, peer, orphan, net>>
  BY NoMsgs DEF Dropped
<1>2. ProcsOK' /\ SocksOK' /\ Sent
  BY <1>1, OthersStay DEF Sent
<1> QED BY <1>1, <1>2, StillKept

\* MsgTypeClientQuit at the proxy.
LEMMA DoesClientQuit ==
  ASSUME Typed, Heard, ClientQuit PROVE Typed' /\ Heard'
<1> DEFINE s == "proxy"
<1>1. s \in Sides
  BY DEF Sides
<1>2. PICK p \in Good : p = peer[s]
  BY <1>1, OnePeer
<1>3. Put(s, Killed(p)) /\ UNCHANGED <<opened, open, orphan, tcp, net>>
  BY <1>2 DEF ClientQuit
<1>4. ProcsOK' /\ SocksOK' /\ Told(s) /\ Sent
  BY OthersStay DEF ClientQuit, Typed, ProcsOK, Told, Sent
<1> HIDE DEF s
<1>5. CASE p.life = "up"
  <2> DEFINE q == [p EXCEPT !.life = "killed"]
  <2>1. Killed(p) = q
    BY <1>5 DEF Killed
  <2>2. /\ q \in Good /\ q.cands = p.cands /\ q.choose = p.choose /\ q.pair = p.pair
        /\ q.sock = p.sock /\ q.disc = p.disc /\ q.raddr = p.raddr
    BY <1>5, Lived
  <2> HIDE DEF q
  <2>3. Put(s, q) /\ UNCHANGED opened
    BY <1>3, <2>1
  <2> QED BY <1>1, <1>2, <1>4, <2>2, <2>3, OneKept
<1>6. CASE p.life # "up"
  <2>1. Killed(p) = p
    BY <1>6 DEF Killed
  <2> QED BY <1>1, <1>2, <1>3, <1>4, <2>1, OneKept
<1> QED BY <1>5, <1>6

\* RunC returns because it was killed.
LEMMA DoesDoDying ==
  ASSUME Typed, Heard, NEW s \in Sides, DoDying(s) PROVE Typed' /\ Heard'
<1>1. PICK p \in Good : p = peer[s]
  BY OnePeer
<1>2. /\ Put(s, [p EXCEPT !.life = "over"]) /\ p.life = "killed"
      /\ UNCHANGED <<proc, opened, open, orphan, tcp, net>>
  BY <1>1 DEF DoDying, Over
<1>3. ProcsOK' /\ SocksOK' /\ Told(s) /\ Sent
  BY <1>2, OthersStay DEF Told, Sent
<1> QED BY <1>1, <1>2, <1>3, Lived, OneKept

\* Time passes.
LEMMA DoesAge ==
  ASSUME Typed, Heard, NEW s \in Sides, Age(s) PROVE Typed' /\ Heard'
<1>1. PICK p \in Good : p = peer[s]
  BY OnePeer
<1>2. PICK x \in {"fresh", "timeout", "close"} : Put(s, [p EXCEPT !.age = x])
  <2> DEFINE y == IF p.age = "fresh" THEN "timeout" ELSE "close"
  <2>1. Put(s, [p EXCEPT !.age = y])
    BY <1>1 DEF Age
  <2>2. y \in {"fresh", "timeout", "close"}
    OBVIOUS
  <2> QED BY <2>1, <2>2
<1>3. UNCHANGED <<proc, opened, open, orphan, tcp, net>>
  BY DEF Age
<1>4. ProcsOK' /\ SocksOK' /\ Told(s) /\ Sent
  BY <1>3, OthersStay DEF Told, Sent
<1> DEFINE q == [p EXCEPT !.age = x]
<1>5. /\ q \in Good /\ q.cands = p.cands /\ q.choose = p.choose /\ q.pair = p.pair
      /\ q.sock = p.sock /\ q.disc = p.disc /\ q.raddr = p.raddr
  BY Aged
<1>6. Put(s, q)
  BY <1>2
<1> HIDE DEF q
<1> QED BY <1>1, <1>3, <1>4, <1>5, <1>6, OneKept

\* A pong.
LEMMA DoesHandlePong ==
  ASSUME Typed, Heard, NEW s \in Sides, NEW d \in net, HandlePong(s, d) PROVE Typed' /\ Heard'
<1>1. PICK p \in Good : p = peer[s]
  BY OnePeer
<1>2. /\ Put(s, [p EXCEPT !.age = "fresh"]) /\ net' \in Surviving({})
      /\ UNCHANGED <<proc, opened, open, orphan, tcp>>
  BY <1>1 DEF HandlePong
<1>3. ProcsOK' /\ SocksOK' /\ Told(s) /\ Sent
  BY <1>2, OthersStay, NoneSent DEF Told
<1> QED BY <1>1, <1>2, <1>3, Aged, OneKept

\* The sockets of an agreed pair have been opened.
LEMMA AgreedUsed ==
  ASSUME NEW v \in Pairs, Agreed(v), NEW s \in Sides PROVE v[s] <= opened[s]
<1>1. v # None
  BY HandshakeAssumption
<1> QED BY <1>1 DEF Agreed, Half, Used

\* A ping, and the pong it is answered by.
LEMMA DoesHandlePing ==
  ASSUME Typed, Heard, NEW s \in Sides, NEW d \in net, HandlePing(s, d) PROVE Typed' /\ Heard'
<1>1. PICK p \in Good : /\ p = peer[s] /\ Ready(p) /\ p \in Peers /\ Agreed(p.pair) /\ p.sock <= opened[s]
  BY OnePeer
<1> DEFINE q == [p EXCEPT !.age = "fresh"]
<1>2. /\ Put(s, q) /\ p.life # "none"
      /\ net' \in Surviving(IF q.pair = None THEN {} ELSE {Pong(Other(s), Via(s, q, q.pair))})
      /\ UNCHANGED <<proc, opened, open, orphan, tcp>>
  BY <1>1 DEF HandlePing, Runs
<1>3. /\ q \in Good /\ q.cands = p.cands /\ q.choose = p.choose /\ q.pair = p.pair
      /\ q.sock = p.sock /\ q.disc = p.disc /\ q.raddr = p.raddr /\ q.life = p.life
  BY Aged
<1> HIDE DEF q
<1>4. Sent
  <2>1. CASE q.pair = None
    BY <1>2, <2>1, NoneSent
  <2>2. CASE q.pair # None
    <3>1. q.pair \in Pairs /\ q \in Peers
      BY <1>3, <2>2 DEF Good, Peers
    <3>2. q.sock # 0 /\ q.sock <= opened'[s]
      BY <1>1, <1>2, <1>3 DEF Ready
    <3>3. q.pair[Other(s)] <= opened'[Other(s)]
      BY <1>1, <1>2, <1>3, <3>1, AgreedUsed, OtherSide
    <3>4. net' \in Surviving({Pong(Other(s), Via(s, q, q.pair))})
      BY <1>2, <2>2
    <3> QED BY <3>1, <3>2, <3>3, <3>4, BeatSent
  <2> QED BY <2>1, <2>2
<1>5. ProcsOK' /\ SocksOK' /\ Told(s)
  BY <1>2, OthersStay DEF Told
<1> QED BY <1>1, <1>2, <1>3, <1>4, <1>5, OneKept

\* pingTick while shaking.
LEMMA DoesTickShaking ==
  ASSUME Typed, Heard, NEW s \in Sides, TickShaking(s) PROVE Typed' /\ Heard'
<1>1. PICK p \in Good : /\ p = peer[s] /\ Ready(p) /\ p \in Peers /\ p.sock <= opened[s]
                        /\ p.raddr <= opened[Other(s)]
  BY OnePeer
<1> DEFINE q == Shaking(p)
           r == IF q.count > MaxShakes THEN [q EXCEPT !.life = "over"] ELSE q
<1>2. /\ Put(s, r) /\ p.life # "none" /\ net' \in Surviving(ShakeAll(s, q))
      /\ UNCHANGED <<proc, opened, open, orphan, tcp>>
  BY <1>1 DEF TickShaking, Runs
<1>3. /\ q \in Good /\ q \in Peers /\ q.life = p.life /\ q.sock = p.sock /\ q.disc = p.disc
      /\ q.raddr = p.raddr /\ q.cands = p.cands /\ q.choose = p.choose /\ q.pair = p.pair
  BY <1>1, ShakingGood DEF Ready
<1> HIDE DEF q
<1>4. /\ r \in Good /\ r.sock = p.sock /\ r.disc = p.disc /\ r.raddr = p.raddr
      /\ r.cands = p.cands /\ r.choose = p.choose /\ r.pair = p.pair
  BY <1>2, <1>3, Lived
<1> HIDE DEF r
<1>5. Sent
  <2>1. q.sock # 0 /\ q.sock <= opened'[s] /\ q.raddr <= opened'[Other(s)]
    BY <1>1, <1>2, <1>3 DEF Ready
  <2> QED BY <1>2, <1>3, <2>1, AllSent
<1>6. ProcsOK' /\ SocksOK' /\ Told(s)
  BY <1>2, OthersStay DEF Told
<1> QED BY <1>1, <1>2, <1>4, <1>5, <1>6, OneKept

-----------------------------------------------------------------------------
(***************************************************************************)
(* Addresses come by way of the server; pings.                             *)
(***************************************************************************)

\* The address in a message at its addressee.
LEMMA Arrived ==
  ASSUME Typed, Heard, NEW s \in Sides, NEW type \in {"AddrReq", "AddrResp"}, Incoming(s, type)
  PROVE  \E m : /\ m = Head(tcp[s]) /\ m.sock \in Socks /\ m.nat2 \in BOOLEAN
                /\ m.sock <= opened[Other(s)]
<1>1. PICK b \in Seq(Msgs) : b = tcp[s] /\ b # <<>>
  BY DEF Incoming, Typed, TcpOK
<1>2. b[1] \in Msgs /\ Head(b) = b[1] /\ 1 \in 1..Len(b)
  BY <1>1
<1>3. PICK m \in Msgs : m = Head(tcp[s]) /\ m = b[1]
  BY <1>1, <1>2
<1>4. MsgHas(s, m)
  BY <1>1, <1>2, <1>3 DEF Heard, TcpHas
<1>5. m.type = type
  BY <1>3 DEF Incoming
<1>6. m \in AddrMsgs /\ m.type # "DoShake"
  BY <1>5 DEF Msgs, DoShakeMsg
<1>7. m.sock \in Socks /\ m.nat2 \in BOOLEAN
  BY <1>6, HandshakeAssumption DEF AddrMsgs, Socks
<1> QED BY <1>3, <1>4, <1>6, <1>7 DEF MsgHas

\* chooseRole chooses one of the two roles.
LEMMA RoleTyped ==
  ASSUME NEW s, NEW q PROVE RoleOf(s, q) \in {"MASTER", "SLAVE"}
  BY DEF RoleOf

\* A P2pClient has chosen its role.
LEMMA Roled ==
  ASSUME NEW q \in Good, NEW x \in {"MASTER", "SLAVE"}
  PROVE  LET r == [q EXCEPT !.role = x]
         IN  /\ r \in Good /\ r \in Peers /\ r.cands = q.cands /\ r.choose = q.choose /\ r.pair = q.pair
             /\ r.sock = q.sock /\ r.disc = q.disc /\ r.raddr = q.raddr /\ r.life = q.life
<1> DEFINE r == [q EXCEPT !.role = x]
<1>1. q \in Peers /\ Ready(q)
  BY DEF Good
<1>2. r \in Peers
  BY <1>1 DEF Peers
<1>3. /\ r.cands = q.cands /\ r.choose = q.choose /\ r.pair = q.pair
      /\ r.sock = q.sock /\ r.disc = q.disc /\ r.raddr = q.raddr
  BY <1>1 DEF Peers
<1>4. r.life = q.life /\ r.state = q.state /\ r.count = q.count
  BY <1>1 DEF Peers
<1> QED BY <1>1, <1>2, <1>3, <1>4 DEF Good, Ready

\* The SLAVE shakes at once, the MASTER waits for MsgTypeDoShake.
LEMMA ShakesOrNot ==
  ASSUME Typed, NEW s \in Sides, NEW r \in Good, r.life # "none",
         r.sock <= opened'[s], r.raddr <= opened'[Other(s)],
         \/ Put(s, Shaking(r)) /\ net' \in Surviving(ShakeAll(s, r))
         \/ Put(s, r) /\ UNCHANGED net
  PROVE  /\ Sent
         /\ \E q \in Good :
              /\ Put(s, q) /\ q.sock = r.sock /\ q.disc = r.disc /\ q.raddr = r.raddr
              /\ q.cands = r.cands /\ q.choose = r.choose /\ q.pair = r.pair
<1>1. r \in Peers /\ r.sock # 0
  BY DEF Good, Ready
<1>2. CASE Put(s, Shaking(r)) /\ net' \in Surviving(ShakeAll(s, r))
  <2>1. Sent
    BY <1>1, <1>2, AllSent
  <2> QED BY <1>1, <1>2, <2>1, ShakingGood
<1>3. CASE Put(s, r) /\ UNCHANGED net
  BY <1>3 DEF Sent
<1> QED BY <1>2, <1>3

\* RunCFor takes a StartInfo: the P2pClient goes on with the socket that the
\* discovery was about.
LEMMA DoesStartReq ==
  ASSUME Typed, Heard, NEW s \in Sides, StartReq(s) PROVE Typed' /\ Heard'
<1>1. PICK p \in Good : /\ p = peer[s] /\ Ready(p) /\ p \in Peers /\ p.disc <= opened[s]
                        /\ p.raddr <= opened[Other(s)]
  BY OnePeer
<1>2. /\ p.life # "none" /\ p.disc # 0 /\ UNCHANGED <<proc, opened, orphan>>
      /\ open' = [open EXCEPT ![s] = IF p.disc = p.sock THEN @ ELSE (@ \ {p.sock}) \cup {p.disc}]
  BY <1>1 DEF StartReq, Runs
<1> DEFINE Q(nat2) == [p EXCEPT !.state = "shaking", !.sock = p.disc, !.disc = 0, !.loc = nat2]
           R(nat2) == [Q(nat2) EXCEPT !.role = RoleOf(s, Q(nat2))]
<1>3. PICK nat2 \in Nat2[s] :
        IF s = "requestor"
        THEN Put(s, Q(nat2)) /\ Tell(s, <<AddrMsg("AddrReq", Q(nat2))>>) /\ UNCHANGED net
        ELSE /\ Tell(s, <<AddrMsg("AddrResp", Q(nat2))>>)
             /\ IF R(nat2).role = "SLAVE"
                THEN Put(s, Shaking(R(nat2))) /\ net' \in Surviving(ShakeAll(s, R(nat2)))
                ELSE Put(s, R(nat2)) /\ UNCHANGED net
  BY <1>1 DEF StartReq
<1> DEFINE q == Q(nat2)
<1>4. nat2 \in BOOLEAN /\ p.disc \in Socks /\ 0 \in Socks
  BY <1>1, HandshakeAssumption DEF Peers, Socks
<1>5. /\ q \in Good /\ q \in Peers /\ q.sock = p.disc /\ q.disc = 0 /\ q.raddr = p.raddr
      /\ q.cands = p.cands /\ q.choose = p.choose /\ q.pair = p.pair /\ q.life = p.life
  <2>1. q \in Peers
    BY ZenonT(60), <1>1, <1>4 DEF Peers
  <2>2. q.sock = p.disc /\ q.disc = 0 /\ q.raddr = p.raddr
    BY <1>1 DEF Peers
  <2>3. q.cands = p.cands /\ q.choose = p.choose /\ q.pair = p.pair
    BY <1>1 DEF Peers
  <2>4. q.life = p.life /\ q.state = "shaking"
    BY <1>1 DEF Peers
  <2> QED BY <1>2, <2>1, <2>2, <2>3, <2>4 DEF Good, Ready
<1> DEFINE r == [q EXCEPT !.role = RoleOf(s, q)]
<1>6. /\ r \in Good /\ r.sock = p.disc /\ r.disc = 0 /\ r.raddr = p.raddr /\ r.life = p.life
      /\ r.cands = p.cands /\ r.choose = p.choose /\ r.pair = p.pair
  <2> HIDE DEF q
  <2>1. RoleOf(s, q) \in {"MASTER", "SLAVE"}
    BY RoleTyped
  <2>2. /\ r \in Good /\ r.cands = q.cands /\ r.choose = q.choose /\ r.pair = q.pair
        /\ r.sock = q.sock /\ r.disc = q.disc /\ r.raddr = q.raddr /\ r.life = q.life
    BY <1>5, <2>1, Roled
  <2> HIDE DEF r
  <2> QED BY <1>5, <2>2
<1>7. \/ Put(s, q) /\ Tell(s, <<AddrMsg("AddrReq", q)>>) /\ UNCHANGED net
      \/ /\ Tell(s, <<AddrMsg("AddrResp", q)>>)
         /\ \/ Put(s, Shaking(r)) /\ net' \in Surviving(ShakeAll(s, r))
            \/ Put(s, r) /\ UNCHANGED net
  BY <1>3
<1> HIDE DEF q, r, Q, R
<1>8. ProcsOK' /\ SocksOK' /\ Later
  <2>1. PICK n \in Socks, m \in Socks : n = p.disc /\ m = p.sock
    BY <1>1 DEF Peers
  <2>2. open' = [open EXCEPT ![s] = IF n = m THEN @ ELSE (@ \ {m}) \cup {n}]
    BY <1>2, <2>1
  <2>3. open' \in [Sides -> SUBSET Socks]
    BY <2>2 DEF Typed, SocksOK
  <2>4. ProcsOK' /\ Later
    BY <1>2, Unopened, OthersStay
  <2> QED BY <1>2, <2>3, <2>4 DEF Typed, SocksOK
<1>9. q.sock # 0 /\ q.sock <= opened'[s]
  BY <1>1, <1>2, <1>5
<1>10. Told(s)
  <2>1. \E type \in {"AddrReq", "AddrResp"} : Says(s, <<AddrMsg(type, q)>>)
    BY <1>7 DEF Says
  <2> QED BY <1>5, <1>8, <1>9, <2>1, AddrSaid
<1>11. /\ Sent
       /\ \E e \in Good :
            /\ Put(s, e) /\ e.sock = p.disc /\ e.disc = 0 /\ e.raddr = p.raddr
            /\ e.cands = p.cands /\ e.choose = p.choose /\ e.pair = p.pair
  <2>1. CASE Put(s, q) /\ UNCHANGED net
    BY <1>5, <2>1 DEF Sent
  <2>2. CASE \/ Put(s, Shaking(r)) /\ net' \in Surviving(ShakeAll(s, r))
             \/ Put(s, r) /\ UNCHANGED net
    <3>1. r.sock <= opened'[s] /\ r.raddr <= opened'[Other(s)] /\ r.life # "none"
      BY <1>1, <1>2, <1>6
    <3> QED BY <1>6, <2>2, <3>1, ShakesOrNot
  <2> QED BY <1>7, <2>1, <2>2
<1>12. PICK e \in Good :
            /\ Put(s, e) /\ e.sock = p.disc /\ e.disc = 0 /\ e.raddr = p.raddr
            /\ e.cands = p.cands /\ e.choose = p.choose /\ e.pair = p.pair
  BY <1>11
<1>13. Keeps(s, e) /\ Holds(s, e)
  BY <1>1, <1>8, <1>12, SameHolds
<1> QED BY <1>8, <1>10, <1>11, <1>12, <1>13, StepKept

\* MsgTypeAddrResp at the requestor.
LEMMA DoesAddrResp ==
  ASSUME Typed, Heard, NEW s \in Sides, AddrResp(s) PROVE Typed' /\ Heard'
<1>1. PICK p \in Good : /\ p = peer[s] /\ Ready(p) /\ p \in Peers /\ p.sock <= opened[s]
  BY OnePeer
<1>2. PICK m : /\ m = Head(tcp[s]) /\ m.sock \in Socks /\ m.nat2 \in BOOLEAN
               /\ m.sock <= opened[Other(s)]
  BY Arrived DEF AddrResp
<1> DEFINE q == [p EXCEPT !.choose = None, !.raddr = m.sock, !.rem = m.nat2]
           r == [q EXCEPT !.role = RoleOf(s, q)]
<1>3. /\ tcp[s] # <<>> /\ UNCHANGED <<proc, opened, open, orphan>>
      /\ IF Runs(s) /\ (p.state # "ok" \/ p.age # "fresh")
         THEN /\ TakeAndTell(s, <<DoShakeMsg>>)
              /\ IF r.role = "SLAVE"
                 THEN Put(s, Shaking(r)) /\ net' \in Surviving(ShakeAll(s, r))
                 ELSE Put(s, r) /\ UNCHANGED net
         ELSE TakeAndTell(s, <<>>) /\ UNCHANGED <<peer, net>>
  BY <1>1, <1>2 DEF AddrResp, Incoming
<1>4. ProcsOK' /\ SocksOK' /\ Later
  BY <1>3, OthersStay
<1>5. CASE Runs(s) /\ (p.state # "ok" \/ p.age # "fresh")
  <2>1. /\ q \in Good /\ q.sock = p.sock /\ q.disc = p.disc /\ q.raddr = m.sock
        /\ q.cands = p.cands /\ q.choose = None /\ q.pair = p.pair /\ q.life = p.life
    <3>1. q \in Peers
      BY <1>1, <1>2 DEF Peers
    <3>2. q.sock = p.sock /\ q.disc = p.disc /\ q.raddr = m.sock
      BY <1>1 DEF Peers
    <3>3. q.cands = p.cands /\ q.choose = None /\ q.pair = p.pair
      BY <1>1 DEF Peers
    <3>4. q.life = p.life /\ q.state = p.state /\ q.count = p.count
      BY <1>1 DEF Peers
    <3> QED BY <1>1, <3>1, <3>2, <3>3, <3>4 DEF Good, Ready
  <2>2. /\ TakeAndTell(s, <<DoShakeMsg>>)
        /\ \/ Put(s, Shaking(r)) /\ net' \in Surviving(ShakeAll(s, r))
           \/ Put(s, r) /\ UNCHANGED net
    BY <1>3, <1>5
  <2> HIDE DEF q
  <2>3. /\ r \in Good /\ r.sock = p.sock /\ r.disc = p.disc /\ r.raddr = m.sock /\ r.life = p.life
        /\ r.cands = p.cands /\ r.choose = None /\ r.pair = p.pair
    <3>1. RoleOf(s, q) \in {"MASTER", "SLAVE"}
      BY RoleTyped
    <3>2. /\ r \in Good /\ r.cands = q.cands /\ r.choose = q.choose /\ r.pair = q.pair
          /\ r.sock = q.sock /\ r.disc = q.disc /\ r.raddr = q.raddr /\ r.life = q.life
      BY <2>1, <3>1, Roled
    <3> HIDE DEF r
    <3> QED BY <2>1, <3>2
  <2> HIDE DEF r
  <2>4. r.sock <= opened'[s] /\ r.raddr <= opened'[Other(s)] /\ r.life # "none"
    BY <1>1, <1>2, <1>3, <1>5, <2>3 DEF Runs
  <2>5. /\ Sent
        /\ \E e \in Good :
            /\ Put(s, e) /\ e.sock = r.sock /\ e.disc = r.disc /\ e.raddr = r.raddr
            /\ e.cands = r.cands /\ e.choose = r.choose /\ e.pair = r.pair
    BY <2>2, <2>3, <2>4, ShakesOrNot
  <2>6. PICK e \in Good :
            /\ Put(s, e) /\ e.sock = p.sock /\ e.disc = p.disc /\ e.raddr = m.sock
            /\ e.cands = p.cands /\ e.choose = None /\ e.pair = p.pair
    BY <2>3, <2>5
  <2>7. Told(s)
    BY <1>3, <2>2, DoShakeSaid DEF Says
  <2>8. e.raddr <= opened'[Other(s)]
    BY <2>3, <2>4, <2>6
  <2>9. Keeps(s, e) /\ Holds(s, e)
    BY <1>1, <1>4, <2>6, <2>8, SameHolds
  <2> QED BY <1>4, <2>5, <2>6, <2>7, <2>9, StepKept
<1>6. CASE ~ (Runs(s) /\ (p.state # "ok" \/ p.age # "fresh"))
  <2>1. Told(s) /\ UNCHANGED <<peer, net, opened>>
    BY <1>3, <1>6, NoMsgs
  <2>2. Sent
    BY <2>1 DEF Sent
  <2> QED BY <1>4, <2>1, <2>2, StillKept
<1> QED BY <1>5, <1>6

\* MsgTypeDoShake, or the hook that takes it.
LEMMA DoesDoShake ==
  ASSUME Typed, Heard, NEW s \in Sides, DoShake(s) PROVE Typed' /\ Heard'
<1>1. PICK p \in Good : /\ p = peer[s] /\ Ready(p) /\ p \in Peers /\ p.sock <= opened[s]
                        /\ p.raddr <= opened[Other(s)]
  BY OnePeer
<1>2. UNCHANGED <<proc, opened, open, orphan>> /\ tcp[s] # <<>>
  BY DEF DoShake, Incoming
<1>3. ProcsOK' /\ SocksOK' /\ Later
  BY <1>2, OthersStay
<1>4. \/ TakeAndTell(s, <<DoShakeMsg>>)
      \/ TakeAndTell(s, <<>>)
  BY DEF DoShake
<1>5. Told(s)
  BY <1>2, <1>4, DoShakeSaid, NoMsgs DEF Says
<1>6. \/ UNCHANGED <<peer, net>>
      \/ Runs(s) /\ Put(s, Shaking(p)) /\ net' \in Surviving(ShakeAll(s, p))
  BY <1>1 DEF DoShake
<1>7. CASE UNCHANGED <<peer, net>>
  BY <1>2, <1>3, <1>5, <1>7, StillKept DEF Sent
<1>8. CASE Runs(s) /\ Put(s, Shaking(p)) /\ net' \in Surviving(ShakeAll(s, p))
  <2>1. p.life # "none" /\ p.sock # 0 /\ p.sock <= opened'[s] /\ p.raddr <= opened'[Other(s)]
    BY <1>1, <1>2, <1>8 DEF Runs, Ready
  <2>2. Sent
    BY <1>1, <1>8, <2>1, AllSent
  <2>3. PICK q \in Good :
          /\ Put(s, q) /\ q.sock = p.sock /\ q.disc = p.disc /\ q.raddr = p.raddr
          /\ q.cands = p.cands /\ q.choose = p.choose /\ q.pair = p.pair
    BY <1>1, <1>8, <2>1, ShakingGood
  <2> QED BY <1>1, <1>2, <1>3, <1>5, <2>2, <2>3, OneKept
<1> QED BY <1>6, <1>7, <1>8

\* A datagram of Ikcp to the remote address.
LEMMA DoesSendIkcp ==
  ASSUME Typed, Heard, NEW s \in Sides, SendIkcp(s) PROVE Typed' /\ Heard'
<1>1. PICK p \in Good : /\ p = peer[s] /\ Ready(p) /\ p \in Peers /\ p.sock <= opened[s]
                        /\ Agreed(p.pair)
  BY OnePeer
<1>2. /\ UNCHANGED <<proc, opened, open, peer, orphan, tcp>>
      /\ p.life # "none" /\ p.pair # None
      /\ net' \in Surviving({Pong(Other(s), Via(s, p, p.pair))})
  BY <1>1 DEF SendIkcp, Runs
<1>3. ProcsOK' /\ Told(s) /\ SocksOK'
  BY <1>2, OthersStay DEF Told
<1>4. p.pair \in Pairs /\ p.sock # 0 /\ p.sock <= opened'[s]
  BY <1>1, <1>2 DEF Ready, Peers
<1>5. p.pair[Other(s)] <= opened'[Other(s)]
  BY <1>1, <1>2, <1>4, AgreedUsed, OtherSide
<1>6. Sent
  BY <1>1, <1>2, <1>4, <1>5, BeatSent
<1> QED BY <1>2, <1>3, <1>6, StillKept

\* pingTick when ok: a ping, or a new socket whose discovery begins, or the
\* end.
LEMMA DoesTickOk ==
  ASSUME Typed, Heard, NEW s \in Sides, TickOk(s) PROVE Typed' /\ Heard'
<1>1. PICK p \in Good : /\ p = peer[s] /\ Ready(p) /\ p \in Peers /\ p.sock <= opened[s]
                        /\ Agreed(p.pair)
  BY OnePeer
<1>2. /\ UNCHANGED <<proc, open, orphan, tcp>> /\ p.life # "none" /\ p.state = "ok"
      /\ \/ net' \in Surviving({Ping(Other(s), Via(s, p, p.pair))}) /\ UNCHANGED <<peer, opened>>
         \/ Restart(s) /\ UNCHANGED net
  BY <1>1 DEF TickOk, Runs
<1>3. ProcsOK' /\ Told(s)
  BY <1>2, OthersStay DEF Told
<1>4. CASE net' \in Surviving({Ping(Other(s), Via(s, p, p.pair))}) /\ UNCHANGED <<peer, opened>>
  <2>1. p.pair \in Pairs /\ p.sock # 0 /\ p.sock <= opened'[s]
    BY <1>1, <1>2, <1>4 DEF Ready, Peers
  <2>2. p.pair[Other(s)] <= opened'[Other(s)]
    BY <1>1, <1>4, <2>1, AgreedUsed, OtherSide
  <2>3. Sent
    BY <1>1, <1>4, <2>1, <2>2, BeatSent
  <2>4. SocksOK'
    BY <1>2, <1>4, OthersStay
  <2> QED BY <1>3, <1>4, <2>3, <2>4, StillKept
<1>5. CASE Restart(s) /\ UNCHANGED net
  <2>1. Sent
    BY <1>5 DEF Sent
  <2>2. CASE Over(s) /\ UNCHANGED opened
    <3> DEFINE q == [p EXCEPT !.life = "over"]
    <3>1. Put(s, q)
      BY <1>1, <2>2 DEF Over
    <3>2. /\ q \in Good /\ q.cands = p.cands /\ q.choose = p.choose /\ q.pair = p.pair
          /\ q.sock = p.sock /\ q.disc = p.disc /\ q.raddr = p.raddr
      BY <1>2, Lived
    <3> HIDE DEF q
    <3>3. SocksOK'
      BY <1>2, <2>2, OthersStay
    <3> QED BY <1>1, <1>3, <2>1, <2>2, <3>1, <3>2, <3>3, OneKept
  <2>3. CASE /\ NextSocket(s)
             /\ Put(s, [peer[s] EXCEPT !.state = "begin", !.age = "fresh", !.disc = opened[s] + 1])
    <3>1. PICK n \in 1..MaxSock : /\ n = opened[s] + 1 /\ opened'[s] = n /\ n \in Socks /\ Later
                                  /\ opened' \in [Sides -> Socks]
                                  /\ opened'["proxy"] + opened'["requestor"] <= MaxSock
      BY <2>3, Socketed
    <3> DEFINE q == [p EXCEPT !.state = "begin", !.age = "fresh", !.disc = n]
    <3>2. Put(s, q)
      BY <1>1, <2>3, <3>1
    <3>3. /\ q \in Good /\ q.cands = p.cands /\ q.choose = p.choose /\ q.pair = p.pair
          /\ q.sock = p.sock /\ q.disc = n /\ q.raddr = p.raddr
      <4>1. q \in Peers
        BY ZenonT(60), <1>1, <3>1 DEF Peers
      <4>2. q.sock = p.sock /\ q.disc = n /\ q.raddr = p.raddr
        BY <1>1 DEF Peers
      <4>3. q.cands = p.cands /\ q.choose = p.choose /\ q.pair = p.pair
        BY <1>1 DEF Peers
      <4>4. q.life = p.life /\ q.state = "begin"
        BY <1>1 DEF Peers
      <4> QED BY <1>1, <4>1, <4>2, <4>3, <4>4 DEF Good, Ready
    <3> HIDE DEF q
    <3>4. SocksOK'
      BY <1>2, <3>1 DEF Typed, SocksOK
    <3>5. Keeps(s, q) /\ Holds(s, q)
      BY <1>1, <3>1, <3>3, <3>4, SameHolds
    <3> QED BY <1>3, <2>1, <3>1, <3>2, <3>3, <3>4, <3>5, StepKept
  <2> QED BY <1>5, <2>2, <2>3 DEF Restart
<1> QED BY <1>2, <1>4, <1>5

-----------------------------------------------------------------------------
(***************************************************************************)
(* A request for an address.                                               *)
(***************************************************************************)

\* q is the P2pClient p with the socket of m as its peer's address.
Learned(p, m, q) ==
  /\ q \in Good /\ q.sock = p.sock /\ q.disc = p.disc /\ q.raddr = m.sock
  /\ q.cands = p.cands /\ q.choose = p.choose /\ q.pair = p.pair

\* A P2pClient has been told its peer's address.
LEMMA Addressed ==
  ASSUME NEW p \in Good, NEW m, m.sock \in Socks, m.nat2 \in BOOLEAN,
         NEW q, q = [p EXCEPT !.raddr = m.sock, !.rem = m.nat2]
  PROVE  Learned(p, m, q)
<1>1. p \in Peers /\ Ready(p)
  BY DEF Good
<1>2. q \in Peers
  BY <1>1 DEF Peers
<1>3. q.sock = p.sock /\ q.disc = p.disc /\ q.raddr = m.sock
  BY <1>1 DEF Peers
<1>4. q.cands = p.cands /\ q.choose = p.choose /\ q.pair = p.pair
  BY <1>1 DEF Peers
<1>5. q.life = p.life /\ q.state = p.state /\ q.count = p.count
  BY <1>1 DEF Peers
<1> QED BY <1>1, <1>2, <1>3, <1>4, <1>5 DEF Good, Ready, Learned

\* MsgTypeAddrReq at the proxy, which creates the P2pClient when there is none.
LEMMA DoesAddrReq ==
  ASSUME Typed, Heard, NEW s \in Sides, AddrReq(s) PROVE Typed' /\ Heard'
<1>1. PICK m : /\ m = Head(tcp[s]) /\ m.sock \in Socks /\ m.nat2 \in BOOLEAN
               /\ m.sock <= opened[Other(s)]
  BY Arrived DEF AddrReq
<1>6. m.sock \in Socks /\ m.nat2 \in BOOLEAN
  BY <1>1
<1>2. tcp[s] # <<>> /\ UNCHANGED <<proc, orphan, net>>
  BY DEF AddrReq, Incoming
<1>3. ProcsOK' /\ Sent
  BY <1>2, OthersStay DEF Sent
<1>4. CASE peer[s].life = "none"
  <2>1. Begin(s)
    BY <1>4 DEF AddrReq
  <2>2. PICK n \in 1..MaxSock : /\ n = opened[s] + 1 /\ opened'[s] = n /\ SocksOK' /\ Later
    BY <2>1, Begun
  <2> DEFINE p == NewPeer(n)
             q == [p EXCEPT !.raddr = m.sock, !.rem = m.nat2]
  <2>3. /\ p \in Good /\ p.life = "up" /\ p.state = "begin" /\ p.sock = n /\ p.disc = n
        /\ p.cands = {} /\ p.choose = None /\ p.pair = None
    BY NewPeerGood DEF NewPeer, NoPeer
  <2>4. Put(s, q) /\ TakeAndTell(s, <<>>)
    <3> HIDE DEF p
    <3>1. p = IF peer[s].life = "none" THEN NewPeer(opened[s] + 1) ELSE peer[s]
      BY <1>4, <2>2 DEF p
    <3>2. /\ Put(s, [p EXCEPT !.raddr = Head(tcp[s]).sock, !.rem = Head(tcp[s]).nat2])
          /\ TakeAndTell(s, IF p.state = "shaking" THEN <<AddrMsg("AddrResp", p)>> ELSE <<>>)
      BY <2>3, <3>1 DEF AddrReq
    <3> QED BY <1>1, <2>3, <3>2
  <2> HIDE DEF p
  <2>5. /\ q \in Good /\ q.sock = n /\ q.disc = n /\ q.raddr = m.sock
        /\ q.cands = {} /\ q.choose = None /\ q.pair = None
    <3>1. q = [p EXCEPT !.raddr = m.sock, !.rem = m.nat2]
      OBVIOUS
    <3>3. p \in Good
      BY <2>3
    <3> HIDE DEF q
    <3>2. Learned(p, m, q)
      BY <1>6, <3>1, <3>3, Addressed, Zenon
    <3> QED BY <2>3, <3>2 DEF Learned
  <2> HIDE DEF q
  <2>6. q.raddr <= opened'[Other(s)]
    <3>1. Other(s) \in Sides /\ opened[Other(s)] <= opened'[Other(s)]
      BY <2>2, OtherSide DEF Later
    <3>2. opened[Other(s)] \in Int /\ opened'[Other(s)] \in Int /\ m.sock \in Int
      BY <1>1, <2>2, <3>1 DEF Typed, SocksOK, Socks
    <3> QED BY <1>1, <2>5, <3>1, <3>2
  <2>7. Keeps(s, q) /\ Holds(s, q)
    BY <2>2, <2>5, <2>6, EmptyHolds
  <2>8. Told(s)
    BY <1>2, <2>4, NoMsgs
  <2> QED BY <1>3, <2>2, <2>4, <2>5, <2>7, <2>8, StepKept
<1>5. CASE peer[s].life # "none"
  <2>1. PICK p \in Good : /\ p = peer[s] /\ Ready(p) /\ p \in Peers /\ p.sock <= opened[s]
    BY OnePeer
  <2>2. p.life # "none" /\ p = IF peer[s].life = "none" THEN NewPeer(opened[s] + 1) ELSE peer[s]
    BY <1>5, <2>1
  <2> DEFINE q == [p EXCEPT !.raddr = m.sock, !.rem = m.nat2]
  <2>3. /\ UNCHANGED <<opened, open>>
        /\ \/ /\ Put(s, q)
              /\ TakeAndTell(s, IF p.state = "shaking" THEN <<AddrMsg("AddrResp", p)>> ELSE <<>>)
           \/ UNCHANGED peer /\ TakeAndTell(s, <<>>)
    BY <1>1, <1>5, <2>2 DEF AddrReq
  <2>4. SocksOK' /\ Later
    BY <2>3, OthersStay
  <2>5. CASE /\ Put(s, q)
             /\ TakeAndTell(s, IF p.state = "shaking" THEN <<AddrMsg("AddrResp", p)>> ELSE <<>>)
    <3>1. /\ q \in Good /\ q.sock = p.sock /\ q.disc = p.disc /\ q.raddr = m.sock
          /\ q.cands = p.cands /\ q.choose = p.choose /\ q.pair = p.pair
      <4>1. q = [p EXCEPT !.raddr = m.sock, !.rem = m.nat2]
        OBVIOUS
      <4> HIDE DEF q
      <4>2. Learned(p, m, q)
        BY <1>6, <4>1, Addressed, Zenon
      <4> QED BY <4>2 DEF Learned
    <3>2. Put(s, q)
      BY <2>5
    <3> HIDE DEF q
    <3>3. Told(s)
      <4>1. CASE p.state = "shaking"
        <5>1. p.sock # 0 /\ p.sock <= opened'[s]
          BY <2>1, <2>2, <2>3 DEF Ready
        <5>2. Says(s, <<AddrMsg("AddrResp", p)>>)
          BY <1>2, <2>5, <4>1 DEF Says
        <5> QED BY <2>1, <2>4, <5>1, <5>2, AddrSaid
      <4>2. CASE p.state # "shaking"
        BY <1>2, <2>5, <4>2, NoMsgs
      <4> QED BY <4>1, <4>2
    <3>4. q.raddr <= opened'[Other(s)]
      BY <1>1, <2>3, <3>1
    <3>5. Keeps(s, q) /\ Holds(s, q)
      BY <2>1, <2>4, <3>1, <3>4, SameHolds
    <3> QED BY <1>3, <2>4, <3>1, <3>2, <3>3, <3>5, StepKept
  <2>6. CASE UNCHANGED peer /\ TakeAndTell(s, <<>>)
    <3>1. Told(s)
      BY <1>2, <2>6, NoMsgs
    <3> QED BY <1>3, <2>3, <2>4, <2>6, <3>1, StillKept
  <2> QED BY <2>3, <2>5, <2>6
<1> QED BY <1>4, <1>5

-----------------------------------------------------------------------------
(***************************************************************************)
(* Candidates and the choice from them.                                    *)
(***************************************************************************)

\* handleShakeingMsg: the candidates after a datagram came are its pair, and
\* those before, but one with the same address of its own.
LEMMA Included ==
  ASSUME NEW s \in Sides, NEW cands \in SUBSET Pairs, NEW v \in Pairs
  PROVE  LET C == WithCand(s, cands, v)
         IN  /\ C \in SUBSET Pairs /\ v \in C
             /\ \A c \in C : c \in cands \/ c = v
             /\ \A c \in cands : \E e \in C : Own(s, e) = Own(s, c)
  BY DEF WithCand

\* Two pairs with the same own address have the same path.
LEMMA OwnParts ==
  ASSUME NEW s, NEW u, NEW v, Own(s, u) = Own(s, v)
  PROVE  u.path = v.path /\ u[s] = v[s]
  BY DEF Own

\* A pair whose own address is that of another is heard when the other is.
LEMMA HalfAlike ==
  ASSUME NEW s \in Sides, NEW h \in Pairs, NEW c \in Pairs, Half(s, h), Used(c),
         Own(s, h) = Own(s, c)
  PROVE  Half(s, c)
<1>1. h.path = c.path /\ h[s] = c[s]
  BY OwnParts
<1> QED BY <1>1 DEF Half, Seen

\* The candidates that the requestor finds usable, and the one it chooses from
\* them, are agreed, when the proxy has heard those it sent: the requestor has
\* heard on them itself.
LEMMA UsableAgreed ==
  ASSUME NEW cands \in SUBSET Pairs, NEW heard \in SUBSET Pairs,
         \A c \in cands : Half("proxy", c), \A h \in heard : Half("requestor", h)
  PROVE  LET U == Usable(cands, heard)
         IN  /\ U \in SUBSET Pairs /\ Least(U) \in Pairs \cup {None}
             /\ Agreed(Least(U))
             /\ \A c \in U : Half("proxy", c) /\ Half("requestor", c)
<1> DEFINE U == Usable(cands, heard)
<1>1. U \in SUBSET cands
  BY DEF Usable
<1>2. ASSUME NEW c \in U PROVE Half("proxy", c) /\ Half("requestor", c)
  <2>1. PICK h \in heard : Own("requestor", h) = Own("requestor", c)
    BY DEF Usable
  <2>2. Half("proxy", c) /\ Used(c)
    BY <1>1 DEF Half
  <2>3. c \in Pairs /\ h \in Pairs /\ "requestor" \in Sides /\ Half("requestor", h)
    BY <1>1 DEF Sides
  <2> QED BY <2>1, <2>2, <2>3, HalfAlike
<1>3. Least(U) \in U \cup {None}
  BY <1>1, LeastChosen
<1>4. Agreed(Least(U))
  BY <1>2, <1>3 DEF Agreed
<1> QED BY <1>1, <1>2, <1>3, <1>4

\* What was just said of cands and heard, to be had of the state after a step
\* as well.
HeardOf(cands, heard) ==
  (\A c \in cands : Half("proxy", c)) /\ (\A h \in heard : Half("requestor", h))
Settled(cands, heard) ==
  LET U == Usable(cands, heard)
  IN Agreed(Least(U)) /\ \A c \in U : Half("proxy", c) /\ Half("requestor", c)

\* The candidates found usable are agreed after a step when they were heard by
\* then.
LEMMA UsableLater ==
  ASSUME NEW cands \in SUBSET Pairs, NEW heard \in SUBSET Pairs
  PROVE  HeardOf(cands, heard)' => Settled(cands, heard)'
<1>1. HeardOf(cands, heard) => Settled(cands, heard)
  BY UsableAgreed DEF HeardOf, Settled
<1> QED BY <1>1, PTL

\* handleShakeingMsg, whichever of its branches: it adds the pair of the
\* datagram to the candidates, and may adopt the choice that the datagram
\* carries or settle on the one it has.
LEMMA Adopts ==
  ASSUME Typed, Heard, NEW s \in Sides, NEW o \in Good, o = peer[s],
         NEW d \in net, d.to = s, d.type = "shake",
         NEW q \in Good, Put(s, q), q.cands = WithCand(s, o.cands, d.pair),
         q.sock = o.sock, q.disc = o.disc, q.raddr = o.raddr,
         q.choose \in {o.choose, d.choose}, q.pair \in {o.pair, o.choose},
         UNCHANGED <<proc, opened, open, orphan, tcp>>,
         NEW e \in Grams, net' \in Surviving({e})
  PROVE  /\ Typed' /\ Grows /\ ProcsOK' /\ SocksOK' /\ Later /\ Told(s)
         /\ Keeps(s, q) /\ Holds(s, q)
         /\ \A c \in q.cands : Half(s, c)'
         /\ Agreed(q.choose)' /\ Agreed(q.pair)' /\ Agreed(o.choose)'
<1>1. /\ o \in Peers /\ o.sock \in Int /\ o.disc \in Int /\ o.raddr \in Int
      /\ o.sock <= opened[s] /\ o.disc <= opened[s] /\ o.raddr <= opened[Other(s)]
      /\ Agreed(o.choose) /\ Agreed(o.pair)
  BY OnePeer
<1>2. /\ d \in Grams /\ d.pair \in Pairs /\ d.choose \in Pairs \cup {None}
      /\ d.pair.path \in Works[s] /\ GramHas(d)
  BY GramTyped DEF Typed, NetOK, Heard
<1>3. ProcsOK' /\ SocksOK' /\ Later /\ Told(s)
  BY OthersStay DEF Told
<1>4. peer'[s] = q /\ PeersOK'
  BY PutPeer DEF Typed
<1>5. Typed'
  <2>1. Sends({e})
    BY OneTyped DEF Sends
  <2>2. Tells(s)
    BY DEF Tells
  <2> QED BY <1>3, <1>4, <2>1, <2>2, SentTyped
<1>6. /\ q.cands \in SUBSET Pairs /\ d.pair \in q.cands
      /\ \A c \in q.cands : c \in o.cands \/ c = d.pair
      /\ \A c \in o.cands : \E b \in q.cands : Own(s, b) = Own(s, c)
  <2>1. o.cands \in SUBSET Pairs
    BY <1>1 DEF Peers
  <2> QED BY <1>2, <2>1, Included
<1>7. Keeps(s, q)
  BY <1>6 DEF Keeps
<1>8. Grows
  BY <1>3, <1>5, <1>7, KeepsGrows DEF Later
<1>9. Half(s, d.pair)'
  <2>1. Used(d.pair)'
    BY <1>2 DEF GramHas, Used
  <2> QED BY <1>2, <1>4, <1>6, <2>1 DEF Half, Seen
<1>10. Agreed(o.choose)' /\ Agreed(d.choose)' /\ Agreed(o.pair)'
  <2>1. Agreed(d.choose)
    BY <1>2 DEF GramHas
  <2>2. o.choose \in Pairs \cup {None} /\ o.pair \in Pairs \cup {None}
    BY <1>1 DEF Peers
  <2> QED BY <1>1, <1>2, <1>5, <1>8, <2>1, <2>2, AgreedStays
<1>11. Agreed(q.choose)' /\ Agreed(q.pair)'
  BY <1>10
<1>12. Holds(s, q)
  <2>1. q.sock <= opened'[s] /\ q.disc <= opened'[s] /\ q.raddr <= opened'[Other(s)]
    BY <1>1
  <2>2. \A c \in q.cands : c \in o.cands \/ Half(s, c)'
    BY <1>6, <1>9
  <2> QED BY <1>11, <2>1, <2>2 DEF Holds
<1>13. \A c \in q.cands : Half(s, c)'
  BY <1>3, <1>5, <1>7, <1>12, Holding
<1> QED BY <1>3, <1>5, <1>7, <1>8, <1>10, <1>11, <1>12, <1>13

\* A datagram is answered to where it came from.
LEMMA BackPair ==
  ASSUME Typed, Heard, NEW s \in Sides, NEW p \in Peers, p.sock # 0, p.sock <= opened[s],
         NEW d \in net, UNCHANGED opened
  PROVE  LET v == Via(s, p, d.pair) IN v \in Pairs /\ Used(v)'
<1> DEFINE v == Via(s, p, d.pair)
<1>1. d.pair \in Pairs /\ GramHas(d)
  BY GramTyped DEF Typed, NetOK, Heard
<1>2. v \in Pairs /\ v[s] = p.sock /\ v[Other(s)] = d.pair[Other(s)]
  BY <1>1, ViaPair
<1>3. d.pair[Other(s)] <= opened[Other(s)]
  BY <1>1, OtherSide DEF GramHas, Used
<1> HIDE DEF v
<1>4. Used(v)'
  BY <1>2, <1>3, OtherSide DEF Used
<1> QED BY <1>2, <1>4 DEF v

\* The P2pClient after the datagram's pair was added.
LEMMA Candidate ==
  ASSUME NEW s \in Sides, NEW o \in Good, NEW v \in Pairs
  PROVE  \E p \in Good :
           /\ p = [o EXCEPT !.cands = WithCand(s, @, v)] /\ p \in Peers
           /\ p.cands = WithCand(s, o.cands, v)
           /\ p.choose = o.choose /\ p.pair = o.pair /\ p.life = o.life
           /\ p.sock = o.sock /\ p.disc = o.disc /\ p.raddr = o.raddr
<1> DEFINE p == [o EXCEPT !.cands = WithCand(s, @, v)]
<1>1. o \in Peers /\ Ready(o)
  BY DEF Good
<1>2. PICK C \in SUBSET Pairs : C = WithCand(s, o.cands, v)
  <2>1. o.cands \in SUBSET Pairs
    BY <1>1 DEF Peers
  <2> QED BY <2>1, Included
<1>3. p = [o EXCEPT !.cands = C]
  BY <1>2
<1> HIDE DEF p
<1>4. p \in Peers
  BY <1>1, <1>3 DEF Peers
<1>5. p.cands = C /\ p.choose = o.choose /\ p.pair = o.pair
  BY <1>1, <1>3 DEF Peers
<1>6. p.sock = o.sock /\ p.disc = o.disc /\ p.raddr = o.raddr
  BY <1>1, <1>3 DEF Peers
<1>7. p.life = o.life /\ p.state = o.state /\ p.count = o.count
  BY <1>1, <1>3 DEF Peers
<1>8. p \in Good
  BY <1>1, <1>4, <1>5, <1>6, <1>7 DEF Good, Ready
<1> QED BY <1>2, <1>4, <1>5, <1>6, <1>7, <1>8 DEF p

\* onChooseOk sets local and remote.
LEMMA ChosenGood ==
  ASSUME NEW p \in Good, p.choose # None
  PROVE  LET q == Chosen(p)
         IN  /\ q \in Good /\ q.cands = p.cands /\ q.choose = p.choose /\ q.pair = p.choose
             /\ q.sock = p.sock /\ q.disc = p.disc /\ q.raddr = p.raddr
<1> DEFINE q == Chosen(p)
<1>1. p \in Peers /\ Ready(p)
  BY DEF Good
<1>2. PICK c \in Pairs \cup {None} : c = p.choose
  BY <1>1 DEF Peers
<1>3. q = [p EXCEPT !.state = "ok", !.pair = c, !.count = 0, !.age = "fresh"]
  BY <1>2 DEF Chosen
<1> HIDE DEF q
<1>4. q \in Peers
  BY <1>1, <1>3 DEF Peers
<1>5. q.cands = p.cands /\ q.choose = p.choose /\ q.pair = c
  BY <1>1, <1>3 DEF Peers
<1>6. q.sock = p.sock /\ q.disc = p.disc /\ q.raddr = p.raddr
  BY <1>1, <1>3 DEF Peers
<1>7. q.life = p.life /\ q.count = 0 /\ q.state = "ok"
  BY <1>1, <1>3 DEF Peers
<1>8. q \in Good
  BY <1>1, <1>2, <1>4, <1>5, <1>6, <1>7 DEF Good, Ready
<1> QED BY <1>2, <1>5, <1>6, <1>8 DEF q

\* A P2pClient adopts a choice.
LEMMA ChoiceGood ==
  ASSUME NEW p \in Good, NEW c \in Pairs \cup {None}
  PROVE  LET q == [p EXCEPT !.choose = c]
         IN  /\ q \in Good /\ q.cands = p.cands /\ q.choose = c /\ q.pair = p.pair
             /\ q.sock = p.sock /\ q.disc = p.disc /\ q.raddr = p.raddr
<1> DEFINE q == [p EXCEPT !.choose = c]
<1>1. p \in Peers /\ Ready(p)
  BY DEF Good
<1>4. q \in Peers
  BY <1>1 DEF Peers
<1>5. q.cands = p.cands /\ q.choose = c /\ q.pair = p.pair
  BY <1>1 DEF Peers
<1>6. q.sock = p.sock /\ q.disc = p.disc /\ q.raddr = p.raddr
  BY <1>1 DEF Peers
<1>7. q.life = p.life /\ q.count = p.count /\ q.state = p.state
  BY <1>1 DEF Peers
<1>8. q \in Good
  BY <1>1, <1>4, <1>5, <1>6, <1>7 DEF Good, Ready
<1> QED BY <1>5, <1>6, <1>8

\* handleShakeingMsg. The cases: the choice is confirmed and the side is P2pOk;
\* the requestor chooses; the proxy takes the choice over, and sends its
\* candidates.
LEMMA DoesHandleShake ==
  ASSUME Typed, Heard, NEW s \in Sides, NEW d \in net, HandleShake(s, d) PROVE Typed' /\ Heard'
<1>1. PICK o \in Good : /\ o = peer[s] /\ Ready(o) /\ o \in Peers /\ o.sock <= opened[s]
                        /\ Agreed(o.choose) /\ o.life # "none"
  BY OnePeer DEF HandleShake, Runs
<1>2. /\ d.to = s /\ d.type = "shake" /\ UNCHANGED <<proc, opened, open, orphan, tcp>>
      /\ d.pair \in Pairs /\ d.choose \in Pairs \cup {None} /\ d.cands \in SUBSET Pairs /\ GramHas(d)
  BY GramTyped DEF HandleShake, Typed, NetOK, Heard
<1>3. PICK p \in Good :
        /\ p = [o EXCEPT !.cands = WithCand(s, @, d.pair)] /\ p \in Peers
        /\ p.cands = WithCand(s, o.cands, d.pair)
        /\ p.choose = o.choose /\ p.pair = o.pair /\ p.life = o.life
        /\ p.sock = o.sock /\ p.disc = o.disc /\ p.raddr = o.raddr
  <2>1. d.pair \in Pairs
    BY <1>2
  <2> QED BY <2>1, Candidate
<1>4. PICK back \in Pairs : back = Via(s, p, d.pair) /\ Used(back)'
  <2>1. p.sock # 0 /\ p.sock <= opened[s]
    BY <1>1, <1>3 DEF Ready
  <2> QED BY <1>2, <1>3, <2>1, BackPair
<1>5. p.choose \in Pairs \cup {None} /\ p.cands \in SUBSET Pairs
  BY <1>3 DEF Peers
<1>6. p = [peer[s] EXCEPT !.cands = WithCand(s, @, d.pair)]
  BY <1>1, <1>3
<1> DEFINE ok == d.choose # None /\ d.choose = p.choose
           U == Usable(d.cands, p.cands)
           k == IF d.choose = None THEN p.choose ELSE d.choose
<1>7. \/ /\ ok /\ Put(s, Chosen(p))
         /\ net' \in Surviving(
              IF s = "proxy" THEN {Shake("requestor", back, p.choose, p.cands)}
              ELSE {Ping("proxy", Via(s, p, p.choose))})
      \/ /\ s = "requestor" /\ Put(s, [p EXCEPT !.choose = d.choose])
         /\ net' \in Surviving({Shake("proxy", back, Least(U), U)})
      \/ /\ s = "proxy" /\ Put(s, [p EXCEPT !.choose = k])
         /\ net' \in Surviving({Shake("requestor", back, k, p.cands)})
  BY <1>4, <1>6 DEF HandleShake, Sides
<1>8. ASSUME NEW q \in Good, Put(s, q), q.cands = p.cands,
             q.sock = p.sock, q.disc = p.disc, q.raddr = p.raddr,
             q.choose \in {p.choose, d.choose}, q.pair \in {p.pair, p.choose},
             NEW e \in Grams, net' \in Surviving({e})
      PROVE  /\ Typed' /\ Grows /\ ProcsOK' /\ SocksOK' /\ Later /\ Told(s)
             /\ Keeps(s, q) /\ Holds(s, q)
             /\ \A c \in p.cands : Half(s, c)'
             /\ Agreed(q.choose)' /\ Agreed(q.pair)' /\ Agreed(p.choose)'
  <2>1. q.cands = WithCand(s, o.cands, d.pair) /\ q.sock = o.sock /\ q.disc = o.disc
    BY <1>3, <1>8
  <2>2. q.raddr = o.raddr /\ q.choose \in {o.choose, d.choose} /\ q.pair \in {o.pair, o.choose}
    BY <1>3, <1>8
  <2>3. /\ Typed' /\ Grows /\ ProcsOK' /\ SocksOK' /\ Later /\ Told(s)
        /\ Keeps(s, q) /\ Holds(s, q)
        /\ \A c \in q.cands : Half(s, c)'
        /\ Agreed(q.choose)' /\ Agreed(q.pair)' /\ Agreed(o.choose)'
    BY <1>1, <1>2, <1>8, <2>1, <2>2, Adopts
  <2> QED BY <1>3, <1>8, <2>3
<1>9. ASSUME NEW q \in Good, Put(s, q), q.cands = p.cands,
             q.sock = p.sock, q.disc = p.disc, q.raddr = p.raddr,
             q.choose \in {p.choose, d.choose}, q.pair \in {p.pair, p.choose},
             NEW e \in Grams, net' \in Surviving({e}), GramHas(e)'
      PROVE  Typed' /\ Heard'
  BY <1>8, <1>9, OneSent, StepKept
<1> HIDE DEF k, U
<1>10. CASE /\ ok /\ Put(s, Chosen(p))
            /\ net' \in Surviving(
                 IF s = "proxy" THEN {Shake("requestor", back, p.choose, p.cands)}
                 ELSE {Ping("proxy", Via(s, p, p.choose))})
  <2>1. PICK q \in Good :
          /\ q = Chosen(p) /\ q.cands = p.cands /\ q.choose = p.choose /\ q.pair = p.choose
          /\ q.sock = p.sock /\ q.disc = p.disc /\ q.raddr = p.raddr
    BY <1>10, ChosenGood
  <2>2. CASE s = "proxy"
    <3>1. PICK e \in Grams : /\ e = Shake("requestor", back, p.choose, p.cands)
                             /\ e.to = "requestor" /\ e.type = "shake" /\ e.pair = back
                             /\ e.choose = p.choose /\ e.cands = p.cands
      BY <1>5, ShakeTyped DEF Sides
    <3>2. net' \in Surviving({e}) /\ Put(s, q)
      BY <1>10, <2>1, <2>2, <3>1
    <3>3. Agreed(p.choose)' /\ \A c \in p.cands : Half("proxy", c)'
      BY <1>8, <2>1, <2>2, <3>2
    <3>4. GramHas(e)'
      BY <1>4, <3>1, <3>3 DEF GramHas
    <3> QED BY <1>9, <2>1, <3>2, <3>4
  <2>3. CASE s = "requestor"
    <3> DEFINE v == Via(s, p, p.choose)
    <3>1. p.choose \in Pairs /\ p.sock # 0 /\ p.sock <= opened[s]
      BY <1>1, <1>3, <1>5, <1>10 DEF Ready
    <3>2. v \in Pairs /\ v[s] = p.sock /\ v[Other(s)] = p.choose[Other(s)]
      BY <1>3, <3>1, ViaPair
    <3>3. p.choose[Other(s)] <= opened[Other(s)]
      BY <1>1, <1>3, <3>1, AgreedUsed, OtherSide
    <3> HIDE DEF v
    <3>4. Used(v)'
      BY <1>2, <3>1, <3>2, <3>3, OtherSide DEF Used
    <3>5. PICK e \in Grams : e = Ping("proxy", v) /\ e.type = "ping" /\ e.pair = v
      BY <3>2, BeatTyped DEF Sides
    <3>6. net' \in Surviving({e}) /\ Put(s, q)
      BY <1>10, <2>1, <2>3, <3>5 DEF v
    <3>7. GramHas(e)'
      BY <3>4, <3>5 DEF GramHas
    <3> QED BY <1>9, <2>1, <3>6, <3>7
  <2> QED BY <2>2, <2>3 DEF Sides
<1>11. CASE /\ s = "requestor" /\ Put(s, [p EXCEPT !.choose = d.choose])
            /\ net' \in Surviving({Shake("proxy", back, Least(U), U)})
  <2>1. PICK q \in Good :
          /\ q = [p EXCEPT !.choose = d.choose] /\ q.cands = p.cands /\ q.choose = d.choose
          /\ q.pair = p.pair /\ q.sock = p.sock /\ q.disc = p.disc /\ q.raddr = p.raddr
    BY <1>2, ChoiceGood
  <2>2. U \in SUBSET Pairs /\ Least(U) \in Pairs \cup {None}
    <3>1. U \in SUBSET Pairs
      BY <1>2 DEF U, Usable
    <3> QED BY <3>1, LeastChosen
  <2>3. PICK e \in Grams : /\ e = Shake("proxy", back, Least(U), U)
                           /\ e.to = "proxy" /\ e.type = "shake" /\ e.pair = back
                           /\ e.choose = Least(U) /\ e.cands = U
    BY <2>2, ShakeTyped DEF Sides
  <2>4. net' \in Surviving({e}) /\ Put(s, q)
    BY <1>11, <2>1, <2>3
  <2>5. Grows /\ Typed' /\ \A c \in p.cands : Half("requestor", c)'
    BY <1>8, <1>11, <2>1, <2>4
  <2>6. \A c \in d.cands : Half("proxy", c)'
    BY <1>2, <2>5, HalfStays DEF GramHas, Sides
  <2>7. HeardOf(d.cands, p.cands)'
    BY <2>5, <2>6 DEF HeardOf
  <2>8. Settled(d.cands, p.cands)'
    BY <1>2, <1>5, <2>7, UsableLater
  <2>9. Agreed(Least(U))' /\ \A c \in U : Half("proxy", c)' /\ Half("requestor", c)'
    BY <2>8 DEF Settled, U
  <2>10. GramHas(e)'
    BY <1>4, <2>3, <2>9 DEF GramHas
  <2> QED BY <1>9, <2>1, <2>4, <2>10
<1>12. CASE /\ s = "proxy" /\ Put(s, [p EXCEPT !.choose = k])
            /\ net' \in Surviving({Shake("requestor", back, k, p.cands)})
  <2>1. k \in Pairs \cup {None} /\ k \in {p.choose, d.choose}
    BY <1>2, <1>5 DEF k
  <2>2. PICK q \in Good :
          /\ q = [p EXCEPT !.choose = k] /\ q.cands = p.cands /\ q.choose = k
          /\ q.pair = p.pair /\ q.sock = p.sock /\ q.disc = p.disc /\ q.raddr = p.raddr
    BY <2>1, ChoiceGood
  <2>3. PICK e \in Grams : /\ e = Shake("requestor", back, k, p.cands)
                           /\ e.to = "requestor" /\ e.type = "shake" /\ e.pair = back
                           /\ e.choose = k /\ e.cands = p.cands
    BY <1>5, <2>1, ShakeTyped DEF Sides
  <2>4. net' \in Surviving({e}) /\ Put(s, q)
    BY <1>12, <2>2, <2>3
  <2>5. Agreed(q.choose)' /\ \A c \in p.cands : Half("proxy", c)'
    BY <1>8, <1>12, <2>1, <2>2, <2>4
  <2>6. GramHas(e)'
    BY <1>4, <2>2, <2>3, <2>5 DEF GramHas
  <2> QED BY <1>9, <2>1, <2>2, <2>4, <2>6
<1> QED BY <1>7, <1>10, <1>11, <1>12

-----------------------------------------------------------------------------
(***************************************************************************)
(* The invariant and the properties.                                       *)
(***************************************************************************)

\* The inductive invariant.
IInv == Typed /\ Heard

\* It holds initially: nobody knows anything.
LEMMA Start ==
  ASSUME Init PROVE Typed /\ Heard
<1>1. ProcsOK /\ SocksOK
  BY HandshakeAssumption DEF Init, ProcsOK, SocksOK, Socks, Sides
<1>2. PeersOK
  BY NoPeerGood DEF Init, PeersOK
<1>3. TcpOK
  BY EmptySeq DEF Init, TcpOK
<1>4. NetOK
  BY FS_EmptySet, HandshakeAssumption DEF Init, NetOK
<1>5. ASSUME NEW s \in Sides PROVE PeerHas(s)
  <2>1. peer[s] = NoPeer /\ opened[s] = 0 /\ opened[Other(s)] = 0
    BY OtherSide DEF Init
  <2>2. /\ NoPeer.cands = {} /\ NoPeer.choose = None /\ NoPeer.pair = None
        /\ NoPeer.raddr = 0 /\ NoPeer.sock = 0 /\ NoPeer.disc = 0
    BY DEF NoPeer
  <2> QED BY <2>1, <2>2 DEF PeerHas, Agreed
<1>6. TcpHas
  BY DEF Init, TcpHas
<1> QED BY <1>1, <1>2, <1>3, <1>4, <1>5, <1>6 DEF Typed, Heard, Init

\* A step that leaves everything unchanged.
LEMMA Stutter ==
  ASSUME Typed, Heard, UNCHANGED vars PROVE Typed' /\ Heard'
<1>1. "proxy" \in Sides /\ UNCHANGED <<proc, opened, open, peer, orphan, tcp, net>>
  BY DEF Sides, vars
<1>2. ProcsOK' /\ SocksOK' /\ Told("proxy") /\ Sent
  BY <1>1, OthersStay DEF Told, Sent
<1> QED BY <1>1, <1>2, StillKept

\* Every step keeps it: one case for each action.
LEMMA Step ==
  ASSUME Typed, Heard, [Next]_vars PROVE Typed' /\ Heard'
<1>1. CASE RequestP2p \/ Quit \/ ClientQuit \/ Rejoin \/ Lose
  BY <1>1, DoesRequestP2p, DoesDown, DoesClientQuit, DoesRejoin, DoesLose DEF Quit, Sides
<1>2. ASSUME NEW s \in Sides,
             \/ StartReq(s) \/ Messages(s) \/ Receive(s) \/ Ticks(s) \/ Age(s)
             \/ SendIkcp(s) \/ DoDying(s) \/ Remove(s) \/ DiscoveryPanics(s)
      PROVE  Typed' /\ Heard'
  <2>1. CASE StartReq(s)
    BY <2>1, DoesStartReq
  <2>2. CASE Messages(s)
    BY <2>2, DoesAddrReq, DoesAddrResp, DoesDoShake, DoesDropped DEF Messages
  <2>3. CASE Receive(s)
    BY <2>3, DoesHandleShake, DoesHandlePing, DoesHandlePong DEF Receive
  <2>4. CASE Ticks(s) \/ Age(s)
    BY <2>4, DoesTickShaking, DoesTickOk, DoesAge DEF Ticks
  <2>5. CASE SendIkcp(s)
    BY <2>5, DoesSendIkcp
  <2>6. CASE DoDying(s) \/ Remove(s) \/ DiscoveryPanics(s)
    BY <2>6, DoesDoDying, DoesRemove, DoesDown DEF DiscoveryPanics
  <2> QED BY <1>2, <2>1, <2>2, <2>3, <2>4, <2>5, <2>6
<1> QED BY <1>1, <1>2, Stutter DEF Next

\* In every behaviour of the handshake, of a client and a requestor that come
\* and go, over a network that loses, repeats, delays and reorders, and for any
\* addresses, paths, NATs and numbers of sockets and datagrams, everything the
\* two sides know of each other is true (p2pclient.go).
THEOREM Invariance == Spec => []IInv
<1>1. Init => IInv
  BY Start DEF IInv
<1>2. IInv /\ [Next]_vars => IInv'
  BY Step DEF IInv
<1> QED BY <1>1, <1>2, PTL DEF Spec

\* TypeOK is a part of it.
LEMMA TypedIsTypeOK ==
  ASSUME Typed PROVE TypeOK
<1>1. ASSUME NEW s \in Sides
      PROVE  LET p == peer[s] IN
             /\ p.life \in {"none", "up", "killed", "over"}
             /\ p.state \in {"begin", "shaking", "ok"}
             /\ {p.sock, p.disc, p.raddr} \subseteq Socks
             /\ {p.loc, p.rem} \subseteq BOOLEAN /\ p.role \in {"MASTER", "SLAVE"}
             /\ p.cands \subseteq Pairs
             /\ {p.choose, p.pair} \subseteq Pairs \cup {None}
             /\ p.state = "ok" => p.pair # None /\ p.count = 0
             /\ p.age \in {"fresh", "timeout", "close"}
  <2>1. PICK p \in Peers : p = peer[s] /\ Ready(p)
    BY DEF Typed, PeersOK, Good
  <2>2. p.life \in {"none", "up", "killed", "over"} /\ p.state \in {"begin", "shaking", "ok"}
    BY DEF Peers
  <2>3. {p.sock, p.disc, p.raddr} \subseteq Socks
    BY DEF Peers
  <2>4. p.loc \in BOOLEAN /\ p.rem \in BOOLEAN /\ p.role \in {"MASTER", "SLAVE"}
    BY DEF Peers
  <2>5. p.cands \subseteq Pairs /\ p.choose \in Pairs \cup {None} /\ p.pair \in Pairs \cup {None}
    BY DEF Peers
  <2>6. p.age \in {"fresh", "timeout", "close"}
    BY DEF Peers
  <2> QED BY <2>1, <2>2, <2>3, <2>4, <2>5, <2>6 DEF Ready
<1> QED BY <1>1 DEF TypeOK, Typed, ProcsOK, SocksOK, NetOK

\* Every variable keeps its type, a P2pClient that is P2pOk has a pair, and its
\* shakeCount is zero (p2pclient.go: onChooseOk).
THEOREM TypesHold == Spec => []TypeOK
<1>1. IInv => TypeOK
  BY TypedIsTypeOK DEF IInv
<1> QED BY <1>1, Invariance, PTL

\* The pair of a side that is P2pOk is one both sides agreed to.
LEMMA PairIsAgreed ==
  ASSUME Typed, Heard, NEW s \in Sides, peer[s].state = "ok"
  PROVE  \E v \in Pairs : v = peer[s].pair /\ Half(s, v) /\ Half(Other(s), v)
<1>1. PICK p \in Good : p = peer[s] /\ Ready(p) /\ p \in Peers /\ Agreed(p.pair)
  BY OnePeer
<1>2. p.pair \in Pairs /\ p.pair # None
  BY <1>1 DEF Ready, Peers
<1>3. Half("proxy", p.pair) /\ Half("requestor", p.pair)
  BY <1>1, <1>2 DEF Agreed
<1> QED BY <1>1, <1>2, <1>3, OtherSide DEF Sides

\* A side that is P2pOk has a pair whose path leads to both sides, whatever was
\* lost, repeated or late, and however often the choice changed
\* (handleShakeingMsg).
THEOREM OkPathsWork == Spec => []OkOnWorkingPath
<1>1. IInv => OkOnWorkingPath
  <2> SUFFICES ASSUME Typed, Heard, NEW s \in Sides, peer[s].state = "ok"
               PROVE  peer[s].pair.path \in Works["proxy"] \cap Works["requestor"]
    BY DEF IInv, OkOnWorkingPath
  <2>1. PICK v \in Pairs : v = peer[s].pair /\ Half(s, v) /\ Half(Other(s), v)
    BY PairIsAgreed
  <2> QED BY <2>1 DEF Half, Sides, Other
<1> QED BY <1>1, Invariance, PTL

\* A side that is P2pOk on its peer's present socket has a peer that has heard
\* datagrams at the address the pair has of it, although neither is told when
\* the other becomes P2pOk, forgets candidates or begins anew
\* (handleShakeingMsg, RunCFor).
THEOREM BothHaveHeard == Spec => []HeardByBoth
<1>1. IInv => HeardByBoth
  <2> SUFFICES ASSUME Typed, Heard, NEW s \in Sides, peer[s].state = "ok",
                      peer[s].pair[Other(s)] = peer[Other(s)].sock
               PROVE  \E c \in peer[Other(s)].cands :
                         Own(Other(s), c) = Own(Other(s), peer[s].pair)
    BY DEF IInv, HeardByBoth
  <2>1. PICK v \in Pairs : v = peer[s].pair /\ Half(s, v) /\ Half(Other(s), v)
    BY PairIsAgreed
  <2> QED BY <2>1 DEF Half, Seen
<1> QED BY <1>1, Invariance, PTL
=============================================================================
