---------------------------- MODULE ServerProofs ----------------------------
(***************************************************************************)
(* The registry invariants of Server, for every set of connections, names, *)
(* passwords and ids, every capacity and every number of messages.         *)
(*                                                                         *)
(* RegistryConsistent is not inductive as it stands: Close(c) of an        *)
(* endpoint that is told to wait (notify) closes c's channel later, so the *)
(* invariant must remember that c has already left the registry, and that  *)
(* a listener has the id 0 before it is registered.                        *)
(***************************************************************************)
EXTENDS Server, TLAPS

ListenerIsZero ==
  \A c \in Conns : req[c].kind = "listen" => clientId[c] = 0

NoticeAfterLeaving ==
  srv.at = "notify" =>
    /\ pc[srv.who] = "closing"
    /\ \A n \in Names, i \in Slots : endpoints[n][i] # srv.who

IInv ==
  /\ TypeOK
  /\ RegistryConsistent
  /\ SpaceHasHead
  /\ SendsToOpen
  /\ ListenerIsZero
  /\ NoticeAfterLeaving
-----------------------------------------------------------------------------
\* The initial state, in which nothing is registered, has every type.
LEMMA InitTypeOK == Init => TypeOK
  BY ServerAssumption
  DEF Init, TypeOK, Slots, Readers, PCs

\* A message finds an endpoint or none: the registry holds nothing else.
LEMMA AddresseeType ==
  ASSUME TypeOK, NEW m \in Messages
  PROVE  Addressee(m) \in Conns \union {NoConn}
<1>1. CASE m \in [type : {"TcpPing"}, from : Conns]
  BY <1>1 DEF Addressee
<1>2. CASE m \in [type : {"UdpPing"}, name : Names, id : Slots]
  BY <1>2 DEF Addressee, TypeOK
<1>3. CASE m \in [type : {"Addr"}, from : Conns, to : Slots]
  <2>1. Space(m.from) \in Names /\ m.to \in Slots
    BY <1>3 DEF TypeOK, Space, Requests
  <2> QED
    BY <1>3, <2>1 DEF Addressee, TypeOK
<1> QED
  BY <1>1, <1>2, <1>3 DEF Messages

\* Every step keeps every type: one case per action of Next.
LEMMA NextTypeOK == TypeOK /\ [Next]_vars => TypeOK'
<1> SUFFICES ASSUME TypeOK, [Next]_vars PROVE TypeOK'
  OBVIOUS
<1> USE ServerAssumption
<1>1. ASSUME NEW c \in Conns, RegistListener(c) PROVE TypeOK'
  <2>1. Space(c) \in Names /\ req[c].pass \in Passes
    BY DEF TypeOK, Requests, Space
  <2>2. pass' \in [Names -> Passes \union {NoPass}]
    BY <1>1, <2>1 DEF TypeOK, RegistListener, Refuse, registry
  <2>3. endpoints' \in [Names -> [Slots -> Conns \union {NoConn}]]
    <3>1. \/ endpoints' = endpoints
          \/ endpoints' = [endpoints EXCEPT ![Space(c)] =
                             [i \in Slots |-> IF i = 0 THEN c ELSE NoConn]]
      BY <1>1 DEF RegistListener, Refuse, registry
    <3>2. endpoints \in [Names -> [Slots -> Conns \union {NoConn}]] /\ Space(c) \in Names
      BY <2>1 DEF TypeOK
    <3>3. [i \in Slots |-> IF i = 0 THEN c ELSE NoConn] \in [Slots -> Conns \union {NoConn}]
      OBVIOUS
    <3> QED BY <3>1, <3>2, <3>3
  <2>4. pc' \in [Conns -> PCs] /\ UNCHANGED <<clientId, req, dying, writer, reader, in, srv, msgs>>
    BY <1>1 DEF TypeOK, RegistListener, Refuse, PCs
  <2> QED
    BY <2>2, <2>3, <2>4 DEF TypeOK, PCs
<1>2. ASSUME NEW c \in Conns, RegistRequestor(c) PROVE TypeOK'
  <2>1. Space(c) \in Names /\ Unique(Space(c)) \subseteq Slots
    BY DEF TypeOK, Requests, Space, Unique, Slots
  <2>2. endpoints' \in [Names -> [Slots -> Conns \union {NoConn}]]
    <3>1. \/ endpoints' = endpoints
          \/ \E id \in Slots : endpoints' = [endpoints EXCEPT ![Space(c)][id] = c]
      BY <1>2, <2>1 DEF RegistRequestor, Refuse, registry
    <3>2. endpoints \in [Names -> [Slots -> Conns \union {NoConn}]] /\ Space(c) \in Names
      BY <2>1 DEF TypeOK
    <3> QED BY <3>1, <3>2
  <2>3. clientId' \in [Conns -> Slots \union {-1}]
    BY <1>2, <2>1 DEF TypeOK, RegistRequestor, Refuse
  <2>4. pc' \in [Conns -> PCs] /\ UNCHANGED <<pass, req, dying, writer, reader, in, srv, msgs>>
    BY <1>2 DEF TypeOK, RegistRequestor, Refuse, PCs, registry
  <2> QED
    BY <2>2, <2>3, <2>4 DEF TypeOK, PCs
<1>3. ASSUME NEW c \in Conns, Handler(c) PROVE TypeOK'
  <2>1. Idle("reading") \in Readers
    BY DEF Readers
  <2>2. CASE StartLoops(c)
    BY <2>1, <2>2 DEF TypeOK, StartLoops, registry, PCs
  <2>3. CASE SendRegResp(c) \/ RunSReturns(c)
    BY <2>3 DEF TypeOK, SendRegResp, RunSReturns, registry, PCs
  <2> QED
    BY <1>3, <2>2, <2>3 DEF Handler
<1>4. ASSUME NEW c \in Conns, Writer(c) PROVE TypeOK'
  BY <1>4 DEF TypeOK, Writer, WriteOk, WriteFails, WriterSeesDying, registry, handler
<1>5. ASSUME NEW c \in Conns, Reader(c) PROVE TypeOK'
  <2>1. Idle("reading") \in Readers /\ Idle("done") \in Readers
    BY DEF Readers
  <2>2. CASE Read(c)
    <3>1. PICK m \in Messages : reader' = [reader EXCEPT ![c] = [at |-> "push", msg |-> m]]
      BY <2>2 DEF Read, Messages
    <3>2. [at |-> "push", msg |-> m] \in Readers
      BY DEF Readers
    <3> QED
      BY <2>2, <3>1, <3>2 DEF TypeOK, Read, registry, handler
  <2>3. CASE Push(c)
    <3>1. reader[c].msg \in Messages
      BY <2>3 DEF Push, TypeOK, Readers, Idle
    <3>2. in' \in Seq(Messages) /\ Len(in') <= InCap
      BY <2>3, <3>1 DEF Push, TypeOK
    <3> QED
      BY <2>1, <2>3, <3>2 DEF TypeOK, Push, registry, handler
  <2>4. CASE ReadFails(c) \/ ReaderSeesDying(c)
    BY <2>1, <2>4 DEF TypeOK, ReadFails, ReaderSeesDying, registry, handler
  <2> QED
    BY <1>5, <2>2, <2>3, <2>4 DEF Reader
<1>6. CASE UdpArrives
  BY <1>6 DEF TypeOK, UdpArrives, registry, handler, Messages
<1>7. CASE TakeMsg
  <2>1. Head(in) \in Messages /\ in' \in Seq(Messages) /\ Len(in') <= InCap
    BY <1>7 DEF TakeMsg, TypeOK
  <2>2. Addressee(Head(in)) \in Conns \union {NoConn}
    BY <2>1, AddresseeType
  <2>3. srv' \in {Select} \union Sends
    BY <1>7, <2>2 DEF TakeMsg, Sends
  <2> QED
    BY <1>7, <2>1, <2>3 DEF TypeOK, TakeMsg, registry, handler
<1>8. CASE Sending
  <2>1. CASE SendDone \/ SendGivesUp \/ SendPanics
    BY <2>1 DEF TypeOK, SendDone, SendGivesUp, SendPanics, registry, handler
  <2>2. CASE NotifyDone
    BY <2>2 DEF TypeOK, NotifyDone, CloseOut, registry, PCs
  <2> QED
    BY <1>8, <2>1, <2>2 DEF Sending
<1>9. ASSUME NEW c \in Conns, CloseSpace(c) PROVE TypeOK'
  <2>1. Space(c) \in Names
    BY DEF TypeOK, Requests, Space
  <2>2. endpoints' \in [Names -> [Slots -> Conns \union {NoConn}]]
    BY <1>9, <2>1 DEF TypeOK, CloseSpace
  <2>3. dying' \in SUBSET Conns
    BY <1>9, <2>1 DEF TypeOK, CloseSpace
  <2>4. pass' \in [Names -> Passes \union {NoPass}]
    BY <1>9, <2>1 DEF TypeOK, CloseSpace
  <2>5. pc' \in [Conns -> PCs] /\ UNCHANGED <<req, clientId, writer, reader, in, srv, msgs>>
    BY <1>9 DEF TypeOK, CloseSpace, CloseOut, PCs
  <2> QED
    BY <2>2, <2>3, <2>4, <2>5 DEF TypeOK, PCs
<1>10. ASSUME NEW c \in Conns, CloseRequestor(c) PROVE TypeOK'
  <2>1. Space(c) \in Names
    BY DEF TypeOK, Requests, Space
  <2>2. endpoints' \in [Names -> [Slots -> Conns \union {NoConn}]]
    BY <1>10, <2>1 DEF TypeOK, CloseRequestor, LeaveSlot
  <2>3. endpoints[Space(c)][0] \in Conns \union {NoConn}
    BY <2>1 DEF TypeOK, Slots
  <2>4. srv' \in {Select, Crashed} \union Sends \union Notices
    BY <1>10, <2>3 DEF TypeOK, CloseRequestor, TellHead, Notices
  <2>5. pc' \in [Conns -> PCs] /\ UNCHANGED <<pass, req, clientId, dying, writer, reader, in, msgs>>
    BY <1>10 DEF TypeOK, CloseRequestor, CloseOut, TellHead, PCs
  <2> QED
    BY <2>2, <2>4, <2>5 DEF TypeOK, PCs
<1>11. CASE UNCHANGED vars
  BY <1>11 DEF TypeOK, vars, registry, handler
<1> QED
  BY <1>1, <1>2, <1>3, <1>4, <1>5, <1>6, <1>7, <1>8, <1>9, <1>10, <1>11
  DEF Next, Regist, Close

\* Every reachable state has the types that server.go declares.
THEOREM TypeCorrect == Spec => []TypeOK
  BY InitTypeOK, NextTypeOK, PTL DEF Spec
-----------------------------------------------------------------------------
\* Nothing is registered, nothing is being sent.
LEMMA InitIInv == Init => IInv
<1> SUFFICES ASSUME Init PROVE IInv
  OBVIOUS
<1>1. TypeOK
  BY InitTypeOK
<1>2. RegistryConsistent /\ SpaceHasHead
  BY DEF Init, RegistryConsistent, SpaceHasHead, Slots
<1>3. SendsToOpen /\ NoticeAfterLeaving /\ ListenerIsZero
  BY DEF Init, SendsToOpen, NoticeAfterLeaving, ListenerIsZero, Select
<1> QED
  BY <1>1, <1>2, <1>3 DEF IInv

\* Steps of the goroutines of one connection do not touch the registry, and
\* leave no listed endpoint closed.
LEMMA GoroutinesKeepIInv ==
  ASSUME IInv, TypeOK', NEW c \in Conns,
         Handler(c) \/ Writer(c) \/ Reader(c)
  PROVE  IInv'
<1> USE DEF IInv
<1>1. UNCHANGED <<pass, endpoints, req, clientId, srv>>
  BY DEF Handler, Writer, Reader, StartLoops, SendRegResp, RunSReturns, WriteOk, WriteFails,
         WriterSeesDying, Read, ReadFails, Push, ReaderSeesDying, registry, handler
<1>2. \A d \in Conns :
        /\ pc[d] \in {"registered", "init", "run", "closing"}
             => pc'[d] \in {"registered", "init", "run", "closing"}
        /\ pc[d] = "closing" => pc'[d] = "closing"
        /\ pc[d] # "closed" => pc'[d] # "closed"
  BY DEF TypeOK, Handler, Writer, Reader, StartLoops, SendRegResp, RunSReturns, WriteOk,
         WriteFails, WriterSeesDying, Read, ReadFails, Push, ReaderSeesDying, handler
<1>3. RegistryConsistent' /\ SpaceHasHead'
  BY <1>1, <1>2 DEF RegistryConsistent, Listed, SpaceHasHead, Space, TypeOK
<1>4. srv.at \in {"send", "notify"} => srv.to \in Conns
  BY DEF TypeOK, Sends, Notices, Select, Crashed
<1>5. srv.at = "notify" => srv.who \in Conns
  BY DEF TypeOK, Sends, Notices, Select, Crashed
<1>6. SendsToOpen' /\ NoticeAfterLeaving' /\ ListenerIsZero'
  BY <1>1, <1>2, <1>4, <1>5 DEF SendsToOpen, NoticeAfterLeaving, ListenerIsZero, OutOpen
<1> QED
  BY <1>3, <1>6

\* A registration lists only the endpoint that asked, under the id it is given.
LEMMA RegistKeepsIInv ==
  ASSUME IInv, TypeOK', NEW c \in Conns, Regist(c)
  PROVE  IInv'
<1> USE DEF IInv
<1>1. /\ srv = Select /\ srv' = Select /\ req' = req /\ pc[c] = "new"
      /\ \A d \in Conns \ {c} : pc'[d] = pc[d] /\ clientId'[d] = clientId[d]
  BY DEF Regist, RegistListener, RegistRequestor, Refuse, TypeOK
<1>2. Space(c) \in Names /\ req[c].pass # NoPass /\ req[c].pass \in Passes
  BY ServerAssumption DEF TypeOK, Requests, Space
<1>3. \A n \in Names, i \in Slots : endpoints[n][i] # c
  BY <1>1, ServerAssumption DEF RegistryConsistent, Listed
<1>4. CASE pc'[c] = "refused"
  <2>1. UNCHANGED <<pass, endpoints, clientId>>
    BY <1>4, <1>1 DEF Regist, RegistListener, RegistRequestor, Refuse, registry, TypeOK
  <2>2. RegistryConsistent' /\ SpaceHasHead'
    BY <1>1, <1>3, <2>1 DEF RegistryConsistent, Listed, SpaceHasHead, Space, TypeOK
  <2> QED
    BY <1>1, <2>1, <2>2 DEF SendsToOpen, NoticeAfterLeaving, ListenerIsZero, Select
<1>5. CASE pc'[c] # "refused" /\ RegistListener(c)
  <2>1. /\ pass[Space(c)] = NoPass
        /\ pass' = [pass EXCEPT ![Space(c)] = req[c].pass]
        /\ endpoints' = [endpoints EXCEPT ![Space(c)] =
                           [i \in Slots |-> IF i = 0 THEN c ELSE NoConn]]
        /\ pc'[c] = "registered" /\ clientId' = clientId
    BY <1>5, <1>1 DEF RegistListener, Refuse, TypeOK
  <2>2. clientId[c] = 0
    BY <1>5 DEF RegistListener, ListenerIsZero
  <2>3. ASSUME NEW n \in Names, NEW i \in Slots, endpoints'[n][i] # NoConn
        PROVE  Listed(n, i, endpoints[n][i])' 
    <3>1. CASE n = Space(c)
      BY <3>1, <1>1, <1>2, <2>1, <2>2, <2>3 DEF Listed, TypeOK, Space
    <3>2. CASE n # Space(c)
      BY <3>2, <1>1, <1>2, <1>3, <2>1, <2>3 DEF Listed, TypeOK, Space, RegistryConsistent
    <3> QED
      BY <3>1, <3>2
  <2>4. SpaceHasHead'
    BY <1>2, <2>1, ServerAssumption DEF SpaceHasHead, Slots, TypeOK
  <2> QED
    BY <1>1, <2>1, <2>3, <2>4
    DEF RegistryConsistent, SendsToOpen, NoticeAfterLeaving, ListenerIsZero, Select
<1>6. CASE pc'[c] # "refused" /\ RegistRequestor(c)
  <2>1. PICK id \in Slots :
          /\ pass[Space(c)] = req[c].pass /\ pass' = pass
          /\ clientId' = [clientId EXCEPT ![c] = id]
          /\ endpoints' = [endpoints EXCEPT ![Space(c)][id] = c]
          /\ pc'[c] = "registered"
    BY <1>6, <1>1 DEF RegistRequestor, Refuse, Unique, Slots, TypeOK
  <2>2. req[c].kind # "listen"
    BY <1>6 DEF RegistRequestor
  <2>3. ASSUME NEW n \in Names, NEW i \in Slots, endpoints'[n][i] # NoConn
        PROVE  Listed(n, i, endpoints[n][i])'
    <3>1. CASE n = Space(c) /\ i = id
      BY <3>1, <1>1, <1>2, <2>1 DEF Listed, TypeOK, Space
    <3>2. CASE ~(n = Space(c) /\ i = id)
      <4>1. endpoints'[n][i] = endpoints[n][i]
        BY <3>2, <2>1 DEF TypeOK
      <4>2. PICK d \in Conns : d = endpoints[n][i]
        BY <4>1, <2>3 DEF TypeOK
      <4>3. Listed(n, i, d) /\ d # c
        BY <1>1, <2>3, <4>1, <4>2 DEF RegistryConsistent, Listed
      <4>4. pc'[d] = pc[d] /\ clientId'[d] = clientId[d] /\ req' = req /\ pass' = pass
        BY <1>1, <2>1, <4>3
      <4> QED BY <4>1, <4>2, <4>3, <4>4 DEF Listed, Space
    <3> QED
      BY <3>1, <3>2
  <2>4. SpaceHasHead'
    BY <1>2, <2>1, ServerAssumption DEF SpaceHasHead, Slots, TypeOK
  <2> QED
    BY <1>1, <2>1, <2>2, <2>3, <2>4
    DEF RegistryConsistent, SendsToOpen, NoticeAfterLeaving, ListenerIsZero, Select, TypeOK
<1> QED
  BY <1>4, <1>5, <1>6 DEF Regist

\* The loop takes a message or ends a send: what it finds in the registry is open.
LEMMA LoopKeepsIInv ==
  ASSUME IInv, TypeOK', UdpArrives \/ TakeMsg \/ Sending
  PROVE  IInv'
<1> USE DEF IInv
<1>1. UNCHANGED <<pass, endpoints, req, clientId>>
  BY DEF UdpArrives, TakeMsg, Sending, SendDone, SendGivesUp, SendPanics, NotifyDone,
         registry, handler
<1>2. CASE UNCHANGED <<pc, srv>>
  BY <1>1, <1>2 DEF RegistryConsistent, Listed, SpaceHasHead, Space, SendsToOpen, OutOpen,
                    NoticeAfterLeaving, ListenerIsZero
<1>3. CASE pc' = pc /\ srv' \in {Select, Crashed}
  BY <1>1, <1>3 DEF RegistryConsistent, Listed, SpaceHasHead, Space, SendsToOpen, OutOpen,
                    NoticeAfterLeaving, ListenerIsZero, Select, Crashed
<1>4. CASE TakeMsg /\ srv' # Select
  <2> DEFINE m == Head(in)
             e == Addressee(m)
  <2>1. /\ pc' = pc /\ m \in Messages /\ e # NoConn
        /\ srv' = [at |-> "send", to |-> e,
                   via |-> IF m.type = "TcpPing" THEN "sender" ELSE "registry"]
    BY <1>4 DEF TakeMsg, TypeOK, handler
  <2>2. srv'.via = "registry" => \E n \in Names, i \in Slots : e = endpoints[n][i]
    <3>1. ASSUME m.type = "UdpPing" PROVE e = endpoints[m.name][m.id] /\ m.name \in Names /\ m.id \in Slots
      BY <2>1, <3>1 DEF Addressee, Messages
    <3>2. ASSUME m.type = "Addr"
          PROVE  e = endpoints[Space(m.from)][m.to] /\ Space(m.from) \in Names /\ m.to \in Slots
      BY <2>1, <3>2 DEF Addressee, Messages, Space, Requests, TypeOK
    <3> QED
      BY <2>1, <3>1, <3>2 DEF Messages
  <2>3. srv'.via = "registry" => OutOpen(e)
    BY <2>1, <2>2 DEF RegistryConsistent, Listed, OutOpen
  <2>4. SendsToOpen' /\ NoticeAfterLeaving'
    BY <2>1, <2>3 DEF SendsToOpen, OutOpen, NoticeAfterLeaving
  <2> QED
    BY <1>1, <2>1, <2>4 DEF RegistryConsistent, Listed, SpaceHasHead, Space, ListenerIsZero
<1>5. CASE NotifyDone
  <2>1. /\ srv.who \in Conns /\ srv' = Select /\ pc' = [pc EXCEPT ![srv.who] = "closed"]
        /\ \A n \in Names, i \in Slots : endpoints[n][i] # srv.who
    BY <1>5 DEF NotifyDone, CloseOut, NoticeAfterLeaving, TypeOK, Sends, Notices, Select, Crashed
  <2>2. RegistryConsistent'
    BY <1>1, <2>1 DEF RegistryConsistent, Listed, Space, TypeOK
  <2> QED
    BY <1>1, <2>1, <2>2 DEF SpaceHasHead, SendsToOpen, NoticeAfterLeaving, ListenerIsZero, Select
<1> QED
  BY <1>2, <1>3, <1>4, <1>5
  DEF UdpArrives, TakeMsg, Sending, SendDone, SendGivesUp, SendPanics, handler

\* Entries that are only taken out stay consistent, and so does the registry
\* when an endpoint that is not in it is closed.
LEMMA Unlisted ==
  ASSUME TypeOK, RegistryConsistent, NEW c \in Conns,
         UNCHANGED <<pass, req, clientId>>,
         pc' = pc \/ pc' = [pc EXCEPT ![c] = "closed"],
         \A n \in Names, i \in Slots :
           endpoints'[n][i] \in {endpoints[n][i], NoConn} /\ endpoints'[n][i] # c
  PROVE  RegistryConsistent'
<1>1. ASSUME NEW n \in Names, NEW i \in Slots, endpoints'[n][i] # NoConn
      PROVE  Listed(n, i, endpoints[n][i])'
  <2>1. endpoints'[n][i] = endpoints[n][i] /\ endpoints[n][i] # c
    BY <1>1
  <2>2. endpoints[n][i] \in Conns /\ Listed(n, i, endpoints[n][i])
    BY <1>1, <2>1 DEF TypeOK, RegistryConsistent
  <2>3. pc'[endpoints[n][i]] = pc[endpoints[n][i]]
    BY <2>1, <2>2 DEF TypeOK
  <2> QED BY <2>1, <2>2, <2>3 DEF Listed, Space
<1> QED BY <1>1 DEF RegistryConsistent

\* Close takes the endpoint out of the registry before its channel is closed,
\* and nobody else's entry becomes inconsistent by it.
LEMMA CloseKeepsIInv ==
  ASSUME IInv, TypeOK', NEW c \in Conns, Close(c)
  PROVE  IInv'
<1> USE DEF IInv
<1>1. Space(c) \in Names /\ srv = Select /\ pc[c] = "closing"
  BY DEF Close, CloseSpace, CloseRequestor, Closing, TypeOK, Space, Requests
<1>2. \A n \in Names, i \in Slots : endpoints[n][i] = c => n = Space(c) /\ i = clientId[c]
  BY ServerAssumption DEF RegistryConsistent, Listed
<1>3. CASE CloseSpace(c)
  <2>1. /\ pass' = [pass EXCEPT ![Space(c)] = NoPass]
        /\ endpoints' = [endpoints EXCEPT ![Space(c)] = [i \in Slots |-> NoConn]]
        /\ pc' = [pc EXCEPT ![c] = "closed"]
        /\ UNCHANGED <<req, clientId, srv>>
    BY <1>3 DEF CloseSpace, CloseOut
  <2>2. RegistryConsistent'
    BY <1>1, <1>2, <2>1 DEF RegistryConsistent, Listed, Space, TypeOK
  <2>3. SpaceHasHead'
    BY <1>1, <2>1 DEF SpaceHasHead, Slots, TypeOK
  <2> QED
    BY <1>1, <2>1, <2>2, <2>3 DEF SendsToOpen, NoticeAfterLeaving, ListenerIsZero, Select
<1>4. CASE CloseRequestor(c)
  <2> DEFINE l == endpoints[Space(c)][0]
  <2>1. /\ endpoints' = [endpoints EXCEPT ![Space(c)][clientId[c]] = NoConn]
        /\ clientId[c] # 0
        /\ UNCHANGED <<pass, req, clientId>>
    BY <1>4 DEF CloseRequestor, NotHead, LeaveSlot
  <2>2. \A n \in Names, i \in Slots :
          /\ endpoints'[n][i] \in {endpoints[n][i], NoConn}
          /\ endpoints'[n][i] # c
    BY <1>1, <1>2, <2>1, ServerAssumption DEF TypeOK
  <2>3. SpaceHasHead'
    BY <1>1, <2>1 DEF SpaceHasHead, Slots, TypeOK
  <2>4. CASE l = NoConn
    <3>1. pc' = [pc EXCEPT ![c] = "closed"] /\ srv' = srv
      BY <1>4, <2>4 DEF CloseRequestor, CloseOut
    <3>2. RegistryConsistent'
      BY <2>1, <2>2, <3>1, Unlisted
    <3> QED
      BY <1>1, <2>1, <2>3, <3>1, <3>2
      DEF SendsToOpen, NoticeAfterLeaving, ListenerIsZero, Select
  <2>5. CASE l # NoConn
    <3>1. srv' = [at |-> "notify", to |-> l, who |-> c] /\ pc' = pc
      BY <1>4, <2>5 DEF CloseRequestor, TellHead
    <3>2. RegistryConsistent'
      BY <2>1, <2>2, <3>1, Unlisted
    <3>3. pc[l] # "closed"
      BY <1>1, <2>5 DEF RegistryConsistent, Listed, Slots
    <3>4. SendsToOpen' /\ NoticeAfterLeaving'
      BY <1>1, <2>2, <3>1, <3>3 DEF SendsToOpen, OutOpen, NoticeAfterLeaving
    <3> QED
      BY <2>1, <2>3, <3>2, <3>4 DEF ListenerIsZero
  <2> QED
    BY <2>4, <2>5
<1> QED
  BY <1>3, <1>4 DEF Close

\* The strengthened invariant is inductive.
LEMMA NextIInv == IInv /\ [Next]_vars => IInv'
<1> SUFFICES ASSUME IInv, [Next]_vars PROVE IInv'
  OBVIOUS
<1>1. TypeOK'
  BY NextTypeOK DEF IInv
<1>2. CASE UNCHANGED vars
  BY <1>1, <1>2
  DEF IInv, vars, registry, handler, RegistryConsistent, Listed, Space, SpaceHasHead,
      SendsToOpen, OutOpen, ListenerIsZero, NoticeAfterLeaving
<1> QED
  BY <1>1, <1>2, GoroutinesKeepIInv, RegistKeepsIInv, LoopKeepsIInv, CloseKeepsIInv DEF Next

\* In every reachable state the registry lists only open endpoints, each under
\* its own name, password and id (registSpace and Endpoint.Close).
THEOREM RegistryIsConsistent == Spec => []RegistryConsistent
<1>1. IInv => RegistryConsistent
  BY DEF IInv
<1> QED
  BY InitIInv, NextIInv, <1>1, PTL DEF Spec

\* A space exists exactly while its slot 0 is taken.
THEOREM SpacesHaveHeads == Spec => []SpaceHasHead
<1>1. IInv => SpaceHasHead
  BY DEF IInv
<1> QED
  BY InitIInv, NextIInv, <1>1, PTL DEF Spec

\* The loop never waits on a closed channel for an endpoint of the registry.
THEOREM RegistrySendsAreOpen == Spec => []SendsToOpen
<1>1. IInv => SendsToOpen
  BY DEF IInv
<1> QED
  BY InitIInv, NextIInv, <1>1, PTL DEF Spec

\* Nobody listed in a space survives its end.
THEOREM SpaceEndKills == Spec => SpaceEndKillsMembers
<1>1. ASSUME IInv, [Next]_vars PROVE MembersDie
  <2> USE DEF MembersDie
  <2>1. CASE pass' = pass
    BY <2>1
  <2>2. CASE \E c \in Conns : RegistListener(c)
    <3>1. PICK c \in Conns : RegistListener(c)
      BY <2>2
    <3>2. req[c].pass # NoPass
      BY <1>1, ServerAssumption DEF IInv, TypeOK, Requests
    <3> QED
      BY <1>1, <3>1, <3>2 DEF RegistListener, Refuse, registry, IInv, TypeOK
  <2>3. CASE \E c \in Conns : CloseSpace(c)
    BY <1>1, <2>3 DEF CloseSpace, IInv, TypeOK
  <2> QED
    BY <1>1, <2>1, <2>2, <2>3
    DEF Next, vars, registry, Regist, RegistRequestor, Refuse, Close, CloseRequestor,
        Handler, StartLoops, SendRegResp, RunSReturns, Writer, WriteOk, WriteFails,
        WriterSeesDying, Reader, Read, ReadFails, Push, ReaderSeesDying, UdpArrives,
        TakeMsg, Sending, SendDone, SendGivesUp, SendPanics, NotifyDone
<1>2. IInv /\ [Next]_vars => [MembersDie]_vars
  BY <1>1
<1> QED
  BY InitIInv, NextIInv, <1>2, PTL DEF Spec, SpaceEndKillsMembers
=============================================================================
