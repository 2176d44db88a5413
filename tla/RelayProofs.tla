---------------------------- MODULE RelayProofs ----------------------------
(***************************************************************************)
(* The invariants of Relay, for any clients, assists and addresses, any    *)
(* number of pings and any size of the numbers in headers.                 *)
(*                                                                         *)
(* IInv says of each goroutine that relays, of each client and of the      *)
(* assists what the properties need of it (RelaysGood, ClientsGood,        *)
(* AssistsGood).  OwnAnswer needs also to know of every number in a header *)
(* which ping it was cut from (AllGenuine): the hook of a goroutine that   *)
(* still waits is less than SeqSpace pings old (Numbers), so that a number *)
(* that equals its own was cut from no other ping.  On a client a number   *)
(* cannot come round like that: the header's 16 bits are looked up among   *)
(* numbers of 32, and no ping under way is younger than the client's last  *)
(* (OldPings).                                                             *)
(***************************************************************************)
EXTENDS Relay, TLAPS

Active(k) == relay[k].at \notin {"none", "done"}

\* Those whose timeout has not passed, or has no effect yet.
Waiting == {"add", "send", "wait", "del"}

RelayGood(k) ==
  LET r == relay[k] IN
  /\ k \in hooks => r.at \in {"send", "wait", "del", "drain"} /\ r.resp = Empty
  /\ r.at \in {"none", "add"} => r.resp = Empty
  /\ r.at \in {"send", "wait", "del"} => r.resp \in {Empty, Closed, k}
  /\ r.at = "forward" => r.resp = k
  /\ Active(k) => r.client \in Clients
  /\ r.at \in {"add", "send"} => r.assist \in Assists

RelaysGood ==
  /\ relay \in [Relays -> RelayRecs] /\ hooks \subseteq Relays
  /\ \A k \in Relays : RelayGood(k)

ClientGood(c) ==
  LET p == client[c] IN
  /\ p.hook => p.at \in {"wait", "del"} /\ p.resp = Empty
  /\ p.at = "add" => p.num < MaxAsks
  /\ p.at = "add" /\ p.phase = 2 => p.alter # NoAddress
  /\ p.resp > Empty => p.resp = p.num

ClientsGood ==
  /\ client \in [Clients -> ClientRecs]
  /\ \A c \in Clients : ClientGood(c)

AssistsGood ==
  /\ assists \in [Addresses -> Assists \cup {Nobody}]
  /\ assist \in [Assists -> AssistRecs]
  /\ \A a \in Assists : assist[a].state # "closed" => assist[a].open
  /\ ListedOpen

Numbers ==
  /\ seqMax \in Nat
  /\ \A k \in Relays : Active(k) => relay[k].seq \in 1..seqMax
  /\ \A j, k \in Relays :
       Active(j) /\ Active(k) /\ relay[j].seq = relay[k].seq => j = k
  /\ \A k \in Relays : relay[k].at \in Waiting => relay[k].seq + SeqSpace > seqMax

\* m carries the number b, cut, of a ping that is its own, if it is any's.
CutFrom(m, b) ==
  /\ m.seq = Hdr(b)
  /\ \A k \in Relays : Active(k) /\ relay[k].seq = b => k = m.id

Genuine(m) == \E b \in 1..seqMax : CutFrom(m, b)

AllGenuine ==
  /\ in \subseteq Messages
  /\ \A m \in in : m.type = "p2pTest" => Genuine(m)
  /\ \A a \in Assists : \A i \in 1..Len(assist[a].out) : Genuine(assist[a].out[i])

\* A ping under way is none that its client has yet to send.
OldPings ==
  /\ \A k \in Relays : Active(k) => relay[k].num <= client[relay[k].client].num
  /\ \A m \in in : m.type # "p2pTest" => m.num <= client[m.client].num

IInv ==
  /\ crashed \in BOOLEAN
  /\ RelaysGood /\ ClientsGood /\ AssistsGood
  /\ Numbers /\ AllGenuine /\ OldPings

-----------------------------------------------------------------------------
\* A number cut to a header's width is one of SeqSpace.
LEMMA CutType ==
  ASSUME NEW b \in Nat
  PROVE  Hdr(b) \in 0..(SeqSpace - 1)
<1>1. SeqSpace \in Nat \ {0}
  BY RelayAssumption
<1> QED
  BY <1>1 DEF Hdr

(***************************************************************************)
(* The goroutines.                                                         *)
(***************************************************************************)

\* What every step does to the goroutines but one that takes a new number.
Quiet ==
  /\ seqMax' = seqMax
  /\ \A k \in Relays :
       Active(k)' => /\ Active(k) /\ relay'[k].seq = relay[k].seq
                     /\ relay'[k].at \in Waiting => relay[k].at \in Waiting

\* A step of one goroutine, which finds or leaves its hook in the map or not.
LEMMA OneRelay ==
  ASSUME RelaysGood, NEW k \in Relays, NEW r \in RelayRecs, PutR(k, r),
         hooks' \subseteq hooks \cup {k},
         k \in hooks' => r.at \in {"send", "wait", "del", "drain"} /\ r.resp = Empty,
         r.at \in {"none", "add"} => r.resp = Empty,
         r.at \in {"send", "wait", "del"} => r.resp \in {Empty, Closed, k},
         r.at = "forward" => r.resp = k,
         r.at \notin {"none", "done"} => r.client \in Clients,
         r.at \in {"add", "send"} => r.assist \in Assists
  PROVE  /\ RelaysGood'
         /\ \A j \in Relays : relay'[j] = IF j = k THEN r ELSE relay[j]
<1>1. /\ relay' \in [Relays -> RelayRecs]
      /\ \A j \in Relays : relay'[j] = IF j = k THEN r ELSE relay[j]
  BY DEF RelaysGood, PutR
<1>2. hooks' \subseteq Relays
  BY DEF RelaysGood
<1>3. ASSUME NEW j \in Relays PROVE RelayGood(j)'
  <2>1. CASE j = k
    BY <1>1, <2>1 DEF RelayGood, Active
  <2>2. CASE j # k
    BY <1>1, <2>2 DEF RelaysGood, RelayGood, Active
  <2> QED
    BY <2>1, <2>2
<1> QED
  BY <1>1, <1>2, <1>3 DEF RelaysGood

\* Nothing happens to the goroutines, nor to the hooks.
LEMMA RelaysStutter ==
  ASSUME RelaysGood, relay' = relay, hooks' = hooks PROVE RelaysGood'
  BY DEF RelaysGood, RelayGood, Active

LEMMA QuietStutter ==
  ASSUME relay' = relay, seqMax' = seqMax PROVE Quiet
  BY DEF Quiet, Active

\* One goroutine goes on under its number, or is done.
LEMMA QuietOne ==
  ASSUME NEW k \in Relays, NEW r, seqMax' = seqMax,
         \A j \in Relays : relay'[j] = IF j = k THEN r ELSE relay[j],
         r.at = "done" \/ /\ Active(k) /\ r.seq = relay[k].seq
                          /\ r.at \in Waiting => relay[k].at \in Waiting
  PROVE  Quiet
  BY DEF Quiet, Active

\* The loop takes a hook; the two steps after it answer and delete one.
LEMMA HookAddRelays ==
  ASSUME RelaysGood, NEW k \in Relays, HookAdd(k)
  PROVE  RelaysGood' /\ Quiet
<1> DEFINE r == [relay[k] EXCEPT !.at = "send"]
           s == [r EXCEPT !.resp = Closed]
<1>1. relay[k] \in RelayRecs /\ RelayGood(k)
  BY DEF RelaysGood
<1>2. relay[k].at = "add" /\ seqMax' = seqMax
  BY DEF HookAdd
<1>3. /\ r \in RelayRecs /\ r.at = "send" /\ r.resp = Empty
      /\ r.client \in Clients /\ r.assist \in Assists /\ r.seq = relay[k].seq
      /\ s \in RelayRecs /\ s.at = "send" /\ s.resp = Closed
      /\ s.client \in Clients /\ s.assist \in Assists /\ s.seq = relay[k].seq
  BY <1>1, <1>2 DEF RelayRecs, RelayStates, RelayGood, Active
<1>4. k \notin hooks
  BY <1>1, <1>2 DEF RelayGood
<1>5. \/ PutR(k, r) /\ hooks' = hooks \cup {k}
      \/ PutR(k, s) /\ hooks' = hooks
  BY DEF HookAdd
<1> HIDE DEF r, s
<1>6. CASE PutR(k, r) /\ hooks' = hooks \cup {k}
  <2>1. RelaysGood' /\ \A j \in Relays : relay'[j] = IF j = k THEN r ELSE relay[j]
    BY <1>3, <1>6, OneRelay
  <2> QED
    BY <1>2, <1>3, <2>1, QuietOne DEF Active, Waiting
<1>7. CASE PutR(k, s) /\ hooks' = hooks
  <2>1. RelaysGood' /\ \A j \in Relays : relay'[j] = IF j = k THEN s ELSE relay[j]
    BY <1>3, <1>4, <1>7, OneRelay
  <2> QED
    BY <1>2, <1>3, <2>1, QuietOne DEF Active, Waiting
<1> QED
  BY <1>5, <1>6, <1>7

\* Only the goroutine that sent it takes it, if it still waits.
LEMMA TakeTestRelays ==
  ASSUME RelaysGood, Numbers, AllGenuine, NEW k \in Relays, NEW q \in 0..(SeqSpace - 1),
         TakeTest(k, q)
  PROVE  RelaysGood' /\ Quiet
<1>1. seqMax' = seqMax
  BY DEF TakeTest
<1>2. CASE relay' = relay /\ hooks' = hooks
  BY <1>1, <1>2, RelaysStutter, QuietStutter
<1>3. ASSUME NEW j \in hooks, relay[j].seq = q,
             PutR(j, [relay[j] EXCEPT !.resp = k]), hooks' = Unhooked(j)
      PROVE  RelaysGood' /\ Quiet
  <2> DEFINE r == [relay[j] EXCEPT !.resp = k]
  <2>1. j \in Relays /\ relay[j] \in RelayRecs /\ RelayGood(j)
    BY DEF RelaysGood
  <2>2. /\ relay[j].at \in {"send", "wait", "del", "drain"}
        /\ relay[j].client \in Clients /\ Active(j)
        /\ relay[j].at = "send" => relay[j].assist \in Assists
    BY <2>1 DEF RelayGood, Active
  <2>3. /\ r \in RelayRecs /\ r.at = relay[j].at /\ r.resp = k
        /\ r.client = relay[j].client /\ r.assist = relay[j].assist
        /\ r.seq = relay[j].seq
    BY <2>1 DEF RelayRecs
  <2>4. ASSUME r.at \in {"send", "wait", "del"} PROVE k = j
    <3> DEFINE m == P2pTest(k, q)
    <3>1. m \in in /\ m.type = "p2pTest" /\ m.id = k /\ m.seq = q
      BY DEF TakeTest, Take, P2pTest
    <3>2. PICK b \in 1..seqMax : CutFrom(m, b)
      BY <3>1 DEF AllGenuine, Genuine
    <3>3. SeqSpace \in Nat \ {0} /\ seqMax \in Nat
      BY RelayAssumption DEF Numbers
    <3>4. q = Hdr(b) /\ b \in Nat /\ b <= seqMax
      BY <3>1, <3>2, <3>3 DEF CutFrom
    <3>5. q + SeqSpace > seqMax
      BY <1>3, <2>1, <2>3, <2>4 DEF Numbers, Waiting
    <3>6. b < q + SeqSpace
      BY <3>3, <3>4, <3>5
    <3>7. b = q
      BY <3>3, <3>4, <3>6, Z3 DEF Hdr
    <3> QED
      BY <1>3, <2>1, <2>2, <3>1, <3>2, <3>7 DEF CutFrom
  <2>5. PutR(j, r) /\ hooks' = hooks \ {j}
    BY <1>3 DEF Unhooked
  <2> HIDE DEF r
  <2>6. RelaysGood' /\ \A i \in Relays : relay'[i] = IF i = j THEN r ELSE relay[i]
    BY <2>1, <2>2, <2>3, <2>4, <2>5, OneRelay
  <2> QED
    BY <1>1, <2>1, <2>2, <2>3, <2>6, QuietOne
<1> QED
  BY <1>2, <1>3 DEF TakeTest

LEMMA HookDelRelays ==
  ASSUME RelaysGood, NEW k \in Relays, HookDel(k)
  PROVE  RelaysGood' /\ Quiet
<1> DEFINE r == [relay[k] EXCEPT !.at = "drain", !.resp = RespOfDeleted(k)]
<1>1. relay[k] \in RelayRecs /\ RelayGood(k)
  BY DEF RelaysGood
<1>2. relay[k].at = "del" /\ seqMax' = seqMax /\ PutR(k, r) /\ hooks' = hooks \ {k}
  BY DEF HookDel
<1>3. RespOfDeleted(k) \in Relays \cup {Empty, Closed}
  BY <1>1 DEF RespOfDeleted, RelayRecs
<1>4. /\ r \in RelayRecs /\ r.at = "drain" /\ r.client \in Clients
      /\ r.seq = relay[k].seq
  BY <1>1, <1>2, <1>3 DEF RelayRecs, RelayStates, RelayGood, Active
<1> HIDE DEF r
<1>5. RelaysGood' /\ \A j \in Relays : relay'[j] = IF j = k THEN r ELSE relay[j]
  BY <1>2, <1>4, OneRelay
<1> QED
  BY <1>2, <1>4, <1>5, QuietOne DEF Active, Waiting

\* The four steps of a goroutine.
LEMMA RelaySendRelays ==
  ASSUME RelaysGood, NEW k \in Relays, RelaySend(k)
  PROVE  RelaysGood' /\ Quiet
<1> DEFINE r == [relay[k] EXCEPT !.at = "wait", !.assist = Nobody]
<1>1. relay[k] \in RelayRecs /\ RelayGood(k)
  BY DEF RelaysGood
<1>2. /\ relay[k].at = "send" /\ seqMax' = seqMax /\ hooks' = hooks
      /\ PutR(k, r) \/ relay' = relay
  BY DEF RelaySend
<1>3. /\ r \in RelayRecs /\ r.at = "wait" /\ r.client \in Clients
      /\ r.seq = relay[k].seq /\ r.resp = relay[k].resp
      /\ r.resp \in {Empty, Closed, k}
      /\ k \in hooks => r.resp = Empty
  BY <1>1, <1>2 DEF RelayRecs, RelayStates, RelayGood, Active
<1> HIDE DEF r
<1>4. CASE PutR(k, r)
  <2>1. RelaysGood' /\ \A j \in Relays : relay'[j] = IF j = k THEN r ELSE relay[j]
    BY <1>2, <1>3, <1>4, OneRelay
  <2> QED
    BY <1>2, <1>3, <2>1, QuietOne DEF Active, Waiting
<1>5. CASE relay' = relay
  BY <1>2, <1>5, RelaysStutter, QuietStutter
<1> QED
  BY <1>2, <1>4, <1>5

LEMMA RelayWaitRelays ==
  ASSUME RelaysGood, NEW k \in Relays, RelayWait(k)
  PROVE  RelaysGood' /\ Quiet
<1> DEFINE r(at) == [relay[k] EXCEPT !.at = at]
<1>1. relay[k] \in RelayRecs /\ RelayGood(k)
  BY DEF RelaysGood
<1>2. PICK to \in {"drain", "del", "forward"} :
        PutR(k, r(to)) /\ (to = "forward" => relay[k].resp > Empty)
  BY DEF RelayWait
<1>3. relay[k].at = "wait" /\ seqMax' = seqMax /\ hooks' = hooks
  BY DEF RelayWait
<1>4. /\ relay[k].resp \in {Empty, Closed, k}
      /\ k \in hooks => relay[k].resp = Empty
      /\ relay[k].client \in Clients
  BY <1>1, <1>3 DEF RelayGood, Active
<1>5. to = "forward" => relay[k].resp = k /\ k \notin hooks
  BY <1>2, <1>4 DEF Empty, Closed
<1>6. /\ r(to) \in RelayRecs /\ r(to).at = to
      /\ r(to).client = relay[k].client /\ r(to).seq = relay[k].seq
      /\ r(to).resp = relay[k].resp
  BY <1>1 DEF RelayRecs, RelayStates
<1> HIDE DEF r
<1>7. RelaysGood' /\ \A j \in Relays : relay'[j] = IF j = k THEN r(to) ELSE relay[j]
  BY <1>2, <1>3, <1>4, <1>5, <1>6, OneRelay
<1> QED
  BY <1>3, <1>6, <1>7, QuietOne DEF Active, Waiting

LEMMA RelayDrainedRelays ==
  ASSUME RelaysGood, NEW k \in Relays, RelayDrained(k)
  PROVE  RelaysGood' /\ Quiet
<1> DEFINE r == [relay[k] EXCEPT !.at = "fallback"]
<1>1. relay[k] \in RelayRecs /\ RelayGood(k)
  BY DEF RelaysGood
<1>2. /\ relay[k].at = "drain" /\ relay[k].resp # Empty
      /\ seqMax' = seqMax /\ hooks' = hooks
      /\ PutR(k, r) \/ PutR(k, Done)
  BY DEF RelayDrained
<1>3. k \notin hooks /\ Active(k)
  BY <1>1, <1>2 DEF RelayGood, Active
<1>4. /\ r \in RelayRecs /\ r.at = "fallback" /\ r.client \in Clients
      /\ r.seq = relay[k].seq
  BY <1>1, <1>2 DEF RelayRecs, RelayStates, RelayGood, Active
<1>5. Done \in RelayRecs /\ Done.at = "done"
  BY RelayAssumption
  DEF Done, NewRelay, RelayRecs, RelayStates, Nobody, Empty
<1> HIDE DEF r
<1>6. CASE PutR(k, r)
  <2>1. RelaysGood' /\ \A j \in Relays : relay'[j] = IF j = k THEN r ELSE relay[j]
    BY <1>2, <1>3, <1>4, <1>6, OneRelay
  <2> QED
    BY <1>2, <1>3, <1>4, <2>1, QuietOne DEF Waiting
<1>7. CASE PutR(k, Done)
  <2>1. RelaysGood' /\ \A j \in Relays : relay'[j] = IF j = k THEN Done ELSE relay[j]
    BY <1>2, <1>3, <1>5, <1>7, OneRelay
  <2> QED
    BY <1>2, <1>5, <2>1, QuietOne
<1> QED
  BY <1>2, <1>6, <1>7

LEMMA RelayAnswersRelays ==
  ASSUME RelaysGood, NEW k \in Relays, RelayAnswers(k) \/ RelayFallsBack(k)
  PROVE  RelaysGood' /\ Quiet
<1>1. RelayGood(k)
  BY DEF RelaysGood
<1>2. /\ relay[k].at \in {"forward", "fallback"}
      /\ seqMax' = seqMax /\ hooks' = hooks
      /\ PutR(k, Done) \/ relay' = relay
  BY DEF RelayAnswers, RelayFallsBack, ToClient
<1>3. k \notin hooks
  BY <1>1, <1>2 DEF RelayGood
<1>4. Done \in RelayRecs /\ Done.at = "done"
  BY RelayAssumption
  DEF Done, NewRelay, RelayRecs, RelayStates, Nobody, Empty
<1>5. CASE PutR(k, Done)
  <2>1. RelaysGood' /\ \A j \in Relays : relay'[j] = IF j = k THEN Done ELSE relay[j]
    BY <1>2, <1>3, <1>4, <1>5, OneRelay
  <2> QED
    BY <1>2, <1>4, <2>1, QuietOne
<1>6. CASE relay' = relay
  BY <1>2, <1>6, RelaysStutter, QuietStutter
<1> QED
  BY <1>2, <1>5, <1>6

\* One goroutine has got the next number; or it went to a ping of others.
NewNumber ==
  /\ seqMax' = seqMax + 1 /\ NotRoundYet
  /\ \/ relay' = relay
     \/ \E k \in Relays :
          /\ relay'[k].seq = seqMax' /\ relay[k].at = "none"
          /\ \A j \in Relays : j # k => relay'[j] = relay[j]

\* A new goroutine, whose assist is one of the listed.
LEMMA TakePingRelays ==
  ASSUME RelaysGood, Numbers, AssistsGood,
         NEW c \in Clients, NEW n \in 1..MaxAsks, TakePing(c, n)
  PROVE  RelaysGood' /\ (Quiet \/ NewNumber)
<1>1. hooks' = hooks
  BY DEF TakePing
<1>2. CASE relay' = relay
  <2>1. RelaysGood'
    BY <1>1, <1>2, RelaysStutter
  <2>2. \/ seqMax' = seqMax
        \/ seqMax' = seqMax + 1 /\ NotRoundYet
    BY DEF TakePing, NextSeq
  <2> QED
    BY <1>2, <2>1, <2>2, QuietStutter DEF NewNumber
<1>3. ASSUME NEW x \in Addresses, NEW k \in Relays,
             NotRoundYet, NextSeq, assists[x] # Nobody, FirstUnused(k),
             PutR(k, [NewRelay EXCEPT
                        !.at = "add", !.seq = seqMax', !.client = c, !.num = n,
                        !.assist = assists[x], !.alter = x])
      PROVE  RelaysGood' /\ NewNumber
  <2> DEFINE r == [NewRelay EXCEPT
                     !.at = "add", !.seq = seqMax', !.client = c, !.num = n,
                     !.assist = assists[x], !.alter = x]
  <2>1. seqMax' = seqMax + 1 /\ seqMax' \in Nat
    BY <1>3 DEF NextSeq, Numbers
  <2>2. assists[x] \in Assists
    BY <1>3 DEF AssistsGood
  <2>3. n \in 0..MaxAsks
    BY RelayAssumption
  <2>4. /\ r \in RelayRecs /\ r.at = "add" /\ r.resp = Empty /\ r.client \in Clients
        /\ r.assist \in Assists /\ r.seq = seqMax'
    BY <2>1, <2>2, <2>3 DEF NewRelay, RelayRecs, RelayStates
  <2>5. relay[k].at = "none" /\ k \notin hooks
    BY <1>3 DEF FirstUnused, RelaysGood, RelayGood
  <2>6. PutR(k, r)
    BY <1>3
  <2> HIDE DEF r
  <2>7. RelaysGood' /\ \A j \in Relays : relay'[j] = IF j = k THEN r ELSE relay[j]
    BY <1>1, <2>4, <2>5, <2>6, OneRelay
  <2>8. relay'[k].seq = seqMax' /\ \A j \in Relays : j # k => relay'[j] = relay[j]
    BY <2>4, <2>7
  <2> QED
    BY <1>3, <2>1, <2>5, <2>7, <2>8 DEF NewNumber
<1> QED
  BY <1>2, <1>3 DEF TakePing

\* What any step does to the goroutines.
LEMMA RelaysStep ==
  ASSUME IInv, Next
  PROVE  RelaysGood' /\ (Quiet \/ NewNumber)
<1> USE DEF IInv
<1>1. CASE relay' = relay /\ hooks' = hooks /\ seqMax' = seqMax
  BY <1>1, RelaysStutter, QuietStutter
<1>2. CASE OthersPing
  <2>1. relay' = relay /\ hooks' = hooks /\ seqMax' = seqMax + 1 /\ NotRoundYet
    BY <1>2 DEF OthersPing, NextSeq
  <2> QED
    BY <2>1, RelaysStutter DEF NewNumber
<1>3. ASSUME NEW c \in Clients, NEW n \in 1..MaxAsks, TakePing(c, n)
      PROVE  RelaysGood' /\ (Quiet \/ NewNumber)
  BY <1>3, TakePingRelays
<1>4. ASSUME NEW k \in Relays, HookAdd(k) \/ HookDel(k) \/ Relaying(k)
      PROVE  RelaysGood' /\ Quiet
  BY <1>4, HookAddRelays, HookDelRelays, RelaySendRelays, RelayWaitRelays,
     RelayDrainedRelays, RelayAnswersRelays DEF Relaying
<1>5. ASSUME NEW k \in Relays, NEW q \in 0..(SeqSpace - 1), TakeTest(k, q)
      PROVE  RelaysGood' /\ Quiet
  BY <1>5, TakeTestRelays
<1>6. \/ \E c \in Clients, n \in 1..MaxAsks : TakeFromAss(c, n)
      \/ \E a \in Assists : TakeAssPing(a) \/ AssistCloses(a)
      \/ \E c \in Clients : \/ Discover(c) \/ Client(c)
                            \/ EndpointFails(c) \/ EndpointCloses(c)
      \/ \E a \in Assists : \/ RegistAssist(a) \/ AssistTakes(a)
                            \/ AssistGoesDying(a)
      => relay' = relay /\ hooks' = hooks /\ seqMax' = seqMax
  BY DEF TakeFromAss, TakeAssPing, AssistCloses, Discover, Client, Ask, AskTimeout,
         AskDelete, AskEnds, EndpointFails, EndpointCloses, RegistAssist,
         AssistTakes, AssistGoesDying
<1> QED
  BY <1>1, <1>2, <1>3, <1>4, <1>5, <1>6 DEF Next, Loop

\* Numbers stay different, and those that wait stay close to seqMax.
LEMMA NumbersStep ==
  ASSUME IInv, Next
  PROVE  Numbers'
<1>1. Numbers /\ RelaysGood /\ seqMax \in Nat /\ SeqSpace \in Nat \ {0}
  BY RelayAssumption DEF IInv, Numbers
<1>2. RelaysGood' /\ (Quiet \/ NewNumber)
  BY RelaysStep
<1>3. CASE Quiet
  <2>1. /\ \A k \in Relays : Active(k)' => relay'[k].seq \in 1..seqMax'
        /\ \A j, k \in Relays :
             Active(j)' /\ Active(k)' /\ relay'[j].seq = relay'[k].seq => j = k
    BY <1>1, <1>3 DEF Quiet, Numbers
  <2>2. \A k \in Relays : relay'[k].at \in Waiting
                          => relay'[k].seq + SeqSpace > seqMax'
    BY <1>1, <1>3 DEF Quiet, Numbers, Active, Waiting
  <2> QED
    BY <1>1, <1>3, <2>1, <2>2 DEF Quiet, Numbers
<1>4. CASE NewNumber
  <2>0. seqMax' = seqMax + 1 /\ NotRoundYet
    BY <1>4 DEF NewNumber
  <2>1. \A j \in Relays : /\ Active(j) => relay[j].seq \in 1..seqMax
                          /\ relay[j].at \in Waiting => relay[j].seq + SeqSpace > seqMax'
    BY <1>1, <2>0 DEF NotRoundYet, Waiting, Numbers
  <2>2. CASE relay' = relay
    BY <1>1, <2>0, <2>1, <2>2 DEF Numbers, Active
  <2>3. ASSUME NEW k \in Relays, relay'[k].seq = seqMax',
               \A j \in Relays : j # k => relay'[j] = relay[j]
        PROVE  Numbers'
    <3>1. \A j \in Relays : j # k => (Active(j)' <=> Active(j))
      BY <2>3 DEF Active
    <3>2. \A j \in Relays : Active(j)' => relay'[j].seq \in 1..seqMax'
      BY <1>1, <2>0, <2>1, <2>3, <3>1
    <3>3. \A i, j \in Relays :
            Active(i)' /\ Active(j)' /\ relay'[i].seq = relay'[j].seq => i = j
      BY <1>1, <2>0, <2>1, <2>3, <3>1 DEF Numbers
    <3>4. \A j \in Relays : relay'[j].at \in Waiting
                            => relay'[j].seq + SeqSpace > seqMax'
      BY <1>1, <2>0, <2>1, <2>3
    <3> QED
      BY <1>1, <2>0, <3>2, <3>3, <3>4 DEF Numbers
  <2> QED
    BY <1>4, <2>2, <2>3 DEF NewNumber
<1> QED
  BY <1>2, <1>3, <1>4
-----------------------------------------------------------------------------
(***************************************************************************)
(* The clients and the assists.                                            *)
(***************************************************************************)

\* Resp is empty at first.
LEMMA EmptyType == Empty \in 0..MaxAsks /\ ~(Empty > Empty)
  BY RelayAssumption DEF Empty

\* A step of one client.
LEMMA OneClient ==
  ASSUME ClientsGood, NEW c \in Clients, NEW p \in ClientRecs, PutC(c, p),
         p.hook => p.at \in {"wait", "del"} /\ p.resp = Empty,
         p.at = "add" => p.num < MaxAsks,
         p.at = "add" /\ p.phase = 2 => p.alter # NoAddress,
         p.resp > Empty => p.resp = p.num
  PROVE  ClientsGood'
<1>1. /\ client' \in [Clients -> ClientRecs]
      /\ \A d \in Clients : client'[d] = IF d = c THEN p ELSE client[d]
  BY DEF ClientsGood, PutC
<1>2. ASSUME NEW d \in Clients PROVE ClientGood(d)'
  BY <1>1 DEF ClientGood, ClientsGood
<1> QED
  BY <1>1, <1>2 DEF ClientsGood

\* Nothing happens to the clients.
LEMMA ClientsStutter ==
  ASSUME ClientsGood, client' = client PROVE ClientsGood'
  BY DEF ClientsGood, ClientGood

\* What is left of a number is not larger; so if a ping's number is found under
\* that of one not older, it is the same.
LEMMA CutOfOlder ==
  ASSUME NEW n \in Nat, NEW m \in Nat, n <= m, m = Hdr(n) PROVE n = m
<1>1. SeqSpace \in Nat \ {0}
  BY RelayAssumption
<1>2. n % SeqSpace <= n
  <2>1. CASE n < SeqSpace
    BY <1>1, <2>1
  <2>2. CASE n >= SeqSpace
    BY <1>1, <2>2
  <2> QED
    BY <1>1, <2>1, <2>2
<1> QED
  BY <1>2 DEF Hdr

\* An answer takes the hook with its number out of the map; it is that of the
\* ping that is answered, or the server fell back.
LEMMA AnsweredClients ==
  ASSUME ClientsGood, NEW c \in Clients, NEW hdr, NEW what \in 0..MaxAsks \cup {Fallback},
         what # Fallback => hdr = Hdr(what) /\ what <= client[c].num,
         NEW alter \in Addresses \cup {NoAddress}, Answered(c, hdr, what, alter)
  PROVE  ClientsGood'
<1> DEFINE q == [client[c] EXCEPT !.hook = FALSE, !.resp = what, !.alter = alter]
<1>1. client[c] \in ClientRecs /\ ClientGood(c) /\ MaxAsks \in Nat
  BY RelayAssumption DEF ClientsGood
<1>2. CASE client[c].hook /\ client[c].num = hdr
  <2>1. client[c].at # "add"
    BY <1>1, <1>2 DEF ClientGood
  <2>2. /\ q \in ClientRecs /\ q.hook = FALSE /\ q.at = client[c].at
        /\ q.resp = what /\ q.num = client[c].num
    BY <1>1 DEF ClientRecs
  <2>3. PutC(c, q)
    BY <1>2 DEF Answered
  <2>4. what > Empty => what = client[c].num
    <3>1. what > Empty => what # Fallback /\ what \in Nat
      BY <1>1 DEF Empty, Fallback
    <3>2. client[c].num \in Nat
      BY <1>1 DEF ClientRecs
    <3> QED
      BY <1>2, <3>1, <3>2, CutOfOlder
  <2> HIDE DEF q
  <2> QED
    BY <2>1, <2>2, <2>3, <2>4, OneClient
<1>3. CASE ~(client[c].hook /\ client[c].num = hdr)
  BY <1>3, ClientsStutter DEF Answered
<1> QED
  BY <1>2, <1>3

\* The steps of a discovery.
LEMMA AskClients ==
  ASSUME ClientsGood, NEW c \in Clients, Client(c) \/ Discover(c)
  PROVE  ClientsGood'
<1>1. client[c] \in ClientRecs /\ ClientGood(c) /\ MaxAsks \in Nat
  BY RelayAssumption DEF ClientsGood
<1>2. CASE Discover(c)
  <2> DEFINE p == [client[c] EXCEPT !.at = "add", !.phase = 1]
  <2>1. PutC(c, p) /\ client[c].num < MaxAsks /\ client[c].at = "idle"
    BY <1>2 DEF Discover
  <2>2. /\ p \in ClientRecs /\ p.at = "add" /\ p.phase = 1
        /\ p.num = client[c].num /\ p.hook = FALSE /\ p.resp = client[c].resp
        /\ p.resp > Empty => p.resp = p.num
    BY <1>1, <2>1 DEF ClientRecs, ClientGood
  <2> HIDE DEF p
  <2> QED
    BY <2>1, <2>2, OneClient
<1>3. CASE Ask(c)
  <2> DEFINE p == [client[c] EXCEPT !.at = "wait", !.num = @ + 1, !.hook = TRUE,
                                    !.resp = Empty]
  <2>1. PutC(c, p) /\ client[c].at = "add"
    BY <1>3 DEF Ask
  <2>2. client[c].num + 1 \in 0..MaxAsks
    BY <1>1, <2>1 DEF ClientRecs, ClientGood
  <2>3. p \in ClientRecs /\ p.at = "wait" /\ p.resp = Empty /\ ~(p.resp > Empty)
    BY <1>1, <2>2, EmptyType DEF ClientRecs
  <2> HIDE DEF p
  <2> QED
    BY <2>1, <2>3, OneClient
<1>4. CASE AskTimeout(c)
  <2> DEFINE p == [client[c] EXCEPT !.at = "del"]
  <2>1. PutC(c, p)
    BY <1>4 DEF AskTimeout
  <2>2. /\ p \in ClientRecs /\ p.at = "del"
        /\ p.hook => p.resp = Empty
        /\ p.resp > Empty => p.resp = p.num
    BY <1>1 DEF ClientRecs, ClientGood
  <2> HIDE DEF p
  <2> QED
    BY <2>1, <2>2, OneClient
<1>5. CASE AskDelete(c)
  <2> DEFINE p == [client[c] EXCEPT !.at = "drain", !.hook = FALSE,
                       !.resp = IF client[c].hook THEN Closed ELSE @]
  <2>1. PutC(c, p)
    BY <1>5 DEF AskDelete
  <2>2. /\ p \in ClientRecs /\ p.at = "drain" /\ p.hook = FALSE
        /\ p.num = client[c].num /\ p.resp \in {Closed, client[c].resp}
    BY <1>1 DEF ClientRecs
  <2>3. p.resp > Empty => p.resp = p.num
    BY <1>1, <2>2 DEF ClientGood, Closed, Empty
  <2> HIDE DEF p
  <2> QED
    BY <2>1, <2>2, <2>3, OneClient
<1>6. CASE AskEnds(c)
  <2> DEFINE alter == IF client[c].at = "wait" /\ client[c].resp # Closed
                      THEN client[c].alter ELSE NoAddress
             p == [client[c] EXCEPT !.at = "add", !.phase = 2, !.alter = alter,
                                    !.resp = Empty]
             q == [client[c] EXCEPT !.at = "idle", !.phase = 1,
                                    !.alter = NoAddress, !.resp = Empty]
  <2>1. client[c].resp # Empty
    BY <1>6 DEF AskEnds
  <2>2. client[c].hook = FALSE
    BY <1>1, <2>1 DEF ClientGood, ClientRecs
  <2>3. alter \in Addresses \cup {NoAddress}
    BY <1>1 DEF ClientRecs
  <2>4. \/ PutC(c, p) /\ alter # NoAddress /\ client[c].num < MaxAsks
        \/ PutC(c, q)
    <3>1. CASE Again(client[c], alter)
      BY <1>6, <3>1 DEF AskEnds, Again, PutC
    <3>2. CASE ~Again(client[c], alter)
      BY <1>6, <3>2 DEF AskEnds, PutC
    <3> QED
      BY <3>1, <3>2
  <2>5. /\ p \in ClientRecs /\ p.num = client[c].num /\ p.hook = FALSE
        /\ p.alter = alter /\ ~(p.resp > Empty)
        /\ q \in ClientRecs /\ q.hook = FALSE /\ q.at = "idle" /\ ~(q.resp > Empty)
    <3> HIDE DEF alter
    <3> QED
      BY <1>1, <2>2, <2>3, EmptyType DEF ClientRecs
  <2> HIDE DEF p, q, alter
  <2>6. CASE PutC(c, p) /\ alter # NoAddress /\ client[c].num < MaxAsks
    BY <2>5, <2>6, OneClient
  <2>7. CASE PutC(c, q)
    BY <2>5, <2>7, OneClient
  <2> QED
    BY <2>4, <2>6, <2>7
<1> QED
  BY <1>2, <1>3, <1>4, <1>5, <1>6 DEF Client

\* Any step.
LEMMA ClientsStep ==
  ASSUME IInv, Next
  PROVE  ClientsGood'
<1> USE DEF IInv
<1>1. CASE client' = client
  BY <1>1, ClientsStutter
<1>2. ASSUME NEW c \in Clients, Client(c) \/ Discover(c)
      PROVE  ClientsGood'
  BY <1>2, AskClients
<1>3. ASSUME NEW c \in Clients, EndpointFails(c) \/ EndpointCloses(c)
      PROVE  ClientsGood'
  <2> DEFINE p == [client[c] EXCEPT !.endpoint = "killed", !.at = "idle",
                               !.hook = FALSE, !.resp = Empty,
                               !.alter = NoAddress, !.phase = 1]
             q == [client[c] EXCEPT !.endpoint = "closed"]
  <2>1. client[c] \in ClientRecs /\ ClientGood(c)
    BY DEF ClientsGood
  <2>2. PutC(c, p) \/ PutC(c, q)
    BY <1>3 DEF EndpointFails, EndpointCloses
  <2>3. p \in ClientRecs /\ p.hook = FALSE /\ p.at = "idle" /\ ~(p.resp > Empty)
    BY <2>1, EmptyType DEF ClientRecs
  <2>4. /\ q \in ClientRecs /\ q.hook = client[c].hook /\ q.at = client[c].at
        /\ q.resp = client[c].resp /\ q.num = client[c].num
        /\ q.phase = client[c].phase /\ q.alter = client[c].alter
    BY <2>1 DEF ClientRecs
  <2> HIDE DEF p, q
  <2>5. CASE PutC(c, p)
    BY <2>3, <2>5, OneClient
  <2>6. CASE PutC(c, q)
    BY <2>1, <2>4, <2>6, OneClient DEF ClientGood
  <2> QED
    BY <2>2, <2>5, <2>6
<1>4. ASSUME NEW c \in Clients, NEW n \in 1..MaxAsks, TakePing(c, n)
      PROVE  ClientsGood'
  <2>1. client' = client \/ Answered(c, Hdr(n), n, NoAddress)
    BY <1>4 DEF TakePing
  <2>2. n <= client[c].num
    BY <1>4 DEF TakePing, Take, UdpPing, OldPings
  <2>3. n \in 0..MaxAsks /\ n # Fallback
    BY RelayAssumption DEF Fallback
  <2> QED
    BY <2>1, <2>2, <2>3, AnsweredClients, ClientsStutter
<1>5. ASSUME NEW c \in Clients, NEW n \in 1..MaxAsks, TakeFromAss(c, n)
      PROVE  ClientsGood'
  <2>1. Answered(c, Hdr(n), n, NoAddress)
    BY <1>5 DEF TakeFromAss
  <2>2. n <= client[c].num
    BY <1>5 DEF TakeFromAss, Take, AssPong, OldPings
  <2>3. n \in 0..MaxAsks /\ n # Fallback
    BY RelayAssumption DEF Fallback
  <2> QED
    BY <2>1, <2>2, <2>3, AnsweredClients
<1>6. ASSUME NEW k \in Relays, RelayAnswers(k) \/ RelayFallsBack(k)
      PROVE  ClientsGood'
  <2> DEFINE d == relay[k].client
             n == relay[k].num
             x == relay[k].alter
  <2>1. n \in 0..MaxAsks /\ x \in Addresses \cup {NoAddress}
    BY DEF RelaysGood, RelayRecs
  <2>2. Active(k) /\ (RelayAnswers(k) => relay[k].at = "forward")
    BY <1>6 DEF Active, RelayAnswers, RelayFallsBack
  <2>3. /\ d \in Clients /\ n <= client[d].num
        /\ RelayAnswers(k) => relay[relay[k].resp].num = n
    BY <2>2 DEF RelaysGood, RelayGood, OldPings
  <2>4. \/ client' = client
        \/ Answered(d, Hdr(n), n, x)
        \/ Answered(d, Hdr(relay[k].seq), Fallback, x)
    BY <1>6, <2>3 DEF RelayAnswers, RelayFallsBack, ToClient
  <2>5. n # Fallback
    BY <2>1 DEF Fallback
  <2> HIDE DEF d, n, x
  <2>6. CASE client' = client
    BY <2>6, ClientsStutter
  <2>7. CASE Answered(d, Hdr(n), n, x)
    BY <2>1, <2>3, <2>5, <2>7, AnsweredClients
  <2>8. CASE Answered(d, Hdr(relay[k].seq), Fallback, x)
    BY <2>1, <2>3, <2>8, AnsweredClients
  <2> QED
    BY <2>4, <2>6, <2>7, <2>8
<1>7. \/ OthersPing
      \/ \E k \in Relays : \/ HookAdd(k) \/ HookDel(k) \/ RelaySend(k)
                           \/ RelayWait(k) \/ RelayDrained(k)
                           \/ \E q \in 0..(SeqSpace - 1) : TakeTest(k, q)
      \/ \E a \in Assists : \/ TakeAssPing(a) \/ AssistCloses(a) \/ RegistAssist(a)
                            \/ AssistTakes(a) \/ AssistGoesDying(a)
      => client' = client
  BY DEF OthersPing, HookAdd, HookDel, RelaySend, RelayWait, RelayDrained, TakeTest,
         TakeAssPing, AssistCloses, RegistAssist, AssistTakes, AssistGoesDying
<1> QED
  BY <1>1, <1>2, <1>3, <1>4, <1>5, <1>6, <1>7 DEF Next, Loop, Relaying

\* Nothing is in out at first, and after a Close.
LEMMA EmptySeqType == <<>> \in Seq(Tests)
  OBVIOUS

\* A step of one assist that leaves the registry alone.
LEMMA OneAssist ==
  ASSUME AssistsGood, assists' = assists, NEW a \in Assists, NEW r \in AssistRecs,
         PutA(a, r), r.open = assist[a].open,
         r.state # "closed", assist[a].state # "closed",
         assist[a].state = "none" \/ r.state \in {"up", "killed"}
  PROVE  AssistsGood'
<1>1. /\ assist' \in [Assists -> AssistRecs]
      /\ \A b \in Assists : assist'[b] = IF b = a THEN r ELSE assist[b]
  BY DEF AssistsGood, PutA
<1>2. \A b \in Assists : assist'[b].state # "closed" => assist'[b].open
  BY <1>1 DEF AssistsGood
<1>3. ASSUME NEW x \in Addresses, assists[x] # Nobody
      PROVE  /\ Address[assists[x]] = x /\ assist'[assists[x]].open
             /\ assist'[assists[x]].state \in {"up", "killed"}
  <2>1. /\ assists[x] \in Assists /\ Address[assists[x]] = x
        /\ assist[assists[x]].open /\ assist[assists[x]].state \in {"up", "killed"}
    BY <1>3 DEF AssistsGood, ListedOpen
  <2> QED
    BY <1>1, <2>1
<1> QED
  BY <1>1, <1>2, <1>3 DEF AssistsGood, ListedOpen

\* Nothing happens to the assists.
LEMMA AssistsStutter ==
  ASSUME AssistsGood, assists' = assists, assist' = assist PROVE AssistsGood'
  BY DEF AssistsGood, ListedOpen

\* The second assist at an address is not listed.
LEMMA RegistAssists ==
  ASSUME AssistsGood, NEW a \in Assists, RegistAssist(a)
  PROVE  AssistsGood'
<1> DEFINE r == [assist[a] EXCEPT !.state = "up"]
           x == Address[a]
<1>1. x \in Addresses
  BY DEF Addresses
<1>2. assist[a] \in AssistRecs /\ assist[a].state = "none" /\ assist[a].open
  BY DEF AssistsGood, RegistAssist
<1>3. r \in AssistRecs /\ r.state = "up" /\ r.open
  BY <1>2 DEF AssistRecs
<1>4. PutA(a, r)
  BY DEF RegistAssist
<1>5. assists' = [assists EXCEPT ![x] = IF @ = Nobody THEN a ELSE @]
  BY DEF RegistAssist
<1> HIDE DEF r, x
<1>6. /\ assist' \in [Assists -> AssistRecs]
      /\ \A b \in Assists : assist'[b] = IF b = a THEN r ELSE assist[b]
  BY <1>3, <1>4 DEF AssistsGood, PutA
<1>7. /\ assists' \in [Addresses -> Assists \cup {Nobody}]
      /\ \A y \in Addresses : \/ assists'[y] = assists[y]
                              \/ y = x /\ assists'[y] = a
  BY <1>1, <1>5 DEF AssistsGood
<1>8. \A b \in Assists : assist'[b].state # "closed" => assist'[b].open
  BY <1>3, <1>6 DEF AssistsGood
<1>9. ASSUME NEW y \in Addresses, assists'[y] # Nobody
      PROVE  /\ Address[assists'[y]] = y /\ assist'[assists'[y]].open
             /\ assist'[assists'[y]].state \in {"up", "killed"}
  <2>1. CASE y = x /\ assists'[y] = a
    BY <1>3, <1>6, <2>1 DEF x
  <2>2. CASE assists'[y] = assists[y]
    <3>1. /\ assists[y] \in Assists /\ Address[assists[y]] = y
          /\ assist[assists[y]].open /\ assist[assists[y]].state \in {"up", "killed"}
      BY <1>9, <2>2 DEF AssistsGood, ListedOpen
    <3> QED
      BY <1>2, <1>6, <2>2, <3>1
  <2> QED
    BY <1>7, <2>1, <2>2
<1> QED
  BY <1>6, <1>7, <1>8, <1>9 DEF AssistsGood, ListedOpen

\* Whoever closes, the address is free then, and no other entry is touched.
LEMMA AssistClosesAssists ==
  ASSUME AssistsGood, NEW a \in Assists, AssistCloses(a)
  PROVE  AssistsGood'
<1> DEFINE x == Address[a]
           r == [assist[a] EXCEPT !.state = "closed", !.out = <<>>,
                                  !.open = @ /\ assists[x] = Nobody]
<1>1. x \in Addresses
  BY DEF Addresses
<1>2. assist[a] \in AssistRecs
  BY DEF AssistsGood
<1>3. r \in AssistRecs /\ r.state = "closed"
  <2>1. \A out \in Seq(Tests), open \in BOOLEAN :
          LET q == [assist[a] EXCEPT !.state = "closed", !.out = out, !.open = open]
          IN q \in AssistRecs /\ q.state = "closed"
    BY <1>2 DEF AssistRecs
  <2>2. (assist[a].open /\ assists[x] = Nobody) \in BOOLEAN
    OBVIOUS
  <2> QED
    BY <2>1, <2>2, EmptySeqType
<1>4. PutA(a, r) /\ assists' = [assists EXCEPT ![x] = Nobody]
  BY DEF AssistCloses, Without
<1> HIDE DEF r, x
<1>5. /\ assist' \in [Assists -> AssistRecs]
      /\ \A b \in Assists : assist'[b] = IF b = a THEN r ELSE assist[b]
  BY <1>3, <1>4 DEF AssistsGood, PutA
<1>6. /\ assists' \in [Addresses -> Assists \cup {Nobody}]
      /\ \A y \in Addresses : assists'[y] = IF y = x THEN Nobody ELSE assists[y]
  BY <1>1, <1>4 DEF AssistsGood
<1>7. \A b \in Assists : assist'[b].state # "closed" => assist'[b].open
  BY <1>3, <1>5 DEF AssistsGood
<1>8. ASSUME NEW y \in Addresses, assists'[y] # Nobody
      PROVE  /\ Address[assists'[y]] = y /\ assist'[assists'[y]].open
             /\ assist'[assists'[y]].state \in {"up", "killed"}
  <2>1. y # x /\ assists'[y] = assists[y]
    BY <1>6, <1>8
  <2>2. /\ assists[y] \in Assists /\ Address[assists[y]] = y
        /\ assist[assists[y]].open /\ assist[assists[y]].state \in {"up", "killed"}
    BY <1>8, <2>1 DEF AssistsGood, ListedOpen
  <2>3. assists[y] # a
    BY <2>1, <2>2 DEF x
  <2> QED
    BY <1>5, <2>1, <2>2, <2>3
<1> QED
  BY <1>5, <1>6, <1>7, <1>8 DEF AssistsGood, ListedOpen

\* Any step.
LEMMA AssistsStep ==
  ASSUME IInv, Next
  PROVE  AssistsGood'
<1> USE DEF IInv
<1>1. ASSUME NEW a \in Assists, RegistAssist(a) PROVE AssistsGood'
  BY <1>1, RegistAssists
<1>2. ASSUME NEW a \in Assists, AssistCloses(a) PROVE AssistsGood'
  BY <1>2, AssistClosesAssists
<1>3. ASSUME NEW a \in Assists, AssistTakes(a) PROVE AssistsGood'
  <2> DEFINE r == [assist[a] EXCEPT !.out = Tail(@)]
  <2>1. /\ assist[a] \in AssistRecs /\ PutA(a, r) /\ assists' = assists
        /\ assist[a].out # <<>> /\ assist[a].state = "up"
    BY <1>3 DEF AssistTakes, AssistsGood
  <2>2. Tail(assist[a].out) \in Seq(Tests)
    BY <2>1 DEF AssistRecs
  <2>3. r \in AssistRecs /\ r.state = "up" /\ r.open = assist[a].open
    BY <2>1, <2>2 DEF AssistRecs
  <2> HIDE DEF r
  <2> QED
    BY <2>1, <2>3, OneAssist
<1>4. ASSUME NEW a \in Assists, AssistGoesDying(a) PROVE AssistsGood'
  <2> DEFINE r == [assist[a] EXCEPT !.state = "killed", !.out = <<>>]
  <2>1. /\ assist[a] \in AssistRecs /\ PutA(a, r) /\ assists' = assists
        /\ assist[a].state = "up"
    BY <1>4 DEF AssistGoesDying, AssistsGood
  <2>2. \A out \in Seq(Tests) :
          LET q == [assist[a] EXCEPT !.state = "killed", !.out = out]
          IN q \in AssistRecs /\ q.state = "killed" /\ q.open = assist[a].open
    BY <2>1 DEF AssistRecs
  <2>3. r \in AssistRecs /\ r.state = "killed" /\ r.open = assist[a].open
    BY <2>2, EmptySeqType
  <2> HIDE DEF r
  <2> QED
    BY <2>1, <2>3, OneAssist
<1>5. ASSUME NEW k \in Relays, RelaySend(k) PROVE AssistsGood'
  <2> DEFINE a == relay[k].assist
             m == P2pTest(k, Hdr(relay[k].seq))
             r == [assist[a] EXCEPT !.out = Append(@, m)]
  <2>1. a \in Assists /\ relay[k].seq \in Nat
    BY <1>5 DEF RelaysGood, RelayGood, RelayRecs, RelaySend
  <2>2. m \in Tests
    BY <2>1, CutType DEF P2pTest, Tests
  <2>3. assist[a] \in AssistRecs /\ assists' = assists
    BY <1>5, <2>1 DEF AssistsGood, RelaySend
  <2>4. \/ assist' = assist
        \/ PutA(a, r) /\ assist[a].state = "up"
    BY <1>5 DEF RelaySend
  <2>5. Append(assist[a].out, m) \in Seq(Tests)
    BY <2>2, <2>3 DEF AssistRecs
  <2>6. /\ r \in AssistRecs /\ r.open = assist[a].open
        /\ r.state = assist[a].state
    BY <2>3, <2>5 DEF AssistRecs
  <2> HIDE DEF r, m, a
  <2> QED
    BY <2>1, <2>3, <2>4, <2>6, OneAssist, AssistsStutter
<1>6. \/ OthersPing
      \/ \E c \in Clients : \/ Discover(c) \/ Client(c)
                            \/ EndpointFails(c) \/ EndpointCloses(c)
      \/ \E c \in Clients, n \in 1..MaxAsks : TakePing(c, n) \/ TakeFromAss(c, n)
      \/ \E k \in Relays : \/ HookAdd(k) \/ HookDel(k) \/ RelayWait(k)
                           \/ RelayDrained(k) \/ RelayAnswers(k) \/ RelayFallsBack(k)
                           \/ \E q \in 0..(SeqSpace - 1) : TakeTest(k, q)
      \/ \E a \in Assists : TakeAssPing(a)
      => assists' = assists /\ assist' = assist
  BY DEF OthersPing, Discover, Client, Ask, AskTimeout, AskDelete, AskEnds,
         EndpointFails, EndpointCloses, TakePing, TakeFromAss, HookAdd, HookDel,
         RelayWait, RelayDrained, RelayAnswers, RelayFallsBack, ToClient, TakeTest, TakeAssPing
<1> QED
  BY <1>1, <1>2, <1>3, <1>4, <1>5, <1>6, AssistsStutter DEF Next, Loop, Relaying
-----------------------------------------------------------------------------
(***************************************************************************)
(* The numbers in headers.                                                 *)
(***************************************************************************)

\* A number that was genuine stays so: a new ping takes another.
LEMMA GenuineStays ==
  ASSUME Numbers, Quiet \/ NewNumber, NEW m, Genuine(m)
  PROVE  Genuine(m)'
<1>1. PICK b \in 1..seqMax : CutFrom(m, b)
  BY DEF Genuine
<1>2. seqMax \in Nat /\ b \in Nat /\ b <= seqMax /\ b >= 1
  BY DEF Numbers
<1>3. b \in 1..seqMax'
  BY <1>2 DEF Quiet, NewNumber
<1>4. ASSUME NEW k \in Relays, Active(k)', relay'[k].seq = b PROVE k = m.id
  <2>1. CASE Quiet
    BY <1>1, <1>4, <2>1 DEF Quiet, CutFrom
  <2>2. CASE NewNumber
    <3>1. relay'[k].seq # seqMax' /\ seqMax' = seqMax + 1
      BY <1>2, <1>4, <2>2 DEF NewNumber
    <3>2. relay'[k] = relay[k]
      BY <2>2, <3>1 DEF NewNumber
    <3> QED
      BY <1>1, <1>4, <3>2 DEF CutFrom, Active
  <2> QED
    BY <2>1, <2>2
<1> QED
  BY <1>1, <1>3, <1>4 DEF Genuine, CutFrom

\* Pings of clients carry no number of the server.
LEMMA TypesOfMessages ==
  ASSUME NEW c \in Clients, NEW n \in 1..MaxAsks,
         NEW m \in {UdpPing(c, n), AssPong(c, n)}
  PROVE  m \in Messages /\ m.type # "p2pTest"
  BY DEF UdpPing, AssPong, Messages

\* Any step: a P2pTest is sent with the number of the goroutine that sends it.
LEMMA GenuineStep ==
  ASSUME IInv, Next
  PROVE  AllGenuine'
<1> USE DEF IInv
<1>1. ASSUME NEW m, Genuine(m) PROVE Genuine(m)'
  BY <1>1, RelaysStep, GenuineStays
<1> DEFINE Stays(m) == \E b \in 1..seqMax' :
             /\ m.seq = Hdr(b)
             /\ \A k \in Relays : Active(k)' /\ relay'[k].seq = b => k = m.id
           InKept == /\ in' \subseteq Messages
                     /\ \A m \in in' : m.type = "p2pTest" => m \in in \/ Genuine(m)
           OutKept == \A a \in Assists : \A i \in 1..Len(assist'[a].out) :
                        Genuine(assist'[a].out[i])
<1>2. ASSUME InKept, OutKept PROVE AllGenuine'
  <2>1. \A m : Genuine(m) => Stays(m)
    BY <1>1 DEF Genuine, CutFrom
  <2> HIDE DEF Stays
  <2>2. \A m \in in' : m.type = "p2pTest" => Stays(m)
    BY <1>2, <2>1 DEF AllGenuine
  <2>3. \A a \in Assists : \A i \in 1..Len(assist'[a].out) : Stays(assist'[a].out[i])
    BY <1>2, <2>1
  <2> QED
    BY <1>2, <2>2, <2>3 DEF AllGenuine, Genuine, CutFrom, Stays
<1> HIDE DEF Stays
<1>3. in' \subseteq in => InKept
  BY DEF AllGenuine
<1>4. assist' = assist => OutKept
  BY DEF AllGenuine
<1>5. ASSUME NEW c \in Clients, Ask(c) PROVE AllGenuine'
  <2> DEFINE n == client[c].num + 1
             p == [client[c] EXCEPT !.at = "wait", !.num = @ + 1, !.hook = TRUE,
                                    !.resp = Empty]
             m == IF p.phase = 1 THEN UdpPing(c, p.num) ELSE AssPong(c, p.num)
  <2>1. client[c] \in ClientRecs /\ client[c].num < MaxAsks /\ MaxAsks \in Nat
    BY <1>5, RelayAssumption DEF ClientsGood, ClientGood, Ask
  <2>2. n \in 1..MaxAsks /\ p.num = n
    BY <2>1 DEF ClientRecs
  <2>3. m \in {UdpPing(c, n), AssPong(c, n)}
    BY <2>2
  <2>4. assist' = assist /\ (in' = in \/ in' = in \cup {m})
    BY <1>5 DEF Ask, Arrives
  <2>5. m \in Messages /\ m.type # "p2pTest"
    BY <2>2, <2>3, TypesOfMessages
  <2> HIDE DEF m
  <2>6. InKept
    BY <2>4, <2>5 DEF AllGenuine
  <2> QED
    BY <1>2, <1>4, <2>4, <2>6
<1>6. ASSUME NEW a \in Assists, AssistTakes(a) PROVE AllGenuine'
  <2> DEFINE out == assist[a].out
             m == Head(out)
             r == [assist[a] EXCEPT !.out = Tail(@)]
  <2>1. /\ assist[a] \in AssistRecs /\ out # <<>> /\ PutA(a, r)
        /\ in' = in \cup {m}
    BY <1>6 DEF AssistsGood, AssistTakes
  <2>2. out \in Seq(Tests) /\ r.out = Tail(out)
    BY <2>1 DEF AssistRecs
  <2>3. m = out[1] /\ m \in Tests /\ Len(out) \in Nat \ {0}
    BY <2>1, <2>2
  <2>4. Genuine(m)
    BY <2>3 DEF AllGenuine
  <2>5. InKept
    BY <2>1, <2>3, <2>4 DEF AllGenuine, Messages
  <2>6. \A i \in 1..Len(Tail(out)) : i + 1 \in 1..Len(out) /\ Tail(out)[i] = out[i + 1]
    BY <2>1, <2>2
  <2>7. \A b \in Assists : assist'[b] = IF b = a THEN r ELSE assist[b]
    BY <2>1 DEF AssistsGood, PutA
  <2> HIDE DEF r, m
  <2>8. OutKept
    BY ZenonT(60), <2>2, <2>6, <2>7 DEF AllGenuine
  <2> QED
    BY <1>2, <2>5, <2>8
<1>7. ASSUME NEW k \in Relays, RelaySend(k) PROVE AllGenuine'
  <2> DEFINE a == relay[k].assist
             m == P2pTest(k, Hdr(relay[k].seq))
             r == [assist[a] EXCEPT !.out = Append(@, m)]
             out == assist[a].out
  <2>1. /\ a \in Assists /\ Active(k) /\ in' = in
        /\ assist' = assist \/ PutA(a, r)
    BY <1>7 DEF RelaysGood, RelayGood, Active, RelaySend
  <2>2. /\ m.id = k /\ m.seq = Hdr(relay[k].seq)
        /\ relay[k].seq \in 1..seqMax
    BY <2>1 DEF P2pTest, Numbers
  <2>3. \A j \in Relays : Active(j) /\ relay[j].seq = relay[k].seq => j = m.id
    BY <2>1, <2>2 DEF Numbers
  <2>4. Genuine(m)
    BY <2>2, <2>3 DEF Genuine, CutFrom
  <2>5. relay[k].seq \in Nat
    BY DEF RelaysGood, RelayRecs
  <2>6. m \in Tests
    BY <2>5, CutType DEF P2pTest, Tests
  <2>7. assist[a] \in AssistRecs /\ out \in Seq(Tests)
    BY <2>1 DEF AssistsGood, AssistRecs
  <2>8. r.out = Append(out, m)
    BY <2>7 DEF AssistRecs
  <2> HIDE DEF m, a
  <2>9. ASSUME PutA(a, r) PROVE OutKept
    <3>1. \A b \in Assists : assist'[b] = IF b = a THEN r ELSE assist[b]
      BY <2>1, <2>9 DEF AssistsGood, PutA
    <3>2. \A i \in 1..Len(Append(out, m)) :
            Append(out, m)[i] = m \/ (i \in 1..Len(out) /\ Append(out, m)[i] = out[i])
      BY <2>6, <2>7
    <3> HIDE DEF r
    <3> QED
      BY <2>1, <2>4, <2>8, <3>1, <3>2 DEF AllGenuine
  <2> QED
    BY <1>2, <1>3, <1>4, <2>1, <2>9
<1>8. ASSUME NEW a \in Assists,
             RegistAssist(a) \/ AssistGoesDying(a) \/ AssistCloses(a)
      PROVE  AllGenuine'
  <2> DEFINE r == [assist[a] EXCEPT !.state = "up"]
             s == [assist[a] EXCEPT !.state = "killed", !.out = <<>>]
             q == [assist[a] EXCEPT !.state = "closed", !.out = <<>>,
                                    !.open = @ /\ assists[Address[a]] = Nobody]
  <2>1. in' = in /\ (PutA(a, r) \/ PutA(a, s) \/ PutA(a, q))
    BY <1>8 DEF RegistAssist, AssistGoesDying, AssistCloses
  <2>2. assist[a] \in AssistRecs /\ assist \in [Assists -> AssistRecs]
    BY DEF AssistsGood
  <2>3. r.out = assist[a].out /\ s.out = <<>> /\ q.out = <<>>
    BY <2>2 DEF AssistRecs
  <2> HIDE DEF r, s, q
  <2>4. \A b \in Assists : assist'[b].out = assist[b].out \/ assist'[b].out = <<>>
    BY <2>1, <2>2, <2>3 DEF PutA
  <2>5. Len(<<>>) = 0
    OBVIOUS
  <2>6. ASSUME NEW b \in Assists, NEW i \in 1..Len(assist'[b].out)
        PROVE  Genuine(assist'[b].out[i])
    BY <2>4, <2>5, <2>6 DEF AllGenuine
  <2> QED
    BY <1>2, <1>3, <2>1, <2>6
<1>9. \/ OthersPing
      \/ \E c \in Clients : \/ Discover(c) \/ AskTimeout(c) \/ AskDelete(c)
                            \/ AskEnds(c) \/ EndpointFails(c) \/ EndpointCloses(c)
      \/ \E c \in Clients, n \in 1..MaxAsks : TakePing(c, n) \/ TakeFromAss(c, n)
      \/ \E k \in Relays : \/ HookAdd(k) \/ HookDel(k) \/ RelayWait(k)
                           \/ RelayDrained(k) \/ RelayAnswers(k) \/ RelayFallsBack(k)
                           \/ \E q \in 0..(SeqSpace - 1) : TakeTest(k, q)
      \/ \E a \in Assists : TakeAssPing(a)
      => in' \subseteq in /\ assist' = assist
  BY DEF OthersPing, Discover, AskTimeout, AskDelete, AskEnds, EndpointFails,
         EndpointCloses, TakePing, TakeFromAss, HookAdd, HookDel, RelayWait,
         RelayDrained, RelayAnswers, RelayFallsBack, ToClient, TakeTest, TakeAssPing, Take
<1> QED
  BY <1>2, <1>3, <1>4, <1>5, <1>6, <1>7, <1>8, <1>9
  DEF Next, Loop, Client, Relaying

\* What a step does to the pings under way: clients' numbers only grow, and a
\* ping that is relayed, or waits in s.in, is one that did before, or a
\* client's last.
LEMMA OldStep ==
  ASSUME IInv, Next
  PROVE  OldPings'
<1> USE DEF IInv
<1> DEFINE Grow == \A c \in Clients : client'[c].num >= client[c].num
           SameRelays == \A k \in Relays : Active(k)' =>
                           /\ Active(k) /\ relay'[k].num = relay[k].num
                           /\ relay'[k].client = relay[k].client
           SameIn == \A m \in in' : m \in in \/ m.type = "p2pTest"
<1>1. /\ \A c \in Clients : client[c] \in ClientRecs /\ client[c].num \in Nat
      /\ client \in [Clients -> ClientRecs]
      /\ \A k \in Relays : relay[k] \in RelayRecs /\ relay[k].num \in Nat
      /\ \A k \in Relays : Active(k) => relay[k].client \in Clients
      /\ \A m \in in : m.type # "p2pTest" => m.client \in Clients /\ m.num \in Nat
  BY DEF ClientsGood, ClientRecs, RelaysGood, RelayGood, RelayRecs, AllGenuine,
         Messages, Tests
<1>2. \A c \in Clients : client'[c].num \in Nat
  BY ClientsStep, RelayAssumption DEF ClientsGood, ClientRecs
<1>3. ASSUME Grow, SameRelays, SameIn PROVE OldPings'
  <2>1. ASSUME NEW k \in Relays, Active(k)'
        PROVE  relay'[k].num <= client'[relay'[k].client].num
    BY <1>1, <1>2, <1>3, <2>1 DEF OldPings
  <2>2. ASSUME NEW m \in in', m.type # "p2pTest"
        PROVE  m.num <= client'[m.client].num
    BY <1>1, <1>2, <1>3, <2>2 DEF OldPings
  <2> QED
    BY <2>1, <2>2 DEF OldPings
<1>4. client' = client => Grow
  BY <1>1
<1>5. relay' = relay => SameRelays
  BY DEF Active
<1>6. in' \subseteq in => SameIn
  OBVIOUS
<1>7. ASSUME NEW c \in Clients, NEW p, PutC(c, p), p.num >= client[c].num PROVE Grow
  BY <1>1, <1>7 DEF PutC
<1>8. ASSUME NEW c, NEW hdr, NEW what, NEW alter, Answered(c, hdr, what, alter) PROVE Grow
  <2>1. CASE client' = client
    BY <1>4, <2>1
  <2>2. CASE c \notin Clients
    BY <1>1, <1>4, <1>8, <2>2 DEF Answered, PutC
  <2>3. CASE c \in Clients
    <3> DEFINE q == [client[c] EXCEPT !.hook = FALSE, !.resp = what, !.alter = alter]
    <3>1. client' = client \/ PutC(c, q)
      BY <1>8 DEF Answered
    <3>2. q.num = client[c].num
      BY <1>1, <2>3 DEF ClientRecs
    <3>3. q.num >= client[c].num
      BY <1>1, <2>3, <3>2
    <3> HIDE DEF q
    <3> QED
      BY <1>4, <1>7, <2>3, <3>1, <3>3
  <2> QED
    BY <2>2, <2>3
<1>9. ASSUME NEW k \in Relays, NEW r, PutR(k, r),
             r = Done \/ (Active(k) /\ r.num = relay[k].num /\ r.client = relay[k].client)
      PROVE  SameRelays
  <2>1. \A j \in Relays : relay'[j] = IF j = k THEN r ELSE relay[j]
    BY <1>9 DEF PutR, RelaysGood
  <2>2. Done.at = "done"
    BY DEF Done, NewRelay
  <2> QED
    BY <1>9, <2>1, <2>2 DEF Active
<1> HIDE DEF Grow, SameRelays, SameIn
<1>10. ASSUME NEW c \in Clients, Ask(c) PROVE OldPings'
  <2> DEFINE n == client[c].num + 1
             p == [client[c] EXCEPT !.at = "wait", !.num = @ + 1, !.hook = TRUE,
                                    !.resp = Empty]
             m == IF p.phase = 1 THEN UdpPing(c, p.num) ELSE AssPong(c, p.num)
  <2>1. client[c] \in ClientRecs /\ client[c].num \in Nat /\ relay' = relay /\ PutC(c, p)
    BY <1>1, <1>10 DEF Ask
  <2>2. p.num = n /\ n >= client[c].num /\ n \in Nat
    BY <2>1 DEF ClientRecs
  <2>3. in' = in \/ in' = in \cup {m}
    BY <1>10 DEF Ask, Arrives
  <2>4. m.client = c /\ m.num = n
    BY <2>2 DEF UdpPing, AssPong
  <2>5. client'[c] = p
    BY <1>1, <2>1 DEF PutC
  <2>6. client'[c].num = n
    BY <2>2, <2>5
  <2> HIDE DEF p, m, n
  <2>7. Grow
    BY <1>7, <2>1, <2>2
  <2>8. ASSUME NEW k \in Relays, Active(k)'
        PROVE  relay'[k].num <= client'[relay'[k].client].num
    BY <1>1, <1>2, <2>1, <2>7, <2>8 DEF OldPings, Active, Grow
  <2>9. ASSUME NEW x \in in', x.type # "p2pTest"
        PROVE  x.num <= client'[x.client].num
    <3>1. CASE x \in in
      BY <1>1, <1>2, <2>7, <2>9, <3>1 DEF OldPings, Grow
    <3>2. CASE x = m
      BY <2>2, <2>4, <2>6, <3>2
    <3> QED
      BY <2>3, <3>1, <3>2
  <2> QED
    BY <2>8, <2>9 DEF OldPings
<1>11. ASSUME NEW c \in Clients, NEW n \in 1..MaxAsks, TakePing(c, n) PROVE OldPings'
  <2>1. Grow
    BY <1>4, <1>8, <1>11 DEF TakePing
  <2>2. n <= client[c].num /\ in' \subseteq in
    BY <1>11 DEF TakePing, Take, UdpPing, OldPings
  <2>3. client'[c].num >= n
    BY <1>1, <1>2, <2>1, <2>2 DEF Grow
  <2>4. CASE relay' = relay
    BY <1>3, <1>5, <1>6, <2>1, <2>2, <2>4
  <2>5. ASSUME NEW x \in Addresses, NEW k \in Relays,
               PutR(k, [NewRelay EXCEPT
                          !.at = "add", !.seq = seqMax', !.client = c, !.num = n,
                          !.assist = assists[x], !.alter = x])
        PROVE  OldPings'
    <3> DEFINE r == [NewRelay EXCEPT
                       !.at = "add", !.seq = seqMax', !.client = c, !.num = n,
                       !.assist = assists[x], !.alter = x]
    <3>1. r.client = c /\ r.num = n
      BY DEF NewRelay
    <3>2. PutR(k, r)
      BY <2>5
    <3> HIDE DEF r
    <3>3. \A j \in Relays : relay'[j] = IF j = k THEN r ELSE relay[j]
      BY <3>2 DEF PutR, RelaysGood
    <3>4. ASSUME NEW j \in Relays, Active(j)'
          PROVE  relay'[j].num <= client'[relay'[j].client].num
      <4>1. CASE j = k
        BY <2>3, <3>1, <3>3, <4>1, <1>2
      <4>2. CASE j # k
        BY <1>1, <1>2, <2>1, <3>3, <3>4, <4>2 DEF OldPings, Active, Grow
      <4> QED
        BY <4>1, <4>2
    <3>5. ASSUME NEW m \in in', m.type # "p2pTest"
          PROVE  m.num <= client'[m.client].num
      BY <1>1, <1>2, <2>1, <2>2, <3>5 DEF OldPings, Grow
    <3> QED
      BY <3>4, <3>5 DEF OldPings
  <2> QED
    BY <1>11, <2>4, <2>5 DEF TakePing
<1>12. ASSUME NEW c \in Clients,
              \/ Discover(c) \/ AskTimeout(c) \/ AskDelete(c) \/ AskEnds(c)
              \/ EndpointFails(c) \/ EndpointCloses(c)
       PROVE  OldPings'
  <2>1. client[c] \in ClientRecs /\ client[c].num >= client[c].num
    BY <1>1
  <2>2. Grow
    <3>1. CASE Discover(c)
      <4> DEFINE p == [client[c] EXCEPT !.at = "add", !.phase = 1]
      <4>1. p.num = client[c].num /\ PutC(c, p)
        BY <2>1, <3>1 DEF Discover, ClientRecs
      <4> HIDE DEF p
      <4> QED
        BY <1>7, <2>1, <4>1
    <3>2. CASE AskTimeout(c)
      <4> DEFINE p == [client[c] EXCEPT !.at = "del"]
      <4>1. p.num = client[c].num /\ PutC(c, p)
        BY <2>1, <3>2 DEF AskTimeout, ClientRecs
      <4> HIDE DEF p
      <4> QED
        BY <1>7, <2>1, <4>1
    <3>3. CASE AskDelete(c)
      <4> DEFINE p == [client[c] EXCEPT !.at = "drain", !.hook = FALSE,
                         !.resp = IF client[c].hook THEN Closed ELSE @]
      <4>1. p.num = client[c].num /\ PutC(c, p)
        BY <2>1, <3>3 DEF AskDelete, ClientRecs
      <4> HIDE DEF p
      <4> QED
        BY <1>7, <2>1, <4>1
    <3>4. CASE AskEnds(c)
      <4> DEFINE alter == IF client[c].at = "wait" /\ client[c].resp # Closed
                          THEN client[c].alter ELSE NoAddress
                 p == [client[c] EXCEPT !.at = "add", !.phase = 2, !.alter = alter,
                                        !.resp = Empty]
                 q == [client[c] EXCEPT !.at = "idle", !.phase = 1,
                                        !.alter = NoAddress, !.resp = Empty]
      <4>1. p.num = client[c].num /\ q.num = client[c].num
        BY <2>1 DEF ClientRecs
      <4>2. PutC(c, p) \/ PutC(c, q)
        BY <3>4 DEF AskEnds, PutC
      <4> HIDE DEF p, q
      <4> QED
        BY <1>7, <2>1, <4>1, <4>2
    <3>5. CASE EndpointFails(c)
      <4> DEFINE p == [client[c] EXCEPT !.endpoint = "killed", !.at = "idle",
                         !.hook = FALSE, !.resp = Empty,
                         !.alter = NoAddress, !.phase = 1]
      <4>1. p.num = client[c].num /\ PutC(c, p)
        BY <2>1, <3>5 DEF EndpointFails, ClientRecs
      <4> HIDE DEF p
      <4> QED
        BY <1>7, <2>1, <4>1
    <3>6. CASE EndpointCloses(c)
      <4> DEFINE p == [client[c] EXCEPT !.endpoint = "closed"]
      <4>1. p.num = client[c].num /\ PutC(c, p)
        BY <2>1, <3>6 DEF EndpointCloses, ClientRecs
      <4> HIDE DEF p
      <4> QED
        BY <1>7, <2>1, <4>1
    <3> QED
      BY <1>12, <3>1, <3>2, <3>3, <3>4, <3>5, <3>6
  <2>3. relay' = relay /\ in' = in
    BY <1>12 DEF Discover, AskTimeout, AskDelete, AskEnds, EndpointFails, EndpointCloses
  <2> QED
    BY <1>3, <1>5, <1>6, <2>2, <2>3
<1>13. ASSUME NEW k \in Relays, HookAdd(k) \/ HookDel(k) \/ Relaying(k) PROVE OldPings'
  <2>1. Active(k) /\ in' = in /\ relay[k] \in RelayRecs
    BY <1>1, <1>13 DEF HookAdd, HookDel, Relaying, RelaySend, RelayWait, RelayDrained,
                       RelayAnswers, RelayFallsBack, ToClient, Active
  <2>2. Grow
    BY <1>4, <1>8, <1>13 DEF HookAdd, HookDel, Relaying, RelaySend, RelayWait,
                             RelayDrained, RelayAnswers, RelayFallsBack, ToClient
  <2> DEFINE Same(r) == r.num = relay[k].num /\ r.client = relay[k].client
  <2>3. /\ Same([relay[k] EXCEPT !.at = "send"])
        /\ Same([[relay[k] EXCEPT !.at = "send"] EXCEPT !.resp = Closed])
        /\ Same([relay[k] EXCEPT !.at = "drain", !.resp = RespOfDeleted(k)])
        /\ Same([relay[k] EXCEPT !.at = "wait", !.assist = Nobody])
        /\ Same([relay[k] EXCEPT !.at = "drain"]) /\ Same([relay[k] EXCEPT !.at = "del"])
        /\ Same([relay[k] EXCEPT !.at = "forward"])
        /\ Same([relay[k] EXCEPT !.at = "fallback"])
    BY <2>1 DEF RelayRecs
  <2>4. \A r : PutR(k, r) /\ (r = Done \/ Same(r)) => SameRelays
    BY <1>9, <2>1
  <2> HIDE DEF Same
  <2>5. SameRelays
    <3>1. CASE HookAdd(k)
      BY <2>3, <2>4, <3>1 DEF HookAdd
    <3>2. CASE HookDel(k)
      BY <2>3, <2>4, <3>2 DEF HookDel
    <3>3. CASE RelaySend(k)
      BY <1>5, <2>3, <2>4, <3>3 DEF RelaySend
    <3>4. CASE RelayWait(k)
      BY <2>3, <2>4, <3>4 DEF RelayWait
    <3>5. CASE RelayDrained(k)
      BY <2>3, <2>4, <3>5 DEF RelayDrained
    <3>6. CASE RelayAnswers(k) \/ RelayFallsBack(k)
      BY <1>5, <2>4, <3>6 DEF RelayAnswers, RelayFallsBack, ToClient
    <3> QED
      BY <1>13, <3>1, <3>2, <3>3, <3>4, <3>5, <3>6 DEF Relaying
  <2> QED
    BY <1>3, <1>6, <2>1, <2>2, <2>5
<1>14. ASSUME NEW k \in Relays, NEW q \in 0..(SeqSpace - 1), TakeTest(k, q) PROVE OldPings'
  <2>1. client' = client /\ in' \subseteq in
    BY <1>14 DEF TakeTest, Take
  <2>2. CASE relay' = relay
    BY <1>3, <1>4, <1>5, <1>6, <2>1, <2>2
  <2>3. ASSUME NEW j \in hooks, PutR(j, [relay[j] EXCEPT !.resp = k]) PROVE OldPings'
    <3> DEFINE r == [relay[j] EXCEPT !.resp = k]
    <3>1. j \in Relays /\ Active(j) /\ relay[j] \in RelayRecs
      BY <1>1 DEF RelaysGood, RelayGood, Active
    <3>2. r.num = relay[j].num /\ r.client = relay[j].client /\ PutR(j, r)
      BY <2>3, <3>1 DEF RelayRecs
    <3> HIDE DEF r
    <3> QED
      BY <1>3, <1>4, <1>6, <1>9, <2>1, <3>1, <3>2
  <2> QED
    BY <1>14, <2>2, <2>3 DEF TakeTest
<1>15. ASSUME NEW a \in Assists, AssistTakes(a) PROVE OldPings'
  <2>1. relay' = relay /\ client' = client /\ in' = in \cup {Head(assist[a].out)}
    BY <1>15 DEF AssistTakes
  <2>2. assist[a].out \in Seq(Tests) /\ assist[a].out # <<>>
    BY <1>15 DEF AssistTakes, AssistsGood, AssistRecs
  <2>3. Head(assist[a].out) \in Tests
    BY <2>2
  <2>4. SameIn
    BY <2>1, <2>3 DEF SameIn, Tests
  <2> QED
    BY <1>3, <1>4, <1>5, <2>1, <2>4
<1>16. ASSUME NEW c \in Clients, NEW n \in 1..MaxAsks, TakeFromAss(c, n) PROVE OldPings'
  <2>1. relay' = relay /\ in' \subseteq in /\ Grow
    BY <1>8, <1>16 DEF TakeFromAss, Take
  <2> QED
    BY <1>3, <1>5, <1>6, <2>1
<1>17. \/ OthersPing
       \/ \E a \in Assists : \/ TakeAssPing(a) \/ AssistCloses(a) \/ RegistAssist(a)
                             \/ AssistGoesDying(a)
       => relay' = relay /\ client' = client /\ in' = in
  BY DEF OthersPing, TakeAssPing, AssistCloses, RegistAssist, AssistGoesDying
<1>18. relay' = relay /\ client' = client /\ in' = in => OldPings'
  BY <1>3, <1>4, <1>5, <1>6
<1> QED
  BY <1>10, <1>11, <1>12, <1>13, <1>14, <1>15, <1>16, <1>17, <1>18
  DEF Next, Loop, Client
-----------------------------------------------------------------------------
(***************************************************************************)
(* The theorems.                                                           *)
(***************************************************************************)

\* The three facts of an inductive invariant.
LEMMA InitIInv == Init => IInv
<1> SUFFICES ASSUME Init PROVE IInv
  OBVIOUS
<1>1. NewRelay \in RelayRecs /\ NewClient \in ClientRecs
  BY EmptyType, RelayAssumption
  DEF NewRelay, NewClient, RelayRecs, RelayStates, ClientRecs, Nobody
<1>2. NewAssist \in AssistRecs /\ NewAssist.open /\ NewAssist.out = <<>>
  BY EmptySeqType DEF NewAssist, AssistRecs
<1>3. RelaysGood
  BY <1>1 DEF Init, RelaysGood, RelayGood, NewRelay, Active
<1>4. ClientsGood
  BY <1>1 DEF Init, ClientsGood, ClientGood, NewClient, Empty
<1>5. AssistsGood
  BY <1>2 DEF Init, AssistsGood, ListedOpen
<1>6. Numbers
  BY DEF Init, Numbers, NewRelay, Active, Waiting
<1>7. AllGenuine
  BY <1>2 DEF Init, AllGenuine
<1>8. OldPings
  BY DEF Init, OldPings, Active, NewRelay
<1> QED
  BY <1>3, <1>4, <1>5, <1>6, <1>7, <1>8 DEF Init, IInv

LEMMA NextIInv == IInv /\ [Next]_vars => IInv'
<1> SUFFICES ASSUME IInv, [Next]_vars PROVE IInv'
  OBVIOUS
<1>1. CASE Next
  <2>1. crashed' \in BOOLEAN
    BY <1>1 DEF Next, Loop, Client, Relaying, OthersPing, TakePing, TakeFromAss,
        HookAdd, HookDel, TakeTest, TakeAssPing, AssistCloses, Discover, Ask,
        AskTimeout, AskDelete, AskEnds, EndpointFails, EndpointCloses, RelaySend,
        RelayWait, RelayDrained, RelayAnswers, RelayFallsBack, ToClient, RegistAssist, AssistTakes,
        AssistGoesDying, Crash, IInv
  <2> QED
    BY <1>1, <2>1, RelaysStep, ClientsStep, AssistsStep, NumbersStep, GenuineStep,
       OldStep
    DEF IInv
<1>2. CASE UNCHANGED vars
  BY <1>2 DEF vars, IInv, RelaysGood, RelayGood, ClientsGood, ClientGood,
      AssistsGood, ListedOpen, Numbers, AllGenuine, Genuine, CutFrom, Active,
      OldPings
<1> QED
  BY <1>1, <1>2

LEMMA IInvImplies == IInv => TypeOK /\ HooksReady /\ OwnAnswer /\ ListedOpen
  BY DEF IInv, RelaysGood, RelayGood, ClientsGood, ClientGood, AssistsGood,
         Numbers, AllGenuine, TypeOK, HooksReady, OwnAnswer

\* What is known of goroutines, clients, assists and numbers in every state.
THEOREM Inductive == Spec => []IInv
  BY InitIInv, NextIInv, PTL DEF Spec

\* Every variable keeps its type, and a second ping has an address to go to.
THEOREM TypeCorrect == Spec => []TypeOK
  BY Inductive, IInvImplies, PTL

\* The loop of the server, or of a client, never waits for a hook, nor closes
\* one twice, whatever answers and timeouts race.
THEOREM HooksAreReady == Spec => []HooksReady
  BY Inductive, IInvImplies, PTL

\* An answer that is sent on comes from the ping of the client that asked, as
\* long as the numbers in headers come round later than the timeout; and no
\* client takes an answer to another of its pings for that to the last, but for
\* fallbacks of the server.
THEOREM AnswersAreOwn == Spec => []OwnAnswer
  BY Inductive, IInvImplies, PTL

\* However many assists come and go at one address, the one that is listed
\* there can take a ping.
THEOREM ListedAreOpen == Spec => []ListedOpen
  BY Inductive, IInvImplies, PTL
=============================================================================
