----------------------------- MODULE IkcpProofs -----------------------------
(***************************************************************************)
(* Proofs about Ikcp, for every window, every list of messages and any     *)
(* network.                                                                *)
(***************************************************************************)
EXTENDS Ikcp, SequenceTheorems, FiniteSetTheorems, WellFoundedInduction, TLAPS

\* What has no number yet is the rest of the stream.
Queued ==
  /\ snd_nxt <= Len(stream)
  /\ snd_queue = SubSeq(stream, snd_nxt + 1, Len(stream))

\* A segment carries the piece of the stream that its number stands for.
Genuine(s) == s.sn < snd_nxt /\ s.data = stream[s.sn + 1]

AllGenuine ==
  /\ \A s \in snd_buf : Genuine(s)
  /\ \A s \in rcv_buf : Genuine(s)
  /\ \A m \in fwd : m.cmd = "PUSH" => Genuine(m.seg)

\* Only what the receiver has is acknowledged, by number or by una.
Has(sn) == sn < rcv_nxt \/ sn \in Sns(rcv_buf)

AcksTrue ==
  /\ rcv_nxt <= snd_nxt
  /\ \A sn \in acklist : Has(sn)
  /\ \A m \in back : m.una <= rcv_nxt
  /\ \A m \in back : m.cmd = "ACK" => Has(m.sn)

\* What is said of the numbers as naturals.
IInv ==
  TypeOK /\ WithinWindows /\ InOrder /\ NothingLost /\ Queued /\ AllGenuine /\ AcksTrue

\* The sender knows of nothing that the receiver got after its una was u, and
\* the receiver has no older number to acknowledge than the sender can tell.
Told(u) ==
  /\ \A m \in back : m.una <= u /\ (m.cmd = "ACK" => m.sn < u + RcvWnd)
  /\ \A sn \in 0..snd_nxt - 1 : sn \in Sns(snd_buf) \/ sn < u + RcvWnd
  /\ \A n \in acklist : u + SndWnd + RcvWnd <= n + Half

\* No number is half round behind.
Young ==
  /\ \A m \in fwd : m.cmd = "PUSH" => Recent(m.seg.sn, snd_nxt)
  /\ \A m \in back : snd_nxt <= m.una + Half /\ (m.cmd = "ACK" => snd_nxt <= m.sn + Half)
  /\ \E u \in 0..rcv_nxt : Told(u)

\* What Ikcp_input compares, modulo 2^32, are numbers that are less than half round
\* apart: the difference it computes is that of the numbers themselves.
PushExact ==
  \A m \in fwd : m.cmd = "PUSH" =>
    /\ Itimediff(m.seg.sn, rcv_nxt) = m.seg.sn - rcv_nxt
    /\ Itimediff(m.seg.sn, rcv_nxt + RcvWnd) = m.seg.sn - (rcv_nxt + RcvWnd)

AnswerExact ==
  \A m \in back :
    /\ \A s \in snd_buf : Itimediff(m.una, s.sn) = m.una - s.sn
    /\ m.cmd = "ACK" => /\ \A s \in snd_buf : Itimediff(s.sn, m.sn) = s.sn - m.sn
                        /\ \A u \in snd_una..snd_nxt : Itimediff(m.sn, u) = m.sn - u

Exact == PushExact /\ AnswerExact

\* The inductive invariant: without Young, a comparison may come out the wrong way.
Inv == IInv /\ Young
-----------------------------------------------------------------------------
(***************************************************************************)
(* _itimediff.                                                             *)
(***************************************************************************)

\* It is the difference of two numbers that are not half round apart.
LEMMA NearDifference ==
  ASSUME NEW a \in Int, NEW b \in Int, -Half <= a - b, a - b < Half
  PROVE  Itimediff(a, b) = a - b
<1>1. Half \in Nat /\ Half > 0
  BY IkcpAssumption
<1>2. PICK d \in Int : d = a - b
  OBVIOUS
<1>3. PICK m \in Nat : m = 2 * Half /\ m > 0
  BY <1>1
<1>4. CASE d >= 0
  <2>1. d % m = d
    BY <1>1, <1>2, <1>3, <1>4
  <2> QED BY <1>2, <1>3, <2>1 DEF Itimediff
<1>5. CASE d < 0
  <2>1. d % m = d + m /\ ~ (d + m < Half) /\ d + m - m = d
    BY <1>1, <1>2, <1>3, <1>5
  <2> QED BY <1>2, <1>3, <2>1 DEF Itimediff
<1> QED BY <1>4, <1>5
-----------------------------------------------------------------------------
(***************************************************************************)
(* The least element of a set of naturals.                                 *)
(***************************************************************************)
Below == {p \in Nat \X Nat : p[1] < p[2]}

LEMMA BelowWellFounded == IsWellFoundedOn(Below, Nat)
<1>1. OpToRel(<, Nat) = Below
  BY Zenon DEF OpToRel, Below
<1>2. QED
  BY <1>1, NatLessThanWellFounded, Zenon

LEMMA LeastExists ==
  ASSUME NEW S, S \subseteq Nat, S # {}
  PROVE  \E x \in S : \A y \in S : x <= y
<1>1. PICK x \in S : \A y \in S : ~ (<<y, x>> \in Below)
  BY BelowWellFounded, WFMin
<1>2. ASSUME NEW y \in S PROVE x <= y
  <2>1. x \in Nat /\ y \in Nat
    OBVIOUS
  <2>2. ~ (<<y, x>> \in {p \in Nat \X Nat : p[1] < p[2]})
    BY <1>1 DEF Below
  <2>3. ~ (y < x)
    <3>1. SUFFICES ASSUME y < x PROVE FALSE
      OBVIOUS
    <3>2. <<y, x>> \in Nat \X Nat
      BY <2>1
    <3>3. <<y, x>>[1] = y /\ <<y, x>>[2] = x
      OBVIOUS
    <3>4. QED
      BY <2>2, <3>1, <3>2, <3>3
  <2>4. QED
    BY <2>1, <2>3
<1>3. QED
  BY <1>2

LEMMA LeastIsLeast ==
  ASSUME NEW S, S \subseteq Nat, S # {}
  PROVE  Least(S) \in S /\ \A y \in S : Least(S) <= y
BY LeastExists DEF Least

(***************************************************************************)
(* ikcp_shrink_buf: the new snd_una lies between the old one and snd_nxt,  *)
(* and nothing in the buffer lies before it.                               *)
(***************************************************************************)
LEMMA ShrinkBounds ==
  ASSUME snd_una \in Nat, snd_nxt \in Nat, snd_una <= snd_nxt,
         NEW buf, Sns(buf) \subseteq snd_una..snd_nxt - 1
  PROVE  /\ Shrink(buf) \in snd_una..snd_nxt
         /\ Sns(buf) \subseteq Shrink(buf)..snd_nxt - 1
<1>1. CASE buf = {}
  BY <1>1 DEF Shrink, Sns
<1>2. CASE buf # {}
  <2>1. Sns(buf) # {} /\ Sns(buf) \subseteq Nat
    BY <1>2 DEF Sns
  <2>2. Least(Sns(buf)) \in Sns(buf) /\ \A y \in Sns(buf) : Least(Sns(buf)) <= y
    BY <2>1, LeastIsLeast
  <2>3. Shrink(buf) = Least(Sns(buf))
    BY <1>2 DEF Shrink
  <2>4. QED
    BY <2>2, <2>3
<1>3. QED
  BY <1>1, <1>2

(***************************************************************************)
(* Two sequences joined make the beginning of a third when each agrees     *)
(* with its part of it.                                                    *)
(***************************************************************************)
Begin(s, a, b) ==
  /\ \A i \in 1..Len(a) : a[i] = s[i]
  /\ \A i \in 1..Len(b) : b[i] = s[Len(a) + i]

LEMMA JoinIsPrefix ==
  ASSUME NEW S, NEW s \in Seq(S), NEW a \in Seq(S), NEW b \in Seq(S),
         Len(a) + Len(b) <= Len(s), Begin(s, a, b)
  PROVE  a \o b = SubSeq(s, 1, Len(a) + Len(b))
<1> DEFINE n == Len(a) + Len(b)
           t == SubSeq(s, 1, n)
<1>1. a \o b \in Seq(S) /\ Len(a \o b) = n
  BY ConcatProperties
<1>2. n \in Nat
  OBVIOUS
<1>3. \A i \in 1..n : s[i] \in S
  OBVIOUS
<1>4. t \in Seq(S) /\ Len(t) = n /\ \A i \in 1..n : t[i] = s[i]
  BY <1>2, <1>3, SubSeqProperties
<1>5. ASSUME NEW i \in 1..n PROVE (a \o b)[i] = t[i]
  <2>1. (a \o b)[i] = IF i <= Len(a) THEN a[i] ELSE b[i - Len(a)]
    BY ConcatProperties
  <2>2. CASE i <= Len(a)
    BY <2>1, <2>2, <1>4 DEF Begin
  <2>3. CASE ~ (i <= Len(a))
    <3>1. i - Len(a) \in 1..Len(b) /\ Len(a) + (i - Len(a)) = i
      BY <2>3
    <3>2. QED
      BY <2>1, <2>3, <3>1, <1>4 DEF Begin
  <2>4. QED
    BY <2>2, <2>3
<1>6. QED
  BY <1>1, <1>4, <1>5, SeqEqual

\* And conversely.
LEMMA PrefixOfJoin ==
  ASSUME NEW S, NEW s \in Seq(S), NEW a \in Seq(S), NEW b \in Seq(S),
         NEW n \in Nat, n <= Len(s), a \o b = SubSeq(s, 1, n)
  PROVE  Len(a) + Len(b) = n /\ Begin(s, a, b)
<1>1. \A i \in 1..n : s[i] \in S
  OBVIOUS
<1>2. Len(SubSeq(s, 1, n)) = n /\ \A i \in 1..n : SubSeq(s, 1, n)[i] = s[i]
  BY <1>1, SubSeqProperties
<1>3. /\ Len(a \o b) = Len(a) + Len(b)
      /\ \A i \in 1..Len(a) + Len(b) :
           (a \o b)[i] = IF i <= Len(a) THEN a[i] ELSE b[i - Len(a)]
  BY ConcatProperties
<1>4. ASSUME NEW i \in 1..Len(a) PROVE a[i] = s[i]
  BY <1>2, <1>3
<1>5. ASSUME NEW i \in 1..Len(b) PROVE b[i] = s[Len(a) + i]
  <2>1. Len(a) + i \in 1..Len(a) + Len(b) /\ ~ (Len(a) + i <= Len(a)) /\ Len(a) + i - Len(a) = i
    OBVIOUS
  <2>2. QED
    BY <1>2, <1>3, <2>1
<1>6. QED
  BY <1>2, <1>3, <1>4, <1>5 DEF Begin

(***************************************************************************)
(* The rest of a sequence after its first k elements, element by element.  *)
(***************************************************************************)
LEMMA RestElements ==
  ASSUME NEW S, NEW s \in Seq(S), NEW k \in Nat, k <= Len(s)
  PROVE  /\ SubSeq(s, k + 1, Len(s)) \in Seq(S)
         /\ Len(SubSeq(s, k + 1, Len(s))) = Len(s) - k
         /\ \A i \in 1..Len(s) - k : SubSeq(s, k + 1, Len(s))[i] = s[k + i]
<1>1. Len(s) \in Nat /\ k + 1 \in Int /\ \A i \in k + 1..Len(s) : s[i] \in S
  OBVIOUS
<1> DEFINE r == SubSeq(s, k + 1, Len(s))
<1>2. /\ r \in Seq(S)
      /\ Len(r) = IF k + 1 <= Len(s) THEN Len(s) - (k + 1) + 1 ELSE 0
      /\ \A i \in 1..Len(s) - (k + 1) + 1 : r[i] = s[k + 1 + i - 1]
  BY <1>1, SubSeqProperties
<1> HIDE DEF r
<1>3. Len(r) = Len(s) - k
  BY <1>1, <1>2
<1>4. ASSUME NEW i \in 1..Len(s) - k PROVE r[i] = s[k + i]
  <2>1. i \in 1..Len(s) - (k + 1) + 1 /\ k + 1 + i - 1 = k + i
    BY <1>1
  <2>2. QED
    BY <1>2, <2>1
<1>5. QED
  BY <1>2, <1>3, <1>4 DEF r

LEMMA IsRest ==
  ASSUME NEW S, NEW s \in Seq(S), NEW q \in Seq(S), NEW k \in Nat, k <= Len(s),
         Len(q) = Len(s) - k, \A i \in 1..Len(s) - k : q[i] = s[k + i]
  PROVE  q = SubSeq(s, k + 1, Len(s))
<1> DEFINE r == SubSeq(s, k + 1, Len(s))
<1>1. r \in Seq(S) /\ Len(r) = Len(s) - k /\ \A i \in 1..Len(s) - k : r[i] = s[k + i]
  BY RestElements
<1> HIDE DEF r
<1>2. q = r
  BY <1>1, SeqEqual
<1>3. QED
  BY <1>2 DEF r
-----------------------------------------------------------------------------
(***************************************************************************)
(* Moving segments from buf to queue: before stands for what was taken     *)
(* from the queue already.                                                 *)
(***************************************************************************)
MoveReady(buf, queue, before) ==
  /\ stream \in Seq(Pieces) /\ queue \in Seq(Pieces) /\ before \in Seq(Pieces)
  /\ rcv_nxt \in Nat /\ snd_nxt \in Nat /\ rcv_nxt <= snd_nxt /\ snd_nxt <= Len(stream)
  /\ buf \subseteq Segs
  /\ \A s \in buf : Genuine(s)
  /\ Sns(buf) \subseteq rcv_nxt..rcv_nxt + RcvWnd - 1
  /\ Len(queue) <= RcvWnd
  /\ before \o queue = SubSeq(stream, 1, rcv_nxt)

Moved(buf, before) ==
  /\ rcv_nxt' \in Nat /\ rcv_nxt <= rcv_nxt' /\ rcv_nxt' <= snd_nxt
  /\ rcv_buf' \subseteq buf
  /\ \A sn \in Sns(buf) : sn < rcv_nxt' \/ sn \in Sns(rcv_buf')
  /\ Sns(rcv_buf') \subseteq rcv_nxt'..rcv_nxt' + RcvWnd - 1
  /\ rcv_queue' \in Seq(Pieces) /\ Len(rcv_queue') <= RcvWnd
  /\ before \o rcv_queue' = SubSeq(stream, 1, rcv_nxt')

LEMMA MoveKeepsOrder ==
  ASSUME NEW buf, NEW queue, NEW before,
         MoveReady(buf, queue, before), MoveInOrder(buf, queue)
  PROVE  Moved(buf, before)
<1>1. /\ stream \in Seq(Pieces) /\ queue \in Seq(Pieces) /\ before \in Seq(Pieces)
      /\ Len(stream) \in Nat /\ Len(queue) \in Nat /\ Len(before) \in Nat
  BY DEF MoveReady
<1>2. /\ rcv_nxt \in Nat /\ snd_nxt \in Nat /\ rcv_nxt <= snd_nxt /\ snd_nxt <= Len(stream)
      /\ RcvWnd \in Nat /\ Len(queue) <= RcvWnd
  BY IkcpAssumption DEF MoveReady
<1>3. /\ buf \subseteq Segs /\ \A s \in buf : Genuine(s)
      /\ Sns(buf) \subseteq rcv_nxt..rcv_nxt + RcvWnd - 1
  BY DEF MoveReady
<1>4. PICK k \in 0..RcvWnd - Len(queue) :
        /\ \A j \in 0..k - 1 : rcv_nxt + j \in Sns(buf)
        /\ rcv_buf' = {s \in buf : s.sn >= rcv_nxt + k}
        /\ rcv_queue' = queue \o [i \in 1..k |-> DataAt(buf, rcv_nxt + i - 1)]
        /\ rcv_nxt' = rcv_nxt + k
  BY DEF MoveInOrder
<1> DEFINE moved == [i \in 1..k |-> DataAt(buf, rcv_nxt + i - 1)]
<1>5. k \in Nat /\ Len(queue) + k <= RcvWnd /\ rcv_nxt' = rcv_nxt + k
  BY <1>1, <1>2, <1>4
<1>6. ASSUME NEW i \in 1..k
      PROVE  /\ rcv_nxt + i <= snd_nxt
             /\ DataAt(buf, rcv_nxt + i - 1) = stream[rcv_nxt + i]
             /\ DataAt(buf, rcv_nxt + i - 1) \in Pieces
  <2>1. i - 1 \in 0..k - 1 /\ rcv_nxt + (i - 1) = rcv_nxt + i - 1
    BY <1>2, <1>5
  <2>2. rcv_nxt + i - 1 \in Sns(buf)
    BY <1>4, <2>1
  <2> DEFINE t == CHOOSE s \in buf : s.sn = rcv_nxt + i - 1
  <2>3. t \in buf /\ t.sn = rcv_nxt + i - 1
    BY <2>2 DEF Sns
  <2>4. t.sn < snd_nxt /\ t.data = stream[t.sn + 1] /\ t.data \in Pieces
    BY <1>3, <2>3 DEF Genuine, Segs
  <2>5. rcv_nxt + i - 1 + 1 = rcv_nxt + i
    BY <1>2
  <2>6. DataAt(buf, rcv_nxt + i - 1) = t.data
    BY DEF DataAt
  <2>7. rcv_nxt + i - 1 < snd_nxt
    BY <2>3, <2>4
  <2>8. rcv_nxt + i <= snd_nxt
    BY <1>2, <2>7
  <2>9. QED
    BY <2>3, <2>4, <2>5, <2>6, <2>8
<1>7. moved \in Seq(Pieces) /\ Len(moved) = k /\ \A i \in 1..k : moved[i] = stream[rcv_nxt + i]
  <2>1. moved \in [1..k -> Pieces]
    BY <1>6
  <2>2. moved \in Seq(Pieces)
    BY <1>5, <2>1
  <2>3. QED
    BY <1>5, <1>6, <2>2
<1>8. rcv_nxt' \in Nat /\ rcv_nxt <= rcv_nxt' /\ rcv_nxt' <= snd_nxt
  <2>1. k = 0 \/ rcv_nxt + k <= snd_nxt
    BY <1>5, <1>6
  <2>2. QED
    BY <1>2, <1>5, <2>1
<1>9. rcv_buf' = {s \in buf : s.sn >= rcv_nxt'}
  BY <1>4
<1>10. \A s \in buf : s.sn \in rcv_nxt..rcv_nxt + RcvWnd - 1
  BY <1>3 DEF Sns
<1>11. \A sn \in Sns(buf) : sn < rcv_nxt' \/ sn \in Sns(rcv_buf')
  BY <1>2, <1>8, <1>9, <1>10 DEF Sns
<1>12. Sns(rcv_buf') \subseteq rcv_nxt'..rcv_nxt' + RcvWnd - 1
  <2>1. SUFFICES ASSUME NEW s \in rcv_buf' PROVE s.sn \in rcv_nxt'..rcv_nxt' + RcvWnd - 1
    BY DEF Sns
  <2>2. s \in buf /\ s.sn >= rcv_nxt'
    BY <1>9
  <2>3. s.sn \in rcv_nxt..rcv_nxt + RcvWnd - 1
    BY <1>10, <2>2
  <2>4. QED
    BY <1>2, <1>8, <2>2, <2>3
<1>13. /\ rcv_queue' \in Seq(Pieces) /\ Len(rcv_queue') = Len(queue) + k
       /\ \A i \in 1..Len(queue) + k :
            rcv_queue'[i] = IF i <= Len(queue) THEN queue[i] ELSE moved[i - Len(queue)]
  <2>1. rcv_queue' = queue \o moved
    BY <1>4
  <2>2. QED
    BY <1>1, <1>7, <2>1, ConcatProperties
<1>14. /\ Len(before) + Len(queue) = rcv_nxt
       /\ \A i \in 1..Len(before) : before[i] = stream[i]
       /\ \A i \in 1..Len(queue) : queue[i] = stream[Len(before) + i]
  <2>1. before \o queue = SubSeq(stream, 1, rcv_nxt)
    BY DEF MoveReady
  <2>2. rcv_nxt <= Len(stream)
    BY <1>1, <1>2
  <2>3. QED
    <3>1. Len(before) + Len(queue) = rcv_nxt /\ Begin(stream, before, queue)
      BY <1>1, <1>2, <2>1, <2>2, PrefixOfJoin
    <3>2. QED
      BY <3>1 DEF Begin
<1>15. ASSUME NEW i \in 1..Len(rcv_queue')
       PROVE  rcv_queue'[i] = stream[Len(before) + i]
  <2>1. CASE i <= Len(queue)
    <3>1. i \in 1..Len(queue) /\ i \in 1..Len(queue) + k
      BY <1>1, <1>5, <1>13, <2>1
    <3>2. QED
      BY <1>13, <1>14, <2>1, <3>1
  <2>2. CASE ~ (i <= Len(queue))
    <3>1. /\ i \in 1..Len(queue) + k /\ i - Len(queue) \in 1..k
          /\ rcv_nxt + (i - Len(queue)) = Len(before) + i
      BY <1>1, <1>5, <1>13, <1>14, <2>2
    <3>2. QED
      BY <1>7, <1>13, <2>2, <3>1
  <2>3. QED
    BY <2>1, <2>2
<1>16. Len(before) + Len(rcv_queue') = rcv_nxt' /\ rcv_nxt' <= Len(stream)
  BY <1>1, <1>2, <1>5, <1>8, <1>13, <1>14
<1>17. before \o rcv_queue' = SubSeq(stream, 1, rcv_nxt')
  <2>1. before \o rcv_queue' = SubSeq(stream, 1, Len(before) + Len(rcv_queue'))
    <3>1. Begin(stream, before, rcv_queue')
      BY <1>14, <1>15 DEF Begin
    <3>2. QED
      BY <1>1, <1>13, <1>16, <3>1, JoinIsPrefix
  <2>2. QED
    BY <1>16, <2>1
<1>18. rcv_buf' \subseteq buf
  BY <1>9
<1>19. Len(rcv_queue') <= RcvWnd
  BY <1>5, <1>13
<1>20. QED
  BY <1>8, <1>11, <1>12, <1>13, <1>17, <1>18, <1>19 DEF Moved
-----------------------------------------------------------------------------
LEMMA InitIInv == Init => IInv
<1> SUFFICES ASSUME Init PROVE IInv
  OBVIOUS
<1> USE DEF Init
<1>1. TypeOK
  <2>1. <<>> \in Seq(Pieces)
    BY EmptySeq
  <2>2. rmt_wnd \in 0..RcvWnd
    BY IkcpAssumption
  <2>3. QED
    BY <2>1, <2>2 DEF TypeOK
<1>2. WithinWindows
  BY IkcpAssumption DEF WithinWindows, Sns
<1>3. InOrder
  <2>1. read \o rcv_queue = <<>>
    BY EmptySeq, ConcatEmptySeq
  <2>2. SubSeq(stream, 1, rcv_nxt) = <<>>
    BY SubSeqEmpty
  <2>3. QED
    BY <2>1, <2>2 DEF InOrder
<1>4. NothingLost
  BY DEF NothingLost
<1>5. Queued
  <2>1. Len(stream) = 0 /\ snd_nxt + 1 = 1
    BY EmptySeq
  <2>2. SubSeq(stream, snd_nxt + 1, Len(stream)) = <<>>
    BY <2>1, SubSeqEmpty
  <2>3. QED
    BY <2>1, <2>2 DEF Queued
<1>6. AllGenuine /\ AcksTrue
  BY DEF AllGenuine, AcksTrue
<1>7. QED
  BY <1>1, <1>2, <1>3, <1>4, <1>5, <1>6 DEF IInv

LEMMA InitYoung == Init => Young
<1> SUFFICES ASSUME Init PROVE Young
  OBVIOUS
<1>1. Told(0)
  BY DEF Init, Told
<1>2. fwd = {} /\ back = {} /\ 0 \in 0..rcv_nxt
  BY DEF Init
<1> QED BY <1>1, <1>2 DEF Young

\* The numbers that the invariants compare.
LEMMA NumberFacts ==
  ASSUME IInv
  PROVE  /\ SndWnd \in Nat \ {0} /\ RcvWnd \in Nat \ {0} /\ Half \in Nat
         /\ 2 * SndWnd + RcvWnd <= Half
         /\ snd_una \in Nat /\ snd_nxt \in Nat /\ rcv_nxt \in Nat
         /\ snd_una <= snd_nxt /\ snd_nxt <= snd_una + SndWnd /\ rcv_nxt <= snd_nxt
BY IkcpAssumption DEF IInv, TypeOK, WithinWindows, AcksTrue

\* What the receiver has is within its window, and was sent.
LEMMA HasBounds ==
  ASSUME IInv, NEW sn \in Nat, Has(sn)
  PROVE  sn < rcv_nxt + RcvWnd /\ sn < snd_nxt
<1>1. CASE sn < rcv_nxt
  BY <1>1, NumberFacts
<1>2. CASE sn \in Sns(rcv_buf)
  <2>1. PICK s \in rcv_buf : s.sn = sn
    BY <1>2 DEF Sns
  <2>2. sn \in rcv_nxt..rcv_nxt + RcvWnd - 1 /\ sn < snd_nxt
    BY <1>2, <2>1 DEF IInv, WithinWindows, AllGenuine, Genuine
  <2> QED BY <2>2, NumberFacts
<1> QED BY <1>1, <1>2 DEF Has

\* The sender is at most its window ahead of what the receiver could ever have told.
LEMMA SentIsNear ==
  ASSUME IInv, NEW u \in Nat,
         \A sn \in 0..snd_nxt - 1 : sn \in Sns(snd_buf) \/ sn < u + RcvWnd
  PROVE  snd_nxt <= u + RcvWnd + SndWnd
<1>1. snd_una <= u + RcvWnd
  <2>1. CASE snd_una = 0
    BY <2>1, NumberFacts
  <2>2. CASE snd_una # 0
    <3>1. snd_una - 1 \in 0..snd_nxt - 1 /\ snd_una - 1 \notin snd_una..snd_nxt - 1
      BY <2>2, NumberFacts
    <3>2. Sns(snd_buf) \subseteq snd_una..snd_nxt - 1
      BY DEF IInv, WithinWindows
    <3>3. snd_una - 1 < u + RcvWnd
      BY <3>1, <3>2
    <3> QED BY <3>3, NumberFacts
  <2> QED BY <2>1, <2>2
<1> QED BY <1>1, NumberFacts

LEMMA SentIsNearReceived ==
  ASSUME IInv
  PROVE  /\ \A sn \in 0..snd_nxt - 1 : sn \in Sns(snd_buf) \/ sn < rcv_nxt + RcvWnd
         /\ snd_nxt <= rcv_nxt + RcvWnd + SndWnd
<1>1. ASSUME NEW sn \in 0..snd_nxt - 1, sn \notin Sns(snd_buf) PROVE sn < rcv_nxt + RcvWnd
  <2>1. sn \in Nat
    OBVIOUS
  <2>2. Has(sn)
    BY <1>1 DEF IInv, NothingLost, Has
  <2> QED BY <2>1, <2>2, HasBounds
<1>2. rcv_nxt \in Nat
  BY NumberFacts
<1>3. \A sn \in 0..snd_nxt - 1 : sn \in Sns(snd_buf) \/ sn < rcv_nxt + RcvWnd
  BY <1>1
<1> QED BY <1>2, <1>3, SentIsNear

(***************************************************************************)
(* Young after a step that numbers nothing and sends nothing.              *)
(***************************************************************************)
Acked(sn) == \E m \in back : sn < m.una \/ (m.cmd = "ACK" /\ sn = m.sn)

LEMMA StillYoung ==
  ASSUME IInv, Young, fwd' \subseteq fwd, back' \subseteq back, snd_nxt' = snd_nxt,
         rcv_nxt' \in Nat, rcv_nxt <= rcv_nxt',
         \A sn \in Sns(snd_buf) : sn \in Sns(snd_buf') \/ Acked(sn),
         \A n \in acklist' : n \in Nat /\ (n \in acklist \/ Recent(n, snd_nxt))
  PROVE  Young'
<1>1. PICK u \in 0..rcv_nxt : Told(u)
  BY DEF Young
<1>2. u \in Nat /\ u <= rcv_nxt /\ u <= snd_nxt /\ u \in 0..rcv_nxt'
  BY NumberFacts
<1>3. \A m \in back : m.una \in Nat /\ m.una <= u /\ (m.cmd = "ACK" => m.sn < u + RcvWnd)
  BY <1>1 DEF Told, IInv, TypeOK, Backward
<1>4. ASSUME NEW sn \in 0..snd_nxt - 1 PROVE sn \in Sns(snd_buf') \/ sn < u + RcvWnd
  <2>1. sn \in Sns(snd_buf) \/ sn < u + RcvWnd
    BY <1>1 DEF Told
  <2>2. ASSUME Acked(sn) PROVE sn < u + RcvWnd
    <3>1. PICK m \in back : sn < m.una \/ (m.cmd = "ACK" /\ sn = m.sn)
      BY <2>2 DEF Acked
    <3>2. CASE sn < m.una
      BY <1>2, <1>3, <3>2, NumberFacts
    <3>3. CASE m.cmd = "ACK" /\ sn = m.sn
      BY <1>3, <3>3
    <3> QED BY <3>1, <3>2, <3>3
  <2> QED BY <2>1, <2>2
<1>5. ASSUME NEW n \in acklist' PROVE u + SndWnd + RcvWnd <= n + Half
  <2>1. CASE n \in acklist
    BY <1>1, <2>1 DEF Told
  <2>2. CASE Recent(n, snd_nxt)
    <3>1. n \in Nat /\ snd_nxt + SndWnd + RcvWnd <= n + Half
      BY <2>2 DEF Recent
    <3> QED BY <1>2, <3>1, NumberFacts
  <2> QED BY <2>1, <2>2
<1>6. Told(u)'
  <2>1. \A m \in back' : m.una <= u /\ (m.cmd = "ACK" => m.sn < u + RcvWnd)
    BY <1>3
  <2>2. Sns(snd_buf)' = Sns(snd_buf')
    BY DEF Sns
  <2> QED BY <1>4, <1>5, <2>1, <2>2 DEF Told
<1>7. \A m \in fwd' : m.cmd = "PUSH" => Recent(m.seg.sn, snd_nxt')
  BY DEF Young
<1>8. \A m \in back' : snd_nxt' <= m.una + Half /\ (m.cmd = "ACK" => snd_nxt' <= m.sn + Half)
  BY DEF Young
<1> QED BY <1>2, <1>6, <1>7, <1>8 DEF Young, Recent

(***************************************************************************)
(* The sender takes in an answer.                                          *)
(***************************************************************************)

LEMMA AnswersExact == IInv /\ Young => AnswerExact
<1> SUFFICES ASSUME IInv, Young, NEW m \in back
             PROVE  /\ \A s \in snd_buf : Itimediff(m.una, s.sn) = m.una - s.sn
                    /\ m.cmd = "ACK" => /\ \A s \in snd_buf : Itimediff(s.sn, m.sn) = s.sn - m.sn
                                        /\ \A u \in snd_una..snd_nxt : Itimediff(m.sn, u) = m.sn - u
  BY DEF AnswerExact
<1>1. \A s \in snd_buf : s.sn \in Nat /\ snd_una <= s.sn /\ s.sn < snd_nxt
  <2>1. \A s \in snd_buf : s.sn \in snd_una..snd_nxt - 1
    BY DEF IInv, WithinWindows, Sns
  <2>2. \A n \in snd_una..snd_nxt - 1 : n \in Nat /\ snd_una <= n /\ n < snd_nxt
    BY NumberFacts
  <2> QED BY <2>1, <2>2
<1>2. m.una \in Nat /\ m.una <= snd_nxt /\ snd_nxt <= m.una + Half
  <2>1. m.una \in Nat /\ m.una <= rcv_nxt
    BY DEF IInv, TypeOK, Backward, AcksTrue
  <2>2. snd_nxt <= m.una + Half
    BY DEF Young
  <2> QED BY <2>1, <2>2, NumberFacts
<1>3. ASSUME NEW s \in snd_buf PROVE Itimediff(m.una, s.sn) = m.una - s.sn
  <2>1. -Half <= m.una - s.sn /\ m.una - s.sn < Half
    BY <1>1, <1>2, NumberFacts
  <2> QED BY <1>1, <1>2, <2>1, NearDifference
<1>4. ASSUME m.cmd = "ACK" PROVE m.sn \in Nat /\ m.sn < snd_nxt /\ snd_nxt <= m.sn + Half
  <2>1. m.sn \in Nat /\ Has(m.sn)
    BY <1>4 DEF IInv, TypeOK, Backward, AcksTrue
  <2>2. snd_nxt <= m.sn + Half
    BY <1>4 DEF Young
  <2> QED BY <2>1, <2>2, HasBounds
<1>5. ASSUME m.cmd = "ACK", NEW s \in snd_buf PROVE Itimediff(s.sn, m.sn) = s.sn - m.sn
  <2>1. -Half <= s.sn - m.sn /\ s.sn - m.sn < Half
    BY <1>1, <1>4, <1>5, NumberFacts
  <2> QED BY <1>1, <1>4, <1>5, <2>1, NearDifference
<1>6. ASSUME m.cmd = "ACK", NEW u \in snd_una..snd_nxt PROVE Itimediff(m.sn, u) = m.sn - u
  <2>1. u \in Nat /\ snd_una <= u /\ u <= snd_nxt
    BY NumberFacts
  <2>2. -Half <= m.sn - u /\ m.sn - u < Half
    BY <1>4, <1>6, <2>1, NumberFacts
  <2> QED BY <1>4, <1>6, <2>1, <2>2, NearDifference
<1> QED BY <1>3, <1>5, <1>6

\* A segment leaves snd_buf only when its own number, or a later una, comes back.
LEMMA RemovedIsAcked ==
  ASSUME IInv, Young, NEW m \in back, SenderInput(m), NEW s \in snd_buf
  PROVE  s \in snd_buf' \/ s.sn < m.una \/ (m.cmd = "ACK" /\ s.sn = m.sn)
<1>1. s.sn \in Nat /\ m.una \in Nat /\ (m.cmd = "ACK" => m.sn \in Nat)
  BY DEF IInv, TypeOK, Segs, Backward
<1>2. Itimediff(m.una, s.sn) = m.una - s.sn
  BY AnswersExact DEF AnswerExact
<1>3. ~ (s.sn < m.una) => s \in ParseUna(snd_buf, m.una)
  BY <1>1, <1>2 DEF ParseUna
<1>4. CASE m.cmd = "ACK"
  <2>1. Itimediff(s.sn, m.sn) = s.sn - m.sn
    BY <1>4, AnswersExact DEF AnswerExact
  <2>2. s.sn # m.sn => Itimediff(s.sn, m.sn) # 0
    BY <1>1, <1>4, <2>1
  <2>3. snd_buf' = ParseAck(ParseUna(snd_buf, m.una), Shrink(ParseUna(snd_buf, m.una)), m.sn)
    BY <1>4 DEF SenderInput, InputAck, InputWins
  <2> QED BY <1>3, <1>4, <2>2, <2>3 DEF ParseAck
<1>5. CASE m.cmd # "ACK"
  BY <1>3, <1>5 DEF SenderInput, InputAck, InputWins
<1> QED BY <1>4, <1>5

LEMMA SenderInputKeeps ==
  ASSUME IInv, Young, NEW m \in back, SenderInput(m)
  PROVE  IInv' /\ Young'
<1>1. TypeOK /\ WithinWindows /\ InOrder /\ NothingLost /\ Queued /\ AllGenuine /\ AcksTrue
  BY DEF IInv
<1>2. UNCHANGED <<stream, read, snd_queue, snd_nxt, probing, rcv_nxt, rcv_buf, rcv_queue,
                  acklist, tell, fwd>>
  BY DEF SenderInput, history, receiver
<1>3. rmt_wnd' = m.wnd /\ back' \subseteq back
  BY DEF SenderInput, Delivered
<1>4. m \in Backward /\ m.wnd \in 0..RcvWnd /\ m.una \in Nat /\ m.una <= rcv_nxt
  <2>1. m \in Backward
    BY <1>1 DEF TypeOK
  <2>2. m.wnd \in 0..RcvWnd /\ m.una \in Nat
    BY <2>1 DEF Backward
  <2>3. QED
    BY <1>1, <2>1, <2>2 DEF AcksTrue
<1>5. \A s \in snd_buf : s \in snd_buf' \/ s.sn < m.una \/ (m.cmd = "ACK" /\ s.sn = m.sn)
  BY RemovedIsAcked
<1>6. snd_buf' \subseteq snd_buf /\ snd_una' = Shrink(snd_buf')
  BY DEF SenderInput, InputAck, InputWins, ParseAck, ParseUna
<1>7. snd_una \in Nat /\ snd_nxt \in Nat /\ snd_una <= snd_nxt /\ snd_nxt <= snd_una + SndWnd
      /\ SndWnd \in Nat
  BY <1>1, IkcpAssumption DEF TypeOK, WithinWindows
<1>8. Sns(snd_buf') \subseteq snd_una..snd_nxt - 1
  BY <1>1, <1>6 DEF WithinWindows, Sns
<1>9. /\ snd_una' \in snd_una..snd_nxt
      /\ Sns(snd_buf') \subseteq snd_una'..snd_nxt - 1
  BY <1>6, <1>7, <1>8, ShrinkBounds
<1>10. TypeOK'
  <2>1. snd_buf' \subseteq Segs /\ back' \subseteq Backward
    BY <1>1, <1>3, <1>6 DEF TypeOK
  <2>2. snd_una' \in Nat
    BY <1>7, <1>9
  <2>3. QED
    BY <1>1, <1>2, <1>3, <1>4, <2>1, <2>2 DEF TypeOK
<1>11. WithinWindows'
  <2>1. snd_una' <= snd_nxt /\ snd_nxt <= snd_una' + SndWnd
    <3>1. snd_una' \in snd_una..snd_nxt
      BY <1>9
    <3>2. \A x \in snd_una..snd_nxt : x <= snd_nxt /\ snd_nxt <= x + SndWnd
      BY <1>7
    <3>3. QED
      BY <3>1, <3>2
  <2>2. QED
    BY <1>1, <1>2, <1>9, <2>1 DEF WithinWindows, Sns
<1>12. InOrder' /\ Queued'
  BY <1>1, <1>2 DEF InOrder, Queued
<1>13. NothingLost'
  <2>1. SUFFICES ASSUME NEW sn \in 0..snd_nxt - 1
                 PROVE  sn \in Sns(snd_buf') \/ sn < rcv_nxt \/ sn \in Sns(rcv_buf)
    BY <1>2 DEF NothingLost, Sns
  <2>2. CASE sn \in Sns(snd_buf)
    <3>1. PICK s \in snd_buf : s.sn = sn
      BY <2>2 DEF Sns
    <3>2. CASE s \in snd_buf'
      BY <3>1, <3>2 DEF Sns
    <3>3. CASE s.sn < m.una
      <4>1. rcv_nxt \in Nat
        BY <1>1 DEF TypeOK
      <4>2. QED
        BY <1>4, <3>1, <3>3, <4>1
    <3>4. CASE m.cmd = "ACK" /\ s.sn = m.sn
      BY <1>1, <3>1, <3>4 DEF AcksTrue, Has
    <3>5. QED
      BY <1>5, <3>2, <3>3, <3>4
  <2>3. CASE sn \notin Sns(snd_buf)
    BY <1>1, <2>3 DEF NothingLost
  <2>4. QED
    BY <2>2, <2>3
<1>14. AllGenuine'
  BY <1>1, <1>2, <1>6 DEF AllGenuine, Genuine
<1>15. AcksTrue'
  BY <1>1, <1>2, <1>3 DEF AcksTrue, Has, Sns
<1>16. IInv'
  BY <1>10, <1>11, <1>12, <1>13, <1>14, <1>15 DEF IInv
<1>17. \A sn \in Sns(snd_buf) : sn \in Sns(snd_buf') \/ Acked(sn)
  BY <1>5 DEF Sns, Acked
<1>18. \A n \in acklist' : n \in Nat /\ n \in acklist
  BY <1>1, <1>2 DEF TypeOK
<1>19. rcv_nxt' \in Nat /\ rcv_nxt <= rcv_nxt'
  BY <1>2, NumberFacts
<1>20. Young'
  BY <1>2, <1>3, <1>17, <1>18, <1>19, StillYoung
<1>21. QED
  BY <1>16, <1>20

(***************************************************************************)
(* The receiver's steps: what it must keep for the invariant to hold.      *)
(***************************************************************************)
Advanced ==
  /\ rcv_nxt' \in Nat /\ rcv_nxt <= rcv_nxt' /\ rcv_nxt' <= snd_nxt
  /\ rcv_buf' \subseteq Segs /\ \A s \in rcv_buf' : Genuine(s)
  /\ Sns(rcv_buf') \subseteq rcv_nxt'..rcv_nxt' + RcvWnd - 1
  /\ \A sn \in Nat : Has(sn) => sn < rcv_nxt' \/ sn \in Sns(rcv_buf')
  /\ read' \in Seq(Pieces) /\ rcv_queue' \in Seq(Pieces) /\ Len(rcv_queue') <= RcvWnd
  /\ read' \o rcv_queue' = SubSeq(stream, 1, rcv_nxt')

Answered ==
  /\ acklist' \subseteq Nat /\ tell' \in BOOLEAN
  /\ \A sn \in acklist' : sn < rcv_nxt' \/ sn \in Sns(rcv_buf')
  /\ back' \subseteq Backward
  /\ \A m \in back' : m.una <= rcv_nxt'
  /\ \A m \in back' : m.cmd = "ACK" => m.sn < rcv_nxt' \/ m.sn \in Sns(rcv_buf')

LEMMA ReceiverKeeps ==
  ASSUME IInv, UNCHANGED <<stream, sender>>, fwd' \subseteq fwd, Advanced, Answered
  PROVE  IInv'
<1>1. TypeOK /\ WithinWindows /\ InOrder /\ NothingLost /\ Queued /\ AllGenuine /\ AcksTrue
  BY DEF IInv
<1>2. UNCHANGED <<stream, snd_queue, snd_buf, snd_una, snd_nxt, rmt_wnd, probing>>
  BY DEF sender
<1>3. TypeOK'
  BY <1>1, <1>2 DEF TypeOK, Advanced, Answered
<1>4. WithinWindows'
  BY <1>1, <1>2 DEF WithinWindows, Advanced, Sns
<1>5. InOrder' /\ Queued'
  BY <1>1, <1>2 DEF InOrder, Queued, Advanced
<1>6. NothingLost'
  <2>1. SUFFICES ASSUME NEW sn \in 0..snd_nxt - 1
                 PROVE  sn \in Sns(snd_buf) \/ sn < rcv_nxt' \/ sn \in Sns(rcv_buf')
    BY <1>2 DEF NothingLost, Sns
  <2>2. sn \in Nat
    OBVIOUS
  <2>3. sn \in Sns(snd_buf) \/ Has(sn)
    BY <1>1 DEF NothingLost, Has
  <2>4. QED
    BY <2>2, <2>3 DEF Advanced
<1>7. AllGenuine'
  BY <1>1, <1>2 DEF AllGenuine, Genuine, Advanced
<1>8. AcksTrue'
  BY <1>1, <1>2 DEF AcksTrue, Has, Sns, Advanced, Answered
<1>9. QED
  BY <1>3, <1>4, <1>5, <1>6, <1>7, <1>8 DEF IInv

\* A step that leaves what was received alone.
LEMMA StillAdvanced ==
  ASSUME IInv, UNCHANGED <<stream, read, rcv_nxt, rcv_buf, rcv_queue>>
  PROVE  Advanced
<1>1. TypeOK /\ WithinWindows /\ InOrder /\ AllGenuine /\ AcksTrue
  BY DEF IInv
<1>2. QED
  BY <1>1 DEF Advanced, TypeOK, WithinWindows, InOrder, AllGenuine, AcksTrue, Has, Sns

LEMMA InputWaskKeeps ==
  ASSUME IInv, Young, InputWask
  PROVE  IInv' /\ Young'
<1>1. UNCHANGED <<stream, read, sender, rcv_nxt, rcv_buf, rcv_queue, acklist, back>>
  BY DEF InputWask, history
<1>2. fwd' \subseteq fwd /\ tell' = TRUE
  BY DEF InputWask, Delivered
<1>3. Advanced
  BY <1>1, StillAdvanced
<1>4. Answered
  BY <1>1, <1>2 DEF IInv, TypeOK, AcksTrue, Has, Answered, Sns
<1>5. IInv'
  BY <1>1, <1>2, <1>3, <1>4, ReceiverKeeps
<1>6. UNCHANGED <<snd_nxt, snd_buf>> /\ back' \subseteq back
  BY <1>1 DEF sender
<1>7. \A n \in acklist' : n \in Nat /\ n \in acklist
  BY <1>1 DEF IInv, TypeOK
<1>8. rcv_nxt' \in Nat /\ rcv_nxt <= rcv_nxt'
  BY <1>1, NumberFacts
<1>9. Young'
  BY <1>2, <1>6, <1>7, <1>8, StillYoung
<1> QED BY <1>5, <1>9

LEMMA FlushAcksKeeps ==
  ASSUME IInv, Young, FlushAcks
  PROVE  IInv' /\ Young'
<1>1. /\ UNCHANGED <<stream, read, sender, rcv_nxt, rcv_buf, rcv_queue, fwd>>
      /\ acklist' = {} /\ tell' = FALSE
  BY DEF FlushAcks, history
<1>2. back' \subseteq back \union Answers
  BY DEF FlushAcks, Surviving
<1>3. TypeOK /\ AcksTrue /\ Len(rcv_queue) \in Nat /\ RcvWnd \in Nat
  BY IkcpAssumption DEF IInv, TypeOK
<1>4. Unused \in 0..RcvWnd
  BY <1>3 DEF Unused
<1>5. ASSUME NEW m \in Answers
      PROVE  /\ m \in Backward /\ m.una <= rcv_nxt
             /\ m.cmd = "ACK" => Has(m.sn)
  <2>1. rcv_nxt \in Nat /\ acklist \subseteq Nat
    BY <1>3 DEF TypeOK
  <2>2. CASE \E sn \in acklist : m = Ack(sn, rcv_nxt, Unused)
    <3>1. PICK sn \in acklist : m = Ack(sn, rcv_nxt, Unused)
      BY <2>2
    <3>2. Has(sn)
      BY <1>3 DEF AcksTrue
    <3>3. QED
      BY <1>4, <2>1, <3>1, <3>2 DEF Ack, Backward
  <2>3. CASE m = Wins(rcv_nxt, Unused)
    BY <1>4, <2>1, <2>3 DEF Wins, Backward
  <2>4. QED
    BY <2>2, <2>3 DEF Answers
<1>6. Advanced
  BY <1>1, StillAdvanced
<1>7. back' \subseteq Backward
  BY <1>2, <1>3, <1>5 DEF TypeOK
<1>8. \A m \in back' : m.una <= rcv_nxt /\ (m.cmd = "ACK" => Has(m.sn))
  BY <1>2, <1>3, <1>5 DEF AcksTrue
<1>9. Answered
  BY <1>1, <1>7, <1>8 DEF Answered, Has, Sns
<1>10. IInv'
  BY <1>1, <1>6, <1>9, ReceiverKeeps
<1>11. PICK u \in 0..rcv_nxt : Told(u)
  BY DEF Young
<1>12. u \in Nat /\ snd_nxt <= u + RcvWnd + SndWnd
  BY <1>11, SentIsNear DEF Told
<1>13. ASSUME NEW m \in Answers
       PROVE  snd_nxt <= m.una + Half /\ (m.cmd = "ACK" => snd_nxt <= m.sn + Half)
  <2>1. snd_nxt <= rcv_nxt + Half
    BY SentIsNearReceived, NumberFacts
  <2>2. CASE \E sn \in acklist : m = Ack(sn, rcv_nxt, Unused)
    <3>1. PICK sn \in acklist : m = Ack(sn, rcv_nxt, Unused)
      BY <2>2
    <3>2. sn \in Nat /\ u + SndWnd + RcvWnd <= sn + Half
      BY <1>3, <1>11 DEF Told, TypeOK
    <3>3. snd_nxt <= sn + Half
      BY <1>12, <3>2, NumberFacts
    <3> QED BY <2>1, <3>1, <3>3 DEF Ack
  <2>3. CASE m = Wins(rcv_nxt, Unused)
    BY <2>1, <2>3 DEF Wins
  <2> QED BY <2>2, <2>3 DEF Answers
<1>14. \A m \in back' : snd_nxt <= m.una + Half /\ (m.cmd = "ACK" => snd_nxt <= m.sn + Half)
  BY <1>2, <1>13 DEF Young
<1>15. \A m \in back' : m.cmd = "ACK" => m.sn < rcv_nxt + RcvWnd
  <2>1. \A m \in back' : m.cmd = "ACK" => m.sn \in Nat
    BY <1>7 DEF Backward
  <2> QED BY <1>8, <2>1, HasBounds
<1>16. Told(rcv_nxt)'
  <2>1. UNCHANGED <<snd_buf, snd_nxt, rcv_nxt>>
    BY <1>1 DEF sender
  <2> QED BY <1>1, <1>8, <1>15, <2>1, SentIsNearReceived DEF Told, Sns
<1>17. Young'
  <2>1. snd_nxt' = snd_nxt
    BY <1>1 DEF sender
  <2>2. rcv_nxt' \in 0..rcv_nxt'
    BY <1>1, NumberFacts
  <2>3. \E v \in 0..rcv_nxt' : Told(v)'
    BY <1>1, <1>16, <2>2
  <2> QED BY <1>1, <1>14, <2>1, <2>3 DEF Young, Recent
<1> QED BY <1>10, <1>17

\* The two places that move segments start from a queue in order.
LEMMA MovedAdvances ==
  ASSUME IInv, NEW buf, NEW queue, read' \in Seq(Pieces), UNCHANGED stream,
         rcv_buf \subseteq buf, MoveReady(buf, queue, read'), Moved(buf, read')
  PROVE  Advanced
<1>1. buf \subseteq Segs /\ \A s \in buf : Genuine(s)
  BY DEF MoveReady
<1>2. \A sn \in Sns(buf) : sn < rcv_nxt' \/ sn \in Sns(rcv_buf')
  BY DEF Moved
<1>3. rcv_nxt \in Nat /\ rcv_nxt' \in Nat /\ rcv_nxt <= rcv_nxt'
  BY DEF MoveReady, Moved
<1>4. ASSUME NEW sn \in Nat, Has(sn) PROVE sn < rcv_nxt' \/ sn \in Sns(rcv_buf')
  <2>1. CASE sn < rcv_nxt
    BY <1>3, <2>1
  <2>2. CASE sn \in Sns(rcv_buf)
    BY <1>2, <2>2 DEF Sns
  <2>3. QED
    BY <1>4, <2>1, <2>2 DEF Has
<1>5. QED
  BY <1>1, <1>4 DEF Advanced, Moved

\* The answers in flight stay true.
LEMMA StillAnswered ==
  ASSUME IInv, Advanced, back' = back, tell' \in BOOLEAN,
         acklist' \subseteq Nat,
         \A sn \in acklist' : sn < rcv_nxt' \/ sn \in Sns(rcv_buf')
  PROVE  Answered
<1>1. back \subseteq Backward /\ rcv_nxt \in Nat /\ AcksTrue
  BY DEF IInv, TypeOK
<1>2. \A a \in back : a.una <= rcv_nxt'
  <2>1. \A a \in back : a.una \in Nat /\ a.una <= rcv_nxt
    BY <1>1 DEF Backward, AcksTrue
  <2>2. rcv_nxt' \in Nat /\ rcv_nxt <= rcv_nxt'
    BY DEF Advanced
  <2>3. QED
    BY <1>1, <2>1, <2>2
<1>3. \A a \in back : a.cmd = "ACK" => a.sn < rcv_nxt' \/ a.sn \in Sns(rcv_buf')
  <2>1. \A a \in back : a.cmd = "ACK" => a.sn \in Nat
    BY <1>1 DEF Backward
  <2>2. QED
    BY <1>1, <2>1 DEF AcksTrue, Advanced
<1>4. QED
  BY <1>1, <1>2, <1>3 DEF Answered

LEMMA MoveAdvances ==
  ASSUME NEW buf, NEW queue, MoveInOrder(buf, queue), rcv_nxt \in Nat
  PROVE  rcv_nxt' \in Nat /\ rcv_nxt <= rcv_nxt'
<1>1. PICK k \in 0..RcvWnd - Len(queue) : rcv_nxt' = rcv_nxt + k
  BY DEF MoveInOrder
<1>2. k \in Nat
  OBVIOUS
<1> QED BY <1>1, <1>2

LEMMA ParseDataAdvances ==
  ASSUME NEW s, ParseData(s), rcv_nxt \in Nat
  PROVE  rcv_nxt' \in Nat /\ rcv_nxt <= rcv_nxt'
BY MoveAdvances DEF ParseData

LEMMA PushesExact == IInv /\ Young => PushExact
<1> SUFFICES ASSUME IInv, Young, NEW m \in fwd, m.cmd = "PUSH"
             PROVE  /\ Itimediff(m.seg.sn, rcv_nxt) = m.seg.sn - rcv_nxt
                    /\ Itimediff(m.seg.sn, rcv_nxt + RcvWnd) = m.seg.sn - (rcv_nxt + RcvWnd)
  BY DEF PushExact
<1>1. m.seg.sn \in Nat /\ m.seg.sn < snd_nxt
  BY DEF IInv, TypeOK, Forward, Segs, AllGenuine, Genuine
<1>2. PICK sn \in Nat : sn = m.seg.sn
  BY <1>1
<1>3. snd_nxt + SndWnd + RcvWnd <= sn + Half
  BY <1>2 DEF Young, Recent
<1>4. snd_nxt <= rcv_nxt + RcvWnd + SndWnd
  BY SentIsNearReceived
<1>5. /\ -Half <= sn - (rcv_nxt + RcvWnd) /\ sn - (rcv_nxt + RcvWnd) < Half
      /\ -Half <= sn - rcv_nxt /\ sn - rcv_nxt < Half
  BY <1>1, <1>2, <1>3, <1>4, NumberFacts
<1>6. rcv_nxt \in Int /\ rcv_nxt + RcvWnd \in Int
  BY NumberFacts
<1>7. Itimediff(sn, rcv_nxt + RcvWnd) = sn - (rcv_nxt + RcvWnd)
  BY <1>5, <1>6, NearDifference
<1>8. Itimediff(sn, rcv_nxt) = sn - rcv_nxt
  BY <1>5, <1>6, NearDifference
<1> QED BY <1>2, <1>7, <1>8

\* The comparisons of Ikcp_input and ikcp_parse_data say where the number lies.
LEMMA PushCases ==
  ASSUME IInv, Young, NEW m \in fwd, InputPush(m), m.seg.sn \in Nat
  PROVE  \/ /\ m.seg.sn >= rcv_nxt + RcvWnd
            /\ UNCHANGED <<acklist, rcv_nxt, rcv_buf, rcv_queue>>
         \/ /\ m.seg.sn < rcv_nxt
            /\ acklist' = acklist \union {m.seg.sn}
            /\ UNCHANGED <<rcv_nxt, rcv_buf, rcv_queue>>
         \/ /\ m.seg.sn \in rcv_nxt..rcv_nxt + RcvWnd - 1
            /\ acklist' = acklist \union {m.seg.sn}
            /\ ParseData(m.seg)
<1>1. PICK sn \in Nat : sn = m.seg.sn
  OBVIOUS
<1>2. /\ Itimediff(sn, rcv_nxt) = sn - rcv_nxt
      /\ Itimediff(sn, rcv_nxt + RcvWnd) = sn - (rcv_nxt + RcvWnd)
  BY <1>1, PushesExact DEF PushExact, InputPush
<1>3. /\ Itimediff(sn, rcv_nxt + RcvWnd) >= 0 <=> sn >= rcv_nxt + RcvWnd
      /\ Itimediff(sn, rcv_nxt) < 0 <=> sn < rcv_nxt
  BY <1>2, NumberFacts
<1>4. ~ (sn >= rcv_nxt + RcvWnd) /\ ~ (sn < rcv_nxt) => sn \in rcv_nxt..rcv_nxt + RcvWnd - 1
  BY <1>1, NumberFacts
<1> QED BY <1>1, <1>3, <1>4 DEF InputPush

LEMMA InputPushKeeps ==
  ASSUME IInv, Young, NEW m \in fwd, InputPush(m)
  PROVE  IInv' /\ Young'
<1>1. TypeOK /\ WithinWindows /\ InOrder /\ Queued /\ AllGenuine /\ AcksTrue
  BY DEF IInv
<1>2. UNCHANGED <<stream, read, sender, tell, back>> /\ m.cmd = "PUSH"
  BY DEF InputPush, history
<1>3. fwd' \subseteq fwd
  BY DEF InputPush, Delivered
<1>4. m.seg \in Segs /\ Genuine(m.seg)
  <2>1. m \in Forward
    BY <1>1 DEF TypeOK
  <2>2. QED
    BY <1>1, <1>2, <2>1 DEF Forward, AllGenuine
<1>5. /\ rcv_nxt \in Nat /\ snd_nxt \in Nat /\ RcvWnd \in Nat /\ m.seg.sn \in Nat
      /\ rcv_buf \subseteq Segs /\ acklist \subseteq Nat
  BY <1>1, <1>4, IkcpAssumption DEF TypeOK, Segs
<1>6. ASSUME m.seg.sn >= rcv_nxt + RcvWnd, UNCHANGED <<acklist, rcv_nxt, rcv_buf, rcv_queue>>
      PROVE  IInv'
  <2>1. Advanced
    BY <1>2, <1>6, StillAdvanced
  <2>2. Answered
    BY <1>1, <1>2, <1>6 DEF TypeOK, AcksTrue, Has, Answered, Sns
  <2>3. QED
    BY <1>2, <1>3, <2>1, <2>2, ReceiverKeeps
<1>7. ASSUME m.seg.sn < rcv_nxt, acklist' = acklist \union {m.seg.sn},
             UNCHANGED <<rcv_nxt, rcv_buf, rcv_queue>>
      PROVE  IInv'
  <2>1. Advanced
    BY <1>2, <1>7, StillAdvanced
  <2>2. acklist' \subseteq Nat /\ \A sn \in acklist' : Has(sn)
    BY <1>1, <1>5, <1>7 DEF AcksTrue, Has
  <2>3. Answered
    BY <1>1, <1>2, <1>7, <2>2 DEF TypeOK, AcksTrue, Has, Answered, Sns
  <2>4. QED
    BY <1>2, <1>3, <2>1, <2>3, ReceiverKeeps
<1>8. ASSUME m.seg.sn \in rcv_nxt..rcv_nxt + RcvWnd - 1,
             acklist' = acklist \union {m.seg.sn}, ParseData(m.seg)
      PROVE  IInv'
  <2> DEFINE buf == IF m.seg.sn \in Sns(rcv_buf) THEN rcv_buf ELSE rcv_buf \union {m.seg}
  <2>1. MoveInOrder(buf, rcv_queue)
    BY <1>8 DEF ParseData
  <2>2. rcv_buf \subseteq buf /\ buf \subseteq rcv_buf \union {m.seg} /\ m.seg.sn \in Sns(buf)
    BY DEF Sns
  <2>3. Sns(buf) \subseteq rcv_nxt..rcv_nxt + RcvWnd - 1
    <3>1. \A s \in rcv_buf : s.sn \in rcv_nxt..rcv_nxt + RcvWnd - 1
      BY <1>1 DEF WithinWindows, Sns
    <3>2. \A s \in buf : s.sn \in rcv_nxt..rcv_nxt + RcvWnd - 1
      BY <1>8, <2>2, <3>1
    <3>3. QED
      BY <3>2 DEF Sns
  <2>4. buf \subseteq Segs /\ \A s \in buf : Genuine(s)
    BY <1>1, <1>4, <1>5, <2>2 DEF AllGenuine
  <2>5. MoveReady(buf, rcv_queue, read)
    BY <1>1, <2>3, <2>4 DEF MoveReady, TypeOK, WithinWindows, InOrder, Queued, AcksTrue
  <2>6. Moved(buf, read)
    BY <2>1, <2>5, MoveKeepsOrder
  <2>7. read' = read /\ read' \in Seq(Pieces)
    BY <1>1, <1>2 DEF TypeOK
  <2>8. Advanced
    BY <1>2, <2>2, <2>5, <2>6, <2>7, MovedAdvances
  <2>9. \A sn \in Nat : Has(sn) => sn < rcv_nxt' \/ sn \in Sns(rcv_buf')
    BY <2>8 DEF Advanced
  <2>10. m.seg.sn < rcv_nxt' \/ m.seg.sn \in Sns(rcv_buf')
    BY <2>2, <2>6 DEF Moved
  <2>11. acklist' \subseteq Nat /\ \A sn \in acklist' : sn < rcv_nxt' \/ sn \in Sns(rcv_buf')
    BY <1>1, <1>5, <1>8, <2>9, <2>10 DEF AcksTrue
  <2>12. Answered
    <3>1. tell' \in BOOLEAN /\ back' = back
      BY <1>1, <1>2 DEF TypeOK
    <3>2. QED
      BY <2>8, <2>11, <3>1, StillAnswered
  <2>13. QED
    BY <1>2, <1>3, <2>8, <2>12, ReceiverKeeps
<1>9. IInv'
  BY <1>5, <1>6, <1>7, <1>8, PushCases
<1>10. acklist' \subseteq acklist \union {m.seg.sn}
  BY <1>5, PushCases
<1>11. Recent(m.seg.sn, snd_nxt)
  BY <1>2 DEF Young
<1>12. rcv_nxt' \in Nat /\ rcv_nxt <= rcv_nxt'
  BY <1>5, PushCases, ParseDataAdvances
<1>13. \A n \in acklist' : n \in Nat /\ (n \in acklist \/ Recent(n, snd_nxt))
  BY <1>5, <1>10, <1>11
<1>14. UNCHANGED <<snd_nxt, snd_buf>> /\ back' \subseteq back
  BY <1>2 DEF sender
<1>15. Young'
  BY <1>3, <1>12, <1>13, <1>14, StillYoung
<1> QED BY <1>9, <1>15

LEMMA TakenInQueue ==
  ASSUME rcv_queue \in Seq(Pieces), rcv_queue # <<>>
  PROVE  Taken \in 1..Len(rcv_queue)
<1> DEFINE S == {n \in 1..Len(rcv_queue) : n = Len(rcv_queue) \/ Last(rcv_queue[n])}
<1>1. Len(rcv_queue) \in Nat \ {0}
  BY EmptySeq
<1>2. Len(rcv_queue) \in S /\ S \subseteq Nat
  BY <1>1
<1>3. Least(S) \in S
  BY <1>2, LeastIsLeast
<1>4. QED
  BY <1>3 DEF Taken

LEMMA RecvKeeps ==
  ASSUME IInv, Young, Recv
  PROVE  IInv' /\ Young'
<1>1. TypeOK /\ WithinWindows /\ InOrder /\ Queued /\ AllGenuine /\ AcksTrue
  BY DEF IInv
<1>2. UNCHANGED <<stream, sender, acklist, fwd, back>>
  BY DEF Recv
<1>3. /\ rcv_queue \in Seq(Pieces) /\ read \in Seq(Pieces) /\ rcv_queue # <<>>
      /\ Len(rcv_queue) \in Nat /\ RcvWnd \in Nat /\ Len(rcv_queue) <= RcvWnd
  BY <1>1, IkcpAssumption DEF TypeOK, WithinWindows, Recv, Complete
<1> DEFINE head == SubSeq(rcv_queue, 1, Taken)
           rest == SubSeq(rcv_queue, Taken + 1, Len(rcv_queue))
<1>4. Taken \in 1..Len(rcv_queue)
  BY <1>3, TakenInQueue
<1>5. head \in Seq(Pieces) /\ rest \in Seq(Pieces) /\ Len(rest) <= RcvWnd
  <2>1. /\ Taken \in Int /\ Taken + 1 \in Int /\ Len(rcv_queue) \in Int
        /\ \A i \in 1..Taken : rcv_queue[i] \in Pieces
        /\ \A i \in Taken + 1..Len(rcv_queue) : rcv_queue[i] \in Pieces
    BY <1>3, <1>4
  <2>2. head \in Seq(Pieces)
    BY <2>1, SubSeqProperties
  <2>3. /\ rest \in Seq(Pieces)
        /\ Len(rest) = IF Taken + 1 <= Len(rcv_queue) THEN Len(rcv_queue) - (Taken + 1) + 1 ELSE 0
    BY <2>1, SubSeqProperties
  <2>4. QED
    BY <1>3, <1>4, <2>2, <2>3
<1>6. head \o rest = rcv_queue
  <2>1. 1 \in 1..Len(rcv_queue) + 1 /\ Taken \in 1 - 1..Len(rcv_queue)
        /\ Len(rcv_queue) \in Taken..Len(rcv_queue)
    BY <1>3, <1>4
  <2>2. head \o rest = SubSeq(rcv_queue, 1, Len(rcv_queue))
    BY <1>3, <2>1, ConcatAdjacentSubSeq
  <2>3. QED
    BY <1>3, <2>2, SubSeqFull
<1>7. read' = read \o head /\ read' \in Seq(Pieces)
  <2>1. read' = read \o head
    BY DEF Recv
  <2>2. QED
    BY <1>3, <1>5, <2>1, ConcatProperties
<1>8. read' \o rest = SubSeq(stream, 1, rcv_nxt)
  <2> HIDE DEF head, rest
  <2>1. (read \o head) \o rest = read \o (head \o rest)
    BY <1>3, <1>5, ConcatAssociative
  <2>2. QED
    BY <1>1, <1>6, <1>7, <2>1 DEF InOrder
<1>9. MoveReady(rcv_buf, rest, read')
  BY <1>1, <1>5, <1>7, <1>8 DEF MoveReady, TypeOK, WithinWindows, Queued, AllGenuine, AcksTrue
<1>10. MoveInOrder(rcv_buf, rest)
  BY DEF Recv
<1>11. Moved(rcv_buf, read')
  BY <1>9, <1>10, MoveKeepsOrder
<1>12. Advanced
  BY <1>2, <1>7, <1>9, <1>11, MovedAdvances
<1>13. acklist' \subseteq Nat /\ \A sn \in acklist' : sn < rcv_nxt' \/ sn \in Sns(rcv_buf')
  BY <1>1, <1>2, <1>12 DEF TypeOK, AcksTrue, Advanced
<1>14. tell' \in BOOLEAN
  BY <1>1 DEF Recv, TypeOK
<1>15. Answered
  BY <1>2, <1>12, <1>13, <1>14, StillAnswered
<1>16. IInv'
  BY <1>2, <1>12, <1>15, ReceiverKeeps
<1>17. UNCHANGED <<snd_nxt, snd_buf, fwd, back>>
  BY <1>2 DEF sender
<1>18. \A n \in acklist' : n \in Nat /\ n \in acklist
  BY <1>1, <1>2 DEF TypeOK
<1>19. rcv_nxt' \in Nat /\ rcv_nxt <= rcv_nxt'
  BY <1>12 DEF Advanced
<1>20. Young'
  BY <1>17, <1>18, <1>19, StillYoung
<1> QED BY <1>16, <1>20

(***************************************************************************)
(* Ikcp_send.                                                              *)
(***************************************************************************)
LEMMA SendKeeps ==
  ASSUME IInv, Young, Send
  PROVE  IInv' /\ Young'
<1>1. TypeOK /\ WithinWindows /\ InOrder /\ NothingLost /\ Queued /\ AllGenuine /\ AcksTrue
  BY DEF IInv
<1>2. PICK m \in DOMAIN Sizes :
        stream' = stream \o Cut(m) /\ snd_queue' = snd_queue \o Cut(m)
  BY DEF Send
<1>3. /\ UNCHANGED <<read, snd_buf, snd_una, snd_nxt, rmt_wnd, probing, fwd, back>>
      /\ UNCHANGED <<rcv_nxt, rcv_buf, rcv_queue, acklist, tell>>
  BY DEF Send, receiver
<1>4. Cut(m) \in Seq(Pieces) /\ Len(Cut(m)) \in Nat
  <2>1. m \in Nat /\ Sizes[m] \in Nat
    BY IkcpAssumption
  <2>2. Cut(m) \in [1..Sizes[m] -> Pieces]
    BY <2>1 DEF Cut, Pieces
  <2>3. QED
    BY <2>1, <2>2
<1>5. /\ stream \in Seq(Pieces) /\ Len(stream) \in Nat
      /\ snd_queue \in Seq(Pieces) /\ Len(snd_queue) \in Nat
      /\ snd_nxt \in Nat /\ rcv_nxt \in Nat /\ rcv_nxt <= snd_nxt /\ snd_nxt <= Len(stream)
  BY <1>1 DEF TypeOK, Queued, AcksTrue
<1>6. /\ stream' \in Seq(Pieces) /\ Len(stream') = Len(stream) + Len(Cut(m))
      /\ \A i \in 1..Len(stream) : stream'[i] = stream[i]
      /\ \A i \in 1..Len(Cut(m)) : stream'[Len(stream) + i] = Cut(m)[i]
  <2>1. /\ stream' \in Seq(Pieces) /\ Len(stream') = Len(stream) + Len(Cut(m))
        /\ \A i \in 1..Len(stream) + Len(Cut(m)) :
             stream'[i] = IF i <= Len(stream) THEN stream[i] ELSE Cut(m)[i - Len(stream)]
    BY <1>2, <1>4, <1>5, ConcatProperties
  <2>2. \A i \in 1..Len(stream) : i \in 1..Len(stream) + Len(Cut(m)) /\ i <= Len(stream)
    BY <1>4, <1>5
  <2>3. \A i \in 1..Len(Cut(m)) : /\ Len(stream) + i \in 1..Len(stream) + Len(Cut(m))
                                  /\ ~ (Len(stream) + i <= Len(stream))
                                  /\ Len(stream) + i - Len(stream) = i
    BY <1>4, <1>5
  <2>4. QED
    BY <2>1, <2>2, <2>3
<1>7. TypeOK'
  <2>1. snd_queue' \in Seq(Pieces)
    BY <1>2, <1>4, <1>5, ConcatProperties
  <2>2. QED
    BY <1>1, <1>3, <1>6, <2>1 DEF TypeOK
<1>8. WithinWindows' /\ NothingLost'
  BY <1>1, <1>3 DEF WithinWindows, NothingLost, Sns
<1>9. InOrder'
  <2>1. read \in Seq(Pieces) /\ rcv_queue \in Seq(Pieces)
    BY <1>1 DEF TypeOK
  <2>2. read \o rcv_queue = SubSeq(stream, 1, rcv_nxt) /\ rcv_nxt <= Len(stream)
    BY <1>1, <1>5 DEF InOrder
  <2>3. Len(read) + Len(rcv_queue) = rcv_nxt /\ Begin(stream, read, rcv_queue)
    BY <1>5, <2>1, <2>2, PrefixOfJoin
  <2>4. /\ \A i \in 1..Len(read) : i \in 1..Len(stream)
        /\ \A i \in 1..Len(rcv_queue) : Len(read) + i \in 1..Len(stream)
    <3>1. Len(read) \in Nat /\ Len(rcv_queue) \in Nat
      BY <2>1
    <3>2. QED
      BY <1>5, <2>2, <2>3, <3>1
  <2>5. Begin(stream', read, rcv_queue)
    BY <1>6, <2>3, <2>4 DEF Begin
  <2>6. Len(read) + Len(rcv_queue) <= Len(stream')
    BY <1>4, <1>5, <1>6, <2>2, <2>3
  <2>7. read \o rcv_queue = SubSeq(stream', 1, Len(read) + Len(rcv_queue))
    BY <1>6, <2>1, <2>5, <2>6, JoinIsPrefix
  <2>8. QED
    BY <1>3, <2>3, <2>7 DEF InOrder
<1>10. Queued'
  <2>1. snd_queue = SubSeq(stream, snd_nxt + 1, Len(stream))
    BY <1>1 DEF Queued
  <2>2. /\ Len(snd_queue) = Len(stream) - snd_nxt
        /\ \A i \in 1..Len(stream) - snd_nxt : snd_queue[i] = stream[snd_nxt + i]
    BY <1>5, <2>1, RestElements
  <2>3. /\ snd_queue' \in Seq(Pieces) /\ Len(snd_queue') = Len(snd_queue) + Len(Cut(m))
        /\ \A i \in 1..Len(snd_queue) + Len(Cut(m)) :
             snd_queue'[i] = IF i <= Len(snd_queue) THEN snd_queue[i] ELSE Cut(m)[i - Len(snd_queue)]
    BY <1>2, <1>4, <1>5, ConcatProperties
  <2>4. Len(snd_queue') = Len(stream') - snd_nxt /\ snd_nxt <= Len(stream')
    BY <1>4, <1>5, <1>6, <2>2, <2>3
  <2>5. ASSUME NEW i \in 1..Len(stream') - snd_nxt PROVE snd_queue'[i] = stream'[snd_nxt + i]
    <3>1. i \in 1..Len(snd_queue) + Len(Cut(m))
      BY <1>4, <1>5, <1>6, <2>2
    <3>2. CASE i <= Len(snd_queue)
      <4>1. i \in 1..Len(stream) - snd_nxt /\ snd_nxt + i \in 1..Len(stream)
        BY <1>5, <2>2, <3>1, <3>2
      <4>2. QED
        BY <1>6, <2>2, <2>3, <3>1, <3>2, <4>1
    <3>3. CASE ~ (i <= Len(snd_queue))
      <4>1. /\ i - Len(snd_queue) \in 1..Len(Cut(m))
            /\ Len(stream) + (i - Len(snd_queue)) = snd_nxt + i
        BY <1>4, <1>5, <2>2, <3>1, <3>3
      <4>2. QED
        BY <1>6, <2>3, <3>1, <3>3, <4>1
    <3>4. QED
      BY <3>2, <3>3
  <2>6. snd_queue' = SubSeq(stream', snd_nxt + 1, Len(stream'))
    BY <1>5, <1>6, <2>3, <2>4, <2>5, IsRest
  <2>7. QED
    BY <1>3, <2>4, <2>6 DEF Queued
<1>11. AllGenuine'
  <2>1. ASSUME NEW s \in Segs, Genuine(s) PROVE s.data = stream'[s.sn + 1]
    <3>1. s.sn \in Nat /\ s.sn < snd_nxt /\ s.data = stream[s.sn + 1]
      BY <2>1 DEF Genuine, Segs
    <3>2. s.sn + 1 \in 1..Len(stream)
      BY <1>5, <3>1
    <3>3. QED
      BY <1>6, <3>1, <3>2
  <2>2. snd_buf \subseteq Segs /\ rcv_buf \subseteq Segs
    BY <1>1 DEF TypeOK
  <2>3. \A x \in fwd : x.cmd = "PUSH" => x.seg \in Segs
    BY <1>1 DEF TypeOK, Forward
  <2>4. QED
    BY <1>1, <1>3, <2>1, <2>2, <2>3 DEF AllGenuine, Genuine
<1>12. AcksTrue'
  BY <1>1, <1>3 DEF AcksTrue, Has, Sns
<1>13. IInv'
  BY <1>7, <1>8, <1>9, <1>10, <1>11, <1>12 DEF IInv
<1>14. \A n \in acklist' : n \in Nat /\ n \in acklist
  BY <1>1, <1>3 DEF TypeOK
<1>15. rcv_nxt' \in Nat /\ rcv_nxt <= rcv_nxt'
  BY <1>3, <1>5
<1>16. Young'
  BY <1>3, <1>14, <1>15, StillYoung
<1> QED BY <1>13, <1>16

(***************************************************************************)
(* Ikcp_flush, the sender's part.                                          *)
(***************************************************************************)
LEMMA RoomFits ==
  ASSUME IInv
  PROVE  /\ Room \in Nat /\ Room <= Len(snd_queue)
         /\ snd_nxt + Room <= snd_una + SndWnd
<1>1. /\ snd_una \in Nat /\ snd_nxt \in Nat /\ SndWnd \in Nat /\ rmt_wnd \in Nat
      /\ Len(snd_queue) \in Nat /\ snd_nxt <= snd_una + SndWnd
  BY IkcpAssumption DEF IInv, TypeOK, WithinWindows
<1> DEFINE limit == snd_una + Lesser(SndWnd, rmt_wnd)
<1>2. limit \in Nat /\ limit <= snd_una + SndWnd
  BY <1>1 DEF Lesser
<1> DEFINE S == {n \in 0..Len(snd_queue) :
                   n = Len(snd_queue) \/ Itimediff(snd_nxt + n, limit) >= 0}
<1>3. Room \in S /\ \A n \in S : Room <= n
  <2>1. Len(snd_queue) \in S /\ S \subseteq Nat
    BY <1>1
  <2>2. Least(S) \in S /\ \A n \in S : Least(S) <= n
    BY <2>1, LeastIsLeast
  <2> QED BY <2>2 DEF Room
<1>4. Room \in Nat /\ Room <= Len(snd_queue)
  BY <1>1, <1>3
<1>5. snd_una <= limit
  BY <1>1 DEF Lesser
<1>6. CASE limit <= snd_nxt
  <2>1. -Half <= snd_nxt - limit /\ snd_nxt - limit < Half
    BY <1>1, <1>2, <1>5, <1>6, NumberFacts
  <2>2. Itimediff(snd_nxt, limit) = snd_nxt - limit /\ snd_nxt + 0 = snd_nxt
    BY <1>1, <1>2, <2>1, NearDifference
  <2>3. 0 \in S
    BY <1>1, <1>2, <1>6, <2>2
  <2>4. Room <= 0
    BY <1>3, <2>3
  <2> QED BY <1>1, <1>4, <2>4
<1>7. CASE ~ (limit <= snd_nxt)
  <2>1. PICK k \in Nat : snd_nxt + k = limit
    <3> HIDE DEF limit
    <3>1. limit - snd_nxt \in Nat /\ snd_nxt + (limit - snd_nxt) = limit
      BY <1>1, <1>2, <1>7
    <3> QED BY <3>1
  <2>2. CASE k <= Len(snd_queue)
    <3>1. Itimediff(limit, limit) = 0
      BY <1>2, NearDifference, NumberFacts
    <3>2. k \in S
      BY <1>1, <2>1, <2>2, <3>1
    <3>3. Room <= k
      BY <1>3, <3>2
    <3> HIDE DEF limit
    <3> QED BY <1>1, <1>2, <1>4, <2>1, <3>3
  <2>3. CASE ~ (k <= Len(snd_queue))
    <3> HIDE DEF limit
    <3> QED BY <1>1, <1>2, <1>4, <2>1, <2>3
  <2> QED BY <2>2, <2>3
<1> QED BY <1>4, <1>6, <1>7

LEMMA FreshIsNext ==
  ASSUME IInv
  PROVE  /\ Fresh \subseteq Segs
         /\ \A s \in Fresh : s.sn \in snd_nxt..snd_nxt + Room - 1 /\ s.data = stream[s.sn + 1]
         /\ \A sn \in snd_nxt..snd_nxt + Room - 1 : sn \in Sns(Fresh)
<1>1. /\ stream \in Seq(Pieces) /\ snd_queue \in Seq(Pieces) /\ snd_nxt \in Nat
      /\ Len(stream) \in Nat /\ Len(snd_queue) \in Nat /\ snd_nxt <= Len(stream)
      /\ snd_queue = SubSeq(stream, snd_nxt + 1, Len(stream))
  BY DEF IInv, TypeOK, Queued
<1>2. Room \in Nat /\ Room <= Len(snd_queue)
  BY RoomFits
<1>3. /\ Len(snd_queue) = Len(stream) - snd_nxt
      /\ \A i \in 1..Len(stream) - snd_nxt : snd_queue[i] = stream[snd_nxt + i]
  BY <1>1, RestElements
<1>4. ASSUME NEW s \in Fresh
      PROVE  s \in Segs /\ s.sn \in snd_nxt..snd_nxt + Room - 1 /\ s.data = stream[s.sn + 1]
  <2>1. PICK i \in 1..Room : s = [sn |-> snd_nxt + i - 1, data |-> snd_queue[i]]
    BY DEF Fresh
  <2>2. i \in 1..Len(snd_queue) /\ snd_nxt + i - 1 \in snd_nxt..snd_nxt + Room - 1
        /\ snd_nxt + i - 1 + 1 = snd_nxt + i /\ snd_nxt + i - 1 \in Nat
    BY <1>1, <1>2
  <2>3. snd_queue[i] \in Pieces /\ snd_queue[i] = stream[snd_nxt + i]
    BY <1>1, <1>3, <2>2
  <2>4. s.sn = snd_nxt + i - 1 /\ s.data = snd_queue[i]
    BY <2>1
  <2>5. s \in Segs
    BY <2>1, <2>2, <2>3 DEF Segs
  <2>6. QED
    BY <2>2, <2>3, <2>4, <2>5
<1>5. ASSUME NEW sn \in snd_nxt..snd_nxt + Room - 1 PROVE sn \in Sns(Fresh)
  <2> DEFINE i == sn - snd_nxt + 1
  <2>1. i \in 1..Room /\ snd_nxt + i - 1 = sn
    BY <1>1, <1>2
  <2>2. [sn |-> snd_nxt + i - 1, data |-> snd_queue[i]] \in Fresh
    BY <2>1 DEF Fresh
  <2>3. [sn |-> snd_nxt + i - 1, data |-> snd_queue[i]].sn = sn
    BY <2>1
  <2>4. QED
    BY <2>2, <2>3 DEF Sns
<1>6. QED
  BY <1>4, <1>5

\* What is sent lies in the window, and what is half round behind is gone.
LEMMA FlushDataYoung ==
  ASSUME IInv, Young, FlushData
  PROVE  Young'
<1>1. /\ Room \in Nat /\ snd_nxt + Room <= snd_una + SndWnd /\ snd_nxt' = snd_nxt + Room
      /\ snd_nxt' \in Nat /\ snd_nxt <= snd_nxt' /\ snd_nxt' <= snd_una + SndWnd
  <2>1. snd_nxt' = snd_nxt + Room
    BY DEF FlushData
  <2>2. Room \in Nat /\ snd_nxt + Room <= snd_una + SndWnd
    BY RoomFits
  <2> QED BY <2>1, <2>2, NumberFacts
<1>2. UNCHANGED <<rcv_nxt, acklist>> /\ snd_buf' = snd_buf \union Fresh
  BY DEF FlushData, receiver
<1>3. ASSUME NEW s \in snd_buf \union Fresh PROVE Recent(s.sn, snd_nxt')
  <2>1. s.sn \in Nat /\ snd_una <= s.sn
    <3>1. CASE s \in snd_buf
      <4>1. s.sn \in snd_una..snd_nxt - 1
        BY <3>1 DEF IInv, WithinWindows, Sns
      <4> QED BY <4>1, NumberFacts
    <3>2. CASE s \in Fresh
      <4>1. s.sn \in snd_nxt..snd_nxt + Room - 1
        BY <3>2, FreshIsNext
      <4> QED BY <1>1, <4>1, NumberFacts
    <3> QED BY <3>1, <3>2
  <2> QED BY <1>1, <2>1, NumberFacts DEF Recent
<1>4. ASSUME NEW m \in fwd', m.cmd = "PUSH" PROVE Recent(m.seg.sn, snd_nxt')
  <2>1. \/ m \in Remembered(fwd, snd_nxt')
        \/ \E s \in snd_buf \union Fresh : m = Push(s)
        \/ m = Wask
    BY DEF FlushData, Surviving, MayProbe
  <2>2. CASE m \in Remembered(fwd, snd_nxt')
    BY <1>4, <2>2 DEF Remembered, Numbers
  <2>3. CASE \E s \in snd_buf \union Fresh : m = Push(s)
    BY <1>3, <2>3 DEF Push
  <2>4. m # Wask
    BY <1>4 DEF Wask
  <2> QED BY <2>1, <2>2, <2>3, <2>4
<1>5. back' \subseteq back
  BY DEF FlushData, Remembered
<1>6. ASSUME NEW m \in back'
      PROVE  snd_nxt' <= m.una + Half /\ (m.cmd = "ACK" => snd_nxt' <= m.sn + Half)
  <2>1. m \in Backward /\ \A n \in Numbers(m) : Recent(n, snd_nxt')
    BY DEF FlushData, Remembered, IInv, TypeOK
  <2>2. m.una \in Nat /\ m.una \in Numbers(m)
    BY <2>1 DEF Backward, Numbers
  <2>3. m.cmd = "ACK" => m.sn \in Nat /\ m.sn \in Numbers(m)
    BY <2>1 DEF Backward, Numbers
  <2>4. \A n \in Nat : Recent(n, snd_nxt') => snd_nxt' <= n + Half
    BY <1>1, NumberFacts DEF Recent
  <2> QED BY <2>1, <2>2, <2>3, <2>4
<1>7. PICK u \in 0..rcv_nxt : Told(u)
  BY DEF Young
<1>8. ASSUME NEW sn \in 0..snd_nxt' - 1 PROVE sn \in Sns(snd_buf') \/ sn < u + RcvWnd
  <2>1. CASE sn < snd_nxt
    <3>1. sn \in 0..snd_nxt - 1
      BY <2>1, NumberFacts
    <3> QED BY <1>2, <1>7, <3>1 DEF Told, Sns
  <2>2. CASE ~ (sn < snd_nxt)
    <3>1. sn \in snd_nxt..snd_nxt + Room - 1
      BY <1>1, <2>2, NumberFacts
    <3> QED BY <1>2, <3>1, FreshIsNext DEF Sns
  <2> QED BY <2>1, <2>2
<1>9. Told(u)'
  BY <1>2, <1>5, <1>7, <1>8 DEF Told, Sns
<1> QED BY <1>2, <1>4, <1>6, <1>7, <1>9 DEF Young, Recent

LEMMA FlushDataKeeps ==
  ASSUME IInv, Young, FlushData
  PROVE  IInv' /\ Young'
<1>1. TypeOK /\ WithinWindows /\ InOrder /\ NothingLost /\ Queued /\ AllGenuine /\ AcksTrue
  BY DEF IInv
<1>2. UNCHANGED <<stream, read, snd_una, rmt_wnd, rcv_nxt, rcv_buf, rcv_queue, acklist, tell>>
      /\ back' \subseteq back
  BY DEF FlushData, history, receiver, Remembered
<1>3. /\ snd_buf' = snd_buf \union Fresh /\ snd_nxt' = snd_nxt + Room
      /\ snd_queue' = SubSeq(snd_queue, Room + 1, Len(snd_queue))
      /\ probing' = (rmt_wnd = 0)
  BY DEF FlushData
<1>4. fwd' \subseteq fwd \union {Push(s) : s \in snd_buf \union Fresh} \union {Wask}
  BY DEF FlushData, Surviving, MayProbe, Remembered
<1>5. /\ Room \in Nat /\ Room <= Len(snd_queue)
      /\ snd_nxt + Room <= snd_una + SndWnd
  BY RoomFits
<1>6. /\ Fresh \subseteq Segs
      /\ \A s \in Fresh : s.sn \in snd_nxt..snd_nxt + Room - 1 /\ s.data = stream[s.sn + 1]
      /\ \A sn \in snd_nxt..snd_nxt + Room - 1 : sn \in Sns(Fresh)
  BY FreshIsNext
<1>7. /\ snd_una \in Nat /\ snd_nxt \in Nat /\ rcv_nxt \in Nat /\ SndWnd \in Nat
      /\ snd_una <= snd_nxt /\ rcv_nxt <= snd_nxt /\ snd_nxt <= Len(stream)
      /\ stream \in Seq(Pieces) /\ Len(stream) \in Nat
      /\ snd_queue \in Seq(Pieces) /\ Len(snd_queue) \in Nat
  BY <1>1, IkcpAssumption DEF TypeOK, WithinWindows, AcksTrue, Queued
<1>8. \A n \in Nat : n < snd_nxt => n < snd_nxt + Room
  BY <1>5, <1>7
<1>9. \A s \in snd_buf \union Fresh : s \in Segs /\ s.sn < snd_nxt + Room /\ s.data = stream[s.sn + 1]
  <2>1. \A s \in snd_buf : s \in Segs /\ s.sn \in Nat /\ s.sn < snd_nxt /\ s.data = stream[s.sn + 1]
    BY <1>1 DEF TypeOK, Segs, AllGenuine, Genuine
  <2>2. \A n \in snd_nxt..snd_nxt + Room - 1 : n < snd_nxt + Room
    BY <1>5, <1>7
  <2>3. QED
    BY <1>6, <1>8, <2>1, <2>2
<1>10. fwd' \subseteq Forward
  <2>1. \A s \in Segs : Push(s) \in Forward
    BY DEF Push, Forward
  <2>2. Wask \in Forward
    BY DEF Wask, Forward
  <2>3. fwd \subseteq Forward
    BY <1>1 DEF TypeOK
  <2>4. QED
    BY <1>4, <1>9, <2>1, <2>2, <2>3
<1>11. snd_queue' \in Seq(Pieces) /\ Len(snd_queue') = Len(snd_queue) - Room
       /\ \A i \in 1..Len(snd_queue) - Room : snd_queue'[i] = snd_queue[Room + i]
  BY <1>3, <1>5, <1>7, RestElements
<1>12. TypeOK'
  <2>1. snd_nxt' \in Nat /\ probing' \in BOOLEAN
    BY <1>3, <1>5, <1>7
  <2>2. snd_buf' \subseteq Segs
    BY <1>3, <1>9
  <2>3. QED
    BY <1>1, <1>2, <1>10, <1>11, <2>1, <2>2 DEF TypeOK
<1>13. WithinWindows'
  <2>1. snd_una <= snd_nxt + Room
    BY <1>5, <1>7
  <2>2. \A n \in snd_una..snd_nxt - 1 : n \in snd_una..snd_nxt + Room - 1
    BY <1>5, <1>7
  <2>3. \A n \in snd_nxt..snd_nxt + Room - 1 : n \in snd_una..snd_nxt + Room - 1
    BY <1>5, <1>7
  <2>4. \A s \in snd_buf : s.sn \in snd_una..snd_nxt - 1
    BY <1>1 DEF WithinWindows, Sns
  <2>5. Sns(snd_buf') \subseteq snd_una..snd_nxt + Room - 1
    BY <1>3, <1>6, <2>2, <2>3, <2>4 DEF Sns
  <2>6. Sns(snd_buf)' = Sns(snd_buf') /\ Sns(rcv_buf)' = Sns(rcv_buf)
    BY <1>2 DEF Sns
  <2>7. snd_una' <= snd_nxt' /\ snd_nxt' <= snd_una' + SndWnd
    BY <1>2, <1>3, <1>5, <2>1
  <2>8. Sns(snd_buf') \subseteq snd_una'..snd_nxt' - 1
    <3>1. snd_nxt' - 1 = snd_nxt + Room - 1 /\ snd_una' = snd_una
      BY <1>2, <1>3, <1>5, <1>7
    <3>2. QED
      BY <2>5, <3>1
  <2>9. QED
    BY <1>1, <1>2, <2>6, <2>7, <2>8 DEF WithinWindows
<1>14. InOrder'
  BY <1>1, <1>2 DEF InOrder
<1>15. NothingLost'
  <2>1. SUFFICES ASSUME NEW sn \in 0..snd_nxt + Room - 1
                 PROVE  sn \in Sns(snd_buf') \/ sn < rcv_nxt \/ sn \in Sns(rcv_buf)
    <3>1. Sns(snd_buf)' = Sns(snd_buf') /\ Sns(rcv_buf)' = Sns(rcv_buf)
      BY <1>2 DEF Sns
    <3>2. rcv_nxt' = rcv_nxt /\ snd_nxt' - 1 = snd_nxt + Room - 1
      BY <1>2, <1>3, <1>5, <1>7
    <3>3. QED
      BY <3>1, <3>2 DEF NothingLost
  <2>2. CASE sn < snd_nxt
    <3>1. sn \in 0..snd_nxt - 1
      BY <1>5, <1>7, <2>2
    <3>2. sn \in Sns(snd_buf) \/ sn < rcv_nxt \/ sn \in Sns(rcv_buf)
      BY <1>1, <3>1 DEF NothingLost
    <3>3. QED
      BY <1>3, <3>2 DEF Sns
  <2>3. CASE ~ (sn < snd_nxt)
    <3>1. sn \in snd_nxt..snd_nxt + Room - 1
      BY <1>5, <1>7, <2>3
    <3>2. sn \in Sns(Fresh)
      BY <1>6, <3>1
    <3>3. QED
      BY <1>3, <3>2 DEF Sns
  <2>4. QED
    BY <2>2, <2>3
<1>16. Queued'
  <2>1. /\ Len(snd_queue) = Len(stream) - snd_nxt
        /\ \A i \in 1..Len(stream) - snd_nxt : snd_queue[i] = stream[snd_nxt + i]
    <3>1. snd_queue = SubSeq(stream, snd_nxt + 1, Len(stream))
      BY <1>1 DEF Queued
    <3>2. QED
      BY <1>7, <3>1, RestElements
  <2> DEFINE n == snd_nxt + Room
  <2>2. n \in Nat /\ n <= Len(stream) /\ Len(snd_queue') = Len(stream) - n
    BY <1>5, <1>7, <1>11, <2>1
  <2>3. ASSUME NEW i \in 1..Len(stream) - n PROVE snd_queue'[i] = stream[n + i]
    <3>1. /\ i \in 1..Len(snd_queue) - Room /\ Room + i \in 1..Len(stream) - snd_nxt
          /\ snd_nxt + (Room + i) = n + i
      BY <1>5, <1>7, <2>1
    <3>2. QED
      BY <1>11, <2>1, <3>1
  <2> HIDE DEF n
  <2>4. snd_queue' = SubSeq(stream, n + 1, Len(stream))
    BY <1>7, <1>11, <2>2, <2>3, IsRest
  <2>5. snd_nxt' = n
    BY <1>3 DEF n
  <2>6. QED
    BY <1>2, <2>2, <2>4, <2>5 DEF Queued
<1>17. AllGenuine'
  <2>1. \A s \in snd_buf' : s.sn < snd_nxt' /\ s.data = stream[s.sn + 1]
    BY <1>3, <1>9
  <2>2. \A s \in rcv_buf : s.sn \in Nat /\ s.sn < snd_nxt /\ s.data = stream[s.sn + 1]
    BY <1>1 DEF TypeOK, Segs, AllGenuine, Genuine
  <2>3. \A x \in fwd : x.cmd = "PUSH" =>
          x.seg.sn \in Nat /\ x.seg.sn < snd_nxt /\ x.seg.data = stream[x.seg.sn + 1]
    BY <1>1 DEF TypeOK, Forward, Segs, AllGenuine, Genuine
  <2>4. \A x \in fwd' : x.cmd = "PUSH" =>
          x.seg.sn < snd_nxt + Room /\ x.seg.data = stream[x.seg.sn + 1]
    <3>1. SUFFICES ASSUME NEW x \in fwd', x.cmd = "PUSH"
                   PROVE  x.seg.sn < snd_nxt + Room /\ x.seg.data = stream[x.seg.sn + 1]
      OBVIOUS
    <3>2. CASE x \in fwd
      BY <1>8, <2>3, <3>1, <3>2
    <3>3. CASE \E s \in snd_buf \union Fresh : x = Push(s)
      <4>1. PICK s \in snd_buf \union Fresh : x = Push(s)
        BY <3>3
      <4>2. x.seg = s
        BY <4>1 DEF Push
      <4>3. QED
        BY <1>9, <4>2
    <3>4. x # Wask
      BY <3>1 DEF Wask
    <3>5. QED
      BY <1>4, <3>2, <3>3, <3>4
  <2>5. \A s \in rcv_buf : s.sn < snd_nxt + Room
    BY <1>8, <2>2
  <2>6. QED
    BY <1>2, <1>3, <2>1, <2>2, <2>4, <2>5 DEF AllGenuine, Genuine
<1>18. AcksTrue'
  <2>1. rcv_nxt <= snd_nxt + Room
    BY <1>5, <1>7
  <2>2. QED
    BY <1>1, <1>2, <1>3, <2>1 DEF AcksTrue, Has, Sns
<1>19. IInv'
  BY <1>12, <1>13, <1>14, <1>15, <1>16, <1>17, <1>18 DEF IInv
<1>20. Young'
  BY FlushDataYoung
<1> QED BY <1>19, <1>20
-----------------------------------------------------------------------------
LEMMA NextKeeps == Inv /\ [Next]_vars => Inv'
<1> SUFFICES ASSUME IInv, Young, [Next]_vars PROVE IInv' /\ Young'
  BY DEF Inv
<1>1. CASE Send
  BY <1>1, SendKeeps
<1>2. CASE FlushData
  BY <1>2, FlushDataKeeps
<1>3. CASE \E m \in back : SenderInput(m)
  BY <1>3, SenderInputKeeps
<1>4. CASE \E m \in fwd : InputPush(m)
  BY <1>4, InputPushKeeps
<1>5. CASE InputWask
  BY <1>5, InputWaskKeeps
<1>6. CASE FlushAcks
  BY <1>6, FlushAcksKeeps
<1>7. CASE Recv
  BY <1>7, RecvKeeps
<1>8. CASE UNCHANGED vars
  <2>1. UNCHANGED vars
    BY <1>8
  <2>2. IInv'
    BY <2>1 DEF vars, history, sender, receiver, IInv, TypeOK, WithinWindows, InOrder, NothingLost,
                Queued, AllGenuine, AcksTrue, Genuine, Has, Sns
  <2>3. UNCHANGED <<snd_nxt, snd_buf, rcv_nxt, acklist, fwd, back>>
    BY <2>1 DEF vars, sender, receiver
  <2>4. acklist \subseteq Nat
    BY DEF IInv, TypeOK
  <2>5. Young'
    BY <2>3, <2>4, StillYoung, NumberFacts
  <2> QED BY <2>2, <2>5
<1>9. QED
  BY <1>1, <1>2, <1>3, <1>4, <1>5, <1>6, <1>7, <1>8 DEF Next

LEMMA Inductive == Spec => []Inv
<1>1. Init => Inv
  BY InitIInv, InitYoung DEF Inv
<1> QED BY <1>1, NextKeeps, PTL DEF Spec

-----------------------------------------------------------------------------
(***************************************************************************)
(* Messages: what is in stream and read besides.                           *)
(***************************************************************************)

\* frg counts the pieces that follow: the message of a piece ends that many places later.
Shaped(s) ==
  \A i \in 1..Len(s) : i + s[i].frg <= Len(s) /\ Last(s[i + s[i].frg])

\* Every message that is counted ends somewhere.
Ranked(s) ==
  \A k \in 1..Count(s) : \E i \in 1..Len(s) : Last(s[i]) /\ Ended(s, i) = k

Whole == WholeMessages /\ Shaped(stream) /\ Ranked(stream) /\ Ranked(read)
-----------------------------------------------------------------------------
(***************************************************************************)
(* The messages that end within the first pieces.                          *)
(***************************************************************************)
LEMMA EndedIsNat ==
  ASSUME NEW s, NEW n \in Nat
  PROVE  IsFiniteSet({i \in 1..n : Last(s[i])}) /\ Ended(s, n) \in Nat
<1>1. IsFiniteSet(1..n)
  BY FS_Interval
<1>2. {i \in 1..n : Last(s[i])} \in SUBSET (1..n)
  OBVIOUS
<1>3. QED
  BY <1>1, <1>2, FS_Subset, FS_CardinalityType, Zenon DEF Ended

LEMMA EndedGrows ==
  ASSUME NEW s, NEW m \in Nat, NEW n \in Nat, m <= n
  PROVE  Ended(s, m) <= Ended(s, n)
<1>1. {i \in 1..m : Last(s[i])} \in SUBSET {i \in 1..n : Last(s[i])}
  OBVIOUS
<1>2. QED
  BY <1>1, EndedIsNat, FS_Subset, Zenon DEF Ended

LEMMA NextEnd ==
  ASSUME NEW s, NEW m \in Nat, NEW n \in Nat, m < n, Last(s[n]),
         \A i \in m + 1..n - 1 : ~Last(s[i])
  PROVE  Ended(s, n) = Ended(s, m) + 1
<1> DEFINE A == {i \in 1..m : Last(s[i])}
           B == {i \in 1..n : Last(s[i])}
<1>1. B = A \union {n}
  <2>1. ASSUME NEW i \in B PROVE i \in A \union {n}
    <3>1. CASE i \in m + 1..n - 1
      BY <3>1
    <3>2. CASE i <= m
      BY <3>2
    <3> QED BY <3>1, <3>2
  <2>2. ASSUME NEW i \in A \union {n} PROVE i \in B
    OBVIOUS
  <2> QED BY <2>1, <2>2
<1>2. n \notin A
  OBVIOUS
<1>3. IsFiniteSet(A)
  BY EndedIsNat
<1> HIDE DEF A, B
<1>4. Cardinality(B) = Cardinality(A) + 1
  BY <1>1, <1>2, <1>3, FS_AddElement
<1>5. QED
  BY <1>4 DEF A, B, Ended

LEMMA EndedAgrees ==
  ASSUME NEW s, NEW t, NEW n \in Nat, \A i \in 1..n : s[i] = t[i]
  PROVE  Ended(s, n) = Ended(t, n)
<1>1. {i \in 1..n : Last(s[i])} = {i \in 1..n : Last(t[i])}
  OBVIOUS
<1>2. QED
  BY <1>1 DEF Ended

LEMMA LaterEnd ==
  ASSUME NEW s, NEW i \in Nat, NEW j \in Nat, i < j, Last(s[j])
  PROVE  Ended(s, i) < Ended(s, j)
<1>1. j - 1 \in Nat /\ i <= j - 1 /\ j - 1 < j
  OBVIOUS
<1>2. \A x \in j - 1 + 1..j - 1 : ~Last(s[x])
  OBVIOUS
<1>3. Ended(s, j) = Ended(s, j - 1) + 1
  BY <1>1, <1>2, NextEnd
<1>4. Ended(s, i) <= Ended(s, j - 1)
  BY <1>1, EndedGrows
<1>5. Ended(s, i) \in Nat /\ Ended(s, j - 1) \in Nat
  BY <1>1, EndedIsNat
<1>6. QED
  BY <1>3, <1>4, <1>5

\* No two messages end at the same place.
LEMMA EndIs ==
  ASSUME NEW s, Len(s) \in Nat, NEW k, NEW i \in 1..Len(s), Last(s[i]), Ended(s, i) = k
  PROVE  EndOf(s, k) = i
<1>1. ASSUME NEW j \in 1..Len(s), Last(s[j]), Ended(s, j) = k PROVE j = i
  <2>0. i \in Nat /\ j \in Nat
    OBVIOUS
  <2>1. i \in Nat /\ j \in Nat /\ Ended(s, i) \in Nat
    BY <2>0, EndedIsNat, Zenon
  <2>2. ~ (i < j)
    BY <1>1, <2>1, LaterEnd
  <2>3. ~ (j < i)
    BY <1>1, <2>1, LaterEnd
  <2> QED BY <2>1, <2>2, <2>3
<1>2. QED
  BY <1>1, Zenon DEF EndOf

LEMMA MessagesType ==
  ASSUME NEW s \in Seq(Pieces), Ranked(s)
  PROVE  /\ Count(s) \in Nat
         /\ Messages(s) \in Seq(Nat) /\ Len(Messages(s)) = Count(s)
<1>1. Count(s) \in Nat
  <2>1. Len(s) \in Nat
    OBVIOUS
  <2> QED BY <2>1, EndedIsNat, Zenon DEF Count
<1>2. ASSUME NEW k \in 1..Count(s) PROVE s[EndOf(s, k)].msg \in Nat
  <2>1. PICK i \in 1..Len(s) : Last(s[i]) /\ Ended(s, i) = k
    BY DEF Ranked
  <2>2. EndOf(s, k) = i
    BY <2>1, EndIs
  <2>3. s[i] \in Pieces
    OBVIOUS
  <2> QED BY <2>2, <2>3 DEF Pieces
<1>3. Messages(s) \in [1..Count(s) -> Nat]
  BY <1>2 DEF Messages
<1>4. QED
  BY <1>1, <1>3

\* The messages of a prefix are the first ones.
Starts(s, t) == Len(s) <= Len(t) /\ \A i \in 1..Len(s) : t[i] = s[i]

LEMMA PrefixMessages ==
  ASSUME NEW s \in Seq(Pieces), NEW t \in Seq(Pieces), Starts(s, t), Ranked(s)
  PROVE  /\ Count(s) <= Count(t)
         /\ \A k \in 1..Count(s) : Messages(t)[k] = Messages(s)[k]
<1>1. Len(s) \in Nat /\ Len(t) \in Nat /\ Len(s) <= Len(t) /\ \A i \in 1..Len(s) : t[i] = s[i]
  BY DEF Starts
<1>2. Ended(t, Len(s)) = Count(s)
  BY <1>1, EndedAgrees DEF Count
<1>3. Count(s) <= Count(t)
  BY <1>1, <1>2, EndedGrows DEF Count
<1>4. ASSUME NEW k \in 1..Count(s) PROVE Messages(t)[k] = Messages(s)[k]
  <2>1. PICK i \in 1..Len(s) : Last(s[i]) /\ Ended(s, i) = k
    BY DEF Ranked
  <2>2. EndOf(s, k) = i
    BY <1>1, <2>1, EndIs
  <2>3. i \in Nat /\ i \in 1..Len(t) /\ t[i] = s[i] /\ \A j \in 1..i : t[j] = s[j]
    BY <1>1
  <2>4. Ended(t, i) = k
    BY <2>1, <2>3, EndedAgrees
  <2>5. EndOf(t, k) = i
    BY <1>1, <2>1, <2>3, <2>4, EndIs
  <2>6. Count(s) \in Nat /\ Count(t) \in Nat
    BY <1>1, EndedIsNat DEF Count
  <2>7. k \in 1..Count(t)
    BY <1>3, <2>6
  <2> QED BY <2>2, <2>3, <2>5, <2>7 DEF Messages
<1>5. QED
  BY <1>3, <1>4

(***************************************************************************)
(* One message more: the pieces c end with a last one and hold no other.   *)
(***************************************************************************)
OneMessage(c) ==
  /\ Len(c) > 0 /\ Last(c[Len(c)])
  /\ \A i \in 1..Len(c) - 1 : ~Last(c[i])

LEMMA OneMore ==
  ASSUME NEW s \in Seq(Pieces), NEW c \in Seq(Pieces), OneMessage(c), Ranked(s),
         NEW t, t = s \o c
  PROVE  /\ t \in Seq(Pieces) /\ Starts(s, t) /\ Len(t) = Len(s) + Len(c)
         /\ \A i \in 1..Len(c) : t[Len(s) + i] = c[i]
         /\ Last(t[Len(t)]) /\ Count(t) = Count(s) + 1 /\ Ranked(t)
         /\ Messages(t) = Append(Messages(s), c[Len(c)].msg)
<1>1. /\ t \in Seq(Pieces) /\ Len(t) = Len(s) + Len(c)
      /\ \A i \in 1..Len(s) + Len(c) : t[i] = IF i <= Len(s) THEN s[i] ELSE c[i - Len(s)]
  BY ConcatProperties
<1>2. /\ Len(s) \in Nat /\ Len(c) \in Nat /\ Len(c) > 0 /\ Len(t) \in Nat
      /\ Last(c[Len(c)]) /\ \A i \in 1..Len(c) - 1 : ~Last(c[i])
  BY <1>1 DEF OneMessage
<1>3. \A i \in 1..Len(s) : t[i] = s[i]
  BY <1>1, <1>2
<1>4. ASSUME NEW i \in 1..Len(c) PROVE t[Len(s) + i] = c[i]
  <2>1. Len(s) + i \in 1..Len(s) + Len(c) /\ ~ (Len(s) + i <= Len(s)) /\ Len(s) + i - Len(s) = i
    BY <1>2
  <2> QED BY <1>1, <2>1
<1>5. Last(t[Len(t)]) /\ t[Len(t)] = c[Len(c)]
  <2>1. t[Len(t)] = c[Len(c)]
    BY <1>1, <1>2, <1>4
  <2> QED BY <1>2, <2>1
<1>6. ASSUME NEW i \in Len(s) + 1..Len(t) - 1 PROVE ~Last(t[i])
  <2>1. i - Len(s) \in 1..Len(c) - 1 /\ i - Len(s) \in 1..Len(c) /\ Len(s) + (i - Len(s)) = i
    BY <1>1, <1>2
  <2> QED BY <1>2, <1>4, <2>1
<1>7. Count(t) = Count(s) + 1
  <2>1. Len(s) < Len(t)
    BY <1>1, <1>2
  <2>2. Ended(t, Len(t)) = Ended(t, Len(s)) + 1
    BY <1>2, <1>5, <1>6, <2>1, NextEnd
  <2>3. Ended(t, Len(s)) = Ended(s, Len(s))
    BY <1>2, <1>3, EndedAgrees
  <2> QED BY <2>2, <2>3 DEF Count
<1>8. Starts(s, t)
  BY <1>1, <1>2, <1>3 DEF Starts
<1>9. Count(s) \in Nat /\ Count(t) \in Nat
  BY <1>2, EndedIsNat DEF Count
<1>10. Ranked(t)
  <2>1. ASSUME NEW k \in 1..Count(t) PROVE \E i \in 1..Len(t) : Last(t[i]) /\ Ended(t, i) = k
    <3>1. CASE k = Count(t)
      <4>1. Len(t) \in 1..Len(t)
        BY <1>1, <1>2
      <4> QED BY <1>5, <3>1, <4>1 DEF Count
    <3>2. CASE k # Count(t)
      <4>1. k \in 1..Count(s)
        BY <1>7, <1>9, <3>2
      <4>2. PICK i \in 1..Len(s) : Last(s[i]) /\ Ended(s, i) = k
        BY <4>1 DEF Ranked
      <4>3. i \in Nat /\ i \in 1..Len(t) /\ t[i] = s[i] /\ \A j \in 1..i : t[j] = s[j]
        BY <1>1, <1>2, <1>3
      <4>4. Ended(t, i) = k
        BY <4>2, <4>3, EndedAgrees
      <4> QED BY <4>2, <4>3, <4>4
    <3> QED BY <3>1, <3>2
  <2> QED BY <2>1 DEF Ranked
<1>11. Messages(t) = Append(Messages(s), c[Len(c)].msg)
  <2>1. /\ Messages(t) \in Seq(Nat) /\ Len(Messages(t)) = Count(t)
        /\ Messages(s) \in Seq(Nat) /\ Len(Messages(s)) = Count(s)
    BY <1>1, <1>10, MessagesType
  <2>2. \A k \in 1..Count(s) : Messages(t)[k] = Messages(s)[k]
    BY <1>1, <1>8, PrefixMessages
  <2>3. Messages(t)[Count(t)] = c[Len(c)].msg
    <3>1. Len(t) \in 1..Len(t)
      BY <1>1, <1>2
    <3>2. EndOf(t, Count(t)) = Len(t)
      BY <1>2, <1>5, <3>1, EndIs DEF Count
    <3>3. Count(t) \in 1..Count(t)
      BY <1>7, <1>9
    <3> QED BY <1>5, <3>2, <3>3 DEF Messages
  <2>4. c[Len(c)].msg \in Nat
    <3>1. c[Len(c)] \in Pieces
      BY <1>2
    <3> QED BY <3>1 DEF Pieces
  <2>5. /\ Append(Messages(s), c[Len(c)].msg) \in Seq(Nat)
        /\ Len(Append(Messages(s), c[Len(c)].msg)) = Count(t)
        /\ \A k \in 1..Count(s) : Append(Messages(s), c[Len(c)].msg)[k] = Messages(s)[k]
        /\ Append(Messages(s), c[Len(c)].msg)[Count(t)] = c[Len(c)].msg
    BY <1>7, <2>1, <2>4, AppendProperties
  <2>6. \A k \in 1..Count(t) : k = Count(t) \/ k \in 1..Count(s)
    BY <1>7, <1>9
  <2>7. \A k \in 1..Count(t) : Messages(t)[k] = Append(Messages(s), c[Len(c)].msg)[k]
    BY <2>2, <2>3, <2>5, <2>6
  <2> QED BY <2>1, <2>5, <2>7, SeqEqual
<1>12. QED
  BY <1>1, <1>4, <1>5, <1>7, <1>8, <1>10, <1>11
-----------------------------------------------------------------------------
(***************************************************************************)
(* Ikcp_send: a whole message is added.                                    *)
(***************************************************************************)
LEMMA CutIsMessage ==
  ASSUME NEW m \in DOMAIN Sizes
  PROVE  /\ Cut(m) \in Seq(Pieces) /\ OneMessage(Cut(m)) /\ Cut(m)[Len(Cut(m))].msg = m
         /\ \A i \in 1..Len(Cut(m)) : Cut(m)[i].frg = Len(Cut(m)) - i
<1>1. m \in Nat /\ Sizes[m] \in Nat /\ Sizes[m] > 0
  BY IkcpAssumption
<1>2. Cut(m) \in [1..Sizes[m] -> Pieces]
  BY <1>1 DEF Cut, Pieces
<1>3. Cut(m) \in Seq(Pieces) /\ Len(Cut(m)) = Sizes[m]
  BY <1>1, <1>2
<1>4. \A i \in 1..Sizes[m] : Cut(m)[i] = [msg |-> m, frg |-> Sizes[m] - i]
  BY DEF Cut
<1>5. \A i \in 1..Sizes[m] : Cut(m)[i].msg = m /\ Cut(m)[i].frg = Sizes[m] - i
  <2>1. \A i \in 1..Sizes[m] : [msg |-> m, frg |-> Sizes[m] - i].msg = m
    OBVIOUS
  <2>2. \A i \in 1..Sizes[m] : [msg |-> m, frg |-> Sizes[m] - i].frg = Sizes[m] - i
    OBVIOUS
  <2> QED BY <1>4, <2>1, <2>2, Zenon
<1>6. Sizes[m] \in 1..Sizes[m] /\ Sizes[m] - Sizes[m] = 0
  BY <1>1
<1>7. \A i \in 1..Sizes[m] - 1 : i \in 1..Sizes[m] /\ Sizes[m] - i # 0
  BY <1>1
<1>8. OneMessage(Cut(m))
  BY <1>1, <1>3, <1>5, <1>6, <1>7 DEF OneMessage, Last
<1>9. QED
  BY <1>3, <1>5, <1>6, <1>8

LEMMA SendWhole ==
  ASSUME IInv, Whole, Send
  PROVE  Whole' /\ Abstract!Send
<1>1. PICK m \in DOMAIN Sizes : stream' = stream \o Cut(m)
  BY DEF Send
<1>2. UNCHANGED read /\ stream \in Seq(Pieces)
  BY DEF Send, IInv, TypeOK
<1>3. /\ Cut(m) \in Seq(Pieces) /\ OneMessage(Cut(m)) /\ Cut(m)[Len(Cut(m))].msg = m
      /\ \A i \in 1..Len(Cut(m)) : Cut(m)[i].frg = Len(Cut(m)) - i
  BY CutIsMessage
<1>4. Ranked(stream) /\ Ranked(read) /\ Shaped(stream)
  BY DEF Whole
<1> DEFINE c == Cut(m)
<1>5. /\ stream' \in Seq(Pieces) /\ Starts(stream, stream') /\ Len(stream') = Len(stream) + Len(c)
      /\ \A i \in 1..Len(c) : stream'[Len(stream) + i] = c[i]
      /\ Last(stream'[Len(stream')]) /\ Ranked(stream')
      /\ Messages(stream') = Append(Messages(stream), c[Len(c)].msg)
  BY ZenonT(60), <1>1, <1>2, <1>3, <1>4, OneMore
<1> HIDE DEF c
<1>6. Len(stream) \in Nat /\ Len(c) \in Nat /\ Len(stream') \in Nat
  BY <1>2, <1>3, <1>5 DEF c
<1>7. Shaped(stream')
  <2>1. ASSUME NEW i \in 1..Len(stream')
        PROVE  i + stream'[i].frg <= Len(stream') /\ Last(stream'[i + stream'[i].frg])
    <3>1. CASE i <= Len(stream)
      <4>0. i \in 1..Len(stream) /\ stream'[i] = stream[i]
        BY <1>5, <1>6, <3>1 DEF Starts
      <4>1. i \in 1..Len(stream) /\ stream'[i] = stream[i] /\ stream[i].frg \in Nat
        <5>1. stream[i] \in Pieces
          BY <1>2, <4>0
        <5> QED BY <4>0, <5>1 DEF Pieces
      <4>2. i + stream[i].frg <= Len(stream) /\ Last(stream[i + stream[i].frg])
        BY <1>4, <4>1 DEF Shaped
      <4>3. i + stream[i].frg \in 1..Len(stream)
        BY <1>6, <4>1, <4>2
      <4>4. stream'[i + stream[i].frg] = stream[i + stream[i].frg]
        BY <1>5, <4>3 DEF Starts
      <4> QED BY <1>5, <1>6, <4>1, <4>2, <4>3, <4>4
    <3>2. CASE ~ (i <= Len(stream))
      <4>1. i - Len(stream) \in 1..Len(c) /\ Len(stream) + (i - Len(stream)) = i
        BY <1>5, <1>6, <3>2
      <4>2. stream'[i] = c[i - Len(stream)]
        BY <1>5, <4>1
      <4>3. stream'[i].frg = Len(c) - (i - Len(stream))
        BY <1>3, <4>1, <4>2 DEF c
      <4>4. i + stream'[i].frg = Len(stream')
        BY <1>5, <1>6, <4>1, <4>3
      <4> QED BY <1>5, <1>6, <4>4
    <3> QED BY <3>1, <3>2
  <2> QED BY <2>1 DEF Shaped
<1>8. Whole'
  <2>1. Shaped(stream)' /\ Ranked(stream)' /\ Ranked(read)'
    BY <1>2, <1>4, <1>5, <1>7
  <2>2. WholeMessages'
    BY <1>2 DEF Whole, WholeMessages
  <2> QED BY <2>1, <2>2 DEF Whole
<1>9. Abstract!Send
  <2>1. Messages(stream)' = Append(Messages(stream), m)
    BY <1>3, <1>5 DEF c
  <2>2. Messages(read)' = Messages(read)
    BY <1>2
  <2> QED BY <2>1, <2>2 DEF Abstract!Send
<1>10. QED
  BY <1>8, <1>9
-----------------------------------------------------------------------------
(***************************************************************************)
(* Ikcp_recv: what Complete finds in rcv_queue reaches to the end of the   *)
(* first message, and no further is taken.                                 *)
(***************************************************************************)
LEMMA TakenIsMessage ==
  ASSUME IInv, Whole, Complete
  PROVE  /\ Taken \in 1..Len(rcv_queue) /\ Last(rcv_queue[Taken])
         /\ \A i \in 1..Taken - 1 : ~Last(rcv_queue[i])
<1> DEFINE S == {n \in 1..Len(rcv_queue) : n = Len(rcv_queue) \/ Last(rcv_queue[n])}
           k == rcv_queue[1].frg
<1>1. /\ rcv_queue \in Seq(Pieces) /\ read \in Seq(Pieces) /\ stream \in Seq(Pieces)
      /\ rcv_queue # <<>> /\ Len(rcv_queue) > k /\ rcv_nxt \in Nat /\ rcv_nxt <= Len(stream)
      /\ read \o rcv_queue = SubSeq(stream, 1, rcv_nxt)
  BY DEF IInv, TypeOK, Complete, InOrder, AcksTrue, Queued
<1>2. Len(rcv_queue) \in Nat \ {0} /\ Len(read) \in Nat
  BY <1>1, EmptySeq
<1>3. k \in Nat
  <2>1. rcv_queue[1] \in Pieces
    BY <1>1, <1>2
  <2> QED BY <2>1 DEF Pieces
<1>4. Len(read) + Len(rcv_queue) = rcv_nxt /\ Begin(stream, read, rcv_queue)
  BY <1>1, PrefixOfJoin
<1> HIDE DEF k
<1>5. \A i \in 1..Len(rcv_queue) : rcv_queue[i] = stream[Len(read) + i]
  BY <1>4 DEF Begin
<1>6. Last(rcv_queue[k + 1])
  <2>1. 1 \in 1..Len(rcv_queue) /\ k + 1 \in 1..Len(rcv_queue)
    BY <1>1, <1>2, <1>3
  <2>2. stream[Len(read) + 1].frg = k
    BY <1>5, <2>1 DEF k
  <2>3. Len(read) + 1 \in 1..Len(stream)
    BY <1>1, <1>2, <1>4
  <2>4. Last(stream[Len(read) + 1 + stream[Len(read) + 1].frg])
    BY <2>3 DEF Whole, Shaped
  <2>5. Len(read) + 1 + k = Len(read) + (k + 1)
    BY <1>2, <1>3
  <2> QED BY <1>5, <2>1, <2>2, <2>4, <2>5
<1>7. k + 1 \in S /\ S \subseteq Nat
  BY <1>1, <1>2, <1>3, <1>6
<1>8. Least(S) \in S /\ \A n \in S : Least(S) <= n
  BY <1>7, LeastIsLeast
<1>9. Taken = Least(S)
  BY DEF Taken
<1>10. Taken \in 1..Len(rcv_queue) /\ (Taken = Len(rcv_queue) \/ Last(rcv_queue[Taken]))
  BY <1>8, <1>9
<1>11. Taken <= k + 1 /\ k + 1 <= Len(rcv_queue)
  BY <1>1, <1>2, <1>3, <1>7, <1>8, <1>9
<1>12. Last(rcv_queue[Taken])
  <2>1. CASE Taken = Len(rcv_queue)
    <3>1. Taken = k + 1
      BY <1>2, <1>3, <1>11, <2>1
    <3> QED BY <1>6, <3>1
  <2> QED BY <1>10, <2>1
<1>13. ASSUME NEW i \in 1..Taken - 1 PROVE ~Last(rcv_queue[i])
  <2>1. i \in 1..Len(rcv_queue) /\ ~ (Taken <= i)
    BY <1>2, <1>10
  <2>2. i \notin S
    BY <1>8, <1>9, <2>1
  <2> QED BY <2>1, <2>2
<1>14. QED
  BY <1>10, <1>12, <1>13

LEMMA RecvWhole ==
  ASSUME IInv, IInv', Whole, Recv
  PROVE  Whole' /\ Abstract!Recv
<1>1. /\ UNCHANGED stream /\ Complete /\ read' = read \o SubSeq(rcv_queue, 1, Taken)
  BY DEF Recv
<1>2. /\ Taken \in 1..Len(rcv_queue) /\ Last(rcv_queue[Taken])
      /\ \A i \in 1..Taken - 1 : ~Last(rcv_queue[i])
  BY <1>1, TakenIsMessage
<1>3. /\ rcv_queue \in Seq(Pieces) /\ read \in Seq(Pieces) /\ stream \in Seq(Pieces)
      /\ Len(rcv_queue) \in Nat /\ Len(read) \in Nat
  BY DEF IInv, TypeOK
<1> DEFINE c == SubSeq(rcv_queue, 1, Taken)
<1>4. c \in Seq(Pieces) /\ Len(c) = Taken /\ \A i \in 1..Taken : c[i] = rcv_queue[i]
  <2>1. Taken \in Nat /\ \A i \in 1..Taken : rcv_queue[i] \in Pieces
    BY <1>2, <1>3
  <2> QED BY <2>1, SubSeqProperties
<1>5. read' = read \o c
  BY <1>1
<1> HIDE DEF c
<1>6. OneMessage(c)
  <2>1. Taken \in 1..Taken /\ Taken > 0 /\ \A i \in 1..Taken - 1 : i \in 1..Taken
    BY <1>2
  <2> QED BY <1>2, <1>4, <2>1 DEF OneMessage
<1>7. Ranked(stream) /\ Ranked(read) /\ Shaped(stream)
  BY DEF Whole
<1>8. /\ read' \in Seq(Pieces) /\ Last(read'[Len(read')])
      /\ Count(read') = Count(read) + 1 /\ Ranked(read')
      /\ Messages(read') = Append(Messages(read), c[Len(c)].msg)
  BY ZenonT(60), <1>3, <1>4, <1>5, <1>6, <1>7, OneMore
<1>9. Whole'
  <2>1. WholeMessages'
    BY <1>8 DEF WholeMessages
  <2>2. Shaped(stream)' /\ Ranked(stream)' /\ Ranked(read)'
    BY <1>1, <1>7, <1>8
  <2> QED BY <2>1, <2>2 DEF Whole
<1>10. Starts(read', stream)
  <2>1. /\ rcv_queue' \in Seq(Pieces) /\ rcv_nxt' \in Nat /\ rcv_nxt' <= Len(stream)
        /\ read' \o rcv_queue' = SubSeq(stream, 1, rcv_nxt')
    BY <1>1, <1>3 DEF IInv, TypeOK, InOrder, AcksTrue, Queued
  <2>2. Len(read') + Len(rcv_queue') = rcv_nxt' /\ Begin(stream, read', rcv_queue')
    BY <1>3, <1>8, <2>1, PrefixOfJoin
  <2>3. Len(read') <= Len(stream)
    BY <1>3, <1>8, <2>1, <2>2
  <2> QED BY <2>2, <2>3 DEF Starts, Begin
<1>11. Count(read') <= Count(stream) /\ Messages(stream)[Count(read')] = Messages(read')[Count(read')]
  <2>1. Count(read') \in Nat /\ Count(read) \in Nat
    BY <1>3, <1>7, <1>8, MessagesType
  <2>2. Count(read') \in 1..Count(read')
    BY <1>8, <2>1
  <2> QED BY <1>3, <1>8, <1>10, <2>2, PrefixMessages
<1>12. /\ Messages(read) \in Seq(Nat) /\ Len(Messages(read)) = Count(read) /\ Count(read) \in Nat
       /\ Len(Messages(stream)) = Count(stream) /\ Count(stream) \in Nat
  BY <1>3, <1>7, MessagesType
<1>13. c[Len(c)].msg \in Nat
  <2>1. c[Len(c)] \in Pieces
    BY <1>4, <1>6 DEF OneMessage
  <2> QED BY <2>1 DEF Pieces
<1>14. Messages(read')[Count(read')] = c[Len(c)].msg
  BY <1>8, <1>12, <1>13, AppendProperties
<1>15. Abstract!Recv
  <2>1. Len(Messages(read)) < Len(Messages(stream))
    BY <1>8, <1>11, <1>12
  <2>2. Messages(read)' = Append(Messages(read), Messages(stream)[Len(Messages(read)) + 1])
    BY <1>8, <1>11, <1>12, <1>14
  <2>3. Messages(stream)' = Messages(stream)
    BY <1>1
  <2> QED BY <2>1, <2>2, <2>3 DEF Abstract!Recv
<1>16. QED
  BY <1>9, <1>15
-----------------------------------------------------------------------------
LEMMA HistoryStays ==
  ASSUME Whole, UNCHANGED history
  PROVE  Whole' /\ UNCHANGED <<Messages(stream), Messages(read)>>
BY DEF history, Whole, WholeMessages

\* Every step of the two control blocks is a step of the stream or none.
LEMMA NextWhole ==
  IInv /\ IInv' /\ Whole /\ [Next]_vars
    => Whole' /\ [Abstract!Next]_<<Messages(stream), Messages(read)>>
<1> SUFFICES ASSUME IInv, IInv', Whole, [Next]_vars
             PROVE  Whole' /\ [Abstract!Next]_<<Messages(stream), Messages(read)>>
  OBVIOUS
<1>1. CASE Send
  BY <1>1, SendWhole DEF Abstract!Next
<1>2. CASE Recv
  BY <1>2, RecvWhole DEF Abstract!Next
<1>3. CASE FlushData \/ (\E m \in back : SenderInput(m)) \/ (\E m \in fwd : InputPush(m))
           \/ InputWask \/ FlushAcks \/ UNCHANGED vars
  <2>1. UNCHANGED history
    BY <1>3 DEF FlushData, SenderInput, InputPush, InputWask, FlushAcks, vars
  <2> QED BY <2>1, HistoryStays
<1>4. QED
  BY <1>1, <1>2, <1>3 DEF Next

LEMMA InitWhole == Init => Whole /\ Abstract!Init
<1> SUFFICES ASSUME Init PROVE Whole /\ Abstract!Init
  OBVIOUS
<1>1. stream = <<>> /\ read = <<>> /\ <<>> \in Seq(Pieces) /\ Len(<<>>) = 0
  BY DEF Init
<1>2. Count(<<>>) = 0
  <2>1. {i \in 1..0 : Last(<<>>[i])} = {}
    OBVIOUS
  <2> QED BY <1>1, <2>1, FS_EmptySet DEF Count, Ended
<1>3. Ranked(<<>>) /\ Shaped(<<>>)
  BY <1>1, <1>2 DEF Ranked, Shaped
<1>4. Whole
  BY <1>1, <1>3 DEF Whole, WholeMessages
<1>5. Messages(<<>>) = <<>>
  <2>1. Messages(<<>>) \in Seq(Nat) /\ Len(Messages(<<>>)) = 0
    BY <1>1, <1>2, <1>3, MessagesType
  <2> QED BY <2>1, EmptySeq
<1>6. Abstract!Init
  BY <1>1, <1>5 DEF Abstract!Init
<1>7. QED
  BY <1>4, <1>6

LEMMA WholeHolds == Spec => [](IInv /\ Whole)
<1>1. Init => Whole
  BY InitWhole
<1>2. IInv /\ IInv' /\ Whole /\ [Next]_vars => Whole'
  BY NextWhole
<1>3. Inv => IInv
  BY DEF Inv
<1>4. QED
  BY <1>1, <1>2, <1>3, Inductive, PTL DEF Spec
-----------------------------------------------------------------------------
\* Every reachable state of the two control blocks has its types.
THEOREM TypeCorrect == Spec => []TypeOK
<1>1. Inv => TypeOK
  BY DEF Inv, IInv
<1>2. QED
  BY <1>1, Inductive, PTL

\* ikcp_flush and ikcp_parse_data keep every buffer within its window.
THEOREM WindowsHold == Spec => []WithinWindows
<1>1. Inv => WithinWindows
  BY DEF Inv, IInv
<1>2. QED
  BY <1>1, Inductive, PTL

\* What Ikcp_recv returns is the beginning of what Ikcp_send was given, whatever
\* the network loses, repeats or reorders.
THEOREM ReadInOrder == Spec => []InOrder
<1>1. Inv => InOrder
  BY DEF Inv, IInv
<1>2. QED
  BY <1>1, Inductive, PTL

\* ikcp_parse_ack and ikcp_parse_una never make the sender forget a segment that
\* the receiver does not have.
THEOREM NoneForgotten == Spec => []NothingLost
<1>1. Inv => NothingLost
  BY DEF Inv, IInv
<1>2. QED
  BY <1>1, Inductive, PTL

\* The signed 32-bit comparisons of Ikcp_input, ikcp_parse_una, ikcp_parse_ack and
\* ikcp_parse_data come out as those of the numbers themselves, however often these
\* have come round.
THEOREM ComparisonsExact == Spec => []Exact
<1>1. Inv => Exact
  BY PushesExact, AnswersExact DEF Inv, Exact
<1>2. QED
  BY <1>1, Inductive, PTL

\* Ikcp_recv returns whole messages, however they were cut by Ikcp_send and in
\* whatever pieces and order the network delivered them.
THEOREM ReadsWhole == Spec => []WholeMessages
<1>1. Whole => WholeMessages
  BY DEF Whole
<1>2. QED
  BY <1>1, WholeHolds, PTL

\* The two control blocks implement module Stream: whatever the network loses,
\* repeats or reorders, each call of Ikcp_recv returns the next message that was
\* sent.
THEOREM ImplementsStream == Spec => IsStream
<1>1. Init => Abstract!Init
  BY InitWhole
<1>2. IInv /\ IInv' /\ Whole /\ [Next]_vars => [Abstract!Next]_<<Messages(stream), Messages(read)>>
  BY NextWhole
<1>3. QED
  BY <1>1, <1>2, WholeHolds, PTL DEF Spec, IsStream, Abstract!Spec
=============================================================================
