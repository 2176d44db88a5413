-------------------------- MODULE TunnelFlowProofs --------------------------
(***************************************************************************)
(* What a connection writes is what the other side read. The inductive     *)
(* invariant Flowed follows the data of a connection through all queues    *)
(* between the two sockets; the order of what is written, the truth of an  *)
(* end, and that the tunnel implements module Pipes follow.                *)
(***************************************************************************)
EXTENDS TunnelProofs

-----------------------------------------------------------------------------
(***************************************************************************)
(* The messages of one connection among those of all.                      *)
(***************************************************************************)

\* m is the k-th piece of data of c.
IsData(m, c, k) == m.conn = c /\ m.type = "data" /\ m.n = k

\* m is a MsgTypeFin of c that e pieces went before.
IsFin(m, c, e) == m.conn = c /\ m.type = "fin" /\ m.n = e

\* The j-th message of W is where it belongs in the order of c: t pieces of c
\* were sent, and the first b of them have been written. Unless e is None the
\* first MsgTypeFin of c was sent when e had been, and what was sent after it
\* comes after it.
InPlace(W, c, b, t, e, j) ==
  /\ W[j].n >= b /\ W[j].n <= t
  /\ W[j].type = "data" => W[j].n > b
  /\ W[j].type = "fin" => e # None /\ e <= W[j].n
  /\ \A i \in 1..(j - 1) : W[i].conn = c =>
       /\ W[i].n <= W[j].n
       /\ W[j].type = "data" => W[i].n < W[j].n
  /\ \A k \in (b + 1)..W[j].n : \E i \in 1..j : IsData(W[i], c, k)
  /\ e # None /\ W[j].n > e => \E i \in 1..(j - 1) : IsFin(W[i], c, e)

\* The messages of c in W continue b pieces.
Orderly(W, c, b, t, e) == \A j \in 1..Len(W) : W[j].conn = c => InPlace(W, c, b, t, e, j)

\* Every piece after the b-th, to the t-th, is in W.
Full(W, c, b, t) == \A k \in (b + 1)..t : \E i \in 1..Len(W) : IsData(W[i], c, k)

\* So is the first MsgTypeFin, if there is one.
Marked(W, c, e) == e # None => \E i \in 1..Len(W) : IsFin(W[i], c, e)

\* A front part of what is orderly is orderly.
LEMMA OrderlyPrefix ==
  ASSUME NEW a \in Seq(Msgs), NEW z \in Seq(Msgs), NEW c, NEW b, NEW t, NEW e,
         Orderly(a \o z, c, b, t, e)
  PROVE  Orderly(a, c, b, t, e)
<1> DEFINE W == a \o z
<1>1. \A i \in 1..Len(a) : W[i] = a[i]
  BY ConcatLeft
<1>2. Len(W) = Len(a) + Len(z) /\ Len(a) \in Nat /\ Len(z) \in Nat
  BY Join
<1>3. Orderly(W, c, b, t, e)
  OBVIOUS
<1> HIDE DEF W
<1>4. ASSUME NEW j \in 1..Len(a)
      PROVE  /\ j \in 1..Len(W) /\ W[j] = a[j]
             /\ \A i \in 1..(j - 1) : W[i] = a[i]
             /\ \A i \in 1..j : W[i] = a[i]
  <2>1. j \in 1..Len(W) /\ \A i \in 1..j : i \in 1..Len(a)
    BY <1>2
  <2>2. \A i \in 1..(j - 1) : i \in 1..Len(a)
    BY <1>2
  <2> QED BY <1>1, <2>1, <2>2
<1>5. ASSUME NEW j \in 1..Len(a), a[j].conn = c
      PROVE  InPlace(a, c, b, t, e, j)
  <2>1. /\ j \in 1..Len(W) /\ W[j] = a[j]
        /\ \A i \in 1..(j - 1) : W[i] = a[i]
        /\ \A i \in 1..j : W[i] = a[i]
    BY <1>4
  <2>2. InPlace(W, c, b, t, e, j)
    BY <1>3, <1>5, <2>1 DEF Orderly
  <2>3. /\ a[j].n >= b /\ a[j].n <= t
        /\ a[j].type = "data" => a[j].n > b
        /\ a[j].type = "fin" => e # None /\ e <= a[j].n
        /\ e # None /\ a[j].n > e => \E i \in 1..(j - 1) : IsFin(a[i], c, e)
    BY <2>1, <2>2 DEF InPlace
  <2>4. \A i \in 1..(j - 1) : W[i].conn = c =>
          W[i].n <= W[j].n /\ (W[j].type = "data" => W[i].n < W[j].n)
    BY <2>2 DEF InPlace
  <2>5. \A k \in (b + 1)..W[j].n : \E i \in 1..j : IsData(W[i], c, k)
    BY <2>2 DEF InPlace
  <2> QED BY <2>1, <2>3, <2>4, <2>5 DEF InPlace
<1> QED
  BY <1>5 DEF Orderly

\* m is data of c, or a MsgTypeFin of it.
Carries(m, c) == m.conn = c /\ m.type \in {"data", "fin"}

\* V is W without some of the messages that carry nothing of c.
Picks(V, W, c) ==
  \E g \in [1..Len(V) -> 1..Len(W)] :
    /\ \A j \in 1..Len(V) : V[j] = W[g[j]]
    /\ \A i, j \in 1..Len(V) : i < j => g[i] < g[j]
    /\ \A i \in 1..Len(W) : Carries(W[i], c) => \E j \in 1..Len(V) : i = g[j]

\* What is orderly, or full, or marked, stays so when other messages are left
\* out.
LEMMA OrderlyPicks ==
  ASSUME NEW V \in Seq(Msgs), NEW W \in Seq(Msgs), NEW c, NEW b, NEW t, NEW e, Picks(V, W, c)
  PROVE  /\ Orderly(W, c, b, t, e) => Orderly(V, c, b, t, e)
         /\ Full(W, c, b, t) => Full(V, c, b, t)
         /\ Marked(W, c, e) => Marked(V, c, e)
<1>1. Len(V) \in Nat /\ Len(W) \in Nat
  OBVIOUS
<1>2. PICK g \in [1..Len(V) -> 1..Len(W)] :
        /\ \A j \in 1..Len(V) : V[j] = W[g[j]]
        /\ \A i, j \in 1..Len(V) : i < j => g[i] < g[j]
        /\ \A i \in 1..Len(W) : Carries(W[i], c) => \E j \in 1..Len(V) : i = g[j]
  BY DEF Picks
<1>3. \A j \in 1..Len(V) : g[j] \in 1..Len(W) /\ V[j] = W[g[j]]
  BY <1>2
<1>4. ASSUME NEW i \in 1..Len(W), Carries(W[i], c)
      PROVE  \E h \in 1..Len(V) : i = g[h] /\ V[h] = W[i]
  BY <1>2, <1>3, <1>4
<1>5. ASSUME NEW h \in 1..Len(V), NEW j \in 1..Len(V)
      PROVE  g[h] <= g[j] => h <= j
  <2>1. ASSUME j < h, g[h] <= g[j] PROVE FALSE
    <3>1. g[j] < g[h]
      BY <1>2, <2>1
    <3>2. g[j] \in Nat /\ g[h] \in Nat
      BY <1>1, <1>3
    <3> QED BY <2>1, <3>1, <3>2
  <2> QED BY <1>1, <2>1
<1>6. ASSUME Orderly(W, c, b, t, e), NEW j \in 1..Len(V), V[j].conn = c
      PROVE  InPlace(V, c, b, t, e, j)
  <2>1. InPlace(W, c, b, t, e, g[j]) /\ g[j] \in 1..Len(W) /\ V[j] = W[g[j]]
    BY <1>3, <1>6 DEF Orderly
  <2>2. /\ V[j].n >= b /\ V[j].n <= t
        /\ V[j].type = "data" => V[j].n > b
        /\ V[j].type = "fin" => e # None /\ e <= V[j].n
    BY <2>1 DEF InPlace
  <2>3. /\ \A i \in 1..(g[j] - 1) : W[i].conn = c =>
             /\ W[i].n <= V[j].n
             /\ V[j].type = "data" => W[i].n < V[j].n
        /\ \A k \in (b + 1)..V[j].n : \E i \in 1..g[j] : IsData(W[i], c, k)
        /\ e # None /\ V[j].n > e => \E i \in 1..(g[j] - 1) : IsFin(W[i], c, e)
    BY <2>1 DEF InPlace
  <2>4. \A i \in 1..(j - 1) : i \in 1..Len(V) /\ g[i] \in 1..(g[j] - 1) /\ V[i] = W[g[i]]
    <3>1. \A i \in 1..(j - 1) : i \in 1..Len(V) /\ i < j
      BY <1>1
    <3> QED BY <1>2, <1>3, <3>1
  <2>5. ASSUME NEW k \in (b + 1)..V[j].n PROVE \E i \in 1..j : IsData(V[i], c, k)
    <3>1. PICK i \in 1..g[j] : IsData(W[i], c, k)
      BY <2>3
    <3>2. i \in 1..Len(W) /\ Carries(W[i], c)
      BY <1>1, <2>1, <3>1 DEF IsData, Carries
    <3>3. PICK h \in 1..Len(V) : i = g[h] /\ V[h] = W[i]
      BY <1>4, <3>2
    <3>4. h <= j
      BY <1>5, <3>3
    <3>5. h \in 1..j
      BY <1>1, <3>4
    <3> QED BY <3>1, <3>3, <3>5
  <2>6. ASSUME e # None, V[j].n > e PROVE \E i \in 1..(j - 1) : IsFin(V[i], c, e)
    <3>1. PICK i \in 1..(g[j] - 1) : IsFin(W[i], c, e)
      BY <2>3, <2>6
    <3>2. i \in 1..Len(W) /\ Carries(W[i], c) /\ i < g[j]
      BY <1>1, <2>1, <3>1 DEF IsFin, Carries
    <3>3. PICK h \in 1..Len(V) : i = g[h] /\ V[h] = W[i]
      BY <1>4, <3>2
    <3>4. h <= j /\ h # j
      BY <1>5, <2>1, <3>2, <3>3
    <3>5. h \in 1..(j - 1)
      BY <1>1, <3>4
    <3> QED BY <3>1, <3>3, <3>5
  <2>7. \A i \in 1..(j - 1) : V[i].conn = c =>
          V[i].n <= V[j].n /\ (V[j].type = "data" => V[i].n < V[j].n)
    BY <2>3, <2>4
  <2> QED BY <2>2, <2>5, <2>6, <2>7 DEF InPlace
<1>7. ASSUME Full(W, c, b, t), NEW k \in (b + 1)..t
      PROVE  \E i \in 1..Len(V) : IsData(V[i], c, k)
  <2>1. PICK i \in 1..Len(W) : IsData(W[i], c, k)
    BY <1>7 DEF Full
  <2>2. PICK h \in 1..Len(V) : i = g[h] /\ V[h] = W[i]
    BY <1>4, <2>1 DEF IsData, Carries
  <2> QED BY <2>1, <2>2
<1>8. ASSUME Marked(W, c, e), e # None
      PROVE  \E i \in 1..Len(V) : IsFin(V[i], c, e)
  <2>1. PICK i \in 1..Len(W) : IsFin(W[i], c, e)
    BY <1>8 DEF Marked
  <2>2. PICK h \in 1..Len(V) : i = g[h] /\ V[h] = W[i]
    BY <1>4, <2>1 DEF IsFin, Carries
  <2> QED BY <2>1, <2>2
<1> QED
  BY <1>6, <1>7, <1>8 DEF Orderly, Full, Marked

\* A message that carries nothing of c may be left out.
LEMMA PicksCut ==
  ASSUME NEW a \in Seq(Msgs), NEW z \in Seq(Msgs), NEW h \in Msgs, NEW c,
         ~Carries(h, c)
  PROVE  Picks(a \o z, a \o (<<h>> \o z), c)
<1> DEFINE e == <<h>>
           u == e \o z
           V == a \o z
           W == a \o u
           g == [j \in 1..Len(V) |-> IF j <= Len(a) THEN j ELSE j + 1]
<1>1. e \in Seq(Msgs) /\ Len(e) = 1 /\ e[1] = h
  OBVIOUS
<1> HIDE DEF e
<1>2. u \in Seq(Msgs) /\ Len(u) = 1 + Len(z) /\ u[1] = h
      /\ \A i \in 1..Len(z) : u[1 + i] = z[i]
  <2>1. u \in Seq(Msgs) /\ Len(u) = 1 + Len(z)
    BY <1>1, Join
  <2>0. e \in Seq(Msgs)
    BY <1>1
  <2>2. \A i \in 1..Len(e) : u[i] = e[i]
    BY <2>0, ConcatLeft
  <2>3. \A i \in 1..Len(z) : u[Len(e) + i] = z[i]
    BY <2>0, ConcatRight
  <2> HIDE DEF u
  <2> QED BY <1>1, <2>1, <2>2, <2>3
<1> HIDE DEF u
<1>3. /\ Len(V) = Len(a) + Len(z) /\ Len(W) = Len(a) + Len(u)
      /\ \A i \in 1..Len(a) : V[i] = a[i] /\ W[i] = a[i]
      /\ \A i \in 1..Len(z) : V[Len(a) + i] = z[i]
      /\ \A i \in 1..Len(u) : W[Len(a) + i] = u[i]
  <2>1. a \in Seq(Msgs) /\ z \in Seq(Msgs) /\ u \in Seq(Msgs)
    BY <1>2
  <2>2. Len(V) = Len(a) + Len(z) /\ Len(W) = Len(a) + Len(u)
    BY <2>1, Join
  <2>3. (\A i \in 1..Len(a) : V[i] = a[i]) /\ \A i \in 1..Len(a) : W[i] = a[i]
    BY <2>1, ConcatLeft
  <2>4. (\A i \in 1..Len(z) : V[Len(a) + i] = z[i]) /\ \A i \in 1..Len(u) : W[Len(a) + i] = u[i]
    BY <2>1, ConcatRight
  <2> HIDE DEF V, W
  <2> QED BY <2>2, <2>3, <2>4
<1> HIDE DEF V, W
<1>4. Len(a) \in Nat /\ Len(z) \in Nat
  OBVIOUS
<1>5. ASSUME NEW j \in 1..Len(V)
      PROVE  g[j] \in 1..Len(W) /\ V[j] = W[g[j]]
  <2>1. CASE j <= Len(a)
    <3>1. j \in 1..Len(a) /\ g[j] = j /\ j \in 1..Len(W)
      BY <1>2, <1>3, <1>4, <2>1
    <3> QED BY <1>3, <3>1
  <2>2. CASE j > Len(a)
    <3>1. PICK i \in 1..Len(z) : j = Len(a) + i
      <4>1. j - Len(a) \in 1..Len(z) /\ j = Len(a) + (j - Len(a))
        BY <1>3, <1>4, <2>2
      <4> QED BY <4>1
    <3>2. g[j] = Len(a) + (1 + i) /\ 1 + i \in 1..Len(u) /\ g[j] \in 1..Len(W)
      BY <1>2, <1>3, <1>4, <2>2, <3>1
    <3>3. W[g[j]] = u[1 + i] /\ u[1 + i] = z[i] /\ V[j] = z[i]
      BY <1>2, <1>3, <3>1, <3>2
    <3> QED BY <3>2, <3>3
  <2> QED BY <1>3, <1>4, <2>1, <2>2
<1>6. \A i, j \in 1..Len(V) : i < j => g[i] < g[j]
  BY <1>3, <1>4
<1>7. ASSUME NEW i \in 1..Len(W), Carries(W[i], c)
      PROVE  \E j \in 1..Len(V) : i = g[j]
  <2>1. CASE i <= Len(a)
    <3>1. i \in 1..Len(V) /\ g[i] = i
      BY <1>3, <1>4, <2>1
    <3> QED BY <3>1
  <2>2. CASE i = Len(a) + 1
    <3>1. 1 \in 1..Len(u)
      BY <1>2, <1>4
    <3>2. W[i] = h
      BY <1>2, <1>3, <2>2, <3>1
    <3> QED BY <1>7, <3>2
  <2>3. CASE i > Len(a) + 1
    <3>1. i - 1 \in 1..Len(V) /\ g[i - 1] = i
      BY <1>2, <1>3, <1>4, <2>3
    <3> QED BY <3>1
  <2> QED BY <1>3, <1>4, <2>1, <2>2, <2>3
<1>8. g \in [1..Len(V) -> 1..Len(W)]
  BY <1>5
<1>9. Picks(V, W, c)
  <2> HIDE DEF g
  <2> QED BY <1>5, <1>6, <1>7, <1>8 DEF Picks
<1> QED
  BY <1>9 DEF V, W, u, e

\* The elements of a queue of messages, and their numbers.
LEMMA Numbers ==
  ASSUME NEW W \in Seq(Msgs) PROVE \A j \in 1..Len(W) : W[j] \in Msgs /\ W[j].n \in Nat
<1>1. \A j \in 1..Len(W) : W[j] \in Msgs
  OBVIOUS
<1>2. \A m \in Msgs : m.n \in Nat
  BY DEF Msgs
<1> QED BY <1>1, <1>2

\* What is orderly stays so when the sender says its end, or sends more.
LEMMA OrderlyWeaken ==
  ASSUME NEW W \in Seq(Msgs), NEW c, NEW b \in Nat, NEW t \in Nat, NEW e \in Nat \union {None},
         Orderly(W, c, b, t, e)
  PROVE  /\ e = None => Orderly(W, c, b, t, t)
         /\ Orderly(W, c, b, t + 1, e)
<1>1. \A j \in 1..Len(W) : W[j].n \in Nat
  BY Numbers
<1>2. ASSUME NEW j \in 1..Len(W), W[j].conn = c
      PROVE  /\ e = None => InPlace(W, c, b, t, t, j)
             /\ InPlace(W, c, b, t + 1, e, j)
  <2>1. InPlace(W, c, b, t, e, j) /\ W[j].n \in Nat
    BY <1>1, <1>2 DEF Orderly
  <2>2. ASSUME e = None PROVE InPlace(W, c, b, t, t, j)
    <3>1. W[j].type # "fin" /\ ~(W[j].n > t)
      BY <2>1, <2>2 DEF InPlace
    <3> QED BY <2>1, <2>2, <3>1 DEF InPlace
  <2>3. W[j].n <= t + 1
    BY <2>1 DEF InPlace
  <2>4. InPlace(W, c, b, t + 1, e, j)
    BY <2>1, <2>3 DEF InPlace
  <2> QED BY <2>2, <2>4
<1> QED BY <1>2 DEF Orderly

\* No message of c has a number above t.
Below(W, c, t) == \A j \in 1..Len(W) : W[j].conn = c => W[j].n <= t

\* A message of c may go last when it is the next of its data, or has the number
\* of the last.
LastOf(W, m, c, b, t, u, e) ==
  /\ m.n = u /\ b <= t /\ (m.type = "fin" => e # None /\ e <= u)
  /\ m.type = "data" => u = t + 1
  /\ m.type # "data" => u = t
  /\ Full(W, c, b, t) /\ Below(W, c, t)
  /\ e # None /\ u > e => Marked(W, c, e)

\* What is orderly stays so when a message of another connection, or the next
\* of this one, joins it.
LEMMA OrderlyAppend ==
  ASSUME NEW W \in Seq(Msgs), NEW m \in Msgs, NEW c, NEW b \in Nat, NEW t \in Nat,
         NEW e \in Nat \union {None},
         NEW u \in Nat, t <= u, Orderly(W, c, b, u, e),
         m.conn = c => LastOf(W, m, c, b, t, u, e)
  PROVE  Orderly(Append(W, m), c, b, u, e)
<1> DEFINE a == Append(W, m)
           l == Len(W) + 1
<1>1. Len(W) \in Nat /\ Len(a) = l /\ a[l] = m /\ \A i \in 1..Len(W) : a[i] = W[i]
  BY AppendProperties
<1>2. /\ \A j \in 1..Len(a) : j \in 1..Len(W) \/ j = l
      /\ \A j \in 1..Len(W) : /\ \A i \in 1..j : i \in 1..Len(W)
                              /\ \A i \in 1..(j - 1) : i \in 1..Len(W)
      /\ \A i \in 1..(l - 1) : i \in 1..Len(W)
      /\ \A i \in 1..Len(W) : i \in 1..(l - 1)
      /\ \A i \in 1..Len(W) : i \in 1..l
      /\ l \in 1..l
  BY <1>1
<1> HIDE DEF a
<1>3. \A i \in 1..Len(W) : W[i].n \in Nat
  BY Numbers
<1> HIDE DEF l
<1>4. ASSUME NEW j \in 1..Len(a), a[j].conn = c
      PROVE  InPlace(a, c, b, u, e, j)
  <2>1. CASE j \in 1..Len(W)
    <3>1. a[j] = W[j] /\ \A i \in 1..j : a[i] = W[i]
      BY <1>1, <1>2, <2>1
    <3>2. \A i \in 1..(j - 1) : a[i] = W[i]
      BY <1>1, <1>2, <2>1
    <3>3. InPlace(W, c, b, u, e, j)
      BY <1>4, <2>1, <3>1 DEF Orderly
    <3>4. \A k \in (b + 1)..a[j].n : \E i \in 1..j : IsData(a[i], c, k)
      BY <3>1, <3>3 DEF InPlace
    <3>5. e # None /\ a[j].n > e => \E i \in 1..(j - 1) : IsFin(a[i], c, e)
      BY <3>1, <3>2, <3>3 DEF InPlace
    <3> QED BY <3>1, <3>2, <3>3, <3>4, <3>5 DEF InPlace
  <2>2. CASE j = l
    <3>1. /\ m.n = u /\ b <= t /\ (m.type = "fin" => e # None /\ e <= u)
          /\ m.type = "data" => u = t + 1
          /\ m.type # "data" => u = t
          /\ Full(W, c, b, t) /\ m.conn = c /\ a[j] = m
          /\ \A i \in 1..Len(W) : W[i].conn = c => W[i].n <= t
          /\ e # None /\ u > e => Marked(W, c, e)
      BY <1>1, <1>4, <2>2 DEF LastOf, Below
    <3>2. m.type = "data" => u > b
      BY <3>1
    <3>3. \A i \in 1..(j - 1) : a[i].conn = c => a[i].n <= t /\ a[i].n \in Nat
      BY <1>1, <1>2, <1>3, <2>2, <3>1
    <3>4. ASSUME NEW k \in (b + 1)..a[j].n PROVE \E i \in 1..j : IsData(a[i], c, k)
      <4>1. CASE k \in (b + 1)..t
        <5>1. PICK i \in 1..Len(W) : IsData(W[i], c, k)
          BY <3>1, <4>1 DEF Full
        <5> QED BY <1>1, <1>2, <2>2, <5>1
      <4>2. CASE k \notin (b + 1)..t
        <5>1. m.type = "data" /\ k = u
          BY <3>1, <3>4, <4>2
        <5>2. IsData(a[l], c, k)
          BY <2>2, <3>1, <5>1 DEF IsData
        <5> QED BY <1>2, <2>2, <5>2
      <4> QED BY <4>1, <4>2
    <3>5. ASSUME e # None, a[j].n > e PROVE \E i \in 1..(j - 1) : IsFin(a[i], c, e)
      <4>1. PICK i \in 1..Len(W) : IsFin(W[i], c, e)
        BY <3>1, <3>5 DEF Marked
      <4> QED BY <1>1, <1>2, <2>2, <4>1
    <3>6. /\ a[j].n >= b /\ a[j].n <= u
          /\ a[j].type = "data" => a[j].n > b
          /\ a[j].type = "fin" => e # None /\ e <= a[j].n
      <4>1. a[j].n = u /\ u >= b /\ u <= u
        BY <3>1
      <4> QED BY <3>1, <3>2, <4>1
    <3>7. \A i \in 1..(j - 1) : a[i].conn = c =>
            a[i].n <= a[j].n /\ (a[j].type = "data" => a[i].n < a[j].n)
      <4>1. a[j].n = u /\ a[j].type = m.type
        BY <3>1
      <4>2. \A x \in Nat : x <= t => x <= u /\ (m.type = "data" => x < u)
        BY <3>1
      <4> QED BY <3>3, <4>1, <4>2
    <3> QED BY <3>4, <3>5, <3>6, <3>7 DEF InPlace
  <2> QED BY <1>2, <2>1, <2>2
<1> QED
  BY <1>4 DEF Orderly, a

\* What is full stays so, to one piece more when that piece joins.
LEMMA FullAppend ==
  ASSUME NEW W \in Seq(Msgs), NEW m \in Msgs, NEW c, NEW b \in Nat, NEW t \in Nat, Full(W, c, b, t)
  PROVE  /\ Full(Append(W, m), c, b, t)
         /\ IsData(m, c, t + 1) => Full(Append(W, m), c, b, t + 1)
<1> DEFINE a == Append(W, m)
           l == Len(W) + 1
<1>1. Len(W) \in Nat /\ Len(a) = l /\ a[l] = m /\ \A i \in 1..Len(W) : a[i] = W[i]
  BY AppendProperties
<1> HIDE DEF a
<1>2. l \in 1..l /\ \A i \in 1..Len(W) : i \in 1..l
  BY <1>1
<1> HIDE DEF l
<1>3. \A k \in (b + 1)..t : \E i \in 1..Len(a) : IsData(a[i], c, k)
  BY <1>1, <1>2 DEF Full
<1>4. ASSUME IsData(m, c, t + 1), NEW k \in (b + 1)..(t + 1)
      PROVE \E i \in 1..Len(a) : IsData(a[i], c, k)
  <2>1. CASE k = t + 1
    BY <1>1, <1>2, <1>4, <2>1
  <2>2. CASE k # t + 1
    <3>1. k \in (b + 1)..t
      BY <1>4, <2>2
    <3> QED BY <1>3, <3>1
  <2> QED BY <2>1, <2>2
<1> QED
  BY <1>3, <1>4 DEF Full, a

\* What is marked stays so, and is when the MsgTypeFin joins.
LEMMA MarkedAppend ==
  ASSUME NEW W \in Seq(Msgs), NEW m \in Msgs, NEW c, NEW e
  PROVE  /\ Marked(W, c, e) => Marked(Append(W, m), c, e)
         /\ IsFin(m, c, e) => Marked(Append(W, m), c, e)
<1> DEFINE a == Append(W, m)
           l == Len(W) + 1
<1>1. Len(W) \in Nat /\ Len(a) = l /\ a[l] = m /\ \A i \in 1..Len(W) : a[i] = W[i]
  BY AppendProperties
<1> HIDE DEF a
<1>2. l \in 1..l /\ \A i \in 1..Len(W) : i \in 1..l
  BY <1>1
<1> HIDE DEF l
<1> QED
  BY <1>1, <1>2 DEF Marked, a

\* The first message of what is orderly, when it is data of c: it is the next
\* piece, none that was sent after the first MsgTypeFin, and the rest continues
\* it.
LEMMA HeadData ==
  ASSUME NEW W \in Seq(Msgs), W # <<>>, NEW c, NEW b \in Nat, NEW t \in Nat,
         NEW e \in Nat \union {None},
         Orderly(W, c, b, t, e), Head(W).conn = c, Head(W).type = "data"
  PROVE  /\ Head(W).n = b + 1 /\ b + 1 <= t /\ (e # None => b + 1 <= e)
         /\ Orderly(Tail(W), c, b + 1, t, e)
         /\ Full(W, c, b, t) => Full(Tail(W), c, b + 1, t)
         /\ Marked(W, c, e) => Marked(Tail(W), c, e)
<1> DEFINE z == Tail(W)
<1>1. /\ Len(W) \in Nat /\ Len(W) >= 1 /\ Len(z) = Len(W) - 1 /\ Head(W) = W[1]
      /\ \A i \in 1..Len(z) : z[i] = W[i + 1]
  BY HeadTailProperties
<1> HIDE DEF z
<1>2. 1 \in 1..Len(W) /\ 1..1 = {1} /\ 1..(1 - 1) = {}
  BY <1>1
<1>3. \A i \in 1..Len(W) : W[i].n \in Nat
  BY Numbers
<1>4. /\ W[1].n > b /\ W[1].n <= t /\ \A k \in (b + 1)..W[1].n : W[1].n = k
      /\ ~(e # None /\ W[1].n > e)
  <2>1. InPlace(W, c, b, t, e, 1)
    BY <1>1, <1>2 DEF Orderly
  <2> QED BY <1>1, <1>2, <2>1 DEF InPlace, IsData
<1>5. W[1].n = b + 1 /\ b + 1 <= t /\ (e # None => b + 1 <= e)
  <2>1. b + 1 \in (b + 1)..W[1].n
    BY <1>2, <1>3, <1>4
  <2> QED BY <1>2, <1>3, <1>4, <2>1
<1>6. \A i \in 1..Len(z) : i + 1 \in 1..Len(W) /\ 1 \in 1..((i + 1) - 1)
  BY <1>1
<1>0. ASSUME NEW l \in 1..Len(W), NEW i \in 1..(l - 1), i # 1
      PROVE  i - 1 \in 1..((l - 1) - 1) /\ i - 1 \in 1..Len(z) /\ z[i - 1] = W[i]
  <2>1. i - 1 \in 1..((l - 1) - 1) /\ i - 1 \in 1..Len(z) /\ (i - 1) + 1 = i
    BY <1>0, <1>1
  <2> QED BY <1>1, <2>1
<1>7. ASSUME NEW j \in 1..Len(z), z[j].conn = c
      PROVE  InPlace(z, c, b + 1, t, e, j)
  <2>1. PICK l \in 1..Len(W) : l = j + 1 /\ z[j] = W[l]
    BY <1>1, <1>6
  <2>2. /\ W[l].n >= b /\ W[l].n <= t
        /\ W[l].type = "fin" => e # None /\ e <= W[l].n
        /\ \A i \in 1..(l - 1) : W[i].conn = c =>
             /\ W[i].n <= W[l].n
             /\ W[l].type = "data" => W[i].n < W[l].n
        /\ \A k \in (b + 1)..W[l].n : \E i \in 1..l : IsData(W[i], c, k)
        /\ e # None /\ W[l].n > e => \E i \in 1..(l - 1) : IsFin(W[i], c, e)
    <3>1. InPlace(W, c, b, t, e, l)
      BY <1>7, <2>1 DEF Orderly
    <3> QED BY <3>1 DEF InPlace
  <2>3. W[1].n <= W[l].n /\ (W[l].type = "data" => W[1].n < W[l].n)
    <3>1. 1 \in 1..(l - 1)
      BY <2>1
    <3> QED BY <1>1, <2>2, <3>1
  <2>4. \A i \in 1..(j - 1) : i + 1 \in 1..(l - 1) /\ z[i] = W[i + 1]
    <3>1. \A i \in 1..(j - 1) : i \in 1..Len(z) /\ i + 1 \in 1..(l - 1)
      BY <1>1, <2>1
    <3> QED BY <1>1, <3>1
  <2>5. ASSUME NEW k \in ((b + 1) + 1)..z[j].n PROVE \E i \in 1..j : IsData(z[i], c, k)
    <3>1. k \in (b + 1)..W[l].n /\ k # W[1].n
      BY <1>3, <1>5, <2>1
    <3>2. PICK i \in 1..l : IsData(W[i], c, k)
      BY <2>2, <3>1
    <3>3. i # 1
      BY <3>1, <3>2 DEF IsData
    <3>4. i - 1 \in 1..j /\ i - 1 \in 1..Len(z) /\ (i - 1) + 1 = i
      BY <1>1, <2>1, <3>3
    <3>5. z[i - 1] = W[i]
      BY <1>1, <3>4
    <3> QED BY <3>2, <3>4, <3>5
  <2>6. ASSUME e # None, z[j].n > e PROVE \E i \in 1..(j - 1) : IsFin(z[i], c, e)
    <3>1. PICK i \in 1..(l - 1) : IsFin(W[i], c, e)
      BY <2>1, <2>2, <2>6
    <3>2. i # 1
      BY <1>1, <3>1 DEF IsFin
    <3>3. i - 1 \in 1..(j - 1) /\ z[i - 1] = W[i]
      BY <1>0, <2>1, <3>2
    <3> QED BY <3>1, <3>3
  <2>7. z[j].n >= b + 1 /\ z[j].n <= t /\ (z[j].type = "data" => z[j].n > b + 1)
    BY <1>3, <1>5, <2>1, <2>2, <2>3
  <2>8. \A i \in 1..(j - 1) : z[i].conn = c =>
          z[i].n <= z[j].n /\ (z[j].type = "data" => z[i].n < z[j].n)
    BY <2>1, <2>2, <2>4
  <2>9. z[j].type = "fin" => e # None /\ e <= z[j].n
    BY <2>1, <2>2
  <2> QED BY <2>5, <2>6, <2>7, <2>8, <2>9 DEF InPlace
<1>8. ASSUME Full(W, c, b, t), NEW k \in ((b + 1) + 1)..t
      PROVE  \E i \in 1..Len(z) : IsData(z[i], c, k)
  <2>1. k \in (b + 1)..t /\ k # W[1].n
    BY <1>5
  <2>2. PICK i \in 1..Len(W) : IsData(W[i], c, k)
    BY <1>8, <2>1 DEF Full
  <2>3. i # 1
    BY <2>1, <2>2 DEF IsData
  <2>4. i - 1 \in 1..Len(z) /\ (i - 1) + 1 = i
    BY <1>1, <2>3
  <2> QED BY <1>1, <2>2, <2>4
<1>9. ASSUME Marked(W, c, e), e # None
      PROVE  \E i \in 1..Len(z) : IsFin(z[i], c, e)
  <2>1. PICK i \in 1..Len(W) : IsFin(W[i], c, e)
    BY <1>9 DEF Marked
  <2>2. i # 1
    BY <1>1, <2>1 DEF IsFin
  <2>3. i - 1 \in 1..Len(z) /\ (i - 1) + 1 = i
    BY <1>1, <2>2
  <2> QED BY <1>1, <2>1, <2>3
<1> QED
  BY <1>1, <1>5, <1>7, <1>8, <1>9 DEF Orderly, Full, Marked, z

\* The first message of what is orderly, when it is a MsgTypeFin of c: it is the
\* first that was sent, and all that was sent before it has been taken.
LEMMA HeadEnds ==
  ASSUME NEW W \in Seq(Msgs), W # <<>>, NEW c, NEW b \in Nat, NEW t \in Nat,
         NEW e \in Nat \union {None},
         Orderly(W, c, b, t, e), Head(W).conn = c, Head(W).type = "fin"
  PROVE  Head(W).n = b /\ e = b
<1>1. /\ Len(W) \in Nat /\ Len(W) >= 1 /\ Head(W) = W[1]
  BY HeadTailProperties
<1>2. 1 \in 1..Len(W) /\ 1..1 = {1} /\ 1..(1 - 1) = {}
  BY <1>1
<1>3. W[1].n \in Nat
  BY <1>2, Numbers
<1>4. /\ W[1].n >= b /\ e # None /\ e <= W[1].n /\ ~(W[1].n > e)
      /\ \A k \in (b + 1)..W[1].n : W[1].type = "data"
  <2>1. InPlace(W, c, b, t, e, 1)
    BY <1>1, <1>2 DEF Orderly
  <2> QED BY <1>1, <1>2, <2>1 DEF InPlace, IsData
<1>5. ~(W[1].n > b)
  <2>1. W[1].n > b => b + 1 \in (b + 1)..W[1].n
    BY <1>2, <1>3
  <2> QED BY <1>1, <1>4, <2>1
<1> QED
  BY <1>1, <1>3, <1>4, <1>5

-----------------------------------------------------------------------------
(***************************************************************************)
(* What is on its way to a socket, and the invariant of it.                *)
(***************************************************************************)

\* What has come to side s for the socket of c, the next to be written first.
Pushed(s, c) == IF loop[s].at = "push" /\ loop[s].conn = c THEN <<loop[s].msg>> ELSE <<>>
Here(s, c)   == conn[s][c].w \o (conn[s][c].rlist \o (conn[s][c].in \o Pushed(s, c)))
Way(s, c)    == Here(s, c) \o Sent(Other(s))

\* The flow of data to the socket of c at side s. What is written are the first
\* pieces the other side read, in order, and none that it sent after its first
\* MsgTypeFin. What was told of the end is true. As long as the writer goes on,
\* what it will find continues what it has written; while Run goes on that is
\* all that is on its way, and nothing is missing, nor the MsgTypeFin, unless
\* the P2pClient of the other side is gone.
Flow(s, c) ==
  LET p == conn[s][c]
      o == conn[Other(s)][c]
      b == Len(p.out)
  IN
  /\ b <= o.sent /\ p.out = [i \in 1..b |-> <<c, i>>]
  /\ o.said # None => b <= o.said /\ o.said <= o.sent
  /\ p.told # None => p.writer = "end" /\ p.told = b /\ o.said = b
  /\ p.writer \in {"off", "write"} =>
       /\ Orderly(p.w, c, b, o.sent, o.said)
       /\ p.run # "done" => Orderly(Way(s, c), c, b, o.sent, o.said)
       /\ p.run # "done" /\ loop[Other(s)] \notin Ended =>
            Full(Way(s, c), c, b, o.sent) /\ Marked(Way(s, c), c, o.said)

\* Of every connection and side.
Flowed == \A s \in Sides, c \in Conns : Flow(s, c)

\* The loops of a connection are started once. A writer fails on data the other
\* side sent, and only a reader, or a writer that failed, says an end.
Fresh == {"none", "dialing", "offered", "init"}
LoopOK(p, o) ==
  /\ p.run \in Fresh => p.writer = "off" /\ p.reader = "off"
  /\ p.writer = "fin" => o.sent > 0
  /\ p.said # None => p.reader # "off" \/ o.sent > 0

\* The loops of every connection.
Looping == \A s \in Sides, c \in Conns : LoopOK(conn[s][c], conn[Other(s)][c])

\* What is on its way are messages.
LEMMA WayTyped ==
  ASSUME Typed, NEW s \in Sides, NEW c \in Conns
  PROVE  /\ Pushed(s, c) \in Seq(Msgs) /\ Here(s, c) \in Seq(Msgs) /\ Way(s, c) \in Seq(Msgs)
         /\ conn[s][c].in \o Pushed(s, c) \in Seq(Msgs)
         /\ conn[s][c].rlist \o (conn[s][c].in \o Pushed(s, c)) \in Seq(Msgs)
<1>1. Pushed(s, c) \in Seq(Msgs)
  <2>1. CASE loop[s].at = "push" /\ loop[s].conn = c
    <3>1. loop[s].msg \in Msgs
      BY <2>1, StandsAt
    <3> QED BY <2>1, <3>1 DEF Pushed
  <2>2. CASE ~(loop[s].at = "push" /\ loop[s].conn = c)
    <3>1. <<>> \in Seq(Msgs)
      OBVIOUS
    <3> QED BY <2>2, <3>1 DEF Pushed
  <2> QED BY <2>1, <2>2
<1> DEFINE a == conn[s][c].in
           r == conn[s][c].rlist
           w == conn[s][c].w
           x == Pushed(s, c)
<1>2. a \in Seq(Msgs) /\ r \in Seq(Msgs) /\ w \in Seq(Msgs)
  BY QueuesTyped
<1>3. Sent(Other(s)) \in Seq(Msgs)
  BY OtherSide, SentTyped
<1> HIDE DEF a, r, w, x
<1>4. a \o x \in Seq(Msgs)
  BY <1>1, <1>2, Join DEF x
<1>5. r \o (a \o x) \in Seq(Msgs)
  BY <1>2, <1>4, Join
<1>6. w \o (r \o (a \o x)) \in Seq(Msgs)
  BY <1>2, <1>5, Join
<1> QED
  BY <1>1, <1>3, <1>4, <1>5, <1>6, Join DEF Here, Way, a, r, w, x

\* The fields of a connection that Flow is about.
LEMMA Counts ==
  ASSUME Typed, NEW s \in Sides, NEW c \in Conns
  PROVE  /\ conn[s][c].sent \in Nat /\ conn[s][c].out \in Seq(Conns \X Nat)
         /\ Len(conn[s][c].out) \in Nat /\ conn[s][c].said \in Nat \union {None}
         /\ conn[s][c].w \in Seq(Msgs)
<1>1. conn[s][c] \in P2pConns
  BY DEF Typed, ConnsOK, Good
<1> QED BY <1>1 DEF P2pConns

\* RunC neither starts nor ends to wait to push.
PushSame ==
  \A t \in Sides : loop'[t] = loop[t] \/ (loop[t].at # "push" /\ loop'[t].at # "push")

\* Then what RunC holds for a connection stays.
LEMMA PushedSame ==
  ASSUME PushSame PROVE \A t \in Sides, d \in Conns : Pushed(t, d)' = Pushed(t, d)
  BY DEF PushSame, Pushed

\* And so does what has come for it, when its queues stay.
LEMMA HereSame ==
  ASSUME NEW s \in Sides, NEW c \in Conns, Pushed(s, c)' = Pushed(s, c),
         SameQueues(conn[s][c], conn'[s][c])
  PROVE  Here(s, c)' = Here(s, c)
  BY DEF Here, SameQueues

\* What the writer will find first are the messages of wMsg.
LEMMA HeadOfWay ==
  ASSUME Typed, NEW s \in Sides, NEW c \in Conns
  PROVE  \E z \in Seq(Msgs) : Way(s, c) = conn[s][c].w \o z
<1> DEFINE w == conn[s][c].w
           x == conn[s][c].rlist \o (conn[s][c].in \o Pushed(s, c))
           u == Sent(Other(s))
<1>1. w \in Seq(Msgs) /\ x \in Seq(Msgs) /\ u \in Seq(Msgs)
  BY QueuesTyped, WayTyped, OtherSide, SentTyped
<1>2. Way(s, c) = (w \o x) \o u
  BY DEF Way, Here
<1> HIDE DEF w, x, u
<1>3. (w \o x) \o u = w \o (x \o u)
  BY <1>1, ConcatAssociative
<1>4. x \o u \in Seq(Msgs)
  BY <1>1, Join
<1> QED BY <1>2, <1>3, <1>4 DEF w

\* The three lemmas above, in one formula that can be stated of the next state
\* too.
WaysTyped ==
  \A s \in Sides, c \in Conns :
    /\ Way(s, c) \in Seq(Msgs) /\ conn[s][c].w \in Seq(Msgs)
    /\ conn[s][c].said \in Nat \union {None}
    /\ \E z \in Seq(Msgs) : Way(s, c) = conn[s][c].w \o z

\* It holds in a typed state.
LEMMA WaysAre == Typed => WaysTyped
  BY WayTyped, HeadOfWay, Counts DEF WaysTyped

\* It holds in the next one.
LEMMA WaysStay == Typed' => WaysTyped'
  BY WaysAre, PTL

\* The empty queue is orderly.
LEMMA OrderlyEmpty ==
  ASSUME NEW c, NEW b, NEW t, NEW f PROVE Orderly(<<>>, c, b, t, f)
  BY DEF Orderly

\* Nothing is written and nothing sent: what is on its way stays, or loses what
\* carries nothing of c, or what nobody will send.
LEMMA FlowKept ==
  ASSUME Typed, Typed', NEW s \in Sides, NEW c \in Conns, Flow(s, c),
         conn'[s][c].out = conn[s][c].out, conn'[s][c].told = conn[s][c].told,
         conn'[s][c].writer \in {"off", "write"} => conn[s][c].writer \in {"off", "write"},
         conn[s][c].writer = "end" => conn'[s][c].writer = "end",
         conn'[Other(s)][c].sent = conn[Other(s)][c].sent,
         conn'[Other(s)][c].said = conn[Other(s)][c].said,
         loop[Other(s)] \in Ended => loop'[Other(s)] \in Ended,
         conn'[s][c].run # "done" /\ conn'[s][c].writer \in {"off", "write"} =>
           /\ conn[s][c].run # "done"
           /\ \/ Way(s, c)' = Way(s, c)
              \/ Picks(Way(s, c)', Way(s, c), c)
              \/ /\ loop'[Other(s)] \in Ended
                 /\ \E z \in Seq(Msgs) : Way(s, c) = Way(s, c)' \o z,
         conn'[s][c].run = "done" /\ conn'[s][c].writer \in {"off", "write"} =>
           \/ conn'[s][c].w = conn[s][c].w \/ conn'[s][c].w = <<>>
           \/ Picks(conn'[s][c].w, conn[s][c].w, c)
  PROVE  Flow(s, c)'
<1> DEFINE o == Other(s)
           b == Len(conn[s][c].out)
           t == conn[o][c].sent
           e == conn[o][c].said
           w == conn[s][c].w
           v == conn'[s][c].w
           W == Way(s, c)
           V == Way(s, c)'
<1>1. o \in Sides
  BY OtherSide
<1>2. /\ b \in Nat /\ t \in Nat /\ e \in Nat \union {None}
      /\ w \in Seq(Msgs) /\ v \in Seq(Msgs) /\ W \in Seq(Msgs) /\ V \in Seq(Msgs)
  <2>1. b \in Nat /\ t \in Nat /\ e \in Nat \union {None} /\ w \in Seq(Msgs) /\ W \in Seq(Msgs)
    BY <1>1, Counts, WayTyped
  <2>2. WaysTyped'
    BY WaysStay
  <2>3. v \in Seq(Msgs) /\ V \in Seq(Msgs)
    BY <1>1, <2>2 DEF WaysTyped
  <2> QED BY <2>1, <2>2, <2>3
<1>3. /\ b <= t /\ conn[s][c].out = [i \in 1..b |-> <<c, i>>]
      /\ e # None => b <= e /\ e <= t
      /\ conn[s][c].told # None => /\ conn[s][c].writer = "end" /\ conn[s][c].told = b
                                   /\ e = b
      /\ conn[s][c].writer \in {"off", "write"} =>
           /\ Orderly(w, c, b, t, e)
           /\ conn[s][c].run # "done" => Orderly(W, c, b, t, e)
           /\ conn[s][c].run # "done" /\ loop[o] \notin Ended => Full(W, c, b, t) /\ Marked(W, c, e)
  BY DEF Flow
<1>4. \E z \in Seq(Msgs) : V = v \o z
  BY WaysStay DEF WaysTyped
<1> HIDE DEF b, t, e, w, v, W, V
<1>6. ASSUME conn'[s][c].writer \in {"off", "write"}
      PROVE  /\ Orderly(v, c, b, t, e)
             /\ conn'[s][c].run # "done" => Orderly(V, c, b, t, e)
             /\ conn'[s][c].run # "done" /\ loop'[o] \notin Ended => Full(V, c, b, t) /\ Marked(V, c, e)
  <2>1. CASE conn'[s][c].run = "done"
    <3>1. v = w \/ v = <<>> \/ Picks(v, w, c)
      BY <1>6, <2>1 DEF v, w
    <3>2. Orderly(w, c, b, t, e)
      BY <1>3, <1>6
    <3>3. Orderly(v, c, b, t, e)
      BY <1>2, <3>1, <3>2, OrderlyEmpty, OrderlyPicks
    <3> QED BY <1>2, <2>1, <3>3
  <2>2. CASE conn'[s][c].run # "done"
    <3>1. \/ V = W
          \/ Picks(V, W, c)
          \/ loop'[o] \in Ended /\ \E z \in Seq(Msgs) : W = V \o z
      BY <1>6, <2>2 DEF V, W
    <3>2. Orderly(W, c, b, t, e) /\ (loop[o] \notin Ended => Full(W, c, b, t) /\ Marked(W, c, e))
      <4>1. conn[s][c].run # "done"
        BY <1>6, <2>2
      <4> QED BY <1>3, <1>6, <4>1
    <3>3. Orderly(V, c, b, t, e) /\ (loop'[o] \notin Ended => Full(V, c, b, t) /\ Marked(V, c, e))
      <4>1. CASE V = W
        BY <3>2, <4>1
      <4>2. CASE Picks(V, W, c)
        BY <1>2, <3>2, <4>2, OrderlyPicks
      <4>3. CASE loop'[o] \in Ended /\ \E z \in Seq(Msgs) : W = V \o z
        BY <1>2, <3>2, <4>3, OrderlyPrefix
      <4> QED BY <3>1, <4>1, <4>2, <4>3
    <3>4. Orderly(v, c, b, t, e)
      BY <1>2, <1>4, <3>3, OrderlyPrefix
    <3> QED BY <1>2, <3>3, <3>4
  <2> QED BY <2>1, <2>2
<1>8. Len(conn'[s][c].out) = b /\ conn'[o][c].sent = t /\ conn'[o][c].said = e
  BY DEF b, t, e
<1> QED
  BY <1>3, <1>6, <1>8 DEF Flow, b, t, e, v, V

-----------------------------------------------------------------------------
(***************************************************************************)
(* What one side sends.                                                    *)
(***************************************************************************)

\* How s counts a message of d it sends: data is one more, and the first
\* MsgTypeFin says how many there were.
Counted(s, d, m) ==
  LET p == conn[s][d]
      q == conn'[s][d]
  IN
  IF m.conn = d
    THEN /\ m.n = q.sent
         /\ \/ m.type = "data" /\ q.sent = p.sent + 1 /\ q.said = p.said
            \/ /\ m.type = "fin" /\ q.sent = p.sent
               /\ q.said = IF p.said = None THEN p.sent ELSE p.said
            \/ m.type \notin {"data", "fin"} /\ q.sent = p.sent /\ q.said = p.said
    ELSE q.sent = p.sent /\ q.said = p.said

\* The flow to a connection of the side that does not move, when the other sends.
LEMMA FlowSent ==
  ASSUME Typed, Typed', NEW t \in Sides, NEW d \in Conns, Flow(t, d),
         conn'[t][d] = conn[t][d], Here(t, d)' = Here(t, d),
         NEW m \in Msgs, Sent(Other(t))' = Append(Sent(Other(t)), m),
         loop[Other(t)] \notin Ended, Counted(Other(t), d, m)
  PROVE  Flow(t, d)'
<1> DEFINE o == Other(t)
           b == Len(conn[t][d].out)
           n == conn[o][d].sent
           k == conn'[o][d].sent
           e == conn[o][d].said
           x == conn'[o][d].said
           w == conn[t][d].w
           W == Way(t, d)
           V == Way(t, d)'
<1>1. o \in Sides
  BY OtherSide
<1>2. /\ b \in Nat /\ n \in Nat /\ e \in Nat \union {None} /\ x \in Nat \union {None}
      /\ w \in Seq(Msgs) /\ W \in Seq(Msgs)
  <2>1. b \in Nat /\ n \in Nat /\ e \in Nat \union {None} /\ w \in Seq(Msgs) /\ W \in Seq(Msgs)
    BY <1>1, Counts, WayTyped
  <2>2. x \in Nat \union {None}
    BY <1>1, WaysStay DEF WaysTyped
  <2> QED BY <2>1, <2>2
<1>3. /\ b <= n /\ conn[t][d].out = [i \in 1..b |-> <<d, i>>]
      /\ e # None => b <= e /\ e <= n
      /\ conn[t][d].told # None => /\ conn[t][d].writer = "end" /\ conn[t][d].told = b
                                   /\ e = b
      /\ conn[t][d].writer \in {"off", "write"} =>
           /\ Orderly(w, d, b, n, e)
           /\ conn[t][d].run # "done" => Orderly(W, d, b, n, e)
           /\ conn[t][d].run # "done" /\ loop[o] \notin Ended => Full(W, d, b, n) /\ Marked(W, d, e)
  BY DEF Flow
<1>4. V = Append(W, m)
  <2>1. Here(t, d) \in Seq(Msgs) /\ Sent(o) \in Seq(Msgs)
    BY <1>1, WayTyped, SentTyped
  <2>2. V = Here(t, d) \o Append(Sent(o), m)
    BY DEF Way
  <2> QED BY <2>1, <2>2, AppendConcat DEF Way
<1>5. IF m.conn = d
        THEN /\ m.n = k
             /\ \/ m.type = "data" /\ k = n + 1 /\ x = e
                \/ m.type = "fin" /\ k = n /\ (x = IF e = None THEN n ELSE e)
                \/ m.type \notin {"data", "fin"} /\ k = n /\ x = e
        ELSE k = n /\ x = e
  BY DEF Counted
<1>6. loop[o] \notin Ended
  OBVIOUS
<1> HIDE DEF b, n, k, e, x, w, W, V
<1>7. /\ k \in Nat /\ n <= k
      /\ x = e \/ (e = None /\ x = n /\ k = n /\ IsFin(m, d, x))
      /\ k = n \/ (k = n + 1 /\ x = e /\ IsData(m, d, n + 1))
  BY <1>2, <1>5 DEF IsFin, IsData
<1>a. /\ x # None => b <= x /\ x <= k
      /\ conn[t][d].told # None => x = b
  BY <1>2, <1>3, <1>7 DEF None
<1>8. \A U \in Seq(Msgs) : Orderly(U, d, b, n, e) => Orderly(U, d, b, k, x)
  <2>1. ASSUME NEW U \in Seq(Msgs), Orderly(U, d, b, n, e)
        PROVE  (e = None => Orderly(U, d, b, n, n)) /\ Orderly(U, d, b, n + 1, e)
    BY <1>2, <2>1, OrderlyWeaken
  <2> QED BY <1>7, <2>1
<1>9. ASSUME Orderly(W, d, b, n, e), Full(W, d, b, n), Marked(W, d, e)
      PROVE  Orderly(V, d, b, k, x) /\ Full(V, d, b, k) /\ Marked(V, d, x)
  <2>1. Orderly(W, d, b, k, x)
    BY <1>2, <1>8, <1>9
  <2>2. Below(W, d, n)
    BY <1>9 DEF Orderly, InPlace, Below
  <2>3. m.conn = d => LastOf(W, m, d, b, n, k, x)
    <3>1. x # None /\ k > x => Marked(W, d, x)
      BY <1>2, <1>7, <1>9
    <3>2. m.conn = d => m.n = k /\ (m.type = "data" => k = n + 1) /\ (m.type # "data" => k = n)
      BY <1>5
    <3>3. m.conn = d /\ m.type = "fin" => x # None
      BY <1>2, <1>5 DEF None
    <3> QED BY <1>3, <1>9, <1>a, <2>2, <3>1, <3>2, <3>3 DEF LastOf
  <2>4. Orderly(V, d, b, k, x)
    <3>1. W \in Seq(Msgs) /\ b \in Nat /\ n \in Nat /\ x \in Nat \union {None} /\ k \in Nat /\ n <= k
      BY <1>2, <1>7
    <3>2. Orderly(Append(W, m), d, b, k, x)
      BY <2>1, <2>3, <3>1, OrderlyAppend
    <3> QED BY <1>4, <3>2
  <2>5. Full(V, d, b, k)
    BY <1>2, <1>4, <1>7, <1>9, FullAppend
  <2>6. Marked(V, d, x)
    BY <1>2, <1>4, <1>7, <1>9, MarkedAppend
  <2> QED BY <2>4, <2>5, <2>6
<1>10. /\ Len(conn'[t][d].out) = b /\ conn'[t][d].w = w
       /\ conn'[t][d].run = conn[t][d].run /\ conn'[t][d].writer = conn[t][d].writer
       /\ conn'[t][d].told = conn[t][d].told /\ conn'[t][d].out = conn[t][d].out
  BY DEF b, w
<1>11. /\ b <= k
       /\ conn[t][d].writer \in {"off", "write"} =>
            /\ Orderly(w, d, b, k, x)
            /\ conn[t][d].run # "done" => Orderly(V, d, b, k, x) /\ Full(V, d, b, k) /\ Marked(V, d, x)
  BY <1>2, <1>3, <1>6, <1>7, <1>8, <1>9
<1> QED
  BY <1>3, <1>10, <1>11, <1>a DEF Flow, k, x, V

\* One connection has changed, and at most one message of it was sent: the
\* flow to the others goes on.
LEMMA OneFlow ==
  ASSUME Typed, Typed', Flowed, NEW s \in Sides, NEW c \in Conns, Elsewhere(s, c),
         \A t \in Sides, d \in Conns : t # s \/ d # c => Pushed(t, d)' = Pushed(t, d),
         Flow(s, c)',
         \A t \in Sides : loop[t] \in Ended => loop'[t] \in Ended,
         \/ /\ SentStays /\ conn'[s][c].sent = conn[s][c].sent
            /\ conn'[s][c].said = conn[s][c].said
         \/ \E m \in Msgs : /\ Queue(s, m) /\ UNCHANGED wire /\ loop[s] \notin Ended
                            /\ m.conn = c /\ Counted(s, c, m)
  PROVE  Flowed'
<1>1. SUFFICES ASSUME NEW t \in Sides, NEW d \in Conns, t # s \/ d # c PROVE Flow(t, d)'
  BY DEF Flowed
<1>2. conn'[t][d] = conn[t][d] /\ Flow(t, d) /\ Other(t) \in Sides /\ Other(t) # t
  BY <1>1, OtherSide DEF Elsewhere, Flowed
<1>3. Here(t, d)' = Here(t, d)
  BY <1>1, <1>2, HereSame DEF SameQueues
<1>4. CASE Sent(Other(t))' = Sent(Other(t)) /\ conn'[Other(t)][d].sent = conn[Other(t)][d].sent
            /\ conn'[Other(t)][d].said = conn[Other(t)][d].said
  <2>1. Way(t, d)' = Way(t, d)
    BY <1>3, <1>4 DEF Way
  <2> QED BY <1>2, <1>4, <2>1, FlowKept
<1>5. CASE \E m \in Msgs : /\ Queue(s, m) /\ UNCHANGED wire /\ loop[s] \notin Ended
                           /\ m.conn = c /\ Counted(s, c, m)
  <2>1. PICK m \in Msgs : /\ Queue(s, m) /\ UNCHANGED wire /\ loop[s] \notin Ended
                          /\ m.conn = c /\ Counted(s, c, m)
    BY <1>5
  <2>2. Sent(s)' = Append(Sent(s), m) /\ \A u \in Sides : u # s => Sent(u)' = Sent(u)
    BY <2>1, SentQueue
  <2>3. CASE Other(t) # s
    <3>1. Sent(Other(t))' = Sent(Other(t)) /\ conn'[Other(t)][d] = conn[Other(t)][d]
      BY <1>2, <2>2, <2>3 DEF Elsewhere
    <3> QED BY <1>4, <3>1
  <2>4. CASE Other(t) = s
    <3>1. Counted(s, d, m)
      <4>1. CASE d = c
        BY <2>1, <4>1
      <4>2. CASE d # c
        <5>1. conn'[s][d] = conn[s][d]
          BY <4>2 DEF Elsewhere
        <5> QED BY <2>1, <4>2, <5>1 DEF Counted
      <4> QED BY <4>1, <4>2
    <3> QED BY <1>2, <1>3, <2>1, <2>2, <2>4, <3>1, FlowSent
  <2> QED BY <2>3, <2>4
<1>6. CASE /\ SentStays /\ conn'[s][c].sent = conn[s][c].sent
           /\ conn'[s][c].said = conn[s][c].said
  <2>1. Sent(Other(t))' = Sent(Other(t))
    BY <1>2, <1>6 DEF SentStays
  <2>2. CASE Other(t) = s /\ d = c
    BY <1>4, <1>6, <2>1, <2>2
  <2>3. CASE ~(Other(t) = s /\ d = c)
    <3>1. conn'[Other(t)][d] = conn[Other(t)][d]
      BY <1>2, <2>3 DEF Elsewhere
    <3> QED BY <1>4, <2>1, <3>1
  <2> QED BY <2>2, <2>3
<1> QED
  BY <1>5, <1>6

-----------------------------------------------------------------------------
(***************************************************************************)
(* The steps that take nothing from a queue.                               *)
(***************************************************************************)

\* A step of a connection that takes nothing from its queues.
LEMMA QuietFlow ==
  ASSUME Typed, Typed', Flowed, NEW s \in Sides, NEW c \in Conns, Elsewhere(s, c), PushSame,
         SameQueues(conn[s][c], conn'[s][c]),
         conn'[s][c].out = conn[s][c].out, conn'[s][c].told = conn[s][c].told,
         conn'[s][c].writer \in {"off", "write"} => conn[s][c].writer \in {"off", "write"},
         conn[s][c].writer = "end" => conn'[s][c].writer = "end",
         conn[s][c].run = "done" => conn'[s][c].run = "done",
         \A t \in Sides : loop[t] \in Ended => loop'[t] \in Ended,
         \/ /\ UNCHANGED <<wMsg, wire>> /\ conn'[s][c].sent = conn[s][c].sent
            /\ conn'[s][c].said = conn[s][c].said
         \/ \E m \in Msgs : /\ Queue(s, m) /\ UNCHANGED wire /\ loop[s] \notin Ended
                            /\ m.conn = c /\ Counted(s, c, m)
  PROVE  Flowed'
<1>1. Other(s) \in Sides /\ Other(s) # s
  BY OtherSide
<1>2. Sent(Other(s))' = Sent(Other(s))
  <2>1. CASE UNCHANGED <<wMsg, wire>>
    BY <1>1, <2>1, SentSame
  <2>2. CASE \E m \in Msgs : Queue(s, m) /\ UNCHANGED wire
    BY <1>1, <2>2, SentQueue
  <2> QED BY <2>1, <2>2
<1>3. Way(s, c)' = Way(s, c)
  BY <1>2, PushedSame, HereSame DEF Way
<1>4. conn'[Other(s)][c] = conn[Other(s)][c] /\ conn'[s][c].w = conn[s][c].w
  BY <1>1 DEF Elsewhere, SameQueues
<1>5. Flow(s, c)'
  BY <1>1, <1>3, <1>4, FlowKept DEF Flowed
<1>6. \/ /\ SentStays /\ conn'[s][c].sent = conn[s][c].sent
         /\ conn'[s][c].said = conn[s][c].said
      \/ \E m \in Msgs : /\ Queue(s, m) /\ UNCHANGED wire /\ loop[s] \notin Ended
                         /\ m.conn = c /\ Counted(s, c, m)
  BY SentSame DEF SentStays
<1> QED
  BY <1>5, <1>6, PushedSame, OneFlow

\* A step that leaves RunC alone.
LEMMA LoopSame ==
  ASSUME UNCHANGED loop
  PROVE  PushSame /\ \A t \in Sides : loop[t] \in Ended => loop'[t] \in Ended
  BY DEF PushSame

\* Accept and DialOk keep Flowed.
LEMMA OfferFlow ==
  ASSUME Typed, Typed', Flowed, NEW s \in Sides, NEW c \in Conns,
         DialOk(s, c) \/ (s = "requestor" /\ Accept(c))
  PROVE  Flowed'
<1> DEFINE p == conn[s][c]
           q == conn'[s][c]
<1>1. /\ Elsewhere(s, c) /\ SameQueues(p, q) /\ q.out = p.out /\ q.told = p.told
      /\ q.sent = p.sent /\ q.said = p.said /\ q.writer = p.writer
      /\ p.run # "done" /\ UNCHANGED <<wMsg, wire, loop>>
  BY OfferFacts DEF SamePipe, SameLoops
<1> QED
  BY <1>1, LoopSame, QuietFlow

\* DialFails keeps Flowed: MsgTypeSynErr is the message of a connection that
\* has sent nothing.
LEMMA DialFailsFlow ==
  ASSUME Typed, Typed', Opened, Flowed, NEW s \in Sides, NEW c \in Conns, DialFails(s, c)
  PROVE  Flowed'
<1> DEFINE p == conn[s][c]
           q == conn'[s][c]
<1>1. /\ Elsewhere(s, c) /\ SameQueues(p, q) /\ q.out = p.out /\ q.told = p.told
      /\ q.sent = p.sent /\ q.said = p.said /\ q.writer = p.writer
      /\ p.run = "dialing" /\ q.run = "done" /\ UNCHANGED wire
  BY DialFailsFacts DEF SamePipe, SameLoops
<1>2. \/ UNCHANGED loop
      \/ loop' = [loop EXCEPT ![s] = Crashed] /\ loop[s] = Gone
  BY DialFailsFacts
<1>3. PushSame /\ \A t \in Sides : loop[t] \in Ended => loop'[t] \in Ended
  BY <1>2, Stands DEF PushSame, Ended, Typed, LoopsOK
<1>4. p.sent = 0
  <2>1. p.sent \in Nat
    BY Counts
  <2>2. ~(p.sent > 0)
    BY <1>1 DEF Opened, Opening, Sides
  <2> QED BY <2>1, <2>2
<1>5. UNCHANGED wMsg \/ (Queue(s, SynErr(c)) /\ loop[s] \notin Ended)
  BY DEF DialFails, Open, Up, Ended
<1>6. PICK m \in Msgs : m = SynErr(c)
  BY SynErrTyped
<1>7. m.type = "synerr" /\ m.conn = c /\ m.n = 0
  BY <1>6 DEF SynErr, Msg
<1>8. Counted(s, c, m)
  BY <1>1, <1>4, <1>7 DEF Counted
<1> QED
  BY <1>1, <1>3, <1>5, <1>6, <1>7, <1>8, QuietFlow

\* A promise's answer and end keep Flowed.
LEMMA PromiseFlow ==
  ASSUME Typed, Typed', Flowed, NEW s \in Sides, NEW c \in Conns,
         PromiseEnds(s, c) \/ (Answered(s) /\ loop[s].conn = c)
  PROVE  Flowed'
<1> DEFINE p == conn[s][c]
           q == conn'[s][c]
<1>1. /\ Elsewhere(s, c) /\ SameQueues(p, q) /\ q.out = p.out /\ q.told = p.told
      /\ q.sent = p.sent /\ q.said = p.said /\ q.writer = p.writer
      /\ q.run = p.run /\ UNCHANGED <<wMsg, wire>>
  BY PromiseFacts DEF SamePipe, SameLoops
<1>2. \/ UNCHANGED loop
      \/ loop[s].at = "answer" /\ loop' = [loop EXCEPT ![s] = Select]
      \/ loop[s] = Gone /\ loop' = [loop EXCEPT ![s] = Crashed]
  BY PromiseFacts
<1>3. PushSame /\ \A t \in Sides : loop[t] \in Ended => loop'[t] \in Ended
  BY <1>2, Stands DEF PushSame, Ended, Typed, LoopsOK
<1> QED
  BY <1>1, <1>3, QuietFlow

\* AddConn keeps Flowed.
LEMMA AddConnFlow ==
  ASSUME Typed, Typed', Opened, Flowed, NEW s \in Sides, NEW c \in Conns, AddConn(s, c)
  PROVE  Flowed'
<1> DEFINE p == conn[s][c]
           q == conn'[s][c]
<1>1. /\ Elsewhere(s, c) /\ SameQueues(p, q) /\ q.out = p.out /\ q.told = p.told
      /\ q.sent = p.sent /\ q.said = p.said /\ q.writer = p.writer
      /\ p.add = "waiting" /\ UNCHANGED <<wMsg, wire>>
  BY AddConnFacts DEF SamePipe, SameLoops
<1>2. loop[s] = Select /\ loop' = [loop EXCEPT ![s] = Answering(c, "add")]
  BY AddConnFacts
<1>3. PushSame /\ \A t \in Sides : loop[t] \in Ended => loop'[t] \in Ended
  BY <1>2, Stands DEF PushSame, Typed, LoopsOK
<1>4. p.run = "offered"
  BY <1>1 DEF Opened, AddWaits
<1> QED
  BY <1>1, <1>3, <1>4, QuietFlow

\* StartLoops keeps Flowed: the writer had not been started before.
LEMMA StartLoopsFlow ==
  ASSUME Typed, Typed', Looping, Flowed, NEW s \in Sides, NEW c \in Conns, StartLoops(s, c)
  PROVE  Flowed'
<1> DEFINE p == conn[s][c]
           q == conn'[s][c]
<1>1. /\ Elsewhere(s, c) /\ SameQueues(p, q) /\ q.out = p.out /\ q.told = p.told
      /\ q.sent = p.sent /\ q.said = p.said /\ q.writer = "write"
      /\ p.run = "init" /\ UNCHANGED <<wMsg, wire, loop>>
  BY StartLoopsFacts DEF SamePipe
<1>2. p.writer = "off"
  BY <1>1 DEF Looping, LoopOK, Fresh
<1> QED
  BY <1>1, <1>2, LoopSame, QuietFlow

\* SendSyn keeps Flowed.
LEMMA SendSynFlow ==
  ASSUME Typed, Typed', Controlled, Flowed, NEW s \in Sides, NEW c \in Conns, SendSyn(s, c)
  PROVE  Flowed'
<1> DEFINE p == conn[s][c]
           q == conn'[s][c]
           msg == Msg(IF s = "proxy" THEN "synok" ELSE "syn", c, p.sent)
<1>1. /\ Elsewhere(s, c) /\ SameQueues(p, q) /\ q.out = p.out /\ q.told = p.told
      /\ q.sent = p.sent /\ q.said = p.said /\ q.writer = p.writer
      /\ p.run = "syn" /\ UNCHANGED <<wire, loop>>
      /\ Queue(s, msg) \/ UNCHANGED wMsg
  BY SendSynFacts DEF SamePipe, SameLoops
<1>2. PICK m \in Msgs : m = msg
  <2>1. p.sent \in Nat
    BY Counts
  <2> QED BY <2>1, MsgTyped DEF Types
<1>3. m.type \in {"syn", "synok"} /\ m.conn = c /\ m.n = p.sent
  BY <1>2, MsgFields
<1>4. Counted(s, c, m)
  BY <1>1, <1>3 DEF Counted
<1>5. loop[s] \notin Ended
  BY <1>1 DEF Controlled, Control, Started
<1> QED
  BY <1>1, <1>2, <1>3, <1>4, <1>5, LoopSame, QuietFlow

\* SetupHdr and Read keep Flowed: they send nothing.
LEMMA ReadFlow ==
  ASSUME Typed, Typed', Flowed, NEW s \in Sides, NEW c \in Conns, SetupHdr(s, c) \/ Read(s, c)
  PROVE  Flowed'
<1> DEFINE p == conn[s][c]
           q == conn'[s][c]
<1>1. /\ Elsewhere(s, c) /\ SameQueues(p, q) /\ q.out = p.out /\ q.told = p.told
      /\ q.sent = p.sent /\ q.said = p.said /\ q.writer = p.writer
      /\ q.run = p.run /\ UNCHANGED <<wMsg, wire, loop>>
  BY SetupHdrFacts, ReadFacts DEF SamePipe, SameLife, SameLoops
<1> QED
  BY <1>1, LoopSame, QuietFlow

\* The messages of the loops are counted.
LEMMA LoopCounted ==
  ASSUME Typed, NEW s \in Sides, NEW c \in Conns
  PROVE  /\ /\ conn'[s][c].sent = conn[s][c].sent + 1 /\ conn'[s][c].said = conn[s][c].said
            /\ Queue(s, Msg("data", c, conn[s][c].sent + 1))
            => \E m \in Msgs : Queue(s, m) /\ m.conn = c /\ Counted(s, c, m)
         /\ SendsFin(s, c, conn[s][c], conn'[s][c])
            => \E m \in Msgs : Queue(s, m) /\ m.conn = c /\ Counted(s, c, m)
<1> DEFINE p == conn[s][c]
           q == conn'[s][c]
<1>1. p.sent \in Nat
  BY Counts
<1>2. PICK m \in Msgs : m = Msg("data", c, p.sent + 1)
  BY <1>1, MsgTyped DEF Types
<1>3. m.type = "data" /\ m.conn = c /\ m.n = p.sent + 1
  BY <1>2, MsgFields
<1>4. q.sent = p.sent + 1 /\ q.said = p.said => Counted(s, c, m)
  BY <1>3 DEF Counted
<1>5. PICK e \in Msgs : e = Msg("fin", c, p.sent)
  BY <1>1, MsgTyped DEF Types
<1>6. e.type = "fin" /\ e.conn = c /\ e.n = p.sent
  BY <1>5, MsgFields
<1>7. SendsFin(s, c, p, q) => Queue(s, e) /\ Counted(s, c, e)
  BY <1>5, <1>6 DEF Counted, SendsFin
<1> QED
  BY <1>2, <1>3, <1>4, <1>6, <1>7

\* What the loops push keeps Flowed: PushData, PushFin and WriterFin.
LEMMA PushFlow ==
  ASSUME Typed, Typed', Flowed, NEW s \in Sides, NEW c \in Conns,
         PushData(s, c) \/ PushFin(s, c) \/ WriterFin(s, c)
  PROVE  Flowed'
<1> DEFINE p == conn[s][c]
           q == conn'[s][c]
           Goal == /\ Elsewhere(s, c) /\ SameQueues(p, q) /\ q.out = p.out /\ q.told = p.told
                   /\ q.run = p.run /\ UNCHANGED <<wire, loop>>
                   /\ q.writer = p.writer \/ (p.writer = "fin" /\ q.writer = "end")
                   /\ \/ UNCHANGED wMsg /\ q.sent = p.sent /\ q.said = p.said
                      \/ /\ loop[s] \notin Ended
                         /\ \/ /\ q.sent = p.sent + 1 /\ q.said = p.said
                               /\ Queue(s, Msg("data", c, p.sent + 1))
                            \/ SendsFin(s, c, p, q)
<1>0. SUFFICES Goal
  <2>1. ASSUME Goal
        PROVE  \/ UNCHANGED wMsg /\ q.sent = p.sent /\ q.said = p.said
               \/ \E m \in Msgs : Queue(s, m) /\ loop[s] \notin Ended /\ m.conn = c /\ Counted(s, c, m)
    BY <2>1, LoopCounted
  <2> QED BY <2>1, LoopSame, QuietFlow
<1>1. Up(s) /\ Open(s) => loop[s] \notin Ended
  BY DEF Up, Open, Ended
<1>a. SendsFin(s, c, p, q) => Open(s)
  BY DEF SendsFin
<1>2. CASE PushData(s, c)
  <2>1. Up(s)
    BY <1>2 DEF PushData
  <2> QED BY <1>1, <1>2, <1>a, <2>1, PushDataFacts DEF SameLife, SamePipe
<1>3. CASE PushFin(s, c)
  <2>1. Up(s)
    BY <1>3 DEF PushFin
  <2>2. /\ Elsewhere(s, c) /\ SameQueues(p, q) /\ q.out = p.out /\ q.told = p.told
        /\ q.run = p.run /\ UNCHANGED <<wire, loop>> /\ q.writer = p.writer
        /\ SendsFin(s, c, p, q) \/ (SamePipe(p, q) /\ UNCHANGED wMsg)
    BY <1>3, PushFinFacts
  <2> QED BY <1>1, <1>a, <2>1, <2>2 DEF SamePipe
<1>4. CASE WriterFin(s, c)
  <2>1. Up(s)
    BY <1>4 DEF WriterFin
  <2>2. /\ Elsewhere(s, c) /\ SameQueues(p, q) /\ q.out = p.out /\ q.told = p.told
        /\ q.run = p.run /\ UNCHANGED <<wire, loop>>
        /\ q.writer = "end" /\ p.writer = "fin"
        /\ SendsFin(s, c, p, q) \/ (SamePipe(p, q) /\ UNCHANGED wMsg)
    BY <1>4, WriterFinFacts
  <2> QED BY <1>1, <1>a, <2>1, <2>2 DEF SamePipe
<1> QED
  BY <1>2, <1>3, <1>4

-----------------------------------------------------------------------------
(***************************************************************************)
(* The steps that do.                                                      *)
(***************************************************************************)

\* Two ways to bracket three sequences.
Regrouped(x, y, z) == (x \o y) \o z = x \o (y \o z)

\* They are the same: concatenation is associative.
LEMMA Assoc ==
  ASSUME NEW x \in Seq(Msgs), NEW y \in Seq(Msgs), NEW z \in Seq(Msgs)
  PROVE  Regrouped(x, y, z)
  BY ConcatAssociative DEF Regrouped

\* The concatenation of messages are messages.
LEMMA Joins == \A x, y \in Seq(Msgs) : x \o y \in Seq(Msgs)
  BY Join

\* Two ways to bracket four sequences.
Grouped(a, b, d, e) ==
  /\ (a \o b) \o (d \o e) = a \o ((b \o d) \o e)
  /\ (a \o (b \o d)) \o e = (a \o b) \o (d \o e)

\* They are the same.
LEMMA Regroup ==
  ASSUME NEW a \in Seq(Msgs), NEW b \in Seq(Msgs), NEW d \in Seq(Msgs), NEW e \in Seq(Msgs)
  PROVE  Grouped(a, b, d, e)
<1>1. PICK x \in Seq(Msgs) : x = d \o e
  BY Joins
<1>2. PICK y \in Seq(Msgs) : y = b \o d
  BY Joins
<1>3. Regrouped(a, b, x)
  BY Assoc
<1>4. Regrouped(b, d, e)
  BY Assoc
<1>5. Regrouped(a, y, e)
  BY Assoc
<1> QED BY <1>1, <1>2, <1>3, <1>4, <1>5 DEF Grouped, Regrouped

\* A message in the middle, and without it.
TakesOut(w, r, e, y, u) ==
  /\ (w \o (r \o y)) \o u = (w \o r) \o (y \o u)
  /\ (w \o (r \o (e \o y))) \o u = (w \o r) \o (e \o (y \o u))

\* They are the same.
LEMMA TakenOut ==
  ASSUME NEW w \in Seq(Msgs), NEW r \in Seq(Msgs), NEW e \in Seq(Msgs),
         NEW y \in Seq(Msgs), NEW u \in Seq(Msgs)
  PROVE  TakesOut(w, r, e, y, u)
<1>1. Grouped(w, r, y, u)
  BY Regroup
<1>2. PICK x \in Seq(Msgs) : x = e \o y
  BY Joins
<1>3. Grouped(w, r, x, u)
  BY Regroup
<1>4. (e \o y) \o u = e \o (y \o u)
  <2>1. Regrouped(e, y, u)
    BY Assoc
  <2> QED BY <2>1 DEF Regrouped
<1>5. (w \o (r \o y)) \o u = (w \o r) \o (y \o u)
  BY <1>1 DEF Grouped
<1>6. (w \o (r \o x)) \o u = (w \o r) \o (x \o u)
  BY <1>3 DEF Grouped
<1> QED BY <1>2, <1>4, <1>5, <1>6 DEF TakesOut

\* The first of W may be left out when it carries nothing of c.
LEMMA PicksTail ==
  ASSUME NEW W \in Seq(Msgs), W # <<>>, NEW c,
         ~Carries(Head(W), c)
  PROVE  Picks(Tail(W), W, c)
<1> DEFINE h == Head(W)
           z == Tail(W)
<1>1. h \in Msgs /\ z \in Seq(Msgs)
  BY HeadTailProperties
<1>2. W = <<h>> \o z
  BY HeadConcat
<1>3. ~Carries(h, c)
  OBVIOUS
<1> HIDE DEF h, z
<1>4. Picks(<<>> \o z, <<>> \o (<<h>> \o z), c)
  <2>1. <<>> \in Seq(Msgs)
    OBVIOUS
  <2> QED BY <1>1, <1>3, <2>1, PicksCut
<1>5. <<>> \o z = z /\ <<>> \o (<<h>> \o z) = <<h>> \o z
  <2>1. <<h>> \o z \in Seq(Msgs)
    <3>1. <<h>> \in Seq(Msgs)
      BY <1>1
    <3> QED BY <1>1, <3>1, Join
  <2> QED BY <1>1, <2>1, ConcatEmptySeq
<1> QED BY <1>2, <1>4, <1>5 DEF z

\* RunTick keeps Flowed: what moves from rlist to wMsg stays on its way, in its
\* place.
LEMMA RunTickFlow ==
  ASSUME Typed, Typed', Flowed, NEW s \in Sides, NEW c \in Conns, RunTick(s, c)
  PROVE  Flowed'
<1> DEFINE p == conn[s][c]
           q == conn'[s][c]
           x == p.in \o Pushed(s, c)
<1>1. /\ Elsewhere(s, c) /\ q.out = p.out /\ q.told = p.told /\ q.in = p.in
      /\ q.sent = p.sent /\ q.said = p.said /\ q.writer = p.writer
      /\ p.run = "loop" /\ q.run = "loop" /\ UNCHANGED <<wMsg, wire, loop>>
  BY RunTickFacts DEF SamePipe, SameLoops, SameLife
<1>2. PICK z \in Seq(Msgs) : q.w = p.w \o z /\ p.rlist = z \o q.rlist
  <2>1. \E z \in Seq(Msgs) : q.w = p.w \o z /\ p.rlist = z \o q.rlist
    BY ZenonT(60), RunTickFacts
  <2> QED BY <2>1
<1>3. \A t \in Sides, d \in Conns : Pushed(t, d)' = Pushed(t, d)
  BY <1>1, LoopSame, PushedSame
<1>4. Here(s, c)' = Here(s, c)
  <2>1. q.rlist \in Seq(Msgs)
    BY Fields DEF Typed, ConnsOK
  <2>2. p.w \in Seq(Msgs) /\ x \in Seq(Msgs)
    BY QueuesTyped, WayTyped
  <2>3. (p.w \o z) \o (q.rlist \o x) = p.w \o ((z \o q.rlist) \o x)
    <3>1. PICK w \in Seq(Msgs), v \in Seq(Msgs), y \in Seq(Msgs) :
            w = p.w /\ v = q.rlist /\ y = x
      BY <2>1, <2>2
    <3>2. (w \o z) \o (v \o y) = w \o ((z \o v) \o y)
      <4>1. Grouped(w, z, v, y)
        BY Regroup
      <4> QED BY <4>1 DEF Grouped
    <3> QED BY <3>1, <3>2
  <2>4. Here(s, c)' = q.w \o (q.rlist \o x)
    BY <1>1, <1>3 DEF Here
  <2>5. Here(s, c) = p.w \o (p.rlist \o x)
    BY DEF Here
  <2> QED BY <1>2, <2>3, <2>4, <2>5
<1>5. SentStays /\ Other(s) \in Sides /\ Other(s) # s
  BY <1>1, SentSame, OtherSide DEF SentStays
<1>6. Way(s, c)' = Way(s, c)
  BY <1>4, <1>5 DEF Way, SentStays
<1>7. conn'[Other(s)][c] = conn[Other(s)][c]
  BY <1>1, <1>5 DEF Elsewhere
<1>8. Flow(s, c)'
  BY <1>1, <1>5, <1>6, <1>7, FlowKept DEF Flowed
<1> QED
  BY <1>1, <1>3, <1>5, <1>8, OneFlow

\* What RunFor does to what is on its way: nothing, or it takes a MsgTypeSynOk.
LEMMA RunForWay ==
  ASSUME Typed, Typed', NEW s \in Sides, NEW c \in Conns, RunFor(s, c),
         conn'[s][c].run # "done"
  PROVE  Way(s, c)' = Way(s, c) \/ Picks(Way(s, c)', Way(s, c), c)
<1> DEFINE p == conn[s][c]
           q == conn'[s][c]
           x == Pushed(s, c)
           S == Sent(Other(s))
           h == Head(p.in)
           t == Tail(p.in)
<1>1. UNCHANGED <<wMsg, wire, loop>> /\ p.in # <<>> /\ q.in = t
  BY RunForFacts
<1>2. x' = x /\ S' = S
  BY <1>1, OtherSide, LoopSame, PushedSame, SentSame
<1>3. /\ p.in \in Seq(Msgs) /\ p.rlist \in Seq(Msgs) /\ p.w \in Seq(Msgs)
      /\ x \in Seq(Msgs) /\ S \in Seq(Msgs)
  BY QueuesTyped, WayTyped, OtherSide, SentTyped
<1>4. h \in Msgs /\ t \in Seq(Msgs) /\ p.in = <<h>> \o t /\ p.in \o x = <<h>> \o (t \o x)
  <2>0. PICK a \in Seq(Msgs), y \in Seq(Msgs) : a = p.in /\ y = x
    BY <1>3
  <2>1. h \in Msgs /\ t \in Seq(Msgs)
    <3>1. a # <<>>
      BY <1>1, <2>0
    <3>2. Head(a) \in Msgs /\ Tail(a) \in Seq(Msgs)
      BY <3>1, HeadTailProperties
    <3> QED BY <2>0, <3>2
  <2>2. p.in = <<h>> \o t /\ p.in \o x = <<h>> \o (t \o x)
    <3>1. a # <<>>
      BY <1>1, <2>0
    <3>2. a = <<Head(a)>> \o Tail(a) /\ a \o y = <<Head(a)>> \o (Tail(a) \o y)
      BY <3>1, HeadConcat
    <3> QED BY <2>0, <3>2
  <2> QED BY <2>1, <2>2
<1>5. q.rlist \in Seq(Msgs)
  BY Fields DEF Typed, ConnsOK
<1>6. /\ Way(s, c) = (p.w \o (p.rlist \o (<<h>> \o (t \o x)))) \o S
      /\ Way(s, c)' = (q.w \o (q.rlist \o (t \o x))) \o S
  BY <1>1, <1>2, <1>4 DEF Way, Here
<1>7. PICK y \in Seq(Msgs), e \in Seq(Msgs) : y = t \o x /\ e = <<h>>
  <2>1. t \in Seq(Msgs) /\ x \in Seq(Msgs) /\ h \in Msgs
    BY <1>3, <1>4
  <2> HIDE DEF t, x, h
  <2>2. t \o x \in Seq(Msgs)
    BY <2>1, Join
  <2>3. <<h>> \in Seq(Msgs)
    BY <2>1
  <2> QED BY <2>2, <2>3
<1>8. CASE h.type = "synok" /\ q.w = p.w /\ q.rlist = p.rlist
  <2>1. PICK w \in Seq(Msgs), r \in Seq(Msgs), u \in Seq(Msgs) :
          w = p.w /\ r = p.rlist /\ u = S
    BY <1>3
  <2>2. Way(s, c) = (w \o (r \o (e \o y))) \o u /\ Way(s, c)' = (w \o (r \o y)) \o u
    BY <1>6, <1>7, <1>8, <2>1
  <2>3. w \o r \in Seq(Msgs) /\ y \o u \in Seq(Msgs)
    BY Joins
  <2>4. TakesOut(w, r, e, y, u)
    BY TakenOut
  <2>5. /\ (w \o (r \o y)) \o u = (w \o r) \o (y \o u)
        /\ (w \o (r \o (e \o y))) \o u = (w \o r) \o (e \o (y \o u))
    BY <2>4 DEF TakesOut
  <2>6. Picks((w \o r) \o (y \o u), (w \o r) \o (<<h>> \o (y \o u)), c)
    <3>1. ~Carries(h, c)
      BY <1>8 DEF Carries
    <3> QED BY <1>4, <2>3, <3>1, PicksCut
  <2> QED BY <1>7, <2>2, <2>5, <2>6
<1>9. CASE \E z \in Seq(Msgs) : q.w = p.w \o z /\ Append(p.rlist, h) = z \o q.rlist
  <2>1. PICK z \in Seq(Msgs) : q.w = p.w \o z /\ Append(p.rlist, h) = z \o q.rlist
    BY <1>9
  <2>2. PICK w \in Seq(Msgs), r \in Seq(Msgs), v \in Seq(Msgs) :
          w = p.w /\ r = p.rlist /\ v = q.rlist
    BY <1>3, <1>5
  <2>3. Append(r, h) = r \o e /\ Append(r, h) = z \o v
    <3>1. Append(r, h) = r \o <<h>>
      BY <1>4, AppendIsConcat
    <3> QED BY <1>7, <2>1, <2>2, <3>1
  <2>4. w \o (r \o (e \o y)) = w \o ((r \o e) \o y)
    <3>1. Regrouped(r, e, y)
      BY Assoc
    <3> QED BY <3>1 DEF Regrouped
  <2>5. (w \o z) \o (v \o y) = w \o ((z \o v) \o y)
    <3>1. Grouped(w, z, v, y)
      BY Regroup
    <3> QED BY <3>1 DEF Grouped
  <2> QED BY ZenonT(60), <1>6, <1>7, <2>1, <2>2, <2>3, <2>4, <2>5
<1> QED
  BY <1>8, <1>9, RunForFacts

\* RunFor keeps Flowed; when Run gives the connection up, what wMsg holds is
\* still a front part of what was on its way.
LEMMA RunForFlow ==
  ASSUME Typed, Typed', Flowed, NEW s \in Sides, NEW c \in Conns, RunFor(s, c)
  PROVE  Flowed'
<1> DEFINE p == conn[s][c]
           q == conn'[s][c]
<1>1. /\ Elsewhere(s, c) /\ q.out = p.out /\ q.told = p.told
      /\ q.sent = p.sent /\ q.said = p.said /\ q.writer = p.writer
      /\ p.run = "loop" /\ UNCHANGED <<wMsg, wire, loop>>
  BY RunForFacts DEF SamePipe
<1>2. q.run = "done" => q.w = p.w
  BY RunForFacts DEF SameQueues
<1>3. q.run # "done" => Way(s, c)' = Way(s, c) \/ Picks(Way(s, c)', Way(s, c), c)
  BY RunForWay
<1>4. SentStays /\ Other(s) \in Sides /\ Other(s) # s
  BY <1>1, SentSame, OtherSide DEF SentStays
<1>5. conn'[Other(s)][c] = conn[Other(s)][c]
  BY <1>1, <1>4 DEF Elsewhere
<1>6. Flow(s, c)'
  BY <1>1, <1>2, <1>3, <1>4, <1>5, FlowKept DEF Flowed
<1> QED
  BY <1>1, <1>4, <1>6, LoopSame, PushedSame, OneFlow

\* A step of a connection that sends nothing and leaves the rest as it is.
LEMMA OwnFlow ==
  ASSUME Typed, Typed', Flowed, NEW s \in Sides, NEW c \in Conns, Elsewhere(s, c),
         UNCHANGED <<wMsg, wire, loop>>, Flow(s, c)',
         conn'[s][c].sent = conn[s][c].sent,
         conn'[s][c].said = conn[s][c].said
  PROVE  Flowed'
  BY SentSame, LoopSame, PushedSame, OneFlow DEF SentStays

\* What is on its way when the writer takes the first message.
LEMMA WriteWay ==
  ASSUME Typed, NEW s \in Sides, NEW c \in Conns, Write(s, c),
         conn[s][c].w # <<>>, conn'[s][c].w = Tail(conn[s][c].w)
  PROVE  /\ Way(s, c) \in Seq(Msgs) /\ Way(s, c) # <<>>
         /\ Head(Way(s, c)) = Head(conn[s][c].w) /\ Way(s, c)' = Tail(Way(s, c))
<1> DEFINE w == conn[s][c].w
           x == conn[s][c].rlist \o (conn[s][c].in \o Pushed(s, c))
           S == Sent(Other(s))
<1>1. /\ w \in Seq(Msgs) /\ x \in Seq(Msgs) /\ S \in Seq(Msgs)
      /\ Way(s, c) \in Seq(Msgs) /\ w # <<>>
  BY QueuesTyped, WayTyped, OtherSide, SentTyped
<1>2. /\ conn'[s][c].in = conn[s][c].in /\ conn'[s][c].rlist = conn[s][c].rlist
      /\ UNCHANGED <<wMsg, wire, loop>>
  BY WriteFacts
<1>3. x' = x /\ S' = S
  BY <1>2, LoopSame, PushedSame, OtherSide, SentSame
<1>4. Way(s, c) = (w \o x) \o S /\ Way(s, c)' = (Tail(w) \o x) \o S
  BY <1>3 DEF Way, Here
<1> HIDE DEF w, x, S
<1>5. PICK v \in Seq(Msgs) : v = w \o x
  BY <1>1, Joins
<1>6. Head(v) = Head(w) /\ Tail(v) = Tail(w) \o x /\ v # <<>>
  BY <1>1, <1>5, HeadConcat
<1>7. Head(v \o S) = Head(v) /\ Tail(v \o S) = Tail(v) \o S /\ v \o S # <<>>
  BY <1>1, <1>5, <1>6, HeadConcat
<1> QED BY <1>1, <1>4, <1>5, <1>6, <1>7 DEF w

\* What is left after data of c is taken continues one piece more.
Advances(W, c, b, t, e) ==
  /\ Head(W).n = b + 1 /\ b + 1 <= t /\ (e # None => b + 1 <= e)
  /\ Orderly(Tail(W), c, b + 1, t, e)
  /\ Full(W, c, b, t) => Full(Tail(W), c, b + 1, t)
  /\ Marked(W, c, e) => Marked(Tail(W), c, e)

\* HeadData, for every queue.
LEMMA DataAdvances ==
  ASSUME NEW c \in Conns, NEW b \in Nat, NEW t \in Nat, NEW e \in Nat \union {None}
  PROVE  \A W \in Seq(Msgs) :
           W # <<>> /\ Orderly(W, c, b, t, e) /\ Head(W).conn = c /\ Head(W).type = "data"
           => Advances(W, c, b, t, e)
  BY HeadData DEF Advances

\* HeadEnds, for every queue.
LEMMA FinIsFirst ==
  ASSUME NEW c \in Conns, NEW b \in Nat, NEW t \in Nat, NEW e \in Nat \union {None}
  PROVE  \A W \in Seq(Msgs) :
           W # <<>> /\ Orderly(W, c, b, t, e) /\ Head(W).conn = c /\ Head(W).type = "fin"
           => Head(W).n = b /\ e = b
  BY HeadEnds

\* The first b pieces of data of c.
Pieces(a, c, b) == Len(a) = b /\ a = [i \in 1..b |-> <<c, i>>]

\* One more piece is written.
LEMMA OutGrows ==
  ASSUME NEW c \in Conns, NEW b \in Nat, NEW a \in Seq(Conns \X Nat),
         Pieces(a, c, b)
  PROVE  Pieces(Append(a, <<c, b + 1>>), c, b + 1)
<1>1. PICK x \in Conns \X Nat : x = <<c, b + 1>>
  <2>1. b + 1 \in Nat
    OBVIOUS
  <2>2. <<c, b + 1>> \in Conns \X Nat
    BY <2>1
  <2> QED BY <2>2
<1>2. PICK z \in Seq(Conns \X Nat) : z = Append(a, x)
  BY <1>1, AppendProperties
<1>3. Len(z) = b + 1 /\ z[b + 1] = x /\ \A i \in 1..b : z[i] = a[i]
  BY <1>2, AppendProperties DEF Pieces
<1>4. Len(a) = b /\ \A i \in 1..b : a[i] = <<c, i>>
  BY DEF Pieces
<1>5. \A i \in 1..(b + 1) : i \in 1..b \/ i = b + 1
  OBVIOUS
<1>6. \A i \in 1..(b + 1) : z[i] = <<c, i>>
  BY <1>1, <1>3, <1>4, <1>5
<1>7. z = [i \in 1..(b + 1) |-> z[i]]
  BY <1>3
<1>8. Pieces(z, c, b + 1)
  BY <1>3, <1>6, <1>7 DEF Pieces
<1> QED
  BY <1>1, <1>2, <1>8

\* What a writer finds first is a message of its connection.
LEMMA FoundFirst ==
  ASSUME Typed, Opened, NEW s \in Sides, NEW c \in Conns, conn[s][c].w # <<>>
  PROVE  LET m == Head(conn[s][c].w) IN m \in Msgs /\ m.conn = c /\ m.type # "synerr"
<1> DEFINE w == conn[s][c].w
           m == Head(w)
<1>1. w \in Seq(Msgs)
  BY Counts
<1>2. m \in Elems(w) /\ m \in Msgs
  BY <1>1, ElemsFacts, HeadTailProperties
<1>3. m \in Inside(conn[s][c])
  BY <1>2 DEF Inside
<1> QED BY <1>2, <1>3 DEF Opened, Arrived

\* Write keeps Flowed: it writes the next piece, and an end is told when all
\* that was sent before it has been written.
LEMMA WriteFlow ==
  ASSUME Typed, Typed', Opened, Flowed, NEW s \in Sides, NEW c \in Conns, Write(s, c)
  PROVE  Flowed'
<1> DEFINE o == Other(s)
           p == conn[s][c]
           q == conn'[s][c]
           m == Head(p.w)
           b == Len(p.out)
           t == conn[o][c].sent
           f == conn[o][c].said
           W == Way(s, c)
           V == Way(s, c)'
<1>0. o \in Sides /\ o # s
  BY OtherSide
<1>1. /\ Elsewhere(s, c) /\ q.sent = p.sent /\ q.run = p.run /\ p.writer = "write"
      /\ UNCHANGED <<wMsg, wire, loop>> /\ q.said = p.said
  BY WriteFacts
<1>2. conn'[o][c] = conn[o][c] /\ loop'[o] = loop[o]
  BY <1>0, <1>1 DEF Elsewhere
<1>3. /\ b \in Nat /\ t \in Nat /\ f \in Nat \union {None} /\ p.w \in Seq(Msgs) /\ W \in Seq(Msgs)
      /\ p.out \in Seq(Conns \X Nat)
  BY <1>0, Counts, WayTyped
<1>4. /\ b <= t /\ p.out = [i \in 1..b |-> <<c, i>>] /\ p.told = None
      /\ f # None => b <= f /\ f <= t
      /\ Orderly(p.w, c, b, t, f)
      /\ p.run # "done" => Orderly(W, c, b, t, f)
      /\ p.run # "done" /\ loop[o] \notin Ended => Full(W, c, b, t) /\ Marked(W, c, f)
  BY <1>1 DEF Flowed, Flow
<1>5. p.w # <<>> => m \in Msgs /\ m.conn = c /\ m.type # "synerr"
  BY FoundFirst
<1>6. p.w # <<>> /\ q.w = Tail(p.w) => W # <<>> /\ Head(W) = m /\ V = Tail(W)
  BY WriteWay
<1>7. SUFFICES Flow(s, c)'
  BY <1>1, OwnFlow
<1>8. CASE /\ p.w # <<>> /\ m.type = "data" /\ q.w = Tail(p.w)
           /\ q.out = Append(p.out, <<m.conn, m.n>>) /\ q.told = p.told
           /\ q.writer = "write"
  <2>1. PICK w \in Seq(Msgs), u \in Seq(Msgs), n \in Nat, l \in Nat, e \in Nat \union {None},
             h \in Msgs :
          w = p.w /\ u = W /\ n = b /\ l = t /\ e = f /\ h = m
    BY <1>3, <1>5, <1>8
  <2>2. /\ h.conn = c /\ h.type = "data" /\ Orderly(w, c, n, l, e)
        /\ w # <<>> /\ Head(w) = h /\ q.w = Tail(w)
    BY <1>4, <1>5, <1>8, <2>1
  <2>3. Advances(w, c, n, l, e)
    BY <2>2, DataAdvances
  <2>4. ASSUME p.run # "done" PROVE Advances(u, c, n, l, e)
    <3>1. u # <<>> /\ Head(u) = h
      BY <1>6, <1>8, <2>1
    <3>2. Orderly(u, c, n, l, e)
      BY <1>4, <2>1, <2>4
    <3> QED BY <2>2, <3>1, <3>2, DataAdvances
  <2>5. /\ h.n = n + 1 /\ n + 1 <= l /\ Orderly(q.w, c, n + 1, l, e)
        /\ e # None => n + 1 <= e
    BY <2>2, <2>3 DEF Advances
  <2>6. V = Tail(u)
    BY <1>6, <1>8, <2>1
  <2>7. p.run # "done" => /\ Orderly(V, c, n + 1, l, e)
                          /\ Full(u, c, n, l) => Full(V, c, n + 1, l)
                          /\ Marked(u, c, e) => Marked(V, c, e)
    BY <2>4, <2>6 DEF Advances
  <2>8. q.out = Append(p.out, <<c, n + 1>>)
    BY <1>8, <2>1, <2>2, <2>5
  <2>9. Len(q.out) = n + 1 /\ q.out = [i \in 1..(n + 1) |-> <<c, i>>]
    <3>1. p.out \in Seq(Conns \X Nat) /\ Pieces(p.out, c, n)
      BY <1>3, <1>4, <2>1 DEF Pieces
    <3>2. PICK a \in Seq(Conns \X Nat) : a = p.out
      BY <3>1
    <3>3. Pieces(Append(a, <<c, n + 1>>), c, n + 1)
      BY <3>1, <3>2, OutGrows
    <3> QED BY <2>8, <3>2, <3>3 DEF Pieces
  <2> QED BY <1>1, <1>2, <1>4, <1>8, <2>1, <2>5, <2>7, <2>9 DEF Flow
<1>9. CASE /\ p.w # <<>> /\ m.type = "data" /\ q.w = Tail(p.w) /\ q.out = p.out
           /\ q.told = p.told /\ q.writer = "fin"
  BY <1>1, <1>2, <1>4, <1>9 DEF Flow
<1>10. CASE /\ p.w # <<>> /\ m.type \in Ending /\ q.w = Tail(p.w) /\ q.out = p.out
            /\ q.told = m.n /\ q.writer = "end"
  <2>1. m.type = "fin"
    BY <1>5, <1>10 DEF Ending
  <2>2. m.n = b /\ f = b
    <3>1. PICK w \in Seq(Msgs), n \in Nat, l \in Nat : w = p.w /\ n = b /\ l = t
      BY <1>3
    <3>2. m.conn = c /\ Orderly(w, c, n, l, f) /\ w # <<>> /\ m = Head(w)
      BY <1>4, <1>5, <1>10, <3>1
    <3>3. m.n = n /\ f = n
      BY <1>3, <2>1, <3>2, FinIsFirst
    <3> QED BY <3>1, <3>3
  <2> QED BY <1>1, <1>2, <1>4, <1>10, <2>2 DEF Flow
<1>11. CASE /\ p.w # <<>> /\ m.type \notin Ending \union {"data"} /\ q.w = Tail(p.w)
            /\ q.out = p.out /\ q.told = p.told /\ q.writer = "write"
  <2>1. ~Carries(m, c)
    BY <1>11 DEF Ending, Carries
  <2>2. Picks(q.w, p.w, c)
    BY <1>3, <1>11, <2>1, PicksTail
  <2>3. Picks(V, W, c)
    BY <1>3, <1>6, <1>11, <2>1, PicksTail
  <2> QED
    BY <1>1, <1>2, <1>11, <2>2, <2>3, FlowKept DEF Flowed
<1>12. CASE q.w = p.w /\ q.out = p.out /\ q.told = p.told /\ q.writer = "end"
  BY <1>1, <1>2, <1>4, <1>12 DEF Flow
<1> QED
  BY ZenonT(60), <1>8, <1>9, <1>10, <1>11, <1>12, WriteFacts

\* RemoveConn keeps Flowed: it empties the queues only of a connection whose
\* Run is over.
LEMMA RemoveConnFlow ==
  ASSUME Typed, Typed', Flowed, NEW s \in Sides, NEW c \in Conns, RemoveConn(s, c)
  PROVE  Flowed'
<1> DEFINE p == conn[s][c]
           q == conn'[s][c]
<1>1. /\ Elsewhere(s, c) /\ q.out = p.out /\ q.told = p.told /\ q.run = p.run
      /\ q.sent = p.sent /\ q.said = p.said /\ q.writer = p.writer
      /\ SameQueues(p, q) \/ (p.run = "done" /\ q.w = <<>>)
      /\ UNCHANGED <<wMsg, wire>>
  BY RemoveConnFacts DEF SamePipe, SameLoops
<1>2. loop[s] = Select /\ loop' = [loop EXCEPT ![s] = Answering(c, "rm")]
  BY RemoveConnFacts
<1>3. PushSame /\ \A t \in Sides : loop[t] \in Ended => loop'[t] \in Ended
  BY <1>2, Stands DEF PushSame, Typed, LoopsOK
<1>4. CASE SameQueues(p, q)
  BY <1>1, <1>3, <1>4, QuietFlow
<1>5. CASE p.run = "done" /\ q.w = <<>>
  <2>1. Other(s) \in Sides /\ Other(s) # s /\ SentStays
    BY <1>1, OtherSide, SentSame DEF SentStays
  <2>2. conn'[Other(s)][c] = conn[Other(s)][c]
    BY <1>1, <2>1 DEF Elsewhere
  <2>3. Flow(s, c)'
    BY <1>1, <1>3, <1>5, <2>1, <2>2, FlowKept DEF Flowed
  <2> QED BY <1>1, <1>3, <2>1, <2>3, PushedSame, OneFlow
<1> QED BY <1>1, <1>4, <1>5

\* PushIn keeps Flowed: the message RunC held becomes the last of in.
LEMMA PushInFlow ==
  ASSUME Typed, Typed', Flowed, NEW s \in Sides, PushIn(s) PROVE Flowed'
<1>1. PICK c \in Conns : c = loop[s].conn
  BY PushInFacts
<1>2. PICK m \in Msgs : m = loop[s].msg
  BY PushInFacts
<1> DEFINE p == conn[s][c]
           q == conn'[s][c]
<1>3. /\ Elsewhere(s, c) /\ q.out = p.out /\ q.told = p.told /\ q.run = p.run
      /\ q.sent = p.sent /\ q.said = p.said /\ q.writer = p.writer
      /\ q.in = Append(p.in, m) /\ q.w = p.w /\ q.rlist = p.rlist
      /\ loop[s].at = "push" /\ loop' = [loop EXCEPT ![s] = Select]
      /\ UNCHANGED <<wMsg, wire>>
  BY <1>1, <1>2, PushInFacts DEF SamePipe, SameLoops, SameLife
<1>4. loop'[s].at = "select" /\ \A t \in Sides : t # s => loop'[t] = loop[t]
  BY <1>3, Stands DEF Typed, LoopsOK
<1>5. \A t \in Sides, d \in Conns : t # s \/ d # c => Pushed(t, d)' = Pushed(t, d)
  BY <1>1, <1>4 DEF Pushed
<1>6. Pushed(s, c) = <<m>> /\ Pushed(s, c)' = <<>>
  BY <1>1, <1>2, <1>3, <1>4 DEF Pushed
<1>7. \A t \in Sides : loop[t] \in Ended => loop'[t] \in Ended
  <2>1. loop[s] \notin Ended
    BY <1>3, Stands DEF Ended
  <2> QED BY <1>4, <2>1
<1>8. Other(s) \in Sides /\ Other(s) # s /\ SentStays
  BY <1>3, OtherSide, SentSame DEF SentStays
<1>9. conn'[Other(s)][c] = conn[Other(s)][c]
  BY <1>3, <1>8 DEF Elsewhere
<1>10. q.in \o <<>> = p.in \o <<m>>
  <2>1. PICK a \in Seq(Msgs) : a = p.in
    BY QueuesTyped
  <2>2. Append(a, m) = a \o <<m>> /\ Append(a, m) \in Seq(Msgs)
    BY AppendIsConcat, AppendProperties
  <2>3. Append(a, m) \o <<>> = Append(a, m)
    BY <2>2, ConcatEmptySeq
  <2> QED BY <1>3, <2>1, <2>2, <2>3
<1>11. Way(s, c)' = Way(s, c)
  BY <1>3, <1>6, <1>8, <1>10 DEF Way, Here, SentStays
<1>12. Flow(s, c)'
  BY <1>3, <1>7, <1>8, <1>9, <1>11, FlowKept DEF Flowed
<1> QED BY <1>3, <1>5, <1>7, <1>8, <1>12, OneFlow

\* Nothing that is on its way changes.
LEMMA StillFlow ==
  ASSUME Typed, Typed', Flowed, SentStays, PushSame,
         \A t \in Sides : loop[t] \in Ended => loop'[t] \in Ended,
         \A t \in Sides, d \in Conns :
           LET p == conn[t][d]
               q == conn'[t][d]
           IN /\ SameQueues(p, q) /\ q.out = p.out /\ q.told = p.told /\ q.sent = p.sent
              /\ q.run = p.run /\ q.writer = p.writer /\ q.said = p.said
  PROVE  Flowed'
<1>1. ASSUME NEW t \in Sides, NEW d \in Conns PROVE Flow(t, d)'
  <2>1. Other(t) \in Sides /\ Flow(t, d)
    BY OtherSide DEF Flowed
  <2>2. Way(t, d)' = Way(t, d)
    BY <2>1, PushedSame, HereSame DEF Way, SentStays
  <2>3. conn'[t][d].w = conn[t][d].w
    BY DEF SameQueues
  <2> QED BY <2>1, <2>2, <2>3, FlowKept
<1> QED BY <1>1 DEF Flowed

\* KcpSend, Quit and DoDying keep Flowed, and so does a step that changes
\* nothing.
LEMMA QuietFlows ==
  ASSUME Typed, Typed', Flowed, NEW s \in Sides,
         UNCHANGED vars \/ KcpSend(s) \/ Quit(s) \/ DoDying(s)
  PROVE  Flowed'
<1>1. CASE UNCHANGED vars
  BY <1>1, StillFlow, SentSame, LoopSame DEF vars, SentStays, SameQueues
<1>2. CASE Quit(s)
  BY <1>2, StillFlow, SentSame, LoopSame DEF Quit, SentStays, SameQueues
<1>3. CASE KcpSend(s)
  BY <1>3, StillFlow, SentKcpSend, LoopSame DEF KcpSend, SentStays, SameQueues
<1>4. CASE DoDying(s)
  <2>1. \A t \in Sides, d \in Conns :
          LET p == conn[t][d]
              q == conn'[t][d]
          IN /\ SameQueues(p, q) /\ q.out = p.out /\ q.told = p.told /\ q.sent = p.sent
             /\ q.run = p.run /\ q.writer = p.writer /\ q.said = p.said
    BY <1>4, DoDyingFacts DEF SamePipe, SameLoops
  <2>2. loop[s] = Select /\ loop' = [loop EXCEPT ![s] = Returned] /\ UNCHANGED <<wMsg, wire>>
    BY <1>4, DoDyingFacts
  <2>3. PushSame /\ \A t \in Sides : loop[t] \in Ended => loop'[t] \in Ended
    BY <2>2, Stands DEF PushSame, Typed, LoopsOK
  <2> QED BY <2>1, <2>2, <2>3, StillFlow, SentSame DEF SentStays
<1> QED BY <1>1, <1>2, <1>3, <1>4

\* P2pClient.Close keeps Flowed: what it drops was last, and nobody will send
\* more.
LEMMA CloseP2pFlow ==
  ASSUME Typed, Typed', Flowed, NEW s \in Sides, CloseP2p(s) PROVE Flowed'
<1>1. \A d \in Conns :
        LET p == conn[s][d]
            q == conn'[s][d]
        IN /\ q.out = p.out /\ q.told = p.told /\ q.sent = p.sent
           /\ q.run = p.run /\ q.writer = p.writer /\ q.said = p.said
           /\ SameQueues(p, q) \/ (p.run = "done" /\ q.w = <<>>)
  BY CloseP2pFacts DEF SamePipe, SameLoops
<1>2. \A t \in Sides, d \in Conns : t # s => conn'[t][d] = conn[t][d]
  BY CloseP2pFacts, Zenon
<1>3. loop[s] = Returned /\ loop' = [loop EXCEPT ![s] = Gone]
  BY DEF CloseP2p
<1>4. loop'[s] = Gone /\ \A t \in Sides : t # s => loop'[t] = loop[t]
  BY <1>3 DEF Typed, LoopsOK
<1>5. PushSame /\ \A t \in Sides : loop[t] \in Ended => loop'[t] \in Ended
  BY <1>3, <1>4, Stands DEF PushSame, Ended
<1>6. Sent(s) = Sent(s)' \o wMsg[s] /\ \A t \in Sides : t # s => Sent(t)' = Sent(t)
  BY SentCloseP2p
<1>7. ASSUME NEW d \in Conns PROVE Flow(s, d)'
  <2>1. Other(s) \in Sides /\ Other(s) # s
    BY OtherSide
  <2>2. SameQueues(conn[s][d], conn'[s][d]) => Way(s, d)' = Way(s, d)
    BY <1>5, <1>6, <2>1, PushedSame, HereSame DEF Way
  <2>3. conn'[Other(s)][d] = conn[Other(s)][d] /\ Flow(s, d)
    BY <1>2, <2>1 DEF Flowed
  <2>4. SameQueues(conn[s][d], conn'[s][d]) => conn'[s][d].w = conn[s][d].w
    BY DEF SameQueues
  <2> QED BY <1>1, <1>5, <2>1, <2>2, <2>3, <2>4, FlowKept
<1>8. ASSUME NEW t \in Sides, t # s, NEW d \in Conns PROVE Flow(t, d)'
  <2>1. Other(t) = s /\ conn'[t][d] = conn[t][d] /\ Flow(t, d)
    BY <1>2, <1>8 DEF Other, Sides, Flowed
  <2>2. Here(t, d)' = Here(t, d)
    BY <1>5, <2>1, PushedSame, HereSame DEF SameQueues
  <2>3. PICK h \in Seq(Msgs), x \in Seq(Msgs), z \in Seq(Msgs) :
          h = Here(t, d) /\ x = wire[s] /\ z = wMsg[s]
    BY WayTyped, SentTyped
  <2>4. (h \o x) \o z = h \o (x \o z)
    <3>1. Regrouped(h, x, z)
      BY Assoc
    <3> QED BY <3>1 DEF Regrouped
  <2>5. Way(t, d)' = h \o x /\ Way(t, d) = h \o (x \o z)
    BY <2>1, <2>2, <2>3, SentCloseP2p DEF Way
  <2>6. Way(t, d) = Way(t, d)' \o z
    BY <2>4, <2>5
  <2>7. loop'[Other(t)] \in Ended
    BY <1>4, <2>1 DEF Ended
  <2>8. /\ conn'[Other(t)][d].sent = conn[Other(t)][d].sent
        /\ conn'[Other(t)][d].said = conn[Other(t)][d].said
    BY <1>1, <2>1
  <2> QED BY <2>1, <2>6, <2>7, <2>8, FlowKept
<1> QED BY <1>7, <1>8 DEF Flowed

\* A message that has been received is the last of those that are here.
Moves(w, r, a, e, u) ==
  (w \o (r \o (a \o <<>>))) \o (e \o u) = (w \o (r \o (a \o e))) \o u

\* It is the same sequence of messages.
LEMMA Moved ==
  ASSUME NEW w \in Seq(Msgs), NEW r \in Seq(Msgs), NEW a \in Seq(Msgs),
         NEW e \in Seq(Msgs), NEW u \in Seq(Msgs)
  PROVE  Moves(w, r, a, e, u)
<1>1. a \o <<>> = a
  BY ConcatEmptySeq
<1>2. PICK x \in Seq(Msgs) : x = r \o a
  BY Joins
<1>3. PICK h \in Seq(Msgs) : h = w \o x
  BY Joins
<1>4. Regrouped(h, e, u) /\ Regrouped(w, x, e) /\ Regrouped(r, a, e)
  BY Assoc
<1> QED BY <1>1, <1>2, <1>3, <1>4 DEF Moves, Regrouped

\* The first message sent to s is taken, and carries nothing of the others.
LEMMA TakenWay ==
  ASSUME Typed, NEW s \in Sides, KcpRecv(s), NEW d \in Conns,
         NEW m \in Msgs, m = Head(wire[Other(s)]),
         Here(s, d)' = Here(s, d), ~Carries(m, d)
  PROVE  Picks(Way(s, d)', Way(s, d), d)
<1>1. PICK W \in Seq(Msgs), h \in Seq(Msgs) : W = Sent(Other(s)) /\ h = Here(s, d)
  BY OtherSide, SentTyped, WayTyped
<1>2. W # <<>> /\ Head(W) = m /\ Sent(Other(s))' = Tail(W)
  BY <1>1, SentKcpRecv
<1>3. W = <<m>> \o Tail(W) /\ Tail(W) \in Seq(Msgs)
  <2>1. Tail(W) \in Seq(Msgs)
    BY <1>2, HeadTailProperties
  <2>2. W = <<Head(W)>> \o Tail(W)
    BY <1>2, HeadConcat
  <2> QED BY <1>2, <2>1, <2>2
<1>4. PICK u \in Seq(Msgs) : u = Tail(W)
  BY <1>3
<1>5. Picks(h \o u, h \o (<<m>> \o u), d)
  BY PicksCut
<1>6. Way(s, d)' = h \o u /\ Way(s, d) = h \o (<<m>> \o u)
  BY <1>1, <1>2, <1>3, <1>4 DEF Way
<1> QED BY <1>5, <1>6

\* The first message sent to s is for d, and RunC is to push it.
LEMMA PushedWay ==
  ASSUME Typed, NEW s \in Sides, KcpRecv(s), NEW d \in Conns,
         NEW m \in Msgs, m = Head(wire[Other(s)]),
         UNCHANGED conn, loop' = [loop EXCEPT ![s] = Pushing(d, m)]
  PROVE  Way(s, d)' = Way(s, d)
<1>1. PICK W \in Seq(Msgs) : W = Sent(Other(s))
  BY OtherSide, SentTyped
<1>2. W # <<>> /\ Head(W) = m /\ Sent(Other(s))' = Tail(W)
  BY <1>1, SentKcpRecv
<1>3. W = <<m>> \o Tail(W) /\ Tail(W) \in Seq(Msgs)
  <2>1. Tail(W) \in Seq(Msgs)
    BY <1>2, HeadTailProperties
  <2>2. W = <<Head(W)>> \o Tail(W)
    BY <1>2, HeadConcat
  <2> QED BY <1>2, <2>1, <2>2
<1>4. PICK u \in Seq(Msgs), e \in Seq(Msgs) : u = Tail(W) /\ e = <<m>>
  <2>1. <<m>> \in Seq(Msgs)
    OBVIOUS
  <2> QED BY <1>3, <2>1
<1>5. PICK w \in Seq(Msgs), r \in Seq(Msgs), a \in Seq(Msgs) :
        w = conn[s][d].w /\ r = conn[s][d].rlist /\ a = conn[s][d].in
  BY QueuesTyped
<1>6. Pushed(s, d) = <<>> /\ Pushed(s, d)' = e
  <2>1. loop[s] = Select
    BY DEF KcpRecv
  <2>2. loop'[s] = Pushing(d, m)
    BY DEF Typed, LoopsOK
  <2>3. loop'[s].msg = m
    BY <2>2 DEF Pushing
  <2> QED BY <1>4, <2>1, <2>2, <2>3, Stands DEF Pushed
<1>7. Way(s, d) = (w \o (r \o (a \o <<>>))) \o (e \o u)
  <2>1. Here(s, d) = w \o (r \o (a \o <<>>))
    BY <1>5, <1>6 DEF Here
  <2>2. Sent(Other(s)) = e \o u
    BY <1>1, <1>3, <1>4
  <2> QED BY <2>1, <2>2 DEF Way
<1>8. Way(s, d)' = (w \o (r \o (a \o e))) \o u
  <2>1. Here(s, d)' = w \o (r \o (a \o e))
    BY <1>5, <1>6 DEF Here
  <2>2. Sent(Other(s))' = u
    BY <1>2, <1>4
  <2> QED BY <2>1, <2>2 DEF Way
<1>9. Moves(w, r, a, e, u)
  BY Moved
<1> QED BY <1>7, <1>8, <1>9 DEF Moves

\* Neither data nor a MsgTypeFin is received for a connection that still wants
\* it, unless that connection is found under its port.
LEMMA NoneDropped ==
  ASSUME Typed, Opened, Controlled, Looping, Flowed, NEW s \in Sides, KcpRecv(s),
         NEW m \in Msgs, m = Head(wire[Other(s)]), m.type \in {"data", "fin"},
         m.port \in Ports => portMap[s][m.port] = NoConn,
         NEW c \in Conns, m.conn = c, conn[s][c].run # "done", conn[s][c].writer \in {"off", "write"}
  PROVE  FALSE
<1> DEFINE o == Other(s)
<1>0. o \in Sides /\ o # s /\ Other(o) = s
  BY DEF Other, Sides
<1>1. m.port = Port[c] /\ Port[c] \in Ports
  <2>1. Opens(o, m)
    BY FirstSent
  <2> QED BY <2>1 DEF Opens, Ports
<1>2. ~Routed(s, c)
  BY <1>1, TunnelAssumption DEF Routed
<1>3. conn[o][c].sent > 0 \/ conn[o][c].reader # "off" \/ conn[s][c].sent > 0
  <2>1. PICK W \in Seq(Msgs), h \in Seq(Msgs), Z \in Seq(Msgs) :
          W = Sent(o) /\ h = Here(s, c) /\ Z = Way(s, c)
    BY <1>0, SentTyped, WayTyped
  <2>2. W # <<>> /\ Head(W) = m
    BY <2>1, SentKcpRecv
  <2>3. 1 \in 1..Len(W) /\ W[1] = m
    BY <2>2, HeadTailProperties
  <2>4. Z = h \o W
    BY <2>1 DEF Way
  <2>5. PICK j \in 1..Len(Z) : Z[j] = m
    <3>1. Len(h) + 1 \in 1..Len(Z) /\ Z[Len(h) + 1] = W[1]
      <4>1. Len(Z) = Len(h) + Len(W) /\ Len(h) \in Nat /\ Len(W) \in Nat
        BY <2>4, Join
      <4>2. (h \o W)[Len(h) + 1] = W[1]
        BY <2>3, ConcatRight
      <4> QED BY <2>3, <2>4, <4>1, <4>2
    <3> QED BY <2>3, <3>1
  <2>6. PICK b \in Nat, t \in Nat : b = Len(conn[s][c].out) /\ t = conn[o][c].sent
    BY <1>0, Counts
  <2>7. InPlace(Z, c, b, t, conn[o][c].said, j)
    <3>1. Orderly(Z, c, b, t, conn[o][c].said)
      BY <2>1, <2>6 DEF Flowed, Flow
    <3> QED BY <2>5, <3>1 DEF Orderly
  <2>8. CASE m.type = "data"
    <3>1. PICK k \in Nat : k = m.n
      BY DEF Msgs
    <3>2. k > b /\ k <= t
      BY <2>5, <2>7, <2>8, <3>1 DEF InPlace
    <3>3. t > 0
      BY <3>2
    <3> QED BY <2>6, <3>3
  <2>9. CASE m.type = "fin"
    <3>1. conn[o][c].said # None
      BY <2>5, <2>7, <2>9 DEF InPlace
    <3>2. LoopOK(conn[o][c], conn[s][c])
      BY <1>0 DEF Looping
    <3> QED BY <3>1, <3>2 DEF LoopOK
  <2> QED BY <2>8, <2>9
<1>4. conn[s][c].run \in {"syn", "loop"}
  <2>1. Opening(c)
    BY DEF Opened
  <2>2. CASE s = "proxy"
    <3>1. o = "requestor"
      BY <2>2 DEF Other
    <3> QED BY <1>3, <2>1, <2>2, <3>1 DEF Opening
  <2>3. CASE s = "requestor"
    <3>1. o = "proxy"
      BY <2>3 DEF Other
    <3> QED BY <1>3, <2>1, <2>3, <3>1 DEF Opening
  <2> QED BY <2>2, <2>3 DEF Sides
<1> QED
  BY <1>2, <1>4 DEF Controlled, Control, Started

\* KcpRecv keeps Flowed: what it takes from ikcp goes to the connection it
\* is of, or is of one that is over.
LEMMA KcpRecvFlow ==
  ASSUME Typed, Typed', Opened, Controlled, Looping, Flowed, NEW s \in Sides, KcpRecv(s)
  PROVE  Flowed'
<1> DEFINE o == Other(s)
<1>0. o \in Sides /\ o # s /\ \A t \in Sides : t # s => t = o /\ Other(t) = s
  BY DEF Other, Sides
<1>1. PICK m \in Msgs : m = Head(wire[o])
  BY FirstSent
<1>2. /\ m.conn \in Conns /\ loop[s] = Select /\ Opens(o, m)
      /\ Sent(s)' = Sent(s) /\ Sent(o)' = Tail(Sent(o))
  BY <1>1, KcpRecvFacts, FirstSent, SentKcpRecv
<1> DEFINE ToPush == \E d \in Conns : /\ m.port \in Ports /\ portMap[s][m.port] = d
                                       /\ loop' = [loop EXCEPT ![s] = Pushing(d, m)]
                                       /\ UNCHANGED conn
           ToDial == /\ m.type = "syn" /\ UNCHANGED loop
                     /\ Elsewhere(s, m.conn)
                     /\ SameQueues(conn[s][m.conn], conn'[s][m.conn])
                     /\ SamePipe(conn[s][m.conn], conn'[s][m.conn])
                     /\ SameLoops(conn[s][m.conn], conn'[s][m.conn])
           ToDrop == /\ m.port \in Ports => portMap[s][m.port] = NoConn
                     /\ UNCHANGED <<conn, loop>>
<1>3. ToPush \/ ToDial \/ ToDrop
  BY <1>1, KcpRecvFacts
<1> DEFINE Same(t, d) == LET p == conn[t][d]
                             q == conn'[t][d]
                         IN /\ SameQueues(p, q) /\ q.out = p.out /\ q.told = p.told
                            /\ q.sent = p.sent /\ q.said = p.said /\ q.writer = p.writer
<1>4. \A t \in Sides, d \in Conns : Same(t, d)
  <2>1. CASE UNCHANGED conn
    BY <2>1 DEF SameQueues
  <2>2. CASE ToDial
    <3>1. ASSUME NEW t \in Sides, NEW d \in Conns PROVE Same(t, d)
      <4>1. CASE t = s /\ d = m.conn
        BY <2>2, <4>1 DEF SamePipe, SameLoops
      <4>2. CASE t # s \/ d # m.conn
        <5>1. conn'[t][d] = conn[t][d]
          BY <2>2, <4>2 DEF Elsewhere
        <5> QED BY <5>1 DEF SameQueues
      <4> QED BY <4>1, <4>2
    <3> QED BY <3>1
  <2> QED BY <1>3, <2>1, <2>2
<1>5. /\ loop'[o] = loop[o] /\ loop[s] \notin Ended
      /\ \A t \in Sides : loop[t] \in Ended => loop'[t] \in Ended
  <2>1. loop'[o] = loop[o]
    BY <1>0, <1>3 DEF Typed, LoopsOK
  <2> QED BY <1>0, <1>2, <2>1, Stands
<1>6. ASSUME NEW d \in Conns PROVE Flow(o, d)'
  <2>1. Pushed(o, d)' = Pushed(o, d)
    BY <1>5 DEF Pushed
  <2>2. Here(o, d)' = Here(o, d)
    BY <1>0, <1>4, <2>1, HereSame
  <2>3. Other(o) = s /\ Way(o, d)' = Way(o, d)
    BY <1>0, <1>2, <2>2 DEF Way
  <2>4. conn'[o][d].run = conn[o][d].run
    BY <1>0, <1>3 DEF Elsewhere
  <2>5. conn'[o][d].w = conn[o][d].w
    BY <1>0, <1>4 DEF SameQueues
  <2> QED BY <1>0, <1>4, <1>5, <2>3, <2>4, <2>5, FlowKept DEF Flowed
<1>7. ASSUME NEW d \in Conns PROVE Flow(s, d)'
  <2>1. conn'[s][d].w = conn[s][d].w
    BY <1>4 DEF SameQueues
  <2>2. SUFFICES ASSUME conn'[s][d].run # "done", conn'[s][d].writer \in {"off", "write"}
                 PROVE  /\ conn[s][d].run # "done"
                        /\ Way(s, d)' = Way(s, d) \/ Picks(Way(s, d)', Way(s, d), d)
    BY <1>0, <1>4, <1>5, <2>1, FlowKept DEF Flowed
  <2>3. conn[s][d].writer \in {"off", "write"}
    BY <1>4, <2>2
  <2>4. conn[s][d].run # "done"
    <3>1. CASE UNCHANGED conn
      BY <2>2, <3>1
    <3>2. CASE ToDial /\ d # m.conn
      BY <2>2, <3>2 DEF Elsewhere
    <3>3. CASE ToDial /\ d = m.conn
      <4>1. s = "proxy" /\ conn[s][d].run = "none"
        BY <1>0, <1>2, <3>3 DEF Opens, Sides
      <4> QED BY <4>1
    <3> QED BY <1>3, <3>1, <3>2, <3>3
  <2>5. CASE ToPush
    <3>1. PICK e \in Conns : /\ m.port \in Ports /\ portMap[s][m.port] = e
                             /\ loop' = [loop EXCEPT ![s] = Pushing(e, m)]
                             /\ UNCHANGED conn
      BY <2>5
    <3>2. CASE d = e
      BY <1>1, <2>4, <3>1, <3>2, PushedWay
    <3>3. CASE d # e
      <4>1. m.conn = e
        <5>1. PICK a \in Conns : m.port = Port[a]
          BY <3>1 DEF Ports
        <5>2. a = e
          BY <3>1, <5>1, TunnelAssumption DEF Opened, PortsOwn
        <5> QED BY <1>2, <5>1, <5>2, TunnelAssumption DEF Opens
      <4>2. Pushed(s, d) = <<>> /\ Pushed(s, d)' = <<>>
        <5>1. loop'[s] = Pushing(e, m)
          BY <3>1 DEF Typed, LoopsOK
        <5> QED BY <1>2, <3>3, <5>1, Stands DEF Pushed
      <4>3. Here(s, d)' = Here(s, d)
        BY <1>4, <4>2, HereSame
      <4>4. ~Carries(m, d)
        BY <3>3, <4>1 DEF Carries
      <4> QED BY <1>1, <2>4, <4>3, <4>4, TakenWay
    <3> QED BY <3>2, <3>3
  <2>6. ASSUME UNCHANGED loop, ~Carries(m, d)
        PROVE  Picks(Way(s, d)', Way(s, d), d)
    <3>1. Pushed(s, d)' = Pushed(s, d)
      BY <2>6 DEF Pushed
    <3>2. Here(s, d)' = Here(s, d)
      BY <1>4, <3>1, HereSame
    <3> QED BY <1>1, <2>6, <3>2, TakenWay
  <2>7. CASE ToDial
    <3>1. ~Carries(m, d)
      BY <2>7 DEF Carries
    <3> QED BY <2>4, <2>6, <2>7, <3>1
  <2>8. CASE ToDrop
    <3>1. ~Carries(m, d)
      BY <1>1, <2>3, <2>4, <2>8, NoneDropped DEF Carries
    <3> QED BY <2>4, <2>6, <2>8, <3>1
  <2> QED BY <1>3, <2>5, <2>7, <2>8
<1> QED
  <2>1. ASSUME NEW t \in Sides, NEW d \in Conns PROVE Flow(t, d)'
    BY <1>0, <1>6, <1>7
  <2> QED BY <2>1 DEF Flowed

-----------------------------------------------------------------------------
(***************************************************************************)
(* The loops, and the theorems.                                            *)
(***************************************************************************)

\* One connection has changed.
LEMMA OneLoops ==
  ASSUME Typed, Looping, NEW s \in Sides, NEW c \in Conns, Elsewhere(s, c),
         LoopOK(conn'[s][c], conn[Other(s)][c]),
         conn'[s][c].sent \in {conn[s][c].sent, conn[s][c].sent + 1}
  PROVE  Looping'
<1>1. Other(s) # s /\ \A t \in Sides : Other(t) \in Sides /\ (t = s \/ t = Other(s))
  BY DEF Other, Sides
<1>2. conn[s][c].sent > 0 => conn'[s][c].sent > 0
  <2>1. PICK n \in Nat : n = conn[s][c].sent
    BY Counts
  <2> QED BY <2>1
<1>3. ASSUME NEW t \in Sides, NEW d \in Conns PROVE LoopOK(conn'[t][d], conn'[Other(t)][d])
  <2>1. CASE t = s /\ d = c
    <3>1. conn'[Other(s)][c] = conn[Other(s)][c]
      BY <1>1 DEF Elsewhere
    <3> QED BY <2>1, <3>1
  <2>2. CASE Other(t) = s /\ d = c
    <3>1. conn'[t][c] = conn[t][c] /\ LoopOK(conn[t][c], conn[s][c])
      BY <1>1, <2>2 DEF Elsewhere, Looping
    <3> QED BY <1>2, <2>2, <3>1 DEF LoopOK
  <2>3. CASE ~(t = s /\ d = c) /\ ~(Other(t) = s /\ d = c)
    <3>1. conn'[t][d] = conn[t][d] /\ conn'[Other(t)][d] = conn[Other(t)][d]
      BY <1>1, <2>3 DEF Elsewhere
    <3> QED BY <3>1 DEF Looping
  <2> QED BY <2>1, <2>2, <2>3
<1>4. \A t \in Sides, d \in Conns : LoopOK(conn[t][d], conn[Other(t)][d])'
  BY <1>3 DEF LoopOK
<1> QED BY <1>4 DEF Looping

\* The connection keeps its loops, and its own end as it said it.
LEMMA LoopKept ==
  ASSUME NEW p, NEW q, NEW o, LoopOK(p, o), SameLoops(p, q), q.said = p.said,
         q.run \in Fresh => p.run \in Fresh
  PROVE  LoopOK(q, o)
  BY DEF LoopOK, SameLoops

\* Steps that leave the loops of all connections alone.
LEMMA LoopsLeft ==
  ASSUME Looping,
         \A t \in Sides, d \in Conns :
           LET p == conn[t][d]
               q == conn'[t][d]
           IN SameLoops(p, q) /\ SamePipe(p, q) /\ (q.run \in Fresh => p.run \in Fresh)
  PROVE  Looping'
<1>1. ASSUME NEW t \in Sides, NEW d \in Conns PROVE LoopOK(conn'[t][d], conn'[Other(t)][d])
  <2>1. LoopOK(conn[t][d], conn[Other(t)][d]) /\ Other(t) \in Sides
    BY OtherSide DEF Looping
  <2>2. conn'[Other(t)][d].sent = conn[Other(t)][d].sent
    BY <2>1 DEF SamePipe
  <2>3. LoopOK(conn'[t][d], conn[Other(t)][d])
    BY <2>1, LoopKept DEF SamePipe
  <2> QED BY <2>2, <2>3 DEF LoopOK
<1>2. \A t \in Sides, d \in Conns : LoopOK(conn[t][d], conn[Other(t)][d])'
  BY <1>1 DEF LoopOK
<1> QED BY <1>2 DEF Looping

\* The steps of Run, of dials, promises, AddConn and RemoveConn keep Looping.
LEMMA RunLooping ==
  ASSUME Typed, Opened, Looping, NEW s \in Sides, NEW c \in Conns,
         \/ DialOk(s, c) \/ (s = "requestor" /\ Accept(c)) \/ DialFails(s, c)
         \/ AddConn(s, c) \/ RemoveConn(s, c)
         \/ PromiseEnds(s, c) \/ (Answered(s) /\ loop[s].conn = c)
         \/ StartLoops(s, c) \/ SendSyn(s, c) \/ RunFor(s, c) \/ RunTick(s, c)
  PROVE  Looping'
<1> DEFINE p == conn[s][c]
           q == conn'[s][c]
           o == conn[Other(s)][c]
           Goal == Elsewhere(s, c) /\ q.sent = p.sent /\ LoopOK(q, o)
<1>0. SUFFICES Goal
  BY OneLoops
<1>1. LoopOK(p, o)
  BY DEF Looping
<1>a. ASSUME Elsewhere(s, c), SamePipe(p, q), SameLoops(p, q), p.run \in Fresh \/ q.run \notin Fresh
      PROVE  Goal
  BY <1>1, <1>a, LoopKept DEF SamePipe
<1>2. CASE DialOk(s, c) \/ (s = "requestor" /\ Accept(c))
  <2>1. Elsewhere(s, c) /\ SamePipe(p, q) /\ SameLoops(p, q) /\ p.run \in Fresh
    BY <1>2, OfferFacts DEF Fresh
  <2> QED BY <1>a, <2>1
<1>3. CASE DialFails(s, c)
  <2>1. Elsewhere(s, c) /\ SamePipe(p, q) /\ SameLoops(p, q) /\ p.run \in Fresh
    BY <1>3, DialFailsFacts DEF Fresh
  <2> QED BY <1>a, <2>1
<1>4. CASE AddConn(s, c)
  <2>1. Elsewhere(s, c) /\ SamePipe(p, q) /\ SameLoops(p, q) /\ p.add = "waiting"
    BY <1>4, AddConnFacts
  <2>2. p.run \in Fresh
    BY <2>1 DEF Opened, AddWaits, Fresh
  <2> QED BY <1>a, <2>1, <2>2
<1>5. CASE RemoveConn(s, c)
  <2>1. Elsewhere(s, c) /\ SamePipe(p, q) /\ SameLoops(p, q) /\ q.run = p.run
    BY <1>5, RemoveConnFacts
  <2> QED BY <1>a, <2>1
<1>6. CASE PromiseEnds(s, c) \/ (Answered(s) /\ loop[s].conn = c)
  <2>1. Elsewhere(s, c) /\ SamePipe(p, q) /\ SameLoops(p, q) /\ q.run = p.run
    BY <1>6, PromiseFacts
  <2> QED BY <1>a, <2>1
<1>7. CASE StartLoops(s, c)
  <2>1. /\ Elsewhere(s, c) /\ SamePipe(p, q) /\ p.run = "init" /\ q.run = "syn"
        /\ q.writer = "write"
    BY <1>7, StartLoopsFacts
  <2>2. p.reader = "off"
    BY <1>1, <2>1 DEF LoopOK, Fresh
  <2> QED BY <1>1, <2>1, <2>2 DEF LoopOK, Fresh, SamePipe
<1>8. CASE SendSyn(s, c)
  <2>1. /\ Elsewhere(s, c) /\ SamePipe(p, q) /\ SameLoops(p, q)
        /\ q.run \in {"loop", "done"}
    BY <1>8, SendSynFacts
  <2>2. q.run \notin Fresh
    BY <2>1 DEF Fresh
  <2> QED BY <1>a, <2>1, <2>2
<1>9. CASE RunFor(s, c)
  <2>1. /\ Elsewhere(s, c) /\ q.writer = p.writer /\ SamePipe(p, q)
        /\ q.run \in {"loop", "done"} /\ (q.reader = p.reader \/ q.reader = "start")
    BY <1>9, RunForFacts DEF SameLoops
  <2> QED BY <1>1, <2>1 DEF LoopOK, Fresh, SamePipe
<1>10. CASE RunTick(s, c)
  <2>1. Elsewhere(s, c) /\ SamePipe(p, q) /\ SameLoops(p, q) /\ q.run = p.run
    BY <1>10, RunTickFacts DEF SameLife
  <2> QED BY <1>a, <2>1
<1> QED
  BY <1>2, <1>3, <1>4, <1>5, <1>6, <1>7, <1>8, <1>9, <1>10

\* A writer fails on data the other side sent.
LEMMA FailsOnData ==
  ASSUME Typed, Flowed, NEW s \in Sides, NEW c \in Conns,
         conn[s][c].writer = "write", conn[s][c].w # <<>>,
         Head(conn[s][c].w).conn = c, Head(conn[s][c].w).type = "data"
  PROVE  conn[Other(s)][c].sent > 0
<1>1. PICK W \in Seq(Msgs), b \in Nat, t \in Nat, e \in Nat \union {None} :
        /\ W = conn[s][c].w /\ b = Len(conn[s][c].out)
        /\ t = conn[Other(s)][c].sent /\ e = conn[Other(s)][c].said
  BY OtherSide, Counts
<1>2. Orderly(W, c, b, t, e)
  BY <1>1 DEF Flowed, Flow
<1>3. b + 1 <= t
  BY <1>1, <1>2, HeadData
<1>4. t > 0
  BY <1>3
<1> QED BY <1>1, <1>4

\* The steps of the two loops keep Looping.
LEMMA SocketLooping ==
  ASSUME Typed, Opened, Looping, Flowed, NEW s \in Sides, NEW c \in Conns,
         \/ SetupHdr(s, c) \/ Read(s, c) \/ PushData(s, c) \/ PushFin(s, c)
         \/ Write(s, c) \/ WriterFin(s, c)
  PROVE  Looping'
<1> DEFINE p == conn[s][c]
           q == conn'[s][c]
           o == conn[Other(s)][c]
           Goal == Elsewhere(s, c) /\ q.sent \in {p.sent, p.sent + 1} /\ LoopOK(q, o)
<1>0. SUFFICES Goal
  BY OneLoops
<1>1. /\ p.run \in Fresh => p.writer = "off" /\ p.reader = "off"
      /\ p.writer = "fin" => o.sent > 0
      /\ p.said # None => p.reader # "off" \/ o.sent > 0
  BY DEF Looping, LoopOK
<1>2. CASE SetupHdr(s, c)
  <2>1. /\ Elsewhere(s, c) /\ SamePipe(p, q) /\ q.writer = p.writer /\ q.run = p.run
        /\ p.reader # "off" /\ q.reader # "off"
    BY <1>2, SetupHdrFacts DEF SameLife
  <2> QED BY <1>1, <2>1 DEF LoopOK, SamePipe
<1>3. CASE Read(s, c)
  <2>1. /\ Elsewhere(s, c) /\ SamePipe(p, q) /\ q.writer = p.writer /\ q.run = p.run
        /\ p.reader # "off" /\ q.reader # "off"
    BY <1>3, ReadFacts DEF SameLife
  <2> QED BY <1>1, <2>1 DEF LoopOK, SamePipe
<1>4. CASE PushData(s, c)
  <2>1. /\ Elsewhere(s, c) /\ q.writer = p.writer /\ q.run = p.run
        /\ p.reader = "data" /\ q.reader \in {"start", "end"}
        /\ q.sent \in {p.sent, p.sent + 1}
    BY <1>4, PushDataFacts DEF SameLife, SendsFin, SamePipe
  <2> QED BY <1>1, <2>1 DEF LoopOK
<1>5. CASE PushFin(s, c)
  <2>1. /\ Elsewhere(s, c) /\ q.writer = p.writer /\ q.run = p.run
        /\ p.reader = "fin" /\ q.reader = "end" /\ q.sent = p.sent
    BY <1>5, PushFinFacts
  <2> QED BY <1>1, <2>1 DEF LoopOK
<1>6. CASE Write(s, c)
  <2>1. /\ Elsewhere(s, c) /\ q.run = p.run /\ p.writer = "write" /\ q.reader = p.reader
        /\ q.said = p.said /\ q.sent = p.sent
        /\ q.writer = "fin" => p.w # <<>> /\ Head(p.w).type = "data"
    BY <1>6, WriteFacts
  <2>2. p.w # <<>> => Head(p.w).conn = c
    BY FoundFirst
  <2>3. q.writer = "fin" => o.sent > 0
    BY <2>1, <2>2, FailsOnData
  <2> QED BY <1>1, <2>1, <2>3 DEF LoopOK
<1>7. CASE WriterFin(s, c)
  <2>1. /\ Elsewhere(s, c) /\ q.run = p.run /\ p.writer = "fin" /\ q.writer = "end"
        /\ q.reader = p.reader /\ q.sent = p.sent
    BY <1>7, WriterFinFacts
  <2> QED BY <1>1, <2>1 DEF LoopOK
<1> QED
  BY <1>2, <1>3, <1>4, <1>5, <1>6, <1>7

\* The steps of RunC keep Looping.
LEMMA RunCLooping ==
  ASSUME Typed, Opened, Looping, NEW s \in Sides,
         KcpSend(s) \/ Quit(s) \/ DoDying(s) \/ CloseP2p(s) \/ PushIn(s) \/ KcpRecv(s)
  PROVE  Looping'
<1>1. CASE KcpSend(s) \/ Quit(s)
  BY <1>1 DEF KcpSend, Quit, Looping, LoopOK
<1>2. CASE DoDying(s)
  BY <1>2, DoDyingFacts, LoopsLeft
<1>3. CASE CloseP2p(s)
  <2>1. \A d \in Conns : /\ SameLoops(conn[s][d], conn'[s][d])
                         /\ SamePipe(conn[s][d], conn'[s][d])
                         /\ conn'[s][d].run = conn[s][d].run
    BY <1>3, CloseP2pFacts
  <2>2. \A t \in Sides, d \in Conns : t # s => conn'[t][d] = conn[t][d]
    BY <1>3, CloseP2pFacts, Zenon
  <2>3. ASSUME NEW t \in Sides, NEW d \in Conns
        PROVE  /\ SameLoops(conn[t][d], conn'[t][d]) /\ SamePipe(conn[t][d], conn'[t][d])
               /\ conn'[t][d].run = conn[t][d].run
    BY <2>1, <2>2 DEF SameLoops, SamePipe
  <2> QED BY <2>3, LoopsLeft
<1>4. CASE PushIn(s)
  <2>1. PICK c \in Conns : c = loop[s].conn
    BY <1>4, PushInFacts
  <2>2. /\ Elsewhere(s, c) /\ SameLoops(conn[s][c], conn'[s][c])
        /\ SamePipe(conn[s][c], conn'[s][c]) /\ conn'[s][c].run = conn[s][c].run
    BY <1>4, <2>1, PushInFacts DEF SameLife
  <2>3. LoopOK(conn'[s][c], conn[Other(s)][c])
    BY <2>2, LoopKept DEF Looping, SamePipe
  <2> QED BY <2>2, <2>3, OneLoops DEF SamePipe
<1>5. CASE KcpRecv(s)
  <2>1. PICK m \in Msgs : m = Head(wire[Other(s)])
    BY <1>5, FirstSent
  <2>2. m.conn \in Conns /\ Opens(Other(s), m)
    BY <1>5, <2>1, KcpRecvFacts, FirstSent
  <2>3. CASE UNCHANGED conn
    BY <2>3 DEF Looping, LoopOK
  <2>4. CASE /\ m.type = "syn" /\ Elsewhere(s, m.conn)
             /\ SameLoops(conn[s][m.conn], conn'[s][m.conn])
             /\ SamePipe(conn[s][m.conn], conn'[s][m.conn])
    <3>1. PICK c \in Conns : c = m.conn
      BY <2>2
    <3>2. s = "proxy" /\ conn[s][c].run = "none"
      BY <2>2, <2>4, <3>1 DEF Opens, Other, Sides
    <3>3. LoopOK(conn'[s][c], conn[Other(s)][c])
      <4>1. LoopOK(conn[s][c], conn[Other(s)][c]) /\ conn[s][c].run \in Fresh
        BY <3>2 DEF Looping, Fresh
      <4> QED BY <2>4, <3>1, <4>1, LoopKept DEF SamePipe
    <3> QED BY <2>4, <3>1, <3>3, OneLoops DEF SamePipe
  <2> QED BY <1>5, <2>1, <2>3, <2>4, KcpRecvFacts
<1> QED BY <1>1, <1>2, <1>3, <1>4, <1>5

\* Looping and Flowed are true at first.
LEMMA InitFlow == ASSUME Init PROVE Looping /\ Flowed
<1>1. /\ conn = [s \in Sides |-> [c \in Conns |-> NewP2pConn]]
      /\ wMsg = [s \in Sides |-> <<>>] /\ wire = [s \in Sides |-> <<>>]
      /\ loop = [s \in Sides |-> Select]
  BY DEF Init
<1>2. \A s \in Sides, c \in Conns :
        LET p == conn[s][c]
        IN /\ p.run = "none" /\ p.reader = "off" /\ p.writer = "off" /\ p.sent = 0
           /\ p.out = <<>> /\ p.told = None /\ p.said = None
           /\ p.w = <<>> /\ p.rlist = <<>> /\ p.in = <<>>
  BY <1>1 DEF NewP2pConn
<1>3. Looping
  BY <1>2 DEF Looping, LoopOK
<1>4. ASSUME NEW s \in Sides, NEW c \in Conns PROVE Flow(s, c)
  <2>1. Other(s) \in Sides
    BY OtherSide
  <2>2. <<>> \o <<>> = <<>>
    OBVIOUS
  <2>3. Pushed(s, c) = <<>>
    BY <1>1, Stands DEF Pushed
  <2>4. Sent(Other(s)) = <<>>
    BY <1>1, <2>1, <2>2 DEF Sent
  <2>5. Way(s, c) = <<>>
    BY <1>2, <2>2, <2>3, <2>4 DEF Way, Here
  <2>6. /\ conn[Other(s)][c].sent = 0 /\ conn[Other(s)][c].said = None
        /\ Len(conn[s][c].out) = 0
    BY <1>2, <2>1
  <2>7. Full(<<>>, c, 0, 0) /\ Marked(<<>>, c, None)
    BY DEF Full, Marked
  <2>8. conn[s][c].out = [i \in 1..0 |-> <<c, i>>]
    BY <1>2
  <2> QED BY <1>2, <2>5, <2>6, <2>7, <2>8, OrderlyEmpty DEF Flow
<1> QED BY <1>3, <1>4 DEF Flowed

\* Every step keeps Looping.
LEMMA StepLooping ==
  ASSUME Typed, Opened, Looping, Flowed, [Next]_vars PROVE Looping'
<1>1. CASE UNCHANGED vars
  BY <1>1 DEF vars, Looping, LoopOK
<1>2. ASSUME NEW c \in Conns, Accept(c) PROVE Looping'
  BY <1>2, RunLooping DEF Sides
<1>3. ASSUME NEW s \in Sides, RunC(s) \/ Quit(s) \/ CloseP2p(s) PROVE Looping'
  <2>1. ASSUME NEW c \in Conns, AddConn(s, c) \/ RemoveConn(s, c) PROVE Looping'
    BY <2>1, RunLooping
  <2>2. CASE Answered(s)
    <3>1. loop[s].conn \in Conns
      BY <2>2, StandsAt DEF Answered
    <3> QED BY <2>2, <3>1, RunLooping
  <2>3. CASE KcpSend(s) \/ KcpRecv(s) \/ PushIn(s) \/ DoDying(s) \/ CloseP2p(s) \/ Quit(s)
    BY <2>3, RunCLooping
  <2> QED BY <1>3, <2>1, <2>2, <2>3 DEF RunC
<1>4. ASSUME NEW s \in Sides, NEW c \in Conns,
             \/ RunOf(s, c) \/ Read(s, c) \/ Reader(s, c)
             \/ Writer(s, c) \/ Dials(s, c) \/ PromiseEnds(s, c)
      PROVE  Looping'
  <2>1. CASE Dials(s, c) \/ PromiseEnds(s, c) \/ RunOf(s, c)
    BY <2>1, RunLooping DEF Dials, RunOf
  <2>2. CASE Read(s, c) \/ Reader(s, c) \/ Writer(s, c)
    BY <2>2, SocketLooping DEF Reader, Writer
  <2> QED BY <1>4, <2>1, <2>2
<1> QED
  BY <1>1, <1>2, <1>3, <1>4 DEF Next

\* Every step keeps Flowed.
LEMMA StepFlow ==
  ASSUME Typed, Typed', Opened, Controlled, Looping, Flowed, [Next]_vars PROVE Flowed'
<1>1. CASE UNCHANGED vars
  BY <1>1, QuietFlows DEF Sides
<1>2. ASSUME NEW c \in Conns, Accept(c) PROVE Flowed'
  BY <1>2, OfferFlow DEF Sides
<1>3. ASSUME NEW s \in Sides, RunC(s) \/ Quit(s) \/ CloseP2p(s) PROVE Flowed'
  <2>1. ASSUME NEW c \in Conns, AddConn(s, c) \/ RemoveConn(s, c) PROVE Flowed'
    BY <2>1, AddConnFlow, RemoveConnFlow
  <2>2. CASE Answered(s)
    <3>1. loop[s].conn \in Conns
      BY <2>2, StandsAt DEF Answered
    <3> QED BY <2>2, <3>1, PromiseFlow
  <2>3. CASE KcpRecv(s) \/ PushIn(s) \/ CloseP2p(s)
    BY <2>3, KcpRecvFlow, PushInFlow, CloseP2pFlow
  <2>4. CASE KcpSend(s) \/ Quit(s) \/ DoDying(s)
    BY <2>4, QuietFlows
  <2> QED BY <1>3, <2>1, <2>2, <2>3, <2>4 DEF RunC
<1>4. ASSUME NEW s \in Sides, NEW c \in Conns,
             \/ RunOf(s, c) \/ Read(s, c) \/ Reader(s, c)
             \/ Writer(s, c) \/ Dials(s, c) \/ PromiseEnds(s, c)
      PROVE  Flowed'
  <2>1. CASE RunOf(s, c)
    BY <2>1, StartLoopsFlow, SendSynFlow, RunForFlow, RunTickFlow DEF RunOf
  <2>2. CASE Read(s, c) \/ Reader(s, c) \/ WriterFin(s, c)
    BY <2>2, ReadFlow, PushFlow DEF Reader
  <2>3. CASE Write(s, c)
    BY <2>3, WriteFlow
  <2>4. CASE Dials(s, c) \/ PromiseEnds(s, c)
    BY <2>4, OfferFlow, DialFailsFlow, PromiseFlow DEF Dials
  <2> QED BY <1>4, <2>1, <2>2, <2>3, <2>4 DEF Writer
<1> QED
  BY <1>1, <1>2, <1>3, <1>4 DEF Next

\* The inductive invariant of the tunnel.
IInv == Typed /\ Opened /\ Controlled /\ Looping /\ Flowed

\* It holds in every state.
LEMMA FlowHolds == Spec => []IInv
<1>1. Init => IInv
  BY InitTyped, InitOpened, InitControl, InitFlow DEF IInv
<1>2. IInv /\ [Next]_vars => IInv'
  <2>1. ASSUME IInv, [Next]_vars PROVE IInv'
    <3>1. Typed /\ Opened /\ Controlled /\ Looping /\ Flowed
      BY <2>1 DEF IInv
    <3>2. Typed' /\ Opened' /\ Controlled' /\ Looping'
      BY <2>1, <3>1, StepTyped, StepOpened, StepControl, StepLooping
    <3>3. Flowed'
      BY <2>1, <3>1, <3>2, StepFlow
    <3> QED BY <3>2, <3>3 DEF IInv
  <2> QED BY <2>1
<1> QED
  BY <1>1, <1>2, PTL DEF Spec

\* What a connection writes to its socket is what the other side read, in that
\* order and without a gap, through wMsg of one P2pClient, ikcp, RunC of the
\* other, in, rlist and wMsg of the connection, for any number of connections
\* and any capacities.
THEOREM WritesInOrder == Spec => []OutInOrder
<1>1. IInv => OutInOrder
  <2>1. ASSUME IInv, NEW s \in Sides, NEW c \in Conns
        PROVE  LET out == conn[s][c].out
               IN  /\ Len(out) <= conn[Other(s)][c].sent
                   /\ out = [i \in 1..Len(out) |-> <<c, i>>]
    BY <2>1 DEF IInv, Flowed, Flow
  <2> QED BY <2>1 DEF OutInOrder
<1> QED
  BY <1>1, FlowHolds, PTL

\* A connection that is told of its end has written all that the other side
\* sent before the MsgTypeFin that told it, and nothing it sent after that one:
\* MsgTypeFin overtakes nothing, and nothing overtakes it, although the reader
\* of the other side may go on sending after the writer has failed.
THEOREM EndsAfterAll == Spec => []EndedAfterAll
<1>1. IInv => EndedAfterAll
  <2>1. ASSUME IInv, NEW s \in Sides, NEW c \in Conns, conn[s][c].told # None
        PROVE  Len(conn[s][c].out) = conn[s][c].told
    BY <2>1 DEF IInv, Flowed, Flow
  <2> QED BY <2>1 DEF EndedAfterAll
<1> QED
  BY <1>1, FlowHolds, PTL

-----------------------------------------------------------------------------
(***************************************************************************)
(* The refinement: what each step is to the two pipes of a connection.     *)
(***************************************************************************)

\* What a step may do to one of the connections, as its program sees it.
Gives(s, c) ==
  /\ conn'[s][c].sent = conn[s][c].sent + 1 /\ conn'[s][c].said = conn[s][c].said
  /\ conn'[s][c].out = conn[s][c].out /\ conn'[s][c].told = conn[s][c].told
Says(s, c) ==
  /\ conn[s][c].said = None /\ conn'[s][c].said = conn[s][c].sent
  /\ conn'[s][c].sent = conn[s][c].sent
  /\ conn'[s][c].out = conn[s][c].out /\ conn'[s][c].told = conn[s][c].told
Gets(s, c) ==
  /\ conn[s][c].told = None /\ conn'[s][c].told = None
  /\ \E x \in Conns \X Nat : conn'[s][c].out = Append(conn[s][c].out, x)
  /\ conn'[s][c].sent = conn[s][c].sent /\ conn'[s][c].said = conn[s][c].said
Ends(s, c) ==
  /\ conn[s][c].told = None /\ conn'[s][c].told # None
  /\ conn'[s][c].out = conn[s][c].out
  /\ conn'[s][c].sent = conn[s][c].sent /\ conn'[s][c].said = conn[s][c].said

\* A table of the sides and connections.
Table(f) == f = [t \in Sides |-> [d \in Conns |-> f[t][d]]]

\* Two tables that differ in one place.
LEMMA TableSet ==
  ASSUME NEW f, NEW g, Table(f), Table(g), NEW s \in Sides, NEW c \in Conns, NEW v,
         g[s][c] = v,
         \A t \in Sides, d \in Conns : t # s \/ d # c => g[t][d] = f[t][d]
  PROVE  g = [f EXCEPT ![s][c] = v]
<1> DEFINE h == [f EXCEPT ![s][c] = v]
<1>1. \A t \in Sides : f[t] = [d \in Conns |-> f[t][d]] /\ g[t] = [d \in Conns |-> g[t][d]]
  <2>1. ASSUME NEW t \in Sides PROVE f[t] = [d \in Conns |-> f[t][d]]
    BY DEF Table
  <2>2. ASSUME NEW t \in Sides PROVE g[t] = [d \in Conns |-> g[t][d]]
    BY DEF Table
  <2> QED BY <2>1, <2>2
<1>2. DOMAIN f = Sides /\ DOMAIN g = Sides
  BY DEF Table
<1>3. g = [t \in Sides |-> g[t]]
  BY DEF Table
<1>4. h = [t \in Sides |-> h[t]]
  <2>1. f = [t \in Sides |-> f[t]]
    BY DEF Table
  <2> QED BY <2>1
<1>5. h[s] = [f[s] EXCEPT ![c] = v] /\ \A t \in Sides : t # s => h[t] = f[t]
  BY <1>2
<1> HIDE DEF h
<1>6. g[s] = [f[s] EXCEPT ![c] = v]
  BY <1>1
<1>7. ASSUME NEW t \in Sides PROVE g[t] = h[t]
  <2>1. CASE t = s
    BY <1>5, <1>6, <2>1
  <2>2. CASE t # s
    <3>1. \A d \in Conns : g[t][d] = f[t][d]
      BY <2>2
    <3>2. g[t] = f[t]
      BY <1>1, <3>1
    <3> QED BY <1>5, <2>2, <3>2
  <2> QED BY <2>1, <2>2
<1> QED BY <1>3, <1>4, <1>7 DEF h

\* A step that leaves what the programs see of all connections leaves the
\* pipes.
LEMMA PipesStay ==
  ASSUME \A t \in Sides, d \in Conns : SamePipe(conn[t][d], conn'[t][d])
  PROVE  UNCHANGED Promised!pipes
<1>1. \A t \in Sides, d \in Conns :
        /\ conn'[Other(t)][d].sent = conn[Other(t)][d].sent
        /\ conn'[Other(t)][d].said = conn[Other(t)][d].said
        /\ conn'[t][d].out = conn[t][d].out /\ conn'[t][d].told = conn[t][d].told
  BY OtherSide DEF SamePipe
<1> QED BY <1>1 DEF Promised!pipes

\* PushData of data is Give of the other side's pipe, even after its end was
\* said.
LEMMA GivesPiece ==
  ASSUME NEW s \in Sides, NEW c \in Conns, Elsewhere(s, c), Gives(s, c)
  PROVE  Promised!Next
<1> DEFINE o == Other(s)
           given  == [t \in Sides |-> [d \in Conns |-> conn[Other(t)][d].sent]]
           given1 == [t \in Sides |-> [d \in Conns |-> conn'[Other(t)][d].sent]]
<1>1. o \in Sides /\ Other(o) = s /\ \A t \in Sides : Other(t) \in Sides /\ (t # o => Other(t) # s)
  BY DEF Other, Sides
<1>2. given1 = [given EXCEPT ![o][c] = given[o][c] + 1]
  <2>1. Table(given) /\ Table(given1)
    BY DEF Table
  <2>2. given1[o][c] = given[o][c] + 1
    BY <1>1 DEF Gives
  <2>3. \A t \in Sides, d \in Conns : t # o \/ d # c => given1[t][d] = given[t][d]
    BY <1>1 DEF Elsewhere
  <2> HIDE DEF given, given1
  <2> QED BY <1>1, <2>1, <2>2, <2>3, TableSet
<1>3. \A t \in Sides, d \in Conns :
        /\ conn'[t][d].out = conn[t][d].out /\ conn'[t][d].told = conn[t][d].told
        /\ conn'[t][d].said = conn[t][d].said
  BY DEF Elsewhere, Gives
<1>4. \A t \in Sides, d \in Conns :
        /\ conn'[t][d].out = conn[t][d].out /\ conn'[t][d].told = conn[t][d].told
        /\ conn'[Other(t)][d].said = conn[Other(t)][d].said
  BY <1>1, <1>3
<1>5. Promised!Give(o, c)
  BY <1>1, <1>2, <1>4 DEF Promised!Give
<1> QED BY <1>1, <1>5 DEF Promised!Next

\* The first MsgTypeFin is Say of the other side's pipe.
LEMMA SaysEnd ==
  ASSUME NEW s \in Sides, NEW c \in Conns, Elsewhere(s, c), Says(s, c)
  PROVE  Promised!Next
<1> DEFINE o == Other(s)
           said  == [t \in Sides |-> [d \in Conns |-> conn[Other(t)][d].said]]
           said1 == [t \in Sides |-> [d \in Conns |-> conn'[Other(t)][d].said]]
<1>1. o \in Sides /\ Other(o) = s /\ \A t \in Sides : Other(t) \in Sides /\ (t # o => Other(t) # s)
  BY DEF Other, Sides
<1>2. said1 = [said EXCEPT ![o][c] = conn[s][c].sent]
  <2>1. Table(said) /\ Table(said1)
    BY DEF Table
  <2>2. said1[o][c] = conn[s][c].sent
    BY <1>1 DEF Says
  <2>3. \A t \in Sides, d \in Conns : t # o \/ d # c => said1[t][d] = said[t][d]
    BY <1>1 DEF Elsewhere
  <2> HIDE DEF said, said1
  <2> QED BY <1>1, <2>1, <2>2, <2>3, TableSet
<1>3. \A t \in Sides, d \in Conns :
        /\ conn'[t][d].out = conn[t][d].out /\ conn'[t][d].told = conn[t][d].told
        /\ conn'[t][d].sent = conn[t][d].sent
  BY DEF Elsewhere, Says
<1>4. \A t \in Sides, d \in Conns :
        /\ conn'[t][d].out = conn[t][d].out /\ conn'[t][d].told = conn[t][d].told
        /\ conn'[Other(t)][d].sent = conn[Other(t)][d].sent
  BY <1>1, <1>3
<1>5. Promised!Say(o, c)
  BY <1>1, <1>2, <1>4 DEF Promised!Say, Says
<1> QED BY <1>1, <1>5 DEF Promised!Next

\* Write of data is Get: the next piece that was given.
LEMMA GetsPiece ==
  ASSUME Typed, Flowed, Flowed', NEW s \in Sides, NEW c \in Conns, Elsewhere(s, c), Gets(s, c)
  PROVE  Promised!Next
<1> DEFINE o == Other(s)
           got  == [t \in Sides |-> [d \in Conns |-> conn[t][d].out]]
           got1 == [t \in Sides |-> [d \in Conns |-> conn'[t][d].out]]
<1>1. o \in Sides /\ o # s
  BY OtherSide
<1>2. PICK x \in Conns \X Nat : conn'[s][c].out = Append(conn[s][c].out, x)
  BY DEF Gets
<1>3. PICK a \in Seq(Conns \X Nat), b \in Nat : a = conn[s][c].out /\ b = Len(a)
  BY Counts
<1>4. conn'[o][c] = conn[o][c]
  BY <1>1 DEF Elsewhere
<1>5. /\ Len(conn'[s][c].out) <= conn[o][c].sent
      /\ conn[o][c].said # None => Len(conn'[s][c].out) <= conn[o][c].said
      /\ conn'[s][c].out = [i \in 1..Len(conn'[s][c].out) |-> <<c, i>>]
  BY <1>4 DEF Flowed, Flow
<1>6. PICK z \in Seq(Conns \X Nat) : z = Append(a, x)
  BY AppendProperties
<1>7. Len(z) = b + 1 /\ z[b + 1] = x /\ b + 1 \in 1..Len(z)
  <2>1. Len(z) = Len(a) + 1 /\ z[Len(a) + 1] = x
    BY <1>6, AppendProperties
  <2> QED BY <1>3, <2>1
<1>8. x = <<c, b + 1>>
  <2>1. z = [i \in 1..Len(z) |-> <<c, i>>]
    BY <1>2, <1>3, <1>5, <1>6
  <2>2. z[b + 1] = <<c, b + 1>>
    BY <1>7, <2>1
  <2> QED BY <1>7, <2>2
<1>9. Len(a) < IF conn[o][c].said = None THEN conn[o][c].sent ELSE conn[o][c].said
  <2>1. PICK k \in Nat, e \in Nat \union {None} : k = conn[o][c].sent /\ e = conn[o][c].said
    BY <1>1, Counts
  <2>2. b + 1 <= k /\ (e # None => b + 1 <= e)
    BY <1>2, <1>3, <1>5, <1>6, <1>7, <2>1
  <2>3. b < k /\ (e # None => b < e)
    <3>1. \A n \in Nat : b + 1 <= n => b < n
      OBVIOUS
    <3> QED BY <2>2, <3>1
  <2> QED BY <1>3, <2>1, <2>3
<1>10. got1 = [got EXCEPT ![s][c] = Append(a, <<c, Len(a) + 1>>)]
  <2>1. Table(got) /\ Table(got1)
    BY DEF Table
  <2>2. got1[s][c] = Append(a, <<c, Len(a) + 1>>)
    BY <1>2, <1>3, <1>8
  <2>3. \A t \in Sides, d \in Conns : t # s \/ d # c => got1[t][d] = got[t][d]
    BY DEF Elsewhere
  <2> HIDE DEF got, got1
  <2> QED BY <2>1, <2>2, <2>3, TableSet
<1>11. \A t \in Sides, d \in Conns :
         /\ conn'[Other(t)][d].sent = conn[Other(t)][d].sent
         /\ conn'[Other(t)][d].said = conn[Other(t)][d].said
         /\ conn'[t][d].told = conn[t][d].told
  <2>1. \A t \in Sides, d \in Conns :
          /\ conn'[t][d].sent = conn[t][d].sent /\ conn'[t][d].told = conn[t][d].told
          /\ conn'[t][d].said = conn[t][d].said
    BY DEF Elsewhere, Gets
  <2> QED BY <2>1, OtherSide
<1>12. Promised!Get(s, c)
  <2>1. got[s][c] = a
    BY <1>3
  <2>2. got1 = [got EXCEPT ![s][c] = Append(@, <<c, Len(@) + 1>>)]
    BY <1>10, <2>1
  <2>3. /\ conn[s][c].told = None
        /\ Len(got[s][c]) < IF conn[o][c].said = None THEN conn[o][c].sent ELSE conn[o][c].said
    BY <1>9, <2>1 DEF Gets
  <2>4. /\ [t \in Sides |-> [d \in Conns |-> conn'[Other(t)][d].sent]]
           = [t \in Sides |-> [d \in Conns |-> conn[Other(t)][d].sent]]
        /\ [t \in Sides |-> [d \in Conns |-> conn'[Other(t)][d].said]]
           = [t \in Sides |-> [d \in Conns |-> conn[Other(t)][d].said]]
        /\ [t \in Sides |-> [d \in Conns |-> conn'[t][d].told]]
           = [t \in Sides |-> [d \in Conns |-> conn[t][d].told]]
    BY <1>11
  <2> QED BY <2>2, <2>3, <2>4 DEF Promised!Get
<1> QED BY <1>12 DEF Promised!Next

\* Write of MsgTypeFin is End: all that was given before the end was said has
\* been got.
LEMMA IsTold ==
  ASSUME Flowed, Flowed', NEW s \in Sides, NEW c \in Conns, Elsewhere(s, c), Ends(s, c)
  PROVE  Promised!Next
<1> DEFINE o == Other(s)
           told  == [t \in Sides |-> [d \in Conns |-> conn[t][d].told]]
           told1 == [t \in Sides |-> [d \in Conns |-> conn'[t][d].told]]
<1>1. o \in Sides /\ o # s
  BY OtherSide
<1>2. conn'[o][c] = conn[o][c]
  BY <1>1 DEF Elsewhere
<1>3. /\ conn'[s][c].told = Len(conn[s][c].out)
      /\ conn[o][c].said = Len(conn[s][c].out)
  <2>1. /\ conn'[s][c].told # None /\ conn'[s][c].out = conn[s][c].out
        /\ conn'[o][c].said = conn[o][c].said
    BY <1>2 DEF Ends
  <2>2. Flow(s, c)'
    BY DEF Flowed
  <2>3. /\ conn'[s][c].told = Len(conn'[s][c].out)
        /\ conn'[o][c].said = Len(conn'[s][c].out)
    BY <2>1, <2>2 DEF Flow
  <2> QED BY <2>1, <2>3
<1>4. told1 = [told EXCEPT ![s][c] = conn[o][c].said]
  <2>1. Table(told) /\ Table(told1)
    BY DEF Table
  <2>2. told1[s][c] = conn[o][c].said
    BY <1>3
  <2>3. \A t \in Sides, d \in Conns : t # s \/ d # c => told1[t][d] = told[t][d]
    BY DEF Elsewhere
  <2> HIDE DEF told, told1
  <2> QED BY <2>1, <2>2, <2>3, TableSet
<1>5. \A t \in Sides, d \in Conns :
        /\ conn'[Other(t)][d].sent = conn[Other(t)][d].sent
        /\ conn'[Other(t)][d].said = conn[Other(t)][d].said
        /\ conn'[t][d].out = conn[t][d].out
  <2>1. \A t \in Sides, d \in Conns :
          /\ conn'[t][d].sent = conn[t][d].sent /\ conn'[t][d].out = conn[t][d].out
          /\ conn'[t][d].said = conn[t][d].said
    BY DEF Elsewhere, Ends
  <2> QED BY <2>1, OtherSide
<1>6. Promised!End(s, c)
  <2>1. told1 = [told EXCEPT ![s][c] = conn[o][c].said]
    BY <1>4
  <2>2. conn[s][c].told = None /\ conn[o][c].said = Len(conn[s][c].out)
    BY <1>3 DEF Ends
  <2>3. /\ [t \in Sides |-> [d \in Conns |-> conn'[Other(t)][d].sent]]
           = [t \in Sides |-> [d \in Conns |-> conn[Other(t)][d].sent]]
        /\ [t \in Sides |-> [d \in Conns |-> conn'[Other(t)][d].said]]
           = [t \in Sides |-> [d \in Conns |-> conn[Other(t)][d].said]]
        /\ [t \in Sides |-> [d \in Conns |-> conn'[t][d].out]]
           = [t \in Sides |-> [d \in Conns |-> conn[t][d].out]]
    BY <1>5
  <2> QED BY <2>1, <2>2, <2>3 DEF Promised!End
<1> QED BY <1>6 DEF Promised!Next

\* The other steps leave the pipes alone.
LEMMA OneStays ==
  ASSUME NEW s \in Sides, NEW c \in Conns, Elsewhere(s, c), SamePipe(conn[s][c], conn'[s][c])
  PROVE  UNCHANGED Promised!pipes
<1>1. \A t \in Sides, d \in Conns : SamePipe(conn[t][d], conn'[t][d])
  BY DEF Elsewhere, SamePipe
<1> QED BY <1>1, PipesStay

\* A step of the pipes, or none.
PipeStep == Promised!Next \/ UNCHANGED Promised!pipes

\* Every outcome of Write is a step of the pipes or none.
LEMMA WritePipes ==
  ASSUME Typed, Flowed, Flowed', NEW s \in Sides, NEW c \in Conns, Write(s, c)
  PROVE  PipeStep
<1> DEFINE p == conn[s][c]
           q == conn'[s][c]
           m == Head(p.w)
<1>1. Elsewhere(s, c) /\ q.sent = p.sent /\ q.said = p.said /\ p.writer = "write"
  BY WriteFacts
<1>2. p.told = None
  BY <1>1 DEF Flowed, Flow
<1>3. p.w # <<>> => m \in Msgs /\ <<m.conn, m.n>> \in Conns \X Nat
  <2>1. p.w \in Seq(Msgs)
    BY QueuesTyped
  <2>2. p.w # <<>> => m \in Msgs
    BY <2>1, HeadTailProperties
  <2>3. \A e \in Msgs : <<e.conn, e.n>> \in Conns \X Nat
    BY DEF Msgs
  <2> QED BY <2>2, <2>3
<1>4. CASE p.w # <<>> /\ q.out = Append(p.out, <<m.conn, m.n>>) /\ q.told = p.told
  BY <1>1, <1>2, <1>3, <1>4, GetsPiece DEF Gets, PipeStep
<1>5. CASE q.out = p.out /\ q.told = p.told
  BY <1>1, <1>5, OneStays DEF SamePipe, PipeStep
<1>6. CASE q.out = p.out /\ q.told # None
  BY <1>1, <1>2, <1>6, IsTold DEF Ends, PipeStep
<1>7. m.n \in Nat => m.n # None
  BY DEF None
<1>8. p.w # <<>> => m.n \in Nat
  BY <1>3 DEF Msgs
<1> QED BY <1>4, <1>5, <1>6, <1>7, <1>8, WriteFacts

\* A MsgTypeFin is Say, or no step when it is not the first.
LEMMA FinPipes ==
  ASSUME NEW s \in Sides, NEW c \in Conns, SendsFin(s, c, conn[s][c], conn'[s][c]),
         conn'[s][c].out = conn[s][c].out, conn'[s][c].told = conn[s][c].told
  PROVE  SamePipe(conn[s][c], conn'[s][c]) \/ Says(s, c)
  BY DEF SendsFin, SamePipe, Says

\* Of the other steps of a connection only PushData, PushFin and WriterFin move
\* a pipe.
LEMMA ConnPipes ==
  ASSUME Typed, NEW s \in Sides, NEW c \in Conns,
         \/ DialOk(s, c) \/ (s = "requestor" /\ Accept(c)) \/ DialFails(s, c)
         \/ AddConn(s, c) \/ RemoveConn(s, c)
         \/ PromiseEnds(s, c) \/ (Answered(s) /\ loop[s].conn = c)
         \/ StartLoops(s, c) \/ SendSyn(s, c) \/ RunFor(s, c) \/ RunTick(s, c)
         \/ SetupHdr(s, c) \/ Read(s, c) \/ PushData(s, c) \/ PushFin(s, c)
         \/ WriterFin(s, c)
  PROVE  PipeStep
<1> DEFINE Goal == /\ Elsewhere(s, c)
                   /\ SamePipe(conn[s][c], conn'[s][c]) \/ Gives(s, c) \/ Says(s, c)
<1>0. SUFFICES Goal
  BY OneStays, GivesPiece, SaysEnd DEF PipeStep
<1>1. CASE DialOk(s, c) \/ (s = "requestor" /\ Accept(c))
  BY <1>1, OfferFacts
<1>2. CASE DialFails(s, c)
  BY <1>2, DialFailsFacts
<1>3. CASE AddConn(s, c)
  BY <1>3, AddConnFacts
<1>4. CASE RemoveConn(s, c)
  BY <1>4, RemoveConnFacts
<1>5. CASE PromiseEnds(s, c) \/ (Answered(s) /\ loop[s].conn = c)
  BY <1>5, PromiseFacts
<1>6. CASE StartLoops(s, c)
  BY <1>6, StartLoopsFacts
<1>7. CASE SendSyn(s, c)
  BY <1>7, SendSynFacts
<1>8. CASE RunFor(s, c)
  BY <1>8, RunForFacts
<1>9. CASE RunTick(s, c)
  BY <1>9, RunTickFacts
<1>10. CASE Read(s, c)
  BY <1>10, ReadFacts
<1>11. CASE PushData(s, c)
  <2>1. /\ Elsewhere(s, c) /\ conn'[s][c].out = conn[s][c].out
        /\ conn'[s][c].told = conn[s][c].told
        /\ \/ conn'[s][c].sent = conn[s][c].sent + 1 /\ conn'[s][c].said = conn[s][c].said
           \/ SendsFin(s, c, conn[s][c], conn'[s][c])
           \/ SamePipe(conn[s][c], conn'[s][c])
    BY <1>11, PushDataFacts
  <2> QED BY <2>1, FinPipes DEF Gives
<1>12. CASE PushFin(s, c)
  BY <1>12, PushFinFacts, FinPipes
<1>13. CASE WriterFin(s, c)
  BY <1>13, WriterFinFacts, FinPipes
<1>14. CASE SetupHdr(s, c)
  BY <1>14, SetupHdrFacts
<1> QED
  BY <1>1, <1>2, <1>3, <1>4, <1>5, <1>6, <1>7, <1>8, <1>9, <1>10, <1>11, <1>12, <1>13, <1>14

\* RunC moves no pipe: receiving, routing, dropping and closing are not seen by
\* the programs.
LEMMA RunCPipes ==
  ASSUME Typed, NEW s \in Sides,
         KcpSend(s) \/ Quit(s) \/ DoDying(s) \/ CloseP2p(s) \/ PushIn(s) \/ KcpRecv(s)
  PROVE  UNCHANGED Promised!pipes
<1>1. CASE UNCHANGED conn
  BY <1>1, PipesStay DEF SamePipe
<1>2. CASE KcpSend(s) \/ Quit(s)
  BY <1>1, <1>2 DEF KcpSend, Quit
<1>3. CASE DoDying(s)
  BY <1>3, DoDyingFacts, PipesStay
<1>4. CASE CloseP2p(s)
  <2>1. \A d \in Conns : SamePipe(conn[s][d], conn'[s][d])
    BY <1>4, CloseP2pFacts
  <2>2. \A t \in Sides, d \in Conns : t # s => conn'[t][d] = conn[t][d]
    BY <1>4, CloseP2pFacts, Zenon
  <2>3. \A t \in Sides, d \in Conns : SamePipe(conn[t][d], conn'[t][d])
    BY <2>1, <2>2 DEF SamePipe
  <2> QED BY <2>3, PipesStay
<1>5. CASE PushIn(s)
  <2>1. PICK c \in Conns : c = loop[s].conn
    BY <1>5, PushInFacts
  <2> QED BY <1>5, <2>1, PushInFacts, OneStays
<1>6. CASE KcpRecv(s)
  <2>1. PICK m : m = Head(wire[Other(s)])
    OBVIOUS
  <2>2. m.conn \in Conns
    BY <1>6, <2>1, KcpRecvFacts
  <2>3. CASE Elsewhere(s, m.conn) /\ SamePipe(conn[s][m.conn], conn'[s][m.conn])
    BY <2>2, <2>3, OneStays
  <2> QED BY <1>1, <1>6, <2>1, <2>3, KcpRecvFacts
<1> QED BY <1>2, <1>3, <1>4, <1>5, <1>6

\* Every step of the tunnel is a step of the pipes or none.
LEMMA StepPipes ==
  ASSUME Typed, Flowed, Flowed', [Next]_vars PROVE PipeStep
<1>1. CASE UNCHANGED vars
  BY <1>1, PipesStay DEF vars, SamePipe, PipeStep
<1>2. ASSUME NEW c \in Conns, Accept(c) PROVE PipeStep
  BY <1>2, ConnPipes DEF Sides
<1>3. ASSUME NEW s \in Sides, RunC(s) \/ Quit(s) \/ CloseP2p(s) PROVE PipeStep
  <2>1. ASSUME NEW c \in Conns, AddConn(s, c) \/ RemoveConn(s, c) PROVE PipeStep
    BY <2>1, ConnPipes
  <2>2. CASE Answered(s)
    <3>1. loop[s].conn \in Conns
      BY <2>2, StandsAt DEF Answered
    <3> QED BY <2>2, <3>1, ConnPipes
  <2>3. CASE KcpSend(s) \/ KcpRecv(s) \/ PushIn(s) \/ DoDying(s) \/ CloseP2p(s) \/ Quit(s)
    BY <2>3, RunCPipes DEF PipeStep
  <2> QED BY <1>3, <2>1, <2>2, <2>3 DEF RunC
<1>4. ASSUME NEW s \in Sides, NEW c \in Conns,
             \/ RunOf(s, c) \/ Read(s, c) \/ Reader(s, c)
             \/ Writer(s, c) \/ Dials(s, c) \/ PromiseEnds(s, c)
      PROVE  PipeStep
  <2>1. CASE Write(s, c)
    BY <2>1, WritePipes
  <2>2. CASE ~Write(s, c)
    BY <1>4, <2>2, ConnPipes DEF RunOf, Reader, Writer, Dials
  <2> QED BY <2>1, <2>2
<1> QED
  BY <1>1, <1>2, <1>3, <1>4 DEF Next

\* The tunnel implements module Pipes: for every connection two pipes that
\* lose, repeat and reorder nothing, and whose end comes after all that was
\* given before it was first said and before what is given after that, whatever
\* dies, fails or is closed on the way.
THEOREM ImplementsPipes == Spec => ArePipes
<1>1. Init => Promised!Init
  <2>1. ASSUME Init PROVE Promised!Init
    <3>1. \A s \in Sides, c \in Conns :
            /\ conn[Other(s)][c].sent = 0 /\ conn[Other(s)][c].said = None
            /\ conn[s][c].out = <<>> /\ conn[s][c].told = None
      BY <2>1, OtherSide DEF Init, NewP2pConn
    <3> QED BY <3>1 DEF Promised!Init
  <2> QED BY <2>1
<1>2. IInv /\ IInv' /\ [Next]_vars => [Promised!Next]_(Promised!pipes)
  BY StepPipes DEF IInv, PipeStep
<1> QED
  BY <1>1, <1>2, FlowHolds, PTL DEF Spec, ArePipes, Promised!Spec
=============================================================================
