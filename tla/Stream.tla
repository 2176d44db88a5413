------------------------------- MODULE Stream -------------------------------
(***************************************************************************)
(* What one direction of a reliable stream promises the two programs that  *)
(* use it: what is received is what was sent, once and in order.           *)
(***************************************************************************)
EXTENDS Integers, Sequences

CONSTANT Msgs

VARIABLES sent, got

Init == sent = <<>> /\ got = <<>>

Send ==
  /\ \E m \in Msgs : sent' = Append(sent, m)
  /\ UNCHANGED got

Recv ==
  /\ Len(got) < Len(sent)
  /\ got' = Append(got, sent[Len(got) + 1])
  /\ UNCHANGED sent

Next == Send \/ Recv

Spec == Init /\ [][Next]_<<sent, got>>
=============================================================================
