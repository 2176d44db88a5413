------------------------------- MODULE Pipes -------------------------------
(***************************************************************************)
(* What a tunnel promises the programs at its ends: every connection is    *)
(* two pipes.  What one program gives the other gets, piece by piece and   *)
(* in that order; and who is told of the end has got exactly what was      *)
(* given before the end was said.  What is given after that is for nobody. *)
(***************************************************************************)
EXTENDS Integers, Sequences

CONSTANTS
  Conns,
  Sides,
  None    \* no end was said, or told

VARIABLES
  given,  \* given[s][c]: how many pieces were given for side s
  said,   \* said[s][c]: how many there were when the end was first said
  got,    \* got[s][c]: those that s has got
  told    \* told[s][c]: how many there are in all, once s is told

pipes == <<given, said, got, told>>

Init ==
  /\ given = [s \in Sides |-> [c \in Conns |-> 0]]
  /\ said  = [s \in Sides |-> [c \in Conns |-> None]]
  /\ got   = [s \in Sides |-> [c \in Conns |-> <<>>]]
  /\ told  = [s \in Sides |-> [c \in Conns |-> None]]

Give(s, c) ==
  /\ given' = [given EXCEPT ![s][c] = @ + 1]
  /\ UNCHANGED <<said, got, told>>

Say(s, c) ==
  /\ said[s][c] = None
  /\ said' = [said EXCEPT ![s][c] = given[s][c]]
  /\ UNCHANGED <<given, got, told>>

Get(s, c) ==
  /\ told[s][c] = None
  /\ Len(got[s][c]) < IF said[s][c] = None THEN given[s][c] ELSE said[s][c]
  /\ got' = [got EXCEPT ![s][c] = Append(@, <<c, Len(@) + 1>>)]
  /\ UNCHANGED <<given, said, told>>

End(s, c) ==
  /\ told[s][c] = None /\ said[s][c] = Len(got[s][c])
  /\ told' = [told EXCEPT ![s][c] = said[s][c]]
  /\ UNCHANGED <<given, said, got>>

Next ==
  \E s \in Sides, c \in Conns :
    Give(s, c) \/ Say(s, c) \/ Get(s, c) \/ End(s, c)

Spec == Init /\ [][Next]_pipes
=============================================================================
