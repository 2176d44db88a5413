------------------------------ MODULE MCServer ------------------------------
(***************************************************************************)
(* Instances of Server for TLC.                                            *)
(***************************************************************************)
EXTENDS Server, TLC

\* Connections, and passwords, are interchangeable.
Symmetry == Permutations(Conns) \union Permutations(Passes)
=============================================================================
