------------------------------ MODULE MCTunnel ------------------------------
(***************************************************************************)
(* Instances of Tunnel for TLC.                                            *)
(***************************************************************************)
EXTENDS Tunnel, TLC

CONSTANTS c1

\* The port of the local program, and the tunnel it came in by.
OnePort  == (c1 :> 5001)
\* How much data there is to read: from the proxy side enough for several
\* pieces to meet in the requestor's rlist, or some from both.
Download == [s \in Sides |-> [c \in Conns |-> IF s = "proxy" THEN 2 ELSE 0]]
BothWays == [s \in Sides |-> [c \in Conns |-> 1]]
OneInner == [c \in Conns |-> 0]
=============================================================================
