------------------------------ MODULE MCRelay ------------------------------
(***************************************************************************)
(* Instances of Relay for TLC.                                             *)
(***************************************************************************)
EXTENDS Relay

CONSTANTS host

\* One assist that connects again, maybe before the server has noticed that its
\* former connection has failed.
OneAddress == [a \in Assists |-> host]
=============================================================================
