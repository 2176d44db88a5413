---------------------------- MODULE MCHandshake ----------------------------
(***************************************************************************)
(* Instances of Handshake for TLC.                                         *)
(***************************************************************************)
EXTENDS Handshake

CONSTANTS lan, wan

\* Both can be reached over the Internet; the requestor reaches the proxy at
\* its local address, but not the other way round.
HalfLan == [s \in Sides |-> IF s = "proxy" THEN {lan, wan} ELSE {wan}]
ProxyBehindHarderNat == [s \in Sides |-> {s = "requestor"}]

\* Local addresses come before public ones, old ports before new ones.
TextOrder == [v \in Pairs |-> (IF v.path = lan THEN 0 ELSE 100)
                               + 10 * v.proxy + v.requestor]
=============================================================================
