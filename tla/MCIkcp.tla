------------------------------- MODULE MCIkcp -------------------------------
(***************************************************************************)
(* Instances of Ikcp for TLC.                                              *)
(***************************************************************************)
EXTENDS Ikcp

\* Three messages, of two, one and one fragments.
ThreeMessages == <<2, 1, 1>>

\* Thirteen fragments, more than there are numbers when Half is 6.
OnceRound == <<2, 1, 2, 1, 2, 1, 2, 1, 1>>
=============================================================================
