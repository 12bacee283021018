---------------------------- MODULE MCTweakfsIO -----------------------------
(***************************************************************************)
(* Constants for model checking TweakfsIO: remote calls of two bytes and   *)
(* offsets on both sides of the largest one a request can carry.           *)
(***************************************************************************)
EXTENDS TweakfsIO

MCSizes == {2, 3}
ClientOffsets == {0, 7}

MCWritings == {<<b, Zero>> : b \in Bytes \ {Zero}}
=============================================================================
