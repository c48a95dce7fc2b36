----------------------------- MODULE MCSessions -----------------------------
(* Sessions of one browser with three requests in flight. *)
EXTENDS Sessions, TLC

CONSTANTS u, p

MCHolder == p :> u
MCSymmetry == Permutations(Slots)
=============================================================================
