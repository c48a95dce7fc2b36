-------------------------- MODULE MCPartAssignment --------------------------
(* PartAssignment on a small instance: a piece with one voice, and another *)
(* arrangement's voice.                                                    *)
EXTENDS PartAssignment, TLC

CONSTANTS a1, a2, v1, w1, i1, c1

MCArrangementOf == v1 :> a1 @@ w1 :> a2
MCPieceOf == i1 :> a1
MCProgramOf == i1 :> c1
Versions == {"assign", "assign_part", "update", "delete", "unassign"}
Symmetry == Permutations(Users) \cup Permutations(Clients)
=============================================================================
