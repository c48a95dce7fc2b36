---------------------------- MODULE MCWebdavTree ----------------------------
(* WebdavTree on a small instance: one arrangement in two programs, and    *)
(* another arrangement that is in none.                                    *)
EXTENDS WebdavTree, TLC

CONSTANTS a1, a2, v1, v2, w1, c1, c2, i1, i2

MCArrangementOf == v1 :> a1 @@ v2 :> a1 @@ w1 :> a2
MCPieceOf == i1 :> a1 @@ i2 :> a1
MCProgramOf == i1 :> c1 @@ i2 :> c2
Symmetry == Permutations(Users)
=============================================================================
