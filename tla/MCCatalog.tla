----------------------------- MODULE MCCatalog -----------------------------
(***************************************************************************)
(* Two clients, a work, and two rows of every other table: the first is    *)
(* live, the second is absent or was deleted with the name of the first;   *)
(* or nothing is there yet.                                                *)
(***************************************************************************)
EXTENDS Catalog, TLC

CONSTANTS c1, c2, w1, a1, a2, v1, v2, k1, k2, t1, t2

MCArrangementOf == v1 :> a1 @@ v2 :> a1
MCSlugify == 1 :> 1 @@ 2 :> 2
MCRank == w1 :> 1 @@ a1 :> 2 @@ a2 :> 3 @@ v1 :> 4 @@ v2 :> 5
          @@ k1 :> 6 @@ k2 :> 7 @@ t1 :> 8 @@ t2 :> 9

Population(second) ==
    [r \in Rows |-> IF r \in {a2, v2, k2, t2} THEN second ELSE "live"]
Empty == [r \in Rows |-> "absent"]
MCPopulations == {Population("absent"), Population("deleted"), Empty}

=============================================================================
