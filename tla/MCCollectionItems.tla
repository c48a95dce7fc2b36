------------------------- MODULE MCCollectionItems -------------------------
(* CollectionItems on small instances. *)
EXTENDS CollectionItems, TLC

CONSTANTS i1, i2, i3, x, y, z

\* three ids of three arrangements
MCArrangementDistinct == i1 :> x @@ i2 :> y @@ i3 :> z

MCArrangementTwo == i1 :> x @@ i2 :> y

Renumbering == {"reorder", "remove"}
Everything == {"create", "append", "move", "reorder", "remove", "restore"}
=============================================================================
