---------------------------- MODULE RunningOrder ----------------------------
(***************************************************************************)
(* What domain/collection_item.rs promises of a collection's running       *)
(* order: every operation happens at once, on the order everybody sees.    *)
(* Adding and moving place a piece at a free number; reordering, removing  *)
(* and restoring leave the pieces numbered 1..n.                           *)
(***************************************************************************)
EXTENDS ItemRows

CONSTANT HighestIndex   \* model bound on the number given to an added piece

VARIABLE row

\* The pieces of s get their position in s as their number.
NumberedAs(s) ==
    [i \in Items |-> IF \E k \in 1..Len(s) : s[k] = i
                     THEN Numbered(CHOOSE k \in 1..Len(s) : s[k] = i)
                     ELSE row[i]]

FreeFor(i, n) == \A j \in Items \ {i} : ~SameKey(i, Numbered(n), j, row[j])

Add(i, n) ==
    /\ row[i].st = "none" /\ FreeFor(i, n)
    /\ row' = [row EXCEPT ![i] = Numbered(n)]

Move(i, n) ==
    /\ Live(row[i]) /\ FreeFor(i, n)
    /\ row' = [row EXCEPT ![i] = Numbered(n)]

Reorder(s) ==
    /\ s \in Orderings(LiveOf(row))
    /\ row' = NumberedAs(s)

Remove(i) ==
    /\ Live(row[i])
    /\ \E s \in InIndexOrder(LiveOf(row), row) :
         row' = [NumberedAs(Without(s, i)) EXCEPT ![i].st = "removed"]

Restore(i) ==
    /\ row[i].st = "removed"
    /\ \A j \in LiveOf(row) : ArrangementOf[j] # ArrangementOf[i]
    /\ \E s \in InIndexOrder(LiveOf(row), row) :
         row' = NumberedAs(InsertAt(s, Place(row[i].idx, Len(s)), i))

Init == row \in AtRest

Next ==
    \/ \E i \in Items, n \in 1..HighestIndex : Add(i, n) \/ Move(i, n)
    \/ \E s \in Orderings(LiveOf(row)) : Reorder(s)
    \/ \E i \in Items : Remove(i) \/ Restore(i)

Spec == Init /\ [][Next]_row
=============================================================================
