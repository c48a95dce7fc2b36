------------------------------ MODULE ItemRows ------------------------------
(***************************************************************************)
(* The rows of one collection and the sequences of item ids that the       *)
(* running order is written from, shared by the detailed specification     *)
(* (CollectionItems) and the abstract one (RunningOrder).                  *)
(***************************************************************************)
EXTENDS Naturals, Sequences, FiniteSets

CONSTANTS
    Items,          \* collection_item ids (each id is inserted at most once)
    ArrangementOf,  \* the arrangement an item id is inserted with
    MaxIndex        \* MAX_INDEX, the highest piece number a form may ask for

ASSUME MaxIndexAssumption == MaxIndex \in Nat \ {0}
ASSUME ItemsAssumption == IsFiniteSet(Items)

\* A row that is not there yet, live, or soft-deleted (deleted_at set).
Rows == [st : {"none", "live", "removed"}, idx : Nat]
NoRow == [st |-> "none", idx |-> 0]
Live(v) == v.st = "live"
Numbered(n) == [st |-> "live", idx |-> n]
LiveOf(r) == {i \in Items : Live(r[i])}

\* The two partial unique indexes: (collection_id, index) and
\* (collection_id, arrangement_id), over live rows only.
SameKey(i, v, j, w) ==
    /\ Live(v) /\ Live(w)
    /\ v.idx = w.idx \/ ArrangementOf[i] = ArrangementOf[j]

Orderings(S) ==
    {s \in [1..Cardinality(S) -> S] : \A a, b \in DOMAIN s : s[a] = s[b] => a = b}
\* ORDER BY index (the index is unique, so one ordering qualifies and the
\* second key, id, never decides)
InIndexOrder(S, r) ==
    {s \in Orderings(S) : \A a, b \in DOMAIN s : a < b => r[s[a]].idx <= r[s[b]].idx}
ItemsOf(s) == {s[k] : k \in 1..Len(s)}
\* s without i, which is in s once
Without(s, i) ==
    LET k == CHOOSE k \in 1..Len(s) : s[k] = i
    IN  SubSeq(s, 1, k - 1) \o SubSeq(s, k + 1, Len(s))
InsertAt(s, p, i) == SubSeq(s, 1, p) \o <<i>> \o SubSeq(s, p + 1, Len(s))

\* restore's place: the old number, clamped to the end of the collection
Place(old, n) ==
    LET wanted == IF old < 1 THEN 0 ELSE old - 1
    IN  IF wanted < n THEN wanted ELSE n

\* A collection at rest: pieces numbered 1..n without gaps, no arrangement
\* twice, others removed at the number they had.
Dense(r) == {r[i].idx : i \in LiveOf(r)} = 1..Cardinality(LiveOf(r))
KeysApart(r) == \A i, j \in Items : i # j => ~SameKey(i, r[i], j, r[j])
AtRest ==
    {r \in [Items -> {NoRow} \cup [st : {"live", "removed"}, idx : 1..MaxIndex]] :
        Dense(r) /\ KeysApart(r)}
=============================================================================
