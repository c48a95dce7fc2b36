------------------------------ MODULE PartBook ------------------------------
(***************************************************************************)
(* What is in an organization's catalog and its programs, and who plays    *)
(* which voice of which piece: every operation happens at once.  A soft    *)
(* delete marks one row and no other; what hangs below a deleted row is    *)
(* hidden through it by the queries.                                       *)
(***************************************************************************)
EXTENDS Repertoire

CONSTANTS
    Voices, Collections,
    Items,           \* the pieces of the collections
    Users, Nobody,
    ArrangementOf,   \* the arrangement of every voice
    PieceOf,         \* the arrangement of every item
    ProgramOf        \* the collection of every item

Rows == Arrangements \cup Voices \cup Collections \cup Items

ASSUME ArrangementAssumption ==
    ArrangementOf \in [Voices -> Arrangements] /\ PieceOf \in [Items -> Arrangements]
ASSUME ProgramAssumption == ProgramOf \in [Items -> Collections]
ASSUME NobodyAssumption == Nobody \notin Users
ASSUME RowsApart ==
    /\ Arrangements \cap Voices = {} /\ Arrangements \cap Collections = {}
    /\ Arrangements \cap Items = {} /\ Voices \cap Collections = {}
    /\ Voices \cap Items = {} /\ Collections \cap Items = {}

VARIABLES
    live,     \* the rows whose deleted_at is NULL
    player    \* who each voice of each item is assigned to

book == <<live, player>>

BookTypeOK ==
    /\ live \subseteq Rows
    /\ player \in [Items -> [Voices -> Users \cup {Nobody}]]

Fits(i, v) == ArrangementOf[v] = PieceOf[i]

\* One piece of a program per arrangement (the partial unique index of 0021).
Unclashing(r) ==
    r \in Items => \A j \in Items \ {r} :
        j \in live => ~(PieceOf[j] = PieceOf[r] /\ ProgramOf[j] = ProgramOf[r])

\* A voice is deleted through a live arrangement but restored under a deleted
\* one as well; a piece needs its program for both.  A row that was not
\* created yet is no different here from a deleted one.
Hide(r) ==
    /\ r \in live
    /\ r \in Voices => ArrangementOf[r] \in live
    /\ r \in Items => ProgramOf[r] \in live
    /\ live' = live \ {r}
    /\ UNCHANGED player
Show(r) ==
    /\ r \notin live /\ Unclashing(r)
    /\ r \in Items => ProgramOf[r] \in live
    /\ live' = live \cup {r}
    /\ UNCHANGED player

\* (as if the INSERT did not join the voice with the item's arrangement)
AssignAnyVoice(i, v, u) ==
    /\ i \in live /\ v \in live
    /\ player' = [player EXCEPT ![i][v] = u]
    /\ UNCHANGED live

\* assign's INSERT ... SELECT ... ON CONFLICT.
Assign(i, v, u) ==
    /\ i \in live /\ v \in live /\ Fits(i, v)
    /\ player' = [player EXCEPT ![i][v] = u]
    /\ UNCHANGED live
\* (as if the DELETE named the item and not the voice)
UnassignPiece(i, v) == player' = [player EXCEPT ![i] = Nobody] /\ UNCHANGED live
Unassign(i, v) ==
    /\ player' = [player EXCEPT ![i][v] = Nobody]
    /\ UNCHANGED live

Init ==
    /\ live = {}
    /\ player = [i \in Items |-> [v \in Voices |-> Nobody]]

Next ==
    \/ \E r \in Rows : Hide(r) \/ Show(r)
    \/ \E i \in Items, v \in Voices : Unassign(i, v) \/ \E u \in Users : Assign(i, v, u)

Spec == Init /\ [][Next]_book
=============================================================================
