----------------------------- MODULE WebdavTree -----------------------------
(***************************************************************************)
(* What an organization's folder shows whom over WebDAV.  The same pages   *)
(* hang in two trees, arrangements/<arrangement>/voices/<voice> and        *)
(* collections/<program>/<piece>/voices/<voice>, and every directory has   *)
(* two answers: the query that lists its children and the one that opens   *)
(* a child by name.  Names stand for the rows they resolve to.             *)
(***************************************************************************)
EXTENDS PartBook

VARIABLE role    \* the membership of every user, "none" for a guest

vars == <<live, player, role>>

Staff == {"owner", "archivist", "conductor"}
Roles == Staff \cup {"musician", "none"}

TypeOK == BookTypeOK /\ role \in [Users -> Roles]

SetRole(u, r) ==
    /\ role' = [role EXCEPT ![u] = r]
    /\ UNCHANGED book

TreeInit == Init /\ role = [u \in Users |-> "none"]
TreeNext == (Next /\ UNCHANGED role) \/ \E u \in Users, r \in Roles : SetRole(u, r)
TreeSpec == TreeInit /\ [][TreeNext]_vars

------------------------------------------------------------------------------
(* Whose assignment opens what: one EXISTS query each.                     *)

IsStaff(u) == role[u] \in Staff
Plays(u, i, v) == player[i][v] = u

\* a part in a live piece of a live program
InProgram(u, i, v) == Plays(u, i, v) /\ i \in live /\ ProgramOf[i] \in live
\* a part with a live voice of a live arrangement behind it
InCatalog(u, i, v) == Plays(u, i, v) /\ i \in live /\ PieceOf[i] \in live /\ v \in live

HasAssignmentOnArrangement(u, a) ==
    \E i \in Items, v \in Voices : InProgram(u, i, v) /\ v \in live /\ ArrangementOf[v] = a
HasAssignmentOnVoice(u, v) == \E i \in Items : InProgram(u, i, v)
HasAssignmentInCollection(u, c) ==
    \E i \in Items, v \in Voices : InCatalog(u, i, v) /\ ProgramOf[i] = c
\* (as if any voice of the piece would do, deleted or not)
HasAnyAssignmentOnItem(u, i) == i \in live /\ PieceOf[i] \in live /\ \E v \in Voices : Plays(u, i, v)
HasAssignmentOnItem(u, i) == \E v \in Voices : InCatalog(u, i, v)
HasAssignmentOnItemVoice(u, i, v) == Plays(u, i, v)

------------------------------------------------------------------------------
(* Opening a directory by its path.                                        *)

ResolveArrangement(u, a) ==
    a \in live /\ (IsStaff(u) \/ HasAssignmentOnArrangement(u, a))
ResolveVoice(u, a, v) ==
    /\ ResolveArrangement(u, a)
    /\ v \in live /\ ArrangementOf[v] = a
    /\ IsStaff(u) \/ HasAssignmentOnVoice(u, v)

ResolveCollection(u, c) ==
    c \in live /\ (IsStaff(u) \/ HasAssignmentInCollection(u, c))
\* The assignment checks of the directories above are left to the last one.
ItemAt(c, i) == c \in live /\ ProgramOf[i] = c /\ i \in live /\ PieceOf[i] \in live
ResolveItem(u, c, i) == ItemAt(c, i) /\ (IsStaff(u) \/ HasAssignmentOnItem(u, i))
ResolveItemVoice(u, c, i, v) ==
    /\ ItemAt(c, i)
    /\ v \in live /\ Fits(i, v)
    /\ IsStaff(u) \/ HasAssignmentOnItemVoice(u, i, v)

\* Reading the files of a place: the score's for staff, a voice's (and the
\* annotations beside them) for whoever opens the voice.
OpenScore(u, a) == ResolveArrangement(u, a) /\ IsStaff(u)
OpenItemScore(u, c, i) == ResolveItem(u, c, i) /\ IsStaff(u)

\* Writing and removing them: a right of its own, checked instead of the voice's.
Writers == {"owner", "archivist"}
ResolveForWrite(u, a) == ResolveArrangement(u, a) /\ role[u] \in Writers
WriteVoice(u, a, v) == ResolveForWrite(u, a) /\ v \in live /\ ArrangementOf[v] = a
\* Annotations are their author's to write, for a voice the author opens.
WriteAnnotation(u, author, a, v) == author = u /\ ResolveVoice(u, a, v)

------------------------------------------------------------------------------
(* The coverage report of a program: the voices each piece requires and    *)
(* those that somebody is down to play.                                    *)

Required(c, i) ==
    {v \in Voices \cap live :
        c \in live /\ ProgramOf[i] = c /\ i \in live /\ PieceOf[i] \in live /\ Fits(i, v)}
Assigned(c, i) == {v \in Required(c, i) : player[i][v] # Nobody}

------------------------------------------------------------------------------
(* Listing a directory.                                                    *)

VisibleArrangements(u) ==
    {a \in Arrangements \cap live :
        IsStaff(u) \/ \E i \in Items, v \in Voices :
                         InProgram(u, i, v) /\ v \in live /\ ArrangementOf[v] = a}
VisibleVoices(u, a) ==
    {v \in Voices \cap live :
        ArrangementOf[v] = a /\ (IsStaff(u) \/ \E i \in Items : InProgram(u, i, v))}
VisibleCollections(u) ==
    {c \in Collections \cap live :
        IsStaff(u) \/ \E i \in Items, v \in Voices : InCatalog(u, i, v) /\ ProgramOf[i] = c}
VisibleItems(u, c) ==
    {i \in Items \cap live :
        /\ ProgramOf[i] = c /\ PieceOf[i] \in live
        /\ IsStaff(u) \/ \E v \in Voices : InCatalog(u, i, v)}
\* (as if the parts of the voice's arrangement anywhere were listed)
VoicesOfAnyItem(u, i) ==
    {v \in Voices \cap live : Fits(i, v) /\ (IsStaff(u) \/ HasAssignmentOnVoice(u, v))}
VisibleItemVoices(u, i) ==
    {v \in Voices \cap live : Fits(i, v) /\ (IsStaff(u) \/ Plays(u, i, v))}

\* A directory that does not open lists nothing.
ListVoices(u, a) == IF ResolveArrangement(u, a) THEN VisibleVoices(u, a) ELSE {}
ListCollection(u, c) == IF ResolveCollection(u, c) THEN VisibleItems(u, c) ELSE {}
ListItemVoices(u, c, i) == IF ResolveItem(u, c, i) THEN VisibleItemVoices(u, i) ELSE {}

\* Beside its voices a directory shows the full score, to staff.
ListArrangement(u, a) ==
    {d \in {"score", "voices"} : ResolveArrangement(u, a) /\ (d = "score" => IsStaff(u))}
ListItem(u, c, i) ==
    {d \in {"score", "voices"} : ResolveItem(u, c, i) /\ (d = "score" => IsStaff(u))}

\* The root lists the organization to its members and to whoever has a part
\* in one of its programs.
VisibleOrg(u) ==
    role[u] # "none" \/ \E i \in Items, v \in Voices : InProgram(u, i, v)

------------------------------------------------------------------------------

\* What a directory lists opens, and what opens is listed from the root
\* down: the listing and the resolving queries are separate SQL, and resolving a
\* voice skips the checks of the directories above it.
ListedIffOpens ==
    \A u \in Users :
        /\ \A a \in Arrangements : a \in VisibleArrangements(u) <=> ResolveArrangement(u, a)
        /\ \A a \in Arrangements, v \in Voices : v \in ListVoices(u, a) <=> ResolveVoice(u, a, v)
        /\ \A c \in Collections : c \in VisibleCollections(u) <=> ResolveCollection(u, c)
        /\ \A c \in Collections, i \in Items : i \in ListCollection(u, c) <=> ResolveItem(u, c, i)
        /\ \A c \in Collections, i \in Items, v \in Voices :
              v \in ListItemVoices(u, c, i) <=> ResolveItemVoice(u, c, i, v)
        /\ \A a \in Arrangements : "score" \in ListArrangement(u, a) <=> OpenScore(u, a)
        /\ \A c \in Collections, i \in Items :
              "score" \in ListItem(u, c, i) <=> OpenItemScore(u, c, i)
        /\ VisibleArrangements(u) # {} \/ VisibleCollections(u) # {} => VisibleOrg(u)

\* A musician or a guest reads the same voices in both trees, those of the
\* pieces they play; staff find every voice of a program in the catalog.
SameVoices ==
    \A u \in Users, v \in Voices :
        LET ByPiece == \E i \in Items : ResolveItemVoice(u, ProgramOf[i], i, v)
            ByArrangement == ResolveVoice(u, ArrangementOf[v], v)
        IN  IF IsStaff(u) THEN ByPiece => ByArrangement ELSE ByPiece <=> ByArrangement

\* A voice counts as covered if and only if somebody is down to play it who
\* opens it in that program.
CoveredIffOpened ==
    \A c \in Collections, i \in Items, v \in Voices :
        v \in Assigned(c, i) <=> \E u \in Users : Plays(u, i, v) /\ ResolveItemVoice(u, c, i, v)

\* Whoever may write or remove a file, or annotate a voice, may read what is there.
WritersRead ==
    \A u \in Users, a \in Arrangements :
        /\ ResolveForWrite(u, a) => OpenScore(u, a)
        /\ \A v \in Voices : WriteVoice(u, a, v) \/ WriteAnnotation(u, u, a, v) => ResolveVoice(u, a, v)

\* Who has which part is decided in the queries of two trees, of the reports and
\* of the writes, and all of them say the same.
AccessAgrees == SameVoices /\ CoveredIffOpened /\ WritersRead

\* A musician or a guest finds something in every directory they are shown
\* (access.rs: hide entirely, not an empty placeholder).
NothingEmpty ==
    \A u \in Users : ~IsStaff(u) =>
        /\ \A a \in VisibleArrangements(u) : ListVoices(u, a) # {}
        /\ \A c \in VisibleCollections(u) : ListCollection(u, c) # {}
        /\ \A c \in Collections, i \in Items : ResolveItem(u, c, i) => ListItemVoices(u, c, i) # {}
=============================================================================
