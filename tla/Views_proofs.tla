---------------------------- MODULE Views_proofs -----------------------------
(***************************************************************************)
(* What readers get to see of the catalog, for every catalog, program and  *)
(* assignment: the folders WebDAV shows a user, and then the documents a   *)
(* search looks into.  Both are about the same Arrangements.               *)
(*                                                                         *)
(* The two WebDAV trees only agree because a part is never handed out for  *)
(* a voice of another arrangement than the piece's: PartsFit is the        *)
(* invariant that carries that from the INSERT to the queries.             *)
(***************************************************************************)
EXTENDS WebdavTree, SearchIndex, TLAPS

PartsFit == \A i \in Items, v \in Voices : player[i][v] # Nobody => Fits(i, v)
IInv == TypeOK /\ PartsFit

LEMMA RowStep ==
    ASSUME IInv, NEW r \in Rows, Hide(r) \/ Show(r)
    PROVE  BookTypeOK' /\ PartsFit'
BY DEF IInv, TypeOK, BookTypeOK, PartsFit, Fits, Hide, Show

LEMMA AssignStep ==
    ASSUME IInv, NEW i \in Items, NEW v \in Voices, NEW u \in Users, Assign(i, v, u)
    PROVE  BookTypeOK' /\ PartsFit'
<1>1. live' = live /\ player' = [player EXCEPT ![i][v] = u] /\ Fits(i, v)
  BY DEF Assign
<1>2. BookTypeOK'
  BY <1>1 DEF IInv, TypeOK, BookTypeOK
<1>3. ASSUME NEW j \in Items, NEW w \in Voices, player'[j][w] # Nobody
      PROVE  Fits(j, w)'
  <2>1. CASE j = i /\ w = v
    BY <1>1, <2>1 DEF Fits
  <2>2. CASE ~(j = i /\ w = v)
    <3>1. player'[j][w] = player[j][w]
      BY <1>1, <2>2 DEF IInv, TypeOK, BookTypeOK
    <3> QED BY <3>1, <1>3 DEF IInv, PartsFit, Fits
  <2> QED BY <2>1, <2>2
<1> QED BY <1>2, <1>3 DEF PartsFit

LEMMA UnassignStep ==
    ASSUME IInv, NEW i \in Items, NEW v \in Voices, Unassign(i, v)
    PROVE  BookTypeOK' /\ PartsFit'
<1>1. live' = live /\ player' = [player EXCEPT ![i][v] = Nobody]
  BY DEF Unassign
<1>2. BookTypeOK'
  BY <1>1 DEF IInv, TypeOK, BookTypeOK
<1>3. ASSUME NEW j \in Items, NEW w \in Voices, player'[j][w] # Nobody
      PROVE  Fits(j, w)'
  <2>1. player'[j][w] = player[j][w]
    BY <1>1, <1>3 DEF IInv, TypeOK, BookTypeOK
  <2> QED BY <2>1, <1>3 DEF IInv, PartsFit, Fits
<1> QED BY <1>2, <1>3 DEF PartsFit

LEMMA RoleStep ==
    ASSUME IInv, NEW u \in Users, NEW r \in Roles, SetRole(u, r)
    PROVE  IInv'
BY DEF IInv, TypeOK, BookTypeOK, PartsFit, Fits, SetRole, book

LEMMA Inductive ==
    ASSUME IInv, [TreeNext]_vars
    PROVE  IInv'
<1>1. CASE Next /\ UNCHANGED role
  <2>1. BookTypeOK' /\ PartsFit'
    BY <1>1, RowStep, AssignStep, UnassignStep DEF Next
  <2> QED BY <1>1, <2>1 DEF IInv, TypeOK
<1>2. CASE \E u \in Users, r \in Roles : SetRole(u, r)
  BY <1>2, RoleStep
<1>3. CASE UNCHANGED vars
  BY <1>3 DEF IInv, TypeOK, BookTypeOK, PartsFit, Fits, vars
<1> QED BY <1>1, <1>2, <1>3 DEF TreeNext

LEMMA Initially ==
    ASSUME TreeInit
    PROVE  IInv
BY DEF TreeInit, Init, IInv, TypeOK, BookTypeOK, PartsFit, Fits, Roles

\* TypeOK, and every assignment is of a voice of its piece's arrangement, in
\* every reachable state (assign, part_assignment.rs).
THEOREM TypeCorrect == TreeSpec => [](TypeOK /\ PartsFit)
<1>1. IInv /\ [TreeNext]_vars => IInv'
  BY Inductive
<1>2. TreeInit => IInv
  BY Initially
<1>3. IInv => TypeOK /\ PartsFit
  BY DEF IInv
<1> QED BY <1>1, <1>2, <1>3, PTL DEF TreeSpec

------------------------------------------------------------------------------

\* A part somebody plays is in the piece's arrangement.
LEMMA PlayedFits ==
    ASSUME IInv, NEW u \in Users, NEW i \in Items, NEW v \in Voices, Plays(u, i, v)
    PROVE  ArrangementOf[v] = PieceOf[i]
BY NobodyAssumption DEF IInv, PartsFit, Fits, Plays

\* has_assignment_on_item_voice is enough for every directory above the voice.
LEMMA VoiceOpensWhatIsAbove ==
    ASSUME NEW u \in Users, NEW c \in Collections, NEW i \in Items, NEW v \in Voices,
           ResolveItemVoice(u, c, i, v)
    PROVE  ResolveItem(u, c, i) /\ ResolveCollection(u, c)
BY DEF ResolveItemVoice, ItemAt, ResolveItem, ResolveCollection, HasAssignmentOnItem,
       HasAssignmentInCollection, HasAssignmentOnItemVoice, InCatalog

LEMMA Lockstep == ListedIffOpens
<1> SUFFICES ASSUME NEW u \in Users
             PROVE
        /\ \A a \in Arrangements : a \in VisibleArrangements(u) <=> ResolveArrangement(u, a)
        /\ \A a \in Arrangements, v \in Voices : v \in ListVoices(u, a) <=> ResolveVoice(u, a, v)
        /\ \A c \in Collections : c \in VisibleCollections(u) <=> ResolveCollection(u, c)
        /\ \A c \in Collections, i \in Items : i \in ListCollection(u, c) <=> ResolveItem(u, c, i)
        /\ \A c \in Collections, i \in Items, v \in Voices :
              v \in ListItemVoices(u, c, i) <=> ResolveItemVoice(u, c, i, v)
        /\ \A a \in Arrangements : "score" \in ListArrangement(u, a) <=> OpenScore(u, a)
        /\ \A c \in Collections, i \in Items :
              "score" \in ListItem(u, c, i) <=> OpenItemScore(u, c, i)
        /\ VisibleArrangements(u) # {} \/ VisibleCollections(u) # {} => VisibleOrg(u)
  BY DEF ListedIffOpens
<1>1. \A a \in Arrangements : a \in VisibleArrangements(u) <=> ResolveArrangement(u, a)
  BY DEF VisibleArrangements, ResolveArrangement, HasAssignmentOnArrangement
<1>2. \A a \in Arrangements, v \in Voices : v \in ListVoices(u, a) <=> ResolveVoice(u, a, v)
  BY DEF ListVoices, ResolveVoice, VisibleVoices, HasAssignmentOnVoice
<1>3. \A c \in Collections : c \in VisibleCollections(u) <=> ResolveCollection(u, c)
  BY DEF VisibleCollections, ResolveCollection, HasAssignmentInCollection
<1>4. ASSUME NEW c \in Collections, NEW i \in Items
      PROVE  i \in ListCollection(u, c) <=> ResolveItem(u, c, i)
  <2>1. ResolveItem(u, c, i) => ResolveCollection(u, c)
    BY DEF ResolveItem, ResolveCollection, ItemAt, HasAssignmentOnItem,
           HasAssignmentInCollection, InCatalog
  <2> QED BY <2>1 DEF ListCollection, VisibleItems, ResolveItem, ResolveCollection, ItemAt,
                      HasAssignmentOnItem
<1>5. ASSUME NEW c \in Collections, NEW i \in Items, NEW v \in Voices
      PROVE  v \in ListItemVoices(u, c, i) <=> ResolveItemVoice(u, c, i, v)
  BY VoiceOpensWhatIsAbove
     DEF ListItemVoices, VisibleItemVoices, ResolveItemVoice, ResolveItem, HasAssignmentOnItemVoice
<1>6. VisibleArrangements(u) # {} \/ VisibleCollections(u) # {} => VisibleOrg(u)
  <2>1. IsStaff(u) => role[u] # "none"
    BY DEF IsStaff, Staff
  <2> QED BY <2>1 DEF VisibleArrangements, VisibleCollections, VisibleOrg, InProgram, InCatalog
<1>7. \A a \in Arrangements : "score" \in ListArrangement(u, a) <=> OpenScore(u, a)
  BY DEF ListArrangement, OpenScore
<1>8. \A c \in Collections, i \in Items : "score" \in ListItem(u, c, i) <=> OpenItemScore(u, c, i)
  BY DEF ListItem, OpenItemScore
<1> QED BY <1>1, <1>2, <1>3, <1>4, <1>5, <1>6, <1>7, <1>8

LEMMA SameInBothTrees == ASSUME IInv PROVE SameVoices
<1> SUFFICES ASSUME NEW u \in Users, NEW v \in Voices
             PROVE  /\ (\E i \in Items : ResolveItemVoice(u, ProgramOf[i], i, v))
                         => ResolveVoice(u, ArrangementOf[v], v)
                    /\ ~IsStaff(u) /\ ResolveVoice(u, ArrangementOf[v], v)
                         => \E i \in Items : ResolveItemVoice(u, ProgramOf[i], i, v)
  BY DEF SameVoices
<1>1. ASSUME NEW i \in Items, ResolveItemVoice(u, ProgramOf[i], i, v)
      PROVE  ResolveVoice(u, ArrangementOf[v], v)
  <2>1. /\ ProgramOf[i] \in live /\ i \in live /\ PieceOf[i] \in live /\ v \in live
        /\ ArrangementOf[v] = PieceOf[i]
        /\ IsStaff(u) \/ Plays(u, i, v)
    BY <1>1 DEF ResolveItemVoice, ItemAt, Fits, HasAssignmentOnItemVoice
  <2> QED BY <2>1 DEF ResolveVoice, ResolveArrangement, HasAssignmentOnArrangement,
                      HasAssignmentOnVoice, InProgram
<1>2. ASSUME ~IsStaff(u), ResolveVoice(u, ArrangementOf[v], v)
      PROVE  \E i \in Items : ResolveItemVoice(u, ProgramOf[i], i, v)
  <2>1. PICK i \in Items : InProgram(u, i, v)
    BY <1>2 DEF ResolveVoice, HasAssignmentOnVoice
  <2>2. ArrangementOf[v] = PieceOf[i]
    BY <2>1, PlayedFits DEF InProgram
  <2>3. v \in live /\ PieceOf[i] \in live
    BY <1>2, <2>2 DEF ResolveVoice, ResolveArrangement
  <2> QED BY <2>1, <2>2, <2>3 DEF ResolveItemVoice, ItemAt, Fits, InProgram,
                                  HasAssignmentOnItemVoice
<1> QED BY <1>1, <1>2

\* The report's joins and the tree's are the same, whoever the player is.
LEMMA Covered == ASSUME IInv PROVE CoveredIffOpened
<1> SUFFICES ASSUME NEW c \in Collections, NEW i \in Items, NEW v \in Voices
             PROVE  v \in Assigned(c, i)
                      <=> \E u \in Users : Plays(u, i, v) /\ ResolveItemVoice(u, c, i, v)
  BY DEF CoveredIffOpened
<1>1. player[i][v] \in Users \cup {Nobody}
  BY DEF IInv, TypeOK, BookTypeOK
<1>2. ASSUME v \in Assigned(c, i)
      PROVE  \E u \in Users : Plays(u, i, v) /\ ResolveItemVoice(u, c, i, v)
  <2>1. player[i][v] \in Users /\ Plays(player[i][v], i, v)
    BY <1>1, <1>2 DEF Assigned, Plays
  <2> QED BY <1>2, <2>1 DEF Assigned, Required, ResolveItemVoice, ItemAt, HasAssignmentOnItemVoice
<1>3. ASSUME NEW u \in Users, Plays(u, i, v), ResolveItemVoice(u, c, i, v)
      PROVE  v \in Assigned(c, i)
  BY <1>3, NobodyAssumption DEF Plays, ResolveItemVoice, ItemAt, Assigned, Required
<1> QED BY <1>2, <1>3

\* Who writes is staff, and staff open every live voice of a live arrangement.
LEMMA Writing == WritersRead
BY DEF WritersRead, ResolveForWrite, WriteVoice, WriteAnnotation, OpenScore, ResolveVoice,
       ResolveArrangement, IsStaff, Staff, Writers

LEMMA SomethingEverywhere == ASSUME IInv PROVE NothingEmpty
<1> SUFFICES ASSUME NEW u \in Users, ~IsStaff(u)
             PROVE
        /\ \A a \in VisibleArrangements(u) : ListVoices(u, a) # {}
        /\ \A c \in VisibleCollections(u) : ListCollection(u, c) # {}
        /\ \A c \in Collections, i \in Items : ResolveItem(u, c, i) => ListItemVoices(u, c, i) # {}
  BY DEF NothingEmpty
<1>1. ASSUME NEW a \in VisibleArrangements(u)
      PROVE  ListVoices(u, a) # {}
  <2>1. PICK i \in Items, v \in Voices : InProgram(u, i, v) /\ v \in live /\ ArrangementOf[v] = a
    BY DEF VisibleArrangements
  <2>2. a \in Arrangements /\ a \in live
    BY DEF VisibleArrangements
  <2>3. v \in ListVoices(u, a)
    BY <2>1, <2>2 DEF ListVoices, VisibleVoices, ResolveArrangement, HasAssignmentOnArrangement
  <2> QED BY <2>3
<1>2. ASSUME NEW c \in VisibleCollections(u)
      PROVE  ListCollection(u, c) # {}
  <2>1. PICK i \in Items, v \in Voices : InCatalog(u, i, v) /\ ProgramOf[i] = c
    BY DEF VisibleCollections
  <2>2. c \in Collections /\ c \in live
    BY DEF VisibleCollections
  <2>3. ResolveCollection(u, c)
    BY <2>1, <2>2 DEF ResolveCollection, HasAssignmentInCollection
  <2>4. i \in VisibleItems(u, c)
    BY <2>1 DEF VisibleItems, InCatalog
  <2> QED BY <2>3, <2>4 DEF ListCollection
<1>3. ASSUME NEW c \in Collections, NEW i \in Items, ResolveItem(u, c, i)
      PROVE  ListItemVoices(u, c, i) # {}
  <2>1. PICK v \in Voices : InCatalog(u, i, v)
    BY <1>3 DEF ResolveItem, HasAssignmentOnItem
  <2>2. Fits(i, v)
    BY <2>1, PlayedFits DEF InCatalog, Fits
  <2>3. v \in VisibleItemVoices(u, i)
    BY <2>1, <2>2 DEF VisibleItemVoices, InCatalog
  <2> QED BY <1>3, <2>3 DEF ListItemVoices
<1> QED BY <1>1, <1>2, <1>3

\* In every reachable state a listing shows what opens and nothing else.
THEOREM ListingsOpen == TreeSpec => []ListedIffOpens
BY Lockstep, PTL

\* In every reachable state the arrangements and the collections tree open the
\* same voices to a musician or a guest, the coverage report counts a voice as
\* covered exactly where its player opens it, and nobody writes what they cannot
\* read.
THEOREM OneAccess == TreeSpec => []AccessAgrees
<1>1. IInv => AccessAgrees
  BY SameInBothTrees, Covered, Writing DEF AccessAgrees
<1>2. TypeOK /\ PartsFit => IInv
  BY DEF IInv
<1> QED BY <1>1, <1>2, TypeCorrect, PTL

\* In every reachable state no directory below the organization is empty to a
\* musician or a guest who is shown it.
THEOREM NoEmptyDirectories == TreeSpec => []NothingEmpty
<1>1. IInv => NothingEmpty
  BY SomethingEverywhere
<1>2. TypeOK /\ PartsFit => IInv
  BY DEF IInv
<1> QED BY <1>1, <1>2, TypeCorrect, PTL

------------------------------------------------------------------------------
(***************************************************************************)
(* The stored search documents.  A transaction stores what it computed     *)
(* from a snapshot, so the invariant follows every document from the       *)
(* snapshot to the commit: while its transaction is under way it stays the *)
(* one its change makes of the rows committed since (UpToDate), unless one *)
(* of these commits concerned its arrangement, and no arrangement that     *)
(* needs a document is missing (AllOfThem).  Locks play no part in this:   *)
(* a change of others that matters to a document always concerns its       *)
(* arrangement (Elsewhere, NewTargets, LostBase).                          *)
(***************************************************************************)

\* The committed rows, and a transaction.
Data == [there : SUBSET Arrangements, deleted : SUBSET Arrangements,
         title : [Arrangements -> Texts \cup {none}],
         work : [Arrangements -> Works \cup {none}],
         composer : [Works -> Texts],
         name : [Tags -> Texts], live : SUBSET Tags,
         carried : SUBSET Pairs]
Todos == {<< >>} \cup UNION {[S -> Documents] : S \in SUBSET Arrangements}
Transactions == [at : {"idle", "written", "running"}, change : Change \cup {Nothing},
                 todo : Todos, held : SUBSET (Arrangements \cup Works \cup Tags \cup Pairs),
                 met : SUBSET Arrangements]

\* A change names the rows its statement is about.
OfArrangement == {"insert", "edit", "remove", "restore"}
OfTag == {"rename", "hide", "show"}
OfPair == {"attach", "detach"}
Proper(ch) ==
    /\ ch.do \in OfArrangement \cup {"compose"} \cup OfTag \cup OfPair
    /\ ch.do \in OfArrangement \cup OfPair => ch.a \in Arrangements
    /\ ch.do = "compose" => ch.w \in Works /\ ch.retitled \in BOOLEAN
    /\ ch.do \in OfTag \cup OfPair => ch.t \in Tags
    /\ ch.do \in {"insert", "edit", "compose", "rename"} => ch.text \in Texts
    /\ ch.do \in {"insert", "edit"} => ch.w \in Works \cup {none}

\* The arrangements a change concerns in the rows that are committed.
Base(d, ch) ==
    IF ch.do = "compose" THEN {a \in Arrangements : d.work[a] = ch.w}
    ELSE IF ch.do \in OfTag THEN {a \in Arrangements : <<a, ch.t>> \in d.carried}
    ELSE {ch.a}

\* Whoever is at work has made a change it found the rows for, and has nothing
\* to store before its trigger ran.
Underwritten ==
    \A c \in Clients :
        /\ tx[c].at = "running" \/ tx[c].todo = << >>
        /\ tx[c].at # "idle" =>
              /\ Proper(tx[c].change)
              /\ tx[c].change.do \in {"remove"} \cup OfPair => tx[c].change.a \in data.there

\* What a transaction is about to store, where it met nobody: the documents that
\* its own change makes of the rows as they are now,
UpToDate ==
    \A c \in Clients : tx[c].at = "running" =>
        \A a \in DOMAIN tx[c].todo \ tx[c].met :
            tx[c].todo[a] = arrangement_search_document(After(data, tx[c].change), a)
\* one for every arrangement that needs one,
AllOfThem ==
    \A c \in Clients : tx[c].at = "running" =>
        Targets(data, tx[c].change) \ DOMAIN tx[c].todo \subseteq tx[c].met
\* and none for one it does not concern.
OnlyThose ==
    \A c \in Clients : tx[c].at = "running" =>
        DOMAIN tx[c].todo \subseteq Base(data, tx[c].change) \cup tx[c].met

SearchTyped ==
    /\ data \in Data
    /\ data.deleted \subseteq data.there
    /\ data.carried \subseteq data.there \X Tags
    /\ doc \in [Arrangements -> Documents]
    /\ begun \in 0..MaxWrites
    /\ raced \subseteq Arrangements
    /\ tx \in [Clients -> Transactions]
SearchInv == SearchTyped /\ Underwritten /\ UpToDate /\ AllOfThem /\ OnlyThose /\ FreshUnlessRaced

\* A transaction that changes one arrangement or one pair holds the row it
\* writes, and nothing but that row and its arrangement's.
HoldsItsOwn ==
    \A c \in Clients : tx[c].at # "idle" /\ tx[c].change.do \in OfArrangement \cup OfPair =>
        /\ Locks(tx[c].change) \subseteq tx[c].held
        /\ tx[c].held \subseteq Locks(tx[c].change) \cup DOMAIN tx[c].todo
        /\ DOMAIN tx[c].todo \subseteq {tx[c].change.a}

------------------------------------------------------------------------------
(* What a statement does to each part of the rows.                         *)

\* `e' is what the statement of `ch' makes of `d'.
Made(d, ch, e) ==
    /\ ch.do = "insert" => e.there = d.there \cup {ch.a}
    /\ ch.do # "insert" => e.there = d.there
    /\ ch.do = "remove" => e.deleted = d.deleted \cup {ch.a}
    /\ ch.do = "restore" => e.deleted = d.deleted \ {ch.a}
    /\ ch.do \notin {"remove", "restore"} => e.deleted = d.deleted
    /\ ch.do \in {"insert", "edit"} =>
         \A a \in Arrangements :
            /\ e.title[a] = IF a = ch.a THEN ch.text ELSE d.title[a]
            /\ e.work[a] = IF a = ch.a THEN ch.w ELSE d.work[a]
    /\ ch.do \notin {"insert", "edit"} =>
         e.title = d.title /\ e.work = d.work
    /\ ch.do = "compose" => \A w \in Works :
         e.composer[w] = IF w = ch.w THEN ch.text ELSE d.composer[w]
    /\ ch.do # "compose" => e.composer = d.composer
    /\ ch.do = "rename" => \A t \in Tags :
         e.name[t] = IF t = ch.t THEN ch.text ELSE d.name[t]
    /\ ch.do # "rename" => e.name = d.name
    /\ ch.do = "hide" => e.live = d.live \ {ch.t}
    /\ ch.do = "show" => e.live = d.live \cup {ch.t}
    /\ ch.do \notin {"hide", "show"} => e.live = d.live
    /\ ch.do = "attach" => e.carried = d.carried \cup {<<ch.a, ch.t>>}
    /\ ch.do = "detach" => e.carried = d.carried \ {<<ch.a, ch.t>>}
    /\ ch.do \notin OfPair => e.carried = d.carried

LEMMA AfterIs ==
    ASSUME NEW d \in Data, NEW ch, Proper(ch)
    PROVE  After(d, ch) \in Data /\ Made(d, ch, After(d, ch))
<1>1. CASE ch.do = "insert"
  BY <1>1 DEF Made, After, Data, Proper, OfArrangement, OfPair
<1>2. CASE ch.do = "edit"
  BY <1>2 DEF Made, After, Data, Proper, OfArrangement, OfPair
<1>3. CASE ch.do = "remove"
  BY <1>3 DEF Made, After, Data, Proper, OfArrangement, OfPair
<1>4. CASE ch.do = "restore"
  BY <1>4 DEF Made, After, Data, Proper, OfArrangement, OfPair
<1>5. CASE ch.do = "compose"
  BY <1>5 DEF Made, After, Data, Proper, OfPair
<1>6. CASE ch.do = "rename"
  BY <1>6 DEF Made, After, Data, Proper, OfTag, OfPair
<1>7. CASE ch.do = "hide"
  BY <1>7 DEF Made, After, Data, Proper, OfTag, OfPair
<1>8. CASE ch.do = "show"
  BY <1>8 DEF Made, After, Data, Proper, OfTag, OfPair
<1>9. CASE ch.do = "attach"
  BY <1>9 DEF Made, After, Data, Proper, OfPair, Pairs
<1>10. CASE ch.do = "detach"
  BY <1>10 DEF Made, After, Data, Proper, OfPair, Pairs
<1> QED BY <1>1, <1>2, <1>3, <1>4, <1>5, <1>6, <1>7, <1>8, <1>9, <1>10
        DEF Proper, OfArrangement, OfTag, OfPair

\* When an edit leaves the rows as they are, a trigger with a condition is quiet.
Moves(d, ch) ==
    \/ ch.do = "edit" /\ ~(d.title[ch.a] = ch.text /\ d.work[ch.a] = ch.w)
    \/ ch.do = "compose" /\ (ch.retitled \/ d.composer[ch.w] # ch.text)
    \/ ch.do = "rename" /\ d.name[ch.t] # ch.text
    \/ ch.do = "hide" /\ ch.t \in d.live
    \/ ch.do = "show" /\ ch.t \notin d.live

LEMMA SameRows ==
    ASSUME NEW d \in Data, NEW e \in Data,
           d.there = e.there, d.deleted = e.deleted, d.title = e.title, d.work = e.work,
           d.composer = e.composer, d.name = e.name, d.live = e.live, d.carried = e.carried
    PROVE  d = e
BY DEF Data

LEMMA MovesIs ==
    ASSUME NEW d \in Data, NEW ch, Proper(ch), ch.do \in {"edit", "compose"} \cup OfTag
    PROVE  Moves(d, ch) <=> After(d, ch) # d \/ (ch.do = "compose" /\ ch.retitled)
<1>1. CASE ch.do = "edit"
  <2>1. PICK e \in Data : e = After(d, ch) /\ Made(d, ch, e)
    BY AfterIs
  <2>2. /\ e.there = d.there /\ e.deleted = d.deleted /\ e.composer = d.composer
        /\ e.name = d.name /\ e.live = d.live /\ e.carried = d.carried
        /\ \A a \in Arrangements : /\ e.title[a] = IF a = ch.a THEN ch.text ELSE d.title[a]
                                   /\ e.work[a] = IF a = ch.a THEN ch.w ELSE d.work[a]
    BY <1>1, <2>1 DEF Made, OfPair
  <2>3. /\ d.title \in [Arrangements -> Texts \cup {none}] /\ e.title \in [Arrangements -> Texts \cup {none}]
        /\ d.work \in [Arrangements -> Works \cup {none}] /\ e.work \in [Arrangements -> Works \cup {none}]
    BY DEF Data
  <2>4. ch.a \in Arrangements
    BY <1>1 DEF Proper, OfArrangement
  <2>5. e.title = d.title <=> d.title[ch.a] = ch.text
    BY <2>2, <2>3, <2>4
  <2>6. e.work = d.work <=> d.work[ch.a] = ch.w
    BY <2>2, <2>3, <2>4
  <2>7. e = d <=> e.title = d.title /\ e.work = d.work
    BY <2>2, SameRows
  <2> QED BY <1>1, <2>1, <2>5, <2>6, <2>7 DEF Moves
<1>2. CASE ch.do = "compose"
  BY <1>2 DEF After, Data, Proper, Moves
<1>3. CASE ch.do = "rename"
  BY <1>3 DEF After, Data, Proper, OfTag, Moves
<1>4. CASE ch.do \in {"hide", "show"}
  BY <1>4 DEF After, Data, Proper, OfTag, Moves
<1> QED BY <1>1, <1>2, <1>3, <1>4 DEF OfTag

LEMMA TargetsAre ==
    ASSUME NEW d \in Data, NEW ch, Proper(ch)
    PROVE  Targets(d, ch) =
             IF ch.do \in {"insert"} \cup OfPair THEN {ch.a}
             ELSE IF ch.do = "edit" THEN {a \in {ch.a} : Moves(d, ch)}
             ELSE IF ch.do = "compose" THEN {a \in d.there : Moves(d, ch) /\ d.work[a] = ch.w}
             ELSE IF ch.do \in OfTag
               THEN {a \in d.there : Moves(d, ch) /\ <<a, ch.t>> \in d.carried}
             ELSE {}
<1>1. CASE ch.do \in {"insert"} \cup OfPair
  BY <1>1 DEF Targets, arrangement_search_vector_trigger, work_search_vector_trigger,
              tag_search_vector_trigger, arrangement_tag_search_vector_trigger, OfPair
<1>2. CASE ch.do = "edit"
  BY <1>2, MovesIs DEF Targets, arrangement_search_vector_trigger, work_search_vector_trigger,
              tag_search_vector_trigger, arrangement_tag_search_vector_trigger, OfPair
<1>3. CASE ch.do = "compose"
  BY <1>3, MovesIs DEF Targets, arrangement_search_vector_trigger, work_search_vector_trigger,
              tag_search_vector_trigger, arrangement_tag_search_vector_trigger, OfPair
<1>4. CASE ch.do \in OfTag
  BY <1>4, MovesIs DEF Targets, arrangement_search_vector_trigger, work_search_vector_trigger,
              tag_search_vector_trigger, arrangement_tag_search_vector_trigger, OfPair, OfTag
<1>5. CASE ch.do \in {"remove", "restore"}
  BY <1>5 DEF Targets, arrangement_search_vector_trigger, work_search_vector_trigger,
              tag_search_vector_trigger, arrangement_tag_search_vector_trigger, OfPair, OfTag
<1> QED BY <1>1, <1>2, <1>3, <1>4, <1>5 DEF Proper, OfArrangement, OfTag, OfPair

------------------------------------------------------------------------------
(* What a document depends on.                                             *)

LEMMA SameDocument ==
    ASSUME NEW d, NEW e, NEW a,
           d.title[a] = e.title[a], d.work[a] = e.work[a],
           d.work[a] = none \/ d.composer[d.work[a]] = e.composer[e.work[a]],
           \A t : (t \in d.live /\ <<a, t>> \in d.carried)
                    <=> (t \in e.live /\ <<a, t>> \in e.carried),
           \A t : t \in d.live /\ <<a, t>> \in d.carried => d.name[t] = e.name[t]
    PROVE  arrangement_search_document(d, a) = arrangement_search_document(e, a)
<1> DEFINE D == {u \in d.live : <<a, u>> \in d.carried}
           E == {u \in e.live : <<a, u>> \in e.carried}
<1>1. D = E
  OBVIOUS
<1>2. \A t \in D : d.name[t] = e.name[t]
  OBVIOUS
<1>3. {d.name[t] : t \in D} = {e.name[t] : t \in E}
  <2> HIDE DEF D, E
  <2> QED BY <1>1, <1>2
<1> QED BY <1>3 DEF arrangement_search_document

LEMMA DocumentType ==
    ASSUME NEW d \in Data, NEW a \in Arrangements
    PROVE  arrangement_search_document(d, a) \in Documents
<1>1. d.title[a] \in Texts \cup {none}
  BY DEF Data
<1>2. d.work[a] = none \/ d.composer[d.work[a]] \in Texts
  BY DEF Data
<1> DEFINE D == {u \in d.live : <<a, u>> \in d.carried}
<1>4. \A t \in D : d.name[t] \in Texts
  BY DEF Data
<1>3. {d.name[t] : t \in D} \in SUBSET Texts
  <2> HIDE DEF D
  <2> QED BY <1>4
<1> QED BY <1>1, <1>2, <1>3 DEF arrangement_search_document, Documents

\* A change whose triggers leave an arrangement alone leaves its document alone.
LEMMA Untouched ==
    ASSUME NEW d \in Data, NEW ch, Proper(ch), NEW a \in d.there, a \notin Targets(d, ch)
    PROVE  arrangement_search_document(After(d, ch), a) = arrangement_search_document(d, a)
<1>e. PICK e \in Data : e = After(d, ch) /\ Made(d, ch, e)
  BY AfterIs
<1>a. a \in Arrangements
  BY DEF Data
<1>s. SUFFICES arrangement_search_document(e, a) = arrangement_search_document(d, a)
  BY <1>e
<1>1. CASE ch.do \in {"insert", "edit"}
  <2>1. a # ch.a \/ e = d
    BY <1>1, <1>e, TargetsAre, MovesIs
  <2>2. ASSUME a # ch.a PROVE arrangement_search_document(e, a) = arrangement_search_document(d, a)
    <3>1. /\ e.title[a] = d.title[a] /\ e.work[a] = d.work[a]
          /\ e.composer = d.composer /\ e.name = d.name /\ e.live = d.live /\ e.carried = d.carried
      BY <1>1, <1>a, <1>e, <2>2 DEF Made, OfPair
    <3> QED BY <3>1, SameDocument
  <2> QED BY <2>1, <2>2
<1>2. CASE ch.do \in {"remove", "restore"}
  <2>1. /\ e.title = d.title /\ e.work = d.work /\ e.composer = d.composer
        /\ e.name = d.name /\ e.live = d.live /\ e.carried = d.carried
    BY <1>2, <1>e DEF Made, OfPair
  <2> QED BY <2>1, SameDocument
<1>3. CASE ch.do = "compose"
  <2>1. d.work[a] # ch.w \/ e = d
    BY <1>3, <1>e, TargetsAre, MovesIs DEF OfPair
  <2>2. ASSUME d.work[a] # ch.w PROVE arrangement_search_document(e, a) = arrangement_search_document(d, a)
    <3>1. /\ e.title = d.title /\ e.work = d.work
          /\ \A w \in Works : w # ch.w => e.composer[w] = d.composer[w]
          /\ e.name = d.name /\ e.live = d.live /\ e.carried = d.carried
      BY <1>3, <1>e DEF Made, OfPair
    <3>2. e.work[a] = none \/ e.composer[e.work[a]] = d.composer[d.work[a]]
      BY <1>a, <2>2, <3>1 DEF Data
    <3> QED BY <3>1, <3>2, SameDocument
  <2> QED BY <2>1, <2>2
<1>4. CASE ch.do \in OfTag
  <2>1. <<a, ch.t>> \notin d.carried \/ e = d
    BY <1>4, <1>e, TargetsAre, MovesIs DEF OfPair, OfTag
  <2>2. ASSUME <<a, ch.t>> \notin d.carried
        PROVE  arrangement_search_document(e, a) = arrangement_search_document(d, a)
    <3>1. /\ e.title = d.title /\ e.work = d.work /\ e.composer = d.composer /\ e.carried = d.carried
          /\ \A t \in Tags : t # ch.t => (t \in e.live <=> t \in d.live) /\ e.name[t] = d.name[t]
      BY <1>4, <1>e DEF Made, OfTag, OfPair, Data
    <3>2. \A t : <<a, t>> \in d.carried => t \in Tags /\ t # ch.t
      BY <2>2 DEF Data, Pairs
    <3> QED BY <3>1, <3>2, SameDocument
  <2> QED BY <2>1, <2>2
<1>5. CASE ch.do \in OfPair
  <2>1. a # ch.a
    BY <1>5, TargetsAre
  <2>2. /\ e.title = d.title /\ e.work = d.work /\ e.composer = d.composer
        /\ e.name = d.name /\ e.live = d.live
        /\ e.carried \in {d.carried \cup {<<ch.a, ch.t>>}, d.carried \ {<<ch.a, ch.t>>}}
    BY <1>5, <1>e DEF Made, OfPair
  <2>3. \A t : <<a, t>> \in e.carried <=> <<a, t>> \in d.carried
    BY <2>1, <2>2
  <2> QED BY <2>2, <2>3, SameDocument
<1> QED BY <1>1, <1>2, <1>3, <1>4, <1>5 DEF Proper, OfArrangement

------------------------------------------------------------------------------
(* Two changes that do not concern the same arrangement.                   *)

\* A change `o' that puts the arrangement under the work, or the tag, of `ch'.
Links(ch, o) ==
    {a \in {o.a} : \/ ch.do = "compose" /\ o.do \in {"insert", "edit"} /\ o.w = ch.w
                   \/ ch.do \in OfTag /\ o.do = "attach" /\ o.t = ch.t}

\* The arrangements a change concerns while `o' is under way.
Near(d, ch, o) == Base(d, ch) \cup Links(ch, o)

\* Rows that differ in other arrangements, in these works and in these tags only,
Alike(d, e, a, W, T) ==
    /\ d.title[a] = e.title[a] /\ d.work[a] = e.work[a]
    /\ \A w \in Works : w \notin W => d.composer[w] = e.composer[w]
    /\ \A t \in Tags : t \notin T => d.name[t] = e.name[t] /\ (t \in d.live <=> t \in e.live)
    /\ \A t \in Tags : <<a, t>> \in d.carried <=> <<a, t>> \in e.carried
\* which are not the arrangement's.
Outside(d, a, W, T) == d.work[a] \notin W /\ \A t \in T : <<a, t>> \notin d.carried

LEMMA AlikeAfter ==
    ASSUME NEW d \in Data, NEW e \in Data, NEW o, Proper(o), NEW a \in Arrangements,
           NEW W, NEW T, Alike(d, e, a, W, T), Outside(After(d, o), a, W, T)
    PROVE  arrangement_search_document(After(d, o), a) = arrangement_search_document(After(e, o), a)
<1>1. PICK f \in Data : f = After(d, o) /\ Made(d, o, f)
  BY AfterIs
<1>2. PICK g \in Data : g = After(e, o) /\ Made(e, o, g)
  BY AfterIs
<1>3. f.title[a] = g.title[a] /\ f.work[a] = g.work[a]
  BY <1>1, <1>2 DEF Made, Alike
<1>4. \A w \in Works : w \notin W => f.composer[w] = g.composer[w]
  BY <1>1, <1>2 DEF Made, Alike
<1>5. \A t \in Tags : t \notin T => f.name[t] = g.name[t]
  BY <1>1, <1>2 DEF Made, Alike
<1>6. \A t \in Tags : t \notin T => (t \in f.live <=> t \in g.live)
  BY <1>1, <1>2 DEF Made, Alike
<1>7. \A t \in Tags : <<a, t>> \in f.carried <=> <<a, t>> \in g.carried
  <2>1. CASE o.do \in OfPair
    BY <1>1, <1>2, <2>1 DEF Made, Alike, OfPair
  <2>2. CASE o.do \notin OfPair
    BY <1>1, <1>2, <2>2 DEF Made, Alike
  <2> QED BY <2>1, <2>2
<1>8. f.work[a] = none \/ f.composer[f.work[a]] = g.composer[g.work[a]]
  <2>1. f.work[a] \in Works \cup {none} /\ f.work[a] \notin W
    BY <1>1 DEF Data, Outside
  <2> QED BY <1>3, <1>4, <2>1
<1>9. \A t : <<a, t>> \in f.carried => t \in Tags /\ t \notin T
  BY <1>1 DEF Data, Pairs, Outside
<1>10. \A t : <<a, t>> \in g.carried => t \in Tags
  BY DEF Data, Pairs
<1>11. \A t : (t \in f.live /\ <<a, t>> \in f.carried) <=> (t \in g.live /\ <<a, t>> \in g.carried)
  BY <1>6, <1>7, <1>9, <1>10
<1>12. \A t : t \in f.live /\ <<a, t>> \in f.carried => f.name[t] = g.name[t]
  BY <1>5, <1>9
<1> QED BY <1>1, <1>2, <1>3, <1>8, <1>11, <1>12, SameDocument

\* A change leaves the documents alone that another one makes of the
\* arrangements it does not concern.
LEMMA Elsewhere ==
    ASSUME NEW d \in Data, NEW ch, Proper(ch), NEW o, Proper(o), NEW a \in Arrangements,
           a \notin Near(d, ch, o)
    PROVE  arrangement_search_document(After(d, o), a)
             = arrangement_search_document(After(After(d, ch), o), a)
<1>1. PICK e \in Data : e = After(d, ch) /\ Made(d, ch, e)
  BY AfterIs
<1>2. PICK f \in Data : f = After(d, o) /\ Made(d, o, f)
  BY AfterIs
<1>3. CASE ch.do \in OfArrangement \cup OfPair
  <2>1. a # ch.a
    BY <1>3 DEF Near, Base, OfArrangement, OfPair, OfTag
  <2>2. e.title[a] = d.title[a] /\ e.work[a] = d.work[a] /\ e.composer = d.composer
    BY <1>1, <1>3, <2>1 DEF Made, OfArrangement, OfPair
  <2>3. e.name = d.name /\ e.live = d.live
    BY <1>1, <1>3 DEF Made, OfArrangement, OfPair
  <2>4. \A t \in Tags : <<a, t>> \in d.carried <=> <<a, t>> \in e.carried
    <3>1. CASE ch.do \in OfPair
      BY <1>1, <2>1, <3>1 DEF Made, OfPair
    <3>2. CASE ch.do \notin OfPair
      BY <1>1, <3>2 DEF Made
    <3> QED BY <3>1, <3>2
  <2>5. Alike(d, e, a, {}, {}) /\ Outside(f, a, {}, {})
    BY <2>2, <2>3, <2>4 DEF Alike, Outside
  <2> QED BY <1>1, <1>2, <2>5, AlikeAfter
<1>4. CASE ch.do = "compose"
  <2>1. e.title = d.title /\ e.work = d.work /\ e.name = d.name /\ e.live = d.live /\ e.carried = d.carried
    BY <1>1, <1>4 DEF Made, OfPair
  <2>2. \A w \in Works : w \notin {ch.w} => d.composer[w] = e.composer[w]
    BY <1>1, <1>4 DEF Made
  <2>3. d.work[a] # ch.w /\ ~(o.do \in {"insert", "edit"} /\ o.a = a /\ o.w = ch.w)
    BY <1>4 DEF Near, Base, Links
  <2>4. f.work[a] \notin {ch.w}
    BY <1>2, <2>3 DEF Made
  <2>5. Alike(d, e, a, {ch.w}, {}) /\ Outside(f, a, {ch.w}, {})
    BY <2>1, <2>2, <2>4 DEF Alike, Outside
  <2> QED BY <1>1, <1>2, <2>5, AlikeAfter
<1>5. CASE ch.do \in OfTag
  <2>1. e.title = d.title /\ e.work = d.work /\ e.composer = d.composer /\ e.carried = d.carried
    BY <1>1, <1>5 DEF Made, OfTag, OfPair
  <2>2. \A t \in Tags : t \notin {ch.t} => d.name[t] = e.name[t] /\ (t \in d.live <=> t \in e.live)
    BY <1>1, <1>5 DEF Made, OfTag
  <2>3. <<a, ch.t>> \notin d.carried /\ ~(o.do = "attach" /\ o.a = a /\ o.t = ch.t)
    BY <1>5 DEF Near, Base, Links, OfTag
  <2>4. <<a, ch.t>> \notin f.carried
    <3>1. f.carried \subseteq d.carried \/ (o.do = "attach" /\ f.carried = d.carried \cup {<<o.a, o.t>>})
      BY <1>2 DEF Made, OfPair
    <3> QED BY <2>3, <3>1
  <2>5. Alike(d, e, a, {}, {ch.t}) /\ Outside(f, a, {}, {ch.t})
    BY <2>1, <2>2, <2>4 DEF Alike, Outside
  <2> QED BY <1>1, <1>2, <2>5, AlikeAfter
<1> QED BY <1>3, <1>4, <1>5 DEF Proper

LEMMA TargetsAreNear ==
    ASSUME NEW d \in Data, NEW ch, Proper(ch)
    PROVE  Targets(d, ch) \subseteq Base(d, ch)
<1>1. d.there \subseteq Arrangements
  BY DEF Data
<1> QED BY <1>1, TargetsAre DEF Base, OfPair, OfTag

\* A change gives another one a new target only where both are near.
LEMMA NewTargets ==
    ASSUME NEW d \in Data, NEW ch, Proper(ch), NEW o, Proper(o),
           NEW a, a \in Targets(After(d, ch), o), a \notin Targets(d, o)
    PROVE  a \in Near(d, ch, o) /\ a \in Near(d, o, ch)
<1>1. PICK e \in Data : e = After(d, ch) /\ Made(d, ch, e)
  BY AfterIs
<1>2. a \in Targets(e, o)
  BY <1>1
<1>3. CASE o.do \in {"insert"} \cup OfPair
  BY <1>2, <1>3, TargetsAre
<1>4. CASE o.do = "edit"
  <2>1. a = o.a /\ Moves(e, o) /\ ~Moves(d, o)
    BY <1>2, <1>4, TargetsAre DEF OfPair
  <2>2. a \in Arrangements
    BY <2>1, <1>4 DEF Proper, OfArrangement
  <2>3. e.title[a] # d.title[a] \/ e.work[a] # d.work[a]
    BY <2>1, <1>4 DEF Moves
  <2>4. ch.do \in {"insert", "edit"} /\ ch.a = a
    BY <1>1, <2>2, <2>3 DEF Made
  <2> QED BY <1>4, <2>1, <2>4 DEF Near, Base, OfTag
<1>5. CASE o.do = "compose"
  <2>1. /\ a \in e.there /\ Moves(e, o) /\ e.work[a] = o.w
        /\ ~(a \in d.there /\ Moves(d, o) /\ d.work[a] = o.w)
    BY <1>2, <1>5, TargetsAre DEF OfPair
  <2>2. a \in Arrangements /\ o.w \in Works
    BY <2>1, <1>5 DEF Data, Proper
  <2>3. CASE d.work[a] # o.w
    <3>1. ch.do \in {"insert", "edit"} /\ ch.a = a /\ ch.w = o.w
      BY <1>1, <2>1, <2>2, <2>3 DEF Made
    <3> QED BY <1>5, <3>1 DEF Near, Base, Links, OfTag
  <2>4. CASE d.work[a] = o.w /\ a \notin d.there
    <3>1. ch.do = "insert" /\ ch.a = a
      BY <1>1, <2>1, <2>4 DEF Made
    <3> QED BY <1>5, <2>2, <2>4, <3>1 DEF Near, Base, OfTag
  <2>5. CASE d.work[a] = o.w /\ ~Moves(d, o)
    <3>1. e.composer[o.w] # d.composer[o.w]
      BY <1>5, <2>1, <2>5 DEF Moves
    <3>2. ch.do = "compose" /\ ch.w = o.w
      BY <1>1, <2>2, <3>1 DEF Made
    <3> QED BY <1>5, <2>2, <2>5, <3>2 DEF Near, Base
  <2> QED BY <2>1, <2>3, <2>4, <2>5
<1>6. CASE o.do \in OfTag
  <2>1. /\ a \in e.there /\ Moves(e, o) /\ <<a, o.t>> \in e.carried
        /\ ~(a \in d.there /\ Moves(d, o) /\ <<a, o.t>> \in d.carried)
    BY <1>2, <1>6, TargetsAre DEF OfPair, OfTag
  <2>2. a \in Arrangements /\ o.t \in Tags
    BY <2>1, <1>6 DEF Data, Proper
  <2>3. CASE <<a, o.t>> \notin d.carried
    <3>1. ch.do = "attach" /\ ch.a = a /\ ch.t = o.t
      BY <1>1, <2>1, <2>3 DEF Made, OfPair
    <3> QED BY <1>6, <3>1 DEF Near, Base, Links, OfTag
  <2>4. CASE <<a, o.t>> \in d.carried /\ a \notin d.there
    <3>1. ch.do = "insert" /\ ch.a = a
      BY <1>1, <2>1, <2>4 DEF Made
    <3> QED BY <1>6, <2>2, <2>4, <3>1 DEF Near, Base, OfTag
  <2>5. CASE <<a, o.t>> \in d.carried /\ ~Moves(d, o)
    <3>1. e.name[o.t] # d.name[o.t] \/ ~(o.t \in e.live <=> o.t \in d.live)
      BY <1>6, <2>1, <2>5 DEF Moves, OfTag
    <3>2. ch.do \in OfTag /\ ch.t = o.t
      BY <1>1, <2>2, <3>1 DEF Made, OfTag
    <3> QED BY <1>6, <2>2, <2>5, <3>2 DEF Near, Base, OfTag
  <2> QED BY <2>1, <2>3, <2>4, <2>5
<1>7. CASE o.do \in {"remove", "restore"}
  BY <1>2, <1>7, TargetsAre DEF OfPair, OfTag
<1> QED BY <1>3, <1>4, <1>5, <1>6, <1>7 DEF Proper, OfArrangement

\* A change takes an arrangement away from another one only where it is near.
LEMMA LostBase ==
    ASSUME NEW d \in Data, NEW ch, Proper(ch), NEW o, Proper(o),
           NEW a, a \in Base(d, o), a \notin Base(After(d, ch), o)
    PROVE  a \in Near(d, ch, o)
<1>1. PICK e \in Data : e = After(d, ch) /\ Made(d, ch, e)
  BY AfterIs
<1>2. a \notin Base(e, o)
  BY <1>1
<1>3. CASE o.do = "compose"
  <2>1. a \in Arrangements /\ d.work[a] # e.work[a]
    BY <1>2, <1>3 DEF Base
  <2>2. ch.do \in {"insert", "edit"} /\ ch.a = a
    BY <1>1, <2>1 DEF Made
  <2> QED BY <2>2 DEF Near, Base, OfTag
<1>4. CASE o.do \in OfTag
  <2>1. <<a, o.t>> \in d.carried /\ <<a, o.t>> \notin e.carried
    BY <1>2, <1>4 DEF Base, OfTag
  <2>2. ch.do = "detach" /\ ch.a = a
    BY <1>1, <2>1 DEF Made, OfPair
  <2> QED BY <2>2 DEF Near, Base, OfTag
<1>5. CASE o.do # "compose" /\ o.do \notin OfTag
  BY <1>2, <1>5 DEF Base
<1> QED BY <1>3, <1>4, <1>5

------------------------------------------------------------------------------
(* The transactions.                                                       *)

LEMMA TodosAre ==
    ASSUME NEW todo \in Todos
    PROVE  DOMAIN todo \subseteq Arrangements /\ \A a \in DOMAIN todo : todo[a] \in Documents
<1>1. CASE todo = << >>
  <2>1. DOMAIN todo = {}
    BY <1>1
  <2> QED BY <2>1
<1>2. ASSUME NEW S \in SUBSET Arrangements, todo \in [S -> Documents]
      PROVE  DOMAIN todo \subseteq Arrangements /\ \A a \in DOMAIN todo : todo[a] \in Documents
  BY <1>2
<1> QED BY <1>1, <1>2 DEF Todos

LEMMA TypesAre == SearchTyped => SearchTypeOK
<1> SUFFICES ASSUME SearchTyped PROVE SearchTypeOK
  OBVIOUS
<1>1. ASSUME NEW c \in Clients
      PROVE  /\ tx[c].at \in {"idle", "written", "running"}
             /\ tx[c].change \in Change \cup {Nothing}
             /\ DOMAIN tx[c].todo \subseteq Arrangements
             /\ \A a \in DOMAIN tx[c].todo : tx[c].todo[a] \in Documents
             /\ tx[c].held \subseteq Arrangements \cup Works \cup Tags \cup Pairs
             /\ tx[c].met \subseteq Arrangements
  <2>1. tx[c] \in Transactions
    BY DEF SearchTyped
  <2>2. tx[c].todo \in Todos
    BY <2>1 DEF Transactions
  <2> QED BY <2>1, <2>2, TodosAre DEF Transactions
<1> QED BY <1>1 DEF SearchTyped, SearchTypeOK, Data

LEMMA IdleIs ==
    /\ Idle \in Transactions
    /\ Idle.at = "idle" /\ Idle.change = Nothing /\ Idle.todo = << >> /\ Idle.held = {} /\ Idle.met = {}
BY DEF Idle, Transactions, Todos

\* Whom a transaction is on record as concerning, among them those it is near.
LEMMA ConcernsAre ==
    ASSUME SearchTyped, Underwritten, NEW c \in Clients, tx[c].at # "idle"
    PROVE  /\ Concerns(c) \subseteq Arrangements
           /\ \A e \in Clients : tx[e].at # "idle" =>
                 Near(data, tx[c].change, tx[e].change) \subseteq Concerns(c)
<1>1. PICK ch : ch = tx[c].change
  OBVIOUS
<1>2. Proper(ch)
  BY <1>1 DEF Underwritten
<1>3. CASE ch.do = "compose"
  <2>1. Concerns(c) = {a \in Arrangements :
                    \/ data.work[a] = ch.w
                    \/ \E o \in {tx[e].change : e \in Underway} :
                          o.do \in {"insert", "edit"} /\ o.a = a /\ o.w = ch.w}
    BY <1>1, <1>3 DEF Concerns
  <2>2. ASSUME NEW e \in Clients, tx[e].at # "idle", NEW a \in Near(data, ch, tx[e].change)
        PROVE  a \in Concerns(c)
    <3>1. CASE a \in Base(data, ch)
      BY <1>3, <2>1, <3>1 DEF Base
    <3>2. CASE a \in Links(ch, tx[e].change)
      <4>1. PICK o : o = tx[e].change /\ o \in {tx[i].change : i \in Underway} /\ Proper(o)
        BY <2>2 DEF Underway, Underwritten
      <4>2. o.do \in {"insert", "edit"} /\ o.a = a /\ o.w = ch.w
        BY <1>3, <3>2, <4>1 DEF Links, OfTag
      <4>3. a \in Arrangements
        BY <4>1, <4>2 DEF Proper, OfArrangement
      <4> QED BY <2>1, <4>1, <4>2, <4>3
    <3> QED BY <2>2, <3>1, <3>2 DEF Near
  <2> QED BY <1>1, <2>1, <2>2
<1>4. CASE ch.do \in OfTag
  <2>1. Concerns(c) = {a \in Arrangements :
                    \/ <<a, ch.t>> \in data.carried
                    \/ \E o \in {tx[e].change : e \in Underway} :
                          o.do = "attach" /\ o.a = a /\ o.t = ch.t}
    BY <1>1, <1>4 DEF Concerns, OfTag
  <2>2. ASSUME NEW e \in Clients, tx[e].at # "idle", NEW a \in Near(data, ch, tx[e].change)
        PROVE  a \in Concerns(c)
    <3>1. CASE a \in Base(data, ch)
      BY <1>4, <2>1, <3>1 DEF Base, OfTag
    <3>2. CASE a \in Links(ch, tx[e].change)
      <4>1. PICK o : o = tx[e].change /\ o \in {tx[i].change : i \in Underway} /\ Proper(o)
        BY <2>2 DEF Underway, Underwritten
      <4>2. o.do = "attach" /\ o.a = a /\ o.t = ch.t
        BY <1>4, <3>2, <4>1 DEF Links, OfTag
      <4>3. a \in Arrangements
        BY <4>1, <4>2 DEF Proper, OfPair
      <4> QED BY <2>1, <4>1, <4>2, <4>3
    <3> QED BY <2>2, <3>1, <3>2 DEF Near
  <2> QED BY <1>1, <2>1, <2>2
<1>5. CASE ch.do \in OfArrangement \cup OfPair
  <2>1. Concerns(c) = {ch.a}
    BY <1>1, <1>5 DEF Concerns, OfArrangement, OfPair
  <2>2. ch.a \in Arrangements
    BY <1>2, <1>5 DEF Proper
  <2>3. ASSUME NEW o PROVE Near(data, ch, o) = {ch.a}
    BY <1>5 DEF Near, Base, Links, OfArrangement, OfPair, OfTag
  <2> QED BY <1>1, <2>1, <2>2, <2>3
<1> QED BY <1>2, <1>3, <1>4, <1>5 DEF Proper

------------------------------------------------------------------------------
(* The steps.                                                              *)

\* A step of one transaction that leaves the rows as they are.
LEMMA OwnStep ==
    ASSUME SearchInv, NEW c \in Clients, NEW r \in Transactions,
           tx' = [tx EXCEPT ![c] = r], data' = data, doc' = doc, raced' = raced,
           begun' \in 0..MaxWrites,
           r.at = "running" \/ r.todo = << >>,
           r.at # "idle" =>
              /\ Proper(r.change)
              /\ r.change.do \in {"remove"} \cup OfPair => r.change.a \in data.there,
           r.at = "running" =>
              /\ \A a \in DOMAIN r.todo \ r.met :
                    r.todo[a] = arrangement_search_document(After(data, r.change), a)
              /\ Targets(data, r.change) \ DOMAIN r.todo \subseteq r.met
              /\ DOMAIN r.todo \subseteq Base(data, r.change) \cup r.met
    PROVE  SearchInv'
<1>1. tx' \in [Clients -> Transactions]
  BY DEF SearchInv, SearchTyped
<1>2. SearchTyped'
  BY <1>1 DEF SearchInv, SearchTyped
<1>3. \A e \in Clients : tx'[e] = IF e = c THEN r ELSE tx[e]
  BY DEF SearchInv, SearchTyped
<1>4. Underwritten'
  BY <1>3 DEF SearchInv, Underwritten
<1>5. UpToDate'
  BY <1>3 DEF SearchInv, UpToDate
<1>6. AllOfThem'
  BY <1>3 DEF SearchInv, AllOfThem
<1>7. OnlyThose'
  BY <1>3 DEF SearchInv, OnlyThose
<1>8. FreshUnlessRaced'
  BY DEF SearchInv, FreshUnlessRaced
<1> QED BY <1>2, <1>4, <1>5, <1>6, <1>7, <1>8 DEF SearchInv

LEMMA WriteStep ==
    ASSUME SearchInv, NEW c \in Clients, NEW ch \in Change, Proper(ch), Write(c, ch)
    PROVE  SearchInv'
<1>1. PICK r : r = [Idle EXCEPT !.at = "written", !.change = ch, !.held = Locks(ch)]
  OBVIOUS
<1>2. Locks(ch) \in SUBSET (Arrangements \cup Works \cup Tags \cup Pairs)
  BY DEF Locks, Proper, OfArrangement, OfTag, OfPair, Pairs
<1>3. r \in Transactions /\ r.at = "written" /\ r.change = ch /\ r.todo = << >>
  BY <1>1, <1>2 DEF Idle, Transactions, Todos
<1>4. ch.do \in {"remove"} \cup OfPair => ch.a \in data.there
  BY DEF Write, Finds, OfPair, SearchInv, SearchTyped
<1>5. begun' \in 0..MaxWrites
  BY KindsApart DEF Write, SearchInv, SearchTyped
<1> QED BY <1>1, <1>3, <1>4, <1>5, OwnStep DEF Write

LEMMA RefreshStep ==
    ASSUME SearchInv, NEW c \in Clients, refresh(c)
    PROVE  SearchInv'
<1>1. PICK ch : ch = tx[c].change
  OBVIOUS
<1>2. PICK todo : todo = [a \in Targets(data, ch) |-> arrangement_search_document(After(data, ch), a)]
  OBVIOUS
<1>3. PICK r : r = [tx[c] EXCEPT !.at = "running", !.todo = todo]
  OBVIOUS
<1>4. tx[c] \in Transactions /\ tx[c].at = "written" /\ Proper(ch)
      /\ (ch.do \in {"remove"} \cup OfPair => ch.a \in data.there)
  BY <1>1 DEF refresh, SearchInv, SearchTyped, Underwritten
<1>5. tx' = [tx EXCEPT ![c] = r]
  BY <1>1, <1>2, <1>3 DEF refresh, SearchInv, SearchTyped
<1>6. data \in Data /\ After(data, ch) \in Data /\ Base(data, ch) \subseteq Arrangements
  BY <1>4, AfterIs DEF SearchInv, SearchTyped, Base, Proper
<1>7. Targets(data, ch) \subseteq Base(data, ch)
  BY <1>4, <1>6, TargetsAreNear
<1>8. todo \in Todos
  <2>1. \A a \in Targets(data, ch) : arrangement_search_document(After(data, ch), a) \in Documents
    BY <1>6, <1>7, DocumentType
  <2>2. todo \in [Targets(data, ch) -> Documents]
    BY <1>2, <2>1
  <2> QED BY <1>6, <1>7, <2>2 DEF Todos
<1>9. /\ r \in Transactions /\ r.at = "running" /\ r.todo = todo /\ r.change = ch
  BY <1>1, <1>3, <1>4, <1>8 DEF Transactions
<1>10. DOMAIN todo = Targets(data, ch)
       /\ \A a \in DOMAIN todo : todo[a] = arrangement_search_document(After(data, ch), a)
  BY <1>2
<1>11. data' = data /\ doc' = doc /\ raced' = raced /\ begun' \in 0..MaxWrites
  BY DEF refresh, SearchInv, SearchTyped
<1> QED BY <1>4, <1>5, <1>7, <1>9, <1>10, <1>11, OwnStep

LEMMA LockStep ==
    ASSUME SearchInv, NEW c \in Clients, NEW a \in Arrangements, LockRow(c, a)
    PROVE  SearchInv'
<1>1. PICK ch : ch = tx[c].change
  OBVIOUS
<1>2. PICK todo : todo = tx[c].todo
  OBVIOUS
<1>3. PICK rest : rest = IF ch.do = "compose" /\ data.work[a] # ch.w
                           THEN [b \in DOMAIN todo \ {a} |-> todo[b]] ELSE todo
  OBVIOUS
<1>4. PICK r : r = [tx[c] EXCEPT !.held = @ \cup {a}, !.todo = rest]
  OBVIOUS
<1>5. /\ tx[c] \in Transactions /\ tx[c].at = "running" /\ Proper(ch)
      /\ ch.do \in {"remove"} \cup OfPair => ch.a \in data.there
  BY <1>1 DEF LockRow, SearchInv, SearchTyped, Underwritten
<1>6. tx' = [tx EXCEPT ![c] = r]
  BY <1>1, <1>2, <1>3, <1>4 DEF LockRow, SearchInv, SearchTyped
<1>7. todo \in Todos
  BY <1>2, <1>5 DEF Transactions
<1>8. rest \in Todos
  <2>1. DOMAIN todo \ {a} \in SUBSET Arrangements
    BY <1>7, TodosAre
  <2>2. [b \in DOMAIN todo \ {a} |-> todo[b]] \in [DOMAIN todo \ {a} -> Documents]
    BY <1>7, TodosAre
  <2> QED BY <1>3, <1>7, <2>1, <2>2 DEF Todos
<1>9. /\ r \in Transactions /\ r.at = "running" /\ r.todo = rest /\ r.change = ch /\ r.met = tx[c].met
  BY <1>1, <1>4, <1>5, <1>8 DEF Transactions
<1>10. DOMAIN rest \subseteq DOMAIN todo /\ \A b \in DOMAIN rest : rest[b] = todo[b]
  BY <1>3
<1>11. Targets(data, ch) \ DOMAIN rest \subseteq Targets(data, ch) \ DOMAIN todo
  <2>1. CASE ch.do = "compose" /\ data.work[a] # ch.w
    <3>1. DOMAIN rest = DOMAIN todo \ {a}
      BY <1>3, <2>1
    <3>2. a \notin Targets(data, ch)
      BY <1>5, <2>1, TargetsAre DEF OfPair, SearchInv, SearchTyped
    <3> QED BY <3>1, <3>2
  <2> QED BY <1>3, <2>1
<1>12. /\ \A b \in DOMAIN todo \ tx[c].met : todo[b] = arrangement_search_document(After(data, ch), b)
       /\ Targets(data, ch) \ DOMAIN todo \subseteq tx[c].met
       /\ DOMAIN todo \subseteq Base(data, ch) \cup tx[c].met
  BY <1>1, <1>2, <1>5 DEF SearchInv, UpToDate, AllOfThem, OnlyThose
<1>13. data' = data /\ doc' = doc /\ raced' = raced /\ begun' \in 0..MaxWrites
  BY DEF LockRow, SearchInv, SearchTyped
<1>14. /\ \A b \in DOMAIN rest \ tx[c].met : rest[b] = arrangement_search_document(After(data, ch), b)
       /\ Targets(data, ch) \ DOMAIN rest \subseteq tx[c].met
       /\ DOMAIN rest \subseteq Base(data, ch) \cup tx[c].met
  BY <1>10, <1>11, <1>12
<1> QED BY <1>5, <1>6, <1>9, <1>13, <1>14, OwnStep

LEMMA RollbackStep ==
    ASSUME SearchInv, NEW c \in Clients, Rollback(c)
    PROVE  SearchInv'
BY IdleIs, OwnStep DEF Rollback, SearchInv, SearchTyped

\* The step in which the rows change under the other transactions.
LEMMA CommitStep ==
    ASSUME SearchInv, NEW c \in Clients, Commit(c)
    PROVE  SearchInv'
<1>1. PICK ch : ch = tx[c].change
  OBVIOUS
<1>2. PICK todo : todo = tx[c].todo
  OBVIOUS
<1>3. PICK e : e = data'
  OBVIOUS
<1>4. /\ tx[c] \in Transactions /\ tx[c].at = "running" /\ Proper(ch)
      /\ ch.do \in {"remove"} \cup OfPair => ch.a \in data.there
  BY <1>1 DEF Commit, SearchInv, SearchTyped, Underwritten
<1>5. data \in Data /\ e = After(data, ch) /\ e \in Data /\ Made(data, ch, e)
  BY <1>1, <1>3, <1>4, AfterIs DEF Commit, SearchInv, SearchTyped
<1>6. PICK overlap : overlap = tx[c].met \cup UNION {Shared(c, d) : d \in Underway \ {c}}
  OBVIOUS
<1>7. /\ doc' = [a \in Arrangements |-> IF a \in DOMAIN todo THEN todo[a] ELSE doc[a]]
      /\ raced' = (raced \ DOMAIN todo) \cup overlap
      /\ begun' = begun
      /\ tx' = [d \in Clients |->
                    IF d = c THEN Idle
                    ELSE IF d \in Underway THEN [tx[d] EXCEPT !.met = @ \cup Shared(c, d)]
                    ELSE tx[d]]
  BY <1>2, <1>6 DEF Commit
<1>8. todo \in Todos
  BY <1>2, <1>4 DEF Transactions
<1>9. \A d \in Clients : Shared(c, d) \subseteq Arrangements
  BY <1>4, ConcernsAre DEF Shared, SearchInv
<1>10. overlap \subseteq Arrangements
  BY <1>4, <1>6, <1>9 DEF Transactions, Underway
<1>11. ASSUME NEW d \in Clients, d # c, tx[d].at # "idle"
       PROVE  /\ tx'[d] = [tx[d] EXCEPT !.met = @ \cup Shared(c, d)]
              /\ tx'[d] \in Transactions
              /\ tx'[d].at = tx[d].at /\ tx'[d].change = tx[d].change /\ tx'[d].todo = tx[d].todo
              /\ tx'[d].met = tx[d].met \cup Shared(c, d)
  <2>1. tx'[d] = [tx[d] EXCEPT !.met = @ \cup Shared(c, d)]
    BY <1>7, <1>11 DEF Underway
  <2>2. tx[d] \in Transactions
    BY DEF SearchInv, SearchTyped
  <2> QED BY <1>9, <2>1, <2>2 DEF Transactions
<1>12. ASSUME NEW d \in Clients, d = c \/ tx[d].at = "idle"
       PROVE  tx'[d] \in Transactions /\ tx'[d].at = "idle" /\ tx'[d].todo = << >>
  <2>1. CASE d = c
    BY <1>7, <2>1, IdleIs
  <2>2. CASE d # c /\ tx[d].at = "idle"
    <3>1. tx'[d] = tx[d]
      BY <1>7, <2>2 DEF Underway
    <3> QED BY <2>2, <3>1 DEF SearchInv, SearchTyped, Underwritten
  <2> QED BY <1>12, <2>1, <2>2
<1>13. SearchTyped'
  <2>1. e.deleted \subseteq e.there
    BY <1>4, <1>5 DEF Made, SearchInv, SearchTyped
  <2>2. e.carried \subseteq e.there \X Tags
    BY <1>4, <1>5 DEF Made, SearchInv, SearchTyped, OfPair, Proper, OfTag
  <2>3. doc' \in [Arrangements -> Documents]
    BY <1>7, <1>8, TodosAre DEF SearchInv, SearchTyped
  <2>4. raced' \subseteq Arrangements
    BY <1>7, <1>10 DEF SearchInv, SearchTyped
  <2>5. tx' \in [Clients -> Transactions]
    BY <1>7, <1>11, <1>12
  <2> QED BY <1>3, <1>5, <1>7, <2>1, <2>2, <2>3, <2>4, <2>5 DEF SearchInv, SearchTyped
<1>14. Underwritten'
  <2>1. data.there \subseteq e.there
    BY <1>5 DEF Made
  <2>2. ASSUME NEW d \in Clients
        PROVE  /\ tx'[d].at = "running" \/ tx'[d].todo = << >>
               /\ tx'[d].at # "idle" =>
                     /\ Proper(tx'[d].change)
                     /\ tx'[d].change.do \in {"remove"} \cup OfPair => tx'[d].change.a \in e.there
    BY <1>11, <1>12, <2>1 DEF SearchInv, Underwritten
  <2> QED BY <1>3, <2>2 DEF Underwritten
\* Where two transactions meet nobody, the change of one leaves alone what
\* the other one stores.
<1>15. ASSUME NEW d \in Clients, d # c, tx[d].at # "idle",
              NEW a, a \notin Shared(c, d)
       PROVE  ~(a \in Near(data, ch, tx[d].change) /\ a \in Near(data, tx[d].change, ch))
  BY <1>1, <1>4, <1>15, ConcernsAre DEF Shared, SearchInv
<1>16. UpToDate'
  <2>1. ASSUME NEW d \in Clients, tx'[d].at = "running", NEW a \in DOMAIN tx'[d].todo \ tx'[d].met
        PROVE  tx'[d].todo[a] = arrangement_search_document(After(e, tx'[d].change), a)
    <3>1. d # c /\ tx[d].at = "running"
      BY <1>11, <1>12, <2>1
    <3>2. PICK o : o = tx[d].change /\ Proper(o)
      BY <3>1 DEF SearchInv, Underwritten
    <3>3. a \in DOMAIN tx[d].todo /\ a \notin tx[d].met /\ a \notin Shared(c, d)
      BY <1>11, <2>1, <3>1
    <3>4. tx[d].todo[a] = arrangement_search_document(After(data, o), a)
      BY <3>1, <3>2, <3>3 DEF SearchInv, UpToDate
    <3>5. a \in Near(data, o, ch)
      BY <3>1, <3>2, <3>3 DEF SearchInv, OnlyThose, Near
    <3>6. a \notin Near(data, ch, o)
      BY <1>15, <3>1, <3>2, <3>3, <3>5
    <3>7. a \in Arrangements
      BY <3>3, TodosAre DEF SearchInv, SearchTyped, Transactions
    <3>8. arrangement_search_document(After(data, o), a) = arrangement_search_document(After(e, o), a)
      BY <1>4, <1>5, <3>2, <3>6, <3>7, Elsewhere
    <3> QED BY <1>11, <3>1, <3>2, <3>4, <3>8
  <2> QED BY <1>3, <2>1 DEF UpToDate
<1>17. AllOfThem'
  <2>1. ASSUME NEW d \in Clients, tx'[d].at = "running",
               NEW a \in Targets(e, tx'[d].change) \ DOMAIN tx'[d].todo
        PROVE  a \in tx'[d].met
    <3>1. d # c /\ tx[d].at = "running"
      BY <1>11, <1>12, <2>1
    <3>2. PICK o : o = tx[d].change /\ Proper(o)
      BY <3>1 DEF SearchInv, Underwritten
    <3>3. a \in Targets(e, o) /\ a \notin DOMAIN tx[d].todo
      BY <1>11, <2>1, <3>1, <3>2
    <3>4. CASE a \in Targets(data, o)
      BY <1>11, <3>1, <3>2, <3>3, <3>4 DEF SearchInv, AllOfThem
    <3>5. CASE a \notin Targets(data, o)
      <4>1. a \in Near(data, ch, o) /\ a \in Near(data, o, ch)
        BY <1>4, <1>5, <3>2, <3>3, <3>5, NewTargets
      <4> QED BY <1>11, <1>15, <3>1, <3>2, <4>1
    <3> QED BY <3>4, <3>5
  <2> QED BY <1>3, <2>1 DEF AllOfThem
<1>18. OnlyThose'
  <2>1. ASSUME NEW d \in Clients, tx'[d].at = "running", NEW a \in DOMAIN tx'[d].todo
        PROVE  a \in Base(e, tx'[d].change) \cup tx'[d].met
    <3>1. d # c /\ tx[d].at = "running"
      BY <1>11, <1>12, <2>1
    <3>2. PICK o : o = tx[d].change /\ Proper(o)
      BY <3>1 DEF SearchInv, Underwritten
    <3>3. a \in Base(data, o) \cup tx[d].met
      BY <1>11, <2>1, <3>1, <3>2 DEF SearchInv, OnlyThose
    <3>4. CASE a \in Base(data, o) /\ a \notin Base(e, o)
      <4>1. a \in Near(data, ch, o) /\ a \in Near(data, o, ch)
        BY <1>4, <1>5, <3>2, <3>4, LostBase DEF Near
      <4> QED BY <1>11, <1>15, <3>1, <3>2, <4>1
    <3> QED BY <1>11, <3>1, <3>2, <3>3, <3>4
  <2> QED BY <1>3, <2>1 DEF OnlyThose
<1>19. FreshUnlessRaced'
  <2>1. ASSUME NEW a \in e.there \ raced'
        PROVE  doc'[a] = arrangement_search_document(e, a)
    <3>1. a \in Arrangements
      BY <1>5 DEF Data
    <3>2. a \notin tx[c].met
      BY <1>6, <1>7, <2>1
    <3>3. CASE a \in DOMAIN todo
      <4>1. todo[a] = arrangement_search_document(e, a)
        BY <1>1, <1>2, <1>4, <1>5, <3>2, <3>3 DEF SearchInv, UpToDate
      <4> QED BY <1>7, <3>1, <3>3, <4>1
    <3>4. CASE a \notin DOMAIN todo
      <4>1. a \notin Targets(data, ch)
        BY <1>1, <1>2, <1>4, <3>2, <3>4 DEF SearchInv, AllOfThem
      <4>2. a \in data.there
        <5>1. a \in data.there \/ (ch.do = "insert" /\ a = ch.a)
          BY <1>5 DEF Made
        <5> QED BY <1>4, <1>5, <4>1, <5>1, TargetsAre
      <4>3. doc[a] = arrangement_search_document(data, a)
        BY <1>7, <2>1, <3>4, <4>2 DEF SearchInv, FreshUnlessRaced
      <4>4. arrangement_search_document(e, a) = arrangement_search_document(data, a)
        BY <1>4, <1>5, <4>1, <4>2, Untouched
      <4> QED BY <1>7, <3>1, <3>4, <4>3, <4>4
    <3> QED BY <3>3, <3>4
  <2> QED BY <1>3, <2>1 DEF FreshUnlessRaced
<1> QED BY <1>13, <1>14, <1>16, <1>17, <1>18, <1>19 DEF SearchInv

\* Every statement names the rows it writes.
Writes(c) == \E ch \in Change : Proper(ch) /\ Write(c, ch)

LEMMA NextIs ==
    ASSUME SearchNext
    PROVE  \E c \in Clients :
              \/ Writes(c) \/ refresh(c) \/ Commit(c) \/ Rollback(c)
              \/ \E a \in Arrangements : LockRow(c, a)
<1>1. PICK c \in Clients :
        \/ \E a \in Arrangements :
              \/ \E w \in Works \cup {none}, text \in Texts : create(c, a, w, text) \/ update(c, a, w, text)
              \/ soft_delete(c, a) \/ undelete(c, a)
              \/ \E t \in Tags : attach(c, a, t) \/ detach(c, a, t)
              \/ LockRow(c, a)
        \/ \E w \in Works, text \in Texts, retitled \in BOOLEAN : work_update(c, w, text, retitled)
        \/ \E t \in Tags :
              \/ \E text \in Texts : tag_update(c, t, text)
              \/ tag_soft_delete(c, t) \/ tag_undelete(c, t)
        \/ refresh(c) \/ Commit(c) \/ Rollback(c)
  BY DEF SearchNext
<1>2. ASSUME NEW a \in Arrangements, NEW w \in Works \cup {none}, NEW text \in Texts,
             create(c, a, w, text) \/ update(c, a, w, text)
      PROVE  Writes(c)
  <2>1. PICK do \in {"insert", "edit"} : Write(c, [Nothing EXCEPT !.do = do, !.a = a, !.w = w, !.text = text])
    BY <1>2 DEF create, update
  <2>2. PICK ch : ch = [Nothing EXCEPT !.do = do, !.a = a, !.w = w, !.text = text]
    OBVIOUS
  <2>3. ch \in Change /\ Proper(ch)
    BY <2>2 DEF Nothing, Change, Proper, OfArrangement, OfTag, OfPair
  <2> QED BY <2>1, <2>2, <2>3 DEF Writes
<1>3. ASSUME NEW a \in Arrangements, soft_delete(c, a) \/ undelete(c, a)
      PROVE  Writes(c)
  <2>1. PICK do \in {"remove", "restore"} : Write(c, [Nothing EXCEPT !.do = do, !.a = a])
    BY <1>3 DEF soft_delete, undelete
  <2>2. PICK ch : ch = [Nothing EXCEPT !.do = do, !.a = a]
    OBVIOUS
  <2>3. ch \in Change /\ Proper(ch)
    BY <2>2 DEF Nothing, Change, Proper, OfArrangement, OfTag, OfPair
  <2> QED BY <2>1, <2>2, <2>3 DEF Writes
<1>4. ASSUME NEW a \in Arrangements, NEW t \in Tags, attach(c, a, t) \/ detach(c, a, t)
      PROVE  Writes(c)
  <2>1. PICK do \in OfPair : Write(c, [Nothing EXCEPT !.do = do, !.a = a, !.t = t])
    BY <1>4 DEF attach, detach, OfPair
  <2>2. PICK ch : ch = [Nothing EXCEPT !.do = do, !.a = a, !.t = t]
    OBVIOUS
  <2>3. ch \in Change /\ Proper(ch)
    BY <2>2 DEF Nothing, Change, Proper, OfArrangement, OfTag, OfPair
  <2> QED BY <2>1, <2>2, <2>3 DEF Writes
<1>5. ASSUME NEW w \in Works, NEW text \in Texts, NEW retitled \in BOOLEAN,
             work_update(c, w, text, retitled)
      PROVE  Writes(c)
  <2>1. PICK ch : /\ ch = [Nothing EXCEPT !.do = "compose", !.w = w, !.text = text,
                                           !.retitled = retitled]
                  /\ Write(c, ch)
    BY <1>5 DEF work_update
  <2>2. ch \in Change /\ Proper(ch)
    BY <2>1 DEF Nothing, Change, Proper, OfArrangement, OfTag, OfPair
  <2> QED BY <2>1, <2>2 DEF Writes
<1>6. ASSUME NEW t \in Tags, NEW text \in Texts, tag_update(c, t, text)
      PROVE  Writes(c)
  <2>1. PICK ch : ch = [Nothing EXCEPT !.do = "rename", !.t = t, !.text = text] /\ Write(c, ch)
    BY <1>6 DEF tag_update
  <2>2. ch \in Change /\ Proper(ch)
    BY <2>1 DEF Nothing, Change, Proper, OfArrangement, OfTag, OfPair
  <2> QED BY <2>1, <2>2 DEF Writes
<1>7. ASSUME NEW t \in Tags, tag_soft_delete(c, t) \/ tag_undelete(c, t)
      PROVE  Writes(c)
  <2>1. PICK do \in {"hide", "show"} : Write(c, [Nothing EXCEPT !.do = do, !.t = t])
    BY <1>7 DEF tag_soft_delete, tag_undelete
  <2>2. PICK ch : ch = [Nothing EXCEPT !.do = do, !.t = t]
    OBVIOUS
  <2>3. ch \in Change /\ Proper(ch)
    BY <2>2 DEF Nothing, Change, Proper, OfArrangement, OfTag, OfPair
  <2> QED BY <2>1, <2>2, <2>3 DEF Writes
<1> QED BY <1>1, <1>2, <1>3, <1>4, <1>5, <1>6, <1>7

LEMMA SearchInitially == ASSUME SearchInit PROVE SearchInv
<1>1. PICK there \in SUBSET Arrangements, text \in Texts, name \in [Tags -> Texts], w \in Works :
      \E carried \in SUBSET (there \X Tags) :
          data = [there |-> there, deleted |-> {},
                  title |-> [a \in Arrangements |-> IF a \in there THEN text ELSE none],
                  work |-> [a \in Arrangements |-> IF a \in there THEN w ELSE none],
                  composer |-> [v \in Works |-> text],
                  name |-> name, live |-> Tags, carried |-> carried]
  BY DEF SearchInit
<1>2. data \in Data /\ data.deleted = {} /\ data.carried \subseteq data.there \X Tags
  BY <1>1 DEF Data, Pairs
<1>3. /\ doc = [a \in Arrangements |->
                IF a \in data.there THEN arrangement_search_document(data, a) ELSE NoDoc]
      /\ tx = [c \in Clients |-> Idle] /\ begun = 0 /\ raced = {}
  BY DEF SearchInit
<1>4. doc \in [Arrangements -> Documents]
  <2>1. NoDoc \in Documents
    BY DEF NoDoc, Documents
  <2>2. \A a \in Arrangements : arrangement_search_document(data, a) \in Documents
    BY <1>2, DocumentType
  <2> QED BY <1>3, <2>1, <2>2
<1>5. \A c \in Clients : tx[c] = Idle
  BY <1>3
<1>6. SearchTyped
  BY <1>2, <1>3, <1>4, IdleIs, KindsApart DEF SearchTyped
<1>7. Underwritten /\ UpToDate /\ AllOfThem /\ OnlyThose
  BY <1>5, IdleIs DEF Underwritten, UpToDate, AllOfThem, OnlyThose
<1>8. FreshUnlessRaced
  BY <1>2, <1>3 DEF FreshUnlessRaced, Data
<1> QED BY <1>6, <1>7, <1>8 DEF SearchInv

LEMMA SearchInductive == ASSUME SearchInv, [SearchNext]_searchVars PROVE SearchInv'
<1>1. CASE UNCHANGED searchVars
  BY <1>1 DEF searchVars, SearchInv, SearchTyped, Underwritten, UpToDate, AllOfThem, OnlyThose,
              FreshUnlessRaced
<1>2. CASE SearchNext
  <2>1. PICK c \in Clients :
              \/ Writes(c) \/ refresh(c) \/ Commit(c) \/ Rollback(c)
              \/ \E a \in Arrangements : LockRow(c, a)
    BY <1>2, NextIs
  <2>2. CASE Writes(c)
    BY <2>2, WriteStep DEF Writes
  <2> QED BY <2>1, <2>2, RefreshStep, CommitStep, RollbackStep, LockStep
<1> QED BY <1>1, <1>2

------------------------------------------------------------------------------
(* The deadlocks.                                                          *)

LEMMA OwnStatement ==
    ASSUME SearchInv, HoldsItsOwn, NEW c \in Clients, Writes(c)
    PROVE  HoldsItsOwn'
<1>1. PICK ch : Write(c, ch)
  BY DEF Writes
<1>2. PICK r : r = [Idle EXCEPT !.at = "written", !.change = ch, !.held = Locks(ch)]
  OBVIOUS
<1>3. r.change = ch /\ r.held = Locks(ch) /\ DOMAIN r.todo = {}
  BY <1>2 DEF Idle
<1>4. \A e \in Clients : tx'[e] = IF e = c THEN r ELSE tx[e]
  BY <1>1, <1>2 DEF Write, SearchInv, SearchTyped
<1> QED BY <1>3, <1>4 DEF HoldsItsOwn

LEMMA OwnRefresh ==
    ASSUME SearchInv, HoldsItsOwn, NEW c \in Clients, refresh(c)
    PROVE  HoldsItsOwn'
<1>1. PICK ch : ch = tx[c].change /\ Proper(ch)
  BY DEF refresh, SearchInv, Underwritten
<1>2. /\ tx'[c].held = tx[c].held /\ tx'[c].change = ch
      /\ DOMAIN tx'[c].todo = Targets(data, ch)
      /\ \A e \in Clients : e # c => tx'[e] = tx[e]
  BY <1>1 DEF refresh, SearchInv, SearchTyped, Transactions
<1>3. DOMAIN tx[c].todo = {} /\ tx[c].at = "written"
  <2>1. tx[c].todo = << >> /\ tx[c].at = "written"
    BY DEF refresh, SearchInv, Underwritten
  <2> QED BY <2>1
<1>4. ch.do \in OfArrangement \cup OfPair => Targets(data, ch) \subseteq {ch.a}
  BY <1>1, TargetsAreNear DEF Base, OfArrangement, OfPair, OfTag, SearchInv, SearchTyped
<1>5. ASSUME NEW e \in Clients, tx'[e].at # "idle", tx'[e].change.do \in OfArrangement \cup OfPair
      PROVE  /\ Locks(tx'[e].change) \subseteq tx'[e].held
             /\ tx'[e].held \subseteq Locks(tx'[e].change) \cup DOMAIN tx'[e].todo
             /\ DOMAIN tx'[e].todo \subseteq {tx'[e].change.a}
  <2>1. CASE e = c
    BY <1>1, <1>2, <1>3, <1>4, <1>5, <2>1 DEF HoldsItsOwn
  <2>2. CASE e # c
    BY <1>2, <1>5, <2>2 DEF HoldsItsOwn
  <2> QED BY <2>1, <2>2
<1> QED BY <1>5 DEF HoldsItsOwn

LEMMA OwnLock ==
    ASSUME SearchInv, HoldsItsOwn, NEW c \in Clients, NEW a, LockRow(c, a)
    PROVE  HoldsItsOwn'
<1>1. /\ tx'[c].held = tx[c].held \cup {a} /\ tx'[c].change = tx[c].change
      /\ tx[c].change.do # "compose" => tx'[c].todo = tx[c].todo
      /\ \A e \in Clients : e # c => tx'[e] = tx[e]
  BY DEF LockRow, SearchInv, SearchTyped, Transactions
<1>2. a \in DOMAIN tx[c].todo /\ tx[c].at = "running"
  BY DEF LockRow
<1>3. ASSUME NEW e \in Clients, tx'[e].at # "idle", tx'[e].change.do \in OfArrangement \cup OfPair
      PROVE  /\ Locks(tx'[e].change) \subseteq tx'[e].held
             /\ tx'[e].held \subseteq Locks(tx'[e].change) \cup DOMAIN tx'[e].todo
             /\ DOMAIN tx'[e].todo \subseteq {tx'[e].change.a}
  <2>1. CASE e = c
    <3>1. tx'[c].todo = tx[c].todo
      BY <1>1, <1>3, <2>1 DEF OfArrangement, OfPair
    <3> QED BY <1>1, <1>2, <1>3, <2>1, <3>1 DEF HoldsItsOwn
  <2>2. CASE e # c
    BY <1>1, <1>3, <2>2 DEF HoldsItsOwn
  <2> QED BY <2>1, <2>2
<1> QED BY <1>3 DEF HoldsItsOwn

LEMMA OwnEnd ==
    ASSUME SearchInv, HoldsItsOwn, NEW c \in Clients, Commit(c) \/ Rollback(c)
    PROVE  HoldsItsOwn'
<1>1. ASSUME NEW e \in Clients
      PROVE  \/ tx'[e].at = "idle"
             \/ /\ tx'[e].at = tx[e].at /\ tx'[e].change = tx[e].change
                /\ tx'[e].held = tx[e].held /\ tx'[e].todo = tx[e].todo
  <2>1. CASE Commit(c)
    <3>1. tx'[e] = IF e = c THEN Idle
                   ELSE IF e \in Underway THEN [tx[e] EXCEPT !.met = @ \cup Shared(c, e)]
                   ELSE tx[e]
      BY <2>1 DEF Commit
    <3>2. tx[e] \in Transactions
      BY DEF SearchInv, SearchTyped
    <3> QED BY <3>1, <3>2, IdleIs DEF Transactions
  <2>2. CASE Rollback(c)
    BY <2>2, IdleIs DEF Rollback, SearchInv, SearchTyped
  <2> QED BY <2>1, <2>2
<1> QED BY <1>1 DEF HoldsItsOwn

LEMMA OwnInductive ==
    ASSUME SearchInv, HoldsItsOwn, [SearchNext]_searchVars PROVE HoldsItsOwn'
<1>1. CASE UNCHANGED searchVars
  BY <1>1 DEF searchVars, HoldsItsOwn
<1>2. CASE SearchNext
  BY <1>2, NextIs, OwnStatement, OwnRefresh, OwnLock, OwnEnd
<1> QED BY <1>1, <1>2

LEMMA OwnFirst == ASSUME SearchInit PROVE HoldsItsOwn
BY IdleIs DEF SearchInit, HoldsItsOwn

LEMMA Victims == ASSUME SearchInv, HoldsItsOwn PROVE VictimsShareMany
<1> SUFFICES ASSUME NEW c \in Clients, NEW d \in Clients, d \in Waits(c), c \in Waits(d),
                    tx[c].change.do \notin {"compose", "rename", "hide", "show"}
             PROVE  FALSE
  BY DEF VictimsShareMany
<1>1. PICK ch : ch = tx[c].change
  OBVIOUS
<1>2. PICK a : a \in DOMAIN tx[c].todo /\ a \notin tx[c].held
  BY DEF Waits
<1>3. PICK b : b \in DOMAIN tx[d].todo /\ b \in tx[c].held
  BY DEF Waits
<1>4. /\ DOMAIN tx[c].todo \subseteq Arrangements /\ DOMAIN tx[d].todo \subseteq Arrangements
  BY TodosAre DEF SearchInv, SearchTyped, Transactions
<1>5. tx[c].at # "idle"
  <2>1. tx[c].todo # << >>
    BY <1>2
  <2> QED BY <2>1 DEF SearchInv, Underwritten
<1>6. Proper(ch) /\ ch.do \in OfArrangement \cup OfPair
  BY <1>1, <1>5 DEF SearchInv, Underwritten, Proper, OfTag
<1>7. Locks(ch) \subseteq tx[c].held /\ tx[c].held \subseteq Locks(ch) \cup DOMAIN tx[c].todo
      /\ DOMAIN tx[c].todo \subseteq {ch.a}
  BY <1>1, <1>5, <1>6 DEF HoldsItsOwn
<1>8. a = ch.a /\ tx[c].held \subseteq Locks(ch)
  BY <1>2, <1>7
<1>9. CASE ch.do \in OfArrangement
  BY <1>2, <1>7, <1>8, <1>9 DEF Locks, OfArrangement
<1>10. CASE ch.do \in OfPair
  <2>1. b = <<ch.a, ch.t>>
    BY <1>3, <1>8, <1>10 DEF Locks, OfPair
  <2>2. b \in Arrangements \X Tags
    BY <1>6, <1>10, <2>1 DEF Proper
  <2> QED BY <1>3, <1>4, <2>2, KindsApart
<1> QED BY <1>6, <1>9, <1>10

------------------------------------------------------------------------------

\* In every reachable state the rows, the documents and what every transaction
\* is about to store are well typed, and a tag is only on an arrangement that
\* is there: the trigger functions of 0022_search.sql compute documents.
THEOREM SearchTypeCorrect == SearchSpec => []SearchTypeOK
<1>1. SearchSpec => []SearchInv
  BY SearchInitially, SearchInductive, PTL DEF SearchSpec
<1>2. SearchInv => SearchTypeOK
  BY TypesAre DEF SearchInv
<1> QED BY <1>1, <1>2, PTL

\* For any clients, arrangements, works, tags and texts, the triggers keep every
\* stored document the one a query would compute; only transactions that
\* overlapped and both concern an arrangement leave it a stale one.
THEOREM DocumentsFresh == SearchSpec => []FreshUnlessRaced
<1>1. SearchSpec => []SearchInv
  BY SearchInitially, SearchInductive, PTL DEF SearchSpec
<1>2. SearchInv => FreshUnlessRaced
  BY DEF SearchInv
<1> QED BY <1>1, <1>2, PTL

\* Of two transactions that wait for each other both change a tag or a composer,
\* however many are under way: who writes one arrangement holds its row, and who
\* puts a tag on one holds nothing that another one's trigger waits for.
THEOREM FewVictims == SearchSpec => []VictimsShareMany
<1>1. SearchSpec => [](SearchInv /\ HoldsItsOwn)
  BY SearchInitially, SearchInductive, OwnFirst, OwnInductive, PTL DEF SearchSpec
<1> QED BY <1>1, Victims, PTL
==============================================================================
