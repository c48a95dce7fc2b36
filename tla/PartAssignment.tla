--------------------------- MODULE PartAssignment ---------------------------
(***************************************************************************)
(* The part_assignment rows and the requests that hand parts out, on /v1   *)
(* and on the console.  Every statement commits on its own, so a request   *)
(* reads, compares and writes in steps other requests run between.         *)
(*                                                                         *)
(* A timestamp is only ever set or not, so notified and acknowledged hold  *)
(* Nobody for NULL and otherwise whom the editor who set it saw as holder. *)
(***************************************************************************)
EXTENDS Naturals

CONSTANTS
    Arrangements, Voices, Collections, Items, Users, Nobody,
    ArrangementOf, PieceOf, ProgramOf,
    Clients,    \* editors at work: owner, archivist or conductor
    Kinds,      \* the operations they may call
    Overlap,    \* may a request arrive while another one is being served?
    MaxClock,   \* model bound: how often the table is written
    NoItem, NoVoice

Rows == Arrangements \cup Voices \cup Collections \cup Items

ASSUME BoundAssumption == MaxClock \in Nat
ASSUME OverlapAssumption == Overlap \in BOOLEAN
ASSUME NamesAssumption == Nobody \notin Users /\ NoItem \notin Items /\ NoVoice \notin Voices

VARIABLES
    live,    \* the rows whose deleted_at is NULL
    part,    \* the assignment of every item and voice
    clock,   \* now(), in writes of the table
    req      \* what every editor is doing

vars == <<live, part, clock, req>>

Stamps == {"notified", "acknowledged"}

\* The row's id is the write that inserted it, 0 when there is none, and ver
\* the last that touched it: writes are taken to fall in distinct milliseconds.
Assignments ==
    {r \in [id : 0..MaxClock, user : Users \cup {Nobody}, ver : 0..MaxClock,
            at : [Stamps -> Users \cup {Nobody}]] : (r.id = 0) <=> (r.user = Nobody)}
Unstamped == [s \in Stamps |-> Nobody]
NoAssignment == [id |-> 0, user |-> Nobody, ver |-> 0, at |-> Unstamped]

\* assign and assign_part hand a part out; update, mark, delete and unassign
\* name a row by its id.  The second of each pair is the console's.
ByPair == {"assign", "assign_part"}
ById == {"update", "mark", "delete", "unassign"}
ASSUME KindsAssumption == Kinds \subseteq ByPair \cup ById
Versioned == {"assign", "assign_part", "update", "delete"}

\* id, etag and was: the row the editor had in view, its version and holder.
Requests == [op : {"none"} \cup ByPair \cup ById, pc : {"idle", "ready", "find", "write"},
             item : Items \cup {NoItem}, voice : Voices \cup {NoVoice},
             id : 0..MaxClock, etag : 0..MaxClock, was : Users \cup {Nobody},
             user : Users \cup {Nobody}, stamps : SUBSET Stamps]
Idle == [op |-> "none", pc |-> "idle", item |-> NoItem, voice |-> NoVoice,
         id |-> 0, etag |-> 0, was |-> Nobody, user |-> Nobody, stamps |-> {}]

TypeOK ==
    /\ live \subseteq Rows
    /\ part \in [Items -> [Voices -> Assignments]]
    /\ clock \in 0..MaxClock
    /\ req \in [Clients -> Requests]

------------------------------------------------------------------------------

AnyVoiceFits(i, v) == TRUE    \* (as if the voice were not joined with the arrangement)
Fits(i, v) == ArrangementOf[v] = PieceOf[i]
Held(c) == part[req[c].item][req[c].voice]
Exists(i, v) == part[i][v].id # 0

Serving(c) == req[c].pc \in {"find", "write"}
Quiet == Overlap \/ \A c \in Clients : ~Serving(c)

Answer(c) == req' = [req EXCEPT ![c] = Idle]
Goto(c, label) == req' = [req EXCEPT ![c].pc = label]

Hide(r) ==
    /\ Quiet /\ r \in live
    /\ r \in Voices => ArrangementOf[r] \in live
    /\ r \in Items => ProgramOf[r] \in live
    /\ live' = live \ {r}
    /\ UNCHANGED <<part, clock, req>>
Unclashing(r) ==
    r \in Items => \A j \in Items \ {r} :
        j \in live => ~(PieceOf[j] = PieceOf[r] /\ ProgramOf[j] = ProgramOf[r])
Show(r) ==
    /\ Quiet /\ r \notin live /\ Unclashing(r)
    /\ r \in Items => ProgramOf[r] \in live
    /\ live' = live \cup {r}
    /\ UNCHANGED <<part, clock, req>>

------------------------------------------------------------------------------

ItemFound(i) == ProgramOf[i] \in live /\ i \in live

\* The editor opens the piece's page, or lists its assignments.
Look(c, i, v) ==
    /\ req[c].pc = "idle" /\ ItemFound(i)
    /\ req' = [req EXCEPT ![c] = [Idle EXCEPT !.pc = "ready", !.item = i, !.voice = v,
                  !.id = part[i][v].id, !.etag = part[i][v].ver, !.was = part[i][v].user]]
    /\ UNCHANGED <<live, part, clock>>

\* The request arrives: the program and the piece are found, and on the
\* console an arrangement that was removed takes no new players.
Receive(c, op, u, S) ==
    /\ req[c].pc = "ready" /\ Quiet /\ op \in Kinds
    /\ op \in ById => req[c].id # 0
    /\ op = "mark" => S # {}
    /\ IF ItemFound(req[c].item) /\ (op = "assign_part" => PieceOf[req[c].item] \in live)
         THEN req' = [req EXCEPT ![c].pc = "find", ![c].op = op,
                                 ![c].user = IF op \in ByPair THEN u ELSE Nobody,
                                 ![c].stamps = IF op \in {"update", "mark"} THEN S ELSE {}]
         ELSE Answer(c)
    /\ UNCHANGED <<live, part, clock>>

Unversioned(c) == TRUE    \* (as if If-Match were not compared)
Fresh(c) == req[c].op \in Versioned => Held(c).ver = req[c].etag

\* find_by_item_voice or find_by_id, then If-Match or expected_version.  A pair
\* nobody holds asks for no version.
Find(c) ==
    /\ req[c].pc = "find"
    /\ IF IF req[c].op \in ByPair
            THEN Held(c).id # 0 => Fresh(c)
            ELSE Held(c).id = req[c].id /\ Fresh(c)
         THEN Goto(c, "write")
         ELSE Answer(c)
    /\ UNCHANGED <<live, part, clock>>

Now == clock + 1
Inserted(u) == [id |-> Now, user |-> u, ver |-> Now, at |-> Unstamped]
\* (as if the conflict clause left the timestamps alone)
ReplacedOnly(r, u) == [r EXCEPT !.user = u, !.ver = Now]
Replaced(r, u) ==
    [r EXCEPT !.user = u, !.ver = Now, !.at = IF r.user # u THEN Unstamped ELSE @]
\* COALESCE: a timestamp that is left out stays.
Stamped(r, S, whom) ==
    [r EXCEPT !.ver = Now, !.at = [s \in Stamps |-> IF s \in S THEN whom ELSE @[s]]]

\* (as if unassigning cleared the holder and kept the row)
SetFree(r) == [r EXCEPT !.user = Nobody]
Removed(r) == NoAssignment

Tick == clock < MaxClock /\ clock' = Now

Write(c) ==
    LET i == req[c].item
        v == req[c].voice
        To(r) == part' = [part EXCEPT ![i][v] = r] /\ Tick
    IN  /\ req[c].pc = "write"
        /\ Answer(c)
        /\ UNCHANGED live
        /\ \/ /\ req[c].op \in ByPair /\ i \in live /\ v \in live /\ Fits(i, v)
              /\ To(IF Exists(i, v) THEN Replaced(part[i][v], req[c].user)
                                    ELSE Inserted(req[c].user))
           \/ /\ req[c].op \in {"update", "mark"} /\ part[i][v].id = req[c].id
              /\ To(Stamped(part[i][v], req[c].stamps, req[c].was))
           \/ /\ req[c].op \in {"delete", "unassign"} /\ part[i][v].id = req[c].id
              /\ To(Removed(part[i][v]))
           \/ \* no row is written
              /\ IF req[c].op \in ByPair THEN ~(i \in live /\ v \in live /\ Fits(i, v))
                                         ELSE part[i][v].id # req[c].id
              /\ UNCHANGED <<part, clock>>

\* A page nobody submits, a client that goes away, a statement that fails.
Drop(c) == req[c].pc # "idle" /\ Answer(c) /\ UNCHANGED <<live, part, clock>>

Init ==
    /\ live = {}
    /\ part = [i \in Items |-> [v \in Voices |-> NoAssignment]]
    /\ clock = 0
    /\ req = [c \in Clients |-> Idle]

Next ==
    \/ \E r \in Rows : Hide(r) \/ Show(r)
    \/ \E c \in Clients :
         \/ \E i \in Items, v \in Voices : Look(c, i, v)
         \/ \E op \in Kinds, u \in Users, S \in SUBSET Stamps : Receive(c, op, u, S)
         \/ Find(c) \/ Write(c) \/ Drop(c)

Spec == Init /\ [][Next]_vars

------------------------------------------------------------------------------

\* A part that is handed on, edited or taken back by a request that carries a
\* version is in the version its editor looked at (If-Match, expected_version).
OnlyWhatWasSeen ==
    [][\A c \in Clients :
          LET before == Held(c) IN
          req[c].op \in Versioned /\ req'[c] # req[c] /\ part' # part /\ before.id # 0
            => before.ver = req[c].etag]_vars

\* Who is on record as notified, or as having acknowledged a part, is who
\* plays it: "a new assignee has been notified/acknowledged of nothing yet".
StampsOfTheHolder ==
    \A i \in Items, v \in Voices : \A s \in Stamps :
        part[i][v].at[s] \in {Nobody, part[i][v].user}

\* The rows go through the steps of PartBook.
Book == INSTANCE PartBook WITH
          player <- [i \in Items |-> [v \in Voices |-> part[i][v].user]]
ImplementsBook == Book!Spec
=============================================================================
