----------------------- MODULE PartAssignment_proofs -----------------------
(***************************************************************************)
(* The part_assignment rows, for any number of editors, pieces, voices and *)
(* players.  That the rows follow PartBook does not depend on how requests *)
(* overlap, since the INSERT checks what it depends on; what If-Match      *)
(* promises holds of requests served one at a time.                        *)
(***************************************************************************)
EXTENDS PartAssignment, TLAPS

\* A request names a piece and a voice, a new player or a row.
Named ==
    \A c \in Clients : req[c].pc # "idle" =>
        /\ req[c].item \in Items /\ req[c].voice \in Voices
        /\ Serving(c) => /\ req[c].op \in ByPair \cup ById
                         /\ req[c].op \in ByPair => req[c].user \in Users
                         /\ req[c].op \in ById => req[c].id # 0

IInv == TypeOK /\ Named

LEMMA UnstampedType == Unstamped \in [Stamps -> Users \cup {Nobody}]
BY DEF Unstamped

LEMMA NoAssignmentType == NoAssignment \in Assignments
BY UnstampedType, BoundAssumption DEF NoAssignment, Assignments

LEMMA IdleType == Idle \in Requests
BY BoundAssumption DEF Idle, Requests

LEMMA Initially == ASSUME Init PROVE IInv
<1>1. TypeOK
  BY NoAssignmentType, IdleType, BoundAssumption DEF Init, TypeOK
<1>2. Named
  BY DEF Init, Named, Idle
<1> QED BY <1>1, <1>2 DEF IInv

------------------------------------------------------------------------------
(* What becomes of a row.                                                  *)

LEMMA InsertedRow ==
    ASSUME TypeOK, Tick, NEW u \in Users
    PROVE  Inserted(u) \in Assignments /\ Inserted(u).user = u /\ Inserted(u).ver = Now
BY UnstampedType, BoundAssumption, NamesAssumption DEF TypeOK, Tick, Now, Inserted, Assignments

LEMMA ReplacedRow ==
    ASSUME TypeOK, Tick, NEW r \in Assignments, r.id # 0, NEW u \in Users
    PROVE  Replaced(r, u) \in Assignments /\ Replaced(r, u).user = u /\ Replaced(r, u).ver = Now
<1> DEFINE kept == IF r.user # u THEN Unstamped ELSE r.at
<1>1. kept \in [Stamps -> Users \cup {Nobody}]
  BY UnstampedType DEF Assignments
<1>2. Now \in 0..MaxClock
  BY BoundAssumption DEF TypeOK, Tick, Now
<1>3. Replaced(r, u) = [r EXCEPT !.user = u, !.ver = Now, !.at = kept]
  BY DEF Replaced
<1> HIDE DEF kept
<1>4. Replaced(r, u) = [id |-> r.id, user |-> u, ver |-> Now, at |-> kept]
  BY <1>3 DEF Assignments
<1> QED BY <1>1, <1>2, <1>4, NamesAssumption DEF Assignments

LEMMA StampedRow ==
    ASSUME TypeOK, Tick, NEW r \in Assignments, NEW S \in SUBSET Stamps,
           NEW whom \in Users \cup {Nobody}
    PROVE  /\ Stamped(r, S, whom) \in Assignments
           /\ Stamped(r, S, whom).user = r.user /\ Stamped(r, S, whom).ver = Now
<1>1. [s \in Stamps |-> IF s \in S THEN whom ELSE r.at[s]] \in [Stamps -> Users \cup {Nobody}]
  BY DEF Assignments
<1>2. Now \in 0..MaxClock
  BY BoundAssumption DEF TypeOK, Tick, Now
<1> QED BY <1>1, <1>2 DEF Stamped, Assignments

LEMMA RemovedRow ==
    ASSUME NEW r
    PROVE  /\ Removed(r) \in Assignments /\ Removed(r).user = Nobody
           /\ Removed(r).id = 0 /\ Removed(r).ver = 0
BY NoAssignmentType DEF Removed, NoAssignment

\* One row changes at a time, and each of the four statements changes it as it
\* changes the holder in PartBook.
LEMMA WrittenRow ==
    ASSUME IInv, NEW c \in Clients, Write(c)
    PROVE  \/ UNCHANGED <<part, clock>>
           \/ \E r \in Assignments :
                /\ part' = [part EXCEPT ![req[c].item][req[c].voice] = r]
                /\ Tick
                /\ r.ver = Now \/ (r.id = 0 /\ r.ver = 0)
                /\ \/ /\ req[c].op \in ByPair
                      /\ req[c].item \in live /\ req[c].voice \in live
                      /\ Fits(req[c].item, req[c].voice)
                      /\ r.user = req[c].user /\ req[c].user \in Users
                   \/ /\ req[c].op \in {"update", "mark"}
                      /\ r.user = Held(c).user
                   \/ /\ req[c].op \in {"delete", "unassign"}
                      /\ r.user = Nobody
<1> DEFINE i == req[c].item
           v == req[c].voice
<1>1. /\ i \in Items /\ v \in Voices
      /\ req[c].op \in ByPair => req[c].user \in Users
      /\ req[c].stamps \in SUBSET Stamps /\ req[c].was \in Users \cup {Nobody}
  BY DEF IInv, TypeOK, Named, Serving, Requests, Write
<1>2. part[i][v] \in Assignments
  BY <1>1 DEF IInv, TypeOK
<1>3. CASE /\ req[c].op \in ByPair /\ i \in live /\ v \in live /\ Fits(i, v)
           /\ part' = [part EXCEPT ![i][v] = IF Exists(i, v) THEN Replaced(part[i][v], req[c].user)
                                                            ELSE Inserted(req[c].user)]
           /\ Tick
  <2> DEFINE r == IF Exists(i, v) THEN Replaced(part[i][v], req[c].user) ELSE Inserted(req[c].user)
  <2>1. r \in Assignments /\ r.user = req[c].user /\ r.ver = Now
    BY <1>1, <1>2, <1>3, InsertedRow, ReplacedRow DEF IInv, Exists
  <2>2. part' = [part EXCEPT ![i][v] = r]
    BY <1>3
  <2> HIDE DEF r
  <2> QED BY <1>1, <1>3, <2>1, <2>2
<1>4. CASE /\ req[c].op \in {"update", "mark"}
           /\ part' = [part EXCEPT ![i][v] = Stamped(part[i][v], req[c].stamps, req[c].was)]
           /\ Tick
  <2> DEFINE r == Stamped(part[i][v], req[c].stamps, req[c].was)
  <2>1. r \in Assignments /\ r.user = Held(c).user /\ r.ver = Now
    BY <1>1, <1>2, <1>4, StampedRow DEF IInv, Held
  <2>2. part' = [part EXCEPT ![i][v] = r]
    BY <1>4
  <2> HIDE DEF r
  <2> QED BY <1>4, <2>1, <2>2
<1>5. CASE /\ req[c].op \in {"delete", "unassign"}
           /\ part' = [part EXCEPT ![i][v] = Removed(part[i][v])]
           /\ Tick
  BY <1>5, RemovedRow
<1> QED BY <1>3, <1>4, <1>5 DEF Write

------------------------------------------------------------------------------

LEMMA Quiescent ==
    ASSUME IInv, NEW c \in Clients, Answer(c), UNCHANGED <<live, clock, part>>
    PROVE  IInv'
BY IdleType DEF IInv, TypeOK, Named, Answer, Serving, Idle

LEMMA LookStep ==
    ASSUME IInv, NEW c \in Clients, NEW i \in Items, NEW v \in Voices, Look(c, i, v)
    PROVE  IInv'
<1> DEFINE q == [Idle EXCEPT !.pc = "ready", !.item = i, !.voice = v,
                    !.id = part[i][v].id, !.etag = part[i][v].ver, !.was = part[i][v].user]
<1>1. part[i][v] \in Assignments
  BY DEF IInv, TypeOK
<1>2. /\ q \in Requests /\ q.item = i /\ q.voice = v /\ q.pc = "ready"
  BY <1>1, IdleType DEF Requests, Assignments, Idle
<1>3. req' = [req EXCEPT ![c] = q] /\ UNCHANGED <<live, part, clock>>
  BY DEF Look
<1> HIDE DEF q
<1> QED BY <1>2, <1>3 DEF IInv, TypeOK, Named, Serving

LEMMA ReceiveStep ==
    ASSUME IInv, NEW c \in Clients, NEW op \in Kinds, NEW u \in Users, NEW S \in SUBSET Stamps,
           Receive(c, op, u, S)
    PROVE  IInv'
<1>1. CASE Answer(c)
  BY <1>1, Quiescent DEF Receive
<1>2. CASE req' = [req EXCEPT ![c].pc = "find", ![c].op = op,
                              ![c].user = IF op \in ByPair THEN u ELSE Nobody,
                              ![c].stamps = IF op \in {"update", "mark"} THEN S ELSE {}]
  <2> DEFINE q == [req[c] EXCEPT !.pc = "find", !.op = op,
                      !.user = IF op \in ByPair THEN u ELSE Nobody,
                      !.stamps = IF op \in {"update", "mark"} THEN S ELSE {}]
  <2>1. req[c] \in Requests /\ req[c].pc = "ready" /\ (op \in ById => req[c].id # 0)
    BY DEF IInv, TypeOK, Receive
  <2>2. op \in ByPair \cup ById
    BY KindsAssumption
  <2>3. /\ q \in Requests /\ q.op = op /\ q.item = req[c].item /\ q.voice = req[c].voice
        /\ q.id = req[c].id /\ (op \in ByPair => q.user = u)
    BY <2>1, <2>2 DEF Requests
  <2>4. req' = [req EXCEPT ![c] = q]
    BY <1>2 DEF IInv, TypeOK
  <2>5. UNCHANGED <<live, part, clock>>
    BY DEF Receive
  <2> HIDE DEF q
  <2> QED BY <2>1, <2>2, <2>3, <2>4, <2>5 DEF IInv, TypeOK, Named, Serving
<1> QED BY <1>1, <1>2 DEF Receive

LEMMA FindStep ==
    ASSUME IInv, NEW c \in Clients, Find(c)
    PROVE  IInv'
<1>1. CASE Answer(c)
  BY <1>1, Quiescent DEF Find
<1>2. CASE Goto(c, "write")
  <2> DEFINE q == [req[c] EXCEPT !.pc = "write"]
  <2>1. req[c] \in Requests /\ req[c].pc = "find"
    BY DEF IInv, TypeOK, Find
  <2>2. /\ q \in Requests /\ q.op = req[c].op /\ q.item = req[c].item
        /\ q.voice = req[c].voice /\ q.id = req[c].id /\ q.user = req[c].user
    BY <2>1 DEF Requests
  <2>3. req' = [req EXCEPT ![c] = q] /\ UNCHANGED <<live, part, clock>>
    BY <1>2 DEF Goto, Find, IInv, TypeOK
  <2> HIDE DEF q
  <2> QED BY <2>1, <2>2, <2>3 DEF IInv, TypeOK, Named, Serving
<1> QED BY <1>1, <1>2 DEF Find

LEMMA WriteStep ==
    ASSUME IInv, NEW c \in Clients, Write(c)
    PROVE  IInv'
<1>1. Answer(c) /\ UNCHANGED live
  BY DEF Write
<1>2. part' \in [Items -> [Voices -> Assignments]] /\ clock' \in 0..MaxClock
  <2>1. CASE UNCHANGED <<part, clock>>
    BY <2>1 DEF IInv, TypeOK
  <2>2. CASE \E r \in Assignments :
                part' = [part EXCEPT ![req[c].item][req[c].voice] = r] /\ Tick
    <3>1. clock' \in 0..MaxClock
      BY <2>2, BoundAssumption DEF Tick, Now, IInv, TypeOK
    <3>2. part' \in [Items -> [Voices -> Assignments]]
      <4>1. PICK r \in Assignments : part' = [part EXCEPT ![req[c].item][req[c].voice] = r]
        BY <2>2
      <4>2. part \in [Items -> [Voices -> Assignments]]
        BY DEF IInv, TypeOK
      <4> HIDE DEF Assignments
      <4> QED BY <4>1, <4>2
    <3> QED BY <3>1, <3>2
  <2> QED BY <2>1, <2>2, WrittenRow
<1> QED BY <1>1, <1>2, IdleType DEF IInv, TypeOK, Named, Answer, Serving, Idle

LEMMA Inductive ==
    ASSUME IInv, [Next]_vars
    PROVE  IInv'
<1>1. ASSUME NEW r \in Rows, Hide(r) \/ Show(r)
      PROVE  IInv'
  BY <1>1 DEF Hide, Show, IInv, TypeOK, Named, Serving
<1>2. ASSUME NEW c \in Clients, Drop(c)
      PROVE  IInv'
  BY <1>2, Quiescent DEF Drop
<1>3. CASE UNCHANGED vars
  BY <1>3 DEF vars, IInv, TypeOK, Named, Serving
<1> QED BY <1>1, <1>2, <1>3, LookStep, ReceiveStep, FindStep, WriteStep DEF Next

\* Every reachable state is well typed, however requests overlap: there is a
\* player exactly where there is a row, with one player at a time.
THEOREM TypeCorrect == Spec => []TypeOK
<1>1. Init => IInv
  BY Initially
<1>2. IInv /\ [Next]_vars => IInv'
  BY Inductive
<1>3. IInv => TypeOK
  BY DEF IInv
<1> QED BY <1>1, <1>2, <1>3, PTL DEF Spec

------------------------------------------------------------------------------
(* The rows as PartBook sees them.                                         *)

Player == [i \in Items |-> [v \in Voices |-> part[i][v].user]]

LEMMA BookInitially ==
    ASSUME Init
    PROVE  Book!Init
BY DEF Init, Book!Init, NoAssignment

\* Only Write touches a row, so everything else leaves the book alone or marks
\* one row of the catalog.
LEMMA BookRowStep ==
    ASSUME NEW r \in Rows, Hide(r) \/ Show(r)
    PROVE  Book!Next
<1>1. r \in Book!Rows
  BY DEF Rows, Book!Rows
<1>2. Hide(r) => Book!Hide(r)
  BY DEF Hide, Book!Hide
<1>3. Show(r) => Book!Show(r)
  BY DEF Show, Book!Show, Unclashing, Book!Unclashing
<1> QED BY <1>1, <1>2, <1>3 DEF Book!Next

LEMMA BookMoves ==
    ASSUME NEW i \in Items, NEW v \in Voices
    PROVE  /\ Book!Unassign(i, v) => Book!Next
           /\ \A u \in Users : Book!Assign(i, v, u) => Book!Next
BY DEF Book!Next

LEMMA HolderWritten ==
    ASSUME IInv, NEW i \in Items, NEW v \in Voices, NEW r \in Assignments,
           part' = [part EXCEPT ![i][v] = r]
    PROVE  Player' = [Player EXCEPT ![i][v] = r.user]
<1>1. part \in [Items -> [Voices -> Assignments]]
  BY DEF IInv, TypeOK
<1>2. ASSUME NEW j \in Items
      PROVE  Player'[j] = [Player EXCEPT ![i][v] = r.user][j]
  <2>1. CASE j # i
    BY <1>1, <2>1 DEF Player
  <2>2. CASE j = i
    <3>1. part'[i] = [part[i] EXCEPT ![v] = r]
      BY <1>1
    <3>2. [w \in Voices |-> part'[i][w].user] = [[w \in Voices |-> part[i][w].user] EXCEPT ![v] = r.user]
      BY <1>1, <3>1
    <3> QED BY <2>2, <3>2 DEF Player
  <2> QED BY <2>1, <2>2
<1> QED BY <1>2 DEF Player

LEMMA SameHolder ==
    ASSUME NEW i \in Items, NEW v \in Voices, Player' = [Player EXCEPT ![i][v] = part[i][v].user]
    PROVE  Player' = Player
<1>1. Player[i][v] = part[i][v].user
  BY DEF Player
<1>2. [Player[i] EXCEPT ![v] = Player[i][v]] = Player[i]
  BY DEF Player
<1> QED BY <1>1, <1>2 DEF Player

LEMMA BookWriteStep ==
    ASSUME IInv, NEW c \in Clients, Write(c)
    PROVE  Book!Next \/ UNCHANGED Book!book
<1>1. PICK i \in Items, v \in Voices : i = req[c].item /\ v = req[c].voice /\ UNCHANGED live
  BY DEF IInv, Named, Write
<1>2. CASE UNCHANGED <<part, clock>>
  BY <1>1, <1>2 DEF Book!book
<1>3. ASSUME NEW r \in Assignments,
             part' = [part EXCEPT ![i][v] = r] /\ Tick,
             \/ /\ req[c].op \in ByPair /\ i \in live /\ v \in live /\ Fits(i, v)
                /\ r.user = req[c].user /\ req[c].user \in Users
             \/ req[c].op \in {"update", "mark"} /\ r.user = Held(c).user
             \/ req[c].op \in {"delete", "unassign"} /\ r.user = Nobody
      PROVE  Book!Next \/ UNCHANGED Book!book
  <2>1. Player' = [Player EXCEPT ![i][v] = r.user]
    BY <1>1, <1>3, HolderWritten
  <2>2. CASE /\ req[c].op \in ByPair /\ i \in live /\ v \in live /\ Fits(i, v)
             /\ r.user = req[c].user /\ req[c].user \in Users
    <3>1. PICK u \in Users : u = r.user
      BY <2>2
    <3>2. Book!Assign(i, v, u)
      BY <1>1, <2>1, <2>2, <3>1 DEF Book!Assign, Fits, Book!Fits, Player
    <3> QED BY <3>2, BookMoves
  <2>3. CASE req[c].op \in {"update", "mark"} /\ r.user = Held(c).user
    <3>1. r.user = part[i][v].user
      BY <1>1, <2>3 DEF Held
    <3>2. Player' = Player
      BY <1>1, <2>1, <3>1, SameHolder
    <3> QED BY <1>1, <3>2 DEF Book!book, Player
  <2>4. CASE req[c].op \in {"delete", "unassign"} /\ r.user = Nobody
    <3>1. Book!Unassign(i, v)
      BY <1>1, <2>1, <2>4 DEF Book!Unassign, Player
    <3> QED BY <3>1, BookMoves
  <2> QED BY <1>3, <2>2, <2>3, <2>4
<1> QED BY <1>1, <1>2, <1>3, WrittenRow

LEMMA BookStep ==
    ASSUME IInv, [Next]_vars
    PROVE  Book!Next \/ UNCHANGED Book!book
<1>1. CASE UNCHANGED <<live, part>>
  BY <1>1 DEF Book!book
<1>2. ASSUME NEW c \in Clients,
             \/ \E i \in Items, v \in Voices : Look(c, i, v)
             \/ \E op \in Kinds, u \in Users, S \in SUBSET Stamps : Receive(c, op, u, S)
             \/ Find(c) \/ Drop(c)
      PROVE  UNCHANGED <<live, part>>
  BY <1>2 DEF Look, Receive, Find, Drop
<1>3. CASE UNCHANGED vars
  BY <1>1, <1>3 DEF vars
<1> QED BY <1>1, <1>2, <1>3, BookRowStep, BookWriteStep DEF Next

\* However requests overlap, every statement is a step of PartBook or changes
\* nothing there: a part is only handed out for a voice that is in the piece's
\* arrangement, of a piece and a voice that are there at that moment (assign).
THEOREM Implements == Spec => ImplementsBook
<1>1. Init => IInv
  BY Initially
<1>2. IInv /\ [Next]_vars => IInv'
  BY Inductive
<1>3. Init => Book!Init
  BY BookInitially
<1>4. IInv /\ [Next]_vars => [Book!Next]_(Book!book)
  BY BookStep
<1> QED BY <1>1, <1>2, <1>3, <1>4, PTL DEF Spec, ImplementsBook, Book!Spec

------------------------------------------------------------------------------
(* One request at a time: what Find compared is still so at the write.     *)

Alone == \A c, d \in Clients : Serving(c) /\ Serving(d) => c = d

\* What a request is going to write over is what its editor looked at.
Compared ==
    \A c \in Clients : req[c].pc = "write" /\ req[c].op \in Versioned /\ Held(c).id # 0
        => Held(c).ver = req[c].etag

\* No row is younger than the last write.
Past == \A i \in Items, v \in Voices : part[i][v].ver <= clock

\* A version is only ever the version of one holder.
Seen ==
    \A c \in Clients : req[c].pc # "idle" =>
        /\ req[c].etag <= clock
        /\ Held(c).id # 0 /\ Held(c).ver = req[c].etag => Held(c).user = req[c].was

Serial == Alone /\ Compared /\ Past /\ Seen
SInv == IInv /\ Serial

LEMMA SeriallyFirst == ASSUME Init PROVE SInv
BY Initially DEF Init, SInv, Serial, Alone, Compared, Past, Seen, Serving, Idle, NoAssignment

\* A request is answered and nothing is written.
LEMMA SeriallyAnswered ==
    ASSUME SInv, NEW c \in Clients, Answer(c), UNCHANGED <<part, clock>>
    PROVE  Serial'
<1>1. \A d \in Clients : req'[d] = IF d = c THEN Idle ELSE req[d]
  BY DEF SInv, IInv, TypeOK, Answer
<1>2. Idle.pc = "idle"
  BY DEF Idle
<1> QED BY <1>1, <1>2 DEF SInv, Serial, Alone, Compared, Past, Seen, Serving, Held

LEMMA SeriallyLook ==
    ASSUME SInv, NEW c \in Clients, NEW i \in Items, NEW v \in Voices, Look(c, i, v)
    PROVE  Serial'
<1> DEFINE q == [Idle EXCEPT !.pc = "ready", !.item = i, !.voice = v,
                    !.id = part[i][v].id, !.etag = part[i][v].ver, !.was = part[i][v].user]
<1>1. /\ q.pc = "ready" /\ q.item = i /\ q.voice = v
      /\ q.etag = part[i][v].ver /\ q.was = part[i][v].user
  BY DEF Idle
<1>2. /\ \A d \in Clients : req'[d] = IF d = c THEN q ELSE req[d]
      /\ UNCHANGED <<part, clock>>
  BY DEF SInv, IInv, TypeOK, Look
<1> HIDE DEF q
<1> QED BY <1>1, <1>2 DEF SInv, Serial, Alone, Compared, Past, Seen, Serving, Held

LEMMA SeriallyReceived ==
    ASSUME SInv, ~Overlap, NEW c \in Clients, NEW op \in Kinds, NEW u \in Users,
           NEW S \in SUBSET Stamps, Receive(c, op, u, S)
    PROVE  Serial'
<1>1. CASE Answer(c)
  BY <1>1, SeriallyAnswered DEF Receive
<1>2. CASE req' = [req EXCEPT ![c].pc = "find", ![c].op = op,
                              ![c].user = IF op \in ByPair THEN u ELSE Nobody,
                              ![c].stamps = IF op \in {"update", "mark"} THEN S ELSE {}]
  <2> DEFINE q == [req[c] EXCEPT !.pc = "find", !.op = op,
                      !.user = IF op \in ByPair THEN u ELSE Nobody,
                      !.stamps = IF op \in {"update", "mark"} THEN S ELSE {}]
  <2>1. req[c] \in Requests /\ req[c].pc = "ready"
    BY DEF SInv, IInv, TypeOK, Receive
  <2>2. /\ q.pc = "find" /\ q.item = req[c].item /\ q.voice = req[c].voice
        /\ q.etag = req[c].etag /\ q.was = req[c].was
    BY <2>1 DEF Requests
  <2>3. /\ \A d \in Clients : req'[d] = IF d = c THEN q ELSE req[d]
        /\ UNCHANGED <<part, clock>>
    BY <1>2 DEF SInv, IInv, TypeOK, Receive
  <2>4. \A d \in Clients : ~Serving(d)
    BY DEF Receive, Quiet
  <2> HIDE DEF q
  <2> QED BY <2>1, <2>2, <2>3, <2>4 DEF SInv, Serial, Alone, Compared, Past, Seen, Serving, Held
<1> QED BY <1>1, <1>2 DEF Receive

LEMMA SeriallyFound ==
    ASSUME SInv, NEW c \in Clients, Find(c)
    PROVE  Serial'
<1>1. CASE Answer(c)
  BY <1>1, SeriallyAnswered DEF Find
<1>2. CASE Goto(c, "write") /\ ~Answer(c)
  <2> DEFINE q == [req[c] EXCEPT !.pc = "write"]
  <2>1. req[c] \in Requests /\ req[c].pc = "find"
    BY DEF SInv, IInv, TypeOK, Find
  <2>2. /\ q.pc = "write" /\ q.op = req[c].op /\ q.item = req[c].item
        /\ q.voice = req[c].voice /\ q.etag = req[c].etag /\ q.was = req[c].was
    BY <2>1 DEF Requests
  <2>3. /\ \A d \in Clients : req'[d] = IF d = c THEN q ELSE req[d]
        /\ UNCHANGED <<part, clock>>
    BY <1>2 DEF Goto, Find, SInv, IInv, TypeOK
  <2>4. req[c].op \in Versioned /\ Held(c).id # 0 => Held(c).ver = req[c].etag
    BY <1>2 DEF Find, Fresh
  <2> HIDE DEF q
  <2> QED BY <2>1, <2>2, <2>3, <2>4 DEF SInv, Serial, Alone, Compared, Past, Seen, Serving, Held
<1> QED BY <1>1, <1>2 DEF Find

LEMMA SeriallyWritten ==
    ASSUME SInv, NEW c \in Clients, Write(c)
    PROVE  Serial'
<1>1. CASE UNCHANGED <<part, clock>>
  BY <1>1, SeriallyAnswered DEF Write
<1>2. ASSUME NEW r \in Assignments,
             part' = [part EXCEPT ![req[c].item][req[c].voice] = r],
             Tick, r.ver = Now \/ (r.id = 0 /\ r.ver = 0)
      PROVE  Serial'
  <2>1. \A d \in Clients : req'[d] = IF d = c THEN Idle ELSE req[d]
    BY DEF SInv, IInv, TypeOK, Write, Answer
  <2>2. Idle.pc = "idle"
    BY DEF Idle
  <2>3. \A d \in Clients \ {c} : ~Serving(d)
    BY DEF SInv, Serial, Alone, Serving, Write
  <2>4. (Alone /\ Compared)'
    BY <2>1, <2>2, <2>3 DEF Alone, Compared, Serving
  <2>5. clock \in Nat /\ clock' = clock + 1 /\ Now = clock + 1
    BY <1>2, BoundAssumption DEF SInv, IInv, TypeOK, Tick, Now
  <2>6. ASSUME NEW i \in Items, NEW v \in Voices
        PROVE  part'[i][v] = r \/ part'[i][v] = part[i][v]
    <3>1. part \in [Items -> [Voices -> Assignments]]
      BY DEF SInv, IInv, TypeOK
    <3> HIDE DEF Assignments
    <3> QED BY <1>2, <3>1
  <2>7. \A i \in Items, v \in Voices : part[i][v].ver \in Nat
    BY BoundAssumption DEF SInv, IInv, TypeOK, Assignments
  <2>8. Past'
    BY <1>2, <2>5, <2>6, <2>7 DEF SInv, Serial, Past
  <2>9. ASSUME NEW d \in Clients, req'[d].pc # "idle"
        PROVE  /\ req'[d].etag <= clock'
               /\ Held(d)'.id # 0 /\ Held(d)'.ver = req'[d].etag => Held(d)'.user = req'[d].was
    <3>1. req'[d] = req[d] /\ req[d].pc # "idle"
      BY <2>1, <2>2, <2>9
    <3>2. req[d].etag \in Nat /\ req[d].etag <= clock
      BY <3>1, BoundAssumption DEF SInv, IInv, TypeOK, Requests, Serial, Seen
    <3>3. req[d].item \in Items /\ req[d].voice \in Voices
      BY <3>1 DEF SInv, IInv, Named
    <3>4. Held(d)' = r \/ Held(d)' = Held(d)
      BY <2>6, <3>1, <3>3 DEF Held
    <3>5. CASE Held(d)' = r
      BY <1>2, <2>5, <3>1, <3>2, <3>5
    <3>6. CASE Held(d)' = Held(d)
      BY <2>5, <3>1, <3>2, <3>6 DEF SInv, Serial, Seen
    <3> QED BY <3>4, <3>5, <3>6
  <2> QED BY <2>4, <2>8, <2>9 DEF Serial, Seen
<1> QED BY <1>1, <1>2, WrittenRow DEF SInv

LEMMA Serially ==
    ASSUME SInv, ~Overlap, [Next]_vars
    PROVE  SInv'
<1>1. ASSUME NEW r \in Rows, Hide(r) \/ Show(r)
      PROVE  Serial'
  BY <1>1 DEF Hide, Show, SInv, Serial, Alone, Compared, Past, Seen, Serving, Held
<1>2. ASSUME NEW c \in Clients, Drop(c)
      PROVE  Serial'
  BY <1>2, SeriallyAnswered DEF Drop
<1>3. UNCHANGED vars => Serial'
  BY DEF vars, SInv, Serial, Alone, Compared, Past, Seen, Serving, Held
<1>4. ASSUME NEW c \in Clients,
             \/ \E i \in Items, v \in Voices : Look(c, i, v)
             \/ \E op \in Kinds, u \in Users, S \in SUBSET Stamps : Receive(c, op, u, S)
             \/ Find(c) \/ Write(c)
      PROVE  Serial'
  BY <1>4, SeriallyLook, SeriallyReceived, SeriallyFound, SeriallyWritten
<1>5. Next => Serial'
  BY <1>1, <1>2, <1>4 DEF Next
<1>6. IInv'
  BY Inductive DEF SInv
<1> QED BY <1>3, <1>5, <1>6 DEF SInv

LEMMA OnlyWriteWrites ==
    ASSUME Next
    PROVE  (\E c \in Clients : Write(c)) \/ UNCHANGED part
<1>1. ASSUME NEW c \in Clients,
             \/ \E i \in Items, v \in Voices : Look(c, i, v)
             \/ \E op \in Kinds, u \in Users, S \in SUBSET Stamps : Receive(c, op, u, S)
             \/ Find(c) \/ Drop(c)
      PROVE  UNCHANGED part
  BY <1>1 DEF Look, Receive, Find, Drop
<1>2. ASSUME NEW r \in Rows, Hide(r) \/ Show(r)
      PROVE  UNCHANGED part
  BY <1>2 DEF Hide, Show
<1> QED BY <1>1, <1>2 DEF Next

\* If requests are served one at a time, a part that is handed on, edited or
\* deleted with a version is in the version its editor looked at.
THEOREM SeenOneByOne ==
    ASSUME ~Overlap
    PROVE  Spec => OnlyWhatWasSeen
<1>1. Init => SInv
  BY SeriallyFirst
<1>2. SInv /\ [Next]_vars => SInv'
  BY Serially
<1>3. ASSUME SInv, Next, NEW c \in Clients,
             req[c].op \in Versioned, req'[c] # req[c], part' # part, Held(c).id # 0
      PROVE  Held(c).ver = req[c].etag
  <2>1. PICK d \in Clients : Write(d)
    BY <1>3, OnlyWriteWrites
  <2>2. d = c
    BY <1>3, <2>1 DEF SInv, IInv, TypeOK, Write, Answer
  <2> QED BY <1>3, <2>1, <2>2 DEF Write, SInv, Serial, Compared
<1>4. SInv /\ [Next]_vars =>
        [\A c \in Clients :
           LET before == Held(c) IN
           req[c].op \in Versioned /\ req'[c] # req[c] /\ part' # part /\ before.id # 0
             => before.ver = req[c].etag]_vars
  BY <1>3
<1> QED BY <1>1, <1>2, <1>4, PTL DEF Spec, OnlyWhatWasSeen

------------------------------------------------------------------------------
(* Timestamps, without the console's mark.                                 *)

Unmarked == StampsOfTheHolder /\ \A c \in Clients : req[c].op # "mark"

LEMMA StampsWritten ==
    ASSUME SInv, Unmarked, NEW c \in Clients, Write(c)
    PROVE  StampsOfTheHolder'
<1> DEFINE Right(r) == \A s \in Stamps : r.at[s] \in {Nobody, r.user}
<1>1. PICK i \in Items, v \in Voices : i = req[c].item /\ v = req[c].voice
  BY DEF SInv, IInv, Named, Write
<1>2. part[i][v] \in Assignments /\ Right(part[i][v])
  BY DEF SInv, IInv, TypeOK, Unmarked, StampsOfTheHolder
<1>3. ASSUME NEW r, Right(r), part' = [part EXCEPT ![i][v] = r]
      PROVE  StampsOfTheHolder'
  <2>1. \A j \in Items, w \in Voices : part'[j][w] = r \/ part'[j][w] = part[j][w]
    <3>1. part \in [Items -> [Voices -> Assignments]]
      BY DEF SInv, IInv, TypeOK
    <3> HIDE DEF Assignments
    <3> QED BY <1>3, <3>1
  <2> QED BY <1>3, <2>1 DEF Unmarked, StampsOfTheHolder
<1>4. Right(Inserted(req[c].user)) /\ Right(Removed(part[i][v]))
  BY DEF Inserted, Removed, NoAssignment, Unstamped
<1>5. Right(Replaced(part[i][v], req[c].user))
  BY <1>2 DEF Replaced, Unstamped, Assignments
<1>6. ASSUME req[c].op = "update", part[i][v].id = req[c].id
      PROVE  Right(Stamped(part[i][v], req[c].stamps, req[c].was))
  <2>1. req[c].id # 0
    BY <1>6 DEF SInv, IInv, Named, Write, Serving, ById
  <2>2. part[i][v].ver = req[c].etag
    BY <1>1, <1>6, <2>1 DEF SInv, Serial, Compared, Held, Write, Versioned
  <2>3. part[i][v].user = req[c].was
    BY <1>1, <1>6, <2>1, <2>2 DEF SInv, Serial, Seen, Held, Write
  <2> QED BY <1>2, <2>3 DEF Stamped, Assignments
<1>7. CASE UNCHANGED <<part, clock>>
  BY <1>7 DEF Unmarked, StampsOfTheHolder
<1> HIDE DEF Right
<1>8. req[c].op # "mark"
  BY DEF Unmarked
<1> QED BY <1>1, <1>3, <1>4, <1>5, <1>6, <1>7, <1>8 DEF Write

LEMMA StampsKept ==
    ASSUME SInv, Unmarked, "mark" \notin Kinds, [Next]_vars
    PROVE  Unmarked'
<1>1. ASSUME Next
      PROVE  StampsOfTheHolder'
  <2>1. CASE \E c \in Clients : Write(c)
    BY <2>1, StampsWritten
  <2>2. CASE UNCHANGED part
    BY <2>2 DEF Unmarked, StampsOfTheHolder
  <2>3. (\E c \in Clients : Write(c)) \/ UNCHANGED part
    BY <1>1, OnlyWriteWrites
  <2> QED BY <2>1, <2>2, <2>3
<1>2. ASSUME Next, NEW d \in Clients
      PROVE  req'[d].op # "mark"
  <2>1. req \in [Clients -> Requests] /\ req[d].op # "mark" /\ Idle.op = "none"
    BY DEF SInv, IInv, TypeOK, Unmarked, Idle
  <2>2. CASE UNCHANGED req
    BY <2>1, <2>2
  <2>3. ASSUME NEW c \in Clients, Answer(c)
        PROVE  req'[d].op # "mark"
    BY <2>1, <2>3 DEF Answer
  <2>4. ASSUME NEW c \in Clients, Goto(c, "write")
        PROVE  req'[d].op # "mark"
    BY <2>1, <2>4 DEF Goto, Requests
  <2>5. ASSUME NEW c \in Clients, NEW i \in Items, NEW v \in Voices, Look(c, i, v)
        PROVE  req'[d].op # "mark"
    <3> DEFINE q == [Idle EXCEPT !.pc = "ready", !.item = i, !.voice = v,
                    !.id = part[i][v].id, !.etag = part[i][v].ver, !.was = part[i][v].user]
    <3>1. q.op = "none"
      BY DEF Idle
    <3>2. req' = [req EXCEPT ![c] = q]
      BY <2>5 DEF Look
    <3> HIDE DEF q
    <3> QED BY <2>1, <3>1, <3>2
  <2>6. ASSUME NEW c \in Clients, NEW op \in Kinds, NEW u \in Users, NEW S \in SUBSET Stamps,
               Receive(c, op, u, S)
        PROVE  req'[d].op # "mark"
    <3>1. CASE Answer(c)
      BY <2>3, <3>1
    <3>2. CASE ~Answer(c)
      <4>1. req'[d].op \in {op, req[d].op}
        BY <2>1, <2>6, <3>2 DEF Receive, Requests
      <4> QED BY <2>1, <4>1
    <3> QED BY <3>1, <3>2
  <2> QED BY <1>2, <2>2, <2>3, <2>4, <2>5, <2>6
          DEF Next, Hide, Show, Find, Write, Drop
<1>3. UNCHANGED vars => Unmarked'
  BY DEF Unmarked, StampsOfTheHolder, vars
<1>4. Next => Unmarked'
  BY <1>1, <1>2 DEF Unmarked
<1> QED BY <1>3, <1>4

\* If requests are served one at a time and the console marks nothing, what is
\* on record as notified or acknowledged is so of the player: If-Match keeps an
\* update from a holder its editor did not see.
THEOREM StampsOneByOne ==
    ASSUME ~Overlap, "mark" \notin Kinds
    PROVE  Spec => []StampsOfTheHolder
<1>1. Init => SInv /\ Unmarked
  BY SeriallyFirst DEF Init, Unmarked, StampsOfTheHolder, NoAssignment, Unstamped, Idle
<1>2. SInv /\ Unmarked /\ [Next]_vars => (SInv /\ Unmarked)'
  BY Serially, StampsKept
<1>3. Unmarked => StampsOfTheHolder
  BY DEF Unmarked
<1> QED BY <1>1, <1>2, <1>3, PTL DEF Spec
=============================================================================
