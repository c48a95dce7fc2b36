-------------------------- MODULE FileStore_proofs --------------------------
(***************************************************************************)
(* For all clients, places, slugs and numbers of files: the state keeps    *)
(* its type and, when nobody deletes files, a place that ever had a file   *)
(* stored keeps a live one, whatever fails or dies at any point.  When     *)
(* requests are served one at a time, a stored file has its own bytes.     *)
(***************************************************************************)
EXTENDS FileStore, TLAPS

Writing(c) == req[c].pc \in {"stream", "undo"}

\* The bytes of f are, or may still become, those of its place.
Coming(f) == f \in stored \/ \E c \in Clients : req[c].pc = "stream" /\ req[c].new = f
Same(f, g) == file[f].at = file[g].at

\* Rows are inserted in order, and only rows that are there have bytes coming.
Present ==
    /\ \A f, g \in Files : g < f /\ file[g].st = "none" => file[f].st = "none"
    /\ \A f \in Files : Coming(f) => file[f].st \in {"live", "deleted"}

\* A request only knows rows that have been inserted, and does not replace its own.
Known == \A c \in Clients :
    /\ \A f \in {req[c].old, req[c].new} \ {NoFile} : file[f].st # "none"
    /\ req[c].new # NoFile => req[c].old # req[c].new

\* One that means to replace a row is at its place; an upload replaces none.
Aimed == \A c \in Clients :
    /\ req[c].old # NoFile => file[req[c].old].at = req[c].at
    /\ req[c].op = "upload" \/ req[c].pc \in {"create", "locate"} => req[c].old = NoFile
    /\ req[c].pc = "locate" => req[c].op # "upload"

\* The row a request is writing is its own and not erased by others.
Owned ==
    /\ \A c \in Clients : Writing(c) =>
          /\ file[req[c].new].at = req[c].at
          /\ file[req[c].new].st \in {"live", "deleted"}
          /\ req[c].new \notin stored
    /\ \A c, d \in Clients : Writing(c) /\ Writing(d) /\ req[c].new = req[d].new => c = d

\* ... it came right after the one it replaced, which nobody else is replacing ...
Chained ==
    /\ \A c \in Clients : Writing(c) /\ req[c].old # NoFile =>
          /\ req[c].old < req[c].new
          /\ ~Live(req[c].old)
          /\ \A g \in Files : req[c].old < g /\ g < req[c].new /\ Same(g, req[c].new) => ~Coming(g)
    /\ \A c, d \in Clients :
          Writing(c) /\ Writing(d) /\ req[c].old # NoFile /\ req[c].old = req[d].old => c = d

\* ... or after nothing that could come back.  So did every row now erased.
First(f) == \A g \in Files : g < f /\ Same(g, f) => ~Coming(g)
Rooted ==
    /\ \A c \in Clients : Writing(c) /\ req[c].old = NoFile => First(req[c].new)
    /\ \A f \in Files : file[f].st = "erased" => First(f)

\* A place has one live row (of one name and format) ...
Unique == \A f, g \in Files : Live(f) /\ Live(g) /\ Same(f, g) => f = g

\* ... which is the newest that has bytes coming ...
Newest == \A f, g \in Files : Live(f) /\ f < g /\ Same(f, g) => ~Coming(g)

\* ... and is there wherever a row has.
Held == \A f \in Files : Coming(f) => Taken(file[f].at)

IInv == TypeOK /\ Known /\ Present /\ Aimed /\ Owned /\ Chained /\ Rooted /\ Unique /\ Newest /\ Held
------------------------------------------------------------------------------
(* Types. *)

LEMMA FilesAreNumbers == NoFile \notin Files /\ \A f \in Files : f \in Nat
  BY BoundAssumption DEF Files, NoFile

LEMMA IdleTyped == Idle \in Requests
  BY DEF Idle, Requests, Ops, Pcs

\* The request of c is r from now on.
Becomes(c, r) == r \in Requests /\ req' = [req EXCEPT ![c] = r]

LEMMA Ends == ASSUME NEW c \in Clients, End(c) PROVE Becomes(c, Idle)
  BY IdleTyped DEF End, Becomes

Jump(r, label) == [r EXCEPT !.pc = label]
Aim(r, f) == [r EXCEPT !.pc = "swap", !.old = f]
Stream(r, f) == [r EXCEPT !.pc = "stream", !.new = f]
Called(op, pc, p, e, f) == [Idle EXCEPT !.op = op, !.pc = pc, !.at = p, !.ext = e, !.old = f]

LEMMA Jumps ==
  ASSUME TypeOK, NEW c \in Clients, NEW label \in {"swap", "create", "undo"}, Goto(c, label),
         req[c].pc # "idle", label = "swap" => req[c].old # NoFile,
         req[c].pc = "stream" <=> label = "undo", req[c].pc # "undo"
  PROVE  Becomes(c, Jump(req[c], label))
<1>1. req[c] \in Requests
  BY DEF TypeOK
<1>2. Jump(req[c], label) \in Requests
  BY <1>1 DEF Jump, Requests, Pcs
<1>3. req' = [req EXCEPT ![c] = Jump(req[c], label)]
  BY DEF Goto, Jump, TypeOK
<1> QED
  BY <1>2, <1>3 DEF Becomes

LEMMA Streaming ==
  ASSUME TypeOK, NEW c \in Clients, NEW f \in Files, Streams(c, f), req[c].pc \in {"create", "swap"}
  PROVE  Becomes(c, Stream(req[c], f))
<1>1. req[c] \in Requests
  BY DEF TypeOK
<1>2. Stream(req[c], f) \in Requests
  BY <1>1, FilesAreNumbers DEF Stream, Requests, Pcs
<1>3. req' = [req EXCEPT ![c] = Stream(req[c], f)]
  BY DEF Streams, Stream, TypeOK
<1> QED
  BY <1>2, <1>3 DEF Becomes

LEMMA Aims ==
  ASSUME TypeOK, NEW c \in Clients, NEW f \in Files, req[c].pc = "locate",
         req' = [req EXCEPT ![c].pc = "swap", ![c].old = f]
  PROVE  Becomes(c, Aim(req[c], f))
<1>1. req[c] \in Requests
  BY DEF TypeOK
<1>2. Aim(req[c], f) \in Requests
  BY <1>1, FilesAreNumbers DEF Aim, Requests, Pcs
<1>3. req' = [req EXCEPT ![c] = Aim(req[c], f)]
  BY DEF Aim, TypeOK
<1> QED
  BY <1>2, <1>3 DEF Becomes

LEMMA Begins ==
  ASSUME NEW c \in Clients, NEW op \in Ops, NEW pc \in {"create", "locate", "resolve"},
         NEW p \in Places, NEW e \in Exts, NEW f \in Files \cup {NoFile}, pc = "resolve" => f # NoFile,
         Begin(c, op, pc, p, e, f)
  PROVE  Becomes(c, Called(op, pc, p, e, f))
<1>1. Called(op, pc, p, e, f) \in Requests
  BY PlaceAssumption, FilesAreNumbers DEF Called, Idle, Requests, Pcs
<1>2. req' = [req EXCEPT ![c] = Called(op, pc, p, e, f)]
  BY DEF Begin, Called
<1> QED
  BY <1>1, <1>2 DEF Becomes

\* What a step does to the request of c: nothing, or one of the above.
LEMMA BecomesTyped ==
  ASSUME TypeOK, NEW c \in Clients, NEW r, Becomes(c, r)
  PROVE  /\ req' \in [Clients -> Requests] /\ req'[c] = r
         /\ \A d \in Clients \ {c} : req'[d] = req[d]
  BY DEF TypeOK, Becomes

LEMMA RowTyped ==
  ASSUME NEW st \in {"live", "deleted", "erased"}, NEW r \in Rows, r.st # "none"
  PROVE  [r EXCEPT !.st = st] \in Rows
  BY DEF Rows

LEMMA NewRowTyped ==
  ASSUME TypeOK, NEW c \in Clients, req[c].pc # "idle"
  PROVE  NewRow(c) \in Rows
  BY PlaceAssumption DEF TypeOK, Requests, Rows, NewRow

LEMMA RowsOf ==
  ASSUME TypeOK, NEW c \in Clients
  PROVE  /\ req[c].old # NoFile => req[c].old \in Files
         /\ req[c].new # NoFile => req[c].new \in Files
         /\ req[c].new # NoFile <=> Writing(c)
         /\ req[c].pc # "idle" => req[c].at \in Places
         /\ req[c].pc \in {"resolve", "swap"} => req[c].old # NoFile
  BY DEF TypeOK, Requests, Writing

LEMMA TargetTyped ==
  ASSUME TypeOK, NEW c \in Clients, req[c].pc # "idle"
  PROVE  Target(c) \in Keys
<1>1. req[c].at \in Places /\ req[c].ext \in Exts
  BY DEF TypeOK, Requests
<1> QED
  BY <1>1 DEF Target, Key, Keys, Slugs

\* The three ways to delete a file.
LEMMA Removals ==
  /\ \A f \in Files : Remove(f) \/ RemoveV1(f) => SoftDelete(f)
  /\ \A p \in Places : Unlink(p) => \E f \in Files : SoftDelete(f)
  BY DEF Remove, RemoveV1, Unlink

\* Every step keeps the type.
LEMMA PlaceSteps ==
  ASSUME TypeOK, NEW p \in Places, Add(p) \/ Hide(p) \/ Show(p) PROVE TypeOK'
  BY DEF TypeOK, Add, Hide, Show

LEMMA RowSteps ==
  ASSUME TypeOK, NEW f \in Files, SoftDelete(f) \/ Undelete(f) PROVE TypeOK'
<1>1. file[f] \in Rows /\ file[f].st \in {"live", "deleted"}
  BY DEF TypeOK, SoftDelete, Undelete, Restorable, Live, Deleted
<1>2. \E st \in {"live", "deleted"} : file' = [file EXCEPT ![f].st = st]
  BY DEF SoftDelete, Undelete
<1>3. PICK st \in {"live", "deleted"} : file' = [file EXCEPT ![f].st = st]
  BY <1>2
<1>4. file' = [file EXCEPT ![f] = [file[f] EXCEPT !.st = st]]
  BY <1>3 DEF TypeOK
<1>5. [file[f] EXCEPT !.st = st] \in Rows
  BY <1>1, RowTyped
<1> QED
  BY <1>4, <1>5 DEF TypeOK, SoftDelete, Undelete

LEMMA CallSteps ==
  ASSUME TypeOK, NEW c \in Clients,
         \/ \E p \in Places, e \in Exts : Upload(c, p, e) \/ Put(c, p, e)
         \/ \E f \in Files : Replace(c, f)
  PROVE  TypeOK'
<1>1. ASSUME NEW p \in Places, NEW e \in Exts, Upload(c, p, e) PROVE Becomes(c, Called("upload", "create", p, e, NoFile))
  BY <1>1, Begins DEF Upload, Ops
<1>2. ASSUME NEW p \in Places, NEW e \in Exts, Put(c, p, e) PROVE Becomes(c, Called("put", "locate", p, e, NoFile))
  BY <1>2, Begins DEF Put, Ops
<1>3. ASSUME NEW f \in Files, Replace(c, f)
      PROVE  Becomes(c, Called("replace", "resolve", file[f].at, file[f].ext, f))
  <2>1. file[f].at \in Places /\ file[f].ext \in Exts
    BY <1>3 DEF TypeOK, Rows, Replace, Live
  <2> QED
    BY <1>3, <2>1, Begins, FilesAreNumbers DEF Replace, Ops
<1>4. \E r : Becomes(c, r)
  BY <1>1, <1>2, <1>3
<1>5. UNCHANGED <<place, file, object, stored>>
  BY DEF Upload, Put, Replace, Begin
<1> QED
  BY <1>4, <1>5, BecomesTyped DEF TypeOK

LEMMA InsertSteps ==
  ASSUME TypeOK, NEW c \in Clients, NEW f \in Files, Create(c, f) \/ Swap(c, f)
  PROVE  TypeOK'
<1>1. CASE End(c) /\ UNCHANGED file
  BY <1>1, Ends, BecomesTyped DEF TypeOK, Create, Swap
<1>2. CASE Create(c, f) /\ Streams(c, f) /\ file' = [file EXCEPT ![f] = NewRow(c)]
  <2>1. Becomes(c, Stream(req[c], f))
    BY <1>2, Streaming DEF Create
  <2>2. NewRow(c) \in Rows
    BY <1>2, NewRowTyped DEF Create
  <2> QED
    BY <1>2, <2>1, <2>2, BecomesTyped DEF TypeOK, Create
<1>3. CASE Swap(c, f) /\ Streams(c, f) /\ file' = Swapped(c, f) /\ Live(req[c].old)
  <2>1. Becomes(c, Stream(req[c], f))
    BY <1>3, Streaming DEF Swap
  <2>2. NewRow(c) \in Rows
    BY <1>3, NewRowTyped DEF Swap
  <2>3. req[c].old \in Files /\ f # req[c].old
    BY <1>3 DEF TypeOK, Requests, Swap, Fresh, Live
  <2>4. [file[req[c].old] EXCEPT !.st = "deleted"] \in Rows
    BY <1>3, <2>3, RowTyped DEF TypeOK, Live
  <2>5. file' = [file EXCEPT ![req[c].old] = [file[req[c].old] EXCEPT !.st = "deleted"], ![f] = NewRow(c)]
    BY <1>3, <2>3 DEF Swapped, TypeOK
  <2>6. file' \in [Files -> Rows]
    BY <2>2, <2>3, <2>4, <2>5 DEF TypeOK
  <2> QED
    BY <1>3, <2>1, <2>6, BecomesTyped DEF TypeOK, Swap
<1> QED
  BY <1>1, <1>2, <1>3 DEF Create, Swap

LEMMA WaitSteps ==
  ASSUME TypeOK, NEW c \in Clients, Resolve(c) \/ Locate(c) \/ Abort(c) \/ LoseAnswer(c) \/ UndoFails(c) \/ Crash(c)
  PROVE  TypeOK'
<1>1. CASE End(c) /\ object' = object
  BY <1>1, Ends, BecomesTyped DEF TypeOK, Resolve, Locate, Abort, LoseAnswer, UndoFails, Crash
<1>2. CASE Resolve(c) /\ Goto(c, "swap")
  <2>1. req[c].old # NoFile
    BY <1>2 DEF TypeOK, Requests, Resolve
  <2>2. Becomes(c, Jump(req[c], "swap"))
    BY <1>2, <2>1, Jumps DEF Resolve
  <2> QED
    BY <1>2, <2>2, BecomesTyped DEF TypeOK, Resolve
<1>3. CASE Locate(c)
  <2>1. CASE Goto(c, "create")
    <3>1. Becomes(c, Jump(req[c], "create"))
      BY <1>3, <2>1, Jumps DEF Locate
    <3> QED
      BY <1>3, <3>1, BecomesTyped DEF TypeOK, Locate
  <2>2. ASSUME NEW f \in Files, req' = [req EXCEPT ![c].pc = "swap", ![c].old = f] PROVE TypeOK'
    <3>1. Becomes(c, Aim(req[c], f))
      BY <1>3, <2>2, Aims DEF Locate
    <3> QED
      BY <1>3, <3>1, BecomesTyped DEF TypeOK, Locate
  <2> QED
    BY <1>3, <2>1, <2>2 DEF Locate
<1>4. CASE Abort(c)
  <2>1. Becomes(c, Jump(req[c], "undo"))
    BY <1>4, Jumps DEF Abort
  <2> QED
    BY <1>4, <2>1, BecomesTyped DEF TypeOK, Abort
<1>5. CASE LoseAnswer(c)
  <2>1. Becomes(c, Jump(req[c], "undo"))
    BY <1>5, Jumps DEF LoseAnswer
  <2>2. Target(c) \in Keys /\ req[c].new \in Files
    BY <1>5, TargetTyped, RowsOf DEF LoseAnswer, Writing
  <2>3. object' \in [Keys -> Files \cup {NoFile}]
    BY <1>5, <2>2 DEF TypeOK, LoseAnswer
  <2> QED
    BY <1>5, <2>1, <2>3, BecomesTyped DEF TypeOK, LoseAnswer
<1> QED
  BY <1>1, <1>2, <1>3, <1>4, <1>5 DEF Resolve, UndoFails, Crash

LEMMA EndSteps ==
  ASSUME TypeOK, Known, NEW c \in Clients, Store(c) \/ Erase(c) \/ Revert(c) \/ Discard(c)
  PROVE  TypeOK'
<1>1. req[c] \in Requests /\ req[c].at \in Places
  BY DEF TypeOK, Requests, Store, Erase, Revert, Discard
<1>2. req' \in [Clients -> Requests] /\ UNCHANGED place
  BY Ends, BecomesTyped DEF TypeOK, Store, Erase, Revert, Discard
<1>3. req[c].new \in Files /\ file[req[c].new].st # "none"
  BY <1>1 DEF Requests, Store, Erase, Revert, Discard, Known
<1>4. CASE Store(c)
  <2>1. Target(c) \in Keys
    BY <1>4, TargetTyped DEF Store
  <2>2. object' \in [Keys -> Files \cup {NoFile}] /\ stored' \in SUBSET Files
    BY <1>3, <1>4, <2>1 DEF TypeOK, Store
  <2> QED
    BY <1>2, <1>4, <2>2 DEF TypeOK, Store
<1>5. ASSUME NEW st \in {"live", "deleted", "erased"}
      PROVE  [file[req[c].new] EXCEPT !.st = st] \in Rows
  BY <1>3, RowTyped DEF TypeOK
<1>6. CASE Erase(c)
  <2>1. file' = [file EXCEPT ![req[c].new] = [file[req[c].new] EXCEPT !.st = "erased"]]
    BY <1>6, <1>3 DEF Erase, Erased, TypeOK
  <2>2. file' \in [Files -> Rows]
    BY <2>1, <1>5 DEF TypeOK
  <2> QED
    BY <1>6, <1>2, <2>2 DEF TypeOK, Erase
<1>7. CASE Discard(c)
  <2>1. CASE file[req[c].new].st = "live"
    <3>1. file' = [file EXCEPT ![req[c].new] = [file[req[c].new] EXCEPT !.st = "deleted"]]
      BY <1>7, <2>1, <1>3 DEF Discard, TypeOK
    <3>2. file' \in [Files -> Rows]
      BY <3>1, <1>5 DEF TypeOK
    <3> QED
      BY <1>7, <1>2, <3>2 DEF TypeOK, Discard
  <2>2. CASE file[req[c].new].st # "live"
    <3>1. file' = file
      BY <1>7, <2>2, <1>3 DEF Discard, TypeOK, Rows
    <3> QED
      BY <1>7, <1>2, <3>1 DEF TypeOK, Discard
  <2> QED
    BY <2>1, <2>2
<1>8. CASE Revert(c)
  <2>1. CASE file' = file
    BY <1>8, <1>2, <2>1 DEF TypeOK, Revert
  <2>2. CASE file' = Reverted(c)
    <3>1. req[c].old \in Files /\ file[req[c].old].st # "none"
      BY <1>8, <1>1 DEF Revert, Requests, Known
    <3> DEFINE mid == [file EXCEPT ![req[c].new] = [file[req[c].new] EXCEPT !.st = "deleted"]]
               st == IF file[req[c].old].st = "erased" THEN "erased" ELSE "live"
    <3>2. mid \in [Files -> Rows] /\ mid[req[c].old].st # "none"
      BY <1>3, <1>5, <3>1 DEF TypeOK
    <3>3. [mid[req[c].old] EXCEPT !.st = st] \in Rows
      BY <3>1, <3>2, RowTyped
    <3>4. file' = [mid EXCEPT ![req[c].old] = [mid[req[c].old] EXCEPT !.st = st]]
      BY <2>2, <1>3, <3>1 DEF Reverted, TypeOK
    <3>5. file' \in [Files -> Rows]
      BY <3>2, <3>3, <3>4
    <3> QED
      BY <1>8, <1>2, <3>5 DEF TypeOK, Revert
  <2> QED
    BY <1>8, <2>1, <2>2 DEF Revert
<1> QED
  BY <1>4, <1>6, <1>7, <1>8

\* No inserted row disappears, so a request keeps knowing what it knew.
RowsStay == \A f \in Files : file[f].st # "none" => file'[f].st # "none"
KnownTo(r) ==
    /\ \A f \in {r.old, r.new} \ {NoFile} : file'[f].st # "none"
    /\ r.new # NoFile => r.old # r.new

\* What the statements of a request do to the rows.
Marked(x, st) ==
    /\ file'[x].st = st
    /\ \A f \in Files : file'[f].at = file[f].at
    /\ \A f \in Files : file'[f].ext = file[f].ext
    /\ \A f \in Files \ {x} : file'[f].st = file[f].st

LEMMA Marks ==
  ASSUME TypeOK, NEW x \in Files, NEW st, file' = [file EXCEPT ![x] = [file[x] EXCEPT !.st = st]]
  PROVE  Marked(x, st)
<1>1. file[x] \in Rows
  BY DEF TypeOK
<1>2. /\ [file[x] EXCEPT !.st = st].st = st
      /\ [file[x] EXCEPT !.st = st].at = file[x].at /\ [file[x] EXCEPT !.st = st].ext = file[x].ext
  BY <1>1 DEF Rows
<1>3. file'[x] = [file[x] EXCEPT !.st = st] /\ \A f \in Files \ {x} : file'[f] = file[f]
  BY DEF TypeOK
<1> QED
  BY <1>2, <1>3 DEF Marked

LEMMA RowEffect ==
  ASSUME TypeOK, NEW f \in Files
  PROVE  /\ SoftDelete(f) => Marked(f, "deleted")
         /\ Undelete(f) => Marked(f, "live")
<1>1. ASSUME NEW st, file' = [file EXCEPT ![f].st = st] PROVE Marked(f, st)
  <2>1. file' = [file EXCEPT ![f] = [file[f] EXCEPT !.st = st]]
    BY <1>1 DEF TypeOK
  <2> QED
    BY <2>1, Marks
<1> QED
  BY <1>1 DEF SoftDelete, Undelete

LEMMA EraseEffect ==
  ASSUME TypeOK, NEW c \in Clients, Erase(c) PROVE Marked(req[c].new, "erased")
<1>1. req[c].new \in Files
  BY RowsOf DEF Erase, Writing
<1>2. file' = [file EXCEPT ![req[c].new] = [file[req[c].new] EXCEPT !.st = "erased"]]
  BY <1>1 DEF Erase, Erased, TypeOK
<1> QED
  BY <1>1, <1>2, Marks

LEMMA DiscardEffect ==
  ASSUME TypeOK, NEW c \in Clients, Discard(c)
  PROVE  IF Live(req[c].new) THEN Marked(req[c].new, "deleted") ELSE file' = file
<1>1. req[c].new \in Files
  BY RowsOf DEF Discard, Writing
<1>2. CASE Live(req[c].new)
  <2>1. file' = [file EXCEPT ![req[c].new] = [file[req[c].new] EXCEPT !.st = "deleted"]]
    BY <1>1, <1>2 DEF Discard, TypeOK, Live
  <2> QED
    BY <1>1, <1>2, <2>1, Marks
<1>3. CASE ~Live(req[c].new)
  BY <1>1, <1>3 DEF Discard, TypeOK, Rows, Live
<1> QED
  BY <1>2, <1>3

\* restore_replaced, when it goes through.
LEMMA RevertEffect ==
  ASSUME TypeOK, NEW c \in Clients, Revert(c), req[c].old # req[c].new
  PROVE  \/ file' = file /\ InTheWay(c)
         \/ /\ ~InTheWay(c)
            /\ \A f \in Files : file'[f].at = file[f].at
            /\ \A f \in Files : file'[f].ext = file[f].ext
            /\ file'[req[c].new].st = "deleted"
            /\ file'[req[c].old].st = IF file[req[c].old].st = "erased" THEN "erased" ELSE "live"
            /\ \A f \in Files \ {req[c].old, req[c].new} : file'[f].st = file[f].st
<1>1. req[c].new \in Files /\ req[c].old \in Files
  BY RowsOf DEF Revert, Writing
<1>2. CASE ~InTheWay(c)
  <2> DEFINE st == IF file[req[c].old].st = "erased" THEN "erased" ELSE "live"
             was == [file[req[c].old] EXCEPT !.st = st]
             new == [file[req[c].new] EXCEPT !.st = "deleted"]
  <2>1. file' = [file EXCEPT ![req[c].new] = new, ![req[c].old] = was]
    BY <1>1, <1>2 DEF Revert, Reverted, TypeOK
  <2>2. file'[req[c].new] = new /\ file'[req[c].old] = was
        /\ \A f \in Files \ {req[c].old, req[c].new} : file'[f] = file[f]
    BY <1>1, <2>1 DEF TypeOK
  <2>3. file[req[c].old] \in Rows /\ file[req[c].new] \in Rows
    BY <1>1 DEF TypeOK
  <2>4. /\ was.st = st /\ was.at = file[req[c].old].at /\ was.ext = file[req[c].old].ext
        /\ new.st = "deleted" /\ new.at = file[req[c].new].at /\ new.ext = file[req[c].new].ext
    BY <2>3 DEF Rows
  <2> HIDE DEF was, new
  <2> QED
    BY <1>1, <1>2, <2>2, <2>4
<1> QED
  BY <1>2 DEF Revert

\* create and replace, when they go through.
LEMMA InsertEffect ==
  ASSUME TypeOK, NEW c \in Clients, NEW f \in Files, Streams(c, f), Create(c, f) \/ Swap(c, f)
  PROVE  /\ Becomes(c, Stream(req[c], f))
         /\ file'[f].st = "live" /\ file'[f].at = req[c].at /\ file'[f].ext = req[c].ext
         /\ \A g \in Files \ {f} : file'[g].at = file[g].at /\ file'[g].ext = file[g].ext
         /\ IF req[c].pc = "create"
              THEN ~Taken(req[c].at) /\ \A g \in Files \ {f} : file'[g].st = file[g].st
              ELSE /\ req[c].old \in Files \ {f} /\ Live(req[c].old)
                   /\ file'[req[c].old].st = "deleted"
                   /\ \A g \in Files \ {f, req[c].old} : file'[g].st = file[g].st
<1>1. req[c] \in Requests /\ req[c].pc \in {"create", "swap"}
  BY DEF TypeOK, Create, Swap
<1>2. Becomes(c, Stream(req[c], f))
  BY <1>1, Streaming
<1>3. ~End(c)
  <2>1. SUFFICES ASSUME End(c) PROVE FALSE
    OBVIOUS
  <2>2. Stream(req[c], f) = Idle
    BY <1>2, <2>1, Ends, BecomesTyped
  <2> QED
    BY <1>1, <2>2 DEF Stream, Idle, Requests
<1>4. CASE Create(c, f)
  <2>1. ~Taken(req[c].at) /\ file' = [file EXCEPT ![f] = NewRow(c)] /\ req[c].pc = "create"
    BY <1>3, <1>4 DEF Create
  <2>2. file'[f] = NewRow(c) /\ \A g \in Files \ {f} : file'[g] = file[g]
    BY <2>1 DEF TypeOK
  <2> QED
    BY <1>2, <2>1, <2>2 DEF NewRow
<1>5. CASE Swap(c, f)
  <2>1. Live(req[c].old) /\ file' = Swapped(c, f) /\ req[c].pc = "swap"
    BY <1>3, <1>5 DEF Swap
  <2>2. req[c].old \in Files \ {f}
    BY <2>1, <1>5, RowsOf DEF Swap, Fresh, Live
  <2> DEFINE was == [file[req[c].old] EXCEPT !.st = "deleted"]
  <2>3. file' = [file EXCEPT ![req[c].old] = was, ![f] = NewRow(c)]
    BY <2>1, <2>2 DEF Swapped, TypeOK
  <2>4. file'[f] = NewRow(c) /\ file'[req[c].old] = was
        /\ \A g \in Files \ {f, req[c].old} : file'[g] = file[g]
    BY <2>2, <2>3 DEF TypeOK
  <2>5. file[req[c].old] \in Rows
    BY <2>2 DEF TypeOK
  <2>6. was.st = "deleted" /\ was.at = file[req[c].old].at /\ was.ext = file[req[c].old].ext
    BY <2>5 DEF Rows
  <2> HIDE DEF was
  <2> QED
    BY <1>2, <2>1, <2>2, <2>4, <2>6 DEF NewRow
<1> QED
  BY <1>4, <1>5

LEMMA KnownAfter ==
  ASSUME TypeOK, Known, RowsStay, NEW c \in Clients, NEW r, Becomes(c, r), KnownTo(r)
  PROVE  Known'
<1>1. ASSUME NEW d \in Clients \ {c} PROVE KnownTo(req[d])
  BY RowsOf DEF Known, RowsStay, KnownTo
<1>2. \A d \in Clients : KnownTo(req'[d])
  BY <1>1, BecomesTyped
<1> QED
  BY <1>2 DEF Known, KnownTo

LEMMA IdleKnown == KnownTo(Idle)
  BY DEF KnownTo, Idle

LEMMA CallKnown ==
  ASSUME TypeOK, Known, NEW c \in Clients,
         \/ \E p \in Places, e \in Exts : Upload(c, p, e) \/ Put(c, p, e)
         \/ \E f \in Files : Replace(c, f)
  PROVE  Known'
<1>1. file' = file /\ RowsStay
  BY DEF Upload, Put, Replace, Begin, RowsStay
<1>2. ASSUME NEW p \in Places, NEW e \in Exts, Upload(c, p, e) PROVE Known'
  <2>1. Becomes(c, Called("upload", "create", p, e, NoFile))
    BY <1>2, Begins DEF Upload, Ops
  <2> QED
    BY <1>1, <2>1, KnownAfter DEF KnownTo, Called, Idle
<1>3. ASSUME NEW p \in Places, NEW e \in Exts, Put(c, p, e) PROVE Known'
  <2>1. Becomes(c, Called("put", "locate", p, e, NoFile))
    BY <1>3, Begins DEF Put, Ops
  <2> QED
    BY <1>1, <2>1, KnownAfter DEF KnownTo, Called, Idle
<1>4. ASSUME NEW f \in Files, Replace(c, f) PROVE Known'
  <2>1. file[f].at \in Places /\ file[f].ext \in Exts /\ file[f].st # "none"
    BY <1>4 DEF TypeOK, Rows, Replace, Live
  <2>2. Becomes(c, Called("replace", "resolve", file[f].at, file[f].ext, f))
    BY <1>4, <2>1, Begins, FilesAreNumbers DEF Replace, Ops
  <2>3. KnownTo(Called("replace", "resolve", file[f].at, file[f].ext, f))
    BY <1>1, <2>1 DEF KnownTo, Called, Idle
  <2> QED
    BY <1>1, <2>2, <2>3, KnownAfter
<1> QED
  BY <1>2, <1>3, <1>4

LEMMA InsertKnown ==
  ASSUME TypeOK, Known, NEW c \in Clients, NEW f \in Files, Create(c, f) \/ Swap(c, f)
  PROVE  Known'
<1>1. CASE End(c) /\ UNCHANGED file
  BY <1>1, Ends, IdleKnown, KnownAfter DEF RowsStay
<1>2. CASE Streams(c, f)
  <2>1. req[c] \in Requests
    BY DEF TypeOK
  <2>2. Becomes(c, Stream(req[c], f))
    BY <1>2, InsertEffect
  <2>5. file'[f].st = "live" /\ RowsStay
    BY <1>2, InsertEffect DEF RowsStay
  <2>6. KnownTo(Stream(req[c], f))
    <3>1. file[f].st = "none" /\ file'[f].st # "none"
      BY <2>5 DEF Create, Swap, Fresh
    <3>2. req[c].old # NoFile => req[c].old \in Files /\ file[req[c].old].st # "none"
      BY RowsOf DEF Known
    <3>3. Stream(req[c], f).old = req[c].old /\ Stream(req[c], f).new = f
      BY <2>1 DEF Stream, Requests
    <3> QED
      BY <2>5, <3>1, <3>2, <3>3, FilesAreNumbers DEF KnownTo, RowsStay
  <2> QED
    BY <2>2, <2>5, <2>6, KnownAfter
<1> QED
  BY <1>1, <1>2 DEF Create, Swap

LEMMA WaitKnown ==
  ASSUME TypeOK, Known, NEW c \in Clients, Resolve(c) \/ Locate(c) \/ Abort(c) \/ LoseAnswer(c) \/ UndoFails(c) \/ Crash(c)
  PROVE  Known'
<1>1. file' = file /\ RowsStay /\ req[c] \in Requests
  BY DEF Resolve, Locate, Abort, LoseAnswer, UndoFails, Crash, RowsStay, TypeOK
<1>2. CASE End(c)
  BY <1>1, <1>2, Ends, IdleKnown, KnownAfter
<1>3. ASSUME NEW label \in {"swap", "create", "undo"}, Becomes(c, Jump(req[c], label)) PROVE Known'
  <2>1. KnownTo(Jump(req[c], label))
    BY <1>1, RowsOf DEF KnownTo, Jump, Known, Requests
  <2> QED
    BY <1>1, <1>3, <2>1, KnownAfter
<1>4. ASSUME NEW f \in Files, Live(f), Locate(c), Becomes(c, Aim(req[c], f)) PROVE Known'
  <2>1. req[c].new = NoFile
    BY <1>4, RowsOf DEF Locate, Writing
  <2>2. KnownTo(Aim(req[c], f))
    BY <1>1, <1>4, <2>1 DEF KnownTo, Aim, Known, Live, Requests
  <2> QED
    BY <1>1, <1>4, <2>2, KnownAfter
<1>5. CASE Resolve(c) /\ Goto(c, "swap")
  <2>1. req[c].old # NoFile
    BY <1>1, <1>5 DEF Requests, Resolve
  <2> QED
    BY <1>3, <1>5, <2>1, Jumps DEF Resolve
<1>6. CASE Locate(c) /\ Goto(c, "create")
  BY <1>3, <1>6, Jumps DEF Locate
<1>7. ASSUME NEW f \in Files, Live(f), Locate(c), req' = [req EXCEPT ![c].pc = "swap", ![c].old = f]
      PROVE  Known'
  BY <1>4, <1>7, Aims DEF Locate
<1>8. CASE Abort(c) \/ LoseAnswer(c)
  BY <1>3, <1>8, Jumps DEF Abort, LoseAnswer
<1> QED
  BY <1>2, <1>5, <1>6, <1>7, <1>8 DEF Resolve, Locate, UndoFails, Crash

LEMMA EndKnown ==
  ASSUME TypeOK, Known, NEW c \in Clients, Store(c) \/ Erase(c) \/ Revert(c) \/ Discard(c)
  PROVE  Known'
<1>1. End(c)
  BY DEF Store, Erase, Revert, Discard
<1>2. RowsStay
  <2>1. CASE Store(c)
    BY <2>1 DEF Store, RowsStay
  <2>2. CASE Erase(c)
    BY <2>2, EraseEffect DEF Marked, RowsStay
  <2>3. CASE Discard(c)
    BY <2>3, DiscardEffect DEF Marked, RowsStay
  <2>4. CASE Revert(c)
    <3>1. req[c].old # req[c].new
      BY <2>4, RowsOf DEF Revert, Known, Writing
    <3> QED
      BY <2>4, <3>1, RevertEffect DEF RowsStay
  <2> QED
    BY <2>1, <2>2, <2>3, <2>4
<1> QED
  BY <1>1, <1>2, Ends, IdleKnown, KnownAfter

LEMMA InitTyped == Init => TypeOK /\ Known
<1>1. NoRow \in Rows
  BY DEF NoRow, Rows
<1> QED
  BY <1>1, IdleTyped DEF Init, TypeOK, Known, Idle

LEMMA NextTyped == TypeOK /\ Known /\ [Next]_vars => TypeOK' /\ Known'
<1> SUFFICES ASSUME TypeOK, Known, [Next]_vars PROVE TypeOK' /\ Known'
  OBVIOUS
<1>1. ASSUME NEW c \in Clients, Step(c) PROVE TypeOK' /\ Known'
  BY <1>1, CallSteps, InsertSteps, WaitSteps, EndSteps, CallKnown, InsertKnown, WaitKnown, EndKnown
     DEF Step
<1>2. ASSUME NEW p \in Places, Add(p) \/ Hide(p) \/ Show(p) PROVE TypeOK' /\ Known'
  BY <1>2, PlaceSteps DEF Known, Add, Hide, Show
<1>3. ASSUME NEW f \in Files, SoftDelete(f) \/ Undelete(f) PROVE TypeOK' /\ Known'
  <2>1. RowsStay /\ req' = req
    BY <1>3, RowEffect DEF RowsStay, Marked, SoftDelete, Undelete
  <2>2. Known'
    BY <2>1, FilesAreNumbers DEF Known, RowsStay, TypeOK, Requests
  <2> QED
    BY <1>3, <2>2, RowSteps
<1>4. CASE UNCHANGED vars
  BY <1>4 DEF vars, TypeOK, Known
<1> QED
  BY <1>1, <1>2, <1>3, <1>4, Removals DEF Next

\* Every reachable state is well typed: a request that is writing knows the row
\* it wrote, and no row goes back to never having been there.
THEOREM TypeCorrect == Spec => []TypeOK
  BY InitTyped, NextTyped, PTL DEF Spec

------------------------------------------------------------------------------
(* Nobody deletes files: a stored file's place keeps a live one. *)

\* What c's request may become without the rows being touched: it calls, looks,
\* fails, dies or is answered.
Follows(c, r) ==
    /\ r.pc \in {"stream", "undo"} =>
          /\ req[c].pc = "stream" /\ r.pc = "undo"
          /\ r.new = req[c].new /\ r.old = req[c].old /\ r.at = req[c].at
    /\ r.old # NoFile => r.old \in Files /\ file[r.old].at = r.at
    /\ r.op = "upload" \/ r.pc \in {"create", "locate"} => r.old = NoFile
    /\ r.pc = "locate" => r.op # "upload"

LEMMA LessComing ==
  ASSUME TypeOK, NEW c \in Clients, NEW r, Becomes(c, r), r.pc # "stream",
         \A f \in stored' : f \in stored \/ (req[c].pc = "stream" /\ f = req[c].new)
  PROVE  \A f \in Files : Coming(f)' => Coming(f)
  BY BecomesTyped DEF Coming

LEMMA WaitKeeps ==
  ASSUME IInv, NEW c \in Clients, NEW r, Becomes(c, r), Follows(c, r),
         file' = file, stored' = stored
  PROVE  (Present /\ Aimed /\ Owned /\ Chained /\ Rooted /\ Unique /\ Newest /\ Held)'
<1>0. TypeOK
  BY DEF IInv
<1>1. /\ req'[c] = r
      /\ \A d \in Clients \ {c} : req'[d] = req[d]
  BY <1>0, BecomesTyped
<1>2. \A f \in Files : Coming(f)' => Coming(f)
  <2>1. r.pc # "stream"
    BY DEF Follows
  <2> QED
    BY <1>0, <2>1, LessComing
<1>3. Present'
  BY <1>2 DEF IInv, Present
<1>4. Aimed'
  BY <1>1 DEF IInv, Aimed, Follows
<1>5. \A d \in Clients : Writing(d)' =>
         Writing(d) /\ req'[d].new = req[d].new /\ req'[d].old = req[d].old /\ req'[d].at = req[d].at
  BY <1>1 DEF Writing, Follows
<1>6. Owned'
  BY <1>5 DEF IInv, Owned
<1>7. \A d \in Clients : Writing(d)' => req'[d].new \in Files
  BY <1>0, <1>5, RowsOf DEF Writing
<1>8. Chained'
  BY <1>2, <1>5, <1>7 DEF IInv, Chained, Live, Same
<1>9. Rooted'
  BY <1>2, <1>5 DEF IInv, Rooted, First, Same
<1>10. Unique' /\ Newest' /\ Held'
  BY <1>2 DEF IInv, Unique, Newest, Held, Live, Same, Taken, At
<1> QED
  BY <1>3, <1>4, <1>6, <1>8, <1>9, <1>10

LEMMA InsertKeeps ==
  ASSUME IInv, NEW c \in Clients, NEW f \in Files, Create(c, f) \/ Swap(c, f), Streams(c, f)
  PROVE  (Present /\ Aimed /\ Owned /\ Chained /\ Rooted /\ Unique /\ Newest /\ Held)'
<1>0. TypeOK /\ Known /\ Present /\ Aimed /\ Owned /\ Chained /\ Rooted /\ Unique /\ Newest /\ Held
  BY DEF IInv
<1> DEFINE o == req[c].old
           p == req[c].at
<1>1. /\ Becomes(c, Stream(req[c], f))
      /\ file'[f].st = "live" /\ file'[f].at = p
      /\ \A g \in Files \ {f} : file'[g].at = file[g].at
      /\ \A g \in Files \ {f} : file'[g].st = file[g].st \/ (g = o /\ Live(o) /\ file'[g].st = "deleted")
      /\ IF o = NoFile THEN ~Taken(p) ELSE o \in Files \ {f} /\ Live(o) /\ file'[o].st = "deleted"
      /\ UNCHANGED stored
  <2>1. req[c].pc = "create" \/ (req[c].pc = "swap" /\ req[c].old # NoFile)
    BY <1>0, RowsOf DEF Create, Swap
  <2>2. req[c].pc = "create" => req[c].old = NoFile
    BY <1>0 DEF Aimed
  <2>3. UNCHANGED stored
    BY DEF Create, Swap
  <2>4. CASE req[c].pc = "create"
    BY <1>0, <2>2, <2>3, <2>4, InsertEffect
  <2>5. CASE req[c].pc = "swap" /\ req[c].old # NoFile
    BY <1>0, <2>3, <2>5, InsertEffect DEF Live
  <2> QED
    BY <2>1, <2>4, <2>5
<1>2. /\ req'[c].pc = "stream" /\ req'[c].new = f /\ req'[c].old = o /\ req'[c].at = p
      /\ req'[c].op = req[c].op
      /\ \A d \in Clients \ {c} : req'[d] = req[d]
      /\ ~Writing(c)
  <2>1. req[c] \in Requests /\ ~Writing(c)
    BY <1>0 DEF TypeOK, Writing, Create, Swap
  <2>2. req'[c] = Stream(req[c], f) /\ \A d \in Clients \ {c} : req'[d] = req[d]
    BY <1>0, <1>1, BecomesTyped
  <2>3. /\ Stream(req[c], f).pc = "stream" /\ Stream(req[c], f).new = f /\ Stream(req[c], f).old = req[c].old
        /\ Stream(req[c], f).at = req[c].at /\ Stream(req[c], f).op = req[c].op
    BY <2>1 DEF Stream, Requests
  <2> QED
    BY <2>1, <2>2, <2>3
<1>3. file[f].st = "none" /\ \A g \in Files : g < f => file[g].st # "none"
  BY DEF Create, Swap, Fresh
<1> HIDE DEF o, p
<1>4. \A g \in Files \ {f} : Coming(g)' <=> Coming(g)
  BY <1>1, <1>2 DEF Coming, Writing
<1>5. ~Coming(f) /\ \A g \in Files : f < g => file[g].st = "none" /\ ~Coming(g)
  BY <1>0, <1>3 DEF Present
<1>6. Present'
  <2>1. \A g, h \in Files : g < h /\ file'[g].st = "none" => file'[h].st = "none"
    <3>1. \A g \in Files : file'[g].st = "none" => file[g].st = "none" /\ g # f
      BY <1>1 DEF Live
    <3>2. \A g \in Files \ {f} : file[g].st = "none" => file'[g].st = "none"
      BY <1>1 DEF Live
    <3> QED
      BY <1>0, <1>3, <3>1, <3>2 DEF Present
  <2>2. \A g \in Files : Coming(g)' => file'[g].st \in {"live", "deleted"}
    BY <1>0, <1>1, <1>4 DEF Present
  <2> QED
    BY <2>1, <2>2 DEF Present
<1>7. Aimed'
  BY <1>0, <1>1, <1>2, <1>3, RowsOf DEF Aimed, Known, o, p
<1>8. Owned'
  <2>1. \A d \in Clients \ {c} : Writing(d)' <=> Writing(d)
    BY <1>2 DEF Writing
  <2>2. \A d \in Clients \ {c} : Writing(d) => req[d].new \in Files \ {f}
    BY <1>0, <1>3, RowsOf DEF Owned
  <2>3. f \notin stored'
    BY <1>1, <1>5 DEF Coming
  <2> QED
    BY <1>0, <1>1, <1>2, <2>1, <2>2, <2>3 DEF Owned, Writing, Live
<1>9. Chained'
  <2>1. \A d \in Clients \ {c} : Writing(d)' <=> Writing(d)
    BY <1>2 DEF Writing
  <2>2. ASSUME NEW d \in Clients \ {c}, Writing(d)', req'[d].old # NoFile
        PROVE  /\ req'[d].old < req'[d].new
               /\ file'[req'[d].old].st # "live"
               /\ req'[d].old # o
               /\ \A g \in Files : req'[d].old < g /\ g < req'[d].new
                                   /\ file'[g].at = file'[req'[d].new].at => ~Coming(g)'
    <3>1. Writing(d) /\ req'[d] = req[d] /\ req[d].new \in Files \ {f} /\ req[d].old \in Files \ {f}
      BY <1>0, <1>2, <1>3, <2>1, <2>2, RowsOf DEF Known
    <3>2. req[d].old < req[d].new /\ ~Live(req[d].old) /\ req[d].new < f
      <4>1. req[d].old < req[d].new /\ ~Live(req[d].old)
        BY <1>0, <2>2, <3>1 DEF Chained
      <4>2. file[req[d].new].st # "none"
        BY <1>0, <3>1, FilesAreNumbers DEF Known
      <4>3. ~(f < req[d].new)
        BY <1>5, <3>1, <4>2
      <4> QED
        BY <3>1, <4>1, <4>3, FilesAreNumbers
    <3>3. file'[req[d].old].st # "live" /\ req[d].old # o
      BY <1>1, <2>2, <3>1, <3>2 DEF Live
    <3>4. \A g \in Files : req[d].old < g /\ g < req[d].new
                            /\ file'[g].at = file'[req[d].new].at => ~Coming(g)'
      <4>1. \A g \in Files : req[d].old < g /\ g < req[d].new /\ file[g].at = file[req[d].new].at => ~Coming(g)
        BY <1>0, <2>2, <3>1 DEF Chained, Same
      <4>2. \A g \in Files : g < req[d].new => g # f
        BY <3>1, <3>2, FilesAreNumbers
      <4> QED
        BY <1>1, <1>4, <3>1, <4>1, <4>2
    <3> QED
      BY <3>1, <3>2, <3>3, <3>4
  <2>3. ASSUME o # NoFile
        PROVE  /\ o < f /\ file'[o].st # "live"
               /\ \A g \in Files : o < g /\ g < f /\ Same(g, f)' => ~Coming(g)'
    <3>1. o \in Files \ {f} /\ Live(o) /\ file'[o].st # "live" /\ file[o].at = p
      BY <1>0, <1>1, <2>3 DEF Aimed, o, p
    <3>2. o < f
      BY <1>5, <3>1, FilesAreNumbers DEF Live
    <3>3. \A g \in Files : o < g /\ g < f /\ Same(g, f)' => ~Coming(g)'
      BY <1>0, <1>1, <1>4, <3>1, FilesAreNumbers DEF Newest, Same
    <3> QED
      BY <3>1, <3>2, <3>3
  <2> QED
    BY <1>0, <1>2, <2>1, <2>2, <2>3 DEF Chained, Live, Same
<1>10. Rooted'
  <2>1. ASSUME o = NoFile PROVE First(f)'
    BY <1>0, <1>1, <1>4, <2>1, FilesAreNumbers DEF Held, First, Same
  <2>2. ASSUME NEW g \in Files \ {f}, First(g), g < f PROVE First(g)'
    BY <1>1, <1>4, <2>2, FilesAreNumbers DEF First, Same
  <2>3. \A d \in Clients \ {c} : Writing(d)' => Writing(d) /\ req'[d] = req[d] /\ req[d].new \in Files \ {f} /\ req[d].new < f
    BY <1>0, <1>2, <1>3, <1>5, RowsOf, FilesAreNumbers DEF Writing, Known
  <2>4. \A g \in Files : file'[g].st = "erased" => g \in Files \ {f} /\ g < f /\ file[g].st = "erased"
    BY <1>1, <1>5, FilesAreNumbers
  <2> QED
    BY <1>0, <1>2, <2>1, <2>2, <2>3, <2>4 DEF Rooted
<1>11. \A g \in Files \ {f} : file'[g].st = "live" => file[g].st = "live" /\ file[g].at # p
  <2>1. ASSUME NEW g \in Files \ {f}, file'[g].st = "live", file[g].at = p PROVE FALSE
    <3>1. Live(g) /\ At(g, p) /\ g # o
      BY <1>1, <2>1, FilesAreNumbers DEF Live, At
    <3>2. o # NoFile
      BY <1>1, <3>1 DEF Taken
    <3>3. Live(o) /\ file[o].at = p /\ o \in Files
      BY <1>0, <1>1, <3>2 DEF Aimed, o, p
    <3> QED
      BY <1>0, <2>1, <3>1, <3>3 DEF Unique, Same
  <2> QED
    BY <1>1, <2>1
<1>12. Unique'
  BY <1>0, <1>1, <1>11 DEF Unique, Live, Same
<1>13. Newest'
  <2>1. \A g \in Files : f < g => g # f /\ ~Coming(g)'
    BY <1>4, <1>5, FilesAreNumbers
  <2> QED
    BY <1>0, <1>1, <1>4, <1>11, <2>1 DEF Newest, Live, Same
<1>14. Held'
  <2>1. ASSUME NEW g \in Files \ {f}, Coming(g)
        PROVE  \E h \in Files : file'[h].st = "live" /\ file'[h].at = file'[g].at
    <3>1. PICK h \in Files : Live(h) /\ file[h].at = file[g].at
      BY <1>0, <2>1 DEF Held, Taken, At
    <3>2. h # f
      BY <1>3, <3>1 DEF Live
    <3>3. CASE h # o
      BY <1>1, <2>1, <3>1, <3>2, <3>3 DEF Live
    <3>4. CASE h = o /\ o # NoFile
      <4>1. file[o].at = p
        BY <1>0, <3>4 DEF Aimed, o, p
      <4> QED
        BY <1>1, <2>1, <3>1, <3>4, <4>1 DEF Live
    <3> QED
      BY <3>1, <3>3, <3>4, FilesAreNumbers
  <2> QED
    BY <1>1, <1>4, <2>1 DEF Held, Taken, Live, At
<1> QED
  BY <1>6, <1>7, <1>8, <1>9, <1>10, <1>12, <1>13, <1>14

\* What is left when a request that was writing has ended: it may have stored its
\* bytes, erased its first version or revived the row it replaced.
EndedWell(c) ==
    /\ \A f \in Files : file'[f].at = file[f].at
    /\ \A f \in Files : file'[f].st = "none" <=> file[f].st = "none"
    /\ \A f \in stored' : f \in stored \/ (req[c].pc = "stream" /\ f = req[c].new)
    /\ req[c].new \in stored' => file'[req[c].new].st = file[req[c].new].st
    /\ \A f \in Files : file'[f].st = "erased" =>
          file[f].st = "erased" \/ (f = req[c].new /\ req[c].old = NoFile)
    /\ \A f \in Files : file'[f].st = "live" => file[f].st = "live" \/ f = req[c].old

LEMMA EndFacts ==
  ASSUME IInv, NEW c \in Clients, End(c), Writing(c), EndedWell(c)
  PROVE  /\ \A f \in Files : Coming(f)' => Coming(f)
         /\ \A n \in Files : n = req[c].new /\ Coming(n)' => n \in stored'
         /\ \A d \in Clients : Writing(d)' =>
               d # c /\ Writing(d) /\ req'[d] = req[d] /\ req[d].new # req[c].new
<1>0. TypeOK /\ Owned
  BY DEF IInv
<1>1. Becomes(c, Idle) /\ req'[c] = Idle /\ \A d \in Clients \ {c} : req'[d] = req[d]
  BY <1>0, Ends, BecomesTyped
<1>2. \A f \in Files : Coming(f)' => Coming(f)
  BY <1>0, <1>1, LessComing DEF EndedWell, Idle
<1>3. \A d \in Clients : Writing(d)' =>
               d # c /\ Writing(d) /\ req'[d] = req[d] /\ req[d].new # req[c].new
  BY <1>0, <1>1 DEF Writing, Owned, Idle
<1>4. ASSUME NEW n \in Files, n = req[c].new, Coming(n)' PROVE n \in stored'
  BY <1>3, <1>4 DEF Coming, Writing
<1> QED
  BY <1>2, <1>3, <1>4

LEMMA EndKeeps ==
  ASSUME IInv, TypeOK', NEW c \in Clients, End(c), Writing(c), EndedWell(c)
  PROVE  (Present /\ Aimed /\ Owned /\ Chained /\ Rooted)'
<1>0. TypeOK /\ Present /\ Aimed /\ Owned /\ Chained /\ Rooted
  BY DEF IInv
<1> DEFINE n == req[c].new
<1>1. /\ n \in Files
      /\ \A f \in Files : Coming(f)' => Coming(f)
      /\ \A m \in Files : m = n /\ Coming(m)' => m \in stored'
      /\ \A d \in Clients : Writing(d)' =>
               d # c /\ Writing(d) /\ req'[d] = req[d] /\ req[d].new \in Files \ {n}
      /\ req'[c] = Idle /\ \A d \in Clients \ {c} : req'[d] = req[d]
  BY <1>0, EndFacts, RowsOf, Ends, BecomesTyped
<1>2. \A f \in Files : file'[f].at = file[f].at
  BY DEF EndedWell
<1>3. \A f \in Files \ {n} : file[f].st \in {"live", "deleted"} => file'[f].st \in {"live", "deleted"}
  <2>1. ASSUME NEW f \in Files \ {n}, file[f].st \in {"live", "deleted"} PROVE file'[f].st \in {"live", "deleted"}
    <3>1. file'[f].st \in {"none", "live", "deleted", "erased"}
      BY DEF TypeOK, Rows
    <3> QED
      BY <2>1, <3>1 DEF EndedWell
  <2> QED
    BY <2>1
<1> HIDE DEF n
<1>4. Present'
  <2>1. \A f \in Files : Coming(f)' => file'[f].st \in {"live", "deleted"}
    <3>1. ASSUME NEW f \in Files, Coming(f)' PROVE file'[f].st \in {"live", "deleted"}
      <4>1. file[f].st \in {"live", "deleted"}
        BY <1>0, <1>1, <3>1 DEF Present
      <4>2. f = n => file'[f].st = file[f].st
        BY <1>1, <3>1 DEF EndedWell, n
      <4> QED
        BY <1>3, <4>1, <4>2
    <3> QED
      BY <3>1
  <2> QED
    BY <1>0, <2>1 DEF Present, EndedWell
<1>5. Aimed'
  <2>1. \A d \in Clients \ {c} : req'[d].old # NoFile => file'[req'[d].old].at = req'[d].at
    BY <1>0, <1>1, <1>2, RowsOf DEF Aimed
  <2> QED
    BY <1>0, <1>1, <2>1 DEF Aimed, Idle
<1>6. Owned'
  <2>1. ASSUME NEW d \in Clients, Writing(d)'
        PROVE  /\ file'[req'[d].new].at = req'[d].at
               /\ file'[req'[d].new].st \in {"live", "deleted"}
               /\ req'[d].new \notin stored'
    BY <1>0, <1>1, <1>2, <1>3, <2>1 DEF Owned, EndedWell, n
  <2>2. \A d, e \in Clients : Writing(d)' /\ Writing(e)' /\ req'[d].new = req'[e].new => d = e
    BY <1>0, <1>1 DEF Owned
  <2> QED
    BY <2>1, <2>2 DEF Owned
<1>7. Chained'
  <2>1. ASSUME NEW d \in Clients, Writing(d)', req'[d].old # NoFile
        PROVE  /\ req'[d].old < req'[d].new
               /\ file'[req'[d].old].st # "live"
               /\ \A g \in Files : req'[d].old < g /\ g < req'[d].new
                                   /\ file'[g].at = file'[req'[d].new].at => ~Coming(g)'
    <3>1. Writing(d) /\ d # c /\ req'[d] = req[d] /\ req[d].new \in Files /\ req[d].old \in Files
      BY <1>0, <1>1, <2>1, RowsOf
    <3>2. req[d].old # req[c].old
      BY <1>0, <2>1, <3>1 DEF Chained
    <3>3. file'[req[d].old].st # "live"
      BY <1>0, <2>1, <3>1, <3>2 DEF Chained, Live, EndedWell
    <3>4. \A g \in Files : req[d].old < g /\ g < req[d].new
                            /\ file'[g].at = file'[req[d].new].at => ~Coming(g)'
      BY <1>0, <1>1, <1>2, <2>1, <3>1 DEF Chained, Same
    <3> QED
      BY <1>0, <2>1, <3>1, <3>3, <3>4 DEF Chained
  <2>2. \A d, e \in Clients : Writing(d)' /\ Writing(e)' /\ req'[d].old # NoFile
                              /\ req'[d].old = req'[e].old => d = e
    BY <1>0, <1>1 DEF Chained
  <2> QED
    BY <2>1, <2>2 DEF Chained, Live, Same
<1>8. Rooted'
  <2>1. ASSUME NEW f \in Files, First(f) PROVE First(f)'
    BY <1>1, <1>2, <2>1 DEF First, Same
  <2>2. ASSUME NEW f \in Files, file'[f].st = "erased" PROVE First(f)
    BY <1>0, <2>2 DEF Rooted, EndedWell
  <2>3. ASSUME NEW d \in Clients, Writing(d)', req'[d].old = NoFile
        PROVE  req'[d].new \in Files /\ First(req[d].new) /\ req'[d].new = req[d].new
    BY <1>0, <1>1, <2>3 DEF Rooted
  <2> QED
    BY <2>1, <2>2, <2>3 DEF Rooted
<1> QED
  BY <1>4, <1>5, <1>6, <1>7, <1>8

\* Nothing changes about who is live.
LEMMA StoreKeeps ==
  ASSUME IInv, TypeOK', NEW c \in Clients, Store(c)
  PROVE  (Present /\ Aimed /\ Owned /\ Chained /\ Rooted /\ Unique /\ Newest /\ Held)'
<1>1. End(c) /\ Writing(c) /\ EndedWell(c) /\ file' = file
  BY DEF Store, Writing, EndedWell
<1>2. \A f \in Files : Coming(f)' => Coming(f)
  BY <1>1, EndFacts
<1>3. Unique' /\ Newest' /\ Held'
  BY <1>1, <1>2 DEF IInv, Unique, Newest, Held, Live, Same, Taken, At
<1> QED
  BY <1>1, <1>3, EndKeeps

\* A first version that failed goes: nothing else has bytes coming there if it was live.
LEMMA FirstGoes ==
  ASSUME IInv, TypeOK', NEW c \in Clients, End(c), Writing(c), req[c].old = NoFile, stored' = stored,
         NEW st \in {"deleted", "erased"}, Marked(req[c].new, st)
  PROVE  (Present /\ Aimed /\ Owned /\ Chained /\ Rooted /\ Unique /\ Newest /\ Held)'
<1>0. TypeOK /\ Owned /\ Rooted /\ Unique /\ Newest /\ Held
  BY DEF IInv
<1> DEFINE n == req[c].new
<1>1. /\ n \in Files /\ n \notin stored /\ file[n].st \in {"live", "deleted"}
      /\ \A f \in Files : file'[f].at = file[f].at
      /\ \A f \in Files \ {n} : file'[f].st = file[f].st
      /\ file'[n].st = st
  BY <1>0, RowsOf DEF Owned, Marked
<1>2. EndedWell(c)
  BY <1>1 DEF EndedWell
<1>3. \A f \in Files : Coming(f)' => Coming(f) /\ f # n
  BY <1>1, <1>2, EndFacts
<1>4. First(n)
  BY <1>0 DEF Rooted
<1> HIDE DEF n
<1>5. Unique' /\ Newest'
  BY <1>0, <1>1, <1>3 DEF Unique, Newest, Live, Same
<1>6. ASSUME NEW f \in Files, Coming(f)'
      PROVE  \E h \in Files : file'[h].st = "live" /\ file'[h].at = file'[f].at
  <2>1. PICK h \in Files : Live(h) /\ file[h].at = file[f].at
    BY <1>0, <1>3, <1>6 DEF Held, Taken, At
  <2>2. h # n
    <3>1. SUFFICES ASSUME h = n PROVE FALSE
      OBVIOUS
    <3>2. f < n \/ n < f
      BY <1>1, <1>3, <1>6, FilesAreNumbers
    <3> QED
      BY <1>0, <1>1, <1>3, <1>4, <1>6, <2>1, <3>1, <3>2 DEF First, Newest, Same
  <2> QED
    BY <1>1, <2>1, <2>2 DEF Live
<1>7. Held'
  BY <1>6 DEF Held, Taken, Live, At
<1> QED
  BY <1>2, <1>5, <1>7, EndKeeps

LEMMA EraseKeeps ==
  ASSUME IInv, TypeOK', NEW c \in Clients, Erase(c)
  PROVE  (Present /\ Aimed /\ Owned /\ Chained /\ Rooted /\ Unique /\ Newest /\ Held)'
<1>1. TypeOK /\ Aimed
  BY DEF IInv
<1>2. End(c) /\ Writing(c) /\ req[c].old = NoFile /\ stored' = stored
  BY <1>1 DEF Erase, Writing, Aimed
<1>3. Marked(req[c].new, "erased")
  BY <1>1, EraseEffect
<1> QED
  BY <1>2, <1>3, FirstGoes

LEMMA DiscardKeeps ==
  ASSUME IInv, TypeOK', NEW c \in Clients, Discard(c)
  PROVE  (Present /\ Aimed /\ Owned /\ Chained /\ Rooted /\ Unique /\ Newest /\ Held)'
<1>1. TypeOK
  BY DEF IInv
<1>2. End(c) /\ Writing(c) /\ req[c].old = NoFile /\ stored' = stored
  BY DEF Discard, Writing
<1>3. CASE Live(req[c].new)
  <2>1. Marked(req[c].new, "deleted")
    BY <1>1, <1>3, DiscardEffect
  <2> QED
    BY <1>2, <2>1, FirstGoes
<1>4. CASE ~Live(req[c].new)
  <2>1. file' = file
    BY <1>1, <1>4, DiscardEffect
  <2>2. EndedWell(c)
    BY <1>2, <2>1 DEF EndedWell
  <2>3. \A f \in Files : Coming(f)' => Coming(f)
    BY <1>2, <2>2, EndFacts
  <2>4. Unique' /\ Newest' /\ Held'
    BY <2>1, <2>3 DEF IInv, Unique, Newest, Held, Live, Same, Taken, At
  <2> QED
    BY <1>2, <2>2, <2>4, EndKeeps
<1> QED
  BY <1>3, <1>4

\* A failed replacement goes, and the row it replaced is back unless it was
\* erased in the meantime or a third row is live.
LEMMA RevertKeeps ==
  ASSUME IInv, TypeOK', NEW c \in Clients, Revert(c)
  PROVE  (Present /\ Aimed /\ Owned /\ Chained /\ Rooted /\ Unique /\ Newest /\ Held)'
<1>0. TypeOK /\ Known /\ Present /\ Aimed /\ Owned /\ Chained /\ Rooted /\ Unique /\ Newest /\ Held
  BY DEF IInv
<1> DEFINE n == req[c].new
           o == req[c].old
<1>1. End(c) /\ Writing(c) /\ o # NoFile /\ req[c].pc = "undo" /\ stored' = stored
  BY DEF Revert, Writing
<1>2. /\ n \in Files /\ o \in Files /\ o < n
      /\ file[n].at = req[c].at /\ file[o].at = req[c].at
      /\ file[n].st \in {"live", "deleted"} /\ file[o].st \in {"deleted", "erased"}
      /\ n \notin stored
  <2>1. n \in Files /\ o \in Files
    BY <1>0, <1>1, RowsOf
  <2>2. file[o].st # "none" /\ file[o].st # "live"
    BY <1>0, <1>1 DEF Known, Chained, Live
  <2>3. file[o].st \in {"none", "live", "deleted", "erased"}
    BY <1>0, <2>1 DEF TypeOK, Rows
  <2> QED
    BY <1>0, <1>1, <2>1, <2>2, <2>3 DEF Owned, Aimed, Chained
<1>3. \A g \in Files : o < g /\ g < n /\ file[g].at = file[n].at => ~Coming(g)
  BY <1>0, <1>1, <1>2 DEF Chained, Same
<1>4. CASE file' = file
  <2>1. EndedWell(c)
    BY <1>1, <1>4 DEF EndedWell
  <2>2. \A f \in Files : Coming(f)' => Coming(f)
    BY <1>1, <2>1, EndFacts
  <2>3. Unique' /\ Newest' /\ Held'
    BY <1>0, <1>4, <2>2 DEF Unique, Newest, Held, Live, Same, Taken, At
  <2> QED
    BY <1>1, <2>1, <2>3, EndKeeps
<1>5. CASE /\ ~InTheWay(c)
           /\ \A f \in Files : file'[f].at = file[f].at
           /\ file'[n].st = "deleted"
           /\ file'[o].st = IF file[o].st = "erased" THEN "erased" ELSE "live"
           /\ \A f \in Files \ {o, n} : file'[f].st = file[f].st
  <2>1. EndedWell(c)
    BY <1>1, <1>2, <1>5 DEF EndedWell
  <2>2. \A f \in Files : Coming(f)' => Coming(f) /\ f # n
    BY <1>1, <1>2, <2>1, EndFacts
  <2>3. Live(n) => \A g \in Files : n < g /\ file[g].at = file[n].at => ~Coming(g)
    BY <1>0, <1>2 DEF Newest, Same
  <2> HIDE DEF n, o
  <2>4. CASE file[o].st = "erased"
    <3>1. \A g \in Files : g < o /\ file[g].at = file[n].at => ~Coming(g)
      BY <1>0, <1>2, <2>4 DEF Rooted, First, Same
    <3>2. ~Coming(o)
      BY <1>0, <1>2, <2>4 DEF Present
    <3>3. Unique' /\ Newest'
      BY <1>0, <1>2, <1>5, <2>2, <2>4 DEF Unique, Newest, Live, Same
    <3>4. ASSUME NEW f \in Files, Coming(f)'
          PROVE  \E h \in Files : file'[h].st = "live" /\ file'[h].at = file'[f].at
      <4>1. PICK h \in Files : Live(h) /\ file[h].at = file[f].at
        BY <1>0, <2>2, <3>4 DEF Held, Taken, At
      <4>2. h # o
        BY <1>2, <4>1 DEF Live
      <4>3. h # n
        <5>1. SUFFICES ASSUME h = n PROVE FALSE
          OBVIOUS
        <5>2. f < o \/ f = o \/ (o < f /\ f < n) \/ n < f
          BY <1>2, <2>2, <3>4, FilesAreNumbers
        <5>3. Coming(f) /\ file[f].at = file[n].at /\ Live(n)
          BY <2>2, <3>4, <4>1, <5>1
        <5> QED
          BY <1>3, <2>3, <3>1, <3>2, <5>2, <5>3
      <4> QED
        BY <1>5, <4>1, <4>2, <4>3 DEF Live
    <3>5. Held'
      BY <3>4 DEF Held, Taken, Live, At
    <3> QED
      BY <1>1, <2>1, <3>3, <3>5, EndKeeps
  <2>5. CASE file[o].st # "erased"
    <3>1. file'[o].st = "live"
      BY <1>5, <2>5
    <3>2. \A g \in Files : file[g].st = "live" /\ file[g].at = file[o].at => g = n
      <4>1. ~\E g \in Siblings(o) \ {n} : Live(g)
        BY <1>5, <2>5 DEF InTheWay, o, n
      <4>2. \A g \in Files \ {o} : file[g].st = "live" /\ file[g].at = file[o].at => g \in Siblings(o)
        BY DEF Siblings, At
      <4> QED
        BY <1>2, <4>1, <4>2 DEF Live
    <3>3. \A g \in Files \ {o} : file'[g].st = "live" => file[g].st = "live" /\ file[g].at # file[o].at
      BY <1>2, <1>5, <3>2
    <3>4. Unique'
      BY <1>0, <1>5, <3>1, <3>3 DEF Unique, Live, Same
    <3>5. \A g \in Files : o < g /\ file[g].at = file[o].at => ~Coming(g)'
      <4>1. ASSUME NEW g \in Files, n < g, file[g].at = file[o].at, ~Live(n) PROVE ~Coming(g)
        BY <1>0, <1>2, <3>2, <4>1 DEF Held, Taken, Live, At
      <4>2. ASSUME NEW g \in Files, o < g, file[g].at = file[o].at, Coming(g)' PROVE FALSE
        <5>1. Coming(g) /\ g # n
          BY <2>2, <4>2
        <5>2. g < n \/ n < g
          BY <1>2, <5>1, FilesAreNumbers
        <5> QED
          BY <1>2, <1>3, <2>3, <4>1, <4>2, <5>1, <5>2
      <4> QED
        BY <4>2
    <3>6. Newest'
      BY <1>0, <1>5, <2>2, <3>3, <3>5 DEF Newest, Live, Same
    <3>7. ASSUME NEW f \in Files, Coming(f)'
          PROVE  \E h \in Files : file'[h].st = "live" /\ file'[h].at = file'[f].at
      <4>1. CASE file[f].at = file[o].at
        BY <1>2, <1>5, <3>1, <4>1
      <4>2. CASE file[f].at # file[o].at
        <5>1. PICK h \in Files : Live(h) /\ file[h].at = file[f].at
          BY <1>0, <2>2, <3>7 DEF Held, Taken, At
        <5> QED
          BY <1>2, <1>5, <4>2, <5>1 DEF Live
      <4> QED
        BY <4>1, <4>2
    <3>8. Held'
      BY <3>7 DEF Held, Taken, Live, At
    <3> QED
      BY <1>1, <2>1, <3>4, <3>6, <3>8, EndKeeps
  <2> QED
    BY <2>4, <2>5
<1>6. o # n
  BY <1>2, FilesAreNumbers
<1> QED
  BY <1>0, <1>4, <1>5, <1>6, RevertEffect

\* A row that is restored has no later sibling, so nothing is coming after it.
LEMMA UndeleteKeeps ==
  ASSUME IInv, NEW f \in Files, Undelete(f)
  PROVE  (Present /\ Aimed /\ Owned /\ Chained /\ Rooted /\ Unique /\ Newest /\ Held)'
<1>0. TypeOK /\ Known /\ Present /\ Aimed /\ Owned /\ Chained /\ Rooted /\ Unique /\ Newest /\ Held
  BY DEF IInv
<1>1. /\ file[f].st = "deleted" /\ file'[f].st = "live"
      /\ \A g \in Files : file'[g].at = file[g].at
      /\ \A g \in Files \ {f} : file'[g].st = file[g].st
      /\ req' = req /\ stored' = stored
  BY <1>0, RowEffect DEF Marked, Undelete, Restorable, Deleted
<1>2. \A g \in Files \ {f} : file[g].at = file[f].at /\ file[g].st \in {"live", "deleted"} =>
          g < f /\ file[g].st # "live"
  BY DEF Undelete, Restorable, Siblings, At, Live
<1>3. \A g \in Files : Coming(g)' <=> Coming(g)
  BY <1>1 DEF Coming
<1>4. \A d \in Clients : Writing(d)' <=> Writing(d)
  BY <1>1 DEF Writing
<1>5. Present' /\ Aimed'
  BY <1>0, <1>1, <1>3, RowsOf DEF Present, Aimed
<1>6. \A d \in Clients : Writing(d) => req[d].new \in Files
  BY <1>0, RowsOf
<1>7. Owned'
  BY <1>0, <1>1, <1>4, <1>6 DEF Owned
<1>8. ASSUME NEW d \in Clients, Writing(d), req[d].old # NoFile PROVE req[d].old # f
  <2>1. SUFFICES ASSUME req[d].old = f PROVE FALSE
    OBVIOUS
  <2>2. /\ req[d].new \in Files /\ f < req[d].new /\ file[req[d].new].at = file[f].at
        /\ file[req[d].new].st \in {"live", "deleted"}
    BY <1>0, <1>6, <1>8, <2>1 DEF Chained, Owned, Aimed
  <2> QED
    BY <1>2, <2>2, FilesAreNumbers
<1>9. Chained'
  <2>1. \A d \in Clients : Writing(d) /\ req[d].old # NoFile => file'[req[d].old].st # "live"
    BY <1>0, <1>1, <1>8, RowsOf DEF Chained, Live
  <2> QED
    BY <1>0, <1>1, <1>3, <1>4, <1>6, <2>1 DEF Chained, Live, Same
<1>10. Rooted'
  <2>1. \A g \in Files : First(g) => First(g)'
    BY <1>1, <1>3 DEF First, Same
  <2>2. \A g \in Files : file'[g].st = "erased" => file[g].st = "erased"
    BY <1>1
  <2> QED
    BY <1>0, <1>1, <1>4, <1>6, <2>1, <2>2 DEF Rooted
<1>11. Unique'
  BY <1>0, <1>1, <1>2 DEF Unique, Live, Same
<1>12. Newest'
  <2>1. \A g \in Files : f < g /\ file[g].at = file[f].at => ~Coming(g)
    BY <1>0, <1>2, FilesAreNumbers DEF Present
  <2> QED
    BY <1>0, <1>1, <1>3, <2>1 DEF Newest, Live, Same
<1>13. Held'
  BY <1>0, <1>1, <1>3 DEF Held, Taken, Live, At
<1> QED
  BY <1>5, <1>7, <1>9, <1>10, <1>11, <1>12, <1>13

\* A new request, a look, a failure and an answer without a write.
LEMMA OtherKeeps ==
  ASSUME IInv, NEW c \in Clients,
         \/ \E p \in Places, e \in Exts : Upload(c, p, e) \/ Put(c, p, e)
         \/ \E f \in Files : Replace(c, f) \/ ((Create(c, f) \/ Swap(c, f)) /\ ~Streams(c, f))
         \/ Resolve(c) \/ Locate(c) \/ Abort(c) \/ LoseAnswer(c) \/ UndoFails(c) \/ Crash(c)
  PROVE  (Present /\ Aimed /\ Owned /\ Chained /\ Rooted /\ Unique /\ Newest /\ Held)'
<1>0. TypeOK /\ Known /\ Aimed /\ req[c] \in Requests
  BY DEF IInv, TypeOK
<1>1. file' = file /\ stored' = stored
  BY DEF Upload, Put, Replace, Begin, Create, Swap, Resolve, Locate, Abort, LoseAnswer, UndoFails, Crash
<1>2. CASE End(c)
  <2>1. Follows(c, Idle)
    BY DEF Follows, Idle
  <2> QED
    BY <1>1, <1>2, <2>1, Ends, WaitKeeps
<1>3. ASSUME NEW op \in Ops, NEW pc \in {"create", "locate", "resolve"}, NEW p \in Places,
             NEW e \in Exts, NEW f \in Files \cup {NoFile}, pc = "resolve" => f # NoFile, Begin(c, op, pc, p, e, f),
             f # NoFile => file[f].at = p, op = "upload" \/ pc # "resolve" => f = NoFile,
             pc = "locate" => op # "upload"
      PROVE  (Present /\ Aimed /\ Owned /\ Chained /\ Rooted /\ Unique /\ Newest /\ Held)'
  <2>1. Becomes(c, Called(op, pc, p, e, f))
    BY <1>3, Begins
  <2>2. Follows(c, Called(op, pc, p, e, f))
    BY <1>3 DEF Follows, Called, Idle
  <2> QED
    BY <1>1, <2>1, <2>2, WaitKeeps
<1>4. ASSUME NEW p \in Places, NEW e \in Exts, Upload(c, p, e) \/ Put(c, p, e)
      PROVE  (Present /\ Aimed /\ Owned /\ Chained /\ Rooted /\ Unique /\ Newest /\ Held)'
  BY <1>3, <1>4 DEF Upload, Put, Ops
<1>5. ASSUME NEW f \in Files, Replace(c, f)
      PROVE  (Present /\ Aimed /\ Owned /\ Chained /\ Rooted /\ Unique /\ Newest /\ Held)'
  <2>1. file[f].at \in Places /\ file[f].ext \in Exts
    BY <1>0, <1>5 DEF TypeOK, Rows, Replace, Live
  <2> QED
    BY <1>3, <1>5, <2>1, FilesAreNumbers DEF Replace, Ops
<1>6. ASSUME NEW f \in Files, (Create(c, f) \/ Swap(c, f)) /\ ~Streams(c, f) PROVE End(c)
  BY <1>6 DEF Create, Swap
<1>7. ASSUME NEW label \in {"swap", "create", "undo"}, Becomes(c, Jump(req[c], label)),
             label = "undo" <=> req[c].pc = "stream", label = "create" => req[c].old = NoFile
      PROVE  (Present /\ Aimed /\ Owned /\ Chained /\ Rooted /\ Unique /\ Newest /\ Held)'
  <2>1. /\ Jump(req[c], label).pc = label /\ Jump(req[c], label).old = req[c].old
        /\ Jump(req[c], label).new = req[c].new /\ Jump(req[c], label).at = req[c].at
        /\ Jump(req[c], label).op = req[c].op
    BY <1>0 DEF Jump, Requests
  <2>2. Follows(c, Jump(req[c], label))
    BY <1>0, <1>7, <2>1, RowsOf DEF Follows, Aimed
  <2> QED
    BY <1>1, <1>7, <2>2, WaitKeeps
<1>8. CASE Resolve(c) /\ Goto(c, "swap")
  <2>1. req[c].old # NoFile
    BY <1>0, <1>8, RowsOf DEF Resolve
  <2>2. Becomes(c, Jump(req[c], "swap"))
    BY <1>0, <1>8, <2>1, Jumps DEF Resolve
  <2> QED
    BY <1>7, <1>8, <2>2 DEF Resolve
<1>9. CASE Abort(c) \/ LoseAnswer(c)
  <2>1. Becomes(c, Jump(req[c], "undo"))
    BY <1>0, <1>9, Jumps DEF Abort, LoseAnswer
  <2> QED
    BY <1>7, <1>9, <2>1 DEF Abort, LoseAnswer
<1>10. CASE Locate(c)
  <2>1. req[c].old = NoFile /\ req[c].op # "upload"
    BY <1>0, <1>10 DEF Aimed, Locate
  <2>2. CASE Goto(c, "create")
    <3>1. Becomes(c, Jump(req[c], "create"))
      BY <1>0, <1>10, <2>2, Jumps DEF Locate
    <3> QED
      BY <1>7, <1>10, <2>1, <3>1 DEF Locate
  <2>3. ASSUME NEW f \in Files, At(f, req[c].at), req' = [req EXCEPT ![c].pc = "swap", ![c].old = f]
        PROVE  (Present /\ Aimed /\ Owned /\ Chained /\ Rooted /\ Unique /\ Newest /\ Held)'
    <3>1. Becomes(c, Aim(req[c], f))
      BY <1>0, <1>10, <2>3, Aims DEF Locate
    <3>2. /\ Aim(req[c], f).pc = "swap" /\ Aim(req[c], f).old = f
          /\ Aim(req[c], f).at = req[c].at /\ Aim(req[c], f).op = req[c].op
      BY <1>0 DEF Aim, Requests
    <3>3. Follows(c, Aim(req[c], f))
      BY <2>1, <2>3, <3>2 DEF Follows, At
    <3> QED
      BY <1>1, <3>1, <3>3, WaitKeeps
  <2> QED
    BY <1>10, <2>2, <2>3 DEF Locate
<1> QED
  BY <1>2, <1>4, <1>5, <1>6, <1>8, <1>9, <1>10 DEF Resolve, UndoFails, Crash

LEMMA InitIInv == Init => IInv
<1> SUFFICES ASSUME Init PROVE IInv
  OBVIOUS
<1>1. /\ \A f \in Files : file[f].st = "none"
      /\ \A c \in Clients : req[c] = Idle /\ Idle.pc = "idle" /\ Idle.old = NoFile /\ Idle.op = "none"
      /\ stored = {}
  BY DEF Init, NoRow, Idle
<1>2. \A f \in Files : ~Coming(f)
  BY <1>1 DEF Coming
<1>3. \A c \in Clients : ~Writing(c)
  BY <1>1 DEF Writing
<1>4. Present /\ Aimed /\ Owned /\ Chained /\ Rooted /\ Unique /\ Newest /\ Held
  BY <1>1, <1>2, <1>3 DEF Present, Aimed, Owned, Chained, Rooted, Unique, Newest, Held, Live
<1> QED
  BY <1>4, InitTyped DEF IInv

LEMMA NextIInv ==
  ASSUME "delete" \notin Kinds PROVE IInv /\ [Next]_vars => IInv'
<1> SUFFICES ASSUME IInv, [Next]_vars PROVE IInv'
  OBVIOUS
<1>0. TypeOK' /\ Known'
  BY NextTyped DEF IInv
<1>1. ASSUME NEW c \in Clients, Step(c)
      PROVE  (Present /\ Aimed /\ Owned /\ Chained /\ Rooted /\ Unique /\ Newest /\ Held)'
  <2>1. CASE Store(c) \/ Erase(c) \/ Revert(c) \/ Discard(c)
    BY <1>0, <2>1, StoreKeeps, EraseKeeps, RevertKeeps, DiscardKeeps
  <2>2. ASSUME NEW f \in Files, Create(c, f) \/ Swap(c, f), Streams(c, f)
        PROVE  (Present /\ Aimed /\ Owned /\ Chained /\ Rooted /\ Unique /\ Newest /\ Held)'
    BY <2>2, InsertKeeps
  <2> QED
    BY <1>1, <2>1, <2>2, OtherKeeps DEF Step
<1>2. ASSUME UNCHANGED <<file, stored, req>>
      PROVE  (Present /\ Aimed /\ Owned /\ Chained /\ Rooted /\ Unique /\ Newest /\ Held)'
  BY <1>2 DEF IInv, Present, Aimed, Owned, Chained, Rooted, Unique, Newest, Held, Coming, Writing, First,
              Same, Live, Taken, At
<1>3. ASSUME NEW p \in Places, Add(p) \/ Hide(p) \/ Show(p) PROVE UNCHANGED <<file, stored, req>>
  BY <1>3 DEF Add, Hide, Show
<1>4. ASSUME NEW f \in Files, SoftDelete(f) PROVE FALSE
  BY <1>4 DEF SoftDelete
<1>5. UNCHANGED vars => UNCHANGED <<file, stored, req>>
  BY DEF vars
<1> QED
  BY <1>0, <1>1, <1>2, <1>3, <1>4, <1>5, UndeleteKeeps, Removals DEF Next, IInv

\* While nobody deletes files, every place that ever had a file stored has a live
\* one, however many requests replace, fail, are undone or die there.
THEOREM NeverLostUndeleted ==
  ASSUME "delete" \notin Kinds PROVE Spec => []NeverLost
<1>1. IInv => NeverLost
  BY DEF IInv, TypeOK, Held, Coming, NeverLost
<1> QED
  BY <1>1, InitIInv, NextIInv, PTL DEF Spec
------------------------------------------------------------------------------
(* One request at a time, arrangements with a slug each and no object that *)
(* appears in spite of an error: a file that can be opened shows its own   *)
(* bytes, whichever of the uploads, compensations and processes fail.      *)

Alone == \A c, d \in Clients : req[c].pc # "idle" /\ req[d].pc # "idle" => c = d

InOrder == \A f, g \in Files : g < f /\ file[g].st = "none" => file[f].st = "none"

\* The row that is being written is live and the newest of all.
Latest == \A c \in Clients : Writing(c) =>
    /\ Live(req[c].new)
    /\ file[req[c].new].at = req[c].at /\ file[req[c].new].ext = req[c].ext
    /\ req[c].new \notin stored
    /\ \A g \in Files : file[g].st # "none" => g <= req[c].new

Meant == \A c \in Clients : req[c].pc # "idle" /\ req[c].old # NoFile =>
    file[req[c].old].at = req[c].at /\ req[c].pc \notin {"create", "locate"}

\* A stored file has its bytes, or a later one was stored over it.
Overwritten(f) == \E g \in stored : f < g /\ Same(f, g)
Whole == \A f \in stored :
    /\ file[f].st \in {"live", "deleted"}
    /\ Bytes(f) = f \/ (~Live(f) /\ Overwritten(f))

\* A replacement that may be undone has not touched what it replaced.
Recalled == \A c \in Clients : Writing(c) /\ req[c].old \in stored => Bytes(req[c].old) = req[c].old

SInv == TypeOK /\ Known /\ Alone /\ InOrder /\ Latest /\ Meant /\ Unique /\ Whole /\ Recalled

OthersIdle(c) == \A d \in Clients \ {c} : req[d].pc = "idle"

LEMMA StepAlone ==
  ASSUME ~Overlap, Alone, NEW c \in Clients, Step(c) PROVE OthersIdle(c)
<1>1. CASE req[c].pc = "idle"
  BY <1>1 DEF Step, Upload, Put, Replace, Begin, Quiet, OthersIdle, Create, Swap, Resolve, Locate, Store,
              Abort, LoseAnswer, Erase, Revert, Discard, UndoFails, Crash
<1>2. CASE req[c].pc # "idle"
  BY <1>2 DEF Alone, OthersIdle
<1> QED
  BY <1>1, <1>2

\* Once its request has ended, nobody is at work.
LEMMA EndAlone ==
  ASSUME TypeOK, NEW c \in Clients, OthersIdle(c), End(c)
  PROVE  (Alone /\ Latest /\ Meant /\ Recalled)'
<1>1. \A d \in Clients : req'[d].pc = "idle"
  BY Ends, BecomesTyped DEF OthersIdle, Idle
<1> QED
  BY <1>1 DEF Alone, Latest, Meant, Recalled, Writing

LEMMA BytesStay ==
  ASSUME NEW f \in Files, object' = object, file'[f].at = file[f].at, file'[f].ext = file[f].ext
  PROVE  Bytes(f)' = Bytes(f)
  BY DEF Bytes, Key

\* While nothing is stored, files only have to come back with their bytes.
LEMMA WholeStays ==
  ASSUME TypeOK, Whole, object' = object, stored' = stored,
         \A f \in stored : file'[f].at = file[f].at /\ file'[f].ext = file[f].ext,
         \A f \in stored : file'[f].st \in {"live", "deleted"},
         \A f \in stored : file'[f].st = "live" => file[f].st = "live" \/ Bytes(f) = f
  PROVE  Whole'
<1>1. stored \subseteq Files
  BY DEF TypeOK
<1>2. ASSUME NEW f \in stored, Bytes(f) = f PROVE Bytes(f)' = f
  BY <1>1, <1>2, BytesStay
<1>3. ASSUME NEW f \in stored, Bytes(f) # f PROVE file'[f].st # "live" /\ Overwritten(f)'
  BY <1>3 DEF Whole, Overwritten, Same, Live
<1> QED
  BY <1>2, <1>3 DEF Whole, Live

\* Only an undelete and an undone replacement bring a file back, and what they
\* bring back has its bytes.
LEMMA UndeletesWhole ==
  ASSUME SInv, NEW f \in Files, Undelete(f), f \in stored PROVE Bytes(f) = f
<1>1. ~Overwritten(f)
  <2>1. SUFFICES ASSUME NEW g \in stored, f < g, Same(f, g) PROVE FALSE
    BY DEF Overwritten
  <2>2. g \in Files /\ g # f /\ file[g].st \in {"live", "deleted"}
    BY <2>1, FilesAreNumbers DEF SInv, TypeOK, Whole
  <2>3. g \in Siblings(f)
    BY <2>1, <2>2 DEF Siblings, At, Same
  <2>4. g < f
    BY <2>3 DEF Undelete, Restorable
  <2> QED
    BY <2>1, <2>2, <2>4, FilesAreNumbers
<1> QED
  BY <1>1 DEF SInv, Whole

\* What c's request may become while nothing else changes.
Carries(c, r) ==
    /\ r.pc \in {"stream", "undo"} =>
          /\ Writing(c)
          /\ r.new = req[c].new /\ r.old = req[c].old /\ r.at = req[c].at /\ r.ext = req[c].ext
    /\ r.pc # "idle" /\ r.old # NoFile =>
          file[r.old].at = r.at /\ r.pc \notin {"create", "locate"}

LEMMA WaitSerial ==
  ASSUME SInv, NEW c \in Clients, OthersIdle(c), NEW r, Becomes(c, r), Carries(c, r),
         UNCHANGED <<file, object, stored>>
  PROVE  (Alone /\ InOrder /\ Latest /\ Meant /\ Unique /\ Whole /\ Recalled)'
<1>1. req'[c] = r /\ \A d \in Clients \ {c} : req'[d].pc = "idle"
  BY BecomesTyped DEF SInv, OthersIdle
<1>2. Alone' /\ Meant'
  BY <1>1 DEF Alone, Meant, Carries
<1>3. Latest' /\ Recalled'
  BY <1>1 DEF SInv, Latest, Recalled, Carries, Writing, Live, Bytes, Key
<1>4. InOrder' /\ Unique' /\ Whole'
  BY DEF SInv, InOrder, Unique, Whole, Overwritten, Live, Same, Bytes, Key
<1> QED
  BY <1>2, <1>3, <1>4

\* The new row is in: what it replaced was live, so that its bytes are there.
LEMMA InsertSerial ==
  ASSUME SInv, NEW c \in Clients, OthersIdle(c), NEW f \in Files,
         Create(c, f) \/ Swap(c, f), Streams(c, f)
  PROVE  (Alone /\ InOrder /\ Latest /\ Meant /\ Unique /\ Whole /\ Recalled)'
<1>0. TypeOK /\ Known /\ InOrder /\ Meant /\ Unique /\ Whole /\ req[c] \in Requests
  BY DEF SInv, TypeOK
<1> DEFINE r == Stream(req[c], f)
<1>1. r.pc = "stream" /\ r.new = f /\ r.old = req[c].old /\ r.at = req[c].at /\ r.ext = req[c].ext
  BY <1>0 DEF Stream, Requests
<1>2. Becomes(c, r)
  BY <1>0, InsertEffect
<1> HIDE DEF r
<1>3. req'[c] = r /\ \A d \in Clients \ {c} : req'[d].pc = "idle"
  BY <1>0, <1>2, BecomesTyped DEF OthersIdle
<1>4. /\ file[f].st = "none" /\ \A g \in Files : g < f => file[g].st # "none"
      /\ object' = object /\ stored' = stored /\ req[c].pc \in {"create", "swap"}
  BY DEF Create, Swap, Fresh
<1>5. /\ file'[f].st = "live" /\ file'[f].at = req[c].at /\ file'[f].ext = req[c].ext
      /\ \A g \in Files \ {f} : file'[g].at = file[g].at /\ file'[g].ext = file[g].ext
      /\ \A g \in Files \ {f} : file'[g].st = "none" <=> file[g].st = "none"
      /\ \A g \in Files \ {f} : file'[g].st = "erased" <=> file[g].st = "erased"
      /\ \A g \in Files \ {f} : file'[g].st = "live" => file[g].st = "live"
      /\ \A g \in Files \ {f} : file'[g].st = "live" => file[g].at # req[c].at
  <2>1. CASE req[c].pc = "create"
    BY <1>0, <2>1, InsertEffect DEF Taken, Live, At
  <2>2. CASE req[c].pc # "create"
    <3>1. /\ req[c].old \in Files \ {f} /\ Live(req[c].old) /\ file[req[c].old].at = req[c].at
          /\ file'[req[c].old].st = "deleted"
          /\ \A g \in Files \ {f, req[c].old} : file'[g].st = file[g].st
      BY <1>0, <1>4, <2>2, InsertEffect, FilesAreNumbers DEF Meant
    <3>2. \A g \in Files \ {f} : file'[g].st = "live" => file[g].st = "live" /\ file[g].at # req[c].at
      BY <1>0, <3>1 DEF Unique, Live, Same
    <3>3. \A g \in Files \ {f} : /\ file'[g].at = file[g].at /\ file'[g].ext = file[g].ext
      BY <1>0, InsertEffect
    <3>4. file'[f].st = "live" /\ file'[f].at = req[c].at /\ file'[f].ext = req[c].ext
      BY <1>0, InsertEffect
    <3> QED
      BY <3>1, <3>2, <3>3, <3>4 DEF Live
  <2> QED
    BY <2>1, <2>2
<1>6. f \notin stored /\ stored \subseteq Files
  BY <1>0, <1>4 DEF Whole, TypeOK
<1>7. InOrder'
  BY <1>0, <1>4, <1>5, FilesAreNumbers DEF InOrder
<1>8. Latest'
  <2>1. \A g \in Files : file'[g].st # "none" => g <= f
    BY <1>0, <1>4, <1>5, FilesAreNumbers DEF InOrder
  <2> QED
    BY <1>1, <1>3, <1>4, <1>5, <1>6, <2>1 DEF Latest, Writing, Live
<1>9. Unique'
  BY <1>0, <1>5 DEF Unique, Live, Same
<1>10. Whole'
  <2>1. \A g \in stored : g \in Files \ {f} /\ file'[g].st \in {"none", "live", "deleted", "erased"}
    <3>1. file' \in [Files -> Rows]
      BY InsertSteps, <1>0 DEF TypeOK
    <3> QED
      BY <1>6, <3>1 DEF Rows
  <2>2. \A g \in stored : file[g].st \notin {"none", "erased"}
    BY <1>0 DEF Whole
  <2>3. \A g \in stored : file'[g].st \in {"live", "deleted"}
    BY <1>5, <2>1, <2>2
  <2> QED
    BY <1>0, <1>4, <1>5, <2>1, <2>3, WholeStays
<1>11. Alone' /\ Meant'
  <2>1. ASSUME r.old # NoFile PROVE file'[r.old].at = r.at
    BY <1>0, <1>1, <1>4, <1>5, <2>1, RowsOf DEF Meant
  <2> QED
    BY <1>1, <1>3, <2>1 DEF Alone, Meant
<1>12. Recalled'
  <2>1. SUFFICES ASSUME req[c].old \in stored
                 PROVE  object'[Key(file'[req[c].old].at, file'[req[c].old].ext)] = req[c].old
    BY <1>1, <1>3, <1>4 DEF Recalled, Writing, Bytes, Key
  <2>2. req[c].old # NoFile /\ req[c].old \in Files \ {f}
    BY <1>6, <2>1, FilesAreNumbers
  <2>3. Live(req[c].old)
    BY <1>0, <1>4, <2>2, InsertEffect DEF Meant
  <2>4. Bytes(req[c].old) = req[c].old
    BY <1>0, <2>1, <2>3 DEF Whole
  <2> QED
    BY <1>4, <1>5, <2>2, <2>4 DEF Bytes
<1> QED
  BY <1>7, <1>8, <1>9, <1>10, <1>11, <1>12

\* The upload is completed: nothing live is at the key that it overwrites.
LEMMA StoreSerial ==
  ASSUME SInv, NEW c \in Clients, Store(c), \A p, q \in Places : SlugOf[p] = SlugOf[q] => p = q
  PROVE  (InOrder /\ Unique /\ Whole)'
<1>0. TypeOK /\ InOrder /\ Latest /\ Unique /\ Whole /\ req[c] \in Requests
  BY DEF SInv, TypeOK
<1>a. PICK n \in Files : n = req[c].new
  BY <1>0, RowsOf DEF Store, Writing
<1>1. /\ file' = file /\ stored' = stored \cup {n}
      /\ object' = [object EXCEPT ![Target(c)] = n]
      /\ Writing(c) /\ Target(c) \in Keys
  BY <1>0, <1>a, TargetTyped DEF Store, Writing
<1>2. /\ Live(n) /\ file[n].at = req[c].at /\ file[n].ext = req[c].ext
      /\ \A g \in Files : file[g].st # "none" => g <= n
  BY <1>0, <1>1, <1>a DEF Latest
<1>3. file'[n].st = "live" /\ Bytes(n)' = n
  BY <1>0, <1>1, <1>2 DEF TypeOK, Bytes, Target, Live
<1>4. ASSUME NEW f \in stored, f # n
      PROVE  /\ file'[f].st \in {"live", "deleted"}
             /\ Bytes(f)' = f \/ (file'[f].st # "live" /\ Overwritten(f)')
  <2>1. f \in Files /\ file[f].st \in {"live", "deleted"} /\ file[f].at \in Places
    BY <1>0, <1>4 DEF TypeOK, Whole, Rows
  <2>2. CASE Key(file[f].at, file[f].ext) = Target(c)
    <3>1. req[c].at \in Places
      BY <1>0, <1>1, RowsOf DEF Writing
    <3>2. Same(f, n)
      BY <1>2, <2>1, <2>2, <3>1 DEF Key, Target, Same
    <3>3. f < n
      BY <1>1, <1>2, <1>4, <2>1, FilesAreNumbers
    <3>4. file[f].st # "live"
      BY <1>0, <1>1, <1>2, <1>4, <2>1, <3>2 DEF Unique, Live
    <3> QED
      BY <1>1, <2>1, <3>2, <3>3, <3>4 DEF Overwritten, Same
  <2>3. CASE Key(file[f].at, file[f].ext) # Target(c)
    <3>1. Bytes(f)' = Bytes(f)
      BY <1>0, <1>1, <2>3 DEF TypeOK, Bytes
    <3>2. Bytes(f) = f \/ (~Live(f) /\ Overwritten(f))
      BY <1>0, <1>4 DEF Whole
    <3> QED
      BY <1>1, <2>1, <3>1, <3>2 DEF Overwritten, Same, Live
  <2> QED
    BY <2>2, <2>3
<1>5. Whole'
  BY <1>1, <1>3, <1>4 DEF Whole, Live
<1> QED
  BY <1>0, <1>1, <1>5 DEF InOrder, Unique, Live, Same

\* A first version that failed goes; it was never stored.
LEMMA FirstGoesSerial ==
  ASSUME SInv, NEW c \in Clients, Erase(c) \/ Discard(c)
  PROVE  (InOrder /\ Unique /\ Whole)'
<1>0. TypeOK /\ InOrder /\ Latest /\ Unique /\ Whole
  BY DEF SInv
<1>1. /\ req[c].new \in Files /\ Live(req[c].new) /\ req[c].new \notin stored
      /\ object' = object /\ stored' = stored
  BY <1>0, RowsOf DEF Latest, Writing, Erase, Discard
<1>2. \E st \in {"deleted", "erased"} : Marked(req[c].new, st)
  BY <1>0, <1>1, EraseEffect, DiscardEffect
<1>3. /\ \A f \in Files : file'[f].at = file[f].at /\ file'[f].ext = file[f].ext
      /\ \A f \in Files \ {req[c].new} : file'[f].st = file[f].st
      /\ file'[req[c].new].st \in {"deleted", "erased"}
  BY <1>2 DEF Marked
<1>4. stored \subseteq Files \ {req[c].new}
  BY <1>0, <1>1 DEF TypeOK
<1>5. Whole'
  <2>1. \A f \in stored : file'[f].st \in {"live", "deleted"}
    BY <1>0, <1>3, <1>4 DEF Whole
  <2> QED
    BY <1>0, <1>1, <1>3, <1>4, <2>1, WholeStays
<1>6. InOrder'
  BY <1>0, <1>1, <1>3 DEF InOrder, Live
<1> QED
  BY <1>0, <1>3, <1>5, <1>6 DEF Unique, Live, Same

\* restore_replaced brings the old row back with the bytes that it had.
LEMMA RevertSerial ==
  ASSUME SInv, NEW c \in Clients, Revert(c)
  PROVE  (InOrder /\ Unique /\ Whole)'
<1>0. TypeOK /\ Known /\ InOrder /\ Latest /\ Meant /\ Unique /\ Whole /\ Recalled
  BY DEF SInv
<1> DEFINE o == req[c].old
           n == req[c].new
<1>1. /\ n \in Files /\ o \in Files /\ o # n /\ Writing(c) /\ o # NoFile /\ file[o].st # "none"
      /\ n \notin stored /\ Live(n) /\ file[n].at = req[c].at /\ file[o].at = req[c].at
      /\ object' = object /\ stored' = stored
  BY <1>0, RowsOf DEF Revert, Writing, Known, Latest, Meant
<1>2. CASE file' = file
  BY <1>0, <1>1, <1>2 DEF InOrder, Unique, Whole, Overwritten, Live, Same, Bytes
<1>3. CASE file' # file
  <2>1. /\ ~InTheWay(c)
        /\ \A f \in Files : file'[f].at = file[f].at
        /\ \A f \in Files : file'[f].ext = file[f].ext
        /\ file'[n].st = "deleted"
        /\ file'[o].st = IF file[o].st = "erased" THEN "erased" ELSE "live"
        /\ \A f \in Files \ {o, n} : file'[f].st = file[f].st
    BY <1>0, <1>1, <1>3, RevertEffect
  <2>2. file'[o].st = "live" => \A f \in Files \ {o, n} : Live(f) => file[f].at # file[o].at
    BY <1>1, <2>1 DEF InTheWay, Siblings, At, Live
  <2>3. o \in stored => Bytes(o) = o
    BY <1>0, <1>1 DEF Recalled
  <2>4. stored \subseteq Files \ {n}
    BY <1>0, <1>1 DEF TypeOK
  <2> HIDE DEF o, n
  <2>5. InOrder'
    BY <1>0, <1>1, <2>1 DEF InOrder, Live
  <2>6. Unique'
    BY <1>0, <1>1, <2>1, <2>2 DEF Unique, Live, Same
  <2>7. Whole'
    <3>1. \A f \in stored : file'[f].st \in {"live", "deleted"}
      BY <1>0, <1>1, <2>1, <2>4 DEF Whole
    <3>2. \A f \in stored : file'[f].st = "live" => file[f].st = "live" \/ Bytes(f) = f
      BY <2>1, <2>3, <2>4
    <3> QED
      BY <1>0, <1>1, <2>1, <2>4, <3>1, <3>2, WholeStays
  <2> QED
    BY <2>5, <2>6, <2>7
<1> QED
  BY <1>2, <1>3

\* Files are deleted and restored between requests.
LEMMA RowSerial ==
  ASSUME SInv, ~Overlap, NEW f \in Files, SoftDelete(f) \/ Undelete(f)
  PROVE  (Alone /\ InOrder /\ Latest /\ Meant /\ Unique /\ Whole /\ Recalled)'
<1>0. TypeOK /\ InOrder /\ Unique /\ Whole /\ stored \subseteq Files
  BY DEF SInv, TypeOK
<1>1. /\ \A d \in Clients : req'[d].pc = "idle"
      /\ object' = object /\ stored' = stored
  BY DEF SoftDelete, Undelete, Quiet
<1>2. (Alone /\ Latest /\ Meant /\ Recalled)'
  BY <1>1 DEF Alone, Latest, Meant, Recalled, Writing
<1>3. /\ \A g \in Files : file'[g].at = file[g].at /\ file'[g].ext = file[g].ext
      /\ \A g \in Files \ {f} : file'[g].st = file[g].st
      /\ file[f].st \in {"live", "deleted"}
      /\ file'[f].st = IF Undelete(f) THEN "live" ELSE "deleted"
  <2>1. CASE SoftDelete(f)
    BY <1>0, <2>1, RowEffect DEF Marked, SoftDelete, Undelete, Restorable, Live, Deleted
  <2>2. CASE Undelete(f)
    BY <1>0, <2>2, RowEffect DEF Marked, Undelete, Restorable, Live, Deleted
  <2> QED
    BY <2>1, <2>2
<1>4. InOrder'
  BY <1>0, <1>3 DEF InOrder
<1>5. Unique'
  <2>1. Undelete(f) => \A g \in Files \ {f} : Live(g) => file[g].at # file[f].at
    BY DEF Undelete, Restorable, Siblings, At, Live
  <2> QED
    BY <1>0, <1>3, <2>1 DEF Unique, Live, Same
<1>6. Whole'
  <2>1. f \in stored /\ Undelete(f) => Bytes(f) = f
    BY UndeletesWhole
  <2>2. \A g \in stored : file'[g].st \in {"live", "deleted"}
    BY <1>0, <1>3 DEF Whole
  <2>3. \A g \in stored : file'[g].st = "live" => file[g].st = "live" \/ Bytes(g) = g
    BY <1>0, <1>3, <2>1
  <2> QED
    BY <1>0, <1>1, <1>3, <2>2, <2>3, WholeStays
<1> QED
  BY <1>2, <1>4, <1>5, <1>6

\* A call, a look, a failure and an answer without a write.
LEMMA OtherSerial ==
  ASSUME SInv, NEW c \in Clients, OthersIdle(c),
         \/ \E p \in Places, e \in Exts : Upload(c, p, e) \/ Put(c, p, e)
         \/ \E f \in Files : Replace(c, f) \/ ((Create(c, f) \/ Swap(c, f)) /\ ~Streams(c, f))
         \/ Resolve(c) \/ Locate(c) \/ Abort(c) \/ UndoFails(c) \/ Crash(c)
  PROVE  (Alone /\ InOrder /\ Latest /\ Meant /\ Unique /\ Whole /\ Recalled)'
<1>0. TypeOK /\ Meant /\ req[c] \in Requests
  BY DEF SInv, TypeOK
<1>1. UNCHANGED <<file, object, stored>>
  BY DEF Upload, Put, Replace, Begin, Create, Swap, Resolve, Locate, Abort, UndoFails, Crash
<1>2. CASE End(c)
  <2>1. Carries(c, Idle)
    BY DEF Carries, Idle
  <2> QED
    BY <1>0, <1>1, <1>2, <2>1, Ends, WaitSerial
<1>3. ASSUME NEW op \in Ops, NEW pc \in {"create", "locate", "resolve"}, NEW p \in Places,
             NEW e \in Exts, NEW f \in Files \cup {NoFile}, pc = "resolve" => f # NoFile, Begin(c, op, pc, p, e, f),
             f # NoFile => file[f].at = p /\ pc = "resolve"
      PROVE  (Alone /\ InOrder /\ Latest /\ Meant /\ Unique /\ Whole /\ Recalled)'
  <2>1. Becomes(c, Called(op, pc, p, e, f))
    BY <1>3, Begins
  <2>2. Carries(c, Called(op, pc, p, e, f))
    BY <1>3 DEF Carries, Called, Idle
  <2> QED
    BY <1>1, <2>1, <2>2, WaitSerial
<1>4. ASSUME NEW p \in Places, NEW e \in Exts, Upload(c, p, e) \/ Put(c, p, e)
      PROVE  (Alone /\ InOrder /\ Latest /\ Meant /\ Unique /\ Whole /\ Recalled)'
  BY <1>3, <1>4 DEF Upload, Put, Ops
<1>5. ASSUME NEW f \in Files, Replace(c, f)
      PROVE  (Alone /\ InOrder /\ Latest /\ Meant /\ Unique /\ Whole /\ Recalled)'
  <2>1. file[f].at \in Places /\ file[f].ext \in Exts
    BY <1>0, <1>5 DEF TypeOK, Rows, Replace, Live
  <2> QED
    BY <1>3, <1>5, <2>1, FilesAreNumbers DEF Replace, Ops
<1>6. ASSUME NEW f \in Files, (Create(c, f) \/ Swap(c, f)) /\ ~Streams(c, f) PROVE End(c)
  BY <1>6 DEF Create, Swap
<1>7. ASSUME NEW label \in {"swap", "create", "undo"}, Becomes(c, Jump(req[c], label)),
             label = "undo" => req[c].pc = "stream", label = "create" => req[c].old = NoFile,
             req[c].pc # "idle"
      PROVE  (Alone /\ InOrder /\ Latest /\ Meant /\ Unique /\ Whole /\ Recalled)'
  <2>1. /\ Jump(req[c], label).pc = label /\ Jump(req[c], label).old = req[c].old
        /\ Jump(req[c], label).new = req[c].new /\ Jump(req[c], label).at = req[c].at
        /\ Jump(req[c], label).ext = req[c].ext
    BY <1>0 DEF Jump, Requests
  <2>2. Carries(c, Jump(req[c], label))
    BY <1>0, <1>7, <2>1 DEF Carries, Meant, Writing
  <2> QED
    BY <1>1, <1>7, <2>2, WaitSerial
<1>8. CASE Resolve(c) /\ Goto(c, "swap")
  <2>1. req[c].old # NoFile
    BY <1>0, <1>8, RowsOf DEF Resolve
  <2>2. Becomes(c, Jump(req[c], "swap"))
    BY <1>0, <1>8, <2>1, Jumps DEF Resolve
  <2> QED
    BY <1>7, <1>8, <2>2 DEF Resolve
<1>9. CASE Abort(c)
  <2>1. Becomes(c, Jump(req[c], "undo"))
    BY <1>0, <1>9, Jumps DEF Abort
  <2> QED
    BY <1>7, <1>9, <2>1 DEF Abort
<1>10. CASE Locate(c)
  <2>1. req[c].old = NoFile
    BY <1>0, <1>10 DEF Meant, Locate
  <2>2. CASE Goto(c, "create")
    <3>1. Becomes(c, Jump(req[c], "create"))
      BY <1>0, <1>10, <2>2, Jumps DEF Locate
    <3> QED
      BY <1>7, <1>10, <2>1, <3>1 DEF Locate
  <2>3. ASSUME NEW f \in Files, At(f, req[c].at), req' = [req EXCEPT ![c].pc = "swap", ![c].old = f]
        PROVE  (Alone /\ InOrder /\ Latest /\ Meant /\ Unique /\ Whole /\ Recalled)'
    <3>1. Becomes(c, Aim(req[c], f))
      BY <1>0, <1>10, <2>3, Aims DEF Locate
    <3>2. Aim(req[c], f).pc = "swap" /\ Aim(req[c], f).old = f /\ Aim(req[c], f).at = req[c].at
      BY <1>0 DEF Aim, Requests
    <3>3. Carries(c, Aim(req[c], f))
      BY <2>3, <3>2 DEF Carries, At
    <3> QED
      BY <1>1, <3>1, <3>3, WaitSerial
  <2> QED
    BY <1>10, <2>2, <2>3 DEF Locate
<1> QED
  BY <1>2, <1>4, <1>5, <1>6, <1>8, <1>9, <1>10 DEF Resolve, UndoFails, Crash

LEMMA InitSerial == Init => SInv
<1> SUFFICES ASSUME Init PROVE SInv
  OBVIOUS
<1>1. /\ \A f \in Files : file[f].st = "none"
      /\ \A c \in Clients : req[c].pc = "idle"
      /\ stored = {}
  BY DEF Init, NoRow, Idle
<1> QED
  BY <1>1, InitTyped DEF SInv, Alone, InOrder, Latest, Meant, Unique, Whole, Recalled, Writing, Live

\* The premises of the theorems below.
Serial ==
    /\ ~Overlap /\ "answer" \notin Faults
    /\ \A p, q \in Places : SlugOf[p] = SlugOf[q] => p = q

LEMMA NextSerial == ASSUME Serial PROVE SInv /\ [Next]_vars => SInv'
<1> SUFFICES ASSUME SInv, [Next]_vars PROVE SInv'
  OBVIOUS
<1>0. TypeOK' /\ Known'
  BY NextTyped DEF SInv
<1>1. ASSUME NEW c \in Clients, Step(c)
      PROVE  (Alone /\ InOrder /\ Latest /\ Meant /\ Unique /\ Whole /\ Recalled)'
  <2>1. OthersIdle(c)
    BY <1>1, StepAlone DEF SInv, Serial
  <2>2. CASE Store(c) \/ Erase(c) \/ Revert(c) \/ Discard(c)
    <3>1. End(c) /\ TypeOK
      BY <2>2 DEF Store, Erase, Revert, Discard, SInv
    <3>2. (Alone /\ Latest /\ Meant /\ Recalled)'
      BY <2>1, <3>1, EndAlone
    <3> QED
      BY <2>2, <3>2, StoreSerial, FirstGoesSerial, RevertSerial DEF Serial
  <2>3. ASSUME NEW f \in Files, Create(c, f) \/ Swap(c, f), Streams(c, f)
        PROVE  (Alone /\ InOrder /\ Latest /\ Meant /\ Unique /\ Whole /\ Recalled)'
    BY <2>1, <2>3, InsertSerial
  <2>4. ~LoseAnswer(c)
    BY DEF Serial, LoseAnswer
  <2> QED
    BY <1>1, <2>1, <2>2, <2>3, <2>4, OtherSerial DEF Step
<1>2. ASSUME UNCHANGED <<file, object, stored, req>>
      PROVE  (Alone /\ InOrder /\ Latest /\ Meant /\ Unique /\ Whole /\ Recalled)'
  BY <1>2 DEF SInv, Alone, InOrder, Latest, Meant, Unique, Whole, Recalled, Overwritten, Writing, Live,
              Same, Bytes
<1>3. ASSUME NEW p \in Places, Add(p) \/ Hide(p) \/ Show(p) PROVE UNCHANGED <<file, object, stored, req>>
  BY <1>3 DEF Add, Hide, Show
<1>4. ASSUME NEW f \in Files, SoftDelete(f) \/ Undelete(f)
      PROVE  (Alone /\ InOrder /\ Latest /\ Meant /\ Unique /\ Whole /\ Recalled)'
  BY <1>4, RowSerial DEF Serial
<1>5. UNCHANGED vars => UNCHANGED <<file, object, stored, req>>
  BY DEF vars
<1> QED
  BY <1>0, <1>1, <1>2, <1>3, <1>4, <1>5, Removals DEF Next, SInv

\* A deleted file comes back by an undelete or because its replacement is undone.
LEMMA WhoRevives ==
  ASSUME SInv, Next, NEW f \in stored, Deleted(f), Live(f)' PROVE Bytes(f) = f
<1>1. f \in Files /\ TypeOK /\ Known /\ Recalled /\ Whole
  BY DEF SInv, TypeOK
<1>2. file' # file
  BY DEF Deleted, Live
<1>3. ASSUME NEW c \in Clients, Step(c) PROVE Bytes(f) = f
  <2>1. CASE Revert(c)
    <3>1. req[c].old # req[c].new /\ req[c].new \in Files
      BY <1>1, <2>1, RowsOf DEF Revert, Known, Writing
    <3>2. f = req[c].old
      BY <1>1, <1>2, <2>1, <3>1, RevertEffect DEF Deleted, Live
    <3> QED
      BY <1>1, <2>1, <3>2 DEF Recalled, Revert, Writing
  <2>2. CASE Erase(c) \/ Discard(c)
    <3>1. \E st \in {"deleted", "erased"} : Marked(req[c].new, st)
      BY <1>1, <1>2, <2>2, EraseEffect, DiscardEffect
    <3> QED
      BY <1>1, <3>1 DEF Marked, Deleted, Live
  <2>3. ASSUME NEW g \in Files, Create(c, g) \/ Swap(c, g) PROVE Bytes(f) = f
    <3>1. Streams(c, g) /\ f # g
      BY <1>2, <2>3 DEF Create, Swap, Fresh, Deleted
    <3>2. req[c].pc \in {"create", "swap"}
      BY <2>3 DEF Create, Swap
    <3>3. file'[f].st = "live" => file[f].st = "live"
      <4>1. file'[f].st = file[f].st \/ (f = req[c].old /\ file'[req[c].old].st = "deleted")
        BY <1>1, <2>3, <3>1, <3>2, InsertEffect
      <4> QED
        BY <4>1
    <3> QED
      BY <3>3 DEF Deleted, Live
  <2> QED
    BY <1>2, <1>3, <2>1, <2>2, <2>3
       DEF Step, Upload, Put, Replace, Begin, Resolve, Locate, Store, Abort, LoseAnswer, UndoFails, Crash
<1>4. ASSUME NEW g \in Files, SoftDelete(g) PROVE FALSE
  BY <1>1, <1>4, RowEffect DEF Marked, Deleted, Live
<1>5. ASSUME NEW g \in Files, Undelete(g) PROVE Bytes(f) = f
  <2>1. f = g
    BY <1>1, <1>5, RowEffect DEF Marked, Deleted, Live
  <2> QED
    BY <1>1, <1>5, <2>1, UndeletesWhole
<1> QED
  BY <1>2, <1>3, <1>4, <1>5, Removals DEF Next, Add, Hide, Show

\* Served one request at a time, every stored file that can be opened shows its
\* own bytes: neither an upload that fails at its place, nor the undoing of a
\* replacement, nor the key that all its versions share gives it another one's.
THEOREM OwnBytesOneByOne == ASSUME Serial PROVE Spec => []OwnBytes
<1>1. SInv => OwnBytes
  BY DEF SInv, Whole, OwnBytes, Shown
<1> QED
  BY <1>1, InitSerial, NextSerial, PTL DEF Spec

\* ... and a stored file that comes back, from a removal or from a replacement
\* that failed, finds its own bytes at its key.
THEOREM WholeOneByOne == ASSUME Serial PROVE Spec => ComesBackWhole
<1>1. SInv /\ [Next]_vars
        => [\A f \in stored : Deleted(f) /\ (Live(f) /\ Settled(f))' => Bytes(f) = f]_vars
  BY WhoRevives
<1> QED
  BY <1>1, InitSerial, NextSerial, PTL DEF Spec, ComesBackWhole
=============================================================================
