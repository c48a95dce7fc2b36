----------------------------- MODULE FileStore -----------------------------
(***************************************************************************)
(* The file rows of PostgreSQL and the objects of the bucket they stand    *)
(* for.  A row does not store its object's key: the key is computed from   *)
(* the slugs of the arrangement or voice (the place) it belongs to and     *)
(* from its extension, so all files that were ever at a name and extension *)
(* share one object.  A request writes its row in one statement or         *)
(* transaction and streams the bytes after it.                             *)
(*                                                                         *)
(* One name and format per place: rows of other names and formats and      *)
(* their objects are independent of these.  The unique index and WebDAV    *)
(* go by the format; an image has one of several extensions.               *)
(***************************************************************************)
EXTENDS Naturals

CONSTANTS
    Clients,     \* requests being served
    Places,      \* arrangements and voices, dead or alive
    Voices,      \* ... those of them that are voices
    SlugOf,      \* the slug each one was given, which never changes
    Exts,        \* the extensions of the format (png, jpg, ... of "image")
    MaxFiles,    \* model bound: how many rows are ever inserted
    Kinds,       \* the operations the clients may call
    Faults,      \* what may fail: an operation's bytes, "answer", "undo", "crash"
    Overlap,     \* may a request arrive while another one is being served?
    NoPlace, NoExt

Slugs == {SlugOf[p] : p \in Places}
Keys == Slugs \X Exts
Files == 1 .. MaxFiles      \* in the order of created_at
NoFile == 0

ASSUME SlugAssumption == SlugOf \in [Places -> Slugs]
ASSUME BoundAssumption == MaxFiles \in Nat
ASSUME OverlapAssumption == Overlap \in BOOLEAN
ASSUME PlaceAssumption == NoPlace \notin Places /\ NoExt \notin Exts

VARIABLES
    place,    \* is the arrangement or voice live?
    file,     \* the file rows
    object,   \* which row's bytes are at each key
    stored,   \* history: the rows whose upload was answered with success
    req       \* what every client is doing

vars == <<place, file, object, stored, req>>

Rows ==
    {r \in [st : {"none", "live", "deleted", "erased"},
            at : Places \cup {NoPlace}, ext : Exts \cup {NoExt}] :
        /\ (r.st = "none") <=> (r.at = NoPlace)
        /\ (r.st = "none") <=> (r.ext = NoExt)}
NoRow == [st |-> "none", at |-> NoPlace, ext |-> NoExt]

Ops == {"none", "upload", "replace", "put"}
Pcs == {"idle", "locate", "resolve", "create", "swap", "stream", "undo"}
Requests ==
    {r \in [op : Ops, pc : Pcs, at : Places \cup {NoPlace}, ext : Exts \cup {NoExt},
            old : Files \cup {NoFile}, new : Files \cup {NoFile}] :
        /\ (r.pc # "idle") <=> (r.at # NoPlace)
        /\ (r.pc # "idle") <=> (r.ext # NoExt)
        /\ r.pc \in {"resolve", "swap"} => r.old # NoFile
        /\ (r.pc \in {"stream", "undo"}) <=> (r.new # NoFile)}
Idle ==
    [op |-> "none", pc |-> "idle", at |-> NoPlace, ext |-> NoExt, old |-> NoFile, new |-> NoFile]

TypeOK ==
    /\ place \in [Places -> {"none", "live", "deleted"}]
    /\ file \in [Files -> Rows]
    /\ object \in [Keys -> Files \cup {NoFile}]
    /\ stored \in SUBSET Files
    /\ req \in [Clients -> Requests]

------------------------------------------------------------------------------

Live(f) == file[f].st = "live"
Deleted(f) == file[f].st = "deleted"
At(f, p) == file[f].at = p /\ file[f].st \in {"live", "deleted"}
Taken(p) == \E g \in Files : Live(g) /\ At(g, p)
Siblings(f) == {g \in Files \ {f} : At(g, file[f].at)}

\* derived_key, and what a download of f is served from it.
Key(p, e) == <<SlugOf[p], e>>
Bytes(f) == object[Key(file[f].at, file[f].ext)]

\* The next row to be inserted is newer than all there are.
Fresh(f) == file[f].st = "none" /\ \A g \in Files : g < f => file[g].st # "none"

Quiet == Overlap \/ \A c \in Clients : req[c].pc = "idle"

End(c) == req' = [req EXCEPT ![c] = Idle]
Goto(c, label) == req' = [req EXCEPT ![c].pc = label]
Begin(c, op, pc, p, e, f) ==
    /\ req[c].pc = "idle" /\ Quiet /\ op \in Kinds
    /\ req' = [req EXCEPT ![c] = [Idle EXCEPT !.op = op, !.pc = pc, !.at = p, !.ext = e, !.old = f]]
    /\ UNCHANGED <<place, file, object, stored>>

------------------------------------------------------------------------------
(* Arrangements and voices: the live ones have different slugs, a deleted  *)
(* one's slug may be given to another.                                     *)

SlugFree(p) == \A q \in Places \ {p} : SlugOf[q] = SlugOf[p] => place[q] # "live"

Add(p) ==
    /\ Quiet /\ place[p] = "none" /\ SlugFree(p)
    /\ place' = [place EXCEPT ![p] = "live"]
    /\ UNCHANGED <<file, object, stored, req>>
Hide(p) ==
    /\ Quiet /\ "hide" \in Kinds /\ place[p] = "live"
    /\ place' = [place EXCEPT ![p] = "deleted"]
    /\ UNCHANGED <<file, object, stored, req>>
\* The unique index refuses a second live slug; the files are left as they are.
Show(p) ==
    /\ Quiet /\ "hide" \in Kinds /\ place[p] = "deleted" /\ SlugFree(p)
    /\ place' = [place EXCEPT ![p] = "live"]
    /\ UNCHANGED <<file, object, stored, req>>

------------------------------------------------------------------------------
(* store_upload, store_replacement and WebDAV's commit_write.              *)

Upload(c, p, e) == place[p] = "live" /\ Begin(c, "upload", "create", p, e, NoFile)
Put(c, p, e) == place[p] = "live" /\ Begin(c, "put", "locate", p, e, NoFile)
\* A replacement with another extension is refused before anything is written.
Replace(c, f) == Live(f) /\ Begin(c, "replace", "resolve", file[f].at, file[f].ext, f)

\* resolve_path_slugs
Resolve(c) ==
    /\ req[c].pc = "resolve"
    /\ IF place[req[c].at] = "live" THEN Goto(c, "swap") ELSE End(c)
    /\ UNCHANGED <<place, file, object, stored>>

\* find_by_location decides between a first version and a replacement, which
\* may have the extension of the old file or another one of the format.
Locate(c) ==
    /\ req[c].pc = "locate"
    /\ \/ \E f \in Files : Live(f) /\ At(f, req[c].at)
             /\ req' = [req EXCEPT ![c].pc = "swap", ![c].old = f]
       \/ ~Taken(req[c].at) /\ Goto(c, "create")
    /\ UNCHANGED <<place, file, object, stored>>

NewRow(c) == [st |-> "live", at |-> req[c].at, ext |-> req[c].ext]
\* (as if the compensation were given the id of the replaced row)
StreamsOld(c, f) == req' = [req EXCEPT ![c].pc = "stream", ![c].new = req[c].old]
Streams(c, f) == req' = [req EXCEPT ![c].pc = "stream", ![c].new = f]

\* file::create, refused by the unique index when the name is taken.
Create(c, f) ==
    /\ req[c].pc = "create" /\ Fresh(f)
    /\ IF Taken(req[c].at)
         THEN End(c) /\ UNCHANGED file
         ELSE Streams(c, f) /\ file' = [file EXCEPT ![f] = NewRow(c)]
    /\ UNCHANGED <<place, object, stored>>

\* (as if the two writes were two transactions and the second one failed)
OnlyRemoved(c, f) == [file EXCEPT ![req[c].old].st = "deleted"]

\* file::replace: the old row out and the new one in, or ReplaceTargetGone.
\* (The old row being live, no other live row stands in the new one's way.)
Swapped(c, f) == [file EXCEPT ![req[c].old].st = "deleted", ![f] = NewRow(c)]

Swap(c, f) ==
    /\ req[c].pc = "swap" /\ Fresh(f)
    /\ IF Live(req[c].old)
         THEN Streams(c, f) /\ file' = Swapped(c, f)
         ELSE End(c) /\ UNCHANGED file
    /\ UNCHANGED <<place, object, stored>>

Target(c) == Key(req[c].at, req[c].ext)

\* The multipart upload is completed: the object appears, or is overwritten.
Store(c) ==
    /\ req[c].pc = "stream"
    /\ object' = [object EXCEPT ![Target(c)] = req[c].new]
    /\ stored' = stored \cup {req[c].new}
    /\ End(c)
    /\ UNCHANGED <<place, file>>

\* (as if the object were removed and written anew, not by a multipart upload)
AbortTorn(c) ==
    /\ req[c].pc = "stream" /\ req[c].op \in Faults
    /\ object' = [object EXCEPT ![Target(c)] = NoFile]
    /\ Goto(c, "undo")
    /\ UNCHANGED <<place, file, stored>>

\* ... or aborted, which leaves the object as it was.
Abort(c) ==
    /\ req[c].pc = "stream" /\ req[c].op \in Faults
    /\ Goto(c, "undo")
    /\ UNCHANGED <<place, file, object, stored>>

\* ... or it appears although completing the upload was answered by an error.
LoseAnswer(c) ==
    /\ req[c].pc = "stream" /\ "answer" \in Faults
    /\ object' = [object EXCEPT ![Target(c)] = req[c].new]
    /\ Goto(c, "undo")
    /\ UNCHANGED <<place, file, stored>>

\* hard_delete
Erased(c) == [file EXCEPT ![req[c].new].st = "erased"]
Erase(c) ==
    /\ req[c].pc = "undo" /\ req[c].op = "upload"
    /\ file' = Erased(c)
    /\ End(c) /\ UNCHANGED <<place, object, stored>>

\* (as if the old row were left for somebody to restore)
NotRevived(c) == [file EXCEPT ![req[c].new].st = "deleted"]

\* restore_replaced: the new row is deleted and the old one, if it is still
\* there, revived; a third row live by now makes the transaction fail.
Reverted(c) ==
    [file EXCEPT ![req[c].new].st = "deleted",
                 ![req[c].old].st = IF @ = "erased" THEN @ ELSE "live"]

InTheWay(c) ==
    /\ file[req[c].old].st # "erased"
    /\ \E g \in Siblings(req[c].old) \ {req[c].new} : Live(g)
Revert(c) ==
    /\ req[c].pc = "undo" /\ req[c].old # NoFile
    /\ file' = IF InTheWay(c) THEN file ELSE Reverted(c)
    /\ End(c) /\ UNCHANGED <<place, object, stored>>

\* WebDAV's first version of a file is soft-deleted.
Discard(c) ==
    /\ req[c].pc = "undo" /\ req[c].op = "put" /\ req[c].old = NoFile
    /\ file' = [file EXCEPT ![req[c].new].st = IF @ = "live" THEN "deleted" ELSE @]
    /\ End(c) /\ UNCHANGED <<place, object, stored>>

\* The compensation fails and is only logged.
UndoFails(c) ==
    /\ req[c].pc = "undo" /\ "undo" \in Faults
    /\ End(c) /\ UNCHANGED <<place, file, object, stored>>

\* The process dies, or the handler is dropped with its connection.
Crash(c) ==
    /\ req[c].pc # "idle" /\ "crash" \in Faults
    /\ End(c) /\ UNCHANGED <<place, file, object, stored>>

------------------------------------------------------------------------------
(* soft_delete and undelete, each decided by one statement; the reads that *)
(* scope the file to its place come before and change nothing.             *)

SoftDelete(f) ==
    /\ Quiet /\ "delete" \in Kinds /\ Live(f)
    /\ file' = [file EXCEPT ![f].st = "deleted"]
    /\ UNCHANGED <<place, object, stored, req>>

\* The console enters the arrangement and the voice; /v1 looks up the
\* arrangement alone, so it reaches a hidden voice.
Remove(f) == SoftDelete(f) /\ place[file[f].at] = "live"
RemoveV1(f) == SoftDelete(f) /\ (place[file[f].at] = "live" \/ file[f].at \in Voices)

\* WebDAV removes what find_by_location has at the name, whatever extension
\* was asked for.
Unlink(p) == place[p] = "live" /\ \E f \in Files : At(f, p) /\ SoftDelete(f)

\* (as if only the unique index stood guard)
NoneLive(f) == Deleted(f) /\ \A g \in Siblings(f) : ~Live(g)

\* No file of that name, alive or deleted, was created later (Superseded),
\* and none is live (Duplicate).
Restorable(f) == Deleted(f) /\ \A g \in Siblings(f) : g < f /\ ~Live(g)

Undelete(f) ==
    /\ Quiet /\ "undelete" \in Kinds
    /\ Restorable(f) /\ place[file[f].at] = "live"
    /\ file' = [file EXCEPT ![f].st = "live"]
    /\ UNCHANGED <<place, object, stored, req>>

------------------------------------------------------------------------------

Init ==
    /\ place = [p \in Places |-> "none"]
    /\ file = [f \in Files |-> NoRow]
    /\ object = [k \in Keys |-> NoFile]
    /\ stored = {}
    /\ req = [c \in Clients |-> Idle]

Step(c) ==
    \/ \E p \in Places, e \in Exts : Upload(c, p, e) \/ Put(c, p, e)
    \/ \E f \in Files : Replace(c, f) \/ Create(c, f) \/ Swap(c, f)
    \/ Resolve(c) \/ Locate(c)
    \/ Store(c) \/ Abort(c) \/ LoseAnswer(c) \/ Erase(c) \/ Revert(c) \/ Discard(c)
    \/ UndoFails(c) \/ Crash(c)

Next ==
    \/ \E c \in Clients : Step(c)
    \/ \E p \in Places : Add(p) \/ Hide(p) \/ Show(p) \/ Unlink(p)
    \/ \E f \in Files : Remove(f) \/ RemoveV1(f) \/ Undelete(f)

Spec == Init /\ [][Next]_vars

------------------------------------------------------------------------------

Settled(f) ==
    \A c \in Clients : req[c].pc \in {"stream", "undo"} => Target(c) # Key(file[f].at, file[f].ext)
Shown(f) == Live(f) /\ place[file[f].at] = "live"

\* Once nobody is writing at its key, the object under a file that was stored
\* and can be opened holds that file's bytes (the derived key, file.rs).
OwnBytes == \A f \in stored : Shown(f) /\ Settled(f) => Bytes(f) = f

\* A stored file that comes back, restored by somebody or by a failed
\* replacement, comes back with its own bytes if nobody else is writing there
\* (undelete, restore_replaced).
ComesBackWhole ==
    [][\A f \in stored :
        Deleted(f) /\ (Live(f) /\ Settled(f))' => Bytes(f) = f]_vars

\* As long as nobody deletes a file, a place that has ever had one stored has a
\* live one: neither a replacement nor the undoing of one, racing others, failing
\* or dying half way, leaves it without (replace, restore_replaced).
NeverLost == \A f \in stored : Taken(file[f].at)

=============================================================================
