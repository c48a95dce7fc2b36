----------------------------- MODULE Membership -----------------------------
(***************************************************************************)
(* The membership rows of all organizations and the requests that manage   *)
(* them, on /v1 and on the console.  A handler runs no transaction: every  *)
(* SELECT, UPDATE, DELETE and INSERT it issues commits on its own, so each *)
(* one is a step here and other requests run between them.                 *)
(***************************************************************************)
EXTENDS Naturals

CONSTANTS
    Users, Orgs, Instruments,
    Admins,        \* the users with is_system_admin
    Ids,           \* the membership ids there will ever be
    Clients,       \* connections a request may arrive on
    Bodies,        \* the request bodies clients send
    Overlap,       \* may a request arrive while another one is being served?
    MaxVersion,    \* model bound: how often one row is written
    NoInstrument, NoUser, NoOrg, NoId

\* what stands for a field the request leaves out
Omitted == {NoInstrument}

Roles == {"owner", "archivist", "conductor", "musician"}

\* role is required; /v1 may leave the instruments out.  The is_principal
\* flag is merged as they are and no check here reads it.
BodyType == [role : Roles, plays : (SUBSET Instruments) \cup {Omitted},
             leads : (SUBSET Instruments) \cup {Omitted}]

ASSUME BodiesAssumption == Bodies \subseteq BodyType
ASSUME NamesAssumption ==
    NoInstrument \notin Instruments /\ NoUser \notin Users /\ NoOrg \notin Orgs /\ NoId \notin Ids
ASSUME OverlapAssumption == Overlap \in BOOLEAN
ASSUME BoundAssumption == MaxVersion \in Nat
ASSUME AdminsAssumption == Admins \subseteq Users

VARIABLES
    table,   \* the membership row under every id
    req      \* what every connection is doing

vars == <<table, req>>

Fields == [role : Roles, plays : SUBSET Instruments, leads : SUBSET Instruments]
NoFields == [role |-> "musician", plays |-> {}, leads |-> {}]

\* ver stands for updated_at: writes are taken to fall in distinct milliseconds.
Rows == [st : {"none", "live", "gone"}, user : Users \cup {NoUser},
         org : Orgs \cup {NoOrg}, is : Fields, ver : Nat]
NoRow == [st |-> "none", user |-> NoUser, org |-> NoOrg, is |-> NoFields, ver |-> 0]

Ops == {"none", "create", "update", "delete", "remove"}
Pcs == {"idle", "ready", "insert", "find", "check", "count", "write"}

\* target is the user a create adds; etag the version the editor looked at.
Requests == [op : Ops, pc : Pcs, by : Users \cup {NoUser}, org : Orgs \cup {NoOrg},
             target : Users \cup {NoUser}, id : Ids \cup {NoId}, etag : Nat,
             body : Bodies \cup {NoFields}, to : Fields]
NoRequest == [op |-> "none", pc |-> "idle", by |-> NoUser, org |-> NoOrg,
              target |-> NoUser, id |-> NoId, etag |-> 0,
              body |-> NoFields, to |-> NoFields]

TypeOK ==
    /\ table \in [Ids -> Rows]
    /\ req \in [Clients -> Requests]

------------------------------------------------------------------------------

Live(i) == table[i].st = "live"
MemberOf(u, o) == \E i \in Ids : Live(i) /\ table[i].user = u /\ table[i].org = o
OwnerRow(i, o) == Live(i) /\ table[i].org = o /\ table[i].is.role = "owner"
HasOwner(o) == \E i \in Ids : OwnerRow(i, o)

\* require_org_role with Role::Owner; the console's can_manage_members.
MayManage(u, o) ==
    u \in Admins \/ \E i \in Ids : OwnerRow(i, o) /\ table[i].user = u

Serving(c) == req[c].pc \notin {"idle", "ready"}
Quiet == Overlap \/ \A d \in Clients : ~Serving(d)

Answer(c) == req' = [req EXCEPT ![c] = NoRequest]
Goto(c, label) == req' = [req EXCEPT ![c].pc = label]

\* (as if only the first list were merged)
PlaysMerged(b, cur) == [b EXCEPT !.plays = IF @ = Omitted THEN cur.plays ELSE @]

Merged(b, cur) ==
    [role |-> b.role,
     plays |-> IF b.plays = Omitted THEN cur.plays ELSE b.plays,
     leads |-> IF b.leads = Omitted THEN cur.leads ELSE b.leads]

\* The checks of validate_fields.
ValidFields(f) == f.leads \subseteq f.plays

\* An editor opens a member: the version shown comes back as If-Match or as
\* the form's expected_version.
Look(c, u, i) ==
    /\ req[c].pc = "idle" /\ Live(i)
    /\ u \in Admins \/ MemberOf(u, table[i].org)
    /\ req' = [req EXCEPT ![c] = [NoRequest EXCEPT !.pc = "ready", !.by = u,
                                                   !.id = i, !.etag = table[i].ver]]
    /\ UNCHANGED table

\* The request arrives, for whichever organization its path names, and the
\* caller's role there is read.  "remove" is the console's, without a version.
Receive(c, op, o, b) ==
    /\ req[c].pc = "ready" /\ Quiet
    /\ IF MayManage(req[c].by, o)
         THEN req' = [req EXCEPT ![c].pc = "find", ![c].op = op, ![c].org = o, ![c].body = b]
         ELSE Answer(c)
    /\ UNCHANGED table

\* What a create leaves out is empty.
ReceiveCreate(c, u, o, target, b) ==
    /\ req[c].pc = "idle" /\ Quiet
    /\ MayManage(u, o)
    /\ ValidFields(Merged(b, NoFields))
    /\ req' = [req EXCEPT ![c] = [NoRequest EXCEPT !.op = "create", !.pc = "insert", !.by = u,
                                      !.org = o, !.target = target, !.body = b,
                                      !.to = Merged(b, NoFields)]]
    /\ UNCHANGED table

\* The INSERT, under the unique index on (user_id, organization_id).
Insert(c, i) ==
    /\ req[c].pc = "insert" /\ table[i].st = "none"
    /\ IF MemberOf(req[c].target, req[c].org)
         THEN UNCHANGED table
         ELSE table' = [table EXCEPT ![i] = [st |-> "live", user |-> req[c].target,
                                             org |-> req[c].org, is |-> req[c].to, ver |-> 1]]
    /\ Answer(c)

------------------------------------------------------------------------------
(* find_member_scoped, If-Match, and the merge of the fields left out.     *)

AnyOrganization(c) == Live(req[c].id)    \* (as if the path's organization went unchecked)
Scoped(c) == Live(req[c].id) /\ table[req[c].id].org = req[c].org

Unversioned(c) == TRUE                   \* (as if If-Match were only required to be there)
Fresh(c) == req[c].op = "remove" \/ req[c].etag = table[req[c].id].ver

Find(c) ==
    /\ req[c].pc = "find"
    /\ IF Scoped(c) /\ Fresh(c)
         THEN LET to == Merged(req[c].body, table[req[c].id].is) IN
              IF req[c].op = "update" /\ ~ValidFields(to)
                THEN Answer(c)
                ELSE req' = [req EXCEPT ![c].pc = "check", ![c].to = to]
         ELSE Answer(c)
    /\ UNCHANGED table

GivesUpOwner(c) == req[c].op # "update" \/ req[c].to.role # "owner"

\* update and delete read the row again.
Check(c) ==
    /\ req[c].pc = "check"
    /\ IF ~Live(req[c].id) THEN Answer(c)
       ELSE IF table[req[c].id].is.role = "owner" /\ GivesUpOwner(c) THEN Goto(c, "count")
       ELSE Goto(c, "write")
    /\ UNCHANGED table

OwnersAnywhere(i) == {j \in Ids : OwnerRow(j, table[i].org)}   \* (as if the row itself were counted)
OtherOwners(i) == {j \in Ids : j # i /\ OwnerRow(j, table[i].org)}

\* The organization counted in is the one of the row read before.
Count(c) ==
    /\ req[c].pc = "count"
    /\ IF OtherOwners(req[c].id) = {} THEN Answer(c) ELSE Goto(c, "write")
    /\ UNCHANGED table

\* (as if the UPDATE kept the instruments when the member leads none)
KeptWhenEmpty(r, f) == [r EXCEPT !.is = [f EXCEPT !.leads = IF f.leads = {} THEN r.is.leads ELSE @],
                                 !.ver = @ + 1]
\* UPDATE ... WHERE id and DELETE ... WHERE id: nothing else is asked of the row.
Rewritten(r, f) == [r EXCEPT !.is = f, !.ver = @ + 1]
Write(c) ==
    LET i == req[c].id IN
    /\ req[c].pc = "write"
    /\ req[c].op = "update" => table[i].ver < MaxVersion
    /\ IF ~Live(i) THEN UNCHANGED table
       ELSE IF req[c].op = "update"
              THEN table' = [table EXCEPT ![i] = Rewritten(@, req[c].to)]
              ELSE table' = [table EXCEPT ![i].st = "gone"]
    /\ Answer(c)

\* A client that goes away, or a statement that fails, ends the request here.
Drop(c) == req[c].pc # "idle" /\ Answer(c) /\ UNCHANGED table

Step(c) ==
    \/ \E u \in Users, i \in Ids : Look(c, u, i)
    \/ \E op \in {"update", "delete", "remove"}, o \in Orgs, b \in Bodies : Receive(c, op, o, b)
    \/ \E u \in Users, o \in Orgs, target \in Users, b \in Bodies : ReceiveCreate(c, u, o, target, b)
    \/ \E i \in Ids : Insert(c, i)
    \/ Find(c) \/ Check(c) \/ Count(c) \/ Write(c) \/ Drop(c)

Init ==
    /\ table = [i \in Ids |-> NoRow]
    /\ req = [c \in Clients |-> NoRequest]

Next == \E c \in Clients : Step(c)
Spec == Init /\ [][Next]_vars

------------------------------------------------------------------------------

\* Who leads a section plays in it: principal_instrument_ids is a subset of
\* instrument_ids in every row, whichever mixture of a request's fields and
\* of an older row was written (validate_fields, update).
PrincipalsWithin == \A i \in Ids : table[i].is.leads \subseteq table[i].is.plays

\* An organization that has an owner keeps one (membership.rs, invariant 2).
OwnerKept == [][\A o \in Orgs : HasOwner(o) => HasOwner(o)']_vars

Writes(c) == req[c].pc = "write" /\ req'[c] # req[c] /\ table' # table

\* A versioned edit or removal lands on the version its editor looked at:
\* nobody overwrites a change they have not seen (If-Match, expected_version).
OnlyWhatWasSeen ==
    [][\A c \in Clients :
          Writes(c) /\ req[c].op # "remove" => table[req[c].id].ver = req[c].etag]_vars

\* A membership changes only at the hand of a system admin or of somebody who
\* is, at that moment, an owner of the organization it belongs to.
ManagedByOwners ==
    [][\A c \in Clients : \A i \in Ids :
          req'[c] # req[c] /\ table'[i] # table[i] => MayManage(req[c].by, table'[i].org)]_vars

=============================================================================
