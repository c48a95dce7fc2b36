--------------------------- MODULE Organizations ---------------------------
(***************************************************************************)
(* Organizations and users, the rows that refer to them, and the requests  *)
(* that create, rename and delete them while other requests add and remove *)
(* rows below.  Deleting an organization is one transaction of a DELETE    *)
(* per table; deleting a user is one DELETE that the foreign keys refuse   *)
(* while any row names the user.                                           *)
(*                                                                         *)
(* Of PostgreSQL the model keeps: a transaction sees committed rows and    *)
(* its own; an INSERT locks the rows it refers to one after another        *)
(* against their deletion and fails when one is gone; a DELETE fixes its   *)
(* rows, then takes them one at a time, waiting for those another          *)
(* transaction holds, and fails at its end when a row still refers to one  *)
(* of them; a transaction in a cycle of waiting ones is rolled back.       *)
(***************************************************************************)
EXTENDS Naturals, Sequences, FiniteSets, Functions

CONSTANTS
    Clients,
    Rows,          \* every row there may ever be
    table, refs,   \* its table; the rows it refers to, in the order of the columns
    keys,          \* the values it holds in unique columns
    Populations,   \* the sets of rows a run may begin with
    none,
    MaxRequests    \* bounds the requests

Tables == {"organization", "user", "membership", "arrangement", "voice", "file", "collection",
           "collection_item", "part_assignment", "tag", "arrangement_tag",
           "global_annotation", "app_password", "work"}

ASSUME RowsFit ==
    /\ table \in [Rows -> Tables]
    /\ refs \in [Rows -> Seq(Rows)]
    /\ none \notin Rows /\ MaxRequests \in Nat
    /\ \A S \in Populations : S \subseteq Rows /\ \A r \in S : Range(refs[r]) \subseteq S

Of(t) == {r \in Rows : table[r] = t}
Orgs == Of("organization")
Users == Of("user")
\* the rows that are of no organization, and that one's rows refer to
Shared == Users \cup Of("work")

\* the references to these tables that a row of each has, and those it may have besides:
\* who created it, the work of an arrangement and the voice of a file
Columns == [organization |-> << >>, user |-> << >>, membership |-> <<"user", "organization">>,
    arrangement |-> <<"organization">>, voice |-> <<"arrangement">>, file |-> <<"arrangement">>,
    collection |-> <<"organization">>, collection_item |-> <<"collection", "arrangement">>,
    part_assignment |-> <<"collection_item", "user", "voice">>, tag |-> <<"organization">>,
    arrangement_tag |-> <<"arrangement", "tag">>, global_annotation |-> <<"arrangement", "user">>,
    app_password |-> <<"user">>, work |-> << >>]
Nullable(t) ==
    CASE t \in {"organization", "user", "membership", "arrangement_tag", "app_password"} -> {}
      [] t = "file" -> {"voice", "user"}
      [] t = "arrangement" -> {"work", "user"}
      [] OTHER -> {"user"}

\* whose row it is
OrgOf(r) ==
    CASE table[r] = "organization" -> r
      [] table[r] \in {"user", "app_password", "work"} -> none
      [] table[r] \in {"arrangement", "collection", "tag"} -> refs[r][1]
      [] table[r] = "membership" -> refs[r][2]
      [] table[r] = "part_assignment" -> refs[refs[refs[r][1]][1]][1]
      [] OTHER -> refs[refs[r][1]][1]

\* Each column refers to a row of its table.
ASSUME ForeignKeys ==
    \A r \in Rows : LET cols == Columns[table[r]]
        IN /\ Len(cols) <= Len(refs[r])
           /\ \A i \in DOMAIN refs[r] :
                 IF i <= Len(cols) THEN table[refs[r][i]] = cols[i]
                 ELSE table[refs[r][i]] \in Nullable(table[r])

\* Every handler that adds a row looks its parents up in the organization it is asked about.
ASSUME OneOrganization ==
    \A r \in Rows : \A p \in Range(refs[r]) \ Shared : OrgOf(p) = OrgOf(r)

VARIABLES
    there,    \* the committed rows
    born,     \* the rows that were ever given to a request to insert, or there at first
    tx,       \* what each request is doing
    log,      \* the audit entries about organizations and users
    removed,  \* which handler removed an organization: a history
    begun     \* requests so far

vars == <<there, born, tx, log, removed, begun>>

Doing == {"create_org", "create_user", "add", "update_org",
          "delete_org", "delete_org_submit", "delete_user", "remove"}
\* a transaction that has touched no row
Request(do, r, at, plan, raced) ==
    [do |-> do, at |-> at, row |-> r, plan |-> plan, todo |-> << >>,
     rows |-> {}, taken |-> {}, share |-> {}, gone |-> {}, raced |-> raced]
Idle == Request("none", none, "idle", << >>, FALSE)

TypeOK ==
    /\ there \subseteq born /\ born \subseteq Rows
    /\ log \subseteq {"create", "update", "delete"} \X (Orgs \cup Users)
    /\ begun \in 0..MaxRequests
    /\ removed \in [Orgs -> {"no", "delete_org", "delete_org_submit"}]
    /\ \A c \in Clients :
          /\ tx[c].do \in Doing \cup {"none"}
          /\ tx[c].at \in {"idle", "found", "insert", "statement", "rows", "commit",
                           "audit", "refused", "victim"}
          /\ tx[c].row \in Rows \cup {none} /\ (tx[c].at = "idle" => tx[c] = Idle)
          /\ tx[c].rows \subseteq Rows /\ tx[c].taken \subseteq tx[c].gone
          /\ tx[c].share \subseteq there /\ tx[c].gone \subseteq there
          /\ tx[c].raced \in BOOLEAN

(***************************************************************************)
(* The rows a DELETE finds.                                                *)
(***************************************************************************)
Those(see, t, i, parents) == {r \in see \cap Of(t) : refs[r][i] \in parents}

Found(see, o, statement) ==
    LET collections  == Those(see, "collection", 1, {o})
        arrangements == Those(see, "arrangement", 1, {o})
        tags         == Those(see, "tag", 1, {o})
    IN CASE statement = "part_assignment" ->
                Those(see, statement, 1, Those(see, "collection_item", 1, collections))
         [] statement = "collection_item" -> Those(see, statement, 1, collections)
         [] statement = "collection" -> collections
         [] statement = "arrangement_tag" ->
                Those(see, statement, 2, tags) \cup Those(see, statement, 1, arrangements)
         [] statement = "tag" -> tags
         [] statement \in {"global_annotation", "file", "voice"} ->
                Those(see, statement, 1, arrangements)
         [] statement = "arrangement" -> arrangements
         [] statement = "membership" -> Those(see, statement, 2, {o})
         [] statement = "row" -> see \cap {o}

\* (as if the cascade forgot the annotations, which no handler writes)
CascadeOfHandlers == <<"part_assignment", "collection_item", "collection", "arrangement_tag",
             "tag", "file", "voice", "arrangement", "membership", "row">>
\* (as if collections went after the arrangements in them)
CascadeByArrangement == <<"part_assignment", "collection_item", "arrangement_tag", "tag",
             "global_annotation", "file", "voice", "arrangement", "collection",
             "membership", "row">>
Cascade == <<"part_assignment", "collection_item", "collection", "arrangement_tag", "tag",
             "global_annotation", "file", "voice", "arrangement", "membership", "row">>

(***************************************************************************)
(* Who waits for whom.                                                     *)
(***************************************************************************)
Others(c) == Clients \ {c}
WillInsert(c, r) == tx[c].at = "insert" /\ tx[c].row = r
Uses(r, k) == k \in keys[r]

\* to put its row into the unique indexes
WaitsForKey(c, d) ==
    /\ tx[c].at = "found" /\ tx[c].do \in {"create_org", "create_user", "add"}
    /\ \E k \in keys[tx[c].row] :
          \E r \in tx[d].gone \cup {s \in Rows : WillInsert(d, s)} : Uses(r, k)
\* to lock the next row its row refers to
WaitsForParent(c, d) ==
    tx[c].at = "insert" /\ tx[c].todo # << >> /\ Head(tx[c].todo) \in tx[d].gone
\* to rename an organization
WaitsToRename(c, d) == tx[c].at = "found" /\ tx[c].do = "update_org" /\ tx[c].row \in tx[d].gone
\* to take a row, when there is none left that is free
Held(c, r) == \E d \in Others(c) : r \in tx[d].share \cup tx[d].gone
WaitsForRow(c, d) ==
    /\ tx[c].at = "rows" /\ tx[c].rows # {} /\ \A r \in tx[c].rows : Held(c, r)
    /\ \E r \in tx[c].rows : r \in tx[d].share \cup tx[d].gone
\* to know whether a row that refers to one of its own stays
Referrers(c) == {r \in there \ tx[c].gone : Range(refs[r]) \cap tx[c].taken # {}}
WaitsForReferrer(c, d) ==
    tx[c].at = "rows" /\ tx[c].rows = {} /\ Referrers(c) \cap tx[d].gone # {}

Waits(c, d) ==
    /\ d # c
    /\ \/ WaitsForKey(c, d) \/ WaitsForParent(c, d) \/ WaitsToRename(c, d)
       \/ WaitsForRow(c, d) \/ WaitsForReferrer(c, d)
Free(c) == \A d \in Clients : ~Waits(c, d)

Go(c, t) == tx' = [tx EXCEPT ![c] = t]
\* a transaction ends: nothing stays of it but what the handler still has to write
Ends(c, at) == Go(c, Request(tx[c].do, tx[c].row, at, << >>, tx[c].raced))

(***************************************************************************)
(* INSERT.                                                                 *)
(***************************************************************************)
Insert(c) ==
    /\ tx[c].at = "found" /\ tx[c].do \in {"create_org", "create_user", "add"} /\ Free(c)
    /\ IF \E r \in there, k \in keys[tx[c].row] : Uses(r, k)
       THEN Ends(c, "refused")
       ELSE Go(c, [tx[c] EXCEPT !.at = "insert", !.todo = refs[tx[c].row]])
    /\ UNCHANGED <<there, born, log, removed, begun>>

\* (as if the columns declared no references)
LockParentUnreferenced(c) ==
    /\ tx[c].at = "insert" /\ tx[c].todo # << >> /\ Free(c)
    /\ Go(c, [tx[c] EXCEPT !.share = @ \cup {Head(tx[c].todo)}, !.todo = Tail(@)])
    /\ UNCHANGED <<there, born, log, removed, begun>>

LockParent(c) ==
    /\ tx[c].at = "insert" /\ tx[c].todo # << >> /\ Free(c)
    /\ LET parent == Head(tx[c].todo)
       IN IF parent \in there
          THEN Go(c, [tx[c] EXCEPT !.share = @ \cup {parent}, !.todo = Tail(@)])
          ELSE Ends(c, "refused")
    /\ UNCHANGED <<there, born, log, removed, begun>>

\* every deletion under way has been overtaken
Inserted(c) ==
    /\ tx[c].at = "insert" /\ tx[c].todo = << >>
    /\ there' = there \cup {tx[c].row}
    /\ tx' = [d \in Clients |->
                IF d # c THEN [tx[d] EXCEPT !.raced = tx[d].at \in {"statement", "rows"} \/ @]
                ELSE IF tx[c].do = "add" THEN Idle
                ELSE Request(tx[c].do, tx[c].row, "audit", << >>, FALSE)]
    /\ UNCHANGED <<born, log, removed, begun>>

(***************************************************************************)
(* DELETE.                                                                 *)
(***************************************************************************)
Statement(c) ==
    /\ tx[c].at = "statement"
    /\ Go(c, [tx[c] EXCEPT !.at = "rows", !.taken = {},
                !.rows = Found(there \ tx[c].gone, tx[c].row, Head(tx[c].plan))])
    /\ UNCHANGED <<there, born, log, removed, begun>>

\* a row that is no longer there when it is its turn is passed over
TakeRow(c) ==
    /\ tx[c].at = "rows"
    /\ \E r \in tx[c].rows :
          /\ ~Held(c, r)
          /\ LET mine == {r} \cap there
             IN Go(c, [tx[c] EXCEPT !.rows = @ \ {r}, !.taken = @ \cup mine,
                                    !.gone = @ \cup mine])
    /\ UNCHANGED <<there, born, log, removed, begun>>

\* (as if each statement were committed on its own)
EndOfStatementCommits(c) ==
    /\ tx[c].at = "rows" /\ tx[c].rows = {} /\ Free(c)
    /\ IF Referrers(c) # {} THEN Ends(c, "refused") /\ UNCHANGED there
       ELSE IF Len(tx[c].plan) > 1
       THEN /\ Go(c, [tx[c] EXCEPT !.at = "statement", !.plan = Tail(@), !.gone = {}, !.taken = {}])
            /\ there' = there \ tx[c].gone
       ELSE /\ IF tx[c].taken = {} THEN Ends(c, "refused")
               ELSE Go(c, [tx[c] EXCEPT !.at = "commit", !.plan = << >>])
            /\ UNCHANGED there
    /\ UNCHANGED <<born, log, removed, begun>>

\* the last statement says whether there was anything to delete
EndOfStatement(c) ==
    /\ tx[c].at = "rows" /\ tx[c].rows = {} /\ Free(c)
    /\ IF Referrers(c) # {} THEN Ends(c, "refused")
       ELSE IF Len(tx[c].plan) > 1
       THEN Go(c, [tx[c] EXCEPT !.at = "statement", !.plan = Tail(@)])
       ELSE IF tx[c].taken = {} THEN Ends(c, "refused")
       ELSE Go(c, [tx[c] EXCEPT !.at = "commit", !.plan = << >>])
    /\ UNCHANGED <<there, born, log, removed, begun>>

\* what each handler does about the audit log once its deletion is committed
AuditsAfter == {"delete_org_submit", "delete_user"}

Deleted(c) ==
    /\ tx[c].at = "commit"
    /\ there' = there \ tx[c].gone
    /\ IF tx[c].do \in AuditsAfter THEN Ends(c, "audit") ELSE Go(c, Idle)
    /\ removed' = IF tx[c].row \in Orgs THEN [removed EXCEPT ![tx[c].row] = tx[c].do] ELSE removed
    /\ UNCHANGED <<born, log, begun>>

(***************************************************************************)
(* The handlers, up to their first statement.                              *)
(***************************************************************************)
Begin(c, do, r, at, plan) ==
    /\ tx[c] = Idle /\ begun < MaxRequests /\ begun' = begun + 1
    /\ Go(c, Request(do, r, at, plan, FALSE))

create_org(c) ==
    /\ \E o \in Orgs \ born : Begin(c, "create_org", o, "found", << >>) /\ born' = born \cup {o}
    /\ UNCHANGED <<there, log, removed>>

\* the console creates an organization and a user the same way
create_org_submit(c) == create_org(c)

create_user(c) ==
    /\ \E u \in Users \ born : Begin(c, "create_user", u, "found", << >>) /\ born' = born \cup {u}
    /\ UNCHANGED <<there, log, removed>>

create_user_submit(c) == create_user(c)

\* so does the command line, for an administrator
create_admin(c) == create_user(c)

update_org(c) ==
    /\ \E o \in Orgs \cap there : Begin(c, "update_org", o, "found", << >>)
    /\ UNCHANGED <<there, born, log, removed>>

update_name(c) ==
    /\ tx[c].at = "found" /\ tx[c].do = "update_org" /\ Free(c)
    /\ IF tx[c].row \in there THEN Ends(c, "audit") ELSE Ends(c, "refused")
    /\ UNCHANGED <<there, born, log, removed, begun>>

\* (as if the deletion were not recorded before it is known to succeed, nor afterwards)
delete_org_unrecorded(c) ==
    /\ \E o \in Orgs \cap there : Begin(c, "delete_org", o, "statement", Cascade)
    /\ UNCHANGED <<there, born, log, removed>>

\* /v1 records the deletion before it begins it
delete_org(c) ==
    /\ \E o \in Orgs \cap there :
          Begin(c, "delete_org", o, "statement", Cascade) /\ log' = log \cup {<<"delete", o>>}
    /\ UNCHANGED <<there, born, removed>>

delete_org_submit(c) ==
    /\ \E o \in Orgs \cap there : Begin(c, "delete_org_submit", o, "statement", Cascade)
    /\ UNCHANGED <<there, born, log, removed>>

delete_user(c) ==
    /\ \E u \in Users \cap there : Begin(c, "delete_user", u, "statement", <<"row">>)
    /\ UNCHANGED <<there, born, log, removed>>

\* the console asks for no version, which this model does not count
delete_user_submit(c) == delete_user(c)

\* the handlers that add a row below: they have found every row it will refer to
Add(c) ==
    /\ \E r \in Rows \ (born \cup Orgs \cup Users) :
          /\ table[r] # "global_annotation" /\ Range(refs[r]) \subseteq there
          /\ Begin(c, "add", r, "found", << >>) /\ born' = born \cup {r}
    /\ UNCHANGED <<there, log, removed>>

\* the handlers that delete one row below, or a work
RemoveBelow(c) ==
    /\ \E r \in there :
          /\ table[r] \in {"membership", "part_assignment", "arrangement_tag", "file", "work"}
          /\ Begin(c, "remove", r, "statement", <<"row">>)
    /\ UNCHANGED <<there, born, log, removed>>

Audit(c) ==
    /\ tx[c].at = "audit"
    /\ log' = log \cup {<<CASE tx[c].do \in {"create_org", "create_user"} -> "create"
                            [] tx[c].do = "update_org" -> "update"
                            [] OTHER -> "delete", tx[c].row>>}
    /\ Go(c, Idle)
    /\ UNCHANGED <<there, born, removed, begun>>

Answer(c) ==
    /\ tx[c].at \in {"refused", "victim"} /\ Go(c, Idle)
    /\ UNCHANGED <<there, born, log, removed, begun>>

\* of the transactions that wait for each other, one is rolled back
Deadlocked(c, d) == Waits(c, d) /\ Waits(d, c)
Victim(c) ==
    /\ \E d \in Clients : Deadlocked(c, d)
    /\ Ends(c, "victim")
    /\ UNCHANGED <<there, born, log, removed, begun>>

\* the connection of the request is lost, and its transaction with it
Drop(c) ==
    /\ tx[c].at \in {"found", "insert", "statement", "rows", "commit", "audit"}
    /\ Go(c, Idle)
    /\ UNCHANGED <<there, born, log, removed, begun>>

\* no request is under way
Quiet == (\A c \in Clients : tx[c] = Idle) /\ UNCHANGED vars

Init ==
    /\ there \in Populations /\ born = there
    /\ tx = [c \in Clients |-> Idle]
    /\ log = {} /\ removed = [o \in Orgs |-> "no"] /\ begun = 0

Next ==
    \/ Quiet
    \/ \E c \in Clients :
       \/ create_org(c) \/ create_org_submit(c) \/ create_user(c) \/ create_user_submit(c)
       \/ create_admin(c) \/ update_org(c) \/ update_name(c) \/ delete_org(c) \/ delete_org_submit(c)
       \/ delete_user(c) \/ delete_user_submit(c)
       \/ Add(c) \/ RemoveBelow(c) \/ Insert(c) \/ LockParent(c) \/ Inserted(c)
       \/ Statement(c) \/ TakeRow(c) \/ EndOfStatement(c) \/ Deleted(c)
       \/ Audit(c) \/ Answer(c) \/ Victim(c) \/ Drop(c)

Spec == Init /\ [][Next]_vars

(***************************************************************************)
(* Properties.                                                             *)
(***************************************************************************)
Below(o) ==
    LET Up(S) == S \cup {r \in there : Range(refs[r]) \cap S # {}}
    IN Up(Up(Up({o})))

\* An organization leaves with everything below it in one step, or nothing does: between the
\* statements of the cascade, after a refusal, a deadlock or a lost connection, nobody finds an
\* organization without its parts or a part without its organization.
AllOrNothing ==
    [][there \ there' # {} =>
          \/ \E o \in Orgs : there \ there' = Below(o)
          \/ \E c \in Clients : /\ tx[c].do \in {"remove", "delete_user"}
                               /\ there \ there' = {tx[c].row}]_vars

\* The cascade knows every table that refers to an organization or to what is below one, in an
\* order the foreign keys accept: it is refused only when a row was added while it ran.
OnlyRacesRefuse ==
    \A c \in Clients :
       tx[c].at = "refused" /\ tx[c].do \in {"delete_org", "delete_org_submit"} =>
          tx[c].raced \/ tx[c].row \notin there

\* The cascade goes from the leaves to the root and an insert locks in the order of its
\* columns: the only inserts that can deadlock with it are those whose first reference the
\* cascade takes after the second one, a file of a voice and a tag on an arrangement.  Two
\* deletions deadlock only when both are at the same statement of one organization's cascade,
\* each with some of the rows, or when a row was added while one ran.
DeadlocksOfTwoParents ==
    \A c, d \in Clients :
       Deadlocked(c, d) =>
          IF "insert" \in {tx[c].at, tx[d].at}
          THEN \E e \in {c, d} : tx[e].at = "insert" /\ table[tx[e].row] \in {"file", "arrangement_tag"}
          ELSE \/ tx[c].raced \/ tx[d].raced
               \/ tx[c].row = tx[d].row /\ tx[c].plan = tx[d].plan /\ Len(tx[c].plan) > 1

\* An organization that /v1 deleted has its audit entry, whatever became of the request after
\* the cascade was committed; the console writes it afterwards.
RemovalRecorded ==
    \A o \in Orgs : removed[o] = "delete_org" => <<"delete", o>> \in log
=============================================================================
