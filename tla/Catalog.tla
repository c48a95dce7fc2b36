------------------------------ MODULE Catalog ------------------------------
(***************************************************************************)
(* The catalog of one organization: its works, arrangements, voices,       *)
(* collections and tags, and the handlers of /v1 and of the console that   *)
(* create, edit, soft-delete and restore them.  A handler reads the row it *)
(* names (`Found', `Kept'), compares the version it was sent, writes in    *)
(* one statement and then writes an entry of the audit log; requests run   *)
(* between any two of these.  A request that is refused changes nothing    *)
(* and is not modelled; a row of another organization is not found.        *)
(***************************************************************************)
EXTENDS Naturals, Integers, FiniteSets, SequencesExt

CONSTANTS
    Clients, Admins, \* Admins: those who are system administrators
    Works, Arrangements, Voices, Collections, Tags,  \* the ids rows may take
    arrangementOf,  \* which arrangement a voice would be created under
    Names,          \* titles and names; of a tag, its name with its kind
    slugify,        \* the slug a name gives
    Kindless,       \* the names of tags that have no kind
    rank,           \* the order of the ids
    none,
    MaxPage,        \* the largest page
    Populations,    \* the catalogs to start from: which rows are there
    MaxRequests     \* bounds the requests

Tables == {Works, Arrangements, Voices, Collections, Tags}
Rows == UNION Tables
Verbs == {"create", "update", "delete", "undelete", "attach", "detach"}
Entries == Verbs \X Rows

ASSUME RowsApart ==
    /\ Works \cap Arrangements = {} /\ Works \cap Voices = {}
    /\ Works \cap Collections = {} /\ Works \cap Tags = {}
    /\ Arrangements \cap Voices = {} /\ Arrangements \cap Collections = {}
    /\ Arrangements \cap Tags = {} /\ Voices \cap Collections = {}
    /\ Voices \cap Tags = {} /\ Collections \cap Tags = {}
    /\ none \notin Rows \cup Names \cup Clients
ASSUME Shapes ==
    /\ arrangementOf \in [Voices -> Arrangements]
    /\ Names \subseteq Nat /\ DOMAIN slugify = Names /\ Kindless \subseteq Names
    /\ rank \in [Rows -> Nat]
    /\ \A r, s \in Rows : rank[r] = rank[s] => r = s
    /\ MaxRequests \in Nat /\ MaxPage \in Nat \ {0}
    /\ Populations \subseteq [Rows -> {"absent", "live", "deleted"}]
ASSUME Rights == Admins \subseteq Clients
ASSUME FinitelyMany == IsFiniteSet(Clients) /\ IsFiniteSet(Rows)

VARIABLES
    row,       \* [Rows -> record]: is it there, its name, slug, work and version
    attached,  \* rows of arrangement_tag
    clock,     \* writes so far; a row's version is the write it was written by
    owed,      \* [Entries -> Int]: changes made, less entries written, of each kind
    begun,     \* requests begun so far
    drops,     \* requests whose connection went away or whose entry could not be written
    req        \* what each client's request is doing

vars == <<row, attached, clock, owed, begun, drops, req>>

Absent == [is |-> "absent", name |-> none, slug |-> none, work |-> none, at |-> 0, by |-> none]
Resting == [at |-> "idle", do |-> "none", r |-> none, other |-> none, sure |-> FALSE]

TypeOK ==
    /\ row \in [Rows -> [is : {"absent", "live", "deleted", "gone"},
                         name : Names \cup {none},
                         slug : {slugify[n] : n \in Names} \cup {none},
                         work : Works \cup {none},
                         at : Nat, by : Clients \cup {none}]]
    /\ attached \subseteq Arrangements \X Tags
    /\ clock \in Nat
    /\ owed \in [Entries -> Int]
    /\ begun \in 0..MaxRequests /\ drops \in Nat
    /\ req \in [Clients -> [at : {"idle", "write", "audit"},
                            do : Verbs \cup {"none"},
                            r : Rows \cup {none},
                            other : Tags \cup {none},
                            sure : BOOLEAN]]

(***************************************************************************)
(* What a query finds.                                                     *)
(***************************************************************************)
Live(r) == row[r].is = "live"

\* an id no row has and no request is about to give one
Fresh(r) == row[r].is = "absent" /\ \A d \in Clients : req[d].r # r

find_work(r)        == r \in Works /\ Live(r)
find_arrangement(r) == r \in Arrangements /\ Live(r)
find_voice(r)       == r \in Voices /\ Live(r) /\ Live(arrangementOf[r])
find_collection(r)  == r \in Collections /\ Live(r)
find_tag(r)         == r \in Tags /\ Live(r)

arrangement_including_deleted(r) == r \in Arrangements /\ row[r].is \in {"live", "deleted"}
voice_including_deleted(r)       == r \in Voices /\ row[r].is # "absent"
collection_including_deleted(r)  == r \in Collections /\ row[r].is # "absent"
tag_including_deleted(r)         == r \in Tags /\ row[r].is # "absent"

\* the version a request names is the row's: no version, no match
check_if_match(r, version) == version = row[r].at

is_editable_by(r, c) == c \in Admins \/ row[r].by = c

(***************************************************************************)
(* Unique indexes: live rows below one parent differ in their slug, live   *)
(* tags in name and kind, where an absent kind is not equal to another.    *)
(***************************************************************************)
Siblings(r) ==
    {s \in Rows : /\ \E T \in Tables : r \in T /\ s \in T
                  /\ r \in Voices => arrangementOf[s] = arrangementOf[r]}

SameKey(r, x, y) ==
    CASE r \in Tags  -> x.name = y.name /\ x.name \notin Kindless
      [] r \in Works -> FALSE
      [] OTHER       -> x.slug = y.slug

Taken(r, x) == \E s \in Siblings(r) \ {r} : Live(s) /\ SameKey(r, x, row[s])

(***************************************************************************)
(* Steps every handler is made of.                                         *)
(***************************************************************************)
\* The request has read what it needs and will write.  It is `sure' when it
\* writes its audit entry whether or not the statement found a row.
Takes(c, verb, r, other, sure) ==
    /\ req[c].at = "idle" /\ begun < MaxRequests
    /\ begun' = begun + 1
    /\ req' = [req EXCEPT ![c] = [at |-> "write", do |-> verb, r |-> r,
                                  other |-> other, sure |-> sure]]
    /\ UNCHANGED <<row, attached, clock, drops>>

Begin(c, verb, r) == Takes(c, verb, r, none, FALSE) /\ UNCHANGED owed

Writing(c, verb) == req[c].at = "write" /\ req[c].do = verb

\* (as if the handler returned before its entry)
ChangedSilently(c) ==
    /\ clock' = clock + 1
    /\ owed' = [owed EXCEPT ![<<req[c].do, req[c].r>>] = @ + 1]
    /\ req' = [req EXCEPT ![c] = Resting]
    /\ UNCHANGED <<begun, drops>>
\* The statement changed a row: its change is owed an entry.
Changed(c) ==
    /\ clock' = clock + 1
    /\ owed' = [owed EXCEPT ![<<req[c].do, req[c].r>>] = @ + 1]
    /\ req' = [req EXCEPT ![c].at = "audit"]
    /\ UNCHANGED <<begun, drops>>

\* (as if rows_affected were not looked at)
NothingNoticed(c) ==
    /\ req' = [req EXCEPT ![c].at = "audit"]
    /\ UNCHANGED <<row, attached, clock, owed, begun, drops>>
\* The statement found no row: only a handler that is sure goes on.
Nothing(c) ==
    /\ req' = [req EXCEPT ![c] = IF req[c].sure THEN [@ EXCEPT !.at = "audit"] ELSE Resting]
    /\ UNCHANGED <<row, attached, clock, owed, begun, drops>>
\* A unique index refused the statement: the answer is an error, without an entry.
Refused(c) ==
    /\ req' = [req EXCEPT ![c] = Resting]
    /\ UNCHANGED <<row, attached, clock, owed, begun, drops>>

Put(r, x) == row' = [row EXCEPT ![r] = [x EXCEPT !.at = clock + 1]] /\ UNCHANGED attached

Insert(c, work) ==
    \E n \in Names :
        LET r == req[c].r
            x == [is |-> "live", name |-> n, slug |-> slugify[n], work |-> work,
                  at |-> 0, by |-> c]
        IN IF Taken(r, x) THEN Refused(c) ELSE Put(r, x) /\ Changed(c)

\* (as if the UPDATE did not say `deleted_at IS NULL')
RewriteAny(c, work) ==
    \E n \in Names :
        LET x == [row[req[c].r] EXCEPT !.name = n, !.work = work]
        IN IF Taken(req[c].r, x) THEN Refused(c) ELSE Put(req[c].r, x) /\ Changed(c)

Rewrite(c, work) ==
    \E n \in Names :
        LET r == req[c].r
            x == [row[r] EXCEPT !.name = n, !.work = work]
        IN IF ~ Live(r) THEN Nothing(c)
           ELSE IF Taken(r, x) THEN Refused(c) ELSE Put(r, x) /\ Changed(c)

Hide(c) ==
    LET r == req[c].r
    IN IF Live(r) THEN Put(r, [row[r] EXCEPT !.is = "deleted"]) /\ Changed(c) ELSE Nothing(c)

\* (as if the unique index left out the rows that were ever deleted)
ShowUnchecked(c) ==
    LET r == req[c].r
    IN IF row[r].is = "deleted"
       THEN Put(r, [row[r] EXCEPT !.is = "live"]) /\ Changed(c)
       ELSE Nothing(c)

Show(c) ==
    LET r == req[c].r
    IN IF row[r].is # "deleted" THEN Nothing(c)
       ELSE IF Taken(r, row[r]) THEN Refused(c)
       ELSE Put(r, [row[r] EXCEPT !.is = "live"]) /\ Changed(c)

(***************************************************************************)
(* The statements.                                                         *)
(***************************************************************************)
work_create(c) == Writing(c, "create") /\ req[c].r \in Works /\ Insert(c, none)
work_update(c) == Writing(c, "update") /\ req[c].r \in Works /\ Rewrite(c, none)

\* A hard delete, refused while any arrangement refers to the work, a deleted
\* one too.  Its entry was written before.
work_delete(c) ==
    LET r == req[c].r
    IN /\ Writing(c, "delete") /\ r \in Works
       /\ \/ /\ \E a \in Arrangements : row[a].work = r
             /\ Nothing(c)
          \/ /\ ~ Live(r)
             /\ Nothing(c)
          \/ /\ Live(r) /\ \A a \in Arrangements : row[a].work # r
             /\ row' = [row EXCEPT ![r] = [Absent EXCEPT !.is = "gone"]]
             /\ clock' = clock + 1
             /\ owed' = [owed EXCEPT ![<<"delete", r>>] = @ + 1]
             /\ req' = [req EXCEPT ![c] = Resting]
             /\ UNCHANGED <<attached, begun, drops>>

\* The work an arrangement names must exist.
LinkableWorks == {w \in Works : Live(w)} \cup {none}

arrangement_create(c) ==
    /\ Writing(c, "create") /\ req[c].r \in Arrangements
    /\ \E w \in LinkableWorks : Insert(c, w)
arrangement_update(c) ==
    /\ Writing(c, "update") /\ req[c].r \in Arrangements
    /\ \E w \in LinkableWorks : Rewrite(c, w)
arrangement_soft_delete(c) == Writing(c, "delete") /\ req[c].r \in Arrangements /\ Hide(c)
arrangement_undelete(c) == Writing(c, "undelete") /\ req[c].r \in Arrangements /\ Show(c)

voice_create(c) == Writing(c, "create") /\ req[c].r \in Voices /\ Insert(c, none)
voice_update(c) == Writing(c, "update") /\ req[c].r \in Voices /\ Rewrite(c, none)
voice_soft_delete(c) == Writing(c, "delete") /\ req[c].r \in Voices /\ Hide(c)
voice_undelete(c) == Writing(c, "undelete") /\ req[c].r \in Voices /\ Show(c)

collection_create(c) == Writing(c, "create") /\ req[c].r \in Collections /\ Insert(c, none)
collection_update(c) == Writing(c, "update") /\ req[c].r \in Collections /\ Rewrite(c, none)
collection_soft_delete(c) == Writing(c, "delete") /\ req[c].r \in Collections /\ Hide(c)
collection_undelete(c) == Writing(c, "undelete") /\ req[c].r \in Collections /\ Show(c)

tag_create(c) == Writing(c, "create") /\ req[c].r \in Tags /\ Insert(c, none)
tag_update(c) == Writing(c, "update") /\ req[c].r \in Tags /\ Rewrite(c, none)
tag_soft_delete(c) == Writing(c, "delete") /\ req[c].r \in Tags /\ Hide(c)
tag_undelete(c) == Writing(c, "undelete") /\ req[c].r \in Tags /\ Show(c)

\* (as if the columns of the new row were swapped)
tag_attach_swapped(c) ==
    /\ Writing(c, "attach")
    /\ attached' = attached \cup {<<req[c].other, req[c].r>>}
    /\ Changed(c) /\ UNCHANGED row

tag_attach(c) ==
    LET pair == <<req[c].r, req[c].other>>
    IN /\ Writing(c, "attach")
       /\ IF pair \in attached THEN Nothing(c)
          ELSE attached' = attached \cup {pair} /\ Changed(c) /\ UNCHANGED row

tag_detach(c) ==
    LET pair == <<req[c].r, req[c].other>>
    IN /\ Writing(c, "detach")
       /\ IF pair \in attached
          THEN attached' = attached \ {pair} /\ Changed(c) /\ UNCHANGED row
          ELSE Nothing(c)

(***************************************************************************)
(* The handlers of /v1, up to their statement.                             *)
(***************************************************************************)
create_work(c, r) == r \in Works /\ Fresh(r) /\ Begin(c, "create", r)
update_work(c, r, v) ==
    find_work(r) /\ is_editable_by(r, c) /\ check_if_match(r, v) /\ Begin(c, "update", r)
\* the entry comes first
delete_work(c, r, v) ==
    /\ find_work(r) /\ is_editable_by(r, c) /\ check_if_match(r, v)
    /\ Takes(c, "delete", r, none, FALSE)
    /\ owed' = [owed EXCEPT ![<<"delete", r>>] = @ - 1]

create_arrangement(c, r) == r \in Arrangements /\ Fresh(r) /\ Begin(c, "create", r)
update_arrangement(c, r, v) ==
    find_arrangement(r) /\ check_if_match(r, v) /\ Begin(c, "update", r)
delete_arrangement(c, r, v) ==
    find_arrangement(r) /\ check_if_match(r, v) /\ Begin(c, "delete", r)
undelete_arrangement(c, r) == arrangement_including_deleted(r) /\ Begin(c, "undelete", r)

create_voice(c, r) ==
    /\ r \in Voices /\ Fresh(r) /\ find_arrangement(arrangementOf[r])
    /\ Begin(c, "create", r)
update_voice(c, r, v) == find_voice(r) /\ check_if_match(r, v) /\ Begin(c, "update", r)
delete_voice(c, r, v) == find_voice(r) /\ check_if_match(r, v) /\ Begin(c, "delete", r)
undelete_voice(c, r) == voice_including_deleted(r) /\ Begin(c, "undelete", r)

create_collection(c, r) == r \in Collections /\ Fresh(r) /\ Begin(c, "create", r)
update_collection(c, r, v) ==
    find_collection(r) /\ check_if_match(r, v) /\ Begin(c, "update", r)
delete_collection(c, r, v) ==
    find_collection(r) /\ check_if_match(r, v) /\ Begin(c, "delete", r)
undelete_collection(c, r) == collection_including_deleted(r) /\ Begin(c, "undelete", r)

create_tag(c, r) == r \in Tags /\ Fresh(r) /\ Begin(c, "create", r)
update_tag(c, r, v) == find_tag(r) /\ check_if_match(r, v) /\ Begin(c, "update", r)
delete_tag(c, r, v) == find_tag(r) /\ check_if_match(r, v) /\ Begin(c, "delete", r)
undelete_tag(c, r) == tag_including_deleted(r) /\ Begin(c, "undelete", r)

attach_tag(c, a, t) ==
    find_arrangement(a) /\ find_tag(t) /\ Takes(c, "attach", a, t, FALSE) /\ UNCHANGED owed
detach_tag(c, a, t) ==
    find_arrangement(a) /\ Takes(c, "detach", a, t, FALSE) /\ UNCHANGED owed

(***************************************************************************)
(* The handlers of the console: edits carry the version of their form,     *)
(* deletes and restores none.                                              *)
(***************************************************************************)
console_create_work(c, r) == create_work(c, r)
console_update_work(c, r) ==
    /\ find_work(r) /\ is_editable_by(r, c)
    /\ Takes(c, "update", r, none, TRUE) /\ UNCHANGED owed

console_create(c, r)    == create_arrangement(c, r)
console_update(c, r, v) == update_arrangement(c, r, v)
console_delete(c, r)    == find_arrangement(r) /\ Begin(c, "delete", r)
console_undelete(c, r)  == undelete_arrangement(c, r)

console_create_voice(c, r)    == create_voice(c, r)
console_update_voice(c, r, v) == update_voice(c, r, v)
console_delete_voice(c, r)    == find_voice(r) /\ Begin(c, "delete", r)
console_undelete_voice(c, r)  == undelete_voice(c, r)

console_create_collection(c, r)    == create_collection(c, r)
console_update_collection(c, r, v) == update_collection(c, r, v)
console_delete_collection(c, r)    == find_collection(r) /\ Begin(c, "delete", r)
console_undelete_collection(c, r) ==
    /\ collection_including_deleted(r)
    /\ Takes(c, "undelete", r, none, TRUE) /\ UNCHANGED owed

console_create_tag(c, r) == create_tag(c, r)
console_update_tag(c, r, v) ==
    /\ find_tag(r) /\ check_if_match(r, v)
    /\ Takes(c, "update", r, none, TRUE) /\ UNCHANGED owed
console_delete_tag(c, r)   == find_tag(r) /\ Begin(c, "delete", r)
console_undelete_tag(c, r) ==
    r \in Tags /\ row[r].is = "deleted" /\ Begin(c, "undelete", r)

console_attach_tag(c, a, t) == attach_tag(c, a, t)
console_detach_tag(c, a, t) == detach_tag(c, a, t)

(***************************************************************************)
(* After the statement: the entry, or a connection that is gone.           *)
(***************************************************************************)
audit(c) ==
    /\ req[c].at = "audit"
    /\ owed' = [owed EXCEPT ![<<req[c].do, req[c].r>>] = @ - 1]
    /\ req' = [req EXCEPT ![c] = Resting]
    /\ UNCHANGED <<row, attached, clock, begun, drops>>

Drop(c) ==
    /\ req[c].at # "idle"
    /\ drops' = drops + 1
    /\ req' = [req EXCEPT ![c] = Resting]
    /\ UNCHANGED <<row, attached, clock, owed, begun>>

(***************************************************************************)
(* Listings.  ORDER BY leaves rows of one key in any order, and each page  *)
(* is a query of its own; the id as a second key leaves one order.         *)
(***************************************************************************)
list_works        == {r \in Works : Live(r)}
list_arrangements == {r \in Arrangements : Live(r)}
list_voices(a)    == {r \in Voices : arrangementOf[r] = a /\ find_voice(r)}
list_collections  == {r \in Collections : Live(r)}
list_tags         == {r \in Tags : Live(r)}

\* (as if the id were not the second key)
BeforeByKey(key, x, y) == key[x] < key[y]

\* ORDER BY the column a client chose, id
Before(key, x, y) == key[x] < key[y] \/ (key[x] = key[y] /\ rank[x] < rank[y])

Orders(S, key) ==
    {s \in SetToSeqs(S) : \A i, j \in DOMAIN s : i < j => ~ Before(key, s[j], s[i])}

\* the limit a client asks for is raised to 1 and cut to the largest page
resolve(limit) == IF limit < 1 THEN 1 ELSE IF limit > MaxPage THEN MaxPage ELSE limit

Page(s, limit, offset) ==
    {s[i] : i \in {j \in DOMAIN s : offset < j /\ j <= offset + resolve(limit)}}

(***************************************************************************)
(* A catalog at rest: the rows that are there have one name.               *)
(***************************************************************************)
Populated ==
    \E is \in Populations, n \in Names, c \in Clients :
        /\ \A r \in Voices : is[r] # "absent" => is[arrangementOf[r]] # "absent"
        /\ \A r \in Works : is[r] # "deleted"
        /\ \A r \in Rows : \A s \in Siblings(r) \ {r} : ~ (is[r] = "live" /\ is[s] = "live")
        /\ row = [r \in Rows |->
              IF is[r] = "absent" THEN Absent
              ELSE [Absent EXCEPT !.is = is[r], !.name = n, !.slug = slugify[n], !.by = c]]

Init ==
    /\ Populated
    /\ attached = {}
    /\ clock = 0
    /\ owed = [e \in Entries |-> 0]
    /\ begun = 0
    /\ drops = 0
    /\ req = [c \in Clients |-> Resting]

Serve(c) ==
    \/ work_create(c) \/ work_update(c) \/ work_delete(c)
    \/ arrangement_create(c) \/ arrangement_update(c)
    \/ arrangement_soft_delete(c) \/ arrangement_undelete(c)
    \/ voice_create(c) \/ voice_update(c) \/ voice_soft_delete(c) \/ voice_undelete(c)
    \/ collection_create(c) \/ collection_update(c)
    \/ collection_soft_delete(c) \/ collection_undelete(c)
    \/ tag_create(c) \/ tag_update(c) \/ tag_soft_delete(c) \/ tag_undelete(c)
    \/ tag_attach(c) \/ tag_detach(c)

V1(c, r, v) ==
    \/ create_work(c, r) \/ update_work(c, r, v) \/ delete_work(c, r, v)
    \/ create_arrangement(c, r) \/ update_arrangement(c, r, v)
    \/ delete_arrangement(c, r, v) \/ undelete_arrangement(c, r)
    \/ create_voice(c, r) \/ update_voice(c, r, v)
    \/ delete_voice(c, r, v) \/ undelete_voice(c, r)
    \/ create_collection(c, r) \/ update_collection(c, r, v)
    \/ delete_collection(c, r, v) \/ undelete_collection(c, r)
    \/ create_tag(c, r) \/ update_tag(c, r, v) \/ delete_tag(c, r, v) \/ undelete_tag(c, r)

Console(c, r, v) ==
    \/ console_create_work(c, r) \/ console_update_work(c, r)
    \/ console_create(c, r) \/ console_update(c, r, v)
    \/ console_delete(c, r) \/ console_undelete(c, r)
    \/ console_create_voice(c, r) \/ console_update_voice(c, r, v)
    \/ console_delete_voice(c, r) \/ console_undelete_voice(c, r)
    \/ console_create_collection(c, r) \/ console_update_collection(c, r, v)
    \/ console_delete_collection(c, r) \/ console_undelete_collection(c, r)
    \/ console_create_tag(c, r) \/ console_update_tag(c, r, v)
    \/ console_delete_tag(c, r) \/ console_undelete_tag(c, r)

Next ==
    \E c \in Clients :
        \/ \E r \in Rows, v \in 0..clock : V1(c, r, v) \/ Console(c, r, v)
        \/ \E a \in Arrangements, t \in Tags :
               \/ attach_tag(c, a, t) \/ detach_tag(c, a, t)
               \/ console_attach_tag(c, a, t) \/ console_detach_tag(c, a, t)
        \/ Serve(c) \/ audit(c) \/ Drop(c)

Spec == Init /\ [][Next]_vars

(***************************************************************************)
(* Properties.                                                             *)
(***************************************************************************)
\* Below one parent no two live rows have one slug, so a WebDAV path names one
\* row, and no two live tags have one name and kind: through creations,
\* renames of tags and restores that race each other (the indexes of 0009,
\* 0010, 0012 and 0015, which leave deleted rows out).
KeysUnique ==
    \A r \in Rows : \A s \in Siblings(r) \ {r} :
        Live(r) /\ Live(s) => ~ SameKey(r, row[r], row[s])

\* A soft-deleted row stays as it was, whatever requests found it before it
\* was deleted, and a restore brings it back as it was: name, slug and work
\* (`deleted_at IS NULL' in each UPDATE).
FrozenWhileDeleted ==
    [][\A r \in Rows : row[r].is = "deleted" =>
           \/ row'[r] = row[r]
           \/ row'[r] = [row[r] EXCEPT !.is = "live", !.at = clock']]_vars

\* the entries that are written whether or not a row was changed
Unsure ==
    {"update"} \X (Works \cup Tags) \cup {"undelete"} \X Collections \cup {"delete"} \X Works

\* The audit log does not name a change that was not made: with the exceptions
\* above, a request that lost its row to another one after it had found it
\* writes no entry ("nothing changed, so don't write a misleading audit
\* entry", admin/arrangements.rs).
AuditTruthful == \A e \in Entries \ Unsure : owed[e] >= 0

\* A change that was made is in the log once its request has ended, unless the
\* connection went away.
AuditComplete ==
    drops = 0 /\ (\A c \in Clients : req[c].at = "idle") => \A e \in Entries : owed[e] <= 0

\* A client that walks a listing page by page while nothing is written sees
\* every row once, whatever page size it asks for (`ORDER BY ..., id ASC' and
\* the clamped limit that a page answers).
PagesPartition ==
    \A S \in {list_works, list_arrangements, list_collections, list_tags}
             \cup {list_voices(a) : a \in Arrangements} :
        \A key \in [S -> {0, 1}], limit \in 0..(MaxPage + 1) :
            LET size == resolve(limit)
                last == (Cardinality(S) + size - 1) \div size
            IN \A order \in [1..last -> Orders(S, key)], r \in S :
                   Cardinality({p \in 1..last :
                       r \in Page(order[p], limit, (p - 1) * size)}) = 1

=============================================================================
