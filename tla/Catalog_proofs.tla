--------------------------- MODULE Catalog_proofs ---------------------------
(***************************************************************************)
(* Catalog: the types of its state, that keys stay unique, and that a      *)
(* deleted row stays as it was, for any catalog and any number of clients  *)
(* and requests.  Every handler begins with a step that writes no row      *)
(* (`Asks'), and every statement changes nothing or one row, in the way    *)
(* `Writes' says; the properties follow from these two.                    *)
(***************************************************************************)
EXTENDS Catalog, FiniteSetTheorems, TLAPS

Row == [is : {"absent", "live", "deleted", "gone"},
        name : Names \cup {none},
        slug : {slugify[n] : n \in Names} \cup {none},
        work : Works \cup {none},
        at : Nat, by : Clients \cup {none}]

Request == [at : {"idle", "write", "audit"}, do : Verbs \cup {"none"},
            r : Rows \cup {none}, other : Tags \cup {none}, sure : BOOLEAN]

\* An id that a request is about to give to a row is no row's and no other
\* request's.
Reserved ==
    \A c \in Clients : Writing(c, "create") =>
        /\ row[req[c].r].is = "absent"
        /\ \A d \in Clients \ {c} : req[d].r # req[c].r

\* A request that is not at rest names a row, and only a creation names one
\* that is not there.
Named ==
    \A c \in Clients : req[c].at # "idle" =>
        /\ req[c].r \in Rows /\ req[c].do \in Verbs
        /\ row[req[c].r].is = "absent" => req[c].do = "create"
        /\ req[c].do \in {"attach", "detach"} =>
              req[c].r \in Arrangements /\ req[c].other \in Tags

Inv == TypeOK /\ Reserved /\ Named /\ KeysUnique

\* The first step of a handler.
Asks(c) ==
    /\ req[c].at = "idle"
    /\ \E verb \in Verbs, r \in Rows, other \in Tags \cup {none}, sure \in BOOLEAN :
          /\ req' = [req EXCEPT ![c] = [at |-> "write", do |-> verb, r |-> r,
                                        other |-> other, sure |-> sure]]
          /\ IF verb = "create" THEN Fresh(r) ELSE row[r].is # "absent"
          /\ verb \in {"attach", "detach"} => r \in Arrangements /\ other \in Tags
    /\ begun' \in 0..MaxRequests
    /\ owed' \in [Entries -> Int]
    /\ UNCHANGED <<row, attached, clock, drops>>

\* A statement that changes the row its request names.
Writes(c) ==
    /\ req[c].at = "write"
    /\ \E x \in Row :
          /\ row' = [row EXCEPT ![req[c].r] = x]
          /\ x.is # "absent"
          /\ x.is = "live" => ~ Taken(req[c].r, x)
          /\ row[req[c].r].is = "deleted" =>
                x = [row[req[c].r] EXCEPT !.is = "live", !.at = clock']
          /\ row[req[c].r].is = "absent" => req[c].do = "create"
    /\ clock' \in Nat
    /\ owed' \in [Entries -> Int]
    /\ \/ req' = [req EXCEPT ![c].at = "audit"]
       \/ req' = [req EXCEPT ![c] = Resting]
    /\ UNCHANGED <<attached, begun, drops>>

\* Any other step: no row changes, and a request goes on or ends.
Passes(c) ==
    /\ attached' \subseteq Arrangements \X Tags
    /\ clock' \in Nat /\ drops' \in Nat
    /\ owed' \in [Entries -> Int]
    /\ req[c].at # "idle"
    /\ \/ req' = [req EXCEPT ![c].at = "audit"]
       \/ req' = [req EXCEPT ![c] = Resting]
    /\ UNCHANGED <<row, begun>>

LEMMA RowType == TypeOK => row \in [Rows -> Row]
  BY DEF TypeOK, Row

LEMMA RequestType == TypeOK <=>
    /\ row \in [Rows -> Row] /\ attached \subseteq Arrangements \X Tags
    /\ clock \in Nat /\ owed \in [Entries -> Int]
    /\ begun \in 0..MaxRequests /\ drops \in Nat
    /\ req \in [Clients -> Request]
  BY DEF TypeOK, Row, Request

LEMMA TablesOfRows ==
    /\ Works \subseteq Rows /\ Arrangements \subseteq Rows /\ Voices \subseteq Rows
    /\ Collections \subseteq Rows /\ Tags \subseteq Rows
  BY DEF Rows, Tables

\* Siblings see each other, and as rows of one kind.
LEMMA SiblingsAgree ==
    ASSUME NEW r \in Rows, NEW s \in Siblings(r)
    PROVE  /\ s \in Rows /\ r \in Siblings(s)
           /\ r \in Tags <=> s \in Tags
           /\ r \in Works <=> s \in Works
<1>1. s \in Rows
  BY DEF Siblings
<1>2. PICK T \in Tables : r \in T /\ s \in T
  BY DEF Siblings
<1>3. /\ r \in Tags <=> s \in Tags
      /\ r \in Works <=> s \in Works
      /\ r \in Voices <=> s \in Voices
  BY <1>2, RowsApart DEF Tables
<1>4. r \in Siblings(s)
  BY <1>1, <1>2, <1>3 DEF Siblings
<1> QED
  BY <1>1, <1>3, <1>4

LEMMA KeysAgree ==
    ASSUME NEW r \in Rows, NEW s \in Siblings(r), NEW x, NEW y
    PROVE  SameKey(r, x, y) <=> SameKey(s, y, x)
<1>1. /\ r \in Tags <=> s \in Tags
      /\ r \in Works <=> s \in Works
  BY SiblingsAgree
<1> QED
  BY <1>1 DEF SameKey

\* Every value a statement puts into a row is one.
LEMMA StampedIsRow ==
    ASSUME NEW x \in Row, NEW n \in Nat
    PROVE  /\ [x EXCEPT !.at = n] \in Row
           /\ [x EXCEPT !.at = n].is = x.is
           /\ [x EXCEPT !.at = n].name = x.name
           /\ [x EXCEPT !.at = n].slug = x.slug
  BY DEF Row

LEMMA TakenStamped ==
    ASSUME NEW r \in Rows, NEW x \in Row, NEW n \in Nat, ~ Taken(r, x)
    PROVE  ~ Taken(r, [x EXCEPT !.at = n])
<1>1. \A y : SameKey(r, [x EXCEPT !.at = n], y) <=> SameKey(r, x, y)
  BY StampedIsRow DEF SameKey
<1> QED
  BY <1>1 DEF Taken

LEMMA OwedMore ==
    ASSUME TypeOK, NEW verb \in Verbs, NEW r \in Rows, NEW n \in {1, -1}
    PROVE  [owed EXCEPT ![<<verb, r>>] = @ + n] \in [Entries -> Int]
<1>1. <<verb, r>> \in Entries
  BY DEF Entries
<1>2. owed \in [Entries -> Int]
  BY DEF TypeOK
<1> QED
  BY <1>1, <1>2

\* What a statement does when it finds nothing to change.
LEMMA NothingPasses ==
    ASSUME Inv, NEW c \in Clients, req[c].at = "write", Nothing(c)
    PROVE  Passes(c)
<1>1. req \in [Clients -> Request] /\ Resting = [at |-> "idle", do |-> "none", r |-> none, other |-> none, sure |-> FALSE]
  BY RequestType DEF Inv, Resting
<1>2. \/ req' = [req EXCEPT ![c].at = "audit"]
      \/ req' = [req EXCEPT ![c] = Resting]
  BY <1>1 DEF Nothing
<1> QED
  BY <1>2, RequestType DEF Inv, Nothing, Passes

\* What a statement does that a unique index refused.
LEMMA RefusedPasses ==
    ASSUME Inv, NEW c \in Clients, req[c].at = "write", Refused(c)
    PROVE  Passes(c)
<1>1. req \in [Clients -> Request] /\ Resting = [at |-> "idle", do |-> "none", r |-> none, other |-> none, sure |-> FALSE]
  BY RequestType DEF Inv, Resting
<1> QED
  BY <1>1, RequestType DEF Inv, Refused, Passes

\* What a statement does that changes the row it names.
LEMMA PutWrites ==
    ASSUME Inv, NEW c \in Clients, req[c].at = "write", NEW x \in Row,
           x.is # "absent",
           x.is = "live" => ~ Taken(req[c].r, x),
           row[req[c].r].is = "deleted" => x = [row[req[c].r] EXCEPT !.is = "live"],
           Put(req[c].r, x), Changed(c)
    PROVE  Writes(c)
<1> DEFINE r == req[c].r
<1> DEFINE y == [x EXCEPT !.at = clock + 1]
<1>1. r \in Rows /\ req[c].do \in Verbs /\ clock \in Nat /\ row \in [Rows -> Row]
  BY RequestType DEF Inv, Named
<1>2. y \in Row /\ y.is = x.is /\ y.name = x.name /\ y.slug = x.slug
  BY <1>1, StampedIsRow
<1>3. ASSUME x.is = "live" PROVE ~ Taken(r, y)
  <2>1. ~ Taken(r, x) /\ clock + 1 \in Nat
    BY <1>1, <1>3
  <2> QED
    BY <1>1, <2>1, TakenStamped
<1>4. clock' = clock + 1 /\ owed' \in [Entries -> Int]
  BY <1>1, OwedMore DEF Changed, Inv
<1>5. ASSUME row[r].is = "deleted" PROVE y = [row[r] EXCEPT !.is = "live", !.at = clock']
  BY <1>1, <1>4, <1>5 DEF Row
<1>6. row[r].is = "absent" => req[c].do = "create"
  BY DEF Inv, Named
<1>7. row' = [row EXCEPT ![r] = y] /\ UNCHANGED attached
  BY DEF Put
<1> HIDE DEF y
<1>8. \E z \in Row :
          /\ row' = [row EXCEPT ![r] = z]
          /\ z.is # "absent"
          /\ z.is = "live" => ~ Taken(r, z)
          /\ row[r].is = "deleted" => z = [row[r] EXCEPT !.is = "live", !.at = clock']
          /\ row[r].is = "absent" => req[c].do = "create"
  BY <1>2, <1>3, <1>5, <1>6, <1>7
<1>9. clock' \in Nat
  BY <1>1, <1>4
<1>10. req' = [req EXCEPT ![c].at = "audit"] /\ UNCHANGED <<begun, drops>>
  BY DEF Changed
<1> QED
  BY <1>4, <1>7, <1>8, <1>9, <1>10, Zenon DEF Writes

LEMMA InsertSteps ==
    ASSUME Inv, NEW c \in Clients, Writing(c, "create"),
           NEW work \in Works \cup {none}, Insert(c, work)
    PROVE  Writes(c) \/ Passes(c)
<1>1. PICK n \in Names :
          LET x == [is |-> "live", name |-> n, slug |-> slugify[n], work |-> work,
                    at |-> 0, by |-> c]
          IN IF Taken(req[c].r, x) THEN Refused(c) ELSE Put(req[c].r, x) /\ Changed(c)
  BY DEF Insert
<1> DEFINE x == [is |-> "live", name |-> n, slug |-> slugify[n], work |-> work,
                 at |-> 0, by |-> c]
<1>2. CASE Taken(req[c].r, x)
  BY <1>1, <1>2, RefusedPasses DEF Writing
<1>3. CASE ~ Taken(req[c].r, x)
  <2>1. x \in Row /\ x.is = "live"
    BY DEF Row
  <2>2. row[req[c].r].is = "absent"
    BY DEF Inv, Reserved
  <2>3. Put(req[c].r, x) /\ Changed(c)
    BY <1>1, <1>3
  <2> QED
    BY <1>3, <2>1, <2>2, <2>3, PutWrites DEF Writing
<1> QED
  BY <1>2, <1>3

LEMMA RewriteSteps ==
    ASSUME Inv, NEW c \in Clients, Writing(c, "update"),
           NEW work \in Works \cup {none}, Rewrite(c, work)
    PROVE  Writes(c) \/ Passes(c)
<1> DEFINE r == req[c].r
<1>1. PICK n \in Names :
          LET x == [row[r] EXCEPT !.name = n, !.work = work]
          IN IF ~ Live(r) THEN Nothing(c)
             ELSE IF Taken(r, x) THEN Refused(c) ELSE Put(r, x) /\ Changed(c)
  BY DEF Rewrite
<1> DEFINE x == [row[r] EXCEPT !.name = n, !.work = work]
<1>2. CASE ~ Live(r) \/ Taken(r, x)
  <2>1. Nothing(c) \/ Refused(c)
    BY <1>1, <1>2
  <2> QED
    BY <2>1, NothingPasses, RefusedPasses DEF Writing
<1>3. CASE Live(r) /\ ~ Taken(r, x)
  <2>1. r \in Rows /\ row \in [Rows -> Row]
    BY RequestType DEF Inv, Named, Writing
  <2>2. row[r].is = "live" /\ row[r] \in Row
    BY <1>3, <2>1 DEF Live
  <2>3. \A o \in Row : [o EXCEPT !.name = n, !.work = work] \in Row
    BY DEF Row
  <2>4. x \in Row /\ x.is = "live"
    BY <2>2, <2>3 DEF Row
  <2>5. Put(r, x) /\ Changed(c)
    BY <1>1, <1>3
  <2> QED
    BY <1>3, <2>2, <2>4, <2>5, PutWrites DEF Writing
<1> QED
  BY <1>2, <1>3

LEMMA HideSteps ==
    ASSUME Inv, NEW c \in Clients, Writing(c, "delete"), Hide(c)
    PROVE  Writes(c) \/ Passes(c)
<1> DEFINE r == req[c].r
<1> DEFINE x == [row[r] EXCEPT !.is = "deleted"]
<1>1. CASE ~ Live(r)
  BY <1>1, NothingPasses DEF Writing, Hide
<1>2. CASE Live(r)
  <2>1. r \in Rows /\ row \in [Rows -> Row]
    BY RequestType DEF Inv, Named, Writing
  <2>2. x \in Row /\ x.is = "deleted"
    BY <2>1 DEF Row
  <2>3. Put(r, x) /\ Changed(c)
    BY <1>2 DEF Hide
  <2> QED
    BY <1>2, <2>2, <2>3, PutWrites DEF Writing, Live
<1> QED
  BY <1>1, <1>2

LEMMA ShowSteps ==
    ASSUME Inv, NEW c \in Clients, Writing(c, "undelete"), Show(c)
    PROVE  Writes(c) \/ Passes(c)
<1> DEFINE r == req[c].r
<1> DEFINE x == [row[r] EXCEPT !.is = "live"]
<1>1. CASE ~ (row[r].is = "deleted" /\ ~ Taken(r, row[r]))
  <2>1. Nothing(c) \/ Refused(c)
    BY <1>1 DEF Show
  <2> QED
    BY <2>1, NothingPasses, RefusedPasses DEF Writing
<1>2. CASE row[r].is = "deleted" /\ ~ Taken(r, row[r])
  <2>1. r \in Rows /\ row \in [Rows -> Row]
    BY RequestType DEF Inv, Named, Writing
  <2>2. /\ x \in Row /\ x.is = "live"
        /\ x.name = row[r].name /\ x.slug = row[r].slug
    BY <2>1 DEF Row
  <2>3. ~ Taken(r, x)
    <3> HIDE DEF x
    <3> QED
      BY <1>2, <2>2 DEF Taken, SameKey
  <2>4. Put(r, x) /\ Changed(c)
    BY <1>2 DEF Show
  <2> QED
    BY <1>2, <2>2, <2>3, <2>4, PutWrites DEF Writing
<1> QED
  BY <1>1, <1>2

LEMMA WorkDeleteSteps ==
    ASSUME Inv, NEW c \in Clients, work_delete(c)
    PROVE  Writes(c) \/ Passes(c)
<1> DEFINE r == req[c].r
<1> DEFINE x == [Absent EXCEPT !.is = "gone"]
<1>1. CASE Nothing(c)
  BY <1>1, NothingPasses DEF work_delete, Writing
<1>2. CASE ~ Nothing(c)
  <2>1. /\ Writing(c, "delete") /\ r \in Works /\ Live(r)
        /\ row' = [row EXCEPT ![r] = x]
        /\ clock' = clock + 1
        /\ owed' = [owed EXCEPT ![<<"delete", r>>] = @ + 1]
        /\ req' = [req EXCEPT ![c] = Resting]
        /\ UNCHANGED <<attached, begun, drops>>
    BY <1>2 DEF work_delete
  <2>2. x \in Row /\ x.is = "gone"
    BY DEF Row, Absent
  <2>3. clock' \in Nat
    BY <2>1, RequestType DEF Inv
  <2>4. owed' \in [Entries -> Int]
    BY <2>1, OwedMore, TablesOfRows DEF Inv, Verbs
  <2>5. row[r].is = "live"
    BY <2>1 DEF Live
  <2> HIDE DEF x
  <2>6. \E z \in Row :
            /\ row' = [row EXCEPT ![r] = z]
            /\ z.is # "absent"
            /\ z.is = "live" => ~ Taken(r, z)
            /\ row[r].is = "deleted" => z = [row[r] EXCEPT !.is = "live", !.at = clock']
            /\ row[r].is = "absent" => req[c].do = "create"
    BY <2>1, <2>2, <2>5
  <2> QED
    BY <2>1, <2>3, <2>4, <2>6, Zenon DEF Writes, Writing
<1> QED
  BY <1>1, <1>2

LEMMA TagSteps ==
    ASSUME Inv, NEW c \in Clients, tag_attach(c) \/ tag_detach(c)
    PROVE  Passes(c)
<1> DEFINE pair == <<req[c].r, req[c].other>>
<1>1. /\ req[c].at = "write" /\ req[c].do \in {"attach", "detach"}
      /\ pair \in Arrangements \X Tags
  BY DEF tag_attach, tag_detach, Writing, Inv, Named
<1>2. CASE Nothing(c)
  BY <1>1, <1>2, NothingPasses
<1>3. CASE ~ Nothing(c)
  <2>1. /\ attached' \in {attached \cup {pair}, attached \ {pair}}
        /\ Changed(c) /\ UNCHANGED row
    BY <1>3 DEF tag_attach, tag_detach
  <2>2. attached' \subseteq Arrangements \X Tags
    BY <1>1, <2>1, RequestType DEF Inv
  <2>3. req[c].r \in Rows /\ req[c].do \in Verbs
    BY <1>1 DEF Inv, Named
  <2>4. owed' \in [Entries -> Int]
    BY <2>1, <2>3, OwedMore DEF Changed, Inv
  <2>5. clock' \in Nat /\ drops' \in Nat
    BY <2>1, RequestType DEF Changed, Inv
  <2> QED
    BY <1>1, <2>1, <2>2, <2>4, <2>5 DEF Changed, Passes
<1> QED
  BY <1>2, <1>3

\* Every statement changes nothing, or one row in the way `Writes' says.
LEMMA ServeSteps ==
    ASSUME Inv, NEW c \in Clients, Serve(c)
    PROVE  Writes(c) \/ Passes(c)
<1>1. CASE work_create(c) \/ voice_create(c) \/ collection_create(c) \/ tag_create(c)
  BY <1>1, InsertSteps DEF work_create, voice_create, collection_create, tag_create
<1>2. CASE work_update(c) \/ voice_update(c) \/ collection_update(c) \/ tag_update(c)
  BY <1>2, RewriteSteps DEF work_update, voice_update, collection_update, tag_update
<1>3. CASE arrangement_create(c)
  BY <1>3, InsertSteps DEF arrangement_create, LinkableWorks
<1>4. CASE arrangement_update(c)
  BY <1>4, RewriteSteps DEF arrangement_update, LinkableWorks
<1>5. CASE \/ arrangement_soft_delete(c) \/ voice_soft_delete(c)
           \/ collection_soft_delete(c) \/ tag_soft_delete(c)
  BY <1>5, HideSteps
     DEF arrangement_soft_delete, voice_soft_delete, collection_soft_delete, tag_soft_delete
<1>6. CASE \/ arrangement_undelete(c) \/ voice_undelete(c)
           \/ collection_undelete(c) \/ tag_undelete(c)
  BY <1>6, ShowSteps DEF arrangement_undelete, voice_undelete, collection_undelete, tag_undelete
<1>7. CASE work_delete(c)
  BY <1>7, WorkDeleteSteps
<1>8. CASE tag_attach(c) \/ tag_detach(c)
  BY <1>8, TagSteps
<1> QED
  BY <1>1, <1>2, <1>3, <1>4, <1>5, <1>6, <1>7, <1>8 DEF Serve

LEMMA TakesAsks ==
    ASSUME Inv, NEW c \in Clients, NEW verb \in Verbs, NEW r \in Rows,
           NEW other \in Tags \cup {none}, NEW sure \in BOOLEAN,
           IF verb = "create" THEN Fresh(r) ELSE row[r].is # "absent",
           verb \in {"attach", "detach"} => r \in Arrangements /\ other \in Tags,
           Takes(c, verb, r, other, sure),
           owed' \in [Entries -> Int]
    PROVE  Asks(c)
<1>1. begun' \in 0..MaxRequests
  BY RequestType, Shapes DEF Takes, Inv
<1> QED
  BY <1>1, Zenon DEF Takes, Asks

LEMMA BeginAsks ==
    ASSUME Inv, NEW c \in Clients, NEW verb \in Verbs, NEW r \in Rows,
           verb \notin {"attach", "detach"},
           IF verb = "create" THEN Fresh(r) ELSE row[r].is # "absent",
           Begin(c, verb, r)
    PROVE  Asks(c)
<1>1. owed' \in [Entries -> Int]
  BY RequestType DEF Begin, Inv
<1> QED
  BY <1>1, TakesAsks DEF Begin

LEMMA LiveIsThere ==
    ASSUME NEW r, \/ find_work(r) \/ find_arrangement(r) \/ find_voice(r)
                  \/ find_collection(r) \/ find_tag(r)
                  \/ arrangement_including_deleted(r) \/ voice_including_deleted(r)
                  \/ collection_including_deleted(r) \/ tag_including_deleted(r)
    PROVE  row[r].is # "absent"
  BY DEF find_work, find_arrangement, find_voice, find_collection, find_tag, Live,
         arrangement_including_deleted, voice_including_deleted,
         collection_including_deleted, tag_including_deleted

LEMMA V1Asks ==
    ASSUME Inv, NEW c \in Clients, NEW r \in Rows, NEW v, V1(c, r, v)
    PROVE  Asks(c)
<1> USE DEF Verbs
<1>1. CASE \/ create_work(c, r) \/ create_arrangement(c, r) \/ create_voice(c, r)
           \/ create_collection(c, r) \/ create_tag(c, r)
  BY <1>1, BeginAsks DEF create_work, create_arrangement, create_voice,
                         create_collection, create_tag
<1>2. CASE \/ update_work(c, r, v) \/ update_arrangement(c, r, v) \/ update_voice(c, r, v)
           \/ update_collection(c, r, v) \/ update_tag(c, r, v)
  BY <1>2, BeginAsks, LiveIsThere
     DEF update_work, update_arrangement, update_voice, update_collection, update_tag
<1>3. CASE \/ delete_arrangement(c, r, v) \/ delete_voice(c, r, v)
           \/ delete_collection(c, r, v) \/ delete_tag(c, r, v)
  BY <1>3, BeginAsks, LiveIsThere
     DEF delete_arrangement, delete_voice, delete_collection, delete_tag
<1>4. CASE \/ undelete_arrangement(c, r) \/ undelete_voice(c, r)
           \/ undelete_collection(c, r) \/ undelete_tag(c, r)
  BY <1>4, BeginAsks, LiveIsThere
     DEF undelete_arrangement, undelete_voice, undelete_collection, undelete_tag
<1>5. CASE delete_work(c, r, v)
  <2>1. owed' = [owed EXCEPT ![<<"delete", r>>] = @ - 1]
    BY <1>5 DEF delete_work
  <2>2. <<"delete", r>> \in Entries
    BY DEF Entries
  <2>3. owed' \in [Entries -> Int]
    BY <2>1, <2>2, RequestType DEF Inv
  <2> QED
    BY <1>5, <2>3, TakesAsks, LiveIsThere DEF delete_work
<1> QED
  BY <1>1, <1>2, <1>3, <1>4, <1>5 DEF V1

LEMMA ConsoleAsks ==
    ASSUME Inv, NEW c \in Clients, NEW r \in Rows, NEW v, Console(c, r, v)
    PROVE  Asks(c)
<1> USE DEF Verbs
<1>1. CASE \/ console_create_work(c, r) \/ console_create(c, r) \/ console_create_voice(c, r)
           \/ console_create_collection(c, r) \/ console_create_tag(c, r)
           \/ console_update(c, r, v) \/ console_undelete(c, r)
           \/ console_update_voice(c, r, v) \/ console_undelete_voice(c, r)
           \/ console_update_collection(c, r, v)
  BY <1>1, V1Asks
     DEF V1, console_create_work, console_create, console_create_voice,
         console_create_collection, console_create_tag, console_update, console_undelete,
         console_update_voice, console_undelete_voice, console_update_collection
<1>2. CASE \/ console_delete(c, r) \/ console_delete_voice(c, r)
           \/ console_delete_collection(c, r) \/ console_delete_tag(c, r)
  BY <1>2, BeginAsks, LiveIsThere
     DEF console_delete, console_delete_voice, console_delete_collection, console_delete_tag
<1>3. CASE console_undelete_tag(c, r)
  BY <1>3, BeginAsks DEF console_undelete_tag
<1>4. CASE \/ console_update_work(c, r) \/ console_update_tag(c, r, v)
           \/ console_undelete_collection(c, r)
  <2>1. owed' \in [Entries -> Int]
    BY <1>4, RequestType
       DEF console_update_work, console_update_tag, console_undelete_collection, Inv
  <2> QED
    BY <1>4, <2>1, TakesAsks, LiveIsThere
       DEF console_update_work, console_update_tag, console_undelete_collection
<1> QED
  BY <1>1, <1>2, <1>3, <1>4 DEF Console

LEMMA TagAsks ==
    ASSUME Inv, NEW c \in Clients, NEW a \in Arrangements, NEW t \in Tags,
           \/ attach_tag(c, a, t) \/ detach_tag(c, a, t)
           \/ console_attach_tag(c, a, t) \/ console_detach_tag(c, a, t)
    PROVE  Asks(c)
<1>1. attach_tag(c, a, t) \/ detach_tag(c, a, t)
  BY DEF console_attach_tag, console_detach_tag
<1>2. owed' \in [Entries -> Int]
  BY <1>1, RequestType DEF attach_tag, detach_tag, Inv
<1> QED
  BY <1>1, <1>2, TakesAsks, LiveIsThere, TablesOfRows DEF attach_tag, detach_tag, Verbs

\* Every step of the system, in three kinds.
LEMMA StepKinds ==
    ASSUME Inv, Next
    PROVE  \E c \in Clients : Asks(c) \/ Writes(c) \/ Passes(c)
<1>1. PICK c \in Clients :
          \/ \E r \in Rows, v \in 0..clock : V1(c, r, v) \/ Console(c, r, v)
          \/ \E a \in Arrangements, t \in Tags :
                 \/ attach_tag(c, a, t) \/ detach_tag(c, a, t)
                 \/ console_attach_tag(c, a, t) \/ console_detach_tag(c, a, t)
          \/ Serve(c) \/ audit(c) \/ Drop(c)
  BY DEF Next
<1>2. ASSUME audit(c) PROVE Passes(c)
  <2>1. <<req[c].do, req[c].r>> \in Entries
    BY <1>2 DEF audit, Inv, Named, Entries
  <2>2. owed' \in [Entries -> Int]
    BY <1>2, <2>1, RequestType DEF audit, Inv
  <2> QED
    BY <1>2, <2>2, RequestType DEF audit, Inv, Passes
<1>3. ASSUME Drop(c) PROVE Passes(c)
  BY <1>3, RequestType DEF Drop, Inv, Passes
<1> QED
  BY <1>1, <1>2, <1>3, V1Asks, ConsoleAsks, TagAsks, ServeSteps

LEMMA RequestGoesOn ==
    ASSUME TypeOK, NEW c \in Clients, req[c].at # "idle",
           \/ req' = [req EXCEPT ![c].at = "audit"]
           \/ req' = [req EXCEPT ![c] = Resting]
    PROVE  /\ req' \in [Clients -> Request]
           /\ \A d \in Clients \ {c} : req'[d] = req[d]
           /\ req'[c].at # "write"
           /\ req'[c].r \in {req[c].r, none}
           /\ req'[c].at # "idle" =>
                 /\ req'[c].r = req[c].r /\ req'[c].do = req[c].do
                 /\ req'[c].other = req[c].other
<1>1. req \in [Clients -> Request] /\ Resting \in Request
      /\ Resting.at = "idle" /\ Resting.r = none
  BY RequestType DEF Resting, Request
<1>2. CASE req' = [req EXCEPT ![c].at = "audit"]
  BY <1>1, <1>2 DEF Request
<1>3. CASE req' = [req EXCEPT ![c] = Resting]
  BY <1>1, <1>3
<1> QED
  BY <1>2, <1>3

LEMMA PassesKeeps ==
    ASSUME Inv, NEW c \in Clients, Passes(c)
    PROVE  Inv'
<1>1. /\ req' \in [Clients -> Request]
      /\ \A d \in Clients \ {c} : req'[d] = req[d]
      /\ req'[c].at # "write"
      /\ req'[c].r \in {req[c].r, none}
      /\ req'[c].at # "idle" =>
            /\ req'[c].r = req[c].r /\ req'[c].do = req[c].do
            /\ req'[c].other = req[c].other
  BY RequestGoesOn DEF Passes, Inv
<1>2. row' = row /\ req[c].at # "idle"
  BY DEF Passes
<1>3. TypeOK'
  BY <1>1, RequestType, RowType DEF Passes, Inv, TypeOK, Request
<1>4. Reserved'
  <2>1. \A d \in Clients : req[d].at = "write" /\ req[d].do = "create" => req[d].r # none
    BY RowsApart DEF Inv, Named
  <2> QED
    BY <1>1, <1>2, <2>1 DEF Inv, Reserved, Writing
<1>5. Named'
  BY <1>1, <1>2 DEF Inv, Named
<1>6. KeysUnique'
  BY <1>2 DEF Inv, KeysUnique, Live
<1> QED
  BY <1>3, <1>4, <1>5, <1>6 DEF Inv

LEMMA AsksKeeps ==
    ASSUME Inv, NEW c \in Clients, Asks(c)
    PROVE  Inv'
<1>1. PICK verb \in Verbs, r \in Rows, other \in Tags \cup {none}, sure \in BOOLEAN :
          /\ req' = [req EXCEPT ![c] = [at |-> "write", do |-> verb, r |-> r,
                                        other |-> other, sure |-> sure]]
          /\ IF verb = "create" THEN Fresh(r) ELSE row[r].is # "absent"
          /\ verb \in {"attach", "detach"} => r \in Arrangements /\ other \in Tags
  BY DEF Asks
<1> DEFINE q == [at |-> "write", do |-> verb, r |-> r, other |-> other, sure |-> sure]
<1>2. q \in Request /\ q.at = "write" /\ q.do = verb /\ q.r = r /\ q.other = other
  BY DEF Request
<1>3. req \in [Clients -> Request] /\ row' = row /\ req[c].at = "idle"
  BY RequestType DEF Inv, Asks
<1>4. \A d \in Clients : req'[d] = IF d = c THEN q ELSE req[d]
  BY <1>1, <1>3
<1> HIDE DEF q
<1>5. req' \in [Clients -> Request]
  BY <1>1, <1>2, <1>3 DEF q
<1>6. TypeOK'
  BY <1>5, RequestType, RowType DEF Asks, Inv, TypeOK, Request
<1>7. Reserved'
  <2> SUFFICES ASSUME NEW d \in Clients, Writing(d, "create")'
               PROVE  /\ row[req'[d].r].is = "absent"
                      /\ \A e \in Clients \ {d} : req'[e].r # req'[d].r
    BY <1>3 DEF Reserved
  <2>1. CASE d = c
    BY <1>1, <1>2, <1>4, <2>1 DEF Fresh, Writing
  <2>2. CASE d # c
    <3>1. Writing(d, "create") /\ req'[d] = req[d]
      BY <1>4, <2>2 DEF Writing
    <3>2. row[req[d].r].is = "absent" /\ \A e \in Clients \ {d} : req[e].r # req[d].r
      BY <3>1 DEF Inv, Reserved
    <3>3. r # req[d].r
      BY <1>1, <3>2 DEF Fresh
    <3> QED
      BY <1>2, <1>4, <3>1, <3>2, <3>3
  <2> QED
    BY <2>1, <2>2
<1>8. Named'
  BY <1>1, <1>2, <1>3, <1>4 DEF Inv, Named
<1>9. KeysUnique'
  BY <1>3 DEF Inv, KeysUnique, Live
<1> QED
  BY <1>6, <1>7, <1>8, <1>9 DEF Inv

LEMMA WritesKeeps ==
    ASSUME Inv, NEW c \in Clients, Writes(c)
    PROVE  Inv'
<1> DEFINE r == req[c].r
<1>1. PICK x \in Row :
          /\ row' = [row EXCEPT ![r] = x]
          /\ x.is # "absent"
          /\ x.is = "live" => ~ Taken(r, x)
          /\ row[r].is = "absent" => req[c].do = "create"
  BY DEF Writes
<1>2. /\ req' \in [Clients -> Request]
      /\ \A d \in Clients \ {c} : req'[d] = req[d]
      /\ req'[c].at # "write"
      /\ req'[c].r \in {r, none}
      /\ req'[c].at # "idle" =>
            /\ req'[c].r = r /\ req'[c].do = req[c].do
            /\ req'[c].other = req[c].other
  BY RequestGoesOn DEF Writes, Inv
<1>3. r \in Rows /\ row \in [Rows -> Row] /\ req[c].at = "write" /\ r # none
  BY RequestType, RowsApart DEF Inv, Named, Writes
<1>4. \A s \in Rows : row'[s] = IF s = r THEN x ELSE row[s]
  BY <1>1, <1>3
<1>5. TypeOK'
  <2>1. row' \in [Rows -> Row]
    BY <1>1, <1>3
  <2> QED
    BY <1>2, <2>1, RequestType DEF Writes, Inv, TypeOK, Row, Request
<1>6. Reserved'
  <2> SUFFICES ASSUME NEW d \in Clients, Writing(d, "create")'
               PROVE  /\ row'[req'[d].r].is = "absent"
                      /\ \A e \in Clients \ {d} : req'[e].r # req'[d].r
    BY DEF Reserved
  <2>1. d # c /\ req'[d] = req[d] /\ Writing(d, "create")
    BY <1>2 DEF Writing
  <2>2. /\ row[req[d].r].is = "absent" /\ req[d].r \in Rows
        /\ \A e \in Clients \ {d} : req[e].r # req[d].r
    BY <2>1 DEF Inv, Reserved, Named, Writing
  <2> QED
    BY <1>2, <1>4, <2>1, <2>2, RowsApart
<1>7. Named'
  BY <1>1, <1>2, <1>3, <1>4 DEF Inv, Named
<1>8. KeysUnique'
  <2> SUFFICES ASSUME NEW s \in Rows, NEW t \in Siblings(s) \ {s}, Live(s)', Live(t)'
               PROVE  ~ SameKey(s, row'[s], row'[t])
    BY DEF KeysUnique
  <2>1. t \in Rows /\ s \in Siblings(t)
    BY SiblingsAgree
  <2>2. CASE s # r /\ t # r
    BY <1>4, <2>1, <2>2 DEF Inv, KeysUnique, Live
  <2>3. CASE s = r
    BY <1>1, <1>4, <2>1, <2>3 DEF Live, Taken
  <2>4. CASE t = r
    <3>1. ~ SameKey(t, x, row[s])
      BY <1>1, <1>4, <2>1, <2>4 DEF Live, Taken
    <3>2. SameKey(s, row[s], x) <=> SameKey(t, x, row[s])
      BY <2>1, KeysAgree
    <3> QED
      BY <1>4, <2>1, <2>4, <3>1, <3>2
  <2> QED
    BY <2>2, <2>3, <2>4
<1> QED
  BY <1>5, <1>6, <1>7, <1>8 DEF Inv

\* The inductive invariant: types, unique keys, and no two requests that
\* would create the same row.
THEOREM Inductive == Spec => []Inv
<1>1. Init => Inv
  <2> SUFFICES ASSUME Init PROVE Inv
    OBVIOUS
  <2>1. PICK is \in Populations, n \in Names, c \in Clients :
            /\ \A r \in Voices : is[r] # "absent" => is[arrangementOf[r]] # "absent"
            /\ \A r \in Works : is[r] # "deleted"
            /\ \A r \in Rows : \A s \in Siblings(r) \ {r} : ~ (is[r] = "live" /\ is[s] = "live")
            /\ row = [r \in Rows |->
                  IF is[r] = "absent" THEN Absent
                  ELSE [Absent EXCEPT !.is = is[r], !.name = n, !.slug = slugify[n], !.by = c]]
    BY DEF Init, Populated
  <2>2. is \in [Rows -> {"absent", "live", "deleted"}]
    BY Shapes
  <2>3. \A r \in Rows : row[r] \in Row /\ row[r].is = is[r]
    <3>1. Absent \in Row /\ Absent.is = "absent"
      BY DEF Absent, Row
    <3>2. \A i \in {"live", "deleted"} :
              LET x == [Absent EXCEPT !.is = i, !.name = n, !.slug = slugify[n], !.by = c]
              IN x \in Row /\ x.is = i
      BY DEF Absent, Row
    <3> QED
      BY <2>1, <2>2, <3>1, <3>2
  <2>4. row \in [Rows -> Row]
    BY <2>1, <2>3
  <2>5. Resting \in Request /\ Resting.at = "idle"
    BY DEF Resting, Request
  <2>6. /\ req = [c_1 \in Clients |-> Resting] /\ begun = 0 /\ clock = 0 /\ drops = 0
        /\ attached = {} /\ owed \in [Entries -> Int]
    BY DEF Init
  <2>7. TypeOK
    BY <2>4, <2>5, <2>6, Shapes, RequestType
  <2>8. Reserved /\ Named
    BY <2>5, <2>6 DEF Reserved, Named, Writing
  <2>9. KeysUnique
    <3> SUFFICES ASSUME NEW r \in Rows, NEW s \in Siblings(r) \ {r}, Live(r), Live(s)
                 PROVE  FALSE
      BY DEF KeysUnique
    <3>1. s \in Rows
      BY SiblingsAgree
    <3>2. is[r] = "live" /\ is[s] = "live"
      BY <2>3, <3>1 DEF Live
    <3> QED
      BY <2>1, <3>2
  <2> QED
    BY <2>7, <2>8, <2>9 DEF Inv
<1>2. Inv /\ [Next]_vars => Inv'
  <2> SUFFICES ASSUME Inv, [Next]_vars PROVE Inv'
    OBVIOUS
  <2>1. CASE Next
    BY <2>1, StepKinds, AsksKeeps, WritesKeeps, PassesKeeps
  <2>2. CASE UNCHANGED vars
    <3>1. row' = row /\ req' = req
      BY <2>2 DEF vars
    <3>2. TypeOK'
      BY <2>2 DEF Inv, TypeOK, vars
    <3> QED
      BY <3>1, <3>2 DEF Inv, Reserved, Named, KeysUnique, Writing, Live
  <2> QED
    BY <2>1, <2>2
<1> QED
  BY <1>1, <1>2, PTL DEF Spec

\* The types of the catalog's rows and of the requests under way.
THEOREM TypesHold == Spec => []TypeOK
<1>1. Inv => TypeOK
  BY DEF Inv
<1> QED
  BY <1>1, Inductive, PTL

\* No two live rows below one parent share a slug, no two live tags a name
\* and kind, whatever requests race each other.
THEOREM KeysStayUnique == Spec => []KeysUnique
<1>1. Inv => KeysUnique
  BY DEF Inv
<1> QED
  BY <1>1, Inductive, PTL

\* A deleted row stays as it was until a restore brings it back unchanged.
THEOREM DeletedRowsKeep == Spec => FrozenWhileDeleted
<1> DEFINE Frozen ==
        \A r \in Rows : row[r].is = "deleted" =>
            \/ row'[r] = row[r]
            \/ row'[r] = [row[r] EXCEPT !.is = "live", !.at = clock']
<1>1. Inv /\ [Next]_vars => [Frozen]_vars
  <2> SUFFICES ASSUME Inv, Next PROVE Frozen
    OBVIOUS
  <2>1. PICK c \in Clients : Asks(c) \/ Writes(c) \/ Passes(c)
    BY StepKinds
  <2>2. CASE Asks(c) \/ Passes(c)
    BY <2>2 DEF Asks, Passes
  <2>3. CASE Writes(c)
    <3>1. PICK x \in Row :
              /\ row' = [row EXCEPT ![req[c].r] = x]
              /\ row[req[c].r].is = "deleted" =>
                    x = [row[req[c].r] EXCEPT !.is = "live", !.at = clock']
      BY <2>3 DEF Writes
    <3>2. row \in [Rows -> Row]
      BY RequestType DEF Inv
    <3> QED
      BY <3>1, <3>2
  <2> QED
    BY <2>1, <2>2, <2>3
<1> QED
  BY <1>1, Inductive, PTL DEF Spec, FrozenWhileDeleted

(***************************************************************************)
(* The audit log.  A change made is owed an entry by the request that made *)
(* it until that one has written it (`Due'); the entry of a work's         *)
(* deletion is written first and is owed its change.                       *)
(***************************************************************************)
Early == {"delete"} \X Works
Entry(c) == <<req[c].do, req[c].r>>
Due(e) ==
    {c \in Clients : Entry(c) = e /\ req[c].at = IF e \in Early THEN "write" ELSE "audit"}

Promised == \A c \in Clients : req[c].at # "idle" /\ req[c].sure => Entry(c) \in Unsure \ Early
NoneTooMany == \A e \in Entries \ Unsure : owed[e] >= Cardinality(Due(e))
NoneMissing ==
    drops = 0 => \A e \in Entries :
        owed[e] <= IF e \in Early THEN - Cardinality(Due(e)) ELSE Cardinality(Due(e))
Books == Promised /\ NoneTooMany /\ NoneMissing

\* What a step of c does to the log: a request is taken, ...
Asked(c) ==
    /\ req[c].at = "idle" /\ drops' = drops
    /\ \E verb \in Verbs, r \in Rows, other \in Tags \cup {none}, sure \in BOOLEAN :
          /\ req' = [req EXCEPT ![c] = [at |-> "write", do |-> verb, r |-> r,
                                        other |-> other, sure |-> sure]]
          /\ sure => <<verb, r>> \in Unsure \ Early
          /\ owed' = IF <<verb, r>> \in Early THEN [owed EXCEPT ![<<verb, r>>] = @ - 1] ELSE owed
\* ... its change is made ...
Made(c) ==
    /\ req[c].at = "write" /\ drops' = drops
    /\ owed' = [owed EXCEPT ![Entry(c)] = @ + 1]
    /\ \/ req' = [req EXCEPT ![c].at = "audit"]
       \/ req' = [req EXCEPT ![c] = Resting] /\ Entry(c) \in Early
\* ... or finds nothing to change or is refused.
Missed(c) == req[c].at = "write" /\ (Nothing(c) \/ Refused(c))

\* A statement makes its change, finds nothing to change or is refused.
LEMMA StatementsBook ==
    ASSUME Inv, NEW c \in Clients, Serve(c)
    PROVE  Made(c) \/ Missed(c)
<1>1. ASSUME req[c].at = "write", Changed(c) PROVE Made(c)
  BY <1>1 DEF Changed, Made, Entry
<1>2. ASSUME req[c].at = "write", Nothing(c) \/ Refused(c) PROVE Missed(c)
  BY <1>2 DEF Missed
<1>3. ASSUME NEW verb \in Verbs, Writing(c, verb), NEW work \in Works \cup {none},
             Insert(c, work) \/ Rewrite(c, work) \/ Hide(c) \/ Show(c)
      PROVE  Made(c) \/ Missed(c)
  <2>1. Changed(c) \/ Nothing(c) \/ Refused(c)
    BY <1>3 DEF Insert, Rewrite, Hide, Show
  <2> QED
    BY <1>1, <1>2, <1>3, <2>1 DEF Writing
<1>4. CASE work_delete(c)
  <2>1. CASE Nothing(c)
    BY <1>2, <1>4, <2>1 DEF work_delete, Writing
  <2>2. CASE ~ Nothing(c)
    BY <1>4, <2>2 DEF work_delete, Writing, Made, Entry, Early
  <2> QED
    BY <2>1, <2>2
<1>5. CASE tag_attach(c) \/ tag_detach(c)
  BY <1>1, <1>2, <1>5 DEF tag_attach, tag_detach, Writing
<1>6. CASE \/ work_create(c) \/ voice_create(c) \/ collection_create(c) \/ tag_create(c)
           \/ work_update(c) \/ voice_update(c) \/ collection_update(c) \/ tag_update(c)
  BY <1>3, <1>6 DEF work_create, voice_create, collection_create, tag_create,
                    work_update, voice_update, collection_update, tag_update, Verbs
<1>7. CASE arrangement_create(c) \/ arrangement_update(c)
  BY <1>3, <1>7 DEF arrangement_create, arrangement_update, LinkableWorks, Verbs
<1>8. CASE \/ arrangement_soft_delete(c) \/ voice_soft_delete(c)
           \/ collection_soft_delete(c) \/ tag_soft_delete(c)
           \/ arrangement_undelete(c) \/ voice_undelete(c)
           \/ collection_undelete(c) \/ tag_undelete(c)
  BY <1>3, <1>8
     DEF arrangement_soft_delete, voice_soft_delete, collection_soft_delete, tag_soft_delete,
         arrangement_undelete, voice_undelete, collection_undelete, tag_undelete, Verbs
<1> QED
  BY <1>4, <1>5, <1>6, <1>7, <1>8 DEF Serve

LEMMA TakesAsked ==
    ASSUME NEW c \in Clients, NEW verb \in Verbs, NEW r \in Rows,
           NEW other \in Tags \cup {none}, NEW sure \in BOOLEAN,
           Takes(c, verb, r, other, sure),
           sure => <<verb, r>> \in Unsure \ Early,
           owed' = IF <<verb, r>> \in Early THEN [owed EXCEPT ![<<verb, r>>] = @ - 1] ELSE owed
    PROVE  Asked(c)
  BY Zenon DEF Takes, Asked

LEMMA BeginAsked ==
    ASSUME NEW c \in Clients, NEW verb \in Verbs, NEW r \in Rows,
           verb = "delete" => r \notin Works, Begin(c, verb, r)
    PROVE  Asked(c)
<1>1. <<verb, r>> \notin Early
  BY DEF Early
<1> QED
  BY <1>1, TakesAsked DEF Begin

\* Only /v1's deletion of a work begins with an entry.
LEMMA HandlersBook ==
    ASSUME NEW c \in Clients, NEW r \in Rows, NEW v, V1(c, r, v) \/ Console(c, r, v)
    PROVE  Asked(c)
<1> USE DEF Verbs
<1>1. CASE \/ create_work(c, r) \/ create_arrangement(c, r) \/ create_voice(c, r)
           \/ create_collection(c, r) \/ create_tag(c, r)
           \/ update_work(c, r, v) \/ update_arrangement(c, r, v) \/ update_voice(c, r, v)
           \/ update_collection(c, r, v) \/ update_tag(c, r, v)
  BY <1>1, BeginAsked
     DEF create_work, create_arrangement, create_voice, create_collection, create_tag,
         update_work, update_arrangement, update_voice, update_collection, update_tag
<1>2. CASE \/ delete_arrangement(c, r, v) \/ delete_voice(c, r, v)
           \/ delete_collection(c, r, v) \/ delete_tag(c, r, v)
           \/ console_delete(c, r) \/ console_delete_voice(c, r)
           \/ console_delete_collection(c, r) \/ console_delete_tag(c, r)
  <2>1. r \notin Works /\ Begin(c, "delete", r)
    BY <1>2, RowsApart
       DEF delete_arrangement, delete_voice, delete_collection, delete_tag, console_delete,
           console_delete_voice, console_delete_collection, console_delete_tag,
           find_arrangement, find_voice, find_collection, find_tag
  <2> QED
    BY <2>1, BeginAsked
<1>3. CASE \/ undelete_arrangement(c, r) \/ undelete_voice(c, r)
           \/ undelete_collection(c, r) \/ undelete_tag(c, r) \/ console_undelete_tag(c, r)
  BY <1>3, BeginAsked
     DEF undelete_arrangement, undelete_voice, undelete_collection, undelete_tag, console_undelete_tag
<1>4. CASE delete_work(c, r, v)
  <2>1. <<"delete", r>> \in Early
    BY <1>4 DEF delete_work, find_work, Early
  <2> QED
    BY <1>4, <2>1, TakesAsked DEF delete_work
<1>5. CASE \/ console_update_work(c, r) \/ console_update_tag(c, r, v)
           \/ console_undelete_collection(c, r)
  <2>1. PICK verb \in {"update", "undelete"} :
            /\ Takes(c, verb, r, none, TRUE) /\ owed' = owed
            /\ verb = "update" => r \in Works \cup Tags
            /\ verb = "undelete" => r \in Collections
    BY <1>5 DEF console_update_work, console_update_tag, console_undelete_collection,
                find_work, find_tag, collection_including_deleted
  <2>2. <<verb, r>> \in Unsure \ Early
    BY <2>1 DEF Unsure, Early
  <2> QED
    BY <2>1, <2>2, TakesAsked
<1>6. CASE \/ console_create_work(c, r) \/ console_create(c, r) \/ console_create_voice(c, r)
           \/ console_create_collection(c, r) \/ console_create_tag(c, r)
           \/ console_update(c, r, v) \/ console_update_voice(c, r, v)
           \/ console_update_collection(c, r, v) \/ console_undelete(c, r)
           \/ console_undelete_voice(c, r)
  BY <1>1, <1>3, <1>6
     DEF console_create_work, console_create, console_create_voice,
         console_create_collection, console_create_tag, console_update, console_undelete,
         console_update_voice, console_undelete_voice, console_update_collection
<1> QED
  BY <1>1, <1>2, <1>3, <1>4, <1>5, <1>6 DEF V1, Console

LEMMA StepBooks ==
    ASSUME Inv, Next
    PROVE  \E c \in Clients : Asked(c) \/ Made(c) \/ Missed(c) \/ audit(c) \/ Drop(c)
<1>1. ASSUME NEW c \in Clients, NEW a \in Arrangements, NEW t \in Tags,
             \/ attach_tag(c, a, t) \/ detach_tag(c, a, t)
             \/ console_attach_tag(c, a, t) \/ console_detach_tag(c, a, t)
      PROVE  Asked(c)
  <2>1. PICK verb \in {"attach", "detach"} : Takes(c, verb, a, t, FALSE) /\ owed' = owed
    BY <1>1 DEF attach_tag, detach_tag, console_attach_tag, console_detach_tag
  <2>2. <<verb, a>> \notin Early
    BY DEF Early
  <2> QED
    BY <2>1, <2>2, TakesAsked, TablesOfRows DEF Verbs
<1> QED
  BY <1>1, HandlersBook, StatementsBook DEF Next

LEMMA DueFinite ==
    ASSUME NEW e
    PROVE  IsFiniteSet(Due(e)) /\ Cardinality(Due(e)) \in Nat
<1>1. Due(e) \in SUBSET Clients
  BY DEF Due
<1> QED
  BY <1>1, FS_Subset, FS_CardinalityType, FinitelyMany

\* c comes, goes or stays among those that owe e.
LEMMA DueChanges ==
    ASSUME NEW c \in Clients, NEW e, \A d \in Clients \ {c} : req'[d] = req[d]
    PROVE  /\ (c \in Due(e) <=> c \in Due(e)') => Cardinality(Due(e))' = Cardinality(Due(e))
           /\ c \in Due(e)' /\ c \notin Due(e) => Cardinality(Due(e))' = Cardinality(Due(e)) + 1
           /\ c \notin Due(e)' /\ c \in Due(e) => Cardinality(Due(e))' = Cardinality(Due(e)) - 1
<1>1. \A d \in Clients \ {c} : d \in Due(e)' <=> d \in Due(e)
  BY DEF Due, Entry
<1>2. (c \in Due(e) <=> c \in Due(e)') => Due(e)' = Due(e)
  BY <1>1 DEF Due
<1>3. c \in Due(e)' => Due(e)' = Due(e) \cup {c}
  BY <1>1 DEF Due
<1>4. c \notin Due(e)' => Due(e)' = Due(e) \ {c}
  BY <1>1 DEF Due
<1>5. /\ Cardinality(Due(e) \cup {c}) = IF c \in Due(e) THEN Cardinality(Due(e)) ELSE Cardinality(Due(e)) + 1
      /\ Cardinality(Due(e) \ {c}) = IF c \in Due(e) THEN Cardinality(Due(e)) - 1 ELSE Cardinality(Due(e))
  BY DueFinite, FS_AddElement, FS_RemoveElement
<1> QED
  BY <1>2, <1>3, <1>4, <1>5

\* What is owed follows who owes it.
Balanced(x) ==
    /\ x \notin Unsure => owed'[x] - owed[x] >= Cardinality(Due(x))' - Cardinality(Due(x))
    /\ drops' = 0 => /\ drops = 0
                     /\ owed'[x] - owed[x] <=
                           IF x \in Early THEN Cardinality(Due(x)) - Cardinality(Due(x))'
                           ELSE Cardinality(Due(x))' - Cardinality(Due(x))

LEMMA BalancedKeeps ==
    ASSUME Inv, Inv', Books, Promised', \A x \in Entries : Balanced(x)
    PROVE  Books'
<1>1. owed \in [Entries -> Int] /\ owed' \in [Entries -> Int]
  BY DEF Inv, TypeOK
<1>2. \A x \in Entries : Cardinality(Due(x)) \in Nat
  BY DueFinite
<1>3. ASSUME NEW x \in Entries PROVE Cardinality(Due(x))' \in Nat
  <2>1. Due(x)' \in SUBSET Clients
    BY DEF Due
  <2> QED
    BY <2>1, FS_Subset, FS_CardinalityType, FinitelyMany
<1>4. NoneTooMany'
  <2> SUFFICES ASSUME NEW x \in Entries \ Unsure PROVE owed'[x] >= Cardinality(Due(x))'
    BY DEF NoneTooMany
  <2>1. owed[x] >= Cardinality(Due(x))
    BY DEF Books, NoneTooMany
  <2>2. owed'[x] - owed[x] >= Cardinality(Due(x))' - Cardinality(Due(x))
    BY DEF Balanced
  <2> QED
    BY <1>1, <1>2, <1>3, <2>1, <2>2
<1>5. NoneMissing'
  <2> SUFFICES ASSUME drops' = 0, NEW x \in Entries
               PROVE  owed'[x] <= IF x \in Early THEN - (Cardinality(Due(x))') ELSE Cardinality(Due(x))'
    BY DEF NoneMissing
  <2>1. /\ drops = 0
        /\ owed'[x] - owed[x] <=
              IF x \in Early THEN Cardinality(Due(x)) - Cardinality(Due(x))'
              ELSE Cardinality(Due(x))' - Cardinality(Due(x))
    BY DEF Balanced
  <2>2. owed[x] <= IF x \in Early THEN - Cardinality(Due(x)) ELSE Cardinality(Due(x))
    BY <2>1 DEF Books, NoneMissing
  <2> QED
    BY <1>1, <1>2, <1>3, <2>1, <2>2
<1> QED
  BY <1>4, <1>5 DEF Books

LEMMA AskedBalances ==
    ASSUME Inv, Books, NEW c \in Clients, Asked(c)
    PROVE  Promised' /\ \A x \in Entries : Balanced(x)
<1>1. PICK verb \in Verbs, r \in Rows, other \in Tags \cup {none}, sure \in BOOLEAN :
          /\ req' = [req EXCEPT ![c] = [at |-> "write", do |-> verb, r |-> r,
                                        other |-> other, sure |-> sure]]
          /\ sure => <<verb, r>> \in Unsure \ Early
          /\ owed' = IF <<verb, r>> \in Early THEN [owed EXCEPT ![<<verb, r>>] = @ - 1] ELSE owed
  BY Zenon DEF Asked
<1>2. /\ req \in [Clients -> Request] /\ owed \in [Entries -> Int] /\ drops' = drops
      /\ req[c].at = "idle" /\ <<verb, r>> \in Entries
  BY RequestType DEF Inv, Asked, Entries
<1> DEFINE q == [at |-> "write", do |-> verb, r |-> r, other |-> other, sure |-> sure]
<1>3. q.at = "write" /\ q.do = verb /\ q.r = r /\ (q.sure <=> sure)
  OBVIOUS
<1>4. req'[c] = q /\ \A d \in Clients \ {c} : req'[d] = req[d]
  BY <1>1, <1>2
<1> HIDE DEF q
<1>5. Promised'
  BY <1>1, <1>3, <1>4 DEF Books, Promised, Entry
<1>6. ASSUME NEW x \in Entries PROVE Balanced(x)
  <2>1. c \notin Due(x)
    BY <1>2 DEF Due
  <2>2. c \in Due(x)' <=> x = <<verb, r>> /\ x \in Early
    BY <1>3, <1>4 DEF Due, Entry
  <2>3. /\ c \in Due(x)' => Cardinality(Due(x))' = Cardinality(Due(x)) + 1
        /\ c \notin Due(x)' => Cardinality(Due(x))' = Cardinality(Due(x))
    BY <1>4, <2>1, DueChanges
  <2>4. owed'[x] = IF x = <<verb, r>> /\ x \in Early THEN owed[x] - 1 ELSE owed[x]
    BY <1>1, <1>2
  <2>5. owed[x] \in Int /\ Cardinality(Due(x)) \in Nat /\ (x \in Early => x \in Unsure)
    BY <1>2, DueFinite DEF Early, Unsure
  <2> QED
    BY <1>2, <2>2, <2>3, <2>4, <2>5 DEF Balanced
<1> QED
  BY <1>5, <1>6

\* What c's request has become at the end of a step that it takes.
LEMMA EndsOrAudits ==
    ASSUME Inv, Books, NEW c \in Clients, req[c].at # "idle",
           \/ req' = [req EXCEPT ![c].at = "audit"]
           \/ req' = [req EXCEPT ![c] = Resting]
    PROVE  /\ \A d \in Clients \ {c} : req'[d] = req[d]
           /\ Promised' /\ Entry(c) \in Entries
           /\ req'[c].at \in {"audit", "idle"}
           /\ req'[c].at = "audit" => Entry(c)' = Entry(c)
<1>1. req \in [Clients -> Request] /\ Resting.at = "idle" /\ req[c].r \in Rows /\ req[c].do \in Verbs
  BY RequestType DEF Inv, Resting, Named
<1>2. CASE req' = [req EXCEPT ![c].at = "audit"]
  <2> DEFINE q == [req[c] EXCEPT !.at = "audit"]
  <2>1. /\ q.at = "audit" /\ q.do = req[c].do /\ q.r = req[c].r /\ q.sure = req[c].sure
    BY <1>1 DEF Request
  <2>2. req'[c] = q /\ \A d \in Clients \ {c} : req'[d] = req[d]
    BY <1>1, <1>2
  <2> HIDE DEF q
  <2> QED
    BY <1>1, <2>1, <2>2 DEF Books, Promised, Entry, Entries
<1>3. CASE req' = [req EXCEPT ![c] = Resting]
  <2>1. req'[c] = Resting /\ \A d \in Clients \ {c} : req'[d] = req[d]
    BY <1>1, <1>3
  <2> QED
    BY <1>1, <2>1 DEF Books, Promised, Entry, Entries
<1> QED
  BY <1>2, <1>3

LEMMA MadeBalances ==
    ASSUME Inv, Books, NEW c \in Clients, Made(c)
    PROVE  Promised' /\ \A x \in Entries : Balanced(x)
<1>1. /\ \A d \in Clients \ {c} : req'[d] = req[d]
      /\ Promised' /\ Entry(c) \in Entries
      /\ req'[c].at \in {"audit", "idle"}
      /\ req'[c].at = "audit" => Entry(c)' = Entry(c)
  BY EndsOrAudits DEF Made
<1>2. req'[c].at = "idle" => Entry(c) \in Early
  BY RequestType DEF Made, Inv, Request
<1>3. owed \in [Entries -> Int] /\ drops' = drops /\ req[c].at = "write"
  BY DEF Made, Inv, TypeOK
<1>4. ASSUME NEW x \in Entries PROVE Balanced(x)
  <2>1. c \in Due(x) <=> x = Entry(c) /\ x \in Early
    BY <1>3 DEF Due
  <2>2. c \in Due(x)' <=> x = Entry(c) /\ x \notin Early
    BY <1>1, <1>2 DEF Due
  <2>3. /\ (c \in Due(x) <=> c \in Due(x)') => Cardinality(Due(x))' = Cardinality(Due(x))
        /\ c \in Due(x)' /\ c \notin Due(x) => Cardinality(Due(x))' = Cardinality(Due(x)) + 1
        /\ c \notin Due(x)' /\ c \in Due(x) => Cardinality(Due(x))' = Cardinality(Due(x)) - 1
    BY <1>1, DueChanges
  <2>4. owed'[x] = IF x = Entry(c) THEN owed[x] + 1 ELSE owed[x]
    BY <1>1, <1>3 DEF Made
  <2>5. owed[x] \in Int /\ Cardinality(Due(x)) \in Nat
    BY <1>3, DueFinite
  <2> QED
    BY <1>3, <2>1, <2>2, <2>3, <2>4, <2>5 DEF Balanced
<1> QED
  BY <1>1, <1>4

LEMMA MissedBalances ==
    ASSUME Inv, Books, NEW c \in Clients, Missed(c)
    PROVE  Promised' /\ \A x \in Entries : Balanced(x)
<1>0. req \in [Clients -> Request] /\ req[c].sure \in BOOLEAN
  BY RequestType DEF Inv, Request
<1>1. \/ req[c].sure /\ req' = [req EXCEPT ![c].at = "audit"]
      \/ req' = [req EXCEPT ![c] = Resting]
  BY <1>0 DEF Missed, Nothing, Refused
<1>2. /\ \A d \in Clients \ {c} : req'[d] = req[d]
      /\ Promised' /\ Entry(c) \in Entries
      /\ req'[c].at \in {"audit", "idle"}
      /\ req'[c].at = "audit" => Entry(c)' = Entry(c)
  BY <1>1, EndsOrAudits DEF Missed
<1>3. req'[c].at = "audit" => Entry(c) \in Unsure \ Early
  <2>1. ~ req[c].sure => req'[c].at = "idle"
    BY <1>0, <1>1 DEF Resting
  <2> QED
    BY <2>1 DEF Books, Promised, Missed
<1>4. owed \in [Entries -> Int] /\ drops' = drops /\ req[c].at = "write" /\ owed' = owed
  BY DEF Missed, Nothing, Refused, Inv, TypeOK
<1>5. ASSUME NEW x \in Entries PROVE Balanced(x)
  <2>1. c \in Due(x) <=> x = Entry(c) /\ x \in Early
    BY <1>4 DEF Due
  <2>2. c \in Due(x)' => x = Entry(c) /\ x \in Unsure \ Early
    BY <1>2, <1>3 DEF Due
  <2>3. /\ (c \in Due(x) <=> c \in Due(x)') => Cardinality(Due(x))' = Cardinality(Due(x))
        /\ c \in Due(x)' /\ c \notin Due(x) => Cardinality(Due(x))' = Cardinality(Due(x)) + 1
        /\ c \notin Due(x)' /\ c \in Due(x) => Cardinality(Due(x))' = Cardinality(Due(x)) - 1
    BY <1>2, DueChanges
  <2>4. owed[x] \in Int /\ Cardinality(Due(x)) \in Nat /\ (x \in Early => x \in Unsure)
    BY <1>4, DueFinite DEF Early, Unsure
  <2> QED
    BY <1>4, <2>1, <2>2, <2>3, <2>4 DEF Balanced
<1> QED
  BY <1>2, <1>5

LEMMA LoggedBalances ==
    ASSUME Inv, Books, NEW c \in Clients, audit(c) \/ Drop(c)
    PROVE  Promised' /\ \A x \in Entries : Balanced(x)
<1>1. /\ \A d \in Clients \ {c} : req'[d] = req[d]
      /\ Promised' /\ Entry(c) \in Entries
  BY EndsOrAudits DEF audit, Drop
<1>2. req'[c].at = "idle" /\ owed \in [Entries -> Int] /\ drops \in Nat
  BY RequestType DEF audit, Drop, Inv, Resting
<1>3. ASSUME NEW x \in Entries PROVE Balanced(x)
  <2>1. c \notin Due(x)'
    BY <1>2 DEF Due
  <2>2. /\ c \notin Due(x) => Cardinality(Due(x))' = Cardinality(Due(x))
        /\ c \in Due(x) => Cardinality(Due(x))' = Cardinality(Due(x)) - 1
    BY <1>1, <2>1, DueChanges
  <2>3. owed[x] \in Int /\ Cardinality(Due(x)) \in Nat /\ (x \in Early => x \in Unsure)
    BY <1>2, DueFinite DEF Early, Unsure
  <2>4. CASE audit(c)
    <3>1. c \in Due(x) <=> x = Entry(c) /\ x \notin Early
      BY <2>4 DEF Due, audit
    <3>2. owed'[x] = IF x = Entry(c) THEN owed[x] - 1 ELSE owed[x]
      BY <1>1, <1>2, <2>4 DEF audit, Entry
    <3>3. drops' = drops
      BY <2>4 DEF audit
    <3> QED
      BY <2>2, <2>3, <3>1, <3>2, <3>3 DEF Balanced
  <2>5. CASE Drop(c)
    <3>1. owed'[x] = owed[x] /\ drops' # 0
      BY <1>2, <2>5 DEF Drop
    <3> QED
      BY <2>2, <2>3, <3>1 DEF Balanced
  <2> QED
    BY <2>4, <2>5
<1> QED
  BY <1>1, <1>3

\* The books are kept: whoever made a change owes its entry until it is written,
\* and nobody else owes one or has written one too many.
THEOREM BooksKept == Spec => []Books
<1>1. Init => Books
  <2> SUFFICES ASSUME Init PROVE Books
    OBVIOUS
  <2>1. \A c \in Clients : req[c].at = "idle"
    BY DEF Init, Resting
  <2>2. \A e \in Entries : owed[e] = 0 /\ Due(e) = {}
    BY <2>1 DEF Init, Due
  <2>3. \A e \in Entries : Cardinality(Due(e)) = 0
    BY <2>2, FS_EmptySet
  <2>4. Promised
    BY <2>1 DEF Promised
  <2>5. NoneTooMany /\ NoneMissing
    BY <2>2, <2>3 DEF NoneTooMany, NoneMissing
  <2> QED
    BY <2>4, <2>5 DEF Books
<1>2. Inv /\ Inv' /\ Books /\ [Next]_vars => Books'
  <2> SUFFICES ASSUME Inv, Inv', Books, [Next]_vars PROVE Books'
    OBVIOUS
  <2>1. CASE Next
    BY <2>1, StepBooks, AskedBalances, MadeBalances, MissedBalances, LoggedBalances, BalancedKeeps
  <2>2. CASE UNCHANGED vars
    BY <2>2 DEF vars, Books, Promised, NoneTooMany, NoneMissing, Due, Entry
  <2> QED
    BY <2>1, <2>2
<1> QED
  BY <1>1, <1>2, Inductive, PTL DEF Spec

\* Apart from the four kinds of entry that are written before or whether or not
\* a row changes, no entry names a change that was not made, whatever requests
\* race each other for the row.
THEOREM LogIsTruthful == Spec => []AuditTruthful
<1>1. Inv /\ Books => AuditTruthful
  <2> SUFFICES ASSUME Inv, Books, NEW e \in Entries \ Unsure PROVE owed[e] >= 0
    BY DEF AuditTruthful
  <2>1. owed[e] \in Int /\ Cardinality(Due(e)) \in Nat /\ owed[e] >= Cardinality(Due(e))
    BY DueFinite DEF Inv, TypeOK, Books, NoneTooMany
  <2> QED
    BY <2>1
<1> QED
  BY <1>1, Inductive, BooksKept, PTL

\* When no request is under way and none was dropped, every change has its entry.
THEOREM LogIsComplete == Spec => []AuditComplete
<1>1. Books => AuditComplete
  <2> SUFFICES ASSUME Books, drops = 0, \A c \in Clients : req[c].at = "idle", NEW e \in Entries
               PROVE  owed[e] <= 0
    BY DEF AuditComplete
  <2>1. Cardinality(Due(e)) = 0
    <3>1. Due(e) = {}
      BY DEF Due
    <3> QED
      BY <3>1, FS_EmptySet
  <2>2. owed[e] <= IF e \in Early THEN - Cardinality(Due(e)) ELSE Cardinality(Due(e))
    BY DEF Books, NoneMissing
  <2> QED
    BY <2>1, <2>2
<1> QED
  BY <1>1, BooksKept, PTL

(***************************************************************************)
(* Pages.  The id as a second key leaves a listing one order, in which a   *)
(* row comes after as many rows as are before it; pages of one size cover  *)
(* each position once.                                                     *)
(***************************************************************************)
Earlier(S, key, r) == {x \in S : Before(key, x, r)}

LEMMA BeforeIsTotal ==
    ASSUME NEW S \in SUBSET Rows, NEW key \in [S -> {0, 1}], NEW x \in S, NEW y \in S
    PROVE  /\ ~ (Before(key, x, y) /\ Before(key, y, x))
           /\ x # y => Before(key, x, y) \/ Before(key, y, x)
<1>1. /\ key[x] \in Int /\ key[y] \in Int
      /\ rank[x] \in Int /\ rank[y] \in Int /\ (rank[x] = rank[y] => x = y)
  BY Shapes
<1> QED
  BY <1>1 DEF Before

\* What SetToSeqs enumerates: every row of S at one position.
LEMMA EachOnce ==
    ASSUME NEW S, IsFiniteSet(S), NEW s \in SetToSeqs(S)
    PROVE  /\ Cardinality(S) \in Nat
           /\ s \in [1..Cardinality(S) -> S]
           /\ \A i, j \in 1..Cardinality(S) : s[i] = s[j] => i = j
           /\ \A r \in S : \E i \in 1..Cardinality(S) : s[i] = r
<1> DEFINE n == Cardinality(S)
<1>1. n \in Nat
  BY FS_CardinalityType
<1>2. s \in [1..n -> S] /\ \A i, j \in 1..n : i # j => s[i] # s[j]
  BY DEF SetToSeqs
<1>3. s \in Injection(1..n, S)
  BY <1>2 DEF Injection, IsInjective
<1>4. Cardinality(1..n) = n
  BY <1>1, FS_Interval
<1>5. s \in Surjection(1..n, S)
  BY <1>3, <1>4, FS_Injection
<1> QED
  BY <1>1, <1>2, <1>5 DEF Surjection

LEMMA Positions ==
    ASSUME NEW S \in SUBSET Rows, NEW key \in [S -> {0, 1}], NEW s \in Orders(S, key),
           NEW i \in 1..Cardinality(S)
    PROVE  i = Cardinality(Earlier(S, key, s[i])) + 1
<1> DEFINE n == Cardinality(S)
           B == Earlier(S, key, s[i])
           f == [j \in 1..(i - 1) |-> s[j]]
<1>1. IsFiniteSet(S)
  BY FS_Subset, FinitelyMany
<1>2. /\ n \in Nat /\ s \in [1..n -> S]
      /\ \A k, j \in 1..n : s[k] = s[j] => k = j
      /\ \A r \in S : \E k \in 1..n : s[k] = r
  BY <1>1, EachOnce DEF Orders
<1>3. \A k, j \in 1..n : k < j => ~ Before(key, s[j], s[k])
  BY <1>2 DEF Orders
<1>4. i - 1 \in Nat /\ 1..(i - 1) \subseteq 1..n
  BY <1>2
<1>5. \A j \in 1..(i - 1) : s[j] \in B
  BY <1>2, <1>3, <1>4, BeforeIsTotal DEF Earlier
<1>6. f \in [1..(i - 1) -> B]
  BY <1>5
<1>7. \A k, j \in 1..(i - 1) : f[k] = f[j] => k = j
  BY <1>2, <1>4
<1>8. ASSUME NEW x \in B PROVE \E j \in 1..(i - 1) : f[j] = x
  <2>1. x \in S /\ Before(key, x, s[i])
    BY DEF Earlier
  <2>2. PICK j \in 1..n : s[j] = x
    BY <1>2, <2>1
  <2>3. j # i
    BY <1>2, <2>1, <2>2, BeforeIsTotal
  <2>4. ~ (i < j)
    BY <1>3, <2>1, <2>2
  <2>5. j \in 1..(i - 1)
    BY <1>2, <2>3, <2>4
  <2> QED
    BY <2>2, <2>5
<1> HIDE DEF f, B
<1>9. f \in Bijection(1..(i - 1), B)
  BY <1>6, <1>7, <1>8 DEF Bijection, Injection, Surjection, IsInjective
<1>10. Cardinality(B) = i - 1
  BY <1>4, <1>9, FS_CountingElements DEF ExistsBijection
<1> QED
  BY <1>10 DEF B

LEMMA Quotients ==
    ASSUME NEW n \in Nat, NEW d \in Nat \ {0}
    PROVE  n \div d \in Nat /\ (n \div d) * d <= n /\ n < (n \div d) * d + d
  OBVIOUS

LEMMA Multiples ==
    ASSUME NEW p \in Nat, NEW q \in Nat, NEW d \in Nat, p <= q
    PROVE  p * d <= q * d
  OBVIOUS

\* Pages of one size have every position once.
LEMMA OnePage ==
    ASSUME NEW n \in Nat, NEW d \in Nat \ {0}, NEW k \in 1..n
    PROVE  \E q \in 1..((n + d - 1) \div d) :
               \A p \in 1..((n + d - 1) \div d) :
                   ((p - 1) * d < k /\ k <= (p - 1) * d + d) <=> p = q
<1> DEFINE last == (n + d - 1) \div d
           m == (k - 1) \div d
<1>1. /\ n + d - 1 \in Nat /\ last \in Nat
      /\ last * d <= n + d - 1 /\ n + d - 1 < last * d + d
  <2>1. n + d - 1 \in Nat
    OBVIOUS
  <2> QED
    BY <2>1, Quotients
<1>2. m \in Nat /\ m * d <= k - 1 /\ k - 1 < m * d + d
  <2>1. k - 1 \in Nat
    OBVIOUS
  <2> QED
    BY <2>1, Quotients
<1> HIDE DEF last, m
<1>3. m < last
  <2> SUFFICES ASSUME last <= m PROVE FALSE
    BY <1>1, <1>2
  <2>1. last * d <= m * d
    BY <1>1, <1>2, Multiples
  <2>2. last * d \in Int /\ m * d \in Int
    BY <1>1, <1>2
  <2> HIDE DEF last, m
  <2> QED
    BY <1>1, <1>2, <2>1, <2>2
<1>4. m + 1 \in 1..last
  BY <1>1, <1>2, <1>3
<1>5. ASSUME NEW p \in 1..last
      PROVE  ((p - 1) * d < k /\ k <= (p - 1) * d + d) <=> p = m + 1
  <2>1. p - 1 \in Nat /\ (p - 1) * d \in Int /\ m * d \in Int
    BY <1>1, <1>2
  <2>2. CASE p = m + 1
    <3>1. (p - 1) * d = m * d
      BY <1>2, <2>2
    <3> QED
      BY <1>2, <2>1, <2>2, <3>1
  <2>3. CASE p - 1 < m
    <3>1. p <= m /\ p \in Nat
      BY <1>1, <1>2, <2>1, <2>3
    <3>2. p * d <= m * d
      BY <1>2, <3>1, Multiples
    <3>3. p * d = (p - 1) * d + d
      BY <3>1
    <3> QED
      BY <1>2, <2>1, <2>3, <3>2, <3>3
  <2>4. CASE m < p - 1
    <3>1. m + 1 <= p - 1 /\ m + 1 \in Nat
      BY <1>1, <1>2, <2>1, <2>4
    <3>2. (m + 1) * d <= (p - 1) * d
      BY <2>1, <3>1, Multiples
    <3>3. (m + 1) * d = m * d + d
      BY <1>2
    <3> QED
      BY <1>2, <2>1, <2>4, <3>2, <3>3
  <2> QED
    BY <1>1, <1>2, <2>2, <2>3, <2>4
<1> QED
  BY <1>4, <1>5 DEF last

\* Whoever walks the pages of a listing that does not change sees every row of
\* it once: for any catalog, any column, any limit and any largest page, and
\* whichever order the query gives to rows that are equal in that column.
THEOREM PagesCoverOnce == Spec => []PagesPartition
<1>1. ASSUME NEW S \in SUBSET Rows, NEW key \in [S -> {0, 1}], NEW limit \in 0..(MaxPage + 1)
      PROVE  LET size == resolve(limit)
                 last == (Cardinality(S) + size - 1) \div size
             IN \A order \in [1..last -> Orders(S, key)], r \in S :
                    Cardinality({p \in 1..last : r \in Page(order[p], limit, (p - 1) * size)}) = 1
  <2> DEFINE size == resolve(limit)
             last == (Cardinality(S) + size - 1) \div size
  <2> SUFFICES ASSUME NEW order \in [1..last -> Orders(S, key)], NEW r \in S
               PROVE  Cardinality({p \in 1..last : r \in Page(order[p], limit, (p - 1) * size)}) = 1
    BY Zenon
  <2>a. size = resolve(limit)
    OBVIOUS
  <2> HIDE DEF size
  <2>b. last = (Cardinality(S) + size - 1) \div size
    OBVIOUS
  <2> HIDE DEF last
  <2>1. size \in Nat \ {0}
    BY <2>a, <2>b, Shapes DEF resolve
  <2> DEFINE n == Cardinality(S)
             k == Cardinality(Earlier(S, key, r)) + 1
  <2>2. IsFiniteSet(S) /\ n \in Nat
    BY FS_Subset, FS_CardinalityType, FinitelyMany
  <2>3. ASSUME NEW s \in Orders(S, key)
        PROVE  /\ k \in 1..n
               /\ \A offset \in Int : r \in Page(s, limit, offset) <=> offset < k /\ k <= offset + size
    <3>1. /\ s \in [1..n -> S] /\ \A i, j \in 1..n : s[i] = s[j] => i = j
          /\ \E i \in 1..n : s[i] = r
      BY <2>2, EachOnce DEF Orders
    <3>2. PICK i \in 1..n : s[i] = r
      BY <3>1
    <3>3. i = k
      BY <3>2, Positions
    <3> HIDE DEF k, n
    <3> QED
      BY <2>a, <2>b, <3>1, <3>2, <3>3 DEF Page
  <2> HIDE DEF k, n
  <2>4. IsFiniteSet(1..last) /\ last \in Int
    <3>1. n + size - 1 \in Nat
      BY <2>1, <2>2
    <3>2. last \in Int
      BY <2>a, <2>b, <2>1, <3>1, Quotients DEF n
    <3> QED
      BY <3>2, FS_Interval
  <2>5. k \in 1..n
    <3>1. n >= 1
      <4>1. n # 0
        BY <2>2, FS_EmptySet DEF n
      <4> QED
        BY <2>2, <4>1
    <3>2. last \in Nat /\ n + size - 1 < last * size + size
      <4>1. n + size - 1 \in Nat
        BY <2>1, <2>2
      <4>2. last = (n + size - 1) \div size
        BY <2>a, <2>b DEF n
      <4> QED
        BY <2>1, <4>1, <4>2, Quotients
    <3>3. last # 0
      BY <2>1, <2>2, <3>1, <3>2
    <3>4. 1 \in 1..last
      BY <3>2, <3>3
    <3>5. order[1] \in Orders(S, key)
      BY <3>4
    <3> QED
      BY <2>3, <3>5
  <2>6. PICK q \in 1..last :
            \A p \in 1..last : ((p - 1) * size < k /\ k <= (p - 1) * size + size) <=> p = q
    <3>1. last = (n + size - 1) \div size
      BY <2>a, <2>b DEF n
    <3>2. \E q \in 1..((n + size - 1) \div size) :
              \A p \in 1..((n + size - 1) \div size) :
                  ((p - 1) * size < k /\ k <= (p - 1) * size + size) <=> p = q
      BY <2>1, <2>2, <2>5, OnePage, Zenon
    <3> QED
      BY <3>1, <3>2, Zenon
  <2>7. \A p \in 1..last : (p - 1) * size \in Int
    BY <2>1, <2>4
  <2>8. {p \in 1..last : r \in Page(order[p], limit, (p - 1) * size)} = {q}
    BY <2>3, <2>6, <2>7
  <2> QED
    BY <2>8, FS_Singleton
<1>2. ASSUME NEW S \in {list_works, list_arrangements, list_collections, list_tags}
                        \cup {list_voices(a) : a \in Arrangements}
      PROVE  S \subseteq Rows
  BY DEF list_works, list_arrangements, list_collections, list_tags, list_voices,
         Rows, Tables
<1>3. PagesPartition
  BY <1>1, <1>2, Zenon DEF PagesPartition
<1> QED
  BY <1>3, PTL
=============================================================================
