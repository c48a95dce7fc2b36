------------------------- MODULE Organizations_proofs -------------------------
(***************************************************************************)
(* Organizations: the types of its state, that a deletion over /v1 leaves  *)
(* its audit entry, that no row ever refers to one that is gone, that an   *)
(* organization leaves with everything below it at once, that its deletion *)
(* is refused only when it was overtaken, and who can deadlock with it,    *)
(* for any rows that fit the tables and any number of requests.            *)
(*                                                                         *)
(* References hold because of the locks: what an insert has locked nobody  *)
(* deletes (`Apart'), and what a deletion has taken no row that stays      *)
(* refers to once its statement has ended (`Cut').  The rest follows from  *)
(* how far each request has come (`Course'): a cascade has taken rows of   *)
(* its own organization only, of the tables up to its statement, and all   *)
(* of those unless a row was added meanwhile; an insert has locked the     *)
(* first of the rows it refers to.                                         *)
(***************************************************************************)
EXTENDS Organizations, SequenceTheorems, TLAPS

Places == {"idle", "found", "insert", "statement", "rows", "commit",
           "audit", "refused", "victim"}
Statements == {"part_assignment", "collection_item", "collection", "arrangement_tag", "tag",
               "global_annotation", "file", "voice", "arrangement", "membership", "row"}
Requests ==
    [do : Doing \cup {"none"}, at : Places, row : Rows \cup {none}, plan : Seq(Statements),
     todo : Seq(Rows), rows : SUBSET Rows, taken : SUBSET Rows, share : SUBSET Rows,
     gone : SUBSET Rows, raced : BOOLEAN]

Inserting == {"create_org", "create_user", "add"}
Deleting == {"delete_org", "delete_org_submit", "delete_user", "remove"}

\* What a request says of itself.
Shaped(t) ==
    /\ t \in Requests
    /\ t.at = "idle" => t = Idle
    /\ t.at # "idle" => t.row \in Rows /\ t.do \in Doing
    /\ t.do \in Doing \ {"add", "remove"} => t.row \in Orgs \cup Users
    /\ t.do \in {"delete_user", "remove"} => t.row \notin Orgs
    /\ t.at = "audit" => t.do \notin {"add", "remove"}
    /\ t.do \in Inserting => t.row \in born
    /\ t.at = "insert" => t.do \in Inserting
    /\ t.at \in {"statement", "rows", "commit"} => t.do \in Deleting
    /\ t.at \in {"statement", "rows"} => t.plan # << >>

\* What it holds: an insert holds the rows it refers to, as far as it has come,
\* and a deletion the rows it has taken.
Holds(t) ==
    /\ t.share \subseteq there /\ t.gone \subseteq there /\ t.taken \subseteq t.gone
    /\ t.share # {} => t.at = "insert"
    /\ t.gone # {} => t.at \in {"statement", "rows", "commit"}
    /\ t.at = "insert" => Range(refs[t.row]) \subseteq t.share \cup Range(t.todo)

\* No row that stays refers to one that the ended statements have taken.
Cut(t) ==
    LET done == IF t.at = "rows" THEN t.gone \ t.taken ELSE t.gone
    IN \A r \in there \ t.gone : Range(refs[r]) \cap done = {}

\* /v1 has written the entry of a deletion that is under way.
Written(t) ==
    t.do = "delete_org" /\ t.at \in {"statement", "rows", "commit"} => <<"delete", t.row>> \in log

Good(t) == Shaped(t) /\ Holds(t) /\ Cut(t) /\ Written(t)

\* Nobody holds what another one has taken.
Apart ==
    \A c, d \in Clients : c # d => tx[c].gone \cap (tx[d].share \cup tx[d].gone) = {}

\* Every row refers to rows that are there.
ReferencesHold == \A r \in there : Range(refs[r]) \subseteq there

Typed ==
    /\ there \subseteq born /\ born \subseteq Rows
    /\ log \subseteq {"create", "update", "delete"} \X (Orgs \cup Users)
    /\ begun \in 0..MaxRequests
    /\ removed \in [Orgs -> {"no", "delete_org", "delete_org_submit"}]

Inv ==
    /\ Typed /\ ReferencesHold /\ Apart /\ RemovalRecorded
    /\ tx \in [Clients -> Requests] /\ \A c \in Clients : Good(tx[c])

LEMMA Schema ==
    /\ Orgs \subseteq Rows /\ Users \subseteq Rows /\ none \notin Rows /\ MaxRequests \in Nat
    /\ \A r \in Rows : refs[r] \in Seq(Rows)
    /\ \A S \in Populations : S \subseteq Rows /\ \A r \in S : Range(refs[r]) \subseteq S
  BY RowsFit DEF Orgs, Users, Of

LEMMA Ranges ==
    ASSUME NEW s \in Seq(Rows)
    PROVE  /\ s # << >> => /\ Range(s) \subseteq {Head(s)} \cup Range(Tail(s))
                         /\ Head(s) \in Rows /\ Tail(s) \in Seq(Rows)
           /\ s = << >> => Range(s) = {}
           /\ Range(s) \subseteq Rows
  <1>1. Range(s) = {s[i] : i \in 1..Len(s)} /\ Len(s) \in Nat
    BY DEF Range
  <1>2. CASE s # << >>
    <2>1. /\ Head(s) = s[1] /\ Tail(s) \in Seq(Rows) /\ Len(Tail(s)) = Len(s) - 1
          /\ \A i \in 1..Len(s) - 1 : Tail(s)[i] = s[i + 1]
      BY <1>2, HeadTailProperties
    <2>2. Range(Tail(s)) = {Tail(s)[i] : i \in 1..Len(s) - 1}
      <3> DEFINE u == Tail(s)
      <3>1. u \in Seq(Rows) /\ Len(u) = Len(s) - 1
        BY <2>1
      <3> HIDE DEF u
      <3>2. DOMAIN u = 1..Len(s) - 1
        BY <3>1
      <3>3. Range(u) = {u[i] : i \in 1..Len(s) - 1}
        BY <3>2 DEF Range
      <3> QED BY <3>3 DEF u
    <2>3. ASSUME NEW i \in 1..Len(s)
          PROVE  s[i] = Head(s) \/ s[i] \in Range(Tail(s))
      <3>1. CASE i = 1
        BY <2>1, <3>1
      <3>2. CASE i # 1
        <4>1. i - 1 \in 1..Len(s) - 1
          BY <1>1, <3>2
        <4>2. Tail(s)[i - 1] = s[i]
          BY <2>1, <4>1
        <4> QED BY <2>2, <4>1, <4>2
      <3> QED BY <3>1, <3>2
    <2>4. Head(s) \in Rows
      BY <1>2, <2>1
    <2> QED BY <1>1, <1>2, <2>1, <2>3, <2>4
  <1>3. CASE s = << >>
    BY <1>1, <1>3
  <1> QED BY <1>1, <1>2, <1>3

LEMMA Bare ==
    ASSUME NEW do \in Doing, NEW r \in Rows, NEW at \in Places,
           NEW plan \in Seq(Statements), NEW raced \in BOOLEAN
    PROVE  Request(do, r, at, plan, raced) \in Requests
  BY DEF Request, Requests

LEMMA Resting ==
    /\ Idle \in Requests /\ Good(Idle) /\ Idle.at = "idle" /\ Idle.share = {} /\ Idle.gone = {}
  <1>1. /\ Idle.do = "none" /\ Idle.at = "idle" /\ Idle.row = none /\ Idle.share = {}
        /\ Idle.gone = {} /\ Idle.taken = {}
    BY DEF Idle, Request
  <1>2. Idle \in Requests
    BY DEF Idle, Request, Requests, Places
  <1>3. Shaped(Idle)
    BY <1>1, <1>2 DEF Shaped, Doing, Inserting
  <1>4. Holds(Idle) /\ Cut(Idle) /\ Written(Idle)
    BY <1>1 DEF Holds, Cut, Written
  <1> QED BY <1>1, <1>2, <1>3, <1>4 DEF Good

\* The invariant holds at the start.
THEOREM Initially == Init => Inv
  <1> SUFFICES ASSUME Init PROVE Inv
    OBVIOUS
  <1>1. tx = [c \in Clients |-> Idle]
    BY DEF Init
  <1>2. Typed /\ ReferencesHold
    BY Schema DEF Init, Typed, ReferencesHold
  <1>3. Apart
    BY <1>1, Resting DEF Apart
  <1>4. RemovalRecorded
    BY DEF Init, RemovalRecorded
  <1> QED BY <1>1, <1>2, <1>3, <1>4, Resting DEF Inv

(***************************************************************************)
(* What a step leaves of the requests it is not about.                     *)
(***************************************************************************)
LEMMA Elsewhere ==
    ASSUME Inv, NEW d \in Clients, tx'[d] = tx[d], there' \subseteq there, born \subseteq born',
           log \subseteq log', (tx[d].share \cup tx[d].gone) \cap (there \ there') = {}
    PROVE  Good(tx[d])'
  <1> DEFINE t == tx[d]
  <1>1. Good(t) /\ t \in Requests
    BY DEF Inv
  <1>2. Shaped(tx[d])'
    BY <1>1 DEF Good, Shaped
  <1>3. Holds(tx[d])'
    BY <1>1 DEF Good, Holds
  <1>4. Cut(tx[d])'
    BY <1>1 DEF Good, Cut
  <1>5. Written(tx[d])'
    BY <1>1 DEF Good, Written
  <1> QED BY <1>2, <1>3, <1>4, <1>5 DEF Good

\* A step of one request that inserts and deletes nothing.
LEMMA Plain ==
    ASSUME Inv, NEW c \in Clients, NEW t, tx' = [tx EXCEPT ![c] = t],
           UNCHANGED <<there, removed>>, born \subseteq born', born' \subseteq Rows,
           log \subseteq log', log' \subseteq {"create", "update", "delete"} \X (Orgs \cup Users),
           begun' \in 0..MaxRequests, t \in Requests, Good(t)',
           \A d \in Clients \ {c} : /\ t.gone \cap (tx[d].share \cup tx[d].gone) = {}
                                     /\ t.share \cap tx[d].gone = {}
    PROVE  Inv'
  <1>1. \A d \in Clients \ {c} : tx'[d] = tx[d]
    BY DEF Inv
  <1>2. \A d \in Clients \ {c} : Good(tx[d])'
    BY <1>1, Elsewhere
  <1>3. tx'[c] = t /\ tx' \in [Clients -> Requests]
    BY DEF Inv
  <1>4. Good(tx[c])'
    BY <1>3 DEF Good, Shaped, Holds, Cut, Written
  <1>5. Apart'
    BY <1>1, <1>3 DEF Inv, Apart
  <1>6. Typed' /\ ReferencesHold' /\ RemovalRecorded'
    BY DEF Inv, Typed, ReferencesHold, RemovalRecorded
  <1> QED BY <1>2, <1>3, <1>4, <1>5, <1>6 DEF Inv

(***************************************************************************)
(* The fields a step sets.                                                 *)
(***************************************************************************)
LEMMA SetAt ==
    ASSUME NEW t \in Requests, NEW x \in Places, NEW e, e = [t EXCEPT !.at = x]
    PROVE  /\ e \in Requests /\ e.at = x
           /\ e.do = t.do /\ e.row = t.row /\ e.plan = t.plan /\ e.todo = t.todo /\ e.rows = t.rows
           /\ e.taken = t.taken /\ e.share = t.share /\ e.gone = t.gone /\ e.raced = t.raced
  BY DEF Requests

LEMMA SetPlan ==
    ASSUME NEW t \in Requests, NEW x \in Seq(Statements), NEW e, e = [t EXCEPT !.plan = x]
    PROVE  /\ e \in Requests /\ e.plan = x
           /\ e.do = t.do /\ e.at = t.at /\ e.row = t.row /\ e.todo = t.todo /\ e.rows = t.rows
           /\ e.taken = t.taken /\ e.share = t.share /\ e.gone = t.gone /\ e.raced = t.raced
  BY DEF Requests

LEMMA SetTodo ==
    ASSUME NEW t \in Requests, NEW x \in Seq(Rows), NEW e, e = [t EXCEPT !.todo = x]
    PROVE  /\ e \in Requests /\ e.todo = x
           /\ e.do = t.do /\ e.at = t.at /\ e.row = t.row /\ e.plan = t.plan /\ e.rows = t.rows
           /\ e.taken = t.taken /\ e.share = t.share /\ e.gone = t.gone /\ e.raced = t.raced
  BY DEF Requests

LEMMA SetRows ==
    ASSUME NEW t \in Requests, NEW x \in SUBSET Rows, NEW e, e = [t EXCEPT !.rows = x]
    PROVE  /\ e \in Requests /\ e.rows = x
           /\ e.do = t.do /\ e.at = t.at /\ e.row = t.row /\ e.plan = t.plan /\ e.todo = t.todo
           /\ e.taken = t.taken /\ e.share = t.share /\ e.gone = t.gone /\ e.raced = t.raced
  BY DEF Requests

LEMMA SetTaken ==
    ASSUME NEW t \in Requests, NEW x \in SUBSET Rows, NEW e, e = [t EXCEPT !.taken = x]
    PROVE  /\ e \in Requests /\ e.taken = x
           /\ e.do = t.do /\ e.at = t.at /\ e.row = t.row /\ e.plan = t.plan /\ e.todo = t.todo
           /\ e.rows = t.rows /\ e.share = t.share /\ e.gone = t.gone /\ e.raced = t.raced
  BY DEF Requests

LEMMA SetShare ==
    ASSUME NEW t \in Requests, NEW x \in SUBSET Rows, NEW e, e = [t EXCEPT !.share = x]
    PROVE  /\ e \in Requests /\ e.share = x
           /\ e.do = t.do /\ e.at = t.at /\ e.row = t.row /\ e.plan = t.plan /\ e.todo = t.todo
           /\ e.rows = t.rows /\ e.taken = t.taken /\ e.gone = t.gone /\ e.raced = t.raced
  BY DEF Requests

LEMMA SetGone ==
    ASSUME NEW t \in Requests, NEW x \in SUBSET Rows, NEW e, e = [t EXCEPT !.gone = x]
    PROVE  /\ e \in Requests /\ e.gone = x
           /\ e.do = t.do /\ e.at = t.at /\ e.row = t.row /\ e.plan = t.plan /\ e.todo = t.todo
           /\ e.rows = t.rows /\ e.taken = t.taken /\ e.share = t.share /\ e.raced = t.raced
  BY DEF Requests

LEMMA SetRaced ==
    ASSUME NEW t \in Requests, NEW x \in BOOLEAN, NEW e, e = [t EXCEPT !.raced = x]
    PROVE  /\ e \in Requests /\ e.raced = x
           /\ e.do = t.do /\ e.at = t.at /\ e.row = t.row /\ e.plan = t.plan /\ e.todo = t.todo
           /\ e.rows = t.rows /\ e.taken = t.taken /\ e.share = t.share /\ e.gone = t.gone
  BY DEF Requests

(***************************************************************************)
(* The first step of a handler, the end of a transaction, and the answer.  *)
(***************************************************************************)
LEMMA Begins ==
    ASSUME Inv, NEW c \in Clients, NEW do \in Doing, NEW r \in Rows,
           NEW at \in {"found", "statement"}, NEW plan \in Seq(Statements),
           Begin(c, do, r, at, plan), UNCHANGED <<there, removed>>,
           born \subseteq born', born' \subseteq Rows,
           log \subseteq log', log' \subseteq {"create", "update", "delete"} \X (Orgs \cup Users),
           do \in Doing \ {"add", "remove"} => r \in Orgs \cup Users,
           do \in {"delete_user", "remove"} => r \notin Orgs,
           do \in Inserting => r \in born',
           at = "statement" => do \in Deleting /\ plan # << >>,
           do = "delete_org" => <<"delete", r>> \in log'
    PROVE  Inv'
  <1>2. PICK t : t = Request(do, r, at, plan, FALSE)
    OBVIOUS
  <1>1. tx' = [tx EXCEPT ![c] = t] /\ begun' \in 0..MaxRequests
    BY <1>2, Schema DEF Begin, Go, Inv, Typed
  <1>3. /\ t \in Requests /\ t.do = do /\ t.at = at /\ t.row = r
        /\ t.share = {} /\ t.gone = {} /\ t.taken = {} /\ t.plan = plan
    <2>1. at \in Places /\ FALSE \in BOOLEAN
      BY DEF Places
    <2>2. t \in Requests
      BY <1>2, <2>1, Bare, Zenon
    <2> QED BY <1>2, <2>2 DEF Request
  <1>4. Shaped(t)'
    BY <1>3 DEF Shaped
  <1>5. Holds(t)' /\ Cut(t)' /\ Written(t)'
    BY <1>3 DEF Holds, Cut, Written
  <1>6. Good(t)'
    BY <1>4, <1>5 DEF Good
  <1> QED BY <1>1, <1>3, <1>6, Plain

LEMMA Ended ==
    ASSUME Inv, NEW c \in Clients, NEW at \in {"refused", "victim", "audit"}, Ends(c, at),
           UNCHANGED <<there, removed, born, log, begun>>, tx[c].at # "idle",
           at = "audit" => tx[c].do \notin {"add", "remove"}
    PROVE  Inv'
  <1> DEFINE q == tx[c]
  <1>2. PICK t : t = Request(q.do, q.row, at, << >>, q.raced)
    OBVIOUS
  <1>1. tx' = [tx EXCEPT ![c] = t]
    BY <1>2 DEF Ends, Go
  <1>3. Shaped(q) /\ q.do \in Doing /\ q.row \in Rows /\ q.raced \in BOOLEAN
    BY DEF Inv, Good, Shaped, Requests
  <1>4. /\ t \in Requests /\ t.do = q.do /\ t.at = at /\ t.row = q.row
        /\ t.share = {} /\ t.gone = {} /\ t.taken = {}
    <2>1. at \in Places /\ << >> \in Seq(Statements)
      BY DEF Places
    <2>2. t \in Requests
      BY <1>2, <1>3, <2>1, Bare, Zenon
    <2> QED BY <1>2, <2>2 DEF Request
  <1>5. Shaped(t)'
    BY <1>3, <1>4 DEF Shaped
  <1>6. Holds(t)' /\ Cut(t)' /\ Written(t)'
    BY <1>4 DEF Holds, Cut, Written
  <1>7. /\ born' \subseteq Rows /\ begun' \in 0..MaxRequests
        /\ log' \subseteq {"create", "update", "delete"} \X (Orgs \cup Users)
    BY DEF Inv, Typed
  <1>8. Good(t)'
    BY <1>5, <1>6 DEF Good
  <1> QED BY <1>1, <1>4, <1>7, <1>8, Plain

LEMMA Rests ==
    ASSUME Inv, NEW c \in Clients, tx' = [tx EXCEPT ![c] = Idle],
           UNCHANGED <<there, removed, born, begun>>,
           log \subseteq log', log' \subseteq {"create", "update", "delete"} \X (Orgs \cup Users)
    PROVE  Inv'
  <1>1. born' \subseteq Rows /\ begun' \in 0..MaxRequests
    BY DEF Inv, Typed
  <1>2. /\ Idle.do = "none" /\ Idle.at = "idle" /\ Idle.share = {}
        /\ Idle.gone = {} /\ Idle.taken = {}
    BY DEF Idle, Request
  <1>3. Shaped(Idle)'
    BY <1>2, Resting DEF Shaped, Doing, Inserting
  <1>4. Holds(Idle)' /\ Cut(Idle)' /\ Written(Idle)'
    BY <1>2 DEF Holds, Cut, Written
  <1>5. Good(Idle)' /\ Idle \in Requests
    BY <1>3, <1>4, Resting DEF Good
  <1> QED BY <1>1, <1>2, <1>5, Plain

LEMMA Handlers ==
    ASSUME Inv, NEW c \in Clients,
           \/ create_org(c) \/ create_org_submit(c) \/ create_user(c) \/ create_user_submit(c)
           \/ create_admin(c) \/ update_org(c) \/ delete_org(c) \/ delete_org_submit(c) \/ delete_user(c)
           \/ delete_user_submit(c) \/ Add(c) \/ RemoveBelow(c)
    PROVE  Inv'
  <1> USE Schema DEF Inserting, Deleting
  <1>1. born \subseteq Rows /\ log \subseteq {"create", "update", "delete"} \X (Orgs \cup Users)
        /\ there \subseteq Rows
    BY DEF Inv, Typed
  <1>2. /\ << >> \in Seq(Statements) /\ <<"row">> \in Seq(Statements) /\ <<"row">> # << >>
        /\ Cascade \in Seq(Statements) /\ Cascade # << >>
    <2>1. << >> \in Seq(Statements) /\ <<"row">> \in Seq(Statements)
      BY DEF Statements
    <2>2. Cascade \in Seq(Statements)
      BY DEF Cascade, Statements
    <2>3. <<"row">> # << >> /\ Cascade # << >>
      BY DEF Cascade
    <2> QED BY <2>1, <2>2, <2>3
  <1>3. CASE create_org(c) \/ create_org_submit(c)
    <2>1. PICK o \in Orgs \ born : Begin(c, "create_org", o, "found", << >>) /\ born' = born \cup {o}
      BY <1>3 DEF create_org, create_org_submit
    <2>2. UNCHANGED <<there, log, removed>>
      BY <1>3 DEF create_org, create_org_submit
    <2> QED BY <1>1, <1>2, <2>1, <2>2, Begins DEF Doing
  <1>4. CASE create_user(c) \/ create_user_submit(c) \/ create_admin(c)
    <2>1. PICK u \in Users \ born : Begin(c, "create_user", u, "found", << >>) /\ born' = born \cup {u}
      BY <1>4 DEF create_user, create_user_submit, create_admin
    <2>2. UNCHANGED <<there, log, removed>>
      BY <1>4 DEF create_user, create_user_submit, create_admin
    <2> QED BY <1>1, <1>2, <2>1, <2>2, Begins DEF Doing
  <1>5. CASE update_org(c)
    <2>1. PICK o \in Orgs : Begin(c, "update_org", o, "found", << >>)
      BY <1>5 DEF update_org
    <2>2. UNCHANGED <<there, born, log, removed>>
      BY <1>5 DEF update_org
    <2> QED BY <1>1, <1>2, <2>1, <2>2, Begins DEF Doing
  <1>6. CASE delete_org(c)
    <2>1. PICK o \in Orgs : Begin(c, "delete_org", o, "statement", Cascade)
                            /\ log' = log \cup {<<"delete", o>>}
      BY <1>6 DEF delete_org
    <2>2. UNCHANGED <<there, born, removed>>
      BY <1>6 DEF delete_org
    <2>3. <<"delete", o>> \in {"create", "update", "delete"} \X (Orgs \cup Users)
      OBVIOUS
    <2> QED BY <1>1, <1>2, <2>1, <2>2, <2>3, Begins DEF Doing
  <1>7. CASE delete_org_submit(c)
    <2>1. PICK o \in Orgs : Begin(c, "delete_org_submit", o, "statement", Cascade)
      BY <1>7 DEF delete_org_submit
    <2>2. UNCHANGED <<there, born, log, removed>>
      BY <1>7 DEF delete_org_submit
    <2> QED BY <1>1, <1>2, <2>1, <2>2, Begins DEF Doing
  <1>8. CASE delete_user(c) \/ delete_user_submit(c)
    <2>1. PICK u \in Users : Begin(c, "delete_user", u, "statement", <<"row">>)
      BY <1>8 DEF delete_user, delete_user_submit
    <2>3. u \notin Orgs
      BY DEF Users, Orgs, Of
    <2>2. UNCHANGED <<there, born, log, removed>>
      BY <1>8 DEF delete_user, delete_user_submit
    <2> QED BY <1>1, <1>2, <2>1, <2>2, <2>3, Begins DEF Doing
  <1>9. CASE Add(c)
    <2>1. PICK r \in Rows : Begin(c, "add", r, "found", << >>) /\ born' = born \cup {r}
      BY <1>9 DEF Add
    <2>2. UNCHANGED <<there, log, removed>>
      BY <1>9 DEF Add
    <2> QED BY <1>1, <1>2, <2>1, <2>2, Begins DEF Doing
  <1>10. CASE RemoveBelow(c)
    <2>1. PICK r \in Rows : Begin(c, "remove", r, "statement", <<"row">>) /\ r \notin Orgs
      BY <1>1, <1>10 DEF RemoveBelow, Orgs, Of
    <2>2. UNCHANGED <<there, born, log, removed>>
      BY <1>10 DEF RemoveBelow
    <2> QED BY <1>1, <1>2, <2>1, <2>2, Begins DEF Doing
  <1> QED BY <1>3, <1>4, <1>5, <1>6, <1>7, <1>8, <1>9, <1>10

LEMMA Closes ==
    ASSUME Inv, NEW c \in Clients,
           update_name(c) \/ Audit(c) \/ Answer(c) \/ Victim(c) \/ Drop(c)
    PROVE  Inv'
  <1>1. log \subseteq {"create", "update", "delete"} \X (Orgs \cup Users)
    BY DEF Inv, Typed
  <1>2. CASE update_name(c)
    BY <1>2, Ended DEF update_name
  <1>3. CASE Audit(c)
    <2> DEFINE w == CASE tx[c].do \in {"create_org", "create_user"} -> "create"
                      [] tx[c].do = "update_org" -> "update"
                      [] OTHER -> "delete"
    <2>1. tx[c].row \in Orgs \cup Users
      BY <1>3 DEF Audit, Inv, Good, Shaped
    <2>2. w \in {"create", "update", "delete"}
      OBVIOUS
    <2>3. log' = log \cup {<<w, tx[c].row>>} /\ tx' = [tx EXCEPT ![c] = Idle]
          /\ UNCHANGED <<there, removed, born, begun>>
      BY <1>3 DEF Audit, Go
    <2> HIDE DEF w
    <2>4. log \subseteq log' /\ log' \subseteq {"create", "update", "delete"} \X (Orgs \cup Users)
      BY <1>1, <2>1, <2>2, <2>3
    <2> QED BY <2>3, <2>4, Rests
  <1>4. CASE Answer(c) \/ Drop(c)
    BY <1>1, <1>4, Rests DEF Answer, Drop, Go
  <1>5. CASE Victim(c)
    <2>1. tx[c].at # "idle"
      BY <1>5 DEF Victim, Deadlocked, Waits, WaitsForKey, WaitsForParent, WaitsToRename,
                  WaitsForRow, WaitsForReferrer
    <2> QED BY <1>5, <2>1, Ended DEF Victim
  <1> QED BY <1>2, <1>3, <1>4, <1>5

(***************************************************************************)
(* INSERT and DELETE.                                                      *)
(***************************************************************************)
\* What is known of the request a step is about.
LEMMA Before ==
    ASSUME Inv, NEW c \in Clients
    PROVE  /\ tx[c] \in Requests /\ Good(tx[c])
           /\ born' = born /\ log' = log /\ begun' = begun =>
                 /\ born \subseteq born' /\ born' \subseteq Rows /\ begun' \in 0..MaxRequests
                 /\ log \subseteq log'
                 /\ log' \subseteq {"create", "update", "delete"} \X (Orgs \cup Users)
           /\ there \subseteq Rows
           /\ \A d \in Clients \ {c} : /\ tx[c].gone \cap (tx[d].share \cup tx[d].gone) = {}
                                     /\ tx[c].share \cap tx[d].gone = {}
  <1>1. /\ tx[c] \in Requests /\ Good(tx[c]) /\ there \subseteq Rows /\ born \subseteq Rows
        /\ begun \in 0..MaxRequests
        /\ log \subseteq {"create", "update", "delete"} \X (Orgs \cup Users)
    BY DEF Inv, Typed
  <1>2. \A d \in Clients \ {c} : /\ tx[c].gone \cap (tx[d].share \cup tx[d].gone) = {}
                               /\ tx[c].share \cap tx[d].gone = {}
    BY DEF Inv, Apart
  <1> QED BY <1>1, <1>2

LEMMA Fields ==
    ASSUME NEW t \in Requests
    PROVE  /\ t.do \in Doing \cup {"none"} /\ t.at \in Places /\ t.row \in Rows \cup {none}
           /\ t.plan \in Seq(Statements) /\ t.todo \in Seq(Rows) /\ t.rows \subseteq Rows
           /\ t.taken \subseteq Rows /\ t.share \subseteq Rows /\ t.gone \subseteq Rows
           /\ t.raced \in BOOLEAN
  BY DEF Requests

LEMMA Inserts ==
    ASSUME Inv, NEW c \in Clients, Insert(c)
    PROVE  Inv'
  <1>1. /\ tx[c].at = "found" /\ tx[c].do \in Inserting
        /\ UNCHANGED <<there, born, log, removed, begun>>
    BY DEF Insert, Inserting
  <1>2. CASE Ends(c, "refused")
    BY <1>1, <1>2, Ended
  <1>3. CASE Go(c, [tx[c] EXCEPT !.at = "insert", !.todo = refs[tx[c].row]])
    <2>1. PICK q : q = tx[c]
      OBVIOUS
    <2>2. q \in Requests /\ Good(q) /\ q.row \in Rows /\ q.at = "found"
      BY <1>1, <2>1, Before DEF Good, Shaped
    <2>3. PICK e1 : e1 = [q EXCEPT !.at = "insert"]
      OBVIOUS
    <2>4. PICK e : e = [e1 EXCEPT !.todo = refs[q.row]]
      OBVIOUS
    <2>5. tx' = [tx EXCEPT ![c] = e]
      BY <1>3, <2>1, <2>3, <2>4 DEF Go
    <2>6. /\ e1 \in Requests /\ e1.at = "insert" /\ e1.do = q.do /\ e1.row = q.row
          /\ e1.share = q.share /\ e1.gone = q.gone /\ e1.taken = q.taken
      BY <2>2, <2>3, SetAt DEF Places
    <2>7. /\ e \in Requests /\ e.at = "insert" /\ e.do = q.do /\ e.row = q.row
          /\ e.share = q.share /\ e.gone = q.gone /\ e.taken = q.taken /\ e.todo = refs[q.row]
      <3>1. refs[q.row] \in Seq(Rows)
        BY <2>2, Schema
      <3>2. /\ e \in Requests /\ e.at = e1.at /\ e.do = e1.do /\ e.row = e1.row
            /\ e.share = e1.share /\ e.gone = e1.gone /\ e.taken = e1.taken /\ e.todo = refs[q.row]
        BY <2>4, <2>6, <3>1, SetTodo
      <3> QED BY <2>6, <3>2
    <2>8. Shaped(e)'
      BY <1>1, <2>1, <2>2, <2>7 DEF Good, Shaped
    <2>9. Holds(e)'
      BY <1>1, <2>1, <2>2, <2>7 DEF Good, Holds
    <2>10. Cut(e)' /\ Written(e)'
      BY <1>1, <2>1, <2>2, <2>7 DEF Good, Holds, Cut, Written
    <2>11. Good(e)'
      BY <2>8, <2>9, <2>10 DEF Good
    <2>12. \A d \in Clients \ {c} : /\ e.gone \cap (tx[d].share \cup tx[d].gone) = {}
                                  /\ e.share \cap tx[d].gone = {}
      BY <2>1, <2>7, Before
    <2> QED BY <1>1, <2>5, <2>7, <2>11, <2>12, Before, Plain
  <1> QED BY <1>2, <1>3 DEF Insert

LEMMA LocksParent ==
    ASSUME Inv, NEW c \in Clients, LockParent(c)
    PROVE  Inv'
  <1>1. /\ tx[c].at = "insert" /\ tx[c].todo # << >> /\ Free(c)
        /\ UNCHANGED <<there, born, log, removed, begun>>
    BY DEF LockParent
  <1>2. CASE Ends(c, "refused")
    BY <1>1, <1>2, Ended
  <1>3. CASE /\ Head(tx[c].todo) \in there
             /\ Go(c, [tx[c] EXCEPT !.share = @ \cup {Head(tx[c].todo)}, !.todo = Tail(@)])
    <2>1. PICK q : q = tx[c]
      OBVIOUS
    <2>2. q \in Requests /\ Good(q) /\ q.at = "insert" /\ q.todo \in Seq(Rows) /\ q.todo # << >>
          /\ q.share \subseteq Rows
      BY <1>1, <2>1, Before, Fields
    <2>3. PICK p : p = Head(q.todo)
      OBVIOUS
    <2>4. /\ Range(q.todo) \subseteq {p} \cup Range(Tail(q.todo)) /\ p \in Rows
          /\ Tail(q.todo) \in Seq(Rows)
      BY <2>2, <2>3, Ranges
    <2>16. PICK s, u : s = q.share \cup {p} /\ u = Tail(q.todo)
      OBVIOUS
    <2>5. PICK e1 : e1 = [q EXCEPT !.share = s]
      OBVIOUS
    <2>6. PICK e : e = [e1 EXCEPT !.todo = u]
      OBVIOUS
    <2>7. /\ e1 \in Requests /\ e1.at = "insert" /\ e1.do = q.do /\ e1.row = q.row
          /\ e1.share = q.share \cup {p} /\ e1.gone = q.gone /\ e1.taken = q.taken
          /\ e1.todo = q.todo
      <3>1. s \in SUBSET Rows
        BY <2>2, <2>4, <2>16
      <3>2. /\ e1 \in Requests /\ e1.at = q.at /\ e1.do = q.do /\ e1.row = q.row
            /\ e1.share = s /\ e1.gone = q.gone /\ e1.taken = q.taken /\ e1.todo = q.todo
        BY <2>2, <2>5, <3>1, SetShare
      <3> QED BY <2>2, <2>16, <3>2
    <2>8. tx' = [tx EXCEPT ![c] = e]
      BY <1>3, <2>1, <2>3, <2>5, <2>6, <2>16 DEF Go
    <2>9. /\ e \in Requests /\ e.at = "insert" /\ e.do = q.do /\ e.row = q.row
          /\ e.share = q.share \cup {p} /\ e.gone = q.gone /\ e.taken = q.taken
          /\ e.todo = Tail(q.todo)
      <3>1. /\ e \in Requests /\ e.at = e1.at /\ e.do = e1.do /\ e.row = e1.row
            /\ e.share = e1.share /\ e.gone = e1.gone /\ e.taken = e1.taken
            /\ e.todo = u
        <4>1. u \in Seq(Rows)
          BY <2>4, <2>16
        <4> QED BY <2>6, <2>7, <4>1, SetTodo
      <3> QED BY <2>7, <2>16, <3>1
    <2>10. p \in there /\ \A d \in Clients \ {c} : p \notin tx[d].gone
      BY <1>1, <1>3, <2>1, <2>3 DEF Free, Waits, WaitsForParent
    <2>11. Shaped(e)'
      BY <1>1, <2>2, <2>9 DEF Good, Shaped
    <2>12. Holds(e)'
      BY <1>1, <2>2, <2>4, <2>9, <2>10 DEF Good, Holds
    <2>13. Cut(e)' /\ Written(e)'
      BY <1>1, <2>2, <2>9 DEF Good, Holds, Cut, Written
    <2>14. Good(e)'
      BY <2>11, <2>12, <2>13 DEF Good
    <2>15. \A d \in Clients \ {c} : /\ e.gone \cap (tx[d].share \cup tx[d].gone) = {}
                                  /\ e.share \cap tx[d].gone = {}
      BY <2>1, <2>9, <2>10, Before
    <2> QED BY <1>1, <2>8, <2>9, <2>14, <2>15, Before, Plain
  <1> QED BY <1>2, <1>3 DEF LockParent

LEMMA Finds ==
    ASSUME NEW see \in SUBSET Rows, NEW o, NEW x \in Statements
    PROVE  Found(see, o, x) \in SUBSET Rows
  <1>1. \A t, i, parents : Those(see, t, i, parents) \subseteq Rows
    BY DEF Those, Of
  <1> HIDE DEF Those
  <1> QED BY <1>1 DEF Found, Statements

LEMMA StartsStatement ==
    ASSUME Inv, NEW c \in Clients, Statement(c)
    PROVE  Inv'
  <1>1. tx[c].at = "statement" /\ UNCHANGED <<there, born, log, removed, begun>>
    BY DEF Statement
  <1>2. PICK q : q = tx[c]
    OBVIOUS
  <1>3. q \in Requests /\ Good(q) /\ q.at = "statement" /\ there \subseteq Rows
        /\ q.plan # << >> /\ q.plan \in Seq(Statements)
    BY <1>1, <1>2, Before, Fields DEF Good, Shaped
  <1>4. PICK f : f = Found(there \ q.gone, q.row, Head(q.plan))
    OBVIOUS
  <1>5. f \in SUBSET Rows
    <2>1. Head(q.plan) \in Statements /\ there \ q.gone \in SUBSET Rows
      BY <1>3
    <2> QED BY <1>4, <2>1, Finds
  <1>6. PICK e1 : e1 = [q EXCEPT !.at = "rows"]
    OBVIOUS
  <1>7. PICK e2 : e2 = [e1 EXCEPT !.taken = {}]
    OBVIOUS
  <1>8. PICK e : e = [e2 EXCEPT !.rows = f]
    OBVIOUS
  <1>9. tx' = [tx EXCEPT ![c] = e]
    BY <1>2, <1>4, <1>6, <1>7, <1>8 DEF Statement, Go
  <1>10. /\ e1 \in Requests /\ e1.at = "rows" /\ e1.do = q.do /\ e1.row = q.row
         /\ e1.share = q.share /\ e1.gone = q.gone /\ e1.plan = q.plan
    BY <1>3, <1>6, SetAt DEF Places
  <1>11. /\ e2 \in Requests /\ e2.at = e1.at /\ e2.do = e1.do /\ e2.row = e1.row
         /\ e2.share = e1.share /\ e2.gone = e1.gone /\ e2.taken = {} /\ e2.plan = e1.plan
    <2>1. {} \in SUBSET Rows
      OBVIOUS
    <2> QED BY <1>7, <1>10, <2>1, SetTaken
  <1>12. /\ e \in Requests /\ e.at = e2.at /\ e.do = e2.do /\ e.row = e2.row
         /\ e.share = e2.share /\ e.gone = e2.gone /\ e.taken = e2.taken /\ e.plan = e2.plan
    BY <1>5, <1>8, <1>11, SetRows
  <1>13. /\ e.at = "rows" /\ e.do = q.do /\ e.row = q.row /\ e.share = q.share
         /\ e.gone = q.gone /\ e.taken = {} /\ e.plan = q.plan
    BY <1>10, <1>11, <1>12
  <1>14. Shaped(e)'
    BY <1>1, <1>3, <1>12, <1>13 DEF Good, Shaped
  <1>15. Holds(e)'
    BY <1>1, <1>3, <1>13 DEF Good, Holds
  <1>16. Cut(e)' /\ Written(e)'
    BY <1>1, <1>3, <1>13 DEF Good, Cut, Written
  <1>17. Good(e)'
    BY <1>14, <1>15, <1>16 DEF Good
  <1>18. \A d \in Clients \ {c} : /\ e.gone \cap (tx[d].share \cup tx[d].gone) = {}
                                /\ e.share \cap tx[d].gone = {}
    BY <1>2, <1>13, Before
  <1> QED BY <1>1, <1>9, <1>12, <1>17, <1>18, Before, Plain

LEMMA TakesRow ==
    ASSUME Inv, NEW c \in Clients, TakeRow(c)
    PROVE  Inv'
  <1>1. tx[c].at = "rows" /\ UNCHANGED <<there, born, log, removed, begun>>
    BY DEF TakeRow
  <1>2. PICK q : q = tx[c]
    OBVIOUS
  <1>3. q \in Requests /\ Good(q) /\ q.at = "rows" /\ there \subseteq Rows
        /\ q.rows \subseteq Rows /\ q.taken \subseteq Rows /\ q.gone \subseteq Rows
    BY <1>1, <1>2, Before, Fields
  <1>4. PICK r \in q.rows :
           /\ ~Held(c, r)
           /\ Go(c, [tx[c] EXCEPT !.rows = @ \ {r}, !.taken = @ \cup ({r} \cap there),
                                  !.gone = @ \cup ({r} \cap there)])
    BY <1>2 DEF TakeRow
  <1>5. PICK rows, taken, gone : /\ rows = q.rows \ {r} /\ taken = q.taken \cup ({r} \cap there)
                                 /\ gone = q.gone \cup ({r} \cap there)
    OBVIOUS
  <1>6. rows \in SUBSET Rows /\ taken \in SUBSET Rows /\ gone \in SUBSET Rows
    BY <1>3, <1>5
  <1>7. PICK e1 : e1 = [q EXCEPT !.rows = rows]
    OBVIOUS
  <1>8. PICK e2 : e2 = [e1 EXCEPT !.taken = taken]
    OBVIOUS
  <1>9. PICK e : e = [e2 EXCEPT !.gone = gone]
    OBVIOUS
  <1>10. tx' = [tx EXCEPT ![c] = e]
    BY <1>2, <1>4, <1>5, <1>7, <1>8, <1>9 DEF Go
  <1>11. /\ e1 \in Requests /\ e1.at = "rows" /\ e1.do = q.do /\ e1.row = q.row
         /\ e1.share = q.share /\ e1.gone = q.gone /\ e1.plan = q.plan
    BY <1>3, <1>6, <1>7, SetRows
  <1>12. /\ e2 \in Requests /\ e2.at = e1.at /\ e2.do = e1.do /\ e2.row = e1.row
         /\ e2.share = e1.share /\ e2.gone = e1.gone /\ e2.taken = taken /\ e2.plan = e1.plan
    BY <1>6, <1>8, <1>11, SetTaken
  <1>13. /\ e \in Requests /\ e.at = e2.at /\ e.do = e2.do /\ e.row = e2.row
         /\ e.share = e2.share /\ e.gone = gone /\ e.taken = e2.taken /\ e.plan = e2.plan
    BY <1>6, <1>9, <1>12, SetGone
  <1>14. /\ e.at = "rows" /\ e.do = q.do /\ e.row = q.row /\ e.share = q.share
         /\ e.gone = gone /\ e.taken = taken /\ e.plan = q.plan
    BY <1>11, <1>12, <1>13
  <1>15. Shaped(e)'
    BY <1>1, <1>3, <1>13, <1>14 DEF Good, Shaped
  <1>16. Holds(e)'
    BY <1>1, <1>3, <1>5, <1>14 DEF Good, Holds
  <1>17. Cut(e)'
    <2>1. \A x \in there \ q.gone : Range(refs[x]) \cap (q.gone \ q.taken) = {}
      BY <1>3 DEF Good, Cut
    <2>2. gone \ taken \subseteq q.gone \ q.taken /\ q.gone \subseteq gone
      BY <1>5
    <2> QED BY <1>1, <1>14, <2>1, <2>2 DEF Cut
  <1>18. Written(e)'
    BY <1>1, <1>3, <1>14 DEF Good, Written
  <1>19. Good(e)'
    BY <1>15, <1>16, <1>17, <1>18 DEF Good
  <1>20. \A d \in Clients \ {c} : /\ e.gone \cap (tx[d].share \cup tx[d].gone) = {}
                                /\ e.share \cap tx[d].gone = {}
    BY <1>2, <1>4, <1>5, <1>14, Before DEF Held, Others
  <1> QED BY <1>1, <1>10, <1>13, <1>19, <1>20, Before, Plain

LEMMA EndsStatement ==
    ASSUME Inv, NEW c \in Clients, EndOfStatement(c)
    PROVE  Inv'
  <1>1. tx[c].at = "rows" /\ UNCHANGED <<there, born, log, removed, begun>>
    BY DEF EndOfStatement
  <1>2. PICK q : q = tx[c]
    OBVIOUS
  <1>3. q \in Requests /\ Good(q) /\ q.at = "rows" /\ there \subseteq Rows
        /\ q.plan \in Seq(Statements)
    BY <1>1, <1>2, Before, Fields
  <1>4. CASE Ends(c, "refused")
    BY <1>1, <1>4, Ended
  <1>5. ASSUME NEW at \in {"statement", "commit"}, NEW plan \in Seq(Statements),
               at = "statement" => plan # << >>, Referrers(c) = {},
               Go(c, [tx[c] EXCEPT !.at = at, !.plan = plan])
        PROVE  Inv'
    <2>1. PICK e1 : e1 = [q EXCEPT !.at = at]
      OBVIOUS
    <2>2. PICK e : e = [e1 EXCEPT !.plan = plan]
      OBVIOUS
    <2>3. tx' = [tx EXCEPT ![c] = e]
      BY <1>2, <1>5, <2>1, <2>2 DEF Go
    <2>4. /\ e1 \in Requests /\ e1.at = at /\ e1.do = q.do /\ e1.row = q.row
          /\ e1.share = q.share /\ e1.gone = q.gone /\ e1.taken = q.taken
      <3>1. at \in Places
        BY DEF Places
      <3> QED BY <1>3, <2>1, <3>1, SetAt
    <2>5. /\ e \in Requests /\ e.at = e1.at /\ e.do = e1.do /\ e.row = e1.row
          /\ e.share = e1.share /\ e.gone = e1.gone /\ e.taken = e1.taken /\ e.plan = plan
      BY <2>2, <2>4, SetPlan
    <2>6. /\ e.at = at /\ e.do = q.do /\ e.row = q.row /\ e.share = q.share
          /\ e.gone = q.gone /\ e.taken = q.taken
      BY <2>4, <2>5
    <2>7. Shaped(e)'
      BY <1>1, <1>3, <1>5, <2>5, <2>6 DEF Good, Shaped
    <2>8. Holds(e)'
      BY <1>1, <1>3, <2>6 DEF Good, Holds
    <2>9. Cut(e)'
      <3>1. \A r \in there \ q.gone : Range(refs[r]) \cap (q.gone \ q.taken) = {}
        BY <1>3 DEF Good, Cut
      <3>2. \A r \in there \ q.gone : Range(refs[r]) \cap q.taken = {}
        BY <1>2, <1>5 DEF Referrers
      <3> QED BY <1>1, <2>6, <3>1, <3>2 DEF Cut
    <2>10. Written(e)'
      BY <1>1, <1>3, <2>6 DEF Good, Written
    <2>11. Good(e)'
      BY <2>7, <2>8, <2>9, <2>10 DEF Good
    <2>12. \A d \in Clients \ {c} : /\ e.gone \cap (tx[d].share \cup tx[d].gone) = {}
                                  /\ e.share \cap tx[d].gone = {}
      BY <1>2, <2>6, Before
    <2> QED BY <1>1, <2>3, <2>5, <2>11, <2>12, Before, Plain
  <1>6. CASE /\ Referrers(c) = {} /\ Len(q.plan) > 1
             /\ Go(c, [tx[c] EXCEPT !.at = "statement", !.plan = Tail(@)])
    <2>1. PICK p : p = Tail(q.plan)
      OBVIOUS
    <2>2. p \in Seq(Statements) /\ p # << >>
      BY <1>3, <1>6, <2>1
    <2>3. Go(c, [tx[c] EXCEPT !.at = "statement", !.plan = p])
      BY <1>2, <1>6, <2>1
    <2> QED BY <1>5, <1>6, <2>2, <2>3
  <1>7. CASE Referrers(c) = {} /\ Go(c, [tx[c] EXCEPT !.at = "commit", !.plan = << >>])
    <2>1. PICK p : p = << >>
      OBVIOUS
    <2>2. p \in Seq(Statements)
      BY <2>1
    <2>3. Go(c, [tx[c] EXCEPT !.at = "commit", !.plan = p])
      BY <1>7, <2>1
    <2> QED BY <1>5, <1>7, <2>2, <2>3
  <1> QED BY <1>2, <1>4, <1>6, <1>7 DEF EndOfStatement

LEMMA InsertsRow ==
    ASSUME Inv, NEW c \in Clients, Inserted(c)
    PROVE  Inv'
  <1>1. /\ tx[c].at = "insert" /\ tx[c].todo = << >> /\ there' = there \cup {tx[c].row}
        /\ UNCHANGED <<born, log, removed, begun>>
    BY DEF Inserted
  <1>2. PICK q, new : q = tx[c] /\ new = tx[c].row
    OBVIOUS
  <1>3. /\ q \in Requests /\ Good(q) /\ q.at = "insert" /\ q.row = new /\ new \in Rows
        /\ new \in born /\ q.do \in Inserting /\ q.todo = << >> /\ << >> \in Seq(Rows)
    BY <1>1, <1>2, Before DEF Good, Shaped
  <1>4. Range(refs[new]) \subseteq q.share /\ q.share \subseteq there
    <2>1. Range(q.todo) = {}
      BY <1>3, Ranges
    <2> QED BY <1>3, <2>1 DEF Good, Holds
  <1>5. \A d \in Clients \ {c} :
           /\ tx'[d] \in Requests /\ tx'[d].at = tx[d].at /\ tx'[d].do = tx[d].do
           /\ tx'[d].row = tx[d].row /\ tx'[d].share = tx[d].share /\ tx'[d].gone = tx[d].gone
           /\ tx'[d].taken = tx[d].taken /\ tx'[d].todo = tx[d].todo /\ tx'[d].plan = tx[d].plan
           /\ tx[d].at = "idle" => tx'[d] = Idle
    <2> SUFFICES ASSUME NEW d \in Clients \ {c}
                 PROVE  /\ tx'[d] \in Requests /\ tx'[d].at = tx[d].at /\ tx'[d].do = tx[d].do
                        /\ tx'[d].row = tx[d].row /\ tx'[d].share = tx[d].share
                        /\ tx'[d].gone = tx[d].gone /\ tx'[d].taken = tx[d].taken
                        /\ tx'[d].todo = tx[d].todo /\ tx'[d].plan = tx[d].plan
                        /\ tx[d].at = "idle" => tx'[d] = Idle
      OBVIOUS
    <2>1. PICK t : t = tx[d]
      OBVIOUS
    <2>2. t \in Requests /\ Good(t)
      BY <2>1, Before
    <2>3. PICK b : b = (t.at \in {"statement", "rows"} \/ t.raced)
      OBVIOUS
    <2>4. b \in BOOLEAN
      BY <2>2, <2>3, Fields
    <2>5. PICK e : e = [t EXCEPT !.raced = b]
      OBVIOUS
    <2>6. tx'[d] = e
      BY <2>1, <2>3, <2>5 DEF Inserted
    <2>7. /\ e \in Requests /\ e.at = t.at /\ e.do = t.do /\ e.row = t.row
          /\ e.share = t.share /\ e.gone = t.gone /\ e.taken = t.taken
          /\ e.todo = t.todo /\ e.plan = t.plan
      BY <2>2, <2>4, <2>5, SetRaced
    <2>8. t.at = "idle" => e = Idle
      <3> SUFFICES ASSUME t.at = "idle" PROVE e = Idle
        OBVIOUS
      <3>1. t = Idle
        BY <2>2 DEF Good, Shaped
      <3>2. b = FALSE
        BY <2>3, <3>1 DEF Idle, Request
      <3> QED BY <2>5, <3>1, <3>2 DEF Idle, Request
    <2> QED BY <2>1, <2>6, <2>7, <2>8
  <1>6. \A d \in Clients \ {c} : Good(tx[d])'
    <2> SUFFICES ASSUME NEW d \in Clients \ {c} PROVE Good(tx[d])'
      OBVIOUS
    <2>1. Good(tx[d]) /\ q.share \cap tx[d].gone = {}
      BY <1>2, Before
    <2>2. Shaped(tx[d])'
      BY <1>1, <1>5, <2>1 DEF Good, Shaped
    <2>3. Holds(tx[d])'
      BY <1>1, <1>5, <2>1 DEF Good, Holds
    <2>4. Cut(tx[d])'
      <3> DEFINE done == IF tx[d].at = "rows" THEN tx[d].gone \ tx[d].taken ELSE tx[d].gone
      <3>1. \A r \in there \ tx[d].gone : Range(refs[r]) \cap done = {}
        BY <2>1 DEF Good, Cut
      <3>2. Range(refs[new]) \cap done = {}
        BY <1>4, <2>1
      <3>3. done' = done
        BY <1>5
      <3>4. \A r \in there' \ tx'[d].gone : Range(refs[r]) \cap done' = {}
        BY <1>1, <1>2, <1>5, <3>1, <3>2, <3>3
      <3> QED BY <3>4 DEF Cut
    <2>5. Written(tx[d])'
      BY <1>1, <1>5, <2>1 DEF Good, Written
    <2> QED BY <2>2, <2>3, <2>4, <2>5 DEF Good
  <1>7. /\ tx'[c] \in Requests /\ tx'[c].share = {} /\ tx'[c].gone = {} /\ tx'[c].taken = {}
        /\ Good(tx[c])'
    <2>1. CASE q.do = "add"
      <3>1. tx'[c] = Idle
        BY <1>2, <2>1 DEF Inserted
      <3>2. /\ Idle.do = "none" /\ Idle.at = "idle" /\ Idle.share = {}
            /\ Idle.gone = {} /\ Idle.taken = {}
        BY DEF Idle, Request
      <3>3. Shaped(tx[c])'
        BY <3>1, <3>2, Resting DEF Shaped, Doing, Inserting
      <3>4. Holds(tx[c])' /\ Cut(tx[c])' /\ Written(tx[c])'
        BY <3>1, <3>2 DEF Holds, Cut, Written
      <3> QED BY <3>1, <3>2, <3>3, <3>4, Resting DEF Good
    <2>2. CASE q.do # "add"
      <3>1. PICK t : t = Request(q.do, q.row, "audit", << >>, FALSE)
        OBVIOUS
      <3>2. tx'[c] = t
        BY <1>2, <2>2, <3>1 DEF Inserted
      <3>3. /\ q.do \in Doing /\ q.do \notin {"add", "remove", "delete_user"}
            /\ q.row \in Orgs \cup Users
        BY <1>3, <2>2 DEF Good, Shaped, Inserting
      <3>4. t \in Requests
        <4>1. "audit" \in Places /\ << >> \in Seq(Statements) /\ FALSE \in BOOLEAN /\ q.row \in Rows
          BY <1>3 DEF Places
        <4> QED BY <3>1, <3>3, <4>1, Bare, Zenon
      <3>5. /\ t.do = q.do /\ t.at = "audit" /\ t.row = q.row
            /\ t.share = {} /\ t.gone = {} /\ t.taken = {}
        BY <3>1 DEF Request
      <3>6. Shaped(tx[c])'
        BY <1>1, <1>3, <3>2, <3>3, <3>4, <3>5 DEF Shaped
      <3>7. Holds(tx[c])' /\ Cut(tx[c])' /\ Written(tx[c])'
        BY <3>2, <3>5 DEF Holds, Cut, Written
      <3> QED BY <3>2, <3>4, <3>5, <3>6, <3>7 DEF Good
    <2> QED BY <2>1, <2>2
  <1>8. tx' \in [Clients -> Requests]
    <2>1. DOMAIN tx' = Clients /\ tx' = [d \in Clients |-> tx'[d]]
      BY DEF Inserted
    <2> QED BY <1>5, <1>7, <2>1
  <1>9. Apart'
    BY <1>5, <1>7 DEF Inv, Apart
  <1>10. ReferencesHold'
    BY <1>1, <1>2, <1>4 DEF Inv, ReferencesHold
  <1>11. Typed'
    BY <1>1, <1>2, <1>3 DEF Inv, Typed
  <1>12. RemovalRecorded'
    BY <1>1 DEF Inv, RemovalRecorded
  <1> QED BY <1>6, <1>7, <1>8, <1>9, <1>10, <1>11, <1>12 DEF Inv

LEMMA Deletes ==
    ASSUME Inv, NEW c \in Clients, Deleted(c)
    PROVE  Inv'
  <1>1. /\ tx[c].at = "commit" /\ there' = there \ tx[c].gone
        /\ UNCHANGED <<born, log, begun>>
    BY DEF Deleted
  <1>2. PICK q, lost : q = tx[c] /\ lost = tx[c].gone
    OBVIOUS
  <1>3. /\ q \in Requests /\ Good(q) /\ q.at = "commit" /\ q.gone = lost
        /\ q.row \in Rows /\ q.do \in Deleting /\ q.do \in Doing
    BY <1>1, <1>2, Before DEF Good, Shaped
  <1>4. PICK t : /\ tx' = [tx EXCEPT ![c] = t]
                 /\ \/ q.do \in AuditsAfter /\ t = Request(q.do, q.row, "audit", << >>, q.raced)
                    \/ t = Idle
    BY <1>2 DEF Deleted, Ends, Go
  <1>5. /\ t \in Requests /\ t.share = {} /\ t.gone = {} /\ t.taken = {} /\ Shaped(t)'
        /\ t.at \in {"idle", "audit"}
    <2>1. CASE t = Idle
      <3>1. /\ Idle.do = "none" /\ Idle.at = "idle" /\ Idle.share = {}
            /\ Idle.gone = {} /\ Idle.taken = {}
        BY DEF Idle, Request
      <3> QED BY <2>1, <3>1, Resting DEF Shaped, Doing, Inserting
    <2>2. CASE q.do \in AuditsAfter /\ t = Request(q.do, q.row, "audit", << >>, q.raced)
      <3>1. t \in Requests
        <4>1. "audit" \in Places /\ << >> \in Seq(Statements) /\ q.raced \in BOOLEAN
          BY <1>3, Fields DEF Places
        <4> QED BY <1>3, <2>2, <4>1, Bare, Zenon
      <3>2. /\ t.do = q.do /\ t.at = "audit" /\ t.row = q.row
            /\ t.share = {} /\ t.gone = {} /\ t.taken = {}
        BY <2>2 DEF Request
      <3>3. /\ q.do \notin {"add", "remove"} /\ q.do \notin Inserting /\ q.row \in Orgs \cup Users
            /\ q.do = "delete_user" => q.row \notin Orgs
        BY <1>3, <2>2 DEF Good, Shaped, AuditsAfter, Inserting
      <3> QED BY <1>3, <3>1, <3>2, <3>3 DEF Shaped
    <2> QED BY <1>4, <2>1, <2>2
  <1>6. tx'[c] = t /\ tx' \in [Clients -> Requests] /\ \A d \in Clients \ {c} : tx'[d] = tx[d]
    BY <1>4, <1>5 DEF Inv
  <1>7. \A d \in Clients \ {c} : Good(tx[d])'
    <2> SUFFICES ASSUME NEW d \in Clients \ {c} PROVE Good(tx[d])'
      OBVIOUS
    <2>1. (tx[d].share \cup tx[d].gone) \cap (there \ there') = {}
      BY <1>1, <1>2, Before
    <2> QED BY <1>1, <1>6, <2>1, Elsewhere
  <1>8. Good(tx[c])'
    BY <1>5, <1>6 DEF Good, Shaped, Holds, Cut, Written
  <1>9. Apart'
    BY <1>5, <1>6 DEF Inv, Apart
  <1>10. ReferencesHold'
    <2>1. \A r \in there \ lost : Range(refs[r]) \cap lost = {}
      BY <1>3 DEF Good, Cut
    <2> QED BY <1>1, <1>2, <2>1 DEF Inv, ReferencesHold
  <1>11. removed' \in [Orgs -> {"no", "delete_org", "delete_org_submit"}] /\ RemovalRecorded'
    <2>1. CASE q.row \notin Orgs
      <3>1. UNCHANGED removed
        BY <1>2, <2>1 DEF Deleted
      <3> QED BY <1>1, <3>1 DEF Inv, Typed, RemovalRecorded
    <2>2. CASE q.row \in Orgs
      <3>1. removed' = [removed EXCEPT ![q.row] = q.do]
        BY <1>2, <2>2 DEF Deleted
      <3>2. q.do = "delete_org" => <<"delete", q.row>> \in log
        BY <1>3 DEF Good, Written
      <3>3. q.do \in {"delete_org", "delete_org_submit"}
        BY <1>3, <2>2 DEF Good, Shaped, Deleting
      <3> QED BY <1>1, <2>2, <3>1, <3>2, <3>3 DEF Inv, Typed, RemovalRecorded
    <2> QED BY <2>1, <2>2
  <1>12. Typed'
    BY <1>1, <1>11 DEF Inv, Typed
  <1> QED BY <1>6, <1>7, <1>8, <1>9, <1>10, <1>11, <1>12 DEF Inv

(***************************************************************************)
(* How far a deletion has come.                                            *)
(***************************************************************************)
Cascades == {"delete_org", "delete_org_submit"}
Working == {"statement", "rows", "commit"}

\* The statement of the cascade that takes the rows of a table.
Place == [part_assignment |-> 1, collection_item |-> 2, collection |-> 3, arrangement_tag |-> 4,
          tag |-> 5, global_annotation |-> 6, file |-> 7, voice |-> 8, arrangement |-> 9,
          membership |-> 10, organization |-> 11, user |-> 12, app_password |-> 12,
          work |-> 12]
Turn(r) == Place[table[r]]
\* The statement a cascade is at.
Now(t) == 12 - Len(t.plan)

Planned(t) ==
    t.at \in {"statement", "rows"} =>
        IF t.do \in Cascades
        THEN /\ Len(t.plan) \in 1..11
             /\ \A i \in 1..Len(t.plan) : t.plan[i] = Cascade[11 - Len(t.plan) + i]
        ELSE t.plan = <<"row">>

\* It takes the rows of its own organization, table after table.
Aimed(t) ==
    /\ t.at \in Working /\ t.do \in Cascades =>
          /\ t.row \in Orgs
          /\ \A r \in t.gone : OrgOf(r) = t.row
          /\ t.at = "statement" => \A r \in t.gone : Turn(r) < Now(t)
          /\ t.at = "rows" =>
                /\ \A r \in t.gone \ t.taken : Turn(r) < Now(t)
                /\ \A r \in t.rows \cup t.taken : OrgOf(r) = t.row /\ Turn(r) = Now(t)
    /\ t.at \in Working /\ t.do \notin Cascades =>
          t.gone \subseteq {t.row} /\ (t.at = "rows" => t.rows \subseteq {t.row})
    /\ t.at = "rows" => t.rows \cap t.gone = {}
    /\ t.at = "commit" => t.row \in t.gone

\* Unless a row was added meanwhile, it leaves nothing behind it.
Swept(t) ==
    t.at \in {"statement", "rows"} /\ t.do \in Cascades /\ ~t.raced =>
        \A r \in there \ t.gone :
            OrgOf(r) = t.row =>
                Turn(r) >= Now(t) /\ (t.at = "rows" /\ Turn(r) = Now(t) => r \in t.rows)

\* An insert has locked the first of the rows it refers to.
Locked(t) == Len(refs[t.row]) - Len(t.todo)
Queued(t) ==
    t.at = "insert" =>
        /\ Locked(t) \in Nat
        /\ \A i \in 1..Len(t.todo) : t.todo[i] = refs[t.row][Locked(t) + i]
        /\ \A r \in t.share : \E j \in 1..Locked(t) : r = refs[t.row][j]

Outrun(t) == t.at = "refused" /\ t.do \in Cascades => t.raced \/ t.row \notin there

\* It is about a row that somebody has or has had, and the tables that a row is removed from.
Known(t) ==
    /\ t.row \in born \cup {none}
    /\ t.do = "remove" =>
          table[t.row] \in {"membership", "part_assignment", "arrangement_tag", "file", "work"}

Far(t) == Known(t) /\ Planned(t) /\ Aimed(t) /\ Swept(t) /\ Queued(t) /\ Outrun(t)

\* A row that is yet to be inserted is not there and nobody else's.
Pending(t) == t.at \in {"found", "insert"} /\ t.do \in Inserting
Fresh ==
    \A c \in Clients : Pending(tx[c]) =>
        tx[c].row \notin there /\ \A d \in Clients \ {c} : tx[d].row # tx[c].row

Course == Fresh /\ \A c \in Clients : Far(tx[c])

(***************************************************************************)
(* The tables.                                                             *)
(***************************************************************************)
LEMMA Turns ==
    ASSUME NEW r \in Rows
    PROVE  Turn(r) \in 1..12 /\ (Turn(r) = 11 <=> r \in Orgs) /\ (Turn(r) = 12 => OrgOf(r) = none)
  <1>1. table[r] \in Tables
    BY RowsFit
  <1>2. Turn(r) \in 1..12 /\ (Turn(r) = 11 <=> table[r] = "organization")
        /\ (Turn(r) = 12 => table[r] \in {"user", "app_password", "work"})
    BY <1>1 DEF Turn, Place, Tables
  <1> QED BY <1>1, <1>2 DEF OrgOf, Orgs, Of

\* What a column refers to.
LEMMA Column ==
    ASSUME NEW r \in Rows, NEW i \in DOMAIN refs[r]
    PROVE  LET t == table[r]
               p == table[refs[r][i]]
           IN /\ t \in {"organization", "user"} => FALSE
              /\ t = "membership" => i \in 1..2 /\ p = (IF i = 1 THEN "user" ELSE "organization")
              /\ t \in {"collection", "tag"} => p = (IF i = 1 THEN "organization" ELSE "user")
              /\ t = "arrangement" => IF i = 1 THEN p = "organization" ELSE p \in {"work", "user"}
              /\ t = "work" => p = "user"
              /\ t = "voice" => p = (IF i = 1 THEN "arrangement" ELSE "user")
              /\ t = "file" => IF i = 1 THEN p = "arrangement" ELSE p \in {"voice", "user"}
              /\ t = "collection_item" =>
                    p = (IF i = 1 THEN "collection" ELSE IF i = 2 THEN "arrangement" ELSE "user")
              /\ t = "part_assignment" =>
                    p = (IF i = 1 THEN "collection_item" ELSE IF i = 3 THEN "voice" ELSE "user")
              /\ t = "arrangement_tag" => i \in 1..2 /\ p = (IF i = 1 THEN "arrangement" ELSE "tag")
              /\ t = "global_annotation" => p = (IF i = 1 THEN "arrangement" ELSE "user")
              /\ t = "app_password" => p = "user"
              /\ i \in Nat \ {0}
  <1>1. i \in Nat \ {0} /\ table[r] \in Tables
    BY Schema, RowsFit
  <1>2. IF i <= Len(Columns[table[r]]) THEN table[refs[r][i]] = Columns[table[r]][i]
        ELSE table[refs[r][i]] \in Nullable(table[r])
    BY ForeignKeys
  <1>3. PICK t, p : t = table[r] /\ p = table[refs[r][i]]
    OBVIOUS
  <1>4. IF i <= Len(Columns[t]) THEN p = Columns[t][i] ELSE p \in Nullable(t)
    BY <1>2, <1>3
  <1>5. CASE t = "organization"
    BY <1>1, <1>3, <1>4, <1>5 DEF Columns, Nullable
  <1>6. CASE t = "user"
    BY <1>1, <1>3, <1>4, <1>6 DEF Columns, Nullable
  <1>7. CASE t = "membership"
    BY <1>1, <1>3, <1>4, <1>7 DEF Columns, Nullable
  <1>8. CASE t = "arrangement"
    BY <1>1, <1>3, <1>4, <1>8 DEF Columns, Nullable
  <1>9. CASE t = "voice"
    BY <1>1, <1>3, <1>4, <1>9 DEF Columns, Nullable
  <1>10. CASE t = "file"
    BY <1>1, <1>3, <1>4, <1>10 DEF Columns, Nullable
  <1>11. CASE t = "collection"
    BY <1>1, <1>3, <1>4, <1>11 DEF Columns, Nullable
  <1>12. CASE t = "collection_item"
    BY <1>1, <1>3, <1>4, <1>12 DEF Columns, Nullable
  <1>13. CASE t = "part_assignment"
    BY <1>1, <1>3, <1>4, <1>13 DEF Columns, Nullable
  <1>14. CASE t = "tag"
    BY <1>1, <1>3, <1>4, <1>14 DEF Columns, Nullable
  <1>15. CASE t = "arrangement_tag"
    BY <1>1, <1>3, <1>4, <1>15 DEF Columns, Nullable
  <1>16. CASE t = "global_annotation"
    BY <1>1, <1>3, <1>4, <1>16 DEF Columns, Nullable
  <1>17. CASE t = "app_password"
    BY <1>1, <1>3, <1>4, <1>17 DEF Columns, Nullable
  <1>18. CASE t = "work"
    BY <1>1, <1>3, <1>4, <1>18 DEF Columns, Nullable
  <1> QED BY <1>1, <1>3, <1>5, <1>6, <1>7, <1>8, <1>9, <1>10, <1>11, <1>12, <1>13, <1>14, <1>15, <1>16, <1>17, <1>18 DEF Tables

\* Every row refers to rows of its own organization that the cascade takes later.
LEMMA RefersUp ==
    ASSUME NEW r \in Rows, NEW p \in Range(refs[r]), p \notin Shared
    PROVE  OrgOf(p) = OrgOf(r) /\ Turn(r) < Turn(p) /\ Turn(p) \in 1..11
  <1>1. OrgOf(p) = OrgOf(r)
    BY OneOrganization
  <1>2. PICK i \in DOMAIN refs[r] : p = refs[r][i]
    BY DEF Range
  <1>3. p \in Rows /\ table[r] \in Tables /\ table[p] \in Tables /\ table[p] \notin {"user", "work"}
    BY <1>2, Schema, RowsFit DEF Shared, Users, Of
  <1>4. table[p] = table[refs[r][i]]
    BY <1>2
  <1> HIDE DEF Turn
  <1>5. Turn(r) < Turn(p) /\ Turn(p) \in 1..11
    BY <1>3, <1>4, Column DEF Turn, Place, Tables
  <1> QED BY <1>1, <1>5

\* Of two references only those of a file and of a tag on an arrangement are in the other
\* order.
LEMMA TwoParents ==
    ASSUME NEW r \in Rows, NEW j \in DOMAIN refs[r], NEW i \in DOMAIN refs[r], j < i,
           Turn(refs[r][i]) <= Turn(refs[r][j]), Turn(refs[r][j]) <= 11
    PROVE  table[r] \in {"file", "arrangement_tag"}
  <1>1. table[r] \in Tables
    BY RowsFit
  <1>2. PICK p, q : p = table[refs[r][j]] /\ q = table[refs[r][i]]
    OBVIOUS
  <1>3. Place[q] <= Place[p] /\ Place[p] <= 11
    BY <1>2 DEF Turn
  <1>4. PICK t : t = table[r]
    OBVIOUS
  <1>5. ASSUME t \notin {"file", "arrangement_tag"} PROVE FALSE
    <2>1. i \in Nat \ {0} /\ j \in Nat \ {0} /\ i > j
      BY Column
    <2>2. i # 1
      BY <2>1
    <2>3. t \notin {"arrangement", "collection", "tag", "voice", "global_annotation", "app_password",
                    "organization", "user", "work"}
      BY <1>2, <1>3, <1>4, <2>2, Column DEF Place
    <2>4. t # "membership"
      BY <1>2, <1>3, <1>4, <2>1, Column DEF Place
    <2>5. t # "collection_item"
      BY <1>2, <1>3, <1>4, <2>1, Column DEF Place
    <2>6. t # "part_assignment"
      BY <1>2, <1>3, <1>4, <2>1, Column DEF Place
    <2> QED BY <1>1, <1>4, <1>5, <2>3, <2>4, <2>5, <2>6 DEF Tables
  <1> QED BY <1>4, <1>5

\* The references no row goes without.
LEMMA NotNull ==
    ASSUME NEW r \in Rows
    PROVE  /\ table[r] \notin {"organization", "user", "work"} => 1 \in DOMAIN refs[r]
           /\ table[r] \in {"membership", "collection_item", "part_assignment", "arrangement_tag"}
                 => 2 \in DOMAIN refs[r]
  <1>1. table[r] \in Tables /\ refs[r] \in Seq(Rows) /\ Len(Columns[table[r]]) <= Len(refs[r])
    BY ForeignKeys, RowsFit
  <1>2. PICK t, n : t = table[r] /\ n = Len(refs[r])
    OBVIOUS
  <1>3. n \in Nat /\ DOMAIN refs[r] = 1..n /\ Len(Columns[t]) <= n
    BY <1>1, <1>2
  <1>4. t \notin {"organization", "user", "work"} => 1 <= n
    BY <1>1, <1>2, <1>3 DEF Columns, Tables
  <1>5. t \in {"membership", "collection_item", "part_assignment", "arrangement_tag"} => 2 <= n
    BY <1>1, <1>2, <1>3 DEF Columns, Tables
  <1> QED BY <1>2, <1>3, <1>4, <1>5

\* A statement of the cascade finds every row of its table that is the organization's.
LEMMA FindsAll ==
    ASSUME NEW see \in SUBSET Rows, \A r \in see : Range(refs[r]) \subseteq see,
           NEW o \in Orgs, NEW k \in 1..11
    PROVE  Found(see, o, Cascade[k]) = {r \in see : OrgOf(r) = o /\ Turn(r) = k}
  <1>1. \A t, i, parents : Those(see, t, i, parents) =
                              {r \in see : table[r] = t /\ refs[r][i] \in parents}
    BY DEF Those, Of
  <1>2. \A r \in see : \A i \in DOMAIN refs[r] : refs[r][i] \in see
    BY DEF Range
  <1>3. PICK collections, arrangements, tags :
           /\ collections = Those(see, "collection", 1, {o})
           /\ arrangements = Those(see, "arrangement", 1, {o})
           /\ tags = Those(see, "tag", 1, {o})
    OBVIOUS
  <1>4. PICK items : items = Those(see, "collection_item", 1, collections)
    OBVIOUS
  <1>5. /\ collections = {r \in see : table[r] = "collection" /\ refs[r][1] = o}
        /\ arrangements = {r \in see : table[r] = "arrangement" /\ refs[r][1] = o}
        /\ tags = {r \in see : table[r] = "tag" /\ refs[r][1] = o}
        /\ items = {r \in see : table[r] = "collection_item" /\ refs[r][1] \in collections}
    BY <1>1, <1>3, <1>4
  <1>6. /\ collections = {r \in see : table[r] = "collection" /\ OrgOf(r) = o}
        /\ arrangements = {r \in see : table[r] = "arrangement" /\ OrgOf(r) = o}
        /\ tags = {r \in see : table[r] = "tag" /\ OrgOf(r) = o}
    BY <1>5 DEF OrgOf
  <1>7. ASSUME NEW r \in see, table[r] \in {"voice", "file", "global_annotation", "arrangement_tag"}
        PROVE  refs[r][1] \in arrangements <=> OrgOf(r) = o
    <2>1. refs[r][1] \in see /\ table[refs[r][1]] = "arrangement"
      BY <1>2, <1>7, NotNull, Column
    <2>2. OrgOf(r) = refs[refs[r][1]][1]
      BY <1>7 DEF OrgOf
    <2> QED BY <1>5, <2>1, <2>2
  <1>8. ASSUME NEW r \in see, table[r] = "collection_item"
        PROVE  refs[r][1] \in collections <=> OrgOf(r) = o
    <2>1. refs[r][1] \in see /\ table[refs[r][1]] = "collection"
      BY <1>2, <1>8, NotNull, Column
    <2>2. OrgOf(r) = refs[refs[r][1]][1]
      BY <1>8 DEF OrgOf
    <2> QED BY <1>5, <2>1, <2>2
  <1>9. ASSUME NEW r \in see, table[r] = "part_assignment"
        PROVE  refs[r][1] \in items <=> OrgOf(r) = o
    <2>1. refs[r][1] \in see /\ table[refs[r][1]] = "collection_item"
      BY <1>2, <1>9, NotNull, Column
    <2>2. OrgOf(r) = OrgOf(refs[r][1])
      BY <1>9, <2>1 DEF OrgOf
    <2> QED BY <1>5, <1>8, <2>1, <2>2
  <1>10. ASSUME NEW r \in see, table[r] = "arrangement_tag"
         PROVE  refs[r][2] \in tags <=> OrgOf(r) = o
    <2>1. 2 \in DOMAIN refs[r]
      BY <1>10, NotNull
    <2>2. refs[r][2] \in see /\ table[refs[r][2]] = "tag"
      BY <1>2, <1>10, <2>1, Column
    <2>3. refs[r][2] \in Range(refs[r]) \ Shared
      BY <2>1, <2>2 DEF Range, Shared, Users, Of
    <2>4. OrgOf(refs[r][2]) = OrgOf(r)
      BY <2>3, RefersUp
    <2> QED BY <1>6, <2>2, <2>4
  <1>11. \A r \in see : table[r] = "membership" => (refs[r][2] = o <=> OrgOf(r) = o)
    BY DEF OrgOf
  <1>12. \A r \in see : table[r] \in Tables
    BY RowsFit
  <1>13. CASE k = 1
    <2>1. Cascade[k] = "part_assignment" /\ \A r \in see : Turn(r) = k <=> table[r] = "part_assignment"
      BY <1>12, <1>13 DEF Cascade, Turn, Place, Tables
    <2>2. Found(see, o, "part_assignment") = {r \in see : table[r] = "part_assignment" /\ OrgOf(r) = o}
      BY <1>1, <1>3, <1>4, <1>9 DEF Found
    <2> QED BY <2>1, <2>2
  <1>14. CASE k = 2
    <2>1. Cascade[k] = "collection_item" /\ \A r \in see : Turn(r) = k <=> table[r] = "collection_item"
      BY <1>12, <1>14 DEF Cascade, Turn, Place, Tables
    <2>2. Found(see, o, "collection_item") = {r \in see : table[r] = "collection_item" /\ OrgOf(r) = o}
      BY <1>1, <1>3, <1>4, <1>8 DEF Found
    <2> QED BY <2>1, <2>2
  <1>15. CASE k = 3
    <2>1. Cascade[k] = "collection" /\ \A r \in see : Turn(r) = k <=> table[r] = "collection"
      BY <1>12, <1>15 DEF Cascade, Turn, Place, Tables
    <2>2. Found(see, o, "collection") = {r \in see : table[r] = "collection" /\ OrgOf(r) = o}
      BY <1>3, <1>6 DEF Found
    <2> QED BY <2>1, <2>2
  <1>16. CASE k = 4
    <2>1. Cascade[k] = "arrangement_tag" /\ \A r \in see : Turn(r) = k <=> table[r] = "arrangement_tag"
      BY <1>12, <1>16 DEF Cascade, Turn, Place, Tables
    <2>2. Found(see, o, "arrangement_tag") = {r \in see : table[r] = "arrangement_tag" /\ OrgOf(r) = o}
      BY <1>1, <1>3, <1>7, <1>10 DEF Found
    <2> QED BY <2>1, <2>2
  <1>17. CASE k = 5
    <2>1. Cascade[k] = "tag" /\ \A r \in see : Turn(r) = k <=> table[r] = "tag"
      BY <1>12, <1>17 DEF Cascade, Turn, Place, Tables
    <2>2. Found(see, o, "tag") = {r \in see : table[r] = "tag" /\ OrgOf(r) = o}
      BY <1>3, <1>6 DEF Found
    <2> QED BY <2>1, <2>2
  <1>18. CASE k = 6
    <2>1. Cascade[k] = "global_annotation" /\ \A r \in see : Turn(r) = k <=> table[r] = "global_annotation"
      BY <1>12, <1>18 DEF Cascade, Turn, Place, Tables
    <2>2. Found(see, o, "global_annotation") = {r \in see : table[r] = "global_annotation" /\ OrgOf(r) = o}
      BY <1>1, <1>3, <1>7 DEF Found
    <2> QED BY <2>1, <2>2
  <1>19. CASE k = 7
    <2>1. Cascade[k] = "file" /\ \A r \in see : Turn(r) = k <=> table[r] = "file"
      BY <1>12, <1>19 DEF Cascade, Turn, Place, Tables
    <2>2. Found(see, o, "file") = {r \in see : table[r] = "file" /\ OrgOf(r) = o}
      BY <1>1, <1>3, <1>7 DEF Found
    <2> QED BY <2>1, <2>2
  <1>20. CASE k = 8
    <2>1. Cascade[k] = "voice" /\ \A r \in see : Turn(r) = k <=> table[r] = "voice"
      BY <1>12, <1>20 DEF Cascade, Turn, Place, Tables
    <2>2. Found(see, o, "voice") = {r \in see : table[r] = "voice" /\ OrgOf(r) = o}
      BY <1>1, <1>3, <1>7 DEF Found
    <2> QED BY <2>1, <2>2
  <1>21. CASE k = 9
    <2>1. Cascade[k] = "arrangement" /\ \A r \in see : Turn(r) = k <=> table[r] = "arrangement"
      BY <1>12, <1>21 DEF Cascade, Turn, Place, Tables
    <2>2. Found(see, o, "arrangement") = {r \in see : table[r] = "arrangement" /\ OrgOf(r) = o}
      BY <1>3, <1>6 DEF Found
    <2> QED BY <2>1, <2>2
  <1>22. CASE k = 10
    <2>1. Cascade[k] = "membership" /\ \A r \in see : Turn(r) = k <=> table[r] = "membership"
      BY <1>12, <1>22 DEF Cascade, Turn, Place, Tables
    <2>2. Found(see, o, "membership") = {r \in see : table[r] = "membership" /\ OrgOf(r) = o}
      BY <1>1, <1>11 DEF Found
    <2> QED BY <2>1, <2>2
  <1>23. CASE k = 11
    <2>1. Cascade[k] = "row" /\ \A r \in see : Turn(r) = k <=> table[r] = "organization"
      BY <1>12, <1>23 DEF Cascade, Turn, Place, Tables
    <2>2. Found(see, o, "row") = see \cap {o}
      BY DEF Found
    <2>3. \A r \in see : table[r] = "organization" /\ OrgOf(r) = o <=> r = o
      BY DEF OrgOf, Orgs, Of
    <2> QED BY <2>1, <2>2, <2>3
  <1> QED BY <1>13, <1>14, <1>15, <1>16, <1>17, <1>18, <1>19, <1>20, <1>21, <1>22, <1>23

(***************************************************************************)
(* The course of a request.                                                *)
(***************************************************************************)
\* A request that has no work under way is as far as it will come.
LEMMA Nowhere ==
    ASSUME NEW t, t.at \in {"idle", "found", "audit", "victim", "refused"},
           t.at = "refused" => t.do \notin Cascades, t.row \in born \cup {none}, t.do # "remove"
    PROVE  Far(t)
  BY DEF Far, Known, Planned, Aimed, Swept, Queued, Outrun, Working

\* What a step does to the requests it is not about, unless it inserts a row.
LEMMA CourseElsewhere ==
    ASSUME Course, NEW d \in Clients, tx'[d] = tx[d], there' \subseteq there, born \subseteq born'
    PROVE  Far(tx[d])'
  <1>1. Far(tx[d])
    BY DEF Course
  <1>2. Known(tx[d])' /\ Outrun(tx[d])'
    BY <1>1 DEF Far, Known, Outrun
  <1>3. Planned(tx[d])'
    BY <1>1 DEF Far, Planned
  <1>4. Aimed(tx[d])'
    BY <1>1 DEF Far, Aimed, Now
  <1>5. Queued(tx[d])'
    BY <1>1 DEF Far, Queued, Locked
  <1>6. Swept(tx[d])'
    BY <1>1 DEF Far, Swept, Now
  <1> QED BY <1>2, <1>3, <1>4, <1>5, <1>6 DEF Far

LEMMA CoursePlain ==
    ASSUME Inv, Course, NEW c \in Clients, NEW t, tx' = [tx EXCEPT ![c] = t],
           there' \subseteq there, born \subseteq born', Far(t)',
           \/ t.row = none /\ ~Pending(t)
           \/ t.row = tx[c].row /\ (Pending(t) => Pending(tx[c]))
           \/ t.row \in there /\ ~Pending(t)
           \/ t.row \in Rows \ born
    PROVE  Course'
  <1>1. tx'[c] = t /\ \A d \in Clients \ {c} : tx'[d] = tx[d]
    BY DEF Inv
  <1>2. \A d \in Clients \ {c} : Far(tx[d])'
    BY <1>1, CourseElsewhere
  <1>3. Far(tx[c])'
    <2>1. Known(tx[c])' /\ Outrun(tx[c])' /\ Planned(tx[c])'
      BY <1>1 DEF Far, Known, Outrun, Planned
    <2>2. Aimed(tx[c])' /\ Swept(tx[c])'
      BY <1>1 DEF Far, Aimed, Swept, Now
    <2>3. Queued(tx[c])'
      <3>1. Queued(t)
        BY DEF Far, Queued, Locked
      <3>2. Locked(tx[c])' = Locked(t) /\ tx'[c] = t
        BY <1>1 DEF Locked
      <3>3. t.at = "insert" =>
               /\ Locked(t) \in Nat
               /\ \A i \in 1..Len(t.todo) : t.todo[i] = refs[t.row][Locked(t) + i]
        BY <3>1 DEF Queued
      <3>4. t.at = "insert" => \A r \in t.share : \E j \in 1..Locked(t) : r = refs[t.row][j]
        BY <3>1 DEF Queued
      <3> HIDE DEF Locked
      <3>5. tx'[c].at = "insert" =>
               /\ Locked(tx[c])' \in Nat
               /\ \A i \in 1..Len(tx'[c].todo) :
                     tx'[c].todo[i] = refs[tx'[c].row][Locked(tx[c])' + i]
        BY <3>2, <3>3
      <3>6. tx'[c].at = "insert" =>
               \A r \in tx'[c].share : \E j \in 1..Locked(tx[c])' : r = refs[tx'[c].row][j]
        BY <3>2, <3>4
      <3> QED BY <3>5, <3>6, Zenon DEF Queued
    <2> QED BY <2>1, <2>2, <2>3 DEF Far
  <1>4. /\ \A d \in Clients : tx[d].row \in born \cup {none}
        /\ \A d \in Clients : Pending(tx[d]) => tx[d].row \in born /\ tx[d].row # none
        /\ there \subseteq born /\ none \notin Rows /\ born \subseteq Rows
    <2>1. \A d \in Clients : Far(tx[d]) /\ Good(tx[d])
      BY DEF Course, Inv
    <2>2. there \subseteq born /\ none \notin Rows /\ born \subseteq Rows
      BY Schema DEF Inv, Typed
    <2> QED BY <2>1, <2>2 DEF Far, Known, Good, Shaped, Pending
  <1>5. Fresh'
    <2> SUFFICES \A e \in Clients : Pending(tx'[e]) =>
                    tx'[e].row \notin there' /\ \A d \in Clients \ {e} : tx'[d].row # tx'[e].row
      BY DEF Fresh, Pending
    <2> SUFFICES ASSUME NEW e \in Clients, Pending(tx'[e])
                 PROVE  tx'[e].row \notin there' /\ \A d \in Clients \ {e} : tx'[d].row # tx'[e].row
      OBVIOUS
    <2>1. Fresh
      BY DEF Course
    <2>2. CASE e # c
      <3>1. /\ Pending(tx[e]) /\ tx'[e] = tx[e] /\ tx[e].row \notin there
            /\ tx[e].row \in born /\ tx[e].row # none
            /\ \A d \in Clients \ {e} : tx[d].row # tx[e].row
        BY <1>1, <1>4, <2>1, <2>2 DEF Fresh
      <3>2. t.row # tx[e].row
        BY <2>2, <3>1
      <3>3. \A d \in Clients \ {e} : tx'[d].row # tx[e].row
        BY <1>1, <3>1, <3>2
      <3> QED BY <3>1, <3>3
    <2>4. CASE e = c
      <3>1. tx'[e] = t /\ \A d \in Clients \ {e} : tx'[d] = tx[d]
        BY <1>1, <2>4
      <3>2. Pending(t)
        BY <2>4, <3>1
      <3>3. CASE t.row = tx[c].row /\ Pending(tx[c])
        BY <1>4, <2>1, <2>4, <3>1, <3>3 DEF Fresh
      <3>4. CASE t.row \in Rows \ born
        BY <1>4, <3>1, <3>4
      <3> QED BY <3>1, <3>2, <3>3, <3>4
    <2> QED BY <2>2, <2>4
  <1> QED BY <1>2, <1>3, <1>5 DEF Course

LEMMA CourseBegins ==
    ASSUME Inv, Course, NEW c \in Clients, NEW do \in Doing, NEW r \in Rows,
           NEW at \in {"found", "statement"}, NEW plan,
           Begin(c, do, r, at, plan), UNCHANGED there, born \subseteq born', r \in born',
           \/ r \in there /\ do \notin Inserting
           \/ r \notin born,
           at = "statement" => /\ r \in there
                               /\ IF do \in Cascades THEN r \in Orgs /\ plan = Cascade
                                  ELSE plan = <<"row">>,
           do = "remove" =>
              table[r] \in {"membership", "part_assignment", "arrangement_tag", "file", "work"}
    PROVE  Course'
  <1>1. PICK t : t = Request(do, r, at, plan, FALSE)
    OBVIOUS
  <1>2. tx' = [tx EXCEPT ![c] = t]
    BY <1>1 DEF Begin, Go
  <1>3. /\ t.do = do /\ t.at = at /\ t.row = r /\ t.plan = plan /\ t.rows = {} /\ t.taken = {}
        /\ t.share = {} /\ t.gone = {} /\ t.raced = FALSE
    BY <1>1 DEF Request
  <1>4. Known(t)' /\ Queued(t)' /\ Outrun(t)'
    BY <1>3 DEF Known, Queued, Outrun
  <1>9. at = "statement" => t.plan = (IF do \in Cascades THEN Cascade ELSE <<"row">>)
    BY <1>3
  <1>10. Cascade \in Seq(Statements) /\ Len(Cascade) = 11
    BY DEF Cascade, Statements
  <1>5. Planned(t)'
    <2>1. CASE at = "statement" /\ do \in Cascades
      <3>1. t.plan = Cascade /\ Len(t.plan) = 11
        BY <1>9, <1>10, <2>1
      <3> QED BY <1>3, <2>1, <3>1 DEF Planned
    <2>2. CASE at = "statement" /\ do \notin Cascades
      BY <1>3, <1>9, <2>2 DEF Planned
    <2>3. CASE at = "found"
      BY <1>3, <2>3 DEF Planned
    <2> QED BY <2>1, <2>2, <2>3
  <1>6. Aimed(t)'
    BY <1>3 DEF Aimed, Working
  <1>7. Swept(t)'
    <2>1. t.at = "statement" /\ t.do \in Cascades => Now(t) = 1
      <3> SUFFICES ASSUME t.at = "statement", t.do \in Cascades PROVE Now(t) = 1
        OBVIOUS
      <3>1. t.plan = Cascade
        BY <1>3, <1>9
      <3>2. Len(t.plan) = 11
        BY <1>10, <3>1
      <3> QED BY <3>2 DEF Now
    <2>2. \A x \in there : Turn(x) >= 1
      BY Turns DEF Inv, Typed
    <2> QED BY <1>3, <2>1, <2>2 DEF Swept, Now
  <1>8. Far(t)'
    BY <1>4, <1>5, <1>6, <1>7 DEF Far
  <1> QED BY <1>2, <1>3, <1>8, CoursePlain DEF Pending

LEMMA CourseEnds ==
    ASSUME Inv, Course, NEW c \in Clients, NEW at \in {"refused", "victim", "audit"}, Ends(c, at),
           there' \subseteq there, UNCHANGED born,
           at = "refused" /\ tx[c].do \in Cascades => tx[c].raced \/ tx[c].row \notin there'
    PROVE  Course'
  <1>1. PICK t : t = Request(tx[c].do, tx[c].row, at, << >>, tx[c].raced)
    OBVIOUS
  <1>2. tx' = [tx EXCEPT ![c] = t]
    BY <1>1 DEF Ends, Go
  <1>3. t.do = tx[c].do /\ t.at = at /\ t.row = tx[c].row /\ t.raced = tx[c].raced
    BY <1>1 DEF Request
  <1>4. Known(t)'
    BY <1>3 DEF Course, Far, Known
  <1>5. Planned(t)' /\ Aimed(t)' /\ Swept(t)' /\ Queued(t)' /\ Outrun(t)'
    BY <1>3 DEF Planned, Aimed, Swept, Queued, Outrun, Working
  <1>6. Far(t)'
    BY <1>4, <1>5 DEF Far
  <1> QED BY <1>2, <1>3, <1>6, CoursePlain DEF Pending

LEMMA CourseRests ==
    ASSUME Inv, Course, NEW c \in Clients, tx' = [tx EXCEPT ![c] = Idle],
           there' \subseteq there, UNCHANGED born
    PROVE  Course'
  <1>1. Idle.at = "idle" /\ Idle.row = none /\ Idle.do = "none"
    BY DEF Idle, Request
  <1>2. Far(Idle)'
    BY <1>1 DEF Far, Known, Planned, Aimed, Swept, Queued, Outrun, Working
  <1> QED BY <1>1, <1>2, CoursePlain DEF Pending

LEMMA CourseHandlers ==
    ASSUME Inv, Course, NEW c \in Clients,
           \/ create_org(c) \/ create_org_submit(c) \/ create_user(c) \/ create_user_submit(c)
           \/ create_admin(c) \/ update_org(c) \/ delete_org(c) \/ delete_org_submit(c) \/ delete_user(c)
           \/ delete_user_submit(c) \/ Add(c) \/ RemoveBelow(c)
    PROVE  Course'
  <1> USE DEF Inserting, Cascades
  <1>1. born \subseteq Rows /\ there \subseteq born /\ Orgs \subseteq Rows /\ Users \subseteq Rows
    BY Schema DEF Inv, Typed
  <1>2. CASE create_org(c) \/ create_org_submit(c)
    <2>1. PICK o \in Orgs \ born : Begin(c, "create_org", o, "found", << >>) /\ born' = born \cup {o}
      BY <1>2 DEF create_org, create_org_submit
    <2>2. UNCHANGED there
      BY <1>2 DEF create_org, create_org_submit
    <2> QED BY <1>1, <2>1, <2>2, CourseBegins DEF Doing
  <1>3. CASE create_user(c) \/ create_user_submit(c) \/ create_admin(c)
    <2>1. PICK u \in Users \ born : Begin(c, "create_user", u, "found", << >>) /\ born' = born \cup {u}
      BY <1>3 DEF create_user, create_user_submit, create_admin
    <2>2. UNCHANGED there
      BY <1>3 DEF create_user, create_user_submit, create_admin
    <2> QED BY <1>1, <2>1, <2>2, CourseBegins DEF Doing
  <1>4. CASE update_org(c)
    <2>1. PICK o \in Orgs \cap there : Begin(c, "update_org", o, "found", << >>)
      BY <1>4 DEF update_org
    <2>2. UNCHANGED <<there, born>>
      BY <1>4 DEF update_org
    <2> QED BY <1>1, <2>1, <2>2, CourseBegins DEF Doing
  <1>5. CASE delete_org(c)
    <2>1. PICK o \in Orgs \cap there : Begin(c, "delete_org", o, "statement", Cascade)
      BY <1>5 DEF delete_org
    <2>2. UNCHANGED <<there, born>>
      BY <1>5 DEF delete_org
    <2> QED BY <1>1, <2>1, <2>2, CourseBegins DEF Doing
  <1>6. CASE delete_org_submit(c)
    <2>1. PICK o \in Orgs \cap there : Begin(c, "delete_org_submit", o, "statement", Cascade)
      BY <1>6 DEF delete_org_submit
    <2>2. UNCHANGED <<there, born>>
      BY <1>6 DEF delete_org_submit
    <2> QED BY <1>1, <2>1, <2>2, CourseBegins DEF Doing
  <1>7. CASE delete_user(c) \/ delete_user_submit(c)
    <2>1. PICK u \in Users \cap there : Begin(c, "delete_user", u, "statement", <<"row">>)
      BY <1>7 DEF delete_user, delete_user_submit
    <2>2. UNCHANGED <<there, born>>
      BY <1>7 DEF delete_user, delete_user_submit
    <2> QED BY <1>1, <2>1, <2>2, CourseBegins DEF Doing
  <1>8. CASE Add(c)
    <2>1. PICK r \in Rows \ born : Begin(c, "add", r, "found", << >>) /\ born' = born \cup {r}
      BY <1>8 DEF Add
    <2>2. UNCHANGED there
      BY <1>8 DEF Add
    <2> QED BY <1>1, <2>1, <2>2, CourseBegins DEF Doing
  <1>9. CASE RemoveBelow(c)
    <2>1. PICK r \in there :
             /\ table[r] \in {"membership", "part_assignment", "arrangement_tag", "file", "work"}
             /\ Begin(c, "remove", r, "statement", <<"row">>)
      BY <1>9 DEF RemoveBelow
    <2>2. UNCHANGED <<there, born>>
      BY <1>9 DEF RemoveBelow
    <2> QED BY <1>1, <2>1, <2>2, CourseBegins DEF Doing
  <1> QED BY <1>2, <1>3, <1>4, <1>5, <1>6, <1>7, <1>8, <1>9

LEMMA CourseCloses ==
    ASSUME Inv, Course, NEW c \in Clients,
           update_name(c) \/ Audit(c) \/ Answer(c) \/ Victim(c) \/ Drop(c) \/ Insert(c) \/ LockParent(c)
    PROVE  Course'
  <1>1. CASE update_name(c)
    BY <1>1, CourseEnds DEF update_name, Cascades
  <1>2. CASE Audit(c) \/ Answer(c) \/ Drop(c)
    BY <1>2, CourseRests DEF Audit, Answer, Drop, Go
  <1>3. CASE Victim(c)
    BY <1>3, CourseEnds DEF Victim
  <1> DEFINE q == tx[c]
  <1>4. q \in Requests /\ Good(q) /\ Far(q)
    BY Before DEF Course
  <1>5. CASE Insert(c)
    <2>1. CASE Ends(c, "refused")
      BY <1>5, <2>1, CourseEnds DEF Insert, Cascades
    <2>2. CASE Go(c, [tx[c] EXCEPT !.at = "insert", !.todo = refs[tx[c].row]])
      <3>1. PICK t : t = [q EXCEPT !.at = "insert", !.todo = refs[q.row]]
        OBVIOUS
      <3>2. tx' = [tx EXCEPT ![c] = t]
        BY <2>2, <3>1 DEF Go
      <3>3. /\ t.at = "insert" /\ t.todo = refs[q.row] /\ t.row = q.row /\ t.do = q.do
            /\ t.share = q.share
        BY <1>4, <3>1 DEF Requests
      <3>4. q.at = "found" /\ q.do \in Inserting /\ UNCHANGED <<there, born>> /\ q.share = {}
            /\ q.row \in Rows
        BY <1>4, <1>5 DEF Insert, Inserting, Good, Holds, Shaped
      <3>5. Queued(t)'
        <4>1. refs[q.row] \in Seq(Rows)
          BY <3>4, Schema
        <4>2. Locked(t) = 0
          BY <3>3, <4>1 DEF Locked
        <4> HIDE DEF Locked
        <4>3. \A i \in 1..Len(t.todo) : t.todo[i] = refs[t.row][Locked(t) + i]
          BY <3>3, <4>2
        <4> QED BY <3>3, <3>4, <4>2, <4>3 DEF Queued, Locked
      <3>6. Far(t)'
        BY <1>4, <3>3, <3>4, <3>5 DEF Far, Known, Planned, Aimed, Swept, Outrun, Working
      <3> QED BY <3>2, <3>3, <3>4, <3>6, CoursePlain DEF Pending
    <2> QED BY <1>5, <2>1, <2>2 DEF Insert
  <1>6. CASE LockParent(c)
    <2>1. q.at = "insert" /\ q.todo # << >> /\ q.do \in Inserting /\ UNCHANGED <<there, born>>
      BY <1>4, <1>6 DEF LockParent, Good, Shaped
    <2>2. CASE Ends(c, "refused")
      BY <2>1, <2>2, CourseEnds DEF Cascades, Inserting
    <2>3. CASE Go(c, [tx[c] EXCEPT !.share = @ \cup {Head(tx[c].todo)}, !.todo = Tail(@)])
      <3>1. PICK p, u : p = Head(q.todo) /\ u = Tail(q.todo)
        OBVIOUS
      <3>2. PICK t : t = [q EXCEPT !.share = q.share \cup {p}, !.todo = u]
        OBVIOUS
      <3>3. tx' = [tx EXCEPT ![c] = t]
        BY <2>3, <3>1, <3>2 DEF Go
      <3>4. /\ t.at = "insert" /\ t.todo = u /\ t.row = q.row /\ t.do = q.do
            /\ t.share = q.share \cup {p}
        BY <1>4, <2>1, <3>2 DEF Requests
      <3>5. PICK s, n : s = q.todo /\ n = Locked(q)
        OBVIOUS
      <3>6. /\ s \in Seq(Rows) /\ s # << >> /\ n \in Nat /\ p = s[1] /\ u \in Seq(Rows)
            /\ Len(u) = Len(s) - 1 /\ \A i \in 1..Len(s) - 1 : u[i] = s[i + 1]
        BY <1>4, <2>1, <3>1, <3>5, Fields, HeadTailProperties DEF Far, Queued
      <3>7. /\ \A i \in 1..Len(s) : s[i] = refs[q.row][n + i]
            /\ \A r \in q.share : \E j \in 1..n : r = refs[q.row][j]
        BY <1>4, <2>1, <3>5 DEF Far, Queued
      <3>8. Locked(t) = n + 1
        <4>1. refs[q.row] \in Seq(Rows)
          BY <1>4, <2>1, Schema DEF Good, Shaped
        <4>2. Len(refs[q.row]) \in Nat /\ Len(s) \in Nat
          BY <3>6, <4>1
        <4> QED BY <3>4, <3>5, <3>6, <4>2 DEF Locked
      <3>9. \A i \in 1..Len(u) : u[i] = refs[q.row][n + 1 + i]
        <4> SUFFICES ASSUME NEW i \in 1..Len(u) PROVE u[i] = refs[q.row][n + 1 + i]
          OBVIOUS
        <4>1. i + 1 \in 1..Len(s) /\ u[i] = s[i + 1] /\ n + (i + 1) = n + 1 + i
          BY <3>6
        <4> QED BY <3>7, <4>1
      <3>10. \A r \in t.share : \E j \in 1..(n + 1) : r = refs[q.row][j]
        <4>1. 1 \in 1..Len(s) /\ n + 1 \in 1..(n + 1)
          BY <3>6
        <4>2. p = refs[q.row][n + 1]
          BY <3>6, <3>7, <4>1
        <4>3. 1..n \subseteq 1..(n + 1)
          BY <3>6
        <4> QED BY <3>4, <3>7, <4>1, <4>2, <4>3
      <3>11. Queued(t)'
        <4>1. Queued(t)
          <5> HIDE DEF Locked
          <5>1. Locked(t) \in Nat
            BY <3>6, <3>8
          <5>2. \A i \in 1..Len(t.todo) : t.todo[i] = refs[t.row][Locked(t) + i]
            BY <3>4, <3>8, <3>9
          <5>3. \A r \in t.share : \E j \in 1..Locked(t) : r = refs[t.row][j]
            BY <3>4, <3>8, <3>10
          <5> QED BY <5>1, <5>2, <5>3 DEF Queued
        <4> QED BY <4>1 DEF Queued, Locked
      <3>12. Far(t)'
        BY <1>4, <2>1, <3>4, <3>11 DEF Far, Known, Planned, Aimed, Swept, Outrun, Working
      <3> QED BY <2>1, <3>3, <3>4, <3>12, CoursePlain DEF Pending
    <2> QED BY <1>6, <2>2, <2>3 DEF LockParent
  <1> QED BY <1>1, <1>2, <1>3, <1>5, <1>6

LEMMA CourseInserted ==
    ASSUME Inv, Course, NEW c \in Clients, Inserted(c)
    PROVE  Course'
  <1>1. tx[c].at = "insert" /\ there' = there \cup {tx[c].row} /\ UNCHANGED born
    BY DEF Inserted
  <1>2. Pending(tx[c]) /\ tx[c].row \in born /\ tx[c].row \in Rows
    BY <1>1, Before DEF Good, Shaped, Pending
  <1>3. ASSUME NEW d \in Clients \ {c}
        PROVE  /\ tx'[d].at = tx[d].at /\ tx'[d].do = tx[d].do /\ tx'[d].row = tx[d].row
               /\ tx'[d].share = tx[d].share /\ tx'[d].gone = tx[d].gone
               /\ tx'[d].taken = tx[d].taken /\ tx'[d].todo = tx[d].todo /\ tx'[d].plan = tx[d].plan
               /\ tx'[d].rows = tx[d].rows
               /\ tx'[d].raced = (tx[d].at \in {"statement", "rows"} \/ tx[d].raced)
    <2>1. PICK t, b : t = tx[d] /\ b = (t.at \in {"statement", "rows"} \/ t.raced)
      OBVIOUS
    <2>2. t \in Requests /\ b \in BOOLEAN
      BY <2>1, Before, Fields
    <2>3. PICK e : e = [t EXCEPT !.raced = b]
      OBVIOUS
    <2>4. tx'[d] = e
      BY <2>1, <2>3 DEF Inserted
    <2> QED BY <2>1, <2>2, <2>3, <2>4, SetRaced
  <1>4. ASSUME NEW d \in Clients \ {c}
        PROVE  Far(tx[d])'
    <2>1. Far(tx[d])
      BY DEF Course
    <2>2. Known(tx[d])' /\ Planned(tx[d])'
      <3>1. Known(tx[d])'
        BY <1>1, <1>3, <2>1 DEF Far, Known
      <3>2. PICK p : p = tx[d].plan
        OBVIOUS
      <3>3. /\ tx[d].plan = p /\ tx'[d].plan = p /\ tx'[d].at = tx[d].at /\ tx'[d].do = tx[d].do
            /\ Planned(tx[d])
        BY <1>3, <2>1, <3>2 DEF Far
      <3>4. tx[d].at \in {"statement", "rows"} =>
               IF tx[d].do \in Cascades
               THEN Len(p) \in 1..11 /\ \A i \in 1..Len(p) : p[i] = Cascade[11 - Len(p) + i]
               ELSE p = <<"row">>
        BY <3>3 DEF Planned
      <3>5. Planned(tx[d])'
        BY <3>3, <3>4 DEF Planned
      <3> QED BY <3>1, <3>5
    <2>3. Aimed(tx[d])'
      BY <1>3, <2>1 DEF Far, Aimed, Now
    <2>4. Swept(tx[d])'
      BY <1>3 DEF Swept
    <2>5. Queued(tx[d])'
      <3>1. Locked(tx[d])' = Locked(tx[d])
        BY <1>3 DEF Locked
      <3> HIDE DEF Locked
      <3> QED BY <1>3, <2>1, <3>1 DEF Far, Queued
    <2>6. Outrun(tx[d])'
      <3>1. tx[d].row # tx[c].row
        BY <1>2 DEF Course, Fresh
      <3> QED BY <1>1, <1>3, <2>1, <3>1 DEF Far, Outrun
    <2> QED BY <2>2, <2>3, <2>4, <2>5, <2>6 DEF Far
  <1>5. /\ tx'[c].at \in {"idle", "audit"} /\ tx'[c].row \in {none, tx[c].row}
        /\ tx'[c].at = "idle" => tx'[c].row = none
        /\ tx'[c].do # "remove"
    <2>1. tx'[c] = IF tx[c].do = "add" THEN Idle
                   ELSE Request(tx[c].do, tx[c].row, "audit", << >>, FALSE)
      BY DEF Inserted
    <2> QED BY <1>2, <2>1 DEF Idle, Request, Pending, Inserting
  <1>6. Far(tx[c])'
    BY <1>1, <1>2, <1>5 DEF Far, Known, Planned, Aimed, Swept, Queued, Outrun, Working
  <1>7. Fresh'
    <2> SUFFICES \A e \in Clients : Pending(tx'[e]) =>
                    tx'[e].row \notin there' /\ \A d \in Clients \ {e} : tx'[d].row # tx'[e].row
      BY DEF Fresh, Pending
    <2> SUFFICES ASSUME NEW e \in Clients, Pending(tx'[e])
                 PROVE  tx'[e].row \notin there' /\ \A d \in Clients \ {e} : tx'[d].row # tx'[e].row
      OBVIOUS
    <2>1. e # c
      BY <1>5 DEF Pending
    <2>2. Pending(tx[e]) /\ tx'[e].row = tx[e].row
      BY <1>3, <2>1 DEF Pending
    <2>3. tx[e].row \notin there /\ \A d \in Clients \ {e} : tx[d].row # tx[e].row
      BY <2>2 DEF Course, Fresh
    <2>4. tx[e].row \in Rows /\ none \notin Rows
      BY <2>2, Before, Schema DEF Good, Shaped, Pending
    <2>5. \A d \in Clients \ {e} : tx'[d].row \in {none, tx[d].row}
      BY <1>3, <1>5
    <2> QED BY <1>1, <2>1, <2>2, <2>3, <2>4, <2>5
  <1> QED BY <1>4, <1>6, <1>7 DEF Course

\* What the head of the plan is.
LEMMA Heads ==
    ASSUME NEW t \in Requests, Planned(t), t.at \in {"statement", "rows"}
    PROVE  IF t.do \in Cascades
           THEN /\ Now(t) \in 1..11 /\ Head(t.plan) = Cascade[Now(t)]
                /\ (Len(t.plan) > 1 <=> Now(t) < 11)
           ELSE Head(t.plan) = "row" /\ Len(t.plan) = 1
  <1>1. PICK s : s = t.plan
    OBVIOUS
  <1>2. s \in Seq(Statements)
    BY <1>1, Fields
  <1>3. CASE t.do \in Cascades
    <2>1. PICK n : n = Len(s)
      OBVIOUS
    <2>2. n \in 1..11 /\ \A i \in 1..n : s[i] = Cascade[11 - n + i]
      BY <1>1, <1>3, <2>1 DEF Planned
    <2>3. 1 \in 1..n /\ 11 - n + 1 = 12 - n
      BY <2>2
    <2>4. Head(s) = s[1]
      <3>1. s # << >>
        BY <2>1, <2>2
      <3> QED BY <1>2, <3>1, HeadTailProperties
    <2>5. Head(s) = Cascade[12 - n]
      BY <2>2, <2>3, <2>4
    <2>6. Now(t) = 12 - n
      BY <1>1, <2>1 DEF Now
    <2>7. 12 - n \in 1..11 /\ (n > 1 <=> 12 - n < 11)
      BY <2>2
    <2> QED BY <1>1, <1>3, <2>1, <2>5, <2>6, <2>7
  <1>4. CASE t.do \notin Cascades
    BY <1>1, <1>4 DEF Planned
  <1> QED BY <1>3, <1>4

LEMMA CourseStatement ==
    ASSUME Inv, Course, NEW c \in Clients, Statement(c)
    PROVE  Course'
  <1> DEFINE q == tx[c]
  <1>1. q.at = "statement" /\ UNCHANGED <<there, born>>
    BY DEF Statement
  <1>2. q \in Requests /\ Good(q) /\ Far(q) /\ there \subseteq Rows
    BY Before DEF Course
  <1>3. PICK f : f = Found(there \ q.gone, q.row, Head(q.plan))
    OBVIOUS
  <1>4. PICK t : t = [q EXCEPT !.at = "rows", !.taken = {}, !.rows = f]
    OBVIOUS
  <1>5. tx' = [tx EXCEPT ![c] = t]
    BY <1>3, <1>4 DEF Statement, Go
  <1>6. /\ t.at = "rows" /\ t.do = q.do /\ t.row = q.row /\ t.plan = q.plan /\ t.rows = f
        /\ t.taken = {} /\ t.share = q.share /\ t.gone = q.gone /\ t.raced = q.raced
    BY <1>2, <1>4 DEF Requests
  <1>7. Now(t) = Now(q)
    BY <1>6 DEF Now
  <1> HIDE DEF Now
  <1>8. q.do \in Cascades => /\ q.row \in Orgs /\ Now(q) \in 1..11
                             /\ f = {r \in there \ q.gone : OrgOf(r) = q.row /\ Turn(r) = Now(q)}
    <2> SUFFICES ASSUME q.do \in Cascades
                 PROVE  /\ q.row \in Orgs /\ Now(q) \in 1..11
                        /\ f = {r \in there \ q.gone : OrgOf(r) = q.row /\ Turn(r) = Now(q)}
      OBVIOUS
    <2>1. q.row \in Orgs
      BY <1>1, <1>2 DEF Far, Aimed, Working
    <2>2. Now(q) \in 1..11 /\ Head(q.plan) = Cascade[Now(q)]
      BY <1>1, <1>2, Heads DEF Far
    <2>3. PICK see : see = there \ q.gone
      OBVIOUS
    <2>4. \A r \in see : Range(refs[r]) \subseteq see
      BY <1>1, <1>2, <2>3 DEF Inv, ReferencesHold, Good, Cut
    <2>5. Found(see, q.row, Cascade[Now(q)]) = {r \in see : OrgOf(r) = q.row /\ Turn(r) = Now(q)}
      <3>1. see \in SUBSET Rows
        BY <1>2, <2>3
      <3>2. PICK o, k : o = q.row /\ k = Now(q)
        OBVIOUS
      <3>3. o \in Orgs /\ k \in 1..11
        BY <2>1, <2>2, <3>2
      <3>4. Found(see, o, Cascade[k]) = {r \in see : OrgOf(r) = o /\ Turn(r) = k}
        BY <2>4, <3>1, <3>3, FindsAll
      <3> QED BY <3>2, <3>4
    <2> QED BY <1>3, <2>1, <2>2, <2>3, <2>5
  <1>9. q.do \notin Cascades => f \subseteq {q.row} /\ f \cap q.gone = {}
    <2>1. q.do \notin Cascades => Head(q.plan) = "row"
      BY <1>1, <1>2, Heads DEF Far
    <2>2. Found(there \ q.gone, q.row, "row") = (there \ q.gone) \cap {q.row}
      BY DEF Found
    <2> QED BY <1>3, <2>1, <2>2
  <1>10. Known(t)' /\ Planned(t)' /\ Queued(t)' /\ Outrun(t)'
    <2>1. Known(t)' /\ Queued(t)' /\ Outrun(t)'
      BY <1>1, <1>2, <1>6 DEF Far, Known, Queued, Outrun
    <2>2. Planned(q)
      BY <1>2 DEF Far
    <2>3. Planned(t)
      BY <1>1, <1>6, <2>2 DEF Planned
    <2> QED BY <2>1, <2>3 DEF Planned
  <1>11. Aimed(t)
    <2>1. Aimed(q)
      BY <1>2 DEF Far
    <2>2. \A r \in q.gone : q.do \in Cascades => OrgOf(r) = q.row /\ Turn(r) < Now(q)
      BY <1>1, <2>1 DEF Aimed, Working
    <2>3. q.do \notin Cascades => q.gone \subseteq {q.row}
      BY <1>1, <2>1 DEF Aimed, Working
    <2> QED BY <1>6, <1>7, <1>8, <1>9, <2>2, <2>3 DEF Aimed
  <1>12. Aimed(t)'
    BY <1>11 DEF Aimed, Now
  <1>13. Swept(t)
    <2>1. Swept(q)
      BY <1>2 DEF Far
    <2> QED BY <1>1, <1>6, <1>7, <1>8, <2>1 DEF Swept
  <1>14. Swept(t)'
    BY <1>1, <1>13 DEF Swept, Now
  <1>15. Far(t)'
    BY <1>10, <1>12, <1>14 DEF Far
  <1> QED BY <1>1, <1>5, <1>6, <1>15, CoursePlain DEF Pending

LEMMA CourseTakesRow ==
    ASSUME Inv, Course, NEW c \in Clients, TakeRow(c)
    PROVE  Course'
  <1> DEFINE q == tx[c]
  <1>1. q.at = "rows" /\ UNCHANGED <<there, born>>
    BY DEF TakeRow
  <1>2. q \in Requests /\ Good(q) /\ Far(q) /\ there \subseteq Rows
    BY Before DEF Course
  <1>3. PICK r \in q.rows :
           Go(c, [tx[c] EXCEPT !.rows = @ \ {r}, !.taken = @ \cup ({r} \cap there),
                               !.gone = @ \cup ({r} \cap there)])
    BY DEF TakeRow
  <1>4. PICK mine : mine = {r} \cap there
    OBVIOUS
  <1>5. PICK t : t = [q EXCEPT !.rows = q.rows \ {r}, !.taken = q.taken \cup mine,
                               !.gone = q.gone \cup mine]
    OBVIOUS
  <1>6. tx' = [tx EXCEPT ![c] = t]
    BY <1>3, <1>4, <1>5 DEF Go
  <1>7. /\ t.at = "rows" /\ t.do = q.do /\ t.row = q.row /\ t.plan = q.plan /\ t.raced = q.raced
        /\ t.rows = q.rows \ {r} /\ t.taken = q.taken \cup mine /\ t.gone = q.gone \cup mine
    BY <1>1, <1>2, <1>5 DEF Requests
  <1>8. Now(t) = Now(q)
    BY <1>7 DEF Now
  <1> HIDE DEF Now
  <1>9. Known(t)' /\ Planned(t)' /\ Queued(t)' /\ Outrun(t)'
    <2>1. Known(t)' /\ Queued(t)' /\ Outrun(t)'
      BY <1>1, <1>2, <1>7 DEF Far, Known, Queued, Outrun
    <2>2. Planned(q)
      BY <1>2 DEF Far
    <2>3. Planned(t)
      BY <1>1, <1>7, <2>2 DEF Planned
    <2> QED BY <2>1, <2>3 DEF Planned
  <1>10. Aimed(t)
    <2>1. Aimed(q)
      BY <1>2 DEF Far
    <2>2. q.do \in Cascades =>
             /\ q.row \in Orgs /\ \A x \in q.gone : OrgOf(x) = q.row
             /\ \A x \in q.gone \ q.taken : Turn(x) < Now(q)
             /\ \A x \in q.rows \cup q.taken : OrgOf(x) = q.row /\ Turn(x) = Now(q)
      BY <1>1, <2>1 DEF Aimed, Working
    <2>3. q.do \notin Cascades => q.gone \subseteq {q.row} /\ q.rows \subseteq {q.row}
      BY <1>1, <2>1 DEF Aimed, Working
    <2>4. q.rows \cap q.gone = {} /\ mine \subseteq {r}
      BY <1>1, <1>4, <2>1 DEF Aimed
    <2>5. q.do \in Cascades =>
             /\ \A x \in t.gone : OrgOf(x) = q.row
             /\ \A x \in t.gone \ t.taken : Turn(x) < Now(q)
             /\ \A x \in t.rows \cup t.taken : OrgOf(x) = q.row /\ Turn(x) = Now(q)
      BY <1>7, <2>2, <2>4
    <2>6. q.do \notin Cascades => t.gone \subseteq {q.row} /\ t.rows \subseteq {q.row}
      BY <1>7, <2>3, <2>4
    <2>7. t.rows \cap t.gone = {}
      BY <1>7, <2>4
    <2> QED BY <1>7, <1>8, <2>2, <2>5, <2>6, <2>7 DEF Aimed
  <1>11. Aimed(t)'
    BY <1>10 DEF Aimed, Now
  <1>12. Swept(t)
    <2>1. Swept(q)
      BY <1>2 DEF Far
    <2> QED BY <1>1, <1>4, <1>7, <1>8, <2>1 DEF Swept
  <1>13. Swept(t)'
    BY <1>1, <1>12 DEF Swept, Now
  <1>14. Far(t)'
    BY <1>9, <1>11, <1>13 DEF Far
  <1> QED BY <1>1, <1>6, <1>7, <1>14, CoursePlain DEF Pending

\* A cascade that nobody overtook finds no row that still refers to those it has taken.
LEMMA Unreferenced ==
    ASSUME Inv, Course, NEW c \in Clients, tx[c].at = "rows", tx[c].rows = {},
           tx[c].do \in Cascades, ~tx[c].raced
    PROVE  Referrers(c) = {}
  <1> DEFINE q == tx[c]
  <1>1. q \in Requests /\ Good(q) /\ Aimed(q) /\ Swept(q) /\ there \subseteq Rows
    BY Before DEF Course, Far
  <1> SUFFICES ASSUME NEW r \in there \ q.gone, NEW x \in Range(refs[r]) \cap q.taken
               PROVE  FALSE
    BY DEF Referrers
  <1>2. OrgOf(x) = q.row /\ Turn(x) = Now(q) /\ q.row \in Orgs
    BY <1>1 DEF Aimed, Working
  <1>3. x \in Rows /\ x \notin Shared
    <2>1. x \in Rows
      BY <1>1, Fields
    <2>2. x \in Shared => OrgOf(x) = none
      BY DEF OrgOf, Shared, Users, Of
    <2> QED BY <1>2, <2>1, <2>2, Schema
  <1>4. OrgOf(r) = q.row /\ Turn(r) < Turn(x) /\ Turn(r) \in 1..12 /\ Turn(x) \in 1..12
    BY <1>1, <1>2, <1>3, RefersUp, Turns
  <1>5. Turn(r) >= Now(q)
    BY <1>1, <1>4 DEF Swept
  <1> QED BY <1>2, <1>4, <1>5

\* What is left of a plan when its first statement is done.
LEMMA CutPlan ==
    ASSUME NEW t \in Requests, Planned(t), t.at = "rows", NEW e, e.at = "statement",
           e.do = t.do, Len(t.plan) > 1, e.plan = Tail(t.plan)
    PROVE  Planned(e) /\ t.do \in Cascades /\ Now(e) = Now(t) + 1
  <1>1. PICK s, u : s = t.plan /\ u = Tail(s)
    OBVIOUS
  <1>2. PICK n : n = Len(s)
    OBVIOUS
  <1>3. t.do \in Cascades
    <2>1. t.do \notin Cascades => Len(t.plan) = 1
      BY Heads
    <2>2. n > 1 /\ (t.do \notin Cascades => n = 1)
      BY <1>1, <1>2, <2>1
    <2> QED BY <2>2
  <1>4. n \in 1..11 /\ n > 1 /\ \A i \in 1..n : s[i] = Cascade[11 - n + i]
    BY <1>1, <1>2, <1>3 DEF Planned
  <1>5. u \in Seq(Statements) /\ Len(u) = n - 1 /\ \A i \in 1..n - 1 : u[i] = s[i + 1]
    <2>1. s \in Seq(Statements) /\ s # << >>
      BY <1>1, <1>2, <1>4, Fields
    <2> QED BY <1>1, <1>2, <2>1, HeadTailProperties
  <1>6. \A i \in 1..n - 1 : u[i] = Cascade[11 - (n - 1) + i]
    <2> SUFFICES ASSUME NEW i \in 1..n - 1 PROVE u[i] = Cascade[11 - (n - 1) + i]
      OBVIOUS
    <2>1. i + 1 \in 1..n /\ 11 - n + (i + 1) = 11 - (n - 1) + i
      BY <1>4
    <2> QED BY <1>4, <1>5, <2>1
  <1>7. e.plan = u /\ Len(e.plan) = n - 1
    BY <1>1, <1>5
  <1>8. Planned(e)
    <2>1. n - 1 \in 1..11
      BY <1>4
    <2> QED BY <1>3, <1>6, <1>7, <2>1 DEF Planned
  <1>9. Now(e) = Now(t) + 1
    BY <1>1, <1>2, <1>4, <1>7 DEF Now
  <1> QED BY <1>3, <1>8, <1>9

LEMMA CourseEndsStatement ==
    ASSUME Inv, Course, NEW c \in Clients, EndOfStatement(c)
    PROVE  Course'
  <1> DEFINE q == tx[c]
  <1>1. q.at = "rows" /\ q.rows = {} /\ UNCHANGED <<there, born>>
    BY DEF EndOfStatement
  <1>2. q \in Requests /\ Good(q) /\ Far(q) /\ there \subseteq Rows
    BY Before DEF Course
  <1>3. CASE Referrers(c) # {} /\ Ends(c, "refused")
    BY <1>1, <1>3, Unreferenced, CourseEnds
  <1>4. CASE /\ Referrers(c) = {} /\ Len(q.plan) > 1
             /\ Go(c, [tx[c] EXCEPT !.at = "statement", !.plan = Tail(@)])
    <2>1. PICK t : t = [q EXCEPT !.at = "statement", !.plan = Tail(q.plan)]
      OBVIOUS
    <2>2. tx' = [tx EXCEPT ![c] = t]
      BY <1>4, <2>1 DEF Go
    <2>3. /\ t.at = "statement" /\ t.do = q.do /\ t.row = q.row /\ t.plan = Tail(q.plan)
          /\ t.rows = {} /\ t.taken = q.taken /\ t.gone = q.gone /\ t.raced = q.raced
      BY <1>1, <1>2, <2>1 DEF Requests
    <2>4. Planned(t) /\ q.do \in Cascades /\ Now(t) = Now(q) + 1 /\ Now(q) \in 1..11
      <3>1. Planned(q)
        BY <1>2 DEF Far
      <3>2. Planned(t) /\ q.do \in Cascades /\ Now(t) = Now(q) + 1
        BY <1>1, <1>2, <1>4, <2>3, <3>1, CutPlan
      <3> QED BY <1>1, <1>2, <3>1, <3>2, Heads
    <2> HIDE DEF Now
    <2>5. Planned(t)'
      BY <2>4 DEF Planned
    <2>6. Aimed(t)
      <3>1. Aimed(q)
        BY <1>2 DEF Far
      <3>2. /\ q.row \in Orgs /\ \A x \in q.gone : OrgOf(x) = q.row
            /\ \A x \in q.gone \ q.taken : Turn(x) < Now(q)
            /\ \A x \in q.taken : Turn(x) = Now(q)
        BY <1>1, <2>4, <3>1 DEF Aimed, Working
      <3>3. \A x \in q.gone : Turn(x) \in 1..12
        BY <1>2, Fields, Turns
      <3> HIDE DEF q
      <3>4. \A x \in q.gone : Turn(x) < Now(t)
        BY <2>4, <3>2, <3>3
      <3> QED BY <2>3, <2>4, <3>2, <3>4 DEF Aimed
    <2>7. Aimed(t)'
      BY <2>6 DEF Aimed, Now
    <2>8. Swept(t)
      <3>1. Swept(q)
        BY <1>2 DEF Far
      <3>2. ASSUME NEW r \in there \ q.gone, OrgOf(r) = q.row, ~q.raced
            PROVE  Turn(r) >= Now(t)
        <4>1. Turn(r) >= Now(q) /\ Turn(r) # Now(q)
          BY <1>1, <2>4, <3>1, <3>2 DEF Swept
        <4>2. Turn(r) \in 1..12
          BY <1>2, Turns
        <4> QED BY <2>4, <4>1, <4>2
      <3> QED BY <2>3, <3>2 DEF Swept
    <2>9. Swept(t)'
      BY <1>1, <2>8 DEF Swept, Now
    <2>10. Known(t)' /\ Queued(t)' /\ Outrun(t)'
      BY <1>1, <1>2, <2>3 DEF Far, Known, Queued, Outrun
    <2>11. Far(t)'
      BY <2>5, <2>7, <2>9, <2>10 DEF Far
    <2> QED BY <1>1, <2>2, <2>3, <2>11, CoursePlain DEF Pending
  <1>5. ASSUME q.do \in Cascades, ~(Len(q.plan) > 1)
        PROVE  /\ q.taken = {} => q.raced \/ q.row \notin there
               /\ q.taken # {} => q.row \in q.gone
    <2>1. Aimed(q) /\ Swept(q) /\ Planned(q)
      BY <1>2 DEF Far
    <2>2. Now(q) = 11
      BY <1>1, <1>2, <1>5, <2>1, Heads
    <2>3. q.row \in Orgs /\ q.row \in Rows /\ OrgOf(q.row) = q.row /\ Turn(q.row) = 11
      <3>1. q.row \in Orgs /\ q.row \in Rows
        BY <1>1, <1>5, <2>1, Schema DEF Aimed, Working
      <3> QED BY <3>1, Turns DEF OrgOf, Orgs, Of
    <2>4. ASSUME q.taken = {}, ~q.raced, q.row \in there PROVE FALSE
      <3>1. \A x \in q.gone : Turn(x) < 11
        BY <1>1, <1>5, <2>1, <2>2, <2>4 DEF Aimed, Working
      <3>2. q.row \notin q.gone
        BY <2>3, <3>1
      <3>3. q.row \in q.rows
        BY <1>1, <1>5, <2>1, <2>2, <2>3, <2>4, <3>2 DEF Swept
      <3> QED BY <1>1, <3>3
    <2>5. ASSUME NEW x \in q.taken PROVE q.row \in q.gone
      <3>1. OrgOf(x) = q.row /\ Turn(x) = 11 /\ x \in Rows /\ x \in q.gone
        BY <1>1, <1>2, <1>5, <2>1, <2>2, Fields DEF Aimed, Working, Good, Holds
      <3>2. x \in Orgs
        BY <3>1, Turns
      <3> QED BY <3>1, <3>2 DEF OrgOf, Orgs, Of
    <2> QED BY <2>4, <2>5
  <1>6. CASE Referrers(c) = {} /\ ~(Len(q.plan) > 1) /\ q.taken = {} /\ Ends(c, "refused")
    BY <1>1, <1>5, <1>6, CourseEnds
  <1>7. CASE /\ Referrers(c) = {} /\ ~(Len(q.plan) > 1) /\ q.taken # {}
             /\ Go(c, [tx[c] EXCEPT !.at = "commit", !.plan = << >>])
    <2>1. PICK t : t = [q EXCEPT !.at = "commit", !.plan = << >>]
      OBVIOUS
    <2>2. tx' = [tx EXCEPT ![c] = t]
      BY <1>7, <2>1 DEF Go
    <2>3. t.at = "commit" /\ t.do = q.do /\ t.row = q.row /\ t.gone = q.gone /\ t.raced = q.raced
      BY <1>2, <2>1 DEF Requests
    <2>4. Aimed(q)
      BY <1>2 DEF Far
    <2>5. q.row \in q.gone
      <3>1. CASE q.do \in Cascades
        BY <1>5, <1>7, <3>1
      <3>2. CASE q.do \notin Cascades
        <4>1. q.taken \subseteq q.gone /\ q.gone \subseteq {q.row}
          BY <1>1, <1>2, <2>4, <3>2 DEF Aimed, Working, Good, Holds
        <4> QED BY <1>7, <4>1
      <3> QED BY <3>1, <3>2
    <2>6. Aimed(t)'
      <3>1. q.do \in Cascades => q.row \in Orgs /\ \A x \in q.gone : OrgOf(x) = q.row
        BY <1>1, <2>4 DEF Aimed, Working
      <3>2. q.do \notin Cascades => q.gone \subseteq {q.row}
        BY <1>1, <2>4 DEF Aimed, Working
      <3> QED BY <2>3, <2>5, <3>1, <3>2 DEF Aimed
    <2>7. Known(t)' /\ Planned(t)' /\ Swept(t)' /\ Queued(t)' /\ Outrun(t)'
      BY <1>1, <1>2, <2>3 DEF Far, Known, Planned, Swept, Queued, Outrun
    <2>8. Far(t)'
      BY <2>6, <2>7 DEF Far
    <2> QED BY <1>1, <2>2, <2>3, <2>8, CoursePlain DEF Pending
  <1> QED BY <1>3, <1>4, <1>6, <1>7 DEF EndOfStatement

LEMMA CourseDeleted ==
    ASSUME Inv, Course, NEW c \in Clients, Deleted(c)
    PROVE  Course'
  <1>1. there' \subseteq there /\ UNCHANGED born
    BY DEF Deleted
  <1>2. CASE Ends(c, "audit")
    BY <1>1, <1>2, CourseEnds
  <1>3. CASE Go(c, Idle)
    BY <1>1, <1>3, CourseRests DEF Go
  <1> QED BY <1>2, <1>3 DEF Deleted

LEMMA CourseInitially == Init => Course
  <1> SUFFICES ASSUME Init PROVE Course
    OBVIOUS
  <1>1. \A c \in Clients : tx[c] = Idle
    BY DEF Init
  <1>2. Idle.at = "idle" /\ Idle.row = none /\ Idle.do = "none"
    BY DEF Idle, Request
  <1>3. Far(Idle)
    BY <1>2, Nowhere
  <1> QED BY <1>1, <1>2, <1>3 DEF Course, Fresh, Pending

LEMMA CourseStays ==
    ASSUME Inv, Course, UNCHANGED vars
    PROVE  Course'
  <1>1. UNCHANGED <<there, born, tx>>
    BY DEF vars
  <1>2. \A d \in Clients : Far(tx[d])'
    BY <1>1, CourseElsewhere
  <1>3. Fresh'
    BY <1>1 DEF Course, Fresh, Pending
  <1> QED BY <1>2, <1>3 DEF Course

\* An organization's rows are those that refer to it, to those, and to those in turn.
LEMMA Belongs ==
    ASSUME NEW S \in SUBSET Rows, \A r \in S : Range(refs[r]) \subseteq S,
           NEW o \in Orgs, o \in S, NEW x \in S, OrgOf(x) = o
    PROVE  LET Up(T) == T \cup {r \in S : Range(refs[r]) \cap T # {}}
           IN x \in Up(Up(Up({o})))
  <1> DEFINE Up(T) == T \cup {r \in S : Range(refs[r]) \cap T # {}}
  <1>1. \A T : T \subseteq Up(T)
    OBVIOUS
  <1>2. o \in Rows /\ o # none /\ table[o] = "organization" /\ table[x] \in Tables
    BY Schema, RowsFit DEF Orgs, Of
  <1>3. ASSUME NEW T, NEW r \in S, NEW i \in DOMAIN refs[r], refs[r][i] \in T
        PROVE  r \in Up(T)
    BY <1>3 DEF Range
  <1>4. \A r \in S : \A i \in DOMAIN refs[r] : refs[r][i] \in S
    BY DEF Range
  <1>5. ASSUME NEW r \in S, OrgOf(r) = o, table[r] \in {"arrangement", "collection", "tag"}
        PROVE  r \in Up({o})
    <2>1. 1 \in DOMAIN refs[r] /\ refs[r][1] = o
      BY <1>5, NotNull DEF OrgOf
    <2> QED BY <1>3, <2>1
  <1>6. ASSUME NEW r \in S, OrgOf(r) = o,
               table[r] \in {"voice", "file", "global_annotation", "arrangement_tag", "collection_item"}
        PROVE  r \in Up(Up({o}))
    <2>1. 1 \in DOMAIN refs[r]
      BY <1>6, NotNull
    <2>2. PICK y : y = refs[r][1]
      OBVIOUS
    <2>3. y \in S /\ table[y] \in {"arrangement", "collection"}
      BY <1>4, <1>6, <2>1, <2>2, Column
    <2>4. OrgOf(r) = refs[y][1] /\ OrgOf(y) = refs[y][1]
      BY <1>6, <2>2, <2>3 DEF OrgOf
    <2>5. y \in Up({o})
      BY <1>5, <1>6, <2>3, <2>4
    <2> QED BY <1>3, <2>1, <2>2, <2>5
  <1>7. CASE table[x] = "organization"
    BY <1>1, <1>7 DEF OrgOf
  <1>8. CASE table[x] \in {"user", "app_password", "work"}
    BY <1>2, <1>8 DEF OrgOf
  <1>9. CASE table[x] \in {"arrangement", "collection", "tag"}
    BY <1>1, <1>5, <1>9
  <1>10. CASE table[x] \in {"voice", "file", "global_annotation", "arrangement_tag", "collection_item"}
    BY <1>1, <1>6, <1>10
  <1>11. CASE table[x] = "membership"
    <2>1. 2 \in DOMAIN refs[x] /\ refs[x][2] = o
      BY <1>11, NotNull DEF OrgOf
    <2> QED BY <1>1, <1>3, <2>1
  <1>12. CASE table[x] = "part_assignment"
    <2>1. 1 \in DOMAIN refs[x]
      BY <1>12, NotNull
    <2>2. PICK y : y = refs[x][1]
      OBVIOUS
    <2>3. y \in S /\ table[y] = "collection_item"
      BY <1>4, <1>12, <2>1, <2>2, Column
    <2>4. OrgOf(y) = OrgOf(x)
      BY <1>12, <2>2, <2>3 DEF OrgOf
    <2>5. y \in Up(Up({o}))
      BY <1>6, <2>3, <2>4
    <2> QED BY <1>3, <2>1, <2>2, <2>5
  <1> QED BY <1>2, <1>7, <1>8, <1>9, <1>10, <1>11, <1>12 DEF Tables

\* A cascade that commits takes what is below its organization and nothing else.
LEMMA TakesAllBelow ==
    ASSUME Inv, Course, NEW c \in Clients, tx[c].at = "commit", tx[c].do \in Cascades
    PROVE  tx[c].row \in Orgs /\ tx[c].gone = Below(tx[c].row)
  <1>1. PICK q, o, lost : q = tx[c] /\ o = q.row /\ lost = q.gone
    OBVIOUS
  <1>2. Good(q) /\ Aimed(q) /\ there \subseteq Rows
    BY <1>1, Before DEF Course, Far
  <1>3. o \in Orgs /\ o \in lost /\ lost \subseteq there /\ \A r \in lost : OrgOf(r) = o
    BY <1>1, <1>2 DEF Aimed, Working, Good, Holds
  <1>4. \A r \in there \ lost : Range(refs[r]) \cap lost = {}
    BY <1>1, <1>2 DEF Good, Cut
  <1>5. \A r \in there : Range(refs[r]) \subseteq there
    BY DEF Inv, ReferencesHold
  <1> DEFINE Up(T) == T \cup {r \in there : Range(refs[r]) \cap T # {}}
  <1>6. \A T \in SUBSET lost : Up(T) \subseteq lost
    BY <1>4
  <1>7. Up(Up(Up({o}))) \subseteq lost
    BY <1>3, <1>6
  <1>8. ASSUME NEW x \in lost PROVE x \in Up(Up(Up({o})))
    <2>1. there \in SUBSET Rows /\ o \in there /\ x \in there /\ OrgOf(x) = o
      BY <1>2, <1>3
    <2> QED BY <1>3, <1>5, <2>1, Belongs
  <1>9. lost = Up(Up(Up({o})))
    BY <1>7, <1>8
  <1>10. Below(o) = Up(Up(Up({o})))
    BY DEF Below
  <1> QED BY <1>1, <1>3, <1>9, <1>10

\* Whoever waits for another that waits for it is between an insert's locks or a deletion's rows.
LEMMA WhoDeadlocks ==
    ASSUME Inv, NEW c \in Clients, NEW d \in Clients, Deadlocked(c, d)
    PROVE  /\ c # d /\ tx[c].at \in {"insert", "rows"} /\ tx[d].at \in {"insert", "rows"}
           /\ tx[c].at = "insert" => tx[d].at = "rows" /\ WaitsForParent(c, d) /\ WaitsForRow(d, c)
           /\ tx[c].at = "rows" => tx[c].share = {}
  <1>1. Holds(tx[c]) /\ Holds(tx[d]) /\ Waits(c, d) /\ Waits(d, c) /\ c # d
    BY Before DEF Good, Deadlocked, Waits
  <1>2. /\ tx[c].gone # {} \/ tx[c].share # {} => tx[c].at \in {"insert", "statement", "rows", "commit"}
        /\ tx[d].gone # {} \/ tx[d].share # {} => tx[d].at \in {"insert", "statement", "rows", "commit"}
    BY <1>1 DEF Holds
  <1>3. /\ tx[c].at \in {"insert", "statement", "rows", "commit"}
        /\ tx[d].at \in {"insert", "statement", "rows", "commit"}
    <2>1. ASSUME NEW e \in Clients, NEW g \in Clients, Waits(e, g)
          PROVE  tx[g].gone # {} \/ tx[g].share # {} \/ tx[g].at = "insert"
      BY <2>1 DEF Waits, WaitsForKey, WaitsForParent, WaitsToRename, WaitsForRow,
                  WaitsForReferrer, WillInsert
    <2> QED BY <1>1, <1>2, <2>1
  <1>4. tx[c].at \in {"insert", "rows"} /\ tx[d].at \in {"insert", "rows"}
    BY <1>1, <1>3 DEF Waits, WaitsForKey, WaitsForParent, WaitsToRename, WaitsForRow,
                      WaitsForReferrer
  <1>5. ASSUME tx[c].at = "insert"
        PROVE  tx[d].at = "rows" /\ WaitsForParent(c, d) /\ WaitsForRow(d, c)
    <2>1. WaitsForParent(c, d)
      BY <1>1, <1>5 DEF Waits, WaitsForKey, WaitsToRename, WaitsForRow, WaitsForReferrer
    <2>2. tx[d].gone # {} /\ tx[c].gone = {}
      BY <1>1, <1>5, <2>1 DEF WaitsForParent, Holds
    <2>3. tx[d].at = "rows"
      BY <1>1, <1>4, <2>2 DEF Holds
    <2>4. WaitsForRow(d, c)
      BY <1>1, <2>2, <2>3 DEF Waits, WaitsForKey, WaitsForParent, WaitsToRename, WaitsForReferrer
    <2> QED BY <2>1, <2>3, <2>4
  <1> QED BY <1>1, <1>4, <1>5 DEF Holds

\* Only a file and a tag on an arrangement wait for a row that a deletion has taken and hold
\* one that it is about to take.
LEMMA InsertDeadlocks ==
    ASSUME Inv, Course, NEW c \in Clients, NEW d \in Clients, Deadlocked(c, d),
           tx[c].at = "insert"
    PROVE  table[tx[c].row] \in {"file", "arrangement_tag"}
  <1>1. PICK q, e : q = tx[c] /\ e = tx[d]
    OBVIOUS
  <1>2. /\ q.at = "insert" /\ e.at = "rows" /\ q.todo # << >> /\ Head(q.todo) \in e.gone
        /\ WaitsForRow(d, c)
    BY <1>1, WhoDeadlocks DEF WaitsForParent
  <1>3. Good(q) /\ Queued(q) /\ Aimed(e) /\ q \in Requests /\ e \in Requests
    BY <1>1, Before DEF Course, Far
  <1>4. q.gone = {} /\ q.row \in Rows
    BY <1>2, <1>3 DEF Good, Holds, Shaped
  <1>5. PICK x \in e.rows : x \in q.share
    BY <1>1, <1>2, <1>4 DEF WaitsForRow
  <1>6. PICK y : y = Head(q.todo)
    OBVIOUS
  <1>7. x # y /\ y \in e.gone /\ x \in Rows /\ y \in Rows
    BY <1>2, <1>3, <1>5, <1>6, Fields DEF Aimed
  <1>8. CASE e.do \notin Cascades
    BY <1>2, <1>3, <1>5, <1>7, <1>8 DEF Aimed, Working
  <1>9. CASE e.do \in Cascades
    <2>1. /\ Turn(x) = Now(e) /\ e.row \in Orgs /\ OrgOf(x) = e.row
          /\ Turn(y) = Now(e) \/ Turn(y) < Now(e)
      BY <1>2, <1>3, <1>5, <1>7, <1>9 DEF Aimed, Working
    <2>2. PICK n, len, s : n = Locked(q) /\ len = Len(s) /\ s = q.todo
      OBVIOUS
    <2>3. /\ s \in Seq(Rows) /\ len \in Nat /\ len # 0 /\ y = s[1]
      BY <1>2, <1>3, <1>6, <2>2, Fields, HeadTailProperties
    <2>4. /\ n \in Nat /\ \A i \in 1..len : s[i] = refs[q.row][n + i]
          /\ n = Len(refs[q.row]) - len
      BY <1>2, <1>3, <2>2 DEF Queued, Locked
    <2>5. PICK j \in 1..n : x = refs[q.row][j]
      BY <1>2, <1>3, <1>5, <2>2 DEF Queued
    <2>6. refs[q.row] \in Seq(Rows) /\ Len(refs[q.row]) \in Nat
      BY <1>4, Schema
    <2>7. y = refs[q.row][n + 1]
      BY <2>3, <2>4
    <2>8. n + 1 \in DOMAIN refs[q.row] /\ j \in DOMAIN refs[q.row] /\ j < n + 1
      BY <2>3, <2>4, <2>5, <2>6
    <2>9. Turn(x) <= 11 /\ Turn(y) <= Turn(x)
      <3>1. Turn(x) \in 1..12 /\ Turn(y) \in 1..12 /\ Turn(x) # 12
        BY <1>7, <2>1, Turns, Schema
      <3> HIDE DEF Turn
      <3> QED BY <2>1, <3>1
    <2>10. PICK i : i = n + 1
      OBVIOUS
    <2>11. j \in DOMAIN refs[q.row] /\ i \in DOMAIN refs[q.row] /\ j < i /\ j \in Nat
      BY <2>5, <2>8, <2>10
    <2>12. Turn(refs[q.row][i]) <= Turn(refs[q.row][j]) /\ Turn(refs[q.row][j]) <= 11
      BY <2>5, <2>7, <2>9, <2>10
    <2> QED BY <1>1, <1>4, <2>11, <2>12, TwoParents
  <1> QED BY <1>1, <1>8, <1>9

\* A deletion of a single row waits for a row that it has not taken, or for one that refers to
\* the one it has taken: it deadlocks with no other deletion.
LEMMA SingleDeletes ==
    ASSUME Inv, Course, NEW c \in Clients, NEW d \in Clients, Deadlocked(c, d),
           tx[c].at = "rows", tx[d].at = "rows", tx[c].do \notin Cascades
    PROVE  FALSE
  <1>1. PICK q, e : q = tx[c] /\ e = tx[d]
    OBVIOUS
  <1>2. /\ Good(q) /\ Good(e) /\ Aimed(q) /\ Aimed(e) /\ Known(q) /\ q.share = {} /\ e.share = {}
        /\ q.at = "rows" /\ e.at = "rows" /\ there \subseteq Rows /\ e \in Requests
    <2>1. c # d /\ Deadlocked(d, c)
      BY WhoDeadlocks DEF Deadlocked
    <2>2. q.share = {} /\ e.share = {}
      BY <1>1, <2>1, WhoDeadlocks
    <2> QED BY <1>1, <2>2, Before DEF Course, Far
  <1>3. q.gone \subseteq {q.row} /\ q.rows \subseteq {q.row} /\ q.rows \cap q.gone = {}
        /\ q.taken \subseteq q.gone
    BY <1>1, <1>2 DEF Aimed, Working, Good, Holds
  <1>4. WaitsForRow(c, d) \/ WaitsForReferrer(c, d)
    BY <1>1, <1>2 DEF Deadlocked, Waits, WaitsForKey, WaitsForParent, WaitsToRename
  <1>5. WaitsForRow(d, c) \/ WaitsForReferrer(d, c)
    BY <1>1, <1>2 DEF Deadlocked, Waits, WaitsForKey, WaitsForParent, WaitsToRename
  <1>6. q.gone # {}
    BY <1>1, <1>2, <1>5 DEF WaitsForRow, WaitsForReferrer
  <1>7. q.gone = {q.row} /\ q.rows = {}
    BY <1>3, <1>6
  <1>8. PICK r \in e.gone : q.row \in Range(refs[r]) /\ r \in there
    BY <1>1, <1>3, <1>4, <1>7 DEF WaitsForRow, WaitsForReferrer, Referrers
  <1>9. PICK i \in DOMAIN refs[r] : q.row = refs[r][i]
    BY <1>8 DEF Range
  <1>10. r \in Rows /\ table[r] \in Tables
    BY <1>2, <1>8, RowsFit
  <1>11. table[q.row] \notin {"membership", "part_assignment", "arrangement_tag", "file"}
    <2>1. PICK t, p : t = table[r] /\ p = table[refs[r][i]]
      OBVIOUS
    <2>2. p \notin {"membership", "part_assignment", "arrangement_tag", "file"}
      BY <1>10, <2>1, Column DEF Tables
    <2> QED BY <1>9, <2>1, <2>2
  <1>12. table[q.row] \in {"user", "work"}
    <2>1. CASE q.do = "remove"
      BY <1>2, <1>11, <2>1 DEF Known
    <2>2. CASE q.do # "remove"
      <3>1. q.do \in Deleting
        BY <1>2 DEF Good, Shaped
      <3>2. q.do = "delete_user"
        BY <1>1, <2>2, <3>1 DEF Deleting, Cascades
      <3> QED BY <1>2, <3>2 DEF Good, Shaped, Doing, Users, Of
    <2> QED BY <2>1, <2>2
  <1>13. q.row \in Rows /\ refs[q.row] \in Seq(Rows) /\ OrgOf(q.row) = none
    <2>1. q.row \in Rows
      BY <1>9, <1>10, Schema
    <2> QED BY <1>12, <2>1, Schema DEF OrgOf
  <1>14. CASE WaitsForReferrer(d, c)
    <2>1. q.row \in Referrers(d)
      BY <1>1, <1>7, <1>14 DEF WaitsForReferrer
    <2>2. PICK k \in DOMAIN refs[q.row] : refs[q.row][k] \in e.taken
      BY <1>1, <2>1 DEF Referrers, Range
    <2>3. PICK x : x = refs[q.row][k]
      OBVIOUS
    <2>4. x \in Rows /\ table[x] = "user" /\ OrgOf(x) = none
      <3>1. table[x] = "user"
        BY <1>12, <1>13, <2>2, <2>3, Column
      <3>2. x \in Rows
        BY <1>13, <2>2, <2>3, Schema
      <3> QED BY <3>1, <3>2 DEF OrgOf
    <2>5. CASE e.do \in Cascades
      <3>1. OrgOf(x) = e.row /\ e.row \in Rows
        BY <1>2, <2>2, <2>3, <2>5, Schema DEF Aimed, Working
      <3> QED BY <2>4, <3>1, Schema
    <2>6. CASE e.do \notin Cascades
      <3>1. e.gone \subseteq {e.row} /\ e.taken \subseteq e.gone
        BY <1>2, <2>6 DEF Aimed, Working, Good, Holds
      <3>2. r = x
        BY <1>8, <2>2, <2>3, <3>1
      <3> QED BY <1>9, <1>10, <2>4, <3>2, Column
    <2> QED BY <2>5, <2>6
  <1>15. CASE WaitsForRow(d, c)
    <2>1. q.row \in e.rows
      BY <1>1, <1>2, <1>7, <1>15 DEF WaitsForRow
    <2>2. CASE e.do \in Cascades
      <3>1. OrgOf(q.row) = e.row /\ e.row \in Rows
        BY <1>2, <2>1, <2>2, Schema DEF Aimed, Working
      <3> QED BY <1>13, <3>1, Schema
    <2>3. CASE e.do \notin Cascades
      <3>1. e.rows \subseteq {e.row} /\ e.gone \subseteq {e.row} /\ e.rows \cap e.gone = {}
        BY <1>2, <2>3 DEF Aimed, Working
      <3> QED BY <1>8, <2>1, <3>1
    <2> QED BY <2>2, <2>3
  <1> QED BY <1>5, <1>14, <1>15

\* A cascade that nobody overtook waits for the rows of its statement only.
LEMMA CascadeWaits ==
    ASSUME Inv, Course, NEW c \in Clients, NEW d \in Clients, Waits(c, d), tx[d].share = {},
           tx[c].at = "rows", tx[c].do \in Cascades, ~tx[c].raced
    PROVE  \E x \in tx[c].rows : x \in tx[d].gone
  <1>1. ~WaitsForReferrer(c, d)
    BY Unreferenced DEF WaitsForReferrer
  <1>2. WaitsForRow(c, d)
    BY <1>1 DEF Waits, WaitsForKey, WaitsForParent, WaitsToRename
  <1> QED BY <1>2 DEF WaitsForRow

\* Two cascades that nobody overtook are at the same statement of the same organization.
LEMMA CascadesDeadlock ==
    ASSUME Inv, Course, NEW c \in Clients, NEW d \in Clients, Deadlocked(c, d),
           tx[c].at = "rows", tx[d].at = "rows", tx[c].do \in Cascades, tx[d].do \in Cascades,
           ~tx[c].raced, ~tx[d].raced
    PROVE  tx[c].row = tx[d].row /\ tx[c].plan = tx[d].plan /\ Len(tx[c].plan) > 1
  <1>1. PICK q, e : q = tx[c] /\ e = tx[d]
    OBVIOUS
  <1>2. /\ Aimed(q) /\ Aimed(e) /\ Planned(q) /\ Planned(e) /\ q.share = {} /\ e.share = {}
        /\ q.at = "rows" /\ e.at = "rows" /\ q \in Requests /\ e \in Requests
        /\ Waits(c, d) /\ Waits(d, c)
    <2>1. c # d /\ Deadlocked(d, c) /\ Waits(c, d) /\ Waits(d, c)
      BY WhoDeadlocks DEF Deadlocked
    <2>2. q.share = {} /\ e.share = {}
      BY <1>1, <2>1, WhoDeadlocks
    <2> QED BY <1>1, <2>1, <2>2, Before DEF Course, Far
  <1>3. PICK x \in q.rows : x \in e.gone
    BY <1>1, <1>2, CascadeWaits
  <1>4. PICK y \in e.rows : y \in q.gone
    BY <1>1, <1>2, CascadeWaits
  <1>5. /\ OrgOf(x) = q.row /\ Turn(x) = Now(q) /\ OrgOf(y) = q.row
        /\ OrgOf(y) = e.row /\ Turn(y) = Now(e) /\ OrgOf(x) = e.row
        /\ Turn(x) = Now(e) \/ Turn(x) < Now(e)
        /\ Turn(y) = Now(q) \/ Turn(y) < Now(q)
    BY <1>1, <1>2, <1>3, <1>4 DEF Aimed, Working
  <1>6. x # y /\ x \in Rows /\ y \in Rows
    BY <1>2, <1>3, <1>4, Fields DEF Aimed
  <1>7. PICK n, k : n = Len(q.plan) /\ k = Len(e.plan)
    OBVIOUS
  <1>8. /\ n \in 1..11 /\ \A i \in 1..n : q.plan[i] = Cascade[11 - n + i]
        /\ k \in 1..11 /\ \A i \in 1..k : e.plan[i] = Cascade[11 - k + i]
    BY <1>1, <1>2, <1>7 DEF Planned
  <1>9. Now(q) = 12 - n /\ Now(e) = 12 - k
    BY <1>7 DEF Now
  <1>10. n = k /\ Turn(x) = 12 - n /\ Turn(y) = 12 - n
    BY <1>5, <1>8, <1>9
  <1>11. q.plan = e.plan
    <2>1. q.plan \in Seq(Statements) /\ e.plan \in Seq(Statements)
      BY <1>2, Fields
    <2>2. PICK s, u : s = q.plan /\ u = e.plan
      OBVIOUS
    <2>3. /\ s \in Seq(Statements) /\ u \in Seq(Statements) /\ Len(s) = n /\ Len(u) = n
          /\ \A i \in 1..n : s[i] = u[i]
      BY <1>7, <1>8, <1>10, <2>1, <2>2
    <2>4. s = [i \in 1..n |-> s[i]] /\ u = [i \in 1..n |-> u[i]]
      BY <2>3
    <2>5. s = u
      BY <2>3, <2>4
    <2> QED BY <2>2, <2>5
  <1>12. n > 1
    <2>1. CASE n = 1
      <3>1. Turn(x) = 11 /\ Turn(y) = 11
        BY <1>10, <2>1
      <3>2. x \in Orgs /\ y \in Orgs
        BY <1>6, <3>1, Turns
      <3> QED BY <1>5, <1>6, <3>2 DEF OrgOf, Orgs, Of
    <2> QED BY <1>8, <2>1
  <1> QED BY <1>1, <1>5, <1>7, <1>11, <1>12

(***************************************************************************)
(* The theorems.                                                           *)
(***************************************************************************)
\* Every step of every request preserves the invariant.
THEOREM Stepwise == Inv /\ [Next]_vars => Inv'
  <1> SUFFICES ASSUME Inv, [Next]_vars PROVE Inv'
    OBVIOUS
  <1>1. CASE UNCHANGED vars
    <2>1. UNCHANGED <<there, born, tx, log, removed, begun>>
      BY <1>1 DEF vars
    <2>2. \A d \in Clients : Good(tx[d])'
      BY <2>1, Elsewhere
    <2> QED BY <2>1, <2>2 DEF Inv, Typed, ReferencesHold, Apart, RemovalRecorded
  <1>2. ASSUME NEW c \in Clients,
               \/ create_org(c) \/ create_org_submit(c) \/ create_user(c) \/ create_user_submit(c)
               \/ create_admin(c) \/ update_org(c) \/ delete_org(c) \/ delete_org_submit(c) \/ delete_user(c)
               \/ delete_user_submit(c) \/ Add(c) \/ RemoveBelow(c)
        PROVE  Inv'
    BY <1>2, Handlers
  <1>3. ASSUME NEW c \in Clients,
               update_name(c) \/ Audit(c) \/ Answer(c) \/ Victim(c) \/ Drop(c)
        PROVE  Inv'
    BY <1>3, Closes
  <1>4. ASSUME NEW c \in Clients, Insert(c) \/ LockParent(c) \/ Inserted(c)
        PROVE  Inv'
    BY <1>4, Inserts, LocksParent, InsertsRow
  <1>5. ASSUME NEW c \in Clients, Statement(c) \/ TakeRow(c) \/ EndOfStatement(c) \/ Deleted(c)
        PROVE  Inv'
    BY <1>5, StartsStatement, TakesRow, EndsStatement, Deletes
  <1> QED BY <1>1, <1>2, <1>3, <1>4, <1>5 DEF Next, Quiet

\* The invariant holds in every state.
THEOREM Always == Spec => []Inv
  BY Initially, Stepwise, PTL DEF Spec

\* The state keeps its types.
THEOREM TypesHold == Spec => []TypeOK
  <1>1. Inv => TypeOK
    <2> SUFFICES ASSUME Inv PROVE TypeOK
      OBVIOUS
    <2>1. \A c \in Clients : tx[c] \in Requests /\ Shaped(tx[c]) /\ Holds(tx[c])
      BY DEF Inv, Good
    <2>2. Typed
      BY DEF Inv
    <2> QED BY <2>1, <2>2, Fields DEF TypeOK, Typed, Shaped, Holds, Places
  <1> QED BY <1>1, Always, PTL

\* An organization that is gone because /v1 deleted it has its entry in the audit log.
THEOREM RemovalsRecorded == Spec => []RemovalRecorded
  <1>1. Inv => RemovalRecorded
    BY DEF Inv
  <1> QED BY <1>1, Always, PTL

\* Whatever is inserted below an organization or a user while it is deleted, no row is left
\* that refers to one that is gone.
THEOREM ReferencesAlwaysHold == Spec => []ReferencesHold
  <1>1. Inv => ReferencesHold
    BY DEF Inv
  <1> QED BY <1>1, Always, PTL

\* So does every step preserve how far each request has come.
THEOREM CourseStepwise == Inv /\ Course /\ [Next]_vars => Course'
  <1> SUFFICES ASSUME Inv, Course, [Next]_vars PROVE Course'
    OBVIOUS
  <1>1. CASE UNCHANGED vars
    BY <1>1, CourseStays
  <1>2. ASSUME NEW c \in Clients,
               \/ create_org(c) \/ create_org_submit(c) \/ create_user(c) \/ create_user_submit(c)
               \/ create_admin(c) \/ update_org(c) \/ delete_org(c) \/ delete_org_submit(c) \/ delete_user(c)
               \/ delete_user_submit(c) \/ Add(c) \/ RemoveBelow(c)
        PROVE  Course'
    BY <1>2, CourseHandlers
  <1>3. ASSUME NEW c \in Clients,
               \/ update_name(c) \/ Audit(c) \/ Answer(c) \/ Victim(c) \/ Drop(c)
               \/ Insert(c) \/ LockParent(c)
        PROVE  Course'
    BY <1>3, CourseCloses
  <1>4. ASSUME NEW c \in Clients,
               \/ Inserted(c) \/ Statement(c) \/ TakeRow(c) \/ EndOfStatement(c) \/ Deleted(c)
        PROVE  Course'
    BY <1>4, CourseInserted, CourseStatement, CourseTakesRow, CourseEndsStatement, CourseDeleted
  <1> QED BY <1>1, <1>2, <1>3, <1>4 DEF Next, Quiet

\* Both hold in every state.
THEOREM CourseAlways == Spec => [](Inv /\ Course)
  <1>1. Init => Inv /\ Course
    BY Initially, CourseInitially
  <1>2. Inv /\ Course /\ [Next]_vars => (Inv /\ Course)'
    BY Stepwise, CourseStepwise
  <1> QED BY <1>1, <1>2, PTL DEF Spec

\* The deletion of an organization is refused only when a row was added below it while it ran,
\* or when another one deleted the organization first: the cascade names every table, in an
\* order that the foreign keys accept.
THEOREM RefusedOnlyWhenOvertaken == Spec => []OnlyRacesRefuse
  <1>1. Course => OnlyRacesRefuse
    BY DEF Course, Far, Outrun, OnlyRacesRefuse, Cascades
  <1> QED BY <1>1, CourseAlways, PTL

\* An insert deadlocks with a deletion only when it adds a file or a tag to an arrangement, and
\* two deletions only when they are at the same statement of one organization's cascade or one
\* was overtaken.
THEOREM FewDeadlocks == Spec => []DeadlocksOfTwoParents
  <1>1. ASSUME Inv, Course PROVE DeadlocksOfTwoParents
    <2> SUFFICES ASSUME NEW c \in Clients, NEW d \in Clients, Deadlocked(c, d)
                 PROVE  IF "insert" \in {tx[c].at, tx[d].at}
                        THEN \E e \in {c, d} : /\ tx[e].at = "insert"
                                              /\ table[tx[e].row] \in {"file", "arrangement_tag"}
                        ELSE \/ tx[c].raced \/ tx[d].raced
                             \/ tx[c].row = tx[d].row /\ tx[c].plan = tx[d].plan /\ Len(tx[c].plan) > 1
      BY DEF DeadlocksOfTwoParents
    <2>1. Deadlocked(d, c) /\ tx[c].at \in {"insert", "rows"} /\ tx[d].at \in {"insert", "rows"}
      BY <1>1, WhoDeadlocks DEF Deadlocked
    <2>2. CASE tx[c].at = "insert"
      BY <1>1, <2>2, InsertDeadlocks
    <2>3. CASE tx[d].at = "insert"
      BY <1>1, <2>1, <2>3, InsertDeadlocks
    <2>4. CASE tx[c].at = "rows" /\ tx[d].at = "rows"
      <3>1. tx[c].do \in Cascades /\ tx[d].do \in Cascades
        BY <1>1, <2>1, <2>4, SingleDeletes
      <3>2. ~tx[c].raced /\ ~tx[d].raced =>
               tx[c].row = tx[d].row /\ tx[c].plan = tx[d].plan /\ Len(tx[c].plan) > 1
        BY <1>1, <2>4, <3>1, CascadesDeadlock
      <3> QED BY <2>4, <3>2
    <2> QED BY <2>1, <2>2, <2>3, <2>4
  <1> QED BY <1>1, CourseAlways, PTL

\* Whatever is inserted and deleted at the same time, an organization leaves with all that is
\* below it in one step, and nothing else leaves but the one row a request names.
THEOREM LeavesWhole == Spec => AllOrNothing
  <1> DEFINE Leaves ==
               there \ there' # {} =>
                  \/ \E o \in Orgs : there \ there' = Below(o)
                  \/ \E c \in Clients : /\ tx[c].do \in {"remove", "delete_user"}
                                       /\ there \ there' = {tx[c].row}
  <1>1. ASSUME Inv, Course, [Next]_vars PROVE Leaves
    <2>1. ASSUME NEW c \in Clients, Deleted(c) PROVE Leaves
      <3>1. tx[c].at = "commit" /\ there' = there \ tx[c].gone
        BY <2>1 DEF Deleted
      <3>2. Good(tx[c]) /\ Aimed(tx[c])
        BY <1>1, Before DEF Course, Far
      <3>3. there \ there' = tx[c].gone
        BY <3>1, <3>2 DEF Good, Holds
      <3>4. CASE tx[c].do \in Cascades
        BY <1>1, <3>1, <3>3, <3>4, TakesAllBelow
      <3>5. CASE tx[c].do \notin Cascades
        <4>1. tx[c].gone = {tx[c].row}
          BY <3>1, <3>2, <3>5 DEF Aimed, Working
        <4>2. tx[c].do \in {"remove", "delete_user"}
          BY <3>1, <3>2, <3>5 DEF Good, Shaped, Deleting, Cascades
        <4> QED BY <3>3, <4>1, <4>2
      <3> QED BY <3>4, <3>5
    <2>2. CASE \A c \in Clients : ~Deleted(c)
      <3>1. there \subseteq there'
        BY <1>1, <2>2 DEF Next, Quiet, vars, create_org, create_org_submit, create_user,
           create_user_submit, create_admin, update_org, update_name, delete_org, delete_org_submit,
           delete_user, delete_user_submit, Add, RemoveBelow, Insert, LockParent, Inserted,
           Statement, TakeRow, EndOfStatement, Audit, Answer, Victim, Drop
      <3> QED BY <3>1
    <2> QED BY <2>1, <2>2
  <1>2. Inv /\ Course /\ [Next]_vars => [Leaves]_vars
    BY <1>1
  <1>3. Spec => [][Leaves]_vars
    BY <1>2, CourseAlways, PTL DEF Spec
  <1> QED BY <1>3 DEF AllOrNothing
===============================================================================
