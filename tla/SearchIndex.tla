---------------------------- MODULE SearchIndex ----------------------------
(***************************************************************************)
(* The stored search documents of arrangements, and the transactions that  *)
(* write what they are made of.  A write locks its row; its trigger then   *)
(* computes the documents of the arrangements concerned from a snapshot    *)
(* (committed rows and its own write), waits for the row of each of these  *)
(* and stores the documents; the transaction commits.  A document is not   *)
(* computed again when its row was waited for: the function reads the      *)
(* snapshot of the statement that calls it.                                *)
(*                                                                         *)
(* `title' stands for the three texts of an arrangement's own row.         *)
(***************************************************************************)
EXTENDS Naturals, Repertoire

CONSTANTS
    Clients, Works, Tags,
    Texts,      \* titles, composers, names of tags
    none,
    MaxWrites   \* bounds the transactions

ASSUME KindsApart ==
    /\ Arrangements \cap Works = {} /\ Arrangements \cap Tags = {} /\ Works \cap Tags = {}
    /\ (Arrangements \X Tags) \cap (Arrangements \cup Works \cup Tags) = {}
    /\ none \notin Arrangements \cup Works \cup Tags \cup Texts
    /\ MaxWrites \in Nat

VARIABLES
    data,    \* the committed rows the documents are made of
    doc,     \* arrangement.search_vector, committed
    tx,      \* what each client's transaction is doing
    begun,   \* transactions begun so far
    raced    \* arrangements last documented by transactions that overlapped

searchVars == <<data, doc, tx, begun, raced>>

Pairs == Arrangements \X Tags
Change == [do : {"insert", "edit", "remove", "restore", "compose",
                 "rename", "hide", "show", "attach", "detach"},
           a : Arrangements \cup {none}, w : Works \cup {none},
           t : Tags \cup {none}, text : Texts \cup {none},
           retitled : BOOLEAN]  \* of a work: its title, which no document has, changes too
Nothing == [do |-> "none", a |-> none, w |-> none, t |-> none, text |-> none,
            retitled |-> FALSE]
NoDoc == [title |-> none, composer |-> none, tags |-> {}]
Documents == [title : Texts \cup {none}, composer : Texts \cup {none}, tags : SUBSET Texts]
Idle == [at |-> "idle", change |-> Nothing, todo |-> << >>, held |-> {}, met |-> {}]

SearchTypeOK ==
    /\ data \in [there : SUBSET Arrangements, deleted : SUBSET Arrangements,
                 title : [Arrangements -> Texts \cup {none}],
                 work : [Arrangements -> Works \cup {none}],
                 composer : [Works -> Texts],
                 name : [Tags -> Texts], live : SUBSET Tags,
                 carried : SUBSET Pairs]
    /\ data.deleted \subseteq data.there
    /\ data.carried \subseteq data.there \X Tags
    /\ doc \in [Arrangements -> Documents]
    /\ begun \in 0..MaxWrites
    /\ raced \subseteq Arrangements
    /\ \A c \in Clients :
          /\ tx[c].at \in {"idle", "written", "running"}
          /\ tx[c].change \in Change \cup {Nothing}
          /\ DOMAIN tx[c].todo \subseteq Arrangements
          /\ \A a \in DOMAIN tx[c].todo : tx[c].todo[a] \in Documents
          /\ tx[c].held \subseteq Arrangements \cup Works \cup Tags \cup Pairs
          /\ tx[c].met \subseteq Arrangements

(***************************************************************************)
(* The document of one arrangement: what a query would compute now.        *)
(***************************************************************************)
arrangement_search_document(d, a) ==
    [title    |-> d.title[a],
     composer |-> IF d.work[a] = none THEN none ELSE d.composer[d.work[a]],
     tags     |-> {d.name[t] : t \in {u \in d.live : <<a, u>> \in d.carried}}]

(***************************************************************************)
(* The statements that write a source: which rows they find, lock, and     *)
(* how they change them.                                                   *)
(***************************************************************************)
\* (as if a tag could be put on an arrangement that is not there)
FindsUnreferenced(d, ch) ==
    CASE ch.do = "insert"             -> ch.a \notin d.there
      [] ch.do \in {"edit", "remove"} -> ch.a \in d.there \ d.deleted
      [] ch.do = "restore"            -> ch.a \in d.deleted
      [] ch.do = "compose"            -> TRUE
      [] ch.do \in {"rename", "hide"} -> ch.t \in d.live
      [] ch.do = "show"               -> ch.t \notin d.live
      [] ch.do = "attach"             -> <<ch.a, ch.t>> \notin d.carried
      [] ch.do = "detach"             -> <<ch.a, ch.t>> \in d.carried

Finds(d, ch) ==
    CASE ch.do = "insert"             -> ch.a \notin d.there
      [] ch.do \in {"edit", "remove"} -> ch.a \in d.there \ d.deleted
      [] ch.do = "restore"            -> ch.a \in d.deleted
      [] ch.do = "compose"            -> TRUE
      [] ch.do \in {"rename", "hide"} -> ch.t \in d.live
      [] ch.do = "show"               -> ch.t \notin d.live
      \* the handler has found both rows alive before; they need only exist
      [] ch.do = "attach"             -> ch.a \in d.there /\ <<ch.a, ch.t>> \notin d.carried
      [] ch.do = "detach"             -> <<ch.a, ch.t>> \in d.carried

Locks(ch) ==
    CASE ch.do \in {"insert", "edit", "remove", "restore"} -> {ch.a}
      [] ch.do = "compose"                                 -> {ch.w}
      [] ch.do \in {"rename", "hide", "show"}              -> {ch.t}
      [] OTHER                                             -> {<<ch.a, ch.t>>}

After(d, ch) ==
    CASE ch.do = "insert"  -> [d EXCEPT !.there = @ \cup {ch.a}, !.title[ch.a] = ch.text,
                                        !.work[ch.a] = ch.w]
      [] ch.do = "edit"    -> [d EXCEPT !.title[ch.a] = ch.text, !.work[ch.a] = ch.w]
      [] ch.do = "remove"  -> [d EXCEPT !.deleted = @ \cup {ch.a}]
      [] ch.do = "restore" -> [d EXCEPT !.deleted = @ \ {ch.a}]
      [] ch.do = "compose" -> [d EXCEPT !.composer[ch.w] = ch.text]
      [] ch.do = "rename"  -> [d EXCEPT !.name[ch.t] = ch.text]
      [] ch.do = "hide"    -> [d EXCEPT !.live = @ \ {ch.t}]
      [] ch.do = "show"    -> [d EXCEPT !.live = @ \cup {ch.t}]
      [] ch.do = "attach"  -> [d EXCEPT !.carried = @ \cup {<<ch.a, ch.t>>}]
      [] ch.do = "detach"  -> [d EXCEPT !.carried = @ \ {<<ch.a, ch.t>>}]

(***************************************************************************)
(* The triggers: the arrangements whose documents a change recomputes, in  *)
(* the rows it sees; deleted arrangements are kept up to date as well.     *)
(***************************************************************************)
arrangement_search_vector_trigger(d, ch) ==
    IF ch.do = "insert" \/ (ch.do = "edit" /\ After(d, ch) # d) THEN {ch.a} ELSE {}

work_search_vector_trigger(d, ch) ==
    IF ch.do = "compose" /\ (ch.retitled \/ After(d, ch) # d)
    THEN {a \in d.there : d.work[a] = ch.w}
    ELSE {}

\* (as if the trigger left deleted arrangements alone)
tag_trigger_of_live(d, ch) ==
    IF ch.do \in {"rename", "hide", "show"} /\ After(d, ch) # d
    THEN {a \in d.there \ d.deleted : <<a, ch.t>> \in d.carried}
    ELSE {}

tag_search_vector_trigger(d, ch) ==
    IF ch.do \in {"rename", "hide", "show"} /\ After(d, ch) # d
    THEN {a \in d.there : <<a, ch.t>> \in d.carried}
    ELSE {}

\* (as if it refreshed every arrangement that carries the tag)
arrangement_tag_trigger_of_all(d, ch) ==
    IF ch.do \in {"attach", "detach"}
    THEN {a \in d.there : <<a, ch.t>> \in d.carried} \cup {ch.a}
    ELSE {}

arrangement_tag_search_vector_trigger(d, ch) ==
    IF ch.do \in {"attach", "detach"} THEN {ch.a} ELSE {}

Targets(d, ch) ==
    UNION {arrangement_search_vector_trigger(d, ch), work_search_vector_trigger(d, ch),
           tag_search_vector_trigger(d, ch), arrangement_tag_search_vector_trigger(d, ch)}

(***************************************************************************)
(* The steps of a transaction.                                             *)
(***************************************************************************)
HeldByOthers(c) == UNION {tx[d].held : d \in Clients \ {c}}
Underway == {c \in Clients : tx[c].at # "idle"}

\* The statement waits for its row, then finds it as it is now.
Write(c, ch) ==
    /\ tx[c].at = "idle" /\ begun < MaxWrites
    /\ Locks(ch) \cap HeldByOthers(c) = {}
    /\ Finds(data, ch)
    /\ tx' = [tx EXCEPT ![c] = [Idle EXCEPT !.at = "written", !.change = ch, !.held = Locks(ch)]]
    /\ begun' = begun + 1
    /\ UNCHANGED <<data, doc, raced>>

\* The trigger's UPDATE takes its snapshot.
refresh(c) ==
    LET ch == tx[c].change
        d  == After(data, ch)
    IN /\ tx[c].at = "written"
       /\ tx' = [tx EXCEPT ![c].at = "running",
                           ![c].todo = [a \in Targets(data, ch) |-> arrangement_search_document(d, a)]]
       /\ UNCHANGED <<data, doc, begun, raced>>

\* It comes to a row, and if it had to wait looks at its condition again: an
\* arrangement that left the work is not the work's any more.
LockRow(c, a) ==
    LET ch == tx[c].change
        left == ch.do = "compose" /\ data.work[a] # ch.w
    IN /\ tx[c].at = "running" /\ a \in DOMAIN tx[c].todo \ tx[c].held
       /\ a \notin HeldByOthers(c)
       /\ tx' = [tx EXCEPT ![c].held = @ \cup {a},
                           ![c].todo = IF left THEN [b \in DOMAIN @ \ {a} |-> @[b]] ELSE @]
       /\ UNCHANGED <<data, doc, begun, raced>>

(***************************************************************************)
(* For the record: the arrangements a transaction may concern, counting    *)
(* what the others under way are attaching and linking, and those two      *)
(* transactions under way both concern.                                    *)
(***************************************************************************)
Concerns(c) ==
    LET ch == tx[c].change
        others == {tx[d].change : d \in Underway}
    IN CASE ch.do = "compose" ->
                {a \in Arrangements :
                    \/ data.work[a] = ch.w
                    \/ \E o \in others : o.do \in {"insert", "edit"} /\ o.a = a /\ o.w = ch.w}
         [] ch.do \in {"rename", "hide", "show"} ->
                {a \in Arrangements :
                    \/ <<a, ch.t>> \in data.carried
                    \/ \E o \in others : o.do = "attach" /\ o.a = a /\ o.t = ch.t}
         [] ch.do = "none" -> {}
         [] OTHER -> {ch.a}

Shared(c, d) == Concerns(c) \cap Concerns(d)

Commit(c) ==
    LET todo == tx[c].todo
        overlap == tx[c].met \cup UNION {Shared(c, d) : d \in Underway \ {c}}
    IN /\ tx[c].at = "running" /\ DOMAIN todo \subseteq tx[c].held
       /\ data' = After(data, tx[c].change)
       /\ doc' = [a \in Arrangements |-> IF a \in DOMAIN todo THEN todo[a] ELSE doc[a]]
       /\ raced' = (raced \ DOMAIN todo) \cup overlap
       /\ tx' = [d \in Clients |->
                    IF d = c THEN Idle
                    ELSE IF d \in Underway THEN [tx[d] EXCEPT !.met = @ \cup Shared(c, d)]
                    ELSE tx[d]]
       /\ UNCHANGED begun

\* A request that is dropped, or the victim of a deadlock.
Rollback(c) ==
    /\ tx[c].at # "idle"
    /\ tx' = [tx EXCEPT ![c] = Idle]
    /\ UNCHANGED <<data, doc, begun, raced>>

(***************************************************************************)
(* Any catalog whose documents are up to date.                             *)
(***************************************************************************)
SearchInit ==
    /\ \E there \in SUBSET Arrangements, text \in Texts, name \in [Tags -> Texts], w \in Works :
       \E carried \in SUBSET (there \X Tags) :
          data = [there |-> there, deleted |-> {},
                  title |-> [a \in Arrangements |-> IF a \in there THEN text ELSE none],
                  work |-> [a \in Arrangements |-> IF a \in there THEN w ELSE none],
                  composer |-> [v \in Works |-> text],
                  name |-> name, live |-> Tags, carried |-> carried]
    /\ doc = [a \in Arrangements |->
                IF a \in data.there THEN arrangement_search_document(data, a) ELSE NoDoc]
    /\ tx = [c \in Clients |-> Idle]
    /\ begun = 0
    /\ raced = {}

create(c, a, w, text) == Write(c, [Nothing EXCEPT !.do = "insert", !.a = a, !.w = w, !.text = text])
update(c, a, w, text) == Write(c, [Nothing EXCEPT !.do = "edit", !.a = a, !.w = w, !.text = text])
soft_delete(c, a) == Write(c, [Nothing EXCEPT !.do = "remove", !.a = a])
undelete(c, a)    == Write(c, [Nothing EXCEPT !.do = "restore", !.a = a])
work_update(c, w, text, retitled) ==
    Write(c, [Nothing EXCEPT !.do = "compose", !.w = w, !.text = text, !.retitled = retitled])
tag_update(c, t, text)  == Write(c, [Nothing EXCEPT !.do = "rename", !.t = t, !.text = text])
tag_soft_delete(c, t) == Write(c, [Nothing EXCEPT !.do = "hide", !.t = t])
tag_undelete(c, t)    == Write(c, [Nothing EXCEPT !.do = "show", !.t = t])
attach(c, a, t) == Write(c, [Nothing EXCEPT !.do = "attach", !.a = a, !.t = t])
detach(c, a, t) == Write(c, [Nothing EXCEPT !.do = "detach", !.a = a, !.t = t])

SearchNext ==
    \E c \in Clients :
        \/ \E a \in Arrangements :
              \/ \E w \in Works \cup {none}, text \in Texts : create(c, a, w, text) \/ update(c, a, w, text)
              \/ soft_delete(c, a) \/ undelete(c, a)
              \/ \E t \in Tags : attach(c, a, t) \/ detach(c, a, t)
              \/ LockRow(c, a)
        \/ \E w \in Works, text \in Texts, retitled \in BOOLEAN : work_update(c, w, text, retitled)
        \/ \E t \in Tags :
              \/ \E text \in Texts : tag_update(c, t, text)
              \/ tag_soft_delete(c, t) \/ tag_undelete(c, t)
        \/ refresh(c) \/ Commit(c) \/ Rollback(c)

SearchSpec == SearchInit /\ [][SearchNext]_searchVars

(***************************************************************************)
(* Properties.                                                             *)
(***************************************************************************)
\* A stored document is the one a query would compute ("renaming a Work's
\* composer or a Tag reindexes the arrangements that reference it",
\* 0022_search.sql), for deleted arrangements as well, since a restore does
\* not recompute it; only transactions that overlapped in time and both
\* concern an arrangement leave it a stale one, until the next that does not.
FreshUnlessRaced ==
    \A a \in data.there \ raced : doc[a] = arrangement_search_document(data, a)

Waits(c) == {d \in Clients \ {c} : (DOMAIN tx[c].todo \ tx[c].held) \cap tx[d].held # {}}

\* Two transactions that wait for each other, one of which PostgreSQL aborts,
\* both change a tag or a composer: an edit of one arrangement, a restore or a
\* tag put on one is never the victim.
VictimsShareMany ==
    \A c, d \in Clients :
        d \in Waits(c) /\ c \in Waits(d) => tx[c].change.do \in {"compose", "rename", "hide", "show"}

=============================================================================
