-------------------------- MODULE CollectionItems --------------------------
(***************************************************************************)
(* The running order of ONE collection: the collection_item rows and the   *)
(* SQL statements domain/collection_item.rs runs on them, each statement a *)
(* step of its own, under PostgreSQL's READ COMMITTED isolation.           *)
(*                                                                         *)
(* A row has a committed version (row) and, while a transaction holds its  *)
(* lock (holder), the version that transaction has written so far (new).   *)
(* A statement sees the committed version of every row and the new version *)
(* of the rows its own transaction has written.                            *)
(***************************************************************************)
EXTENDS ItemRows

CONSTANTS
    Clients,        \* requests being served at the same time
    Kinds,          \* the operations the clients may call
    ParkOffset,     \* INDEX_PARK_OFFSET
    HighestIndex,   \* model bound: where the console's append stops counting
    NoClient, NoItem

ASSUME OffsetAssumption ==
    ParkOffset \in Nat /\ HighestIndex \in Nat /\ MaxIndex < ParkOffset
ASSUME NamesAssumption == NoClient \notin Clients /\ NoItem \notin Items

VARIABLES
    row,     \* the committed version of every row
    new,     \* the newest version of every row, committed or not
    holder,  \* the transaction holding the row's lock
    tx       \* what every client is doing

vars == <<row, new, holder, tx>>

Idle == [op |-> "none", pc |-> "idle", item |-> NoItem, arg |-> 0,
         list |-> <<>>, order |-> <<>>, pos |-> 1]

Ops == {"none", "create", "move", "reorder", "remove", "restore"}
Pcs == {"idle", "insert", "lockitem", "move", "clash", "select", "lock",
        "park", "parklock", "revive", "assign"}

TxType == [op : Ops, pc : Pcs, item : Items \cup {NoItem}, arg : Nat,
           list : Seq(Items), order : Seq(Items), pos : Nat \ {0}]

TypeOK ==
    /\ row \in [Items -> Rows]
    /\ new \in [Items -> Rows]
    /\ holder \in [Items -> Clients \cup {NoClient}]
    /\ tx \in [Clients -> TxType]

------------------------------------------------------------------------------
(* What a statement sees, and how it meets the unique indexes.             *)

Sees(t, i) == IF holder[i] = t THEN new[i] ELSE row[i]
LiveSeenBy(t) == {i \in Items : Live(Sees(t, i))}
LiveRows == LiveOf(row)

\* Row j has an uncommitted version another transaction wrote.
Pending(t, j) == holder[j] \notin {t, NoClient} /\ new[j] # row[j]

\* (as if 0021 had not added the index on the arrangement)
TakenByNumberOnly(t, i, v, j) ==
    j # i /\ ~Pending(t, j) /\ Live(v) /\ Live(Sees(t, j)) /\ v.idx = Sees(t, j).idx

\* (as if 0013 had not made the number unique)
TakenByArrangementOnly(t, i, v, j) ==
    j # i /\ ~Pending(t, j) /\ Live(v) /\ Live(Sees(t, j)) /\ ArrangementOf[i] = ArrangementOf[j]

\* Writing version v of row i fails at once on a key that is certainly taken.
Taken(t, i, v, j) ==
    j # i /\ ~Pending(t, j) /\ SameKey(i, v, j, Sees(t, j))
\* ... and waits for the transaction that may still give the key up or take it.
Contended(t, i, v, j) ==
    j # i /\ Pending(t, j) /\ (SameKey(i, v, j, row[j]) \/ SameKey(i, v, j, new[j]))

Violates(t, i, v) == \E j \in Items : Taken(t, i, v, j)
MustWait(t, i, v) == \E j \in Items : Contended(t, i, v, j)
Free(t, i, v) == ~Violates(t, i, v) /\ ~MustWait(t, i, v)

------------------------------------------------------------------------------
(* The end of a transaction. *)

Finish(t) == tx' = [tx EXCEPT ![t] = Idle]

\* The locks go; the versions written become the committed ones.
Commit(t) ==
    /\ row' = [i \in Items |-> IF holder[i] = t THEN new[i] ELSE row[i]]
    /\ holder' = [i \in Items |-> IF holder[i] = t THEN NoClient ELSE holder[i]]
    /\ UNCHANGED new
    /\ Finish(t)

\* (as if the transaction were left open on an early return)
LeaveOpen(t) == UNCHANGED <<row, new, holder>> /\ Finish(t)

\* The locks go; the versions written are forgotten.
Rollback(t) ==
    /\ new' = [i \in Items |-> IF holder[i] = t THEN row[i] ELSE new[i]]
    /\ holder' = [i \in Items |-> IF holder[i] = t THEN NoClient ELSE holder[i]]
    /\ UNCHANGED row
    /\ Finish(t)

Goto(t, label) == tx' = [tx EXCEPT ![t].pc = label]

------------------------------------------------------------------------------
(* create: one INSERT in a transaction of its own.                         *)

Start(t, op, pc, i, n, s) ==
    /\ tx[t].pc = "idle" /\ op \in Kinds
    /\ tx' = [tx EXCEPT ![t] = [Idle EXCEPT !.op = op, !.pc = pc, !.item = i,
                                            !.arg = n, !.order = s]]
    /\ UNCHANGED <<row, new, holder>>

FreshId(i) == row[i].st = "none" /\ \A u \in Clients : tx[u].item # i

\* /v1 and the console's numbered form: the number passed is_valid_index.
AddAt(t, i, n) == FreshId(i) /\ Start(t, "create", "insert", i, n, <<>>)

\* The console with the number left blank: one past the highest number that
\* list_for_collection showed.
OnePastHighest(n) ==
    /\ \A j \in LiveRows : row[j].idx < n
    /\ n = 1 \/ \E j \in LiveRows : n = row[j].idx + 1
AddAtEnd(t, i, n) ==
    /\ "append" \in Kinds /\ FreshId(i) /\ OnePastHighest(n)
    /\ Start(t, "create", "insert", i, n, <<>>)

Insert(t) ==
    LET i == tx[t].item
        v == Numbered(tx[t].arg)
    IN  /\ tx[t].pc = "insert"
        /\ \/ Violates(t, i, v) /\ UNCHANGED <<row, new>>
           \/ /\ Free(t, i, v)
              /\ row' = [row EXCEPT ![i] = v]
              /\ new' = [new EXCEPT ![i] = v]
        /\ UNCHANGED holder
        /\ Finish(t)

------------------------------------------------------------------------------
(* update_index: one UPDATE in a transaction of its own. The row is locked *)
(* before its new key is checked, so a wait on the key keeps the row.      *)

MoveTo(t, i, n) == Live(row[i]) /\ Start(t, "move", "lockitem", i, n, <<>>)

Move(t) ==
    LET i == tx[t].item
        v == Numbered(tx[t].arg)
    IN  /\ tx[t].pc = "move"
        /\ \/ Violates(t, i, v) /\ Rollback(t)
           \/ /\ Free(t, i, v)
              /\ row' = [row EXCEPT ![i] = v]
              /\ new' = [new EXCEPT ![i] = v]
              /\ holder' = [holder EXCEPT ![i] = NoClient]
              /\ Finish(t)

------------------------------------------------------------------------------
(* The first statement of update_index, remove and restore names one row   *)
(* and the state it must be in; a locked row is waited for and looked at   *)
(* again.                                                                  *)

Reorder(t, s) == s \in Orderings(LiveRows) /\ Start(t, "reorder", "select", NoItem, 0, s)
Remove(t, i) == Live(row[i]) /\ Start(t, "remove", "lockitem", i, 0, <<>>)
Restore(t, i) == row[i].st = "removed" /\ Start(t, "restore", "lockitem", i, 0, <<>>)

Wanted(op) == IF op = "restore" THEN "removed" ELSE "live"

LockItem(t) ==
    LET i == tx[t].item
        op == tx[t].op
    IN  /\ tx[t].pc = "lockitem"
        /\ \/ row[i].st # Wanted(op) /\ Rollback(t)
           \/ /\ row[i].st = Wanted(op) /\ holder[i] = NoClient
              /\ holder' = [holder EXCEPT ![i] = t]
              /\ \/ op = "move" /\ Goto(t, "move") /\ UNCHANGED new
                 \/ /\ op = "remove" /\ Goto(t, "select")
                    /\ new' = [new EXCEPT ![i].st = "removed"]
                 \/ /\ op = "restore" /\ UNCHANGED new
                    /\ tx' = [tx EXCEPT ![t].pc = "clash", ![t].arg = row[i].idx]
              /\ UNCHANGED row

\* restore: SELECT EXISTS(a live row of the same arrangement)
CheckClash(t) ==
    /\ tx[t].pc = "clash"
    /\ IF \E j \in LiveSeenBy(t) : ArrangementOf[j] = ArrangementOf[tx[t].item]
       THEN Rollback(t)
       ELSE Goto(t, "select") /\ UNCHANGED <<row, new, holder>>

------------------------------------------------------------------------------
(* SELECT ... [ORDER BY index] FOR UPDATE. The rows and their order come   *)
(* from the statement's snapshot; the locks are taken afterwards, one row  *)
(* at a time, and a row that is no longer live once its lock is granted is *)
(* locked but not returned. The order is not computed again.               *)

\* (as if live_ids_in_order had no ORDER BY)
SelectUnsorted(t) ==
    /\ tx[t].pc = "select"
    /\ \E s \in Orderings(LiveSeenBy(t)) :
            tx' = [tx EXCEPT ![t].pc = "lock", ![t].list = s]
    /\ UNCHANGED <<row, new, holder>>

Select(t) ==
    /\ tx[t].pc = "select"
    /\ \E s \in InIndexOrder(LiveSeenBy(t), [i \in Items |-> Sees(t, i)]) :
            tx' = [tx EXCEPT ![t].pc = "lock", ![t].list = s]
    /\ UNCHANGED <<row, new, holder>>

Unlocked(t) == {k \in 1..Len(tx[t].list) : holder[tx[t].list[k]] # t}
Sorted(t) == tx[t].pc = "lock" /\ tx[t].op # "reorder"

\* The rows the statement may lock next: the first one if it sorts, else any.
Candidates(t) ==
    {tx[t].list[k] : k \in {a \in Unlocked(t) : Sorted(t) => \A b \in Unlocked(t) : a <= b}}

LockRow(t, i) ==
    /\ tx[t].pc \in {"lock", "parklock"}
    /\ i \in Candidates(t) /\ holder[i] = NoClient
    /\ holder' = [holder EXCEPT ![i] = t]
    /\ tx' = IF Live(row[i]) THEN tx
             ELSE [tx EXCEPT ![t].list = Without(tx[t].list, i)]
    /\ UNCHANGED <<row, new>>

\* (as if reorder trusted the ids it was given)
SelectedUnchecked(t) ==
    /\ tx[t].pc = "lock" /\ Unlocked(t) = {}
    /\ tx' = [tx EXCEPT ![t].pc = "park",
              ![t].order = IF tx[t].op = "remove" THEN tx[t].list ELSE tx[t].order]
    /\ UNCHANGED <<row, new, holder>>

\* The SELECT returns. reorder compares it with the ids it was given; remove
\* renumbers what is left; restore puts the item back among the rest.
Selected(t) ==
    LET live == tx[t].list
        order == CASE tx[t].op = "reorder" -> tx[t].order
                   [] tx[t].op = "remove" -> live
                   [] tx[t].op = "restore" -> InsertAt(live, Place(tx[t].arg, Len(live)), tx[t].item)
        valid == tx[t].op = "reorder" =>
                    /\ Len(order) = Len(live)
                    /\ ItemsOf(order) = ItemsOf(live)
    IN  /\ tx[t].pc = "lock" /\ Unlocked(t) = {}
        /\ IF valid
           THEN /\ tx' = [tx EXCEPT ![t].pc = "park", ![t].order = order]
                /\ UNCHANGED <<row, new, holder>>
           ELSE Rollback(t)

------------------------------------------------------------------------------
(* park: UPDATE ... SET index = index + OFFSET on every live row of a new  *)
(* snapshot, whether or not the SELECT above returned it.                  *)

ParkSnapshot(t) ==
    /\ tx[t].pc = "park"
    /\ \E s \in InIndexOrder(LiveSeenBy(t), [i \in Items |-> Sees(t, i)]) :
            tx' = [tx EXCEPT ![t].pc = "parklock", ![t].list = s]
    /\ UNCHANGED <<row, new, holder>>

\* (as if rows were parked below the legal range)
ParkedBelow(v) == [v EXCEPT !.idx = @ - ParkOffset]
Parked(v) == [v EXCEPT !.idx = @ + ParkOffset]

Park(t) ==
    LET S == ItemsOf(tx[t].list)
    IN  /\ tx[t].pc = "parklock" /\ Unlocked(t) = {}
        /\ \/ \* the unique index is checked row by row, in no given order
              /\ \E i \in S : Violates(t, i, Parked(new[i])) /\ Rollback(t)
           \/ /\ \A i \in S, j \in Items \ S :
                    ~Taken(t, i, Parked(new[i]), j) /\ ~Contended(t, i, Parked(new[i]), j)
              /\ new' = [i \in Items |-> IF i \in S THEN Parked(new[i]) ELSE new[i]]
              /\ Goto(t, IF tx[t].op = "restore" THEN "revive" ELSE "assign")
              /\ UNCHANGED <<row, holder>>

\* restore: UPDATE ... SET deleted_at = NULL, index = 2 * OFFSET
Revive(t) ==
    LET i == tx[t].item
        v == Numbered(2 * ParkOffset)
    IN  /\ tx[t].pc = "revive"
        /\ \/ Violates(t, i, v) /\ Rollback(t)
           \/ /\ Free(t, i, v)
              /\ new' = [new EXCEPT ![i] = v]
              /\ Goto(t, "assign")
              /\ UNCHANGED <<row, holder>>

\* (as if the position were written without adding one)
AssignFromZero(t) ==
    /\ tx[t].pc = "assign" /\ tx[t].pos <= Len(tx[t].order)
    /\ new' = [new EXCEPT ![tx[t].order[tx[t].pos]] = Numbered(tx[t].pos - 1)]
    /\ tx' = [tx EXCEPT ![t].pos = @ + 1]
    /\ UNCHANGED <<row, holder>>

\* assign_order: UPDATE ... SET index = position, one row at a time
Assign(t) ==
    LET i == tx[t].order[tx[t].pos]
        v == Numbered(tx[t].pos)
    IN  /\ tx[t].pc = "assign" /\ tx[t].pos <= Len(tx[t].order)
        /\ \/ Violates(t, i, v) /\ Rollback(t)
           \/ /\ Free(t, i, v)
              /\ new' = [new EXCEPT ![i] = v]
              /\ tx' = [tx EXCEPT ![t].pos = @ + 1]
              /\ UNCHANGED <<row, holder>>

Renumbered(t) ==
    /\ tx[t].pc = "assign" /\ tx[t].pos > Len(tx[t].order)
    /\ Commit(t)

------------------------------------------------------------------------------
(* A request is dropped (client gone, server killed) and its transaction   *)
(* rolled back, or the server breaks a cycle of waits by aborting one.     *)

Cancel(t) == tx[t].pc # "idle" /\ Rollback(t)

\* The versions the client's next write would put in place.
Writes(t) ==
    CASE tx[t].pc \in {"insert", "move"} -> {<<tx[t].item, Numbered(tx[t].arg)>>}
      [] tx[t].pc = "revive" -> {<<tx[t].item, Numbered(2 * ParkOffset)>>}
      [] tx[t].pc = "assign" /\ tx[t].pos <= Len(tx[t].order) ->
            {<<tx[t].order[tx[t].pos], Numbered(tx[t].pos)>>}
      [] tx[t].pc = "parklock" /\ Unlocked(t) = {} ->
            {<<i, Parked(new[i])>> : i \in ItemsOf(tx[t].list)}
      [] OTHER -> {}

\* t can do nothing before u ends.
WaitsFor(t, u) ==
    \/ /\ tx[t].pc = "lockitem" /\ row[tx[t].item].st = Wanted(tx[t].op)
       /\ holder[tx[t].item] = u
    \/ /\ tx[t].pc \in {"lock", "parklock"}
       /\ \E i \in Candidates(t) : holder[i] = u
       /\ \A i \in Candidates(t) : holder[i] # NoClient
    \/ \E w \in Writes(t), j \in Items : Contended(t, w[1], w[2], j) /\ holder[j] = u

Deadlocked(t) ==
    \E C \in SUBSET Clients :
        t \in C /\ \A u \in C : \E w \in C \ {u} : WaitsFor(u, w)

DeadlockVictim(t) == Deadlocked(t) /\ Rollback(t)

------------------------------------------------------------------------------
Init ==
    /\ row \in AtRest
    /\ new = row
    /\ holder = [i \in Items |-> NoClient]
    /\ tx = [t \in Clients |-> Idle]

Call(t) ==
    \/ \E i \in Items, n \in 1..MaxIndex : AddAt(t, i, n)
    \/ \E i \in Items, n \in 1..HighestIndex : AddAtEnd(t, i, n)
    \/ \E i \in Items, n \in 1..MaxIndex : MoveTo(t, i, n)
    \/ \E s \in Orderings(LiveRows) : Reorder(t, s)
    \/ \E i \in Items : Remove(t, i)
    \/ \E i \in Items : Restore(t, i)

Step(t) ==
    \/ Insert(t) \/ Move(t) \/ LockItem(t) \/ CheckClash(t)
    \/ Select(t) \/ (\E i \in Items : LockRow(t, i)) \/ Selected(t)
    \/ ParkSnapshot(t) \/ Park(t) \/ Revive(t) \/ Assign(t) \/ Renumbered(t)

Next == \E t \in Clients : Call(t) \/ Step(t) \/ Cancel(t) \/ DeadlockVictim(t)

Spec == Init /\ [][Next]_vars

\* Every statement is run once it can be; PostgreSQL queues the waiters of a
\* lock, so none is passed over for ever, and it looks for deadlocks. Nobody
\* has to call, and nobody has to give up.
FairSpec ==
    Spec /\ \A t \in Clients : SF_vars(Step(t)) /\ WF_vars(DeadlockVictim(t))

------------------------------------------------------------------------------
(* Properties. *)

\* Two committed live rows never share a number or an arrangement, whatever
\* the operations running at the same time (collection_item.rs leaves this to
\* the partial unique indexes of 0013 and 0021).
UniqueLive == KeysApart(row)

\* Reorder, remove and restore leave the pieces numbered 1..n ("dense and
\* increasing down the collection no matter which one ran").
NumbersDense == Dense(row)

\* The committed rows go through the steps of RunningOrder: every operation is
\* atomic to everybody else, however its statements interleave.
Abstract == INSTANCE RunningOrder
ImplementsOrder == Abstract!Spec

\* Every call is answered: a cycle of waiting transactions is broken, and the
\* locks of a transaction that ended are free for the others.
CallsEnd == \A t \in Clients : tx[t].pc # "idle" ~> tx[t].pc = "idle"
=============================================================================
