----------------------- MODULE CollectionItems_proofs -----------------------
(***************************************************************************)
(* Proofs about CollectionItems, for any number of clients and items: the  *)
(* types and the unique indexes whatever runs; and, when only reorder and  *)
(* remove run, that the numbers stay dense and that CollectionItems        *)
(* implements RunningOrder.                                                *)
(***************************************************************************)
EXTENDS CollectionItems, FiniteSetTheorems, SequenceTheorems, TLAPS

------------------------------------------------------------------------------
(* Lemmas about the sequences of item ids. *)

\* An ordering of a set of items is a sequence of them.
LEMMA OrderingsAreSeqs ==
    ASSUME NEW S \in SUBSET Items, NEW s \in Orderings(S)
    PROVE  s \in Seq(Items) /\ ItemsOf(s) \subseteq S
<1>1. IsFiniteSet(S)
  BY ItemsAssumption, FS_Subset
<1>2. Cardinality(S) \in Nat
  BY <1>1, FS_CardinalityType
<1> QED
  BY <1>2 DEF Orderings, ItemsOf

\* A part of a sequence holds some of its items.
LEMMA PartType ==
    ASSUME NEW s \in Seq(Items), NEW m \in Nat, NEW n \in Nat, 1 <= m, n <= Len(s)
    PROVE  SubSeq(s, m, n) \in Seq(Items) /\ ItemsOf(SubSeq(s, m, n)) \subseteq ItemsOf(s)
<1>1. \A k \in m..n : s[k] \in Items /\ k \in 1..Len(s)
  BY LenProperties
<1>2. /\ SubSeq(s, m, n) \in Seq(Items)
      /\ Len(SubSeq(s, m, n)) = IF m <= n THEN n - m + 1 ELSE 0
      /\ \A k \in 1..(n - m + 1) : SubSeq(s, m, n)[k] = s[m + k - 1]
  BY <1>1, SubSeqProperties
<1> QED
  BY <1>1, <1>2 DEF ItemsOf

\* The items of two joined sequences are those of the one and of the other.
LEMMA JoinType ==
    ASSUME NEW s \in Seq(Items), NEW u \in Seq(Items)
    PROVE  s \o u \in Seq(Items) /\ ItemsOf(s \o u) \subseteq ItemsOf(s) \cup ItemsOf(u)
<1>1. /\ s \o u \in Seq(Items)
      /\ Len(s \o u) = Len(s) + Len(u)
      /\ \A k \in 1..(Len(s) + Len(u)) :
            (s \o u)[k] = IF k <= Len(s) THEN s[k] ELSE u[k - Len(s)]
  BY ConcatProperties
<1>2. Len(s) \in Nat /\ Len(u) \in Nat
  BY LenProperties
<1>3. ASSUME NEW k \in 1..Len(s \o u)
      PROVE  (s \o u)[k] \in ItemsOf(s) \cup ItemsOf(u)
  <2>1. CASE k <= Len(s)
    BY <1>1, <1>2, <2>1 DEF ItemsOf
  <2>2. CASE ~(k <= Len(s))
    <3>1. k - Len(s) \in 1..Len(u) /\ (s \o u)[k] = u[k - Len(s)]
      BY <1>1, <1>2, <2>2
    <3> QED
      BY <3>1 DEF ItemsOf
  <2> QED
    BY <2>1, <2>2
<1> QED
  BY <1>1, <1>3 DEF ItemsOf

\* Dropping an item of a sequence leaves a sequence of the other ones.
LEMMA WithoutType ==
    ASSUME NEW s \in Seq(Items), NEW i \in ItemsOf(s)
    PROVE  Without(s, i) \in Seq(Items) /\ ItemsOf(Without(s, i)) \subseteq ItemsOf(s)
<1> DEFINE k == CHOOSE k \in 1..Len(s) : s[k] = i
<1>1. k \in 1..Len(s) /\ Len(s) \in Nat
  BY LenProperties DEF ItemsOf
<1> HIDE DEF k
<1>2. k \in Nat /\ k - 1 \in Nat /\ k + 1 \in Nat /\ k - 1 <= Len(s) /\ 1 <= k + 1
  BY <1>1
<1>3. /\ SubSeq(s, 1, k - 1) \in Seq(Items)
      /\ ItemsOf(SubSeq(s, 1, k - 1)) \subseteq ItemsOf(s)
  BY <1>2, PartType
<1>4. /\ SubSeq(s, k + 1, Len(s)) \in Seq(Items)
      /\ ItemsOf(SubSeq(s, k + 1, Len(s))) \subseteq ItemsOf(s)
  BY <1>1, <1>2, PartType
<1>5. Without(s, i) = SubSeq(s, 1, k - 1) \o SubSeq(s, k + 1, Len(s))
  BY DEF Without, k
<1> DEFINE a == SubSeq(s, 1, k - 1)
           b == SubSeq(s, k + 1, Len(s))
<1>6. a \in Seq(Items) /\ ItemsOf(a) \subseteq ItemsOf(s)
  BY <1>3
<1>7. b \in Seq(Items) /\ ItemsOf(b) \subseteq ItemsOf(s)
  BY <1>4
<1> HIDE DEF a, b
<1>8. a \o b \in Seq(Items) /\ ItemsOf(a \o b) \subseteq ItemsOf(s)
  BY <1>6, <1>7, JoinType
<1> QED
  BY <1>5, <1>8 DEF a, b

\* Inserting an item at a place of a sequence adds that item.
LEMMA InsertAtType ==
    ASSUME NEW s \in Seq(Items), NEW i \in Items, NEW p \in 0..Len(s)
    PROVE  InsertAt(s, p, i) \in Seq(Items) /\ ItemsOf(InsertAt(s, p, i)) \subseteq ItemsOf(s) \cup {i}
<1>1. p \in Nat /\ p + 1 \in Nat /\ 1 <= p + 1 /\ p <= Len(s) /\ Len(s) \in Nat
  BY LenProperties
<1>2. SubSeq(s, 1, p) \in Seq(Items) /\ ItemsOf(SubSeq(s, 1, p)) \subseteq ItemsOf(s)
  BY <1>1, PartType
<1>3. SubSeq(s, p + 1, Len(s)) \in Seq(Items) /\ ItemsOf(SubSeq(s, p + 1, Len(s))) \subseteq ItemsOf(s)
  BY <1>1, PartType
<1>4. <<i>> \in Seq(Items) /\ ItemsOf(<<i>>) \subseteq {i}
  BY DEF ItemsOf
<1>5. /\ SubSeq(s, 1, p) \o <<i>> \in Seq(Items)
      /\ ItemsOf(SubSeq(s, 1, p) \o <<i>>) \subseteq ItemsOf(s) \cup {i}
  BY <1>2, <1>4, JoinType
<1> DEFINE a == SubSeq(s, 1, p) \o <<i>>
           b == SubSeq(s, p + 1, Len(s))
<1>6. /\ a \in Seq(Items) /\ ItemsOf(a) \subseteq ItemsOf(s) \cup {i}
      /\ b \in Seq(Items) /\ ItemsOf(b) \subseteq ItemsOf(s)
  BY <1>3, <1>5
<1> HIDE DEF a, b
<1>7. a \o b \in Seq(Items) /\ ItemsOf(a \o b) \subseteq ItemsOf(s) \cup {i}
  BY <1>6, JoinType
<1> QED
  BY <1>7 DEF InsertAt, a, b

\* restore's place lies within the sequence it inserts into.
LEMMA PlaceType ==
    ASSUME NEW old \in Nat, NEW n \in Nat
    PROVE  Place(old, n) \in 0..n
BY DEF Place

------------------------------------------------------------------------------
(* The inductive invariant. *)

\* What a client that has got to a statement has done before: the row its
\* request names is an item, a single-row statement has no other row locked,
\* and the rows it is about to number are its own.
Progress(t) ==
    /\ tx[t].pc \in {"insert", "lockitem", "move", "clash", "revive"} => tx[t].item \in Items
    /\ tx[t].pc = "lockitem" => tx[t].op \in {"move", "remove", "restore"}
    /\ tx[t].pc \in {"clash", "revive"} => tx[t].op = "restore"
    /\ tx[t].pc \in {"select", "lock", "park", "parklock", "assign"}
          => tx[t].op \in {"reorder", "remove", "restore"}
    /\ tx[t].pc \in {"idle", "insert", "lockitem"} => \A i \in Items : holder[i] # t
    /\ tx[t].pc = "move" => \A i \in Items : holder[i] = t <=> i = tx[t].item
    /\ tx[t].op = "restore" /\ tx[t].pc \notin {"idle", "lockitem"}
          => tx[t].item \in Items /\ holder[tx[t].item] = t
    /\ tx[t].pc \in {"park", "parklock", "revive", "assign"}
          => \A i \in ItemsOf(tx[t].order) : holder[i] = t

Locks == \A t \in Clients : Progress(t)

\* No two versions that may stand side by side share a key: committed ones,
\* newest ones, and the newest of one transaction with the committed ones of
\* the rows it has not locked.
Apart ==
    /\ \A i, j \in Items : i # j => ~SameKey(i, row[i], j, row[j])
    /\ \A i, j \in Items : i # j => ~SameKey(i, new[i], j, new[j])
    /\ \A i, j \in Items :
          i # j /\ holder[i] # holder[j] => ~SameKey(i, new[i], j, row[j])
    /\ \A i \in Items : holder[i] = NoClient => new[i] = row[i]

IInv == TypeOK /\ Locks /\ Apart

------------------------------------------------------------------------------
(* Type correctness. *)

LEMMA IdleType == Idle \in TxType
BY DEF Idle, TxType, Ops, Pcs

\* Ending a transaction, whichever way, keeps the types.
LEMMA EndType ==
    ASSUME TypeOK, NEW t \in Clients, Commit(t) \/ Rollback(t)
    PROVE  TypeOK'
BY IdleType DEF TypeOK, Commit, Rollback, Finish

\* The fields of a client, and the client after a step that sets some of them.
LEMMA TxFields ==
    ASSUME TypeOK, NEW t \in Clients
    PROVE  /\ tx[t].op \in Ops /\ tx[t].pc \in Pcs /\ tx[t].item \in Items \cup {NoItem}
           /\ tx[t].arg \in Nat /\ tx[t].list \in Seq(Items) /\ tx[t].order \in Seq(Items)
           /\ tx[t].pos \in Nat \ {0}
BY DEF TypeOK, TxType

LEMMA TxSet ==
    ASSUME TypeOK, NEW t \in Clients
    PROVE  /\ \A pc \in Pcs : [tx EXCEPT ![t].pc = pc] \in [Clients -> TxType]
           /\ \A pc \in Pcs, n \in Nat : [tx EXCEPT ![t].pc = pc, ![t].arg = n] \in [Clients -> TxType]
           /\ \A pc \in Pcs, s \in Seq(Items) : [tx EXCEPT ![t].pc = pc, ![t].list = s] \in [Clients -> TxType]
           /\ \A pc \in Pcs, s \in Seq(Items) : [tx EXCEPT ![t].pc = pc, ![t].order = s] \in [Clients -> TxType]
           /\ \A s \in Seq(Items) : [tx EXCEPT ![t].list = s] \in [Clients -> TxType]
           /\ \A n \in Nat \ {0} : [tx EXCEPT ![t].pos = n] \in [Clients -> TxType]
<1>1. \A pc \in Pcs : [tx EXCEPT ![t].pc = pc] \in [Clients -> TxType]
  BY Zenon DEF TypeOK, TxType
<1>2. \A pc \in Pcs, n \in Nat : [tx EXCEPT ![t].pc = pc, ![t].arg = n] \in [Clients -> TxType]
  BY Zenon DEF TypeOK, TxType
<1>3. \A pc \in Pcs, s \in Seq(Items) : [tx EXCEPT ![t].pc = pc, ![t].list = s] \in [Clients -> TxType]
  BY Zenon DEF TypeOK, TxType
<1>4. \A pc \in Pcs, s \in Seq(Items) : [tx EXCEPT ![t].pc = pc, ![t].order = s] \in [Clients -> TxType]
  BY Zenon DEF TypeOK, TxType
<1>5. \A s \in Seq(Items) : [tx EXCEPT ![t].list = s] \in [Clients -> TxType]
  BY Zenon DEF TypeOK, TxType
<1>6. \A n \in Nat \ {0} : [tx EXCEPT ![t].pos = n] \in [Clients -> TxType]
  BY Zenon DEF TypeOK, TxType
<1> QED
  BY <1>1, <1>2, <1>3, <1>4, <1>5, <1>6

LEMMA TxStart ==
    ASSUME TypeOK, NEW t \in Clients, NEW op \in Ops, NEW pc \in Pcs,
           NEW i \in Items \cup {NoItem}, NEW n \in Nat, NEW s \in Seq(Items)
    PROVE  [tx EXCEPT ![t] = [Idle EXCEPT !.op = op, !.pc = pc, !.item = i,
                                          !.arg = n, !.order = s]] \in [Clients -> TxType]
<1>1. [Idle EXCEPT !.op = op, !.pc = pc, !.item = i, !.arg = n, !.order = s] \in TxType
  BY IdleType, Zenon DEF TxType
<1> QED
  BY <1>1, Zenon DEF TypeOK

LEMMA Labels ==
    /\ "create" \in Ops /\ "move" \in Ops /\ "reorder" \in Ops /\ "remove" \in Ops
    /\ "restore" \in Ops
    /\ "insert" \in Pcs /\ "lockitem" \in Pcs /\ "move" \in Pcs /\ "clash" \in Pcs
    /\ "select" \in Pcs /\ "lock" \in Pcs /\ "park" \in Pcs /\ "parklock" \in Pcs
    /\ "revive" \in Pcs /\ "assign" \in Pcs
BY DEF Ops, Pcs

LEMMA CallType ==
    ASSUME TypeOK, NEW t \in Clients, Call(t)
    PROVE  TypeOK'
<1>0. <<>> \in Seq(Items) /\ 0 \in Nat /\ NoItem \in Items \cup {NoItem}
  OBVIOUS
<1>1. ASSUME NEW i \in Items, NEW n \in 1..MaxIndex, AddAt(t, i, n)
      PROVE  tx' \in [Clients -> TxType] /\ UNCHANGED <<row, new, holder>>
  <2>1. n \in Nat
    BY MaxIndexAssumption
  <2> QED
    BY <1>0, <1>1, <2>1, TxStart, Labels DEF AddAt, Start
<1>2. ASSUME NEW i \in Items, NEW n \in 1..HighestIndex, AddAtEnd(t, i, n)
      PROVE  tx' \in [Clients -> TxType] /\ UNCHANGED <<row, new, holder>>
  <2>1. n \in Nat
    BY OffsetAssumption
  <2> QED
    BY <1>0, <1>2, <2>1, TxStart, Labels DEF AddAtEnd, Start
<1>3. ASSUME NEW i \in Items, NEW n \in 1..MaxIndex, MoveTo(t, i, n)
      PROVE  tx' \in [Clients -> TxType] /\ UNCHANGED <<row, new, holder>>
  <2>1. n \in Nat
    BY MaxIndexAssumption
  <2> QED
    BY <1>0, <1>3, <2>1, TxStart, Labels DEF MoveTo, Start
<1>4. ASSUME NEW s \in Orderings(LiveRows), Reorder(t, s)
      PROVE  tx' \in [Clients -> TxType] /\ UNCHANGED <<row, new, holder>>
  <2>1. s \in Seq(Items)
    BY OrderingsAreSeqs DEF LiveRows, LiveOf
  <2> QED
    BY <1>0, <1>4, <2>1, TxStart, Labels DEF Reorder, Start
<1>5. ASSUME NEW i \in Items, Remove(t, i)
      PROVE  tx' \in [Clients -> TxType] /\ UNCHANGED <<row, new, holder>>
  BY <1>0, <1>5, TxStart, Labels DEF Remove, Start
<1>6. ASSUME NEW i \in Items, Restore(t, i)
      PROVE  tx' \in [Clients -> TxType] /\ UNCHANGED <<row, new, holder>>
  BY <1>0, <1>6, TxStart, Labels DEF Restore, Start
<1>7. tx' \in [Clients -> TxType] /\ UNCHANGED <<row, new, holder>>
  BY <1>1, <1>2, <1>3, <1>4, <1>5, <1>6 DEF Call
<1> QED
  BY <1>7 DEF TypeOK

LEMMA StepType ==
    ASSUME TypeOK, Locks, NEW t \in Clients, Step(t)
    PROVE  TypeOK'
<1> DEFINE Seen == InIndexOrder(LiveSeenBy(t), [i \in Items |-> Sees(t, i)])
<1>0. \A s \in Seen : s \in Seq(Items)
  BY OrderingsAreSeqs DEF LiveSeenBy, InIndexOrder
<1>a. \A n \in Nat : Numbered(n) \in Rows
  BY DEF Numbered, Rows
<1>1. CASE Insert(t)
  <2>1. tx[t].item \in Items /\ Numbered(tx[t].arg) \in Rows
    BY <1>1, <1>0, <1>a, TxFields DEF Insert, Locks, Progress
  <2> QED
    BY <1>1, <2>1, IdleType DEF TypeOK, Insert, Finish
<1>2. CASE Move(t)
  <2>1. tx[t].item \in Items /\ Numbered(tx[t].arg) \in Rows
    BY <1>2, <1>0, <1>a, TxFields DEF Move, Locks, Progress
  <2> QED
    BY <1>2, <2>1, IdleType, EndType DEF TypeOK, Move, Finish
<1>3. CASE LockItem(t)
  <2>1. tx[t].item \in Items /\ row[tx[t].item].idx \in Nat
    BY <1>3, <1>0 DEF LockItem, Locks, Progress, TypeOK, Rows
  <2>2. CASE row[tx[t].item].st # Wanted(tx[t].op) /\ Rollback(t)
    BY <2>2, EndType
  <2>3. ASSUME holder' = [holder EXCEPT ![tx[t].item] = t], UNCHANGED row,
               new' \in [Items -> Rows], tx' \in [Clients -> TxType]
        PROVE  TypeOK'
    BY <2>3 DEF TypeOK
  <2>4. [new EXCEPT ![tx[t].item].st = "removed"] \in [Items -> Rows]
    BY <2>1 DEF TypeOK, Rows
  <2>5. /\ [tx EXCEPT ![t].pc = "move"] \in [Clients -> TxType]
        /\ [tx EXCEPT ![t].pc = "select"] \in [Clients -> TxType]
        /\ [tx EXCEPT ![t].pc = "clash", ![t].arg = row[tx[t].item].idx] \in [Clients -> TxType]
    BY <2>1, TxSet, Labels
  <2> QED
    BY <1>3, <2>2, <2>3, <2>4, <2>5 DEF LockItem, Goto, TypeOK
<1>4. CASE CheckClash(t)
  <2>1. [tx EXCEPT ![t].pc = "select"] \in [Clients -> TxType]
    BY TxSet, Labels
  <2> QED
    BY <1>4, <2>1, EndType DEF TypeOK, CheckClash, Goto
<1>5. CASE Select(t)
  <2>1. PICK s \in Seen : tx' = [tx EXCEPT ![t].pc = "lock", ![t].list = s]
    BY <1>5 DEF Select
  <2>2. tx' \in [Clients -> TxType]
    BY <1>0, <2>1, TxSet, Labels
  <2> QED
    BY <1>5, <2>2 DEF TypeOK, Select
<1>6. ASSUME NEW i \in Items, LockRow(t, i)
      PROVE  TypeOK'
  <2>1. i \in ItemsOf(tx[t].list)
    BY <1>6 DEF LockRow, Candidates, Unlocked, ItemsOf
  <2>2. Without(tx[t].list, i) \in Seq(Items)
    BY <1>0, <2>1, TxFields, WithoutType
  <2>3. [tx EXCEPT ![t].list = Without(tx[t].list, i)] \in [Clients -> TxType]
    BY <2>2, TxSet, Labels
  <2> QED
    BY <1>6, <2>3 DEF TypeOK, LockRow
<1>7. CASE Selected(t)
  <2> DEFINE live == tx[t].list
             order == CASE tx[t].op = "reorder" -> tx[t].order
                   [] tx[t].op = "remove" -> live
                   [] tx[t].op = "restore" -> InsertAt(live, Place(tx[t].arg, Len(live)), tx[t].item)
  <2>1. live \in Seq(Items) /\ tx[t].arg \in Nat /\ Len(live) \in Nat /\ tx[t].order \in Seq(Items)
    BY <1>0, TxFields, LenProperties
  <2>2. tx[t].op \in {"reorder", "remove", "restore"}
    BY <1>7 DEF Selected, Locks, Progress
  <2>3. tx[t].op = "restore" => tx[t].item \in Items
    BY <1>7 DEF Selected, Locks, Progress
  <2>4. Place(tx[t].arg, Len(live)) \in 0..Len(live)
    BY <2>1, PlaceType
  <2>5. order \in Seq(Items)
    BY <2>1, <2>2, <2>3, <2>4, InsertAtType
  <2> HIDE DEF order
  <2>6. [tx EXCEPT ![t].pc = "park", ![t].order = order] \in [Clients -> TxType]
    BY <2>5, TxSet, Labels
  <2>7. \/ tx' = [tx EXCEPT ![t].pc = "park", ![t].order = order] /\ UNCHANGED <<row, new, holder>>
        \/ Rollback(t)
    BY <1>7 DEF Selected, order
  <2> QED
    BY <2>6, <2>7, EndType DEF TypeOK
<1>8. CASE ParkSnapshot(t)
  <2>1. PICK s \in Seen : tx' = [tx EXCEPT ![t].pc = "parklock", ![t].list = s]
    BY <1>8 DEF ParkSnapshot
  <2>2. tx' \in [Clients -> TxType]
    BY <1>0, <2>1, TxSet, Labels
  <2> QED
    BY <1>8, <2>2 DEF TypeOK, ParkSnapshot
<1>9. CASE Park(t)
  <2>1. \A v \in Rows : Parked(v) \in Rows
    BY OffsetAssumption DEF Rows, Parked
  <2>2. [i \in Items |-> IF i \in ItemsOf(tx[t].list) THEN Parked(new[i]) ELSE new[i]] \in [Items -> Rows]
    BY <2>1 DEF TypeOK
  <2>3. /\ [tx EXCEPT ![t].pc = "revive"] \in [Clients -> TxType]
        /\ [tx EXCEPT ![t].pc = "assign"] \in [Clients -> TxType]
    BY TxSet, Labels
  <2> QED
    BY <1>9, <2>2, <2>3, EndType DEF TypeOK, Park, Goto
<1>10. CASE Revive(t)
  <2>1. tx[t].item \in Items /\ Numbered(2 * ParkOffset) \in Rows
    BY <1>10, <1>a, OffsetAssumption DEF Revive, Locks, Progress
  <2>2. [tx EXCEPT ![t].pc = "assign"] \in [Clients -> TxType]
    BY TxSet, Labels
  <2> QED
    BY <1>10, <2>1, <2>2, EndType DEF TypeOK, Revive, Goto
<1>11. CASE Assign(t)
  <2>1. tx[t].pos \in Nat /\ tx[t].pos + 1 \in Nat \ {0} /\ Numbered(tx[t].pos) \in Rows
    BY <1>a, TxFields
  <2>2. [tx EXCEPT ![t].pos = @ + 1] \in [Clients -> TxType]
    BY <2>1, TxSet
  <2> QED
    BY <1>11, <2>1, <2>2, EndType DEF TypeOK, Assign
<1>12. CASE Renumbered(t)
  BY <1>12, EndType DEF Renumbered
<1> QED
  BY <1>1, <1>2, <1>3, <1>4, <1>5, <1>6, <1>7, <1>8, <1>9, <1>10, <1>11, <1>12 DEF Step

------------------------------------------------------------------------------
(* The progress of the clients. *)

\* A step of t takes locks for t or gives t's up: it leaves the progress of
\* the others alone.
LEMMA OthersProgress ==
    ASSUME TypeOK, Locks, NEW t \in Clients,
           \A u \in Clients \ {t} : tx'[u] = tx[u],
           \A i \in Items : holder'[i] # holder[i]
              => holder[i] \in {t, NoClient} /\ holder'[i] \in {t, NoClient},
           Progress(t)'
    PROVE  Locks'
<1>1. ASSUME NEW u \in Clients \ {t}
      PROVE  Progress(u)'
  <2>1. tx'[u] = tx[u] /\ Progress(u)
    BY DEF Locks
  <2>2. \A i \in Items : (holder'[i] = u) <=> (holder[i] = u)
    BY NamesAssumption
  <2>3. tx[u].item \in Items \cup {NoItem} /\ ItemsOf(tx[u].order) \subseteq Items
    BY TxFields, ElementOfSeq DEF ItemsOf
  <2> QED
    BY <2>1, <2>2, <2>3 DEF Progress
<1> QED
  BY <1>1 DEF Locks

LEMMA EndProgress ==
    ASSUME TypeOK, Locks, NEW t \in Clients, Commit(t) \/ Rollback(t)
    PROVE  Locks'
<1>1. \A u \in Clients \ {t} : tx'[u] = tx[u]
  BY DEF Commit, Rollback, Finish, TypeOK
<1>2. \A i \in Items : holder'[i] = IF holder[i] = t THEN NoClient ELSE holder[i]
  BY DEF Commit, Rollback
<1>3. tx'[t] = Idle
  BY DEF Commit, Rollback, Finish, TypeOK
<1>4. Progress(t)'
  BY <1>2, <1>3, NamesAssumption DEF Progress, Idle
<1> QED
  BY <1>1, <1>2, <1>4, OthersProgress

\* A call sets what the client is about to do and locks nothing.
LEMMA StartProgress ==
    ASSUME TypeOK, Locks, NEW t \in Clients, NEW op, NEW pc, NEW i, NEW n, NEW s,
           Start(t, op, pc, i, n, s),
           \/ op = "create" /\ pc = "insert" /\ i \in Items
           \/ op \in {"move", "remove", "restore"} /\ pc = "lockitem" /\ i \in Items
           \/ op = "reorder" /\ pc = "select"
    PROVE  Locks'
<1> DEFINE x == [Idle EXCEPT !.op = op, !.pc = pc, !.item = i, !.arg = n, !.order = s]
<1>1. x.op = op /\ x.pc = pc /\ x.item = i
  BY DEF Idle
<1> HIDE DEF x
<1>2. tx[t].pc = "idle" /\ UNCHANGED holder /\ tx' = [tx EXCEPT ![t] = x]
  BY DEF Start, x
<1>3. tx'[t] = x /\ \A u \in Clients \ {t} : tx'[u] = tx[u]
  BY <1>2 DEF TypeOK
<1>4. \A j \in Items : holder'[j] # t
  BY <1>2 DEF Locks, Progress
<1>5. Progress(t)'
  BY <1>1, <1>3, <1>4 DEF Progress
<1> QED
  BY <1>2, <1>3, <1>5, OthersProgress

LEMMA CallProgress ==
    ASSUME TypeOK, Locks, NEW t \in Clients, Call(t)
    PROVE  Locks'
BY StartProgress DEF Call, AddAt, AddAtEnd, MoveTo, Reorder, Remove, Restore

LEMMA StepProgress ==
    ASSUME TypeOK, Locks, NEW t \in Clients, Step(t)
    PROVE  Locks'
<1> DEFINE Seen == InIndexOrder(LiveSeenBy(t), [i \in Items |-> Sees(t, i)])
<1>0. Progress(t) /\ t # NoClient
  BY NamesAssumption DEF Locks
<1>1. CASE Insert(t)
  <2>1. tx'[t] = Idle /\ (\A u \in Clients \ {t} : tx'[u] = tx[u])
    BY <1>1 DEF Insert, Finish, TypeOK
  <2>2. UNCHANGED holder /\ tx[t].pc = "insert"
    BY <1>1 DEF Insert
  <2>3. Progress(t)'
    BY <1>0, <2>1, <2>2 DEF Progress, Idle
  <2> QED
    BY <2>1, <2>2, <2>3, OthersProgress
<1>2. CASE Move(t)
  <2>1. CASE Rollback(t)
    BY <2>1, EndProgress
  <2>2. CASE holder' = [holder EXCEPT ![tx[t].item] = NoClient] /\ Finish(t)
    <3>1. tx[t].item \in Items /\ \A i \in Items : holder[i] = t <=> i = tx[t].item
      BY <1>0, <1>2 DEF Progress, Move
    <3>2. tx'[t] = Idle /\ (\A u \in Clients \ {t} : tx'[u] = tx[u])
      BY <2>2 DEF Finish, TypeOK
    <3>3. holder[tx[t].item] = t
      BY <3>1
    <3>4. \A i \in Items : holder'[i] = IF i = tx[t].item THEN NoClient ELSE holder[i]
      BY <2>2 DEF TypeOK
    <3>5. Progress(t)'
      BY <1>0, <3>1, <3>2, <3>4 DEF Progress, Idle
    <3> QED
      BY <3>2, <3>3, <3>4, <3>5, OthersProgress
  <2> QED
    BY <1>2, <2>1, <2>2 DEF Move
<1>3. CASE LockItem(t)
  <2>1. CASE Rollback(t)
    BY <2>1, EndProgress
  <2>2. CASE ~Rollback(t)
    <3>1. /\ tx[t].pc = "lockitem" /\ tx[t].item \in Items /\ holder[tx[t].item] = NoClient
          /\ \A i \in Items : holder[i] # t
      BY <1>0, <1>3, <2>2 DEF LockItem, Progress
    <3>2. \A i \in Items : holder'[i] = IF i = tx[t].item THEN t ELSE holder[i]
      BY <1>3, <2>2 DEF LockItem, TypeOK
    <3>3. /\ \A u \in Clients \ {t} : tx'[u] = tx[u]
          /\ tx'[t].op = tx[t].op /\ tx'[t].item = tx[t].item
          /\ \/ tx[t].op = "move" /\ tx'[t].pc = "move"
             \/ tx[t].op = "remove" /\ tx'[t].pc = "select"
             \/ tx[t].op = "restore" /\ tx'[t].pc = "clash"
      BY <1>3, <2>2 DEF LockItem, Goto, TypeOK, TxType
    <3>4. Progress(t)'
      BY <3>1, <3>2, <3>3 DEF Progress
    <3> QED
      BY <3>1, <3>2, <3>3, <3>4, OthersProgress
  <2> QED
    BY <2>1, <2>2
<1>4. CASE CheckClash(t)
  <2>1. CASE Rollback(t)
    BY <2>1, EndProgress
  <2>2. CASE tx' = [tx EXCEPT ![t].pc = "select"] /\ UNCHANGED holder
    <3>1. /\ \A u \in Clients \ {t} : tx'[u] = tx[u]
          /\ tx'[t].op = tx[t].op /\ tx'[t].item = tx[t].item /\ tx'[t].pc = "select"
      BY <2>2 DEF TypeOK, TxType
    <3>2. tx[t].op = "restore" /\ tx[t].pc = "clash"
      BY <1>0, <1>4 DEF Progress, CheckClash
    <3>3. Progress(t)'
      BY <1>0, <2>2, <3>1, <3>2 DEF Progress
    <3> QED
      BY <2>2, <3>1, <3>3, OthersProgress
  <2> QED
    BY <1>4, <2>1, <2>2 DEF CheckClash, Goto
<1>5. CASE Select(t)
  <2>1. PICK s \in Seen : tx' = [tx EXCEPT ![t].pc = "lock", ![t].list = s]
    BY <1>5 DEF Select
  <2>2. UNCHANGED holder /\ tx[t].pc = "select"
    BY <1>5 DEF Select
  <2>3. /\ \A u \in Clients \ {t} : tx'[u] = tx[u]
        /\ tx'[t].op = tx[t].op /\ tx'[t].item = tx[t].item /\ tx'[t].pc = "lock"
    BY <2>1 DEF TypeOK, TxType
  <2>4. Progress(t)'
    BY <1>0, <2>2, <2>3 DEF Progress
  <2> QED
    BY <2>2, <2>3, <2>4, OthersProgress
<1>6. ASSUME NEW i \in Items, LockRow(t, i)
      PROVE  Locks'
  <2>1. /\ holder[i] = NoClient /\ tx[t].pc \in {"lock", "parklock"}
        /\ \A j \in Items : holder'[j] = IF j = i THEN t ELSE holder[j]
    BY <1>6 DEF LockRow, TypeOK
  <2>2. /\ \A u \in Clients \ {t} : tx'[u] = tx[u]
        /\ tx'[t].op = tx[t].op /\ tx'[t].item = tx[t].item /\ tx'[t].pc = tx[t].pc
        /\ tx'[t].order = tx[t].order
    BY <1>6 DEF LockRow, TypeOK, TxType
  <2>3. ItemsOf(tx[t].order) \subseteq Items
    BY TxFields, ElementOfSeq DEF ItemsOf
  <2>4. Progress(t)'
    BY <1>0, <2>1, <2>2, <2>3 DEF Progress
  <2> QED
    BY <2>1, <2>2, <2>4, OthersProgress
<1>7. CASE Selected(t)
  <2> DEFINE live == tx[t].list
             order == CASE tx[t].op = "reorder" -> tx[t].order
                   [] tx[t].op = "remove" -> live
                   [] tx[t].op = "restore" -> InsertAt(live, Place(tx[t].arg, Len(live)), tx[t].item)
  <2>1. /\ live \in Seq(Items) /\ tx[t].arg \in Nat /\ Len(live) \in Nat
        /\ \A i \in ItemsOf(live) : holder[i] = t
    BY <1>7, TxFields, LenProperties DEF Selected, Unlocked, ItemsOf
  <2>2. tx[t].op \in {"reorder", "remove", "restore"} /\ tx[t].pc = "lock"
    BY <1>0, <1>7 DEF Selected, Progress
  <2>3. tx[t].op = "restore" => tx[t].item \in Items /\ holder[tx[t].item] = t
    BY <1>0, <2>2 DEF Progress
  <2>4. CASE Rollback(t)
    BY <2>4, EndProgress
  <2>5. CASE ~Rollback(t)
    <3>1. Place(tx[t].arg, Len(live)) \in 0..Len(live)
      BY <2>1, PlaceType
    <3>2. tx[t].op = "reorder" => ItemsOf(order) = ItemsOf(live)
      BY <1>7, <2>5 DEF Selected
    <3>3. \A i \in ItemsOf(order) : holder[i] = t
      BY <2>1, <2>2, <2>3, <3>1, <3>2, InsertAtType
    <3>4. tx' = [tx EXCEPT ![t].pc = "park", ![t].order = order] /\ UNCHANGED holder
      BY <1>7, <2>5 DEF Selected
    <3> HIDE DEF order, live
    <3>5. /\ \A u \in Clients \ {t} : tx'[u] = tx[u]
          /\ tx'[t].op = tx[t].op /\ tx'[t].item = tx[t].item /\ tx'[t].pc = "park"
          /\ tx'[t].order = order
      BY <3>4 DEF TypeOK, TxType
    <3>6. Progress(t)'
      BY <1>0, <2>2, <2>3, <3>3, <3>4, <3>5 DEF Progress
    <3> QED
      BY <3>4, <3>5, <3>6, OthersProgress
  <2> QED
    BY <2>4, <2>5
<1>8. CASE ParkSnapshot(t)
  <2>1. PICK s \in Seen : tx' = [tx EXCEPT ![t].pc = "parklock", ![t].list = s]
    BY <1>8 DEF ParkSnapshot
  <2>2. UNCHANGED holder /\ tx[t].pc = "park"
    BY <1>8 DEF ParkSnapshot
  <2>3. /\ \A u \in Clients \ {t} : tx'[u] = tx[u]
        /\ tx'[t].op = tx[t].op /\ tx'[t].item = tx[t].item /\ tx'[t].pc = "parklock"
        /\ tx'[t].order = tx[t].order
    BY <2>1 DEF TypeOK, TxType
  <2>4. Progress(t)'
    BY <1>0, <2>2, <2>3 DEF Progress
  <2> QED
    BY <2>2, <2>3, <2>4, OthersProgress
<1>9. CASE Park(t)
  <2>1. CASE Rollback(t)
    BY <2>1, EndProgress
  <2>2. CASE ~Rollback(t)
    <3>1. UNCHANGED holder /\ tx[t].pc = "parklock"
      BY <1>9, <2>2 DEF Park
    <3>2. /\ \A u \in Clients \ {t} : tx'[u] = tx[u]
          /\ tx'[t].op = tx[t].op /\ tx'[t].item = tx[t].item /\ tx'[t].order = tx[t].order
          /\ tx'[t].pc = IF tx[t].op = "restore" THEN "revive" ELSE "assign"
      BY <1>9, <2>2 DEF Park, Goto, TypeOK, TxType
    <3>3. Progress(t)'
      BY <1>0, <3>1, <3>2 DEF Progress
    <3> QED
      BY <3>1, <3>2, <3>3, OthersProgress
  <2> QED
    BY <2>1, <2>2
<1>10. CASE Revive(t)
  <2>1. CASE Rollback(t)
    BY <2>1, EndProgress
  <2>2. CASE ~Rollback(t)
    <3>1. UNCHANGED holder /\ tx[t].pc = "revive"
      BY <1>10, <2>2 DEF Revive
    <3>2. /\ \A u \in Clients \ {t} : tx'[u] = tx[u]
          /\ tx'[t].op = tx[t].op /\ tx'[t].item = tx[t].item /\ tx'[t].order = tx[t].order
          /\ tx'[t].pc = "assign"
      BY <1>10, <2>2 DEF Revive, Goto, TypeOK, TxType
    <3>3. Progress(t)'
      BY <1>0, <3>1, <3>2 DEF Progress
    <3> QED
      BY <3>1, <3>2, <3>3, OthersProgress
  <2> QED
    BY <2>1, <2>2
<1>11. CASE Assign(t)
  <2>1. CASE Rollback(t)
    BY <2>1, EndProgress
  <2>2. CASE ~Rollback(t)
    <3>1. UNCHANGED holder /\ tx[t].pc = "assign"
      BY <1>11, <2>2 DEF Assign
    <3>2. /\ \A u \in Clients \ {t} : tx'[u] = tx[u]
          /\ tx'[t].op = tx[t].op /\ tx'[t].item = tx[t].item /\ tx'[t].order = tx[t].order
          /\ tx'[t].pc = "assign"
      BY <1>11, <2>2 DEF Assign, TypeOK, TxType
    <3>3. Progress(t)'
      BY <1>0, <3>1, <3>2 DEF Progress
    <3> QED
      BY <3>1, <3>2, <3>3, OthersProgress
  <2> QED
    BY <2>1, <2>2
<1>12. CASE Renumbered(t)
  BY <1>12, EndProgress DEF Renumbered
<1> QED
  BY <1>1, <1>2, <1>3, <1>4, <1>5, <1>6, <1>7, <1>8, <1>9, <1>10, <1>11, <1>12 DEF Step

------------------------------------------------------------------------------
(* The keys. *)

\* A key clash does not depend on which row is named first.
LEMMA SameKeyBothWays ==
    ASSUME NEW i \in Items, NEW j \in Items, NEW v, NEW w, SameKey(i, v, j, w)
    PROVE  SameKey(j, w, i, v)
BY DEF SameKey

\* A version that meets no taken and no contended key clashes with nothing of
\* the other rows, but for the committed version of a row t has written.
LEMMA FreeIsApart ==
    ASSUME TypeOK, Apart, NEW t \in Clients, NEW i \in Items, NEW v,
           NEW j \in Items, i # j, ~Taken(t, i, v, j), ~Contended(t, i, v, j)
    PROVE  /\ ~SameKey(i, v, j, new[j])
           /\ holder[j] # t => ~SameKey(i, v, j, row[j])
BY NamesAssumption DEF Taken, Contended, Pending, Sees, Apart

LEMMA EndApart ==
    ASSUME TypeOK, Apart, NEW t \in Clients, Commit(t) \/ Rollback(t)
    PROVE  Apart'
<1>0. t # NoClient
  BY NamesAssumption
<1>1. CASE Commit(t)
  <2>1. \A i \in Items : /\ row'[i] = IF holder[i] = t THEN new[i] ELSE row[i]
                         /\ holder'[i] = IF holder[i] = t THEN NoClient ELSE holder[i]
                         /\ new'[i] = new[i]
    BY <1>1 DEF Commit
  <2>2. ASSUME NEW i \in Items, NEW j \in Items, i # j
        PROVE  /\ ~SameKey(i, row'[i], j, row'[j])
               /\ ~SameKey(i, new'[i], j, new'[j])
               /\ holder'[i] # holder'[j] => ~SameKey(i, new'[i], j, row'[j])
    BY <1>0, <2>1, <2>2, SameKeyBothWays DEF Apart
  <2>3. \A i \in Items : holder'[i] = NoClient => new'[i] = row'[i]
    BY <2>1 DEF Apart
  <2> QED
    BY <2>2, <2>3 DEF Apart, SameKey
<1>2. CASE Rollback(t)
  <2>1. \A i \in Items : /\ new'[i] = IF holder[i] = t THEN row[i] ELSE new[i]
                         /\ holder'[i] = IF holder[i] = t THEN NoClient ELSE holder[i]
                         /\ row'[i] = row[i]
    BY <1>2 DEF Rollback
  <2>2. ASSUME NEW i \in Items, NEW j \in Items, i # j
        PROVE  /\ ~SameKey(i, row'[i], j, row'[j])
               /\ ~SameKey(i, new'[i], j, new'[j])
               /\ holder'[i] # holder'[j] => ~SameKey(i, new'[i], j, row'[j])
    BY <1>0, <2>1, <2>2, SameKeyBothWays DEF Apart
  <2>3. \A i \in Items : holder'[i] = NoClient => new'[i] = row'[i]
    BY <2>1 DEF Apart
  <2> QED
    BY <2>2, <2>3 DEF Apart, SameKey
<1> QED
  BY <1>1, <1>2

\* Taking a lock nobody holds, and writing nothing.
LEMMA LockApart ==
    ASSUME TypeOK, Apart, NEW t \in Clients, NEW i \in Items, holder[i] = NoClient,
           holder' = [holder EXCEPT ![i] = t], UNCHANGED <<row, new>>
    PROVE  Apart'
<1>1. \A j \in Items : holder'[j] = IF j = i THEN t ELSE holder[j]
  BY DEF TypeOK
<1>2. ASSUME NEW j \in Items, NEW k \in Items, j # k, holder'[j] # holder'[k]
      PROVE  ~SameKey(j, new[j], k, row[k])
  BY <1>1, <1>2 DEF Apart
<1>3. t # NoClient
  BY NamesAssumption
<1> QED
  BY <1>1, <1>2, <1>3 DEF Apart, SameKey

\* Writing a free key into a row t has locked.
LEMMA WriteApart ==
    ASSUME TypeOK, Apart, NEW t \in Clients, NEW i \in Items, NEW v, holder[i] = t,
           Free(t, i, v), new' = [new EXCEPT ![i] = v], UNCHANGED <<row, holder>>
    PROVE  Apart'
<1>1. \A j \in Items : new'[j] = IF j = i THEN v ELSE new[j]
  BY DEF TypeOK
<1>2. ASSUME NEW j \in Items, i # j
      PROVE  /\ ~SameKey(i, v, j, new[j])
             /\ holder[j] # t => ~SameKey(i, v, j, row[j])
  BY <1>2, FreeIsApart DEF Free, Violates, MustWait
<1>3. ASSUME NEW j \in Items, NEW k \in Items, j # k
      PROVE  /\ ~SameKey(j, new'[j], k, new'[k])
             /\ holder[j] # holder[k] => ~SameKey(j, new'[j], k, row[k])
  BY <1>1, <1>2, <1>3, SameKeyBothWays DEF Apart
<1>4. t # NoClient
  BY NamesAssumption
<1> QED
  BY <1>1, <1>3, <1>4 DEF Apart, SameKey

\* A one-statement transaction that locks no other row, committed at once.
LEMMA AutocommitApart ==
    ASSUME TypeOK, Apart, NEW t \in Clients, NEW i \in Items, NEW v,
           \A j \in Items : holder[j] = t => j = i,
           Free(t, i, v), new' = [new EXCEPT ![i] = v], row' = [row EXCEPT ![i] = v],
           \/ UNCHANGED holder
           \/ holder' = [holder EXCEPT ![i] = NoClient]
    PROVE  Apart'
<1>1. \A j \in Items : /\ new'[j] = IF j = i THEN v ELSE new[j]
                       /\ row'[j] = IF j = i THEN v ELSE row[j]
                       /\ j # i => holder'[j] = holder[j] /\ holder[j] # t
  BY DEF TypeOK
<1>2. ASSUME NEW j \in Items, i # j
      PROVE  ~SameKey(i, v, j, new[j]) /\ ~SameKey(i, v, j, row[j])
  BY <1>1, <1>2, FreeIsApart DEF Free, Violates, MustWait
<1>3. ASSUME NEW j \in Items, NEW k \in Items, j # k
      PROVE  /\ ~SameKey(j, row'[j], k, row'[k])
             /\ ~SameKey(j, new'[j], k, new'[k])
             /\ holder'[j] # holder'[k] => ~SameKey(j, new'[j], k, row'[k])
  BY <1>1, <1>2, <1>3, SameKeyBothWays DEF Apart
<1>4. \A j \in Items : holder'[j] = NoClient => new'[j] = row'[j]
  BY <1>1 DEF Apart
<1> QED
  BY <1>3, <1>4 DEF Apart, SameKey

\* Removing a row frees its keys.
LEMMA RemoveApart ==
    ASSUME TypeOK, Apart, NEW t \in Clients, NEW i \in Items, holder[i] = NoClient,
           holder' = [holder EXCEPT ![i] = t], UNCHANGED row,
           new' = [new EXCEPT ![i].st = "removed"]
    PROVE  Apart'
<1>1. \A j \in Items : /\ j # i => new'[j] = new[j]
                       /\ holder'[j] = IF j = i THEN t ELSE holder[j]
                       /\ ~Live(new'[i])
  BY DEF TypeOK, Live, Rows
<1>2. ASSUME NEW j \in Items, NEW k \in Items, j # k
      PROVE  /\ ~SameKey(j, new'[j], k, new'[k])
             /\ holder'[j] # holder'[k] => ~SameKey(j, new'[j], k, row[k])
  BY <1>1, <1>2 DEF Apart, SameKey
<1>3. t # NoClient
  BY NamesAssumption
<1> QED
  BY <1>1, <1>2, <1>3 DEF Apart, SameKey

\* Parking keeps the numbers of a transaction's rows apart from each other,
\* and the update checks them against everybody else's.
LEMMA ParkApart ==
    ASSUME TypeOK, Apart, NEW t \in Clients, NEW S \in SUBSET Items,
           \A i \in S : holder[i] = t,
           \A i \in S, j \in Items \ S :
              ~Taken(t, i, Parked(new[i]), j) /\ ~Contended(t, i, Parked(new[i]), j),
           new' = [i \in Items |-> IF i \in S THEN Parked(new[i]) ELSE new[i]],
           UNCHANGED <<row, holder>>
    PROVE  Apart'
<1>1. \A j \in Items : new'[j] = IF j \in S THEN Parked(new[j]) ELSE new[j]
  OBVIOUS
<1>2. ASSUME NEW i \in S, NEW j \in Items \ S
      PROVE  /\ ~SameKey(i, Parked(new[i]), j, new[j])
             /\ holder[j] # t => ~SameKey(i, Parked(new[i]), j, row[j])
  BY <1>2, FreeIsApart
<1>3. ASSUME NEW i \in S, NEW j \in S, i # j
      PROVE  ~SameKey(i, Parked(new[i]), j, Parked(new[j]))
  <2>1. /\ new[i] \in Rows /\ new[j] \in Rows /\ ParkOffset \in Nat
        /\ ~SameKey(i, new[i], j, new[j])
    BY <1>3, OffsetAssumption DEF TypeOK, Apart
  <2>2. /\ Parked(new[i]).st = new[i].st /\ Parked(new[j]).st = new[j].st
        /\ Parked(new[i]).idx = new[i].idx + ParkOffset
        /\ Parked(new[j]).idx = new[j].idx + ParkOffset
        /\ new[i].idx \in Nat /\ new[j].idx \in Nat
    BY <2>1 DEF Parked, Rows
  <2>3. Parked(new[i]).idx = Parked(new[j]).idx => new[i].idx = new[j].idx
    BY <2>1, <2>2
  <2> QED
    BY <2>1, <2>2, <2>3, Zenon DEF SameKey, Live
<1>4. ASSUME NEW j \in Items, NEW k \in Items, j # k
      PROVE  /\ ~SameKey(j, new'[j], k, new'[k])
             /\ holder[j] # holder[k] => ~SameKey(j, new'[j], k, row[k])
  <2>1. CASE j \in S /\ k \in S
    BY <1>1, <1>3, <1>4, <2>1
  <2>2. CASE j \in S /\ k \notin S
    BY <1>1, <1>2, <1>4, <2>2
  <2>3. CASE j \notin S /\ k \in S
    <3>1. ~SameKey(j, new[j], k, Parked(new[k]))
      BY <1>2, <2>3, SameKeyBothWays
    <3> QED
      BY <1>1, <1>4, <2>3, <3>1 DEF Apart
  <2>4. CASE j \notin S /\ k \notin S
    BY <1>1, <1>4, <2>4 DEF Apart
  <2> QED
    BY <2>1, <2>2, <2>3, <2>4
<1>5. t # NoClient
  BY NamesAssumption
<1> QED
  BY <1>1, <1>4, <1>5 DEF Apart, SameKey

LEMMA StepApart ==
    ASSUME TypeOK, Locks, Apart, NEW t \in Clients, Step(t)
    PROVE  Apart'
<1>0. Progress(t)
  BY DEF Locks
<1>1. CASE Insert(t)
  <2>1. tx[t].item \in Items /\ \A j \in Items : holder[j] # t
    BY <1>0, <1>1 DEF Progress, Insert
  <2>2. CASE UNCHANGED <<row, new, holder>>
    BY <2>2 DEF Apart, SameKey
  <2>3. CASE ~UNCHANGED <<row, new, holder>>
    BY <1>1, <2>1, <2>3, AutocommitApart DEF Insert
  <2> QED
    BY <2>2, <2>3
<1>2. CASE Move(t)
  <2>1. tx[t].item \in Items /\ \A j \in Items : holder[j] = t => j = tx[t].item
    BY <1>0, <1>2 DEF Progress, Move
  <2>2. CASE Rollback(t)
    BY <2>2, EndApart
  <2>3. CASE ~Rollback(t)
    BY <1>2, <2>1, <2>3, AutocommitApart DEF Move
  <2> QED
    BY <2>2, <2>3
<1>3. CASE LockItem(t)
  <2>1. tx[t].item \in Items
    BY <1>0, <1>3 DEF Progress, LockItem
  <2>2. CASE Rollback(t)
    BY <2>2, EndApart
  <2>3. CASE ~Rollback(t)
    <3>1. /\ holder[tx[t].item] = NoClient /\ UNCHANGED row
          /\ holder' = [holder EXCEPT ![tx[t].item] = t]
          /\ UNCHANGED new \/ new' = [new EXCEPT ![tx[t].item].st = "removed"]
      BY <1>3, <2>3 DEF LockItem
    <3> QED
      BY <2>1, <3>1, LockApart, RemoveApart
  <2> QED
    BY <2>2, <2>3
<1>4. CASE CheckClash(t)
  <2>1. Rollback(t) \/ UNCHANGED <<row, new, holder>>
    BY <1>4 DEF CheckClash
  <2> QED
    BY <2>1, EndApart DEF Apart, SameKey
<1>5. CASE Select(t)
  BY <1>5 DEF Select, Apart, SameKey
<1>6. ASSUME NEW i \in Items, LockRow(t, i)
      PROVE  Apart'
  BY <1>6, LockApart DEF LockRow
<1>7. CASE Selected(t)
  <2>1. Rollback(t) \/ UNCHANGED <<row, new, holder>>
    BY <1>7 DEF Selected
  <2> QED
    BY <2>1, EndApart DEF Apart, SameKey
<1>8. CASE ParkSnapshot(t)
  BY <1>8 DEF ParkSnapshot, Apart, SameKey
<1>9. CASE Park(t)
  <2> DEFINE S == ItemsOf(tx[t].list)
  <2>1. S \subseteq Items /\ \A i \in S : holder[i] = t
    BY <1>9, TxFields, ElementOfSeq DEF Park, Unlocked, ItemsOf
  <2>2. CASE Rollback(t)
    BY <2>2, EndApart
  <2>3. CASE ~Rollback(t)
    <3>1. /\ \A i \in S, j \in Items \ S :
                ~Taken(t, i, Parked(new[i]), j) /\ ~Contended(t, i, Parked(new[i]), j)
          /\ new' = [i \in Items |-> IF i \in S THEN Parked(new[i]) ELSE new[i]]
          /\ UNCHANGED <<row, holder>>
      BY <1>9, <2>3 DEF Park
    <3> HIDE DEF S
    <3> QED
      BY <2>1, <3>1, ParkApart
  <2> QED
    BY <2>2, <2>3
<1>10. CASE Revive(t)
  <2>1. tx[t].item \in Items /\ holder[tx[t].item] = t
    BY <1>0, <1>10 DEF Progress, Revive
  <2>2. CASE Rollback(t)
    BY <2>2, EndApart
  <2>3. CASE ~Rollback(t)
    BY <1>10, <2>1, <2>3, WriteApart DEF Revive
  <2> QED
    BY <2>2, <2>3
<1>11. CASE Assign(t)
  <2> DEFINE i == tx[t].order[tx[t].pos]
  <2>1. i \in ItemsOf(tx[t].order) /\ i \in Items /\ tx[t].pc = "assign"
    <3>1. tx[t].pos \in 1..Len(tx[t].order)
      BY <1>11, TxFields, LenProperties DEF Assign
    <3> QED
      BY <1>11, <3>1, TxFields, ElementOfSeq DEF Assign, ItemsOf
  <2>2. CASE Rollback(t)
    BY <2>2, EndApart
  <2>3. CASE ~Rollback(t)
    <3>1. holder[i] = t
      BY <1>0, <2>1 DEF Progress
    <3> QED
      BY <1>11, <2>1, <2>3, <3>1, WriteApart DEF Assign
  <2> QED
    BY <2>2, <2>3
<1>12. CASE Renumbered(t)
  BY <1>12, EndApart DEF Renumbered
<1> QED
  BY <1>1, <1>2, <1>3, <1>4, <1>5, <1>6, <1>7, <1>8, <1>9, <1>10, <1>11, <1>12 DEF Step

LEMMA CallApart ==
    ASSUME TypeOK, Apart, NEW t \in Clients, Call(t)
    PROVE  Apart'
<1>1. UNCHANGED <<row, new, holder>>
  BY DEF Call, AddAt, AddAtEnd, MoveTo, Reorder, Remove, Restore, Start
<1> QED
  BY <1>1 DEF Apart, SameKey

------------------------------------------------------------------------------
(* The theorems. *)

LEMMA InitIInv == Init => IInv
<1> SUFFICES ASSUME Init PROVE IInv
  OBVIOUS
<1>1. row \in [Items -> Rows]
  <2>1. NoRow \in Rows
    BY DEF NoRow, Rows
  <2>2. \A v \in [st : {"live", "removed"}, idx : 1..MaxIndex] : v \in Rows
    BY MaxIndexAssumption DEF Rows
  <2>3. row \in [Items -> {NoRow} \cup [st : {"live", "removed"}, idx : 1..MaxIndex]]
    BY DEF Init, AtRest
  <2> QED
    BY <2>1, <2>2, <2>3
<1>2. TypeOK
  BY <1>1, IdleType DEF Init, TypeOK
<1>3. \A t \in Clients : tx[t] = Idle /\ \A i \in Items : holder[i] # t
  BY NamesAssumption DEF Init
<1>4. Locks
  BY <1>3 DEF Locks, Progress, Idle
<1>5. KeysApart(row) /\ new = row
  BY DEF Init, AtRest
<1>6. Apart
  BY <1>5 DEF Apart, KeysApart
<1> QED
  BY <1>2, <1>4, <1>6 DEF IInv

LEMMA NextIInv == IInv /\ [Next]_vars => IInv'
<1>1. ASSUME IInv, NEW t \in Clients, Call(t) \/ Step(t) \/ Rollback(t)
      PROVE  IInv'
  BY <1>1, CallType, CallProgress, CallApart, StepType, StepProgress, StepApart,
     EndType, EndProgress, EndApart DEF IInv
<1>2. ASSUME IInv, UNCHANGED vars
      PROVE  IInv'
  BY <1>2 DEF IInv, vars, TypeOK, Locks, Progress, Apart, SameKey, ItemsOf
<1> QED
  BY <1>1, <1>2 DEF Next, Cancel, DeadlockVictim

\* Every reachable state is well typed.
THEOREM TypeCorrect == Spec => []TypeOK
<1>1. IInv => TypeOK
  BY DEF IInv
<1> QED
  BY <1>1, InitIInv, NextIInv, PTL DEF Spec

\* However many requests run at once on however many pieces, no two committed
\* live pieces of a collection have the same number or the same arrangement.
THEOREM LiveRowsUnique == Spec => []UniqueLive
<1>1. IInv => UniqueLive
  BY DEF IInv, Apart, UniqueLive, KeysApart
<1> QED
  BY <1>1, InitIInv, NextIInv, PTL DEF Spec

------------------------------------------------------------------------------
(* Renumbering: only reorder and remove run.                               *)

Renumbering == {"reorder", "remove"}

Distinct(s) == \A a, b \in 1..Len(s) : s[a] = s[b] => a = b
InOrder(s) == \A a, b \in 1..Len(s) : a < b => row[s[a]].idx <= row[s[b]].idx

\* t is removing i and has taken it already.
Removing(t, i) == tx[t].op = "remove" /\ tx[t].pc \notin {"idle", "lockitem"} /\ i = tx[t].item

\* What it does, and what it has been told to do.
Calls(t) ==
    /\ tx[t].op \in {"none", "reorder", "remove"}
    /\ tx[t].pc \in {"idle", "lockitem", "select", "lock", "park", "parklock", "assign"}
    /\ tx[t].pc = "lockitem" => tx[t].op = "remove"
    /\ tx[t].pc # "assign" => tx[t].pos = 1
    /\ tx[t].op = "remove" => tx[t].item \in Items
    /\ tx[t].op = "reorder" => Distinct(tx[t].order)

\* What it has written: the piece it removes, and new numbers once it has parked the old ones.
Written(t) ==
    /\ \A i \in Items : Removing(t, i) =>
          /\ holder[i] = t /\ Live(row[i]) /\ new[i] = [row[i] EXCEPT !.st = "removed"]
    /\ \A i \in Items : holder[i] = t /\ ~Removing(t, i) =>
          /\ Live(new[i]) <=> Live(row[i])
          /\ tx[t].pc # "assign" \/ ~Live(row[i]) => new[i] = row[i]

\* The rows that its SELECT returns are the live ones.
Selects(t) ==
    tx[t].pc = "lock" =>
        /\ Distinct(tx[t].list)
        /\ LiveSeenBy(t) \subseteq ItemsOf(tx[t].list)
        /\ \A i \in ItemsOf(tx[t].list) : holder[i] = t => Live(new[i])
        /\ tx[t].op = "remove" => InOrder(tx[t].list)

\* From then on it holds every live row, and it gives them their places one after another.
Places(t) ==
    tx[t].pc \in {"park", "parklock", "assign"} =>
        /\ Distinct(tx[t].order) /\ ItemsOf(tx[t].order) = LiveSeenBy(t)
        /\ \A i \in LiveSeenBy(t) : holder[i] = t
        /\ tx[t].op = "remove" => InOrder(tx[t].order)
        /\ tx[t].pc = "parklock" => ItemsOf(tx[t].list) \subseteq LiveSeenBy(t)
        /\ IF tx[t].pc = "assign"
           THEN \A k \in 1..Len(tx[t].order) : k < tx[t].pos => new[tx[t].order[k]] = Numbered(k)
           ELSE tx[t].pos = 1

Renumbers(t) == Calls(t) /\ Written(t) /\ Selects(t) /\ Places(t)

\* A sequence of distinct items has as many items as places.
LEMMA CountItems ==
    ASSUME NEW s \in Seq(Items), Distinct(s)
    PROVE  IsFiniteSet(ItemsOf(s)) /\ Cardinality(ItemsOf(s)) = Len(s)
<1> DEFINE D == 1..Len(s)
           T == ItemsOf(s)
<1>1. Len(s) \in Nat /\ DOMAIN s = D /\ s = [k \in D |-> s[k]]
  BY LenProperties
<1>2. s \in [D -> T] /\ IsInjective(s) /\ \A x \in T : \E k \in D : s[k] = x
  BY <1>1 DEF ItemsOf, Distinct, IsInjective
<1>3. s \in Surjection(D, T) /\ s \in Injection(D, T)
  BY <1>2 DEF Surjection, Injection
<1>4. IsFiniteSet(D) /\ Cardinality(D) = Len(s)
  <2>1. PICK n : n = Len(s)
    OBVIOUS
  <2>2. n \in Nat /\ D = 1..n
    BY <1>1, <2>1
  <2>3. IsFiniteSet(1..n) /\ Cardinality(1..n) = IF 1 > n THEN 0 ELSE n - 1 + 1
    BY <2>2, FS_Interval
  <2> QED
    BY <2>1, <2>2, <2>3
<1> HIDE DEF D, T
<1>5. IsFiniteSet(T) /\ Cardinality(T) = Cardinality(D)
  BY <1>3, <1>4, FS_Surjection
<1> QED
  BY <1>4, <1>5 DEF T

\* The orderings of a set of items are the sequences of all of them, each once.
LEMMA OrderingItems ==
    ASSUME NEW S \in SUBSET Items, NEW s \in Orderings(S)
    PROVE  s \in Seq(Items) /\ Distinct(s) /\ ItemsOf(s) = S
<1>1. IsFiniteSet(S) /\ Cardinality(S) \in Nat
  BY ItemsAssumption, FS_Subset, FS_CardinalityType
<1>2. s \in Seq(Items) /\ ItemsOf(s) \subseteq S
  BY OrderingsAreSeqs
<1>3. DOMAIN s = 1..Cardinality(S) /\ Len(s) = Cardinality(S)
  BY <1>1 DEF Orderings
<1>4. Distinct(s)
  BY <1>3 DEF Orderings, Distinct
<1>5. Cardinality(ItemsOf(s)) = Cardinality(S)
  BY <1>2, <1>3, <1>4, CountItems
<1>6. ItemsOf(s) = S
  <2>1. PICK T : T = ItemsOf(s)
    OBVIOUS
  <2>2. T \in SUBSET S /\ Cardinality(S) = Cardinality(T)
    BY <1>2, <1>5, <2>1
  <2> QED
    BY <1>1, <2>1, <2>2, FS_Subset
<1> QED
  BY <1>2, <1>4, <1>6

LEMMA ItemsOrdered ==
    ASSUME NEW s \in Seq(Items), Distinct(s)
    PROVE  s \in Orderings(ItemsOf(s))
<1>1. Cardinality(ItemsOf(s)) = Len(s)
  BY CountItems
<1>2. Len(s) \in Nat /\ DOMAIN s = 1..Len(s) /\ s = [k \in 1..Len(s) |-> s[k]]
  BY LenProperties
<1>3. s \in [1..Len(s) -> ItemsOf(s)]
  BY <1>2 DEF ItemsOf
<1> QED
  BY <1>1, <1>2, <1>3 DEF Orderings, Distinct

\* Where the items of a sequence go when one of them is dropped.
LEMMA WithoutPlaces ==
    ASSUME NEW s \in Seq(Items), Distinct(s), NEW k \in 1..Len(s)
    PROVE  /\ Without(s, s[k]) \in Seq(Items) /\ Len(Without(s, s[k])) = Len(s) - 1
           /\ \A j \in 1..Len(s) - 1 :
                 Without(s, s[k])[j] = IF j < k THEN s[j] ELSE s[j + 1]
<1>1. (CHOOSE m \in 1..Len(s) : s[m] = s[k]) = k
  BY DEF Distinct
<1>2. Without(s, s[k]) = SubSeq(s, 1, k - 1) \o SubSeq(s, k + 1, Len(s))
  BY <1>1 DEF Without
<1>3. PICK n : n = Len(s)
  OBVIOUS
<1>4. n \in Nat /\ k \in 1..n /\ \A m \in 1..n : s[m] \in Items
  BY <1>3, LenProperties
<1>5. PICK a, b : a = SubSeq(s, 1, k - 1) /\ b = SubSeq(s, k + 1, n)
  OBVIOUS
<1>6. a \in Seq(Items) /\ Len(a) = k - 1 /\ \A m \in 1..k - 1 : a[m] = s[m]
  <2>1. k - 1 \in Nat /\ \A m \in 1..k - 1 : s[m] \in Items
    BY <1>4
  <2>2. /\ a \in Seq(Items)
        /\ Len(a) = IF 1 <= k - 1 THEN (k - 1) - 1 + 1 ELSE 0
        /\ \A m \in 1..((k - 1) - 1 + 1) : a[m] = s[1 + m - 1]
    BY <1>5, <2>1, SubSeqProperties
  <2> QED
    BY <1>4, <2>2
<1>7. b \in Seq(Items) /\ Len(b) = n - k /\ \A m \in 1..n - k : b[m] = s[k + m]
  <2>1. k + 1 \in Nat /\ \A m \in k + 1..n : s[m] \in Items
    BY <1>4
  <2>2. /\ b \in Seq(Items)
        /\ Len(b) = IF k + 1 <= n THEN n - (k + 1) + 1 ELSE 0
        /\ \A m \in 1..(n - (k + 1) + 1) : b[m] = s[(k + 1) + m - 1]
    BY <1>4, <1>5, <2>1, SubSeqProperties
  <2> QED
    BY <1>4, <2>2
<1>8. /\ a \o b \in Seq(Items) /\ Len(a \o b) = (k - 1) + (n - k)
      /\ \A m \in 1..((k - 1) + (n - k)) : (a \o b)[m] = IF m <= k - 1 THEN a[m] ELSE b[m - (k - 1)]
  <2>1. /\ a \o b \in Seq(Items) /\ Len(a \o b) = Len(a) + Len(b)
        /\ \A m \in 1..(Len(a) + Len(b)) :
              (a \o b)[m] = IF m <= Len(a) THEN a[m] ELSE b[m - Len(a)]
    BY <1>6, <1>7, ConcatProperties
  <2> QED
    BY <1>6, <1>7, <2>1
<1>9. Len(a \o b) = n - 1
  BY <1>4, <1>8
<1>10. ASSUME NEW j \in 1..n - 1
       PROVE  (a \o b)[j] = IF j < k THEN s[j] ELSE s[j + 1]
  <2>1. j \in 1..((k - 1) + (n - k))
    BY <1>4
  <2>2. CASE j < k
    <3>1. j <= k - 1 /\ j \in 1..k - 1
      BY <1>4, <2>2
    <3> QED
      BY <1>6, <1>8, <2>1, <2>2, <3>1
  <2>3. CASE ~(j < k)
    <3>1. ~(j <= k - 1) /\ j - (k - 1) \in 1..n - k /\ k + (j - (k - 1)) = j + 1
      BY <1>4, <2>3
    <3>2. b[j - (k - 1)] = s[j + 1]
      BY <1>7, <3>1
    <3> QED
      BY <1>8, <2>1, <2>3, <3>1, <3>2
  <2> QED
    BY <2>2, <2>3
<1>11. Without(s, s[k]) = a \o b
  BY <1>2, <1>3, <1>5
<1> QED
  BY <1>3, <1>8, <1>9, <1>10, <1>11

\* Dropping an item of a sequence of distinct ones leaves the others in the same order.
LEMMA WithoutKeeps ==
    ASSUME NEW s \in Seq(Items), Distinct(s), NEW i \in ItemsOf(s)
    PROVE  /\ Without(s, i) \in Seq(Items) /\ Distinct(Without(s, i))
           /\ ItemsOf(Without(s, i)) = ItemsOf(s) \ {i}
           /\ InOrder(s) => InOrder(Without(s, i))
<1>1. PICK k \in 1..Len(s) : s[k] = i
  BY DEF ItemsOf
<1>2. PICK n, u : n = Len(s) /\ u = Without(s, i)
  OBVIOUS
<1>3. n \in Nat /\ k \in 1..n
  BY <1>1, <1>2, LenProperties
<1>4. /\ u \in Seq(Items) /\ Len(u) = n - 1
      /\ \A j \in 1..n - 1 : u[j] = IF j < k THEN s[j] ELSE s[j + 1]
  BY <1>1, <1>2, WithoutPlaces
<1> DEFINE Old(j) == IF j < k THEN j ELSE j + 1
<1>5. \A j \in 1..n - 1 : u[j] = s[Old(j)] /\ Old(j) \in 1..n /\ Old(j) # k
  BY <1>3, <1>4
<1>6. \A a, b \in 1..n - 1 : (Old(a) = Old(b) => a = b) /\ (a < b => Old(a) < Old(b))
  BY <1>3
<1>7. \A m \in 1..n : m # k => \E j \in 1..n - 1 : Old(j) = m
  <2> SUFFICES ASSUME NEW m \in 1..n, m # k PROVE \E j \in 1..n - 1 : Old(j) = m
    OBVIOUS
  <2>1. CASE m < k
    BY <1>3, <2>1
  <2>2. CASE ~(m < k)
    <3>1. m - 1 \in 1..n - 1 /\ Old(m - 1) = m
      BY <1>3, <2>2
    <3> QED
      BY <3>1
  <2> QED
    BY <2>1, <2>2
<1> HIDE DEF Old
<1>8. Distinct(u)
  BY <1>2, <1>4, <1>5, <1>6 DEF Distinct
<1>9. ItemsOf(u) = ItemsOf(s) \ {i}
  <2>1. \A j \in 1..n - 1 : u[j] \in ItemsOf(s) /\ u[j] # i
    BY <1>1, <1>2, <1>5 DEF ItemsOf, Distinct
  <2>2. ASSUME NEW m \in 1..n, s[m] # i PROVE s[m] \in ItemsOf(u)
    <3>1. PICK j \in 1..n - 1 : Old(j) = m
      BY <1>1, <1>7, <2>2
    <3>2. u[j] = s[m]
      BY <1>5, <3>1
    <3> QED
      BY <1>4, <3>2 DEF ItemsOf
  <2> QED
    BY <1>2, <1>4, <2>1, <2>2 DEF ItemsOf
<1>10. InOrder(s) => InOrder(u)
  BY <1>2, <1>4, <1>5, <1>6 DEF InOrder
<1> QED
  BY <1>2, <1>4, <1>8, <1>9, <1>10

\* With nothing but these two, the invariant also says what each of them has come to.
RInv == IInv /\ NumbersDense /\ \A t \in Clients : Renumbers(t)

\* t is removing a piece and has it.
Past(t) == tx[t].op = "remove" /\ tx[t].pc \notin {"idle", "lockitem"}

\* What a step of another client leaves of a client.
LEMMA OthersRenumber ==
    ASSUME TypeOK, NEW u \in Clients, Renumbers(u), tx'[u] = tx[u],
           \A i \in Items : (holder'[i] = u) <=> (holder[i] = u),
           \A i \in Items : holder[i] = u => new'[i] = new[i] /\ row'[i] = row[i],
           \A i \in Items : Live(row'[i]) => Live(row[i]),
           Past(u) => row' = row
    PROVE  Renumbers(u)'
<1>1. PICK q : q = tx[u]
  OBVIOUS
<1>2. tx[u] = q /\ tx'[u] = q
  BY <1>1
<1>3. \A i \in Items : Live(Sees(u, i))' => Live(Sees(u, i))
  BY DEF Sees, Live
<1>4. \A i \in Items : holder[i] = u => (Sees(u, i)' = Sees(u, i))
  BY DEF Sees
<1>5. LiveSeenBy(u)' \subseteq LiveSeenBy(u)
  BY <1>3 DEF LiveSeenBy
<1>6. (\A i \in LiveSeenBy(u) : holder[i] = u) => LiveSeenBy(u)' = LiveSeenBy(u)
  <2>1. ASSUME \A i \in LiveSeenBy(u) : holder[i] = u, NEW i \in LiveSeenBy(u)
        PROVE  i \in LiveSeenBy(u)'
    <3>1. i \in Items /\ holder[i] = u /\ Live(Sees(u, i))
      BY <2>1 DEF LiveSeenBy
    <3>2. Sees(u, i)' = Sees(u, i)
      BY <1>4, <3>1
    <3> QED
      BY <3>1, <3>2 DEF LiveSeenBy, Live
  <2> QED
    BY <1>5, <2>1
<1>7. ItemsOf(q.list) \subseteq Items /\ ItemsOf(q.order) \subseteq Items
  BY <1>1, TxFields, ElementOfSeq DEF ItemsOf
<1>8. Calls(u)'
  <2>1. Calls(u)
    BY DEF Renumbers
  <2> QED
    BY <1>2, <2>1 DEF Calls, Distinct
<1>9. Written(u)'
  <2>1. Written(u)
    BY DEF Renumbers
  <2>2. \A i \in Items : Removing(u, i)' <=> Removing(u, i)
    BY <1>2 DEF Removing
  <2>3. \A i \in Items : holder'[i] = u => /\ holder[i] = u
                                           /\ new'[i] = new[i] /\ row'[i] = row[i]
    OBVIOUS
  <2>4. ASSUME NEW i \in Items, Removing(u, i)'
        PROVE  holder'[i] = u /\ Live(row'[i]) /\ new'[i] = [row'[i] EXCEPT !.st = "removed"]
    BY <2>1, <2>2, <2>4 DEF Written
  <2>5. ASSUME NEW i \in Items, holder'[i] = u, ~Removing(u, i)'
        PROVE  /\ Live(new'[i]) <=> Live(row'[i])
               /\ tx'[u].pc # "assign" \/ ~Live(row'[i]) => new'[i] = row'[i]
    <3>1. holder[i] = u /\ ~Removing(u, i) /\ new'[i] = new[i] /\ row'[i] = row[i]
      BY <2>2, <2>3, <2>5
    <3> QED
      BY <1>2, <2>1, <3>1 DEF Written
  <2> QED
    BY <2>4, <2>5 DEF Written, Live
<1>10. Selects(u)'
  <2>1. Selects(u)
    BY DEF Renumbers
  <2>2. CASE q.pc = "lock"
    <3>1. /\ Distinct(q.list) /\ LiveSeenBy(u) \subseteq ItemsOf(q.list)
          /\ \A i \in ItemsOf(q.list) : holder[i] = u => Live(new[i])
          /\ q.op = "remove" => InOrder(q.list)
      BY <1>2, <2>1, <2>2 DEF Selects
    <3>2. q.op = "remove" => InOrder(q.list)'
      BY <1>2, <2>2, <3>1 DEF Past, InOrder
    <3>3. LiveSeenBy(u)' \subseteq ItemsOf(q.list)
      BY <1>5, <3>1
    <3>4. \A i \in ItemsOf(q.list) : holder'[i] = u => Live(new'[i])
      BY <1>7, <3>1
    <3> QED
      BY <1>2, <3>1, <3>2, <3>3, <3>4 DEF Selects, Distinct, ItemsOf, Live, InOrder
  <2>3. CASE q.pc # "lock"
    BY <1>2, <2>3 DEF Selects
  <2> QED
    BY <2>2, <2>3
<1>11. Places(u)'
  <2>1. Places(u)
    BY DEF Renumbers
  <2>2. CASE q.pc \in {"park", "parklock", "assign"}
    <3>1. /\ Distinct(q.order) /\ ItemsOf(q.order) = LiveSeenBy(u)
          /\ \A i \in LiveSeenBy(u) : holder[i] = u
          /\ q.op = "remove" => InOrder(q.order)
          /\ q.pc = "parklock" => ItemsOf(q.list) \subseteq LiveSeenBy(u)
          /\ IF q.pc = "assign"
             THEN \A k \in 1..Len(q.order) : k < q.pos => new[q.order[k]] = Numbered(k)
             ELSE q.pos = 1
      BY <1>2, <2>1, <2>2 DEF Places
    <3>2. LiveSeenBy(u)' = LiveSeenBy(u) /\ \A i \in LiveSeenBy(u) : holder'[i] = u
      BY <1>6, <1>7, <3>1
    <3>3. q.op = "remove" => InOrder(q.order)'
      BY <1>2, <2>2, <3>1 DEF Past, InOrder
    <3>4. \A k \in 1..Len(q.order) : new'[q.order[k]] = new[q.order[k]]
      BY <1>7, <3>1 DEF ItemsOf
    <3>5. IF q.pc = "assign"
          THEN \A k \in 1..Len(q.order) : k < q.pos => new'[q.order[k]] = Numbered(k)
          ELSE q.pos = 1
      BY <3>1, <3>4
    <3>6. ItemsOf(q.order) = LiveSeenBy(u)' /\ \A i \in LiveSeenBy(u)' : holder'[i] = u
      BY <3>1, <3>2
    <3>7. q.pc = "parklock" => ItemsOf(q.list) \subseteq LiveSeenBy(u)'
      BY <3>1, <3>2
    <3>8. Distinct(q.order)
      BY <3>1
    <3> QED
      BY <1>2, <3>3, <3>5, <3>6, <3>7, <3>8 DEF Places, Distinct, ItemsOf, InOrder
  <2>3. CASE q.pc \notin {"park", "parklock", "assign"}
    BY <1>2, <2>3 DEF Places
  <2> QED
    BY <2>2, <2>3
<1> QED
  BY <1>8, <1>9, <1>10, <1>11 DEF Renumbers

\* A step that commits nothing concerns nobody but its client.
LEMMA OwnStep ==
    ASSUME RInv, NEW t \in Clients, \A u \in Clients \ {t} : tx'[u] = tx[u], UNCHANGED row,
           \A i \in Items : holder'[i] # holder[i]
              => holder[i] \in {t, NoClient} /\ holder'[i] \in {t, NoClient},
           \A i \in Items : new'[i] # new[i] => holder[i] \in {t, NoClient},
           Renumbers(t)'
    PROVE  \A u \in Clients : Renumbers(u)'
<1> SUFFICES ASSUME NEW u \in Clients \ {t} PROVE Renumbers(u)'
  OBVIOUS
<1>1. TypeOK /\ Renumbers(u) /\ u # NoClient
  BY NamesAssumption DEF RInv, IInv
<1>2. \A i \in Items : (holder'[i] = u) <=> (holder[i] = u)
  BY <1>1
<1>3. \A i \in Items : holder[i] = u => new'[i] = new[i] /\ row'[i] = row[i]
  BY <1>1
<1> QED
  BY <1>1, <1>2, <1>3, OthersRenumber

\* A client that has ended has nothing left.
LEMMA IdleRenumbers ==
    ASSUME NEW t \in Clients, tx'[t] = Idle, \A i \in Items : holder'[i] # t
    PROVE  Renumbers(t)'
<1>1. PICK q : q = tx'[t]
  OBVIOUS
<1>2. q.op = "none" /\ q.pc = "idle" /\ q.pos = 1
  BY <1>1 DEF Idle
<1>3. Calls(t)' /\ Selects(t)' /\ Places(t)'
  BY <1>1, <1>2 DEF Calls, Selects, Places
<1>4. Written(t)'
  BY <1>1, <1>2 DEF Written, Removing
<1> QED
  BY <1>3, <1>4 DEF Renumbers

LEMMA RollbackRenumbers ==
    ASSUME RInv, NEW t \in Clients, Rollback(t)
    PROVE  \A u \in Clients : Renumbers(u)'
<1>1. t # NoClient /\ TypeOK
  BY NamesAssumption DEF RInv, IInv
<1>2. /\ \A i \in Items : holder'[i] = IF holder[i] = t THEN NoClient ELSE holder[i]
      /\ \A i \in Items : new'[i] = IF holder[i] = t THEN row[i] ELSE new[i]
      /\ UNCHANGED row /\ tx'[t] = Idle /\ \A u \in Clients \ {t} : tx'[u] = tx[u]
  BY <1>1 DEF Rollback, Finish, TypeOK
<1>3. Renumbers(t)'
  BY <1>1, <1>2, IdleRenumbers
<1> QED
  BY <1>2, <1>3, OwnStep

\* Nobody has parked the pieces while another client is removing one: it would hold that one.
LEMMA NobodyPast ==
    ASSUME RInv, NEW t \in Clients, NEW u \in Clients, t # u,
           tx[t].pc \in {"park", "parklock", "assign"}
    PROVE  ~Past(u)
<1> SUFFICES ASSUME Past(u) PROVE FALSE
  OBVIOUS
<1>1. PICK i : i = tx[u].item
  OBVIOUS
<1>2. i \in Items /\ Removing(u, i)
  BY <1>1 DEF Past, Removing, RInv, Renumbers, Calls
<1>3. holder[i] = u /\ Live(row[i])
  BY <1>2 DEF RInv, Renumbers, Written
<1>4. i \in LiveSeenBy(t)
  BY <1>2, <1>3 DEF LiveSeenBy, Sees
<1> QED
  BY <1>3, <1>4 DEF RInv, Renumbers, Places

\* A transaction writes nothing but numbers and the removal of its piece.
LEMMA WritesLess ==
    ASSUME RInv, NEW t \in Clients, NEW i \in Items, holder[i] = t, Live(new[i])
    PROVE  Live(row[i]) /\ ~Removing(t, i)
<1>1. Written(t) /\ row[i] \in Rows
  BY DEF RInv, Renumbers, IInv, TypeOK
<1>2. ~Removing(t, i)
  <2> SUFFICES ASSUME Removing(t, i) PROVE FALSE
    OBVIOUS
  <2>1. new[i] = [row[i] EXCEPT !.st = "removed"]
    BY <1>1 DEF Written
  <2>2. new[i].st = "removed"
    BY <1>1, <2>1 DEF Rows
  <2> QED
    BY <2>2 DEF Live
<1> QED
  BY <1>1, <1>2 DEF Written

\* The live rows after a renumbering are the ones in its order, numbered by their places.
LEMMA Outcome ==
    ASSUME RInv, NEW t \in Clients, Renumbered(t)
    PROVE  LET s == tx[t].order
           IN /\ s \in Seq(Items) /\ Distinct(s)
              /\ ItemsOf(s) = LiveOf(row)' /\ \A k \in 1..Len(s) : row'[s[k]] = Numbered(k)
<1>1. PICK q, s : q = tx[t] /\ s = q.order
  OBVIOUS
<1>2. q.pc = "assign" /\ q.pos > Len(s) /\ Commit(t)
  BY <1>1 DEF Renumbered
<1>3. s \in Seq(Items) /\ q.pos \in Nat /\ Len(s) \in Nat
  BY <1>1, TxFields, LenProperties DEF RInv, IInv
<1>4. /\ Distinct(s) /\ ItemsOf(s) = LiveSeenBy(t) /\ \A i \in LiveSeenBy(t) : holder[i] = t
      /\ \A k \in 1..Len(s) : k < q.pos => new[s[k]] = Numbered(k)
  BY <1>1, <1>2 DEF RInv, Renumbers, Places
<1>5. \A i \in Items : row'[i] = Sees(t, i)
  BY <1>2 DEF Commit, Sees
<1>6. LiveOf(row)' = LiveSeenBy(t)
  BY <1>5 DEF LiveOf, LiveSeenBy, Live
<1>7. ASSUME NEW k \in 1..Len(s) PROVE row'[s[k]] = Numbered(k)
  <2>1. s[k] \in Items /\ s[k] \in LiveSeenBy(t) /\ k < q.pos
    BY <1>2, <1>3, <1>4, ElementOfSeq DEF ItemsOf
  <2> QED
    BY <1>4, <1>5, <2>1 DEF Sees
<1> QED
  BY <1>1, <1>3, <1>4, <1>6, <1>7

LEMMA RenumberedDense ==
    ASSUME RInv, NEW t \in Clients, Renumbered(t)
    PROVE  NumbersDense'
<1>1. PICK s : s = tx[t].order
  OBVIOUS
<1>2. /\ s \in Seq(Items) /\ Distinct(s)
      /\ ItemsOf(s) = LiveOf(row)' /\ \A k \in 1..Len(s) : row'[s[k]] = Numbered(k)
  BY <1>1, Outcome
<1>3. Cardinality(ItemsOf(s)) = Len(s)
  BY <1>2, CountItems
<1>4. \A k \in 1..Len(s) : row'[s[k]].idx = k
  <2>1. \A k \in Nat : Numbered(k).idx = k
    BY DEF Numbered
  <2>2. 1..Len(s) \subseteq Nat
    BY <1>2, LenProperties
  <2> QED
    BY <1>2, <2>1, <2>2
<1>5. {row'[i].idx : i \in ItemsOf(s)} = 1..Len(s)
  BY <1>4 DEF ItemsOf
<1> QED
  BY <1>2, <1>3, <1>5 DEF NumbersDense, Dense

LEMMA RenumberedRenumbers ==
    ASSUME RInv, NEW t \in Clients, Renumbered(t)
    PROVE  \A u \in Clients : Renumbers(u)'
<1>1. t # NoClient /\ TypeOK /\ tx[t].pc = "assign"
  BY NamesAssumption DEF RInv, IInv, Renumbered
<1>2. /\ \A i \in Items : holder'[i] = IF holder[i] = t THEN NoClient ELSE holder[i]
      /\ \A i \in Items : row'[i] = IF holder[i] = t THEN new[i] ELSE row[i]
      /\ UNCHANGED new /\ tx'[t] = Idle /\ \A u \in Clients \ {t} : tx'[u] = tx[u]
  BY <1>1 DEF Renumbered, Commit, Finish, TypeOK
<1>3. Renumbers(t)'
  BY <1>1, <1>2, IdleRenumbers
<1>4. ASSUME NEW u \in Clients \ {t} PROVE Renumbers(u)'
  <2>1. Renumbers(u) /\ u # NoClient /\ ~Past(u)
    BY <1>1, NobodyPast, NamesAssumption DEF RInv
  <2>2. \A i \in Items : (holder'[i] = u) <=> (holder[i] = u)
    BY <1>2, <2>1
  <2>3. \A i \in Items : holder[i] = u => new'[i] = new[i] /\ row'[i] = row[i]
    BY <1>2
  <2>4. \A i \in Items : Live(row'[i]) => Live(row[i])
    BY <1>2, WritesLess
  <2> QED
    BY <1>1, <1>2, <2>1, <2>2, <2>3, <2>4, OthersRenumber
<1> QED
  BY <1>3, <1>4

\* A call begins with nothing locked.
LEMMA CallRenumbers ==
    ASSUME Kinds \subseteq Renumbering, RInv, NEW t \in Clients, Call(t)
    PROVE  \A u \in Clients : Renumbers(u)'
<1>1. "create" \notin Kinds /\ "append" \notin Kinds /\ "move" \notin Kinds /\ "restore" \notin Kinds
  BY DEF Renumbering
<1>2. \/ \E s \in Orderings(LiveRows) : Reorder(t, s)
      \/ \E i \in Items : Remove(t, i)
  BY <1>1 DEF Call, AddAt, AddAtEnd, MoveTo, Restore, Start
<1>3. /\ tx[t].pc = "idle" /\ UNCHANGED <<row, new, holder>>
      /\ \A u \in Clients \ {t} : tx'[u] = tx[u]
      /\ tx'[t].pos = 1
      /\ \/ tx'[t].op = "reorder" /\ tx'[t].pc = "select" /\ Distinct(tx'[t].order)
         \/ tx'[t].op = "remove" /\ tx'[t].pc = "lockitem" /\ tx'[t].item \in Items
  <2>1. tx \in [Clients -> TxType] /\ Idle.pos = 1
    BY DEF RInv, IInv, TypeOK, Idle
  <2>2. ASSUME NEW s \in Orderings(LiveRows), Reorder(t, s)
        PROVE  <1>3!:
    <3>1. Distinct(s)
      BY OrderingItems DEF LiveRows, LiveOf
    <3> QED
      BY <2>1, <2>2, <3>1 DEF Reorder, Start, Idle
  <2>3. ASSUME NEW i \in Items, Remove(t, i)
        PROVE  <1>3!:
    BY <2>1, <2>3 DEF Remove, Start, Idle
  <2> QED
    BY <1>2, <2>2, <2>3
<1>4. \A i \in Items : holder[i] # t
  BY <1>3 DEF RInv, IInv, Locks, Progress
<1>5. PICK q : q = tx'[t]
  OBVIOUS
<1>6. Calls(t)' /\ Selects(t)' /\ Places(t)'
  BY <1>3, <1>5 DEF Calls, Selects, Places, Distinct
<1>7. Written(t)'
  BY <1>3, <1>4, <1>5 DEF Written, Removing
<1>8. Renumbers(t)'
  BY <1>6, <1>7 DEF Renumbers
<1> QED
  BY <1>3, <1>8, OwnStep

\* remove takes its piece, which is as everybody sees it, and marks it removed.
LEMMA LockItemRenumbers ==
    ASSUME RInv, NEW t \in Clients, LockItem(t)
    PROVE  \A u \in Clients : Renumbers(u)'
<1>1. CASE Rollback(t)
  BY <1>1, RollbackRenumbers
<1>2. CASE ~Rollback(t)
  <2>1. PICK q, i : q = tx[t] /\ i = q.item
    OBVIOUS
  <2>2. q.pc = "lockitem" /\ Calls(t) /\ TypeOK /\ Apart /\ Progress(t)
    BY <2>1 DEF LockItem, RInv, IInv, Renumbers, Locks
  <2>3. q.op = "remove" /\ i \in Items /\ q.pos = 1
    BY <2>1, <2>2 DEF Calls
  <2>4. /\ row[i].st = "live" /\ holder[i] = NoClient
        /\ holder' = [holder EXCEPT ![i] = t] /\ UNCHANGED row
        /\ tx' = [tx EXCEPT ![t].pc = "select"]
        /\ new' = [new EXCEPT ![i].st = "removed"]
    BY <1>2, <2>1, <2>3 DEF LockItem, Wanted, Goto
  <2>5. \A j \in Items : holder[j] # t
    BY <2>1, <2>2 DEF Progress
  <2>6. /\ tx'[t] = [q EXCEPT !.pc = "select"]
        /\ \A u \in Clients \ {t} : tx'[u] = tx[u]
    BY <2>1, <2>2, <2>4 DEF TypeOK
  <2>7. /\ tx'[t].pc = "select" /\ tx'[t].op = "remove" /\ tx'[t].item = i /\ tx'[t].pos = 1
    BY <2>1, <2>2, <2>3, <2>6 DEF TypeOK, TxType
  <2>8. holder'[i] = t /\ \A j \in Items \ {i} : holder'[j] = holder[j] /\ new'[j] = new[j]
    BY <2>2, <2>3, <2>4 DEF TypeOK
  <2>9. new'[i] = [row[i] EXCEPT !.st = "removed"]
    BY <2>2, <2>3, <2>4 DEF TypeOK, Apart
  <2>10. PICK p : p = tx'[t]
    OBVIOUS
  <2>11. Calls(t)' /\ Selects(t)' /\ Places(t)'
    BY <2>3, <2>7, <2>10 DEF Calls, Selects, Places
  <2>12. Written(t)'
    BY <2>4, <2>5, <2>7, <2>8, <2>9, <2>10 DEF Written, Removing, Live
  <2>13. Renumbers(t)'
    BY <2>11, <2>12 DEF Renumbers
  <2> QED
    BY <2>3, <2>4, <2>6, <2>8, <2>13, OwnStep
<1> QED
  BY <1>1, <1>2

\* A transaction that only locks more rows, before it parks them, has written what it had.
LEMMA StillWritten ==
    ASSUME RInv, NEW t \in Clients, tx'[t].op = tx[t].op, tx'[t].item = tx[t].item,
           tx[t].pc \in {"select", "lock", "park", "parklock"},
           tx'[t].pc \in {"select", "lock", "park", "parklock"},
           UNCHANGED <<row, new>>,
           \A i \in Items : holder'[i] # holder[i] => holder[i] = NoClient
    PROVE  /\ Written(t)'
           /\ \A i \in Items : Sees(t, i)' = Sees(t, i)
           /\ LiveSeenBy(t)' = LiveSeenBy(t)
<1>1. PICK q, p : q = tx[t] /\ p = tx'[t]
  OBVIOUS
<1>2. /\ Written(t) /\ t # NoClient
      /\ \A i \in Items : holder[i] = NoClient => new[i] = row[i]
  BY NamesAssumption DEF RInv, Renumbers, IInv, Apart
<1>3. \A i \in Items : Removing(t, i)' <=> Removing(t, i)
  BY <1>1 DEF Removing
<1>4. ASSUME NEW i \in Items, Removing(t, i)'
      PROVE  holder'[i] = t /\ Live(row[i]) /\ new[i] = [row[i] EXCEPT !.st = "removed"]
  <2>1. holder[i] = t /\ Live(row[i]) /\ new[i] = [row[i] EXCEPT !.st = "removed"]
    BY <1>2, <1>3, <1>4 DEF Written
  <2> QED
    BY <1>2, <2>1
<1>5. ASSUME NEW i \in Items, holder'[i] = t, ~Removing(t, i)'
      PROVE  new[i] = row[i]
  <2>1. CASE holder[i] = t
    BY <1>1, <1>2, <1>3, <1>5, <2>1 DEF Written
  <2>2. CASE holder[i] # t
    BY <1>2, <1>5, <2>2
  <2> QED
    BY <2>1, <2>2
<1>6. Written(t)'
  BY <1>4, <1>5 DEF Written, Live
<1>7. \A i \in Items : Sees(t, i)' = Sees(t, i)
  BY <1>2 DEF Sees
<1>8. LiveSeenBy(t)' = LiveSeenBy(t)
  BY <1>7 DEF LiveSeenBy, Live
<1> QED
  BY <1>6, <1>7, <1>8

\* What a transaction sees of a live row before it parks is what everybody sees.
LEMMA SeesCommitted ==
    ASSUME RInv, NEW t \in Clients, tx[t].pc # "assign", NEW i \in LiveSeenBy(t)
    PROVE  Sees(t, i) = row[i]
<1>1. i \in Items /\ Live(Sees(t, i))
  BY DEF LiveSeenBy
<1>2. CASE holder[i] = t
  <2>1. Sees(t, i) = new[i] /\ ~Removing(t, i)
    BY <1>1, <1>2, WritesLess DEF Sees
  <2> QED
    BY <1>1, <1>2, <2>1 DEF RInv, Renumbers, Written
<1>3. CASE holder[i] # t
  BY <1>3 DEF Sees
<1> QED
  BY <1>2, <1>3

LEMMA SelectRenumbers ==
    ASSUME RInv, NEW t \in Clients, Select(t)
    PROVE  \A u \in Clients : Renumbers(u)'
<1>1. PICK s \in InIndexOrder(LiveSeenBy(t), [i \in Items |-> Sees(t, i)]) :
         tx' = [tx EXCEPT ![t].pc = "lock", ![t].list = s]
  BY DEF Select
<1>2. PICK q : q = tx[t]
  OBVIOUS
<1>3. q.pc = "select" /\ UNCHANGED <<row, new, holder>> /\ Calls(t) /\ TypeOK
  BY <1>2 DEF Select, RInv, IInv, Renumbers
<1>4. /\ tx'[t].pc = "lock" /\ tx'[t].list = s /\ tx'[t].op = q.op /\ tx'[t].item = q.item
      /\ tx'[t].order = q.order /\ tx'[t].pos = q.pos
      /\ \A u \in Clients \ {t} : tx'[u] = tx[u]
  BY <1>1, <1>2, <1>3 DEF TypeOK, TxType
<1>5. PICK p : p = tx'[t]
  OBVIOUS
<1>6. Calls(t)' /\ Places(t)'
  BY <1>2, <1>3, <1>4, <1>5 DEF Calls, Places, Distinct
<1>7. Written(t)' /\ LiveSeenBy(t)' = LiveSeenBy(t)
  BY <1>2, <1>3, <1>4, StillWritten
<1>8. Selects(t)'
  <2>1. s \in Seq(Items) /\ Distinct(s) /\ ItemsOf(s) = LiveSeenBy(t)
    BY <1>1, OrderingItems DEF InIndexOrder, LiveSeenBy
  <2>2. \A i \in ItemsOf(s) : holder[i] = t => Live(new[i])
    BY <2>1 DEF LiveSeenBy, Sees
  <2>3. \A k \in 1..Len(s) : s[k] \in Items /\ Sees(t, s[k]) = row[s[k]]
    <3>1. \A k \in 1..Len(s) : s[k] \in LiveSeenBy(t)
      BY <2>1 DEF ItemsOf
    <3> QED
      BY <1>2, <1>3, <3>1, SeesCommitted DEF LiveSeenBy
  <2>4. DOMAIN s = 1..Len(s)
    BY <2>1, LenProperties
  <2>5. \A a, b \in 1..Len(s) : a < b => row[s[a]].idx <= row[s[b]].idx
    BY <1>1, <2>3, <2>4 DEF InIndexOrder
  <2>6. p.pc = "lock" /\ p.list = s /\ LiveSeenBy(t)' \subseteq ItemsOf(s)
    BY <1>4, <1>5, <1>7, <2>1
  <2> QED
    BY <1>3, <1>5, <2>1, <2>2, <2>5, <2>6 DEF Selects, Distinct, ItemsOf, Live, InOrder
<1>9. Renumbers(t)'
  BY <1>6, <1>7, <1>8 DEF Renumbers
<1> QED
  BY <1>3, <1>4, <1>9, OwnStep

\* The next row of a SELECT or an UPDATE is locked; one that was removed meanwhile is left out.
LEMMA LockRowRenumbers ==
    ASSUME RInv, NEW t \in Clients, NEW i \in Items, LockRow(t, i)
    PROVE  \A u \in Clients : Renumbers(u)'
<1>1. PICK q : q = tx[t]
  OBVIOUS
<1>2. /\ q.pc \in {"lock", "parklock"} /\ i \in ItemsOf(q.list) /\ holder[i] = NoClient
      /\ UNCHANGED <<row, new>> /\ t # NoClient
      /\ Calls(t) /\ Selects(t) /\ Places(t) /\ TypeOK /\ new[i] = row[i]
  BY <1>1, NamesAssumption
  DEF LockRow, Candidates, Unlocked, ItemsOf, RInv, IInv, Renumbers, Apart
<1>3. q.pc = "lock"
  BY <1>1, <1>2 DEF Places
<1>4. /\ holder'[i] = t /\ \A j \in Items \ {i} : holder'[j] = holder[j]
  BY <1>2 DEF LockRow, TypeOK
<1>5. PICK s : s = IF Live(row[i]) THEN q.list ELSE Without(q.list, i)
  OBVIOUS
<1>6. /\ tx'[t].pc = "lock" /\ tx'[t].list = s /\ tx'[t].op = q.op /\ tx'[t].item = q.item
      /\ tx'[t].order = q.order /\ tx'[t].pos = q.pos
      /\ \A u \in Clients \ {t} : tx'[u] = tx[u]
  BY <1>1, <1>2, <1>3, <1>5 DEF LockRow, TypeOK, TxType
<1>7. PICK p : p = tx'[t]
  OBVIOUS
<1>8. Calls(t)' /\ Places(t)'
  BY <1>1, <1>2, <1>3, <1>6, <1>7 DEF Calls, Places, Distinct
<1>9. Written(t)' /\ LiveSeenBy(t)' = LiveSeenBy(t)
  BY <1>1, <1>2, <1>3, <1>4, <1>6, StillWritten
<1>10. Selects(t)'
  <2>1. /\ q.list \in Seq(Items) /\ Distinct(q.list) /\ LiveSeenBy(t) \subseteq ItemsOf(q.list)
        /\ \A j \in ItemsOf(q.list) : holder[j] = t => Live(new[j])
        /\ q.op = "remove" => InOrder(q.list)
    BY <1>1, <1>2, <1>3, TxFields DEF Selects
  <2>2. /\ Distinct(s) /\ LiveSeenBy(t) \subseteq ItemsOf(s) /\ ItemsOf(s) \subseteq ItemsOf(q.list)
        /\ q.op = "remove" => InOrder(s)
        /\ i \in ItemsOf(s) => Live(row[i])
    <3>1. CASE Live(row[i])
      BY <1>5, <2>1, <3>1
    <3>2. CASE ~Live(row[i])
      <4>1. /\ Distinct(s) /\ ItemsOf(s) = ItemsOf(q.list) \ {i}
            /\ InOrder(q.list) => InOrder(s)
        BY <1>2, <1>5, <2>1, <3>2, WithoutKeeps
      <4>2. i \notin LiveSeenBy(t)
        BY <1>2, <3>2 DEF LiveSeenBy, Sees
      <4> QED
        BY <2>1, <4>1, <4>2
    <3> QED
      BY <3>1, <3>2
  <2>3. \A j \in ItemsOf(s) : holder'[j] = t => Live(new[j])
    <3>1. ItemsOf(q.list) \subseteq Items
      BY <2>1, ElementOfSeq DEF ItemsOf
    <3> QED
      BY <1>2, <1>4, <2>1, <2>2, <3>1
  <2>4. p.pc = "lock" /\ p.list = s /\ p.op = q.op /\ LiveSeenBy(t)' \subseteq ItemsOf(s)
    BY <1>6, <1>7, <1>9, <2>2
  <2> QED
    BY <1>2, <1>7, <2>2, <2>3, <2>4 DEF Selects, Distinct, ItemsOf, Live, InOrder
<1>11. Renumbers(t)'
  BY <1>8, <1>9, <1>10 DEF Renumbers
<1> QED
  BY <1>2, <1>4, <1>6, <1>11, OwnStep

\* When the SELECT returns it has every live row, and the new order is one of them all.
LEMMA SelectedRenumbers ==
    ASSUME RInv, NEW t \in Clients, Selected(t)
    PROVE  \A u \in Clients : Renumbers(u)'
<1>1. CASE Rollback(t)
  BY <1>1, RollbackRenumbers
<1>2. CASE ~Rollback(t)
  <2>1. PICK q : q = tx[t]
    OBVIOUS
  <2>2. /\ q.pc = "lock" /\ Unlocked(t) = {} /\ Calls(t) /\ Selects(t) /\ TypeOK /\ Progress(t)
    BY <2>1 DEF Selected, RInv, IInv, Renumbers, Locks
  <2>3. q.op \in {"reorder", "remove"} /\ q.pos = 1
    BY <2>1, <2>2 DEF Calls, Progress
  <2>4. PICK s : s = IF q.op = "reorder" THEN q.order ELSE q.list
    OBVIOUS
  <2>5. /\ tx' = [tx EXCEPT ![t].pc = "park", ![t].order = s] /\ UNCHANGED <<row, new, holder>>
        /\ q.op = "reorder" => ItemsOf(s) = ItemsOf(q.list)
    <3>1. CASE q.op = "reorder"
      BY <1>2, <2>1, <2>4, <3>1 DEF Selected
    <3>2. CASE q.op = "remove"
      BY <1>2, <2>1, <2>4, <3>2 DEF Selected
    <3> QED
      BY <2>3, <3>1, <3>2
  <2>6. /\ tx'[t].pc = "park" /\ tx'[t].order = s /\ tx'[t].op = q.op /\ tx'[t].item = q.item
        /\ tx'[t].pos = q.pos /\ \A u \in Clients \ {t} : tx'[u] = tx[u]
    BY <2>1, <2>2, <2>5 DEF TypeOK, TxType
  <2>7. PICK p : p = tx'[t]
    OBVIOUS
  <2>8. ItemsOf(q.list) = LiveSeenBy(t) /\ \A i \in LiveSeenBy(t) : holder[i] = t
    <3>1. q.list \in Seq(Items) /\ \A i \in ItemsOf(q.list) : i \in Items /\ holder[i] = t
      BY <2>1, <2>2, TxFields, ElementOfSeq DEF Unlocked, ItemsOf
    <3>2. \A i \in ItemsOf(q.list) : i \in LiveSeenBy(t)
      BY <2>1, <2>2, <3>1 DEF Selects, LiveSeenBy, Sees
    <3> QED
      BY <2>1, <2>2, <3>1, <3>2 DEF Selects
  <2>9. /\ Distinct(s) /\ ItemsOf(s) = LiveSeenBy(t) /\ (q.op = "remove" => InOrder(s))
    BY <2>1, <2>2, <2>3, <2>4, <2>5, <2>8 DEF Selects, Calls
  <2>10. Written(t)' /\ LiveSeenBy(t)' = LiveSeenBy(t)
    BY <2>1, <2>2, <2>5, <2>6, StillWritten
  <2>11. Calls(t)' /\ Selects(t)'
    BY <2>1, <2>2, <2>3, <2>6, <2>7, <2>9 DEF Calls, Selects, Distinct
  <2>12. Places(t)'
    <3>1. /\ p.pc = "park" /\ p.order = s /\ p.op = q.op /\ p.pos = 1
          /\ ItemsOf(s) = LiveSeenBy(t)' /\ \A i \in LiveSeenBy(t)' : holder'[i] = t
      BY <2>3, <2>5, <2>6, <2>7, <2>8, <2>9, <2>10
    <3>2. q.op = "remove" => InOrder(s)'
      BY <2>5, <2>9 DEF InOrder
    <3> QED
      BY <2>7, <2>9, <3>1, <3>2 DEF Places, Distinct, ItemsOf, InOrder
  <2>13. Renumbers(t)'
    BY <2>10, <2>11, <2>12 DEF Renumbers
  <2> QED
    BY <2>5, <2>6, <2>13, OwnStep
<1> QED
  BY <1>1, <1>2

LEMMA ParkSnapshotRenumbers ==
    ASSUME RInv, NEW t \in Clients, ParkSnapshot(t)
    PROVE  \A u \in Clients : Renumbers(u)'
<1>1. PICK s \in InIndexOrder(LiveSeenBy(t), [i \in Items |-> Sees(t, i)]) :
         tx' = [tx EXCEPT ![t].pc = "parklock", ![t].list = s]
  BY DEF ParkSnapshot
<1>2. PICK q : q = tx[t]
  OBVIOUS
<1>3. q.pc = "park" /\ UNCHANGED <<row, new, holder>> /\ Calls(t) /\ Places(t) /\ TypeOK
  BY <1>2 DEF ParkSnapshot, RInv, IInv, Renumbers
<1>4. /\ tx'[t].pc = "parklock" /\ tx'[t].list = s /\ tx'[t].op = q.op /\ tx'[t].item = q.item
      /\ tx'[t].order = q.order /\ tx'[t].pos = q.pos
      /\ \A u \in Clients \ {t} : tx'[u] = tx[u]
  BY <1>1, <1>2, <1>3 DEF TypeOK, TxType
<1>5. PICK p : p = tx'[t]
  OBVIOUS
<1>6. Calls(t)' /\ Selects(t)'
  BY <1>2, <1>3, <1>4, <1>5 DEF Calls, Selects, Distinct
<1>7. Written(t)' /\ LiveSeenBy(t)' = LiveSeenBy(t)
  BY <1>2, <1>3, <1>4, StillWritten
<1>8. Places(t)'
  <2>1. ItemsOf(s) = LiveSeenBy(t)
    BY <1>1, OrderingItems DEF InIndexOrder, LiveSeenBy
  <2>2. /\ Distinct(q.order) /\ ItemsOf(q.order) = LiveSeenBy(t)
        /\ \A i \in LiveSeenBy(t) : holder[i] = t
        /\ q.op = "remove" => InOrder(q.order)
        /\ q.pos = 1
    BY <1>2, <1>3 DEF Places
  <2>3. /\ p.pc = "parklock" /\ p.order = q.order /\ p.op = q.op /\ p.pos = 1 /\ p.list = s
        /\ ItemsOf(q.order) = LiveSeenBy(t)' /\ \A i \in LiveSeenBy(t)' : holder'[i] = t
        /\ ItemsOf(s) \subseteq LiveSeenBy(t)'
    BY <1>3, <1>4, <1>5, <1>7, <2>1, <2>2
  <2>4. q.op = "remove" => InOrder(q.order)'
    BY <1>3, <2>2 DEF InOrder
  <2> QED
    BY <1>5, <2>2, <2>3, <2>4 DEF Places, Distinct, ItemsOf, InOrder
<1>9. Renumbers(t)'
  BY <1>6, <1>7, <1>8 DEF Renumbers
<1> QED
  BY <1>3, <1>4, <1>9, OwnStep

\* Parking moves live rows up, whichever of them the UPDATE sees, and only those.
LEMMA ParkRenumbers ==
    ASSUME RInv, NEW t \in Clients, Park(t)
    PROVE  \A u \in Clients : Renumbers(u)'
<1>1. CASE Rollback(t)
  BY <1>1, RollbackRenumbers
<1>2. CASE ~Rollback(t)
  <2>1. PICK q, S : q = tx[t] /\ S = ItemsOf(q.list)
    OBVIOUS
  <2>2. /\ q.pc = "parklock" /\ Calls(t) /\ Written(t) /\ Places(t) /\ TypeOK
        /\ UNCHANGED <<row, holder>>
        /\ new' = [i \in Items |-> IF i \in S THEN Parked(new[i]) ELSE new[i]]
    BY <1>2, <2>1 DEF Park, RInv, IInv, Renumbers
  <2>3. q.op # "restore" /\ q.op \in {"none", "reorder", "remove"}
    BY <2>1, <2>2 DEF Calls
  <2>4. tx' = [tx EXCEPT ![t].pc = "assign"]
    BY <1>2, <2>1, <2>3 DEF Park, Goto
  <2>5. /\ tx'[t].pc = "assign" /\ tx'[t].op = q.op /\ tx'[t].item = q.item
        /\ tx'[t].order = q.order /\ tx'[t].pos = q.pos
        /\ \A u \in Clients \ {t} : tx'[u] = tx[u]
    BY <2>1, <2>2, <2>4 DEF TypeOK, TxType
  <2>6. PICK p : p = tx'[t]
    OBVIOUS
  <2>7. /\ Distinct(q.order) /\ ItemsOf(q.order) = LiveSeenBy(t)
        /\ \A i \in LiveSeenBy(t) : holder[i] = t
        /\ q.op = "remove" => InOrder(q.order)
        /\ S \subseteq LiveSeenBy(t) /\ q.pos = 1
    BY <2>1, <2>2 DEF Places
  <2>8. \A i \in S : i \in Items /\ holder[i] = t /\ Live(new[i])
    BY <2>7 DEF LiveSeenBy, Sees
  <2>9. \A i \in S : ~Removing(t, i) /\ Live(row[i])
    BY <2>8, WritesLess
  <2>10. \A i \in Items : /\ new'[i] = IF i \in S THEN Parked(new[i]) ELSE new[i]
                          /\ Live(new'[i]) <=> Live(new[i])
    <3>1. \A v \in Rows : Parked(v).st = v.st
      BY DEF Parked, Rows
    <3> QED
      BY <2>2, <3>1 DEF Live, TypeOK
  <2>11. \A i \in Items : holder'[i] = holder[i] /\ row'[i] = row[i]
    BY <2>2
  <2>12. LiveSeenBy(t)' = LiveSeenBy(t)
    <3>1. \A i \in Items : Live(Sees(t, i))' <=> Live(Sees(t, i))
      BY <2>10, <2>11 DEF Sees, Live
    <3> QED
      BY <3>1 DEF LiveSeenBy
  <2>13. \A i \in Items : Removing(t, i)' <=> Removing(t, i)
    BY <2>1, <2>2, <2>5 DEF Removing
  <2>14. Written(t)'
    <3>1. ASSUME NEW i \in Items, Removing(t, i)'
          PROVE  holder'[i] = t /\ Live(row'[i]) /\ new'[i] = [row'[i] EXCEPT !.st = "removed"]
      <4>1. i \notin S /\ Removing(t, i)
        BY <2>9, <2>13, <3>1
      <4>2. holder[i] = t /\ Live(row[i]) /\ new[i] = [row[i] EXCEPT !.st = "removed"]
        BY <2>2, <4>1 DEF Written
      <4> QED
        BY <2>10, <2>11, <4>1, <4>2
    <3>2. ASSUME NEW i \in Items, holder'[i] = t, ~Removing(t, i)'
          PROVE  /\ Live(new'[i]) <=> Live(row'[i])
                 /\ ~Live(row'[i]) => new'[i] = row'[i]
      <4>1. /\ Live(new[i]) <=> Live(row[i])
            /\ ~Live(row[i]) => new[i] = row[i]
        BY <2>2, <2>11, <2>13, <3>2 DEF Written
      <4> QED
        BY <2>9, <2>10, <2>11, <4>1
    <3> QED
      BY <2>5, <3>1, <3>2 DEF Written, Live
  <2>15. Calls(t)' /\ Selects(t)'
    BY <2>1, <2>2, <2>5, <2>6, <2>7 DEF Calls, Selects, Distinct
  <2>16. Places(t)'
    <3>1. /\ p.pc = "assign" /\ p.order = q.order /\ p.op = q.op /\ p.pos = 1
          /\ ItemsOf(q.order) = LiveSeenBy(t)' /\ \A i \in LiveSeenBy(t)' : holder'[i] = t
      BY <2>5, <2>6, <2>7, <2>11, <2>12 DEF LiveSeenBy
    <3>2. q.op = "remove" => InOrder(q.order)'
      BY <2>2, <2>7 DEF InOrder
    <3>3. \A k \in 1..Len(q.order) : ~(k < 1)
      OBVIOUS
    <3> QED
      BY <2>6, <2>7, <3>1, <3>2, <3>3 DEF Places, Distinct, ItemsOf, InOrder
  <2>17. Renumbers(t)'
    BY <2>14, <2>15, <2>16 DEF Renumbers
  <2> QED
    BY <2>2, <2>5, <2>8, <2>10, <2>17, OwnStep
<1> QED
  BY <1>1, <1>2

\* One more row of the order gets its place as its number.
LEMMA AssignRenumbers ==
    ASSUME RInv, NEW t \in Clients, Assign(t)
    PROVE  \A u \in Clients : Renumbers(u)'
<1>1. CASE Rollback(t)
  BY <1>1, RollbackRenumbers
<1>2. CASE ~Rollback(t)
  <2>1. PICK q, i, n : q = tx[t] /\ i = q.order[q.pos] /\ n = q.pos
    OBVIOUS
  <2>2. /\ q.pc = "assign" /\ n <= Len(q.order) /\ Calls(t) /\ Written(t) /\ Places(t) /\ TypeOK
        /\ UNCHANGED <<row, holder>> /\ new' = [new EXCEPT ![i] = Numbered(n)]
        /\ tx' = [tx EXCEPT ![t].pos = n + 1]
    BY <1>2, <2>1 DEF Assign, RInv, IInv, Renumbers
  <2>3. n \in Nat \ {0} /\ q.order \in Seq(Items) /\ Len(q.order) \in Nat
    BY <2>1, <2>2, TxFields, LenProperties
  <2>4. n \in 1..Len(q.order) /\ i \in ItemsOf(q.order) /\ i \in Items
    <3>1. n \in 1..Len(q.order)
      BY <2>2, <2>3
    <3> QED
      BY <2>1, <2>3, <3>1, ElementOfSeq DEF ItemsOf
  <2>5. /\ tx'[t].pc = "assign" /\ tx'[t].op = q.op /\ tx'[t].item = q.item
        /\ tx'[t].order = q.order /\ tx'[t].pos = n + 1
        /\ \A u \in Clients \ {t} : tx'[u] = tx[u]
    BY <2>1, <2>2 DEF TypeOK, TxType
  <2>6. PICK p : p = tx'[t]
    OBVIOUS
  <2>7. /\ Distinct(q.order) /\ ItemsOf(q.order) = LiveSeenBy(t)
        /\ \A j \in LiveSeenBy(t) : holder[j] = t
        /\ q.op = "remove" => InOrder(q.order)
        /\ \A k \in 1..Len(q.order) : k < n => new[q.order[k]] = Numbered(k)
    BY <2>1, <2>2 DEF Places
  <2>8. holder[i] = t /\ Live(new[i])
    BY <2>4, <2>7 DEF LiveSeenBy, Sees
  <2>9. Live(row[i]) /\ ~Removing(t, i)
    BY <2>4, <2>8, WritesLess
  <2>10. new'[i] = Numbered(n) /\ Live(new'[i]) /\ \A j \in Items \ {i} : new'[j] = new[j]
    BY <2>2, <2>4 DEF TypeOK, Live, Numbered
  <2>11. LiveSeenBy(t)' = LiveSeenBy(t)
    <3>1. \A j \in Items : Live(Sees(t, j))' <=> Live(Sees(t, j))
      BY <2>2, <2>8, <2>10 DEF Sees, Live
    <3> QED
      BY <3>1 DEF LiveSeenBy
  <2>12. \A j \in Items : Removing(t, j)' <=> Removing(t, j)
    BY <2>1, <2>2, <2>5 DEF Removing
  <2>13. Written(t)'
    <3>1. ASSUME NEW j \in Items, Removing(t, j)'
          PROVE  holder'[j] = t /\ Live(row'[j]) /\ new'[j] = [row'[j] EXCEPT !.st = "removed"]
      BY <2>2, <2>9, <2>10, <2>12, <3>1 DEF Written
    <3>2. ASSUME NEW j \in Items, holder'[j] = t, ~Removing(t, j)'
          PROVE  /\ Live(new'[j]) <=> Live(row'[j])
                 /\ ~Live(row'[j]) => new'[j] = row'[j]
      <4>1. CASE j = i
        BY <2>2, <2>9, <2>10, <4>1
      <4>2. CASE j # i
        <5>1. new'[j] = new[j] /\ row'[j] = row[j] /\ holder[j] = t /\ ~Removing(t, j)
          BY <2>2, <2>10, <2>12, <3>2, <4>2
        <5> QED
          BY <2>2, <5>1 DEF Written
      <4> QED
        BY <4>1, <4>2
    <3> QED
      BY <2>5, <3>1, <3>2 DEF Written, Live
  <2>14. Calls(t)' /\ Selects(t)'
    BY <2>1, <2>2, <2>5, <2>6, <2>7 DEF Calls, Selects, Distinct
  <2>15. Places(t)'
    <3>1. /\ p.pc = "assign" /\ p.order = q.order /\ p.op = q.op /\ p.pos = n + 1
          /\ ItemsOf(q.order) = LiveSeenBy(t)' /\ \A j \in LiveSeenBy(t)' : holder'[j] = t
      BY <2>2, <2>5, <2>6, <2>7, <2>11
    <3>2. q.op = "remove" => InOrder(q.order)'
      BY <2>2, <2>7 DEF InOrder
    <3>3. ASSUME NEW k \in 1..Len(q.order), k < n + 1
          PROVE  new'[q.order[k]] = Numbered(k)
      <4>1. CASE k = n
        BY <2>1, <2>10, <4>1
      <4>2. CASE k # n
        <5>1. k < n
          BY <2>3, <3>3, <4>2
        <5>2. q.order[k] # i /\ q.order[k] \in Items
          BY <2>1, <2>3, <2>4, <2>7, <4>2, ElementOfSeq DEF Distinct
        <5> QED
          BY <2>7, <2>10, <5>1, <5>2
      <4> QED
        BY <4>1, <4>2
    <3> QED
      BY <2>6, <2>7, <3>1, <3>2, <3>3 DEF Places, Distinct, ItemsOf, InOrder
  <2>16. Renumbers(t)'
    BY <2>13, <2>14, <2>15 DEF Renumbers
  <2> QED
    BY <2>2, <2>5, <2>8, <2>10, <2>16, OwnStep
<1> QED
  BY <1>1, <1>2

LEMMA StepRenumbers ==
    ASSUME RInv, NEW t \in Clients, Step(t)
    PROVE  \A u \in Clients : Renumbers(u)'
<1>1. tx[t].pc \notin {"insert", "move", "clash", "revive"}
  BY DEF RInv, Renumbers, Calls
<1>2. ~Insert(t) /\ ~Move(t) /\ ~CheckClash(t) /\ ~Revive(t)
  BY <1>1 DEF Insert, Move, CheckClash, Revive
<1>3. CASE \E i \in Items : LockRow(t, i)
  BY <1>3, LockRowRenumbers
<1> QED
  BY <1>2, <1>3, LockItemRenumbers, SelectRenumbers, SelectedRenumbers, ParkSnapshotRenumbers,
     ParkRenumbers, AssignRenumbers, RenumberedRenumbers DEF Step

\* Only the end of a renumbering changes what everybody sees.
LEMMA OnlyRenumbered ==
    ASSUME RInv, NEW t \in Clients,
           (Kinds \subseteq Renumbering /\ Call(t)) \/ Step(t) \/ Rollback(t)
    PROVE  UNCHANGED row \/ Renumbered(t)
<1>1. tx[t].pc \notin {"insert", "move", "clash", "revive"}
  BY DEF RInv, Renumbers, Calls
<1>2. ~Insert(t) /\ ~Move(t)
  BY <1>1 DEF Insert, Move
<1>3. Call(t) => UNCHANGED row
  BY DEF Call, AddAt, AddAtEnd, MoveTo, Reorder, Remove, Restore, Start
<1> QED
  BY <1>2, <1>3
  DEF Step, Rollback, LockItem, CheckClash, Select, LockRow, Selected, ParkSnapshot, Park, Revive, Assign

LEMMA InitRInv == Init => RInv
<1> SUFFICES ASSUME Init PROVE RInv
  OBVIOUS
<1>1. IInv /\ NumbersDense
  BY InitIInv DEF Init, AtRest, NumbersDense
<1>2. ASSUME NEW t \in Clients PROVE Renumbers(t)
  <2>1. PICK q : q = tx[t]
    OBVIOUS
  <2>2. q.op = "none" /\ q.pc = "idle" /\ q.pos = 1
    BY <2>1 DEF Init, Idle
  <2>3. \A i \in Items : holder[i] # t
    BY NamesAssumption DEF Init
  <2>4. Calls(t) /\ Selects(t) /\ Places(t)
    BY <2>1, <2>2 DEF Calls, Selects, Places
  <2>5. Written(t)
    BY <2>1, <2>2, <2>3 DEF Written, Removing
  <2> QED
    BY <2>4, <2>5 DEF Renumbers
<1> QED
  BY <1>1, <1>2 DEF RInv

LEMMA NextRInv ==
    ASSUME Kinds \subseteq Renumbering
    PROVE  RInv /\ [Next]_vars => RInv'
<1> SUFFICES ASSUME RInv, [Next]_vars PROVE RInv'
  OBVIOUS
<1>1. IInv'
  BY NextIInv DEF RInv
<1>2. CASE UNCHANGED vars
  <2>1. NumbersDense'
    BY <1>2 DEF RInv, NumbersDense, Dense, LiveOf, vars
  <2>2. ASSUME NEW u \in Clients PROVE Renumbers(u)'
    <3>1. TypeOK /\ Renumbers(u)
      BY DEF RInv, IInv
    <3> QED
      BY <1>2, <3>1, OthersRenumber DEF vars
  <2> QED
    BY <1>1, <2>1, <2>2 DEF RInv
<1>3. ASSUME NEW t \in Clients, Call(t) \/ Step(t) \/ Rollback(t)
      PROVE  RInv'
  <2>1. \A u \in Clients : Renumbers(u)'
    BY <1>3, CallRenumbers, StepRenumbers, RollbackRenumbers
  <2>2. CASE UNCHANGED row
    <3>1. NumbersDense'
      BY <2>2 DEF RInv, NumbersDense, Dense, LiveOf
    <3> QED
      BY <1>1, <2>1, <3>1 DEF RInv
  <2>3. CASE Renumbered(t)
    BY <1>1, <2>1, <2>3, RenumberedDense DEF RInv
  <2> QED
    BY <1>3, <2>2, <2>3, OnlyRenumbered
<1> QED
  BY <1>2, <1>3 DEF Next, Cancel, DeadlockVictim

\* However many requests reorder and remove at once, the committed pieces are always
\* numbered 1..n without a gap (reorder, remove and assign_order of collection_item.rs).
THEOREM NumbersStayDense ==
    ASSUME Kinds \subseteq Renumbering
    PROVE  Spec => []NumbersDense
<1>1. RInv => NumbersDense
  BY DEF RInv
<1> QED
  BY <1>1, InitRInv, NextRInv, PTL DEF Spec

------------------------------------------------------------------------------
(* Each of those renumberings is one step of RunningOrder.                 *)

\* A set of places with every place before its own is a first part.
LEMMA FirstPart ==
    ASSUME NEW n \in Nat, NEW B \in SUBSET (1..n), \A b \in B : 1..b \subseteq B
    PROVE  \E p \in 0..n : B = 1..p
<1>1. \A m \in Nat : IsFiniteSet(1..m) /\ Cardinality(1..m) = m
  BY FS_Interval
<1>2. IsFiniteSet(B) /\ Cardinality(B) \in Nat /\ Cardinality(B) <= n
  <2>1. IsFiniteSet(1..n) /\ Cardinality(1..n) = n
    BY <1>1
  <2>2. IsFiniteSet(B) /\ Cardinality(B) <= Cardinality(1..n)
    BY <2>1, FS_Subset
  <2> QED
    BY <2>1, <2>2, FS_CardinalityType
<1>3. PICK p : p = Cardinality(B)
  OBVIOUS
<1>4. ASSUME NEW b \in B PROVE b \in 1..p
  <2>1. b \in Nat /\ 1 <= b /\ 1..b \in SUBSET B
    OBVIOUS
  <2>2. Cardinality(1..b) <= Cardinality(B)
    BY <1>2, <2>1, FS_Subset
  <2> QED
    BY <1>1, <1>2, <1>3, <2>1, <2>2
<1>5. B \in SUBSET (1..p) /\ p \in Nat
  BY <1>2, <1>3, <1>4
<1>6. B = 1..p
  BY <1>1, <1>3, <1>5, FS_Subset
<1> QED
  BY <1>2, <1>3, <1>6

\* Where the items of a sequence go when one is inserted.
LEMMA InsertPlaces ==
    ASSUME NEW s \in Seq(Items), NEW i \in Items, NEW p \in 0..Len(s)
    PROVE  /\ InsertAt(s, p, i) \in Seq(Items) /\ Len(InsertAt(s, p, i)) = Len(s) + 1
           /\ \A j \in 1..Len(s) + 1 :
                 InsertAt(s, p, i)[j] = IF j <= p THEN s[j] ELSE IF j = p + 1 THEN i ELSE s[j - 1]
<1>1. PICK n : n = Len(s)
  OBVIOUS
<1>2. n \in Nat /\ p \in 0..n /\ \A m \in 1..n : s[m] \in Items
  BY <1>1, LenProperties
<1>3. PICK a, b : a = SubSeq(s, 1, p) /\ b = SubSeq(s, p + 1, n)
  OBVIOUS
<1>4. a \in Seq(Items) /\ Len(a) = p /\ \A m \in 1..p : a[m] = s[m]
  <2>1. p \in Nat /\ \A m \in 1..p : s[m] \in Items
    BY <1>2
  <2>2. /\ a \in Seq(Items)
        /\ Len(a) = IF 1 <= p THEN p - 1 + 1 ELSE 0
        /\ \A m \in 1..(p - 1 + 1) : a[m] = s[1 + m - 1]
    BY <1>3, <2>1, SubSeqProperties
  <2> QED
    BY <1>2, <2>2
<1>5. b \in Seq(Items) /\ Len(b) = n - p /\ \A m \in 1..n - p : b[m] = s[p + m]
  <2>1. p + 1 \in Nat /\ \A m \in p + 1..n : s[m] \in Items
    BY <1>2
  <2>2. /\ b \in Seq(Items)
        /\ Len(b) = IF p + 1 <= n THEN n - (p + 1) + 1 ELSE 0
        /\ \A m \in 1..(n - (p + 1) + 1) : b[m] = s[(p + 1) + m - 1]
    BY <1>2, <1>3, <2>1, SubSeqProperties
  <2> QED
    BY <1>2, <2>2
<1>6. PICK c : c = a \o <<i>>
  OBVIOUS
<1>7. c \in Seq(Items) /\ Len(c) = p + 1 /\ \A m \in 1..p + 1 : c[m] = IF m <= p THEN s[m] ELSE i
  <2>1. <<i>> \in Seq(Items) /\ Len(<<i>>) = 1 /\ <<i>>[1] = i
    OBVIOUS
  <2>2. /\ c \in Seq(Items) /\ Len(c) = Len(a) + Len(<<i>>)
        /\ \A m \in 1..(Len(a) + Len(<<i>>)) : c[m] = IF m <= Len(a) THEN a[m] ELSE <<i>>[m - Len(a)]
    BY <1>4, <1>6, <2>1, ConcatProperties
  <2>3. ASSUME NEW m \in 1..p + 1 PROVE c[m] = IF m <= p THEN s[m] ELSE i
    <3>1. c[m] = IF m <= p THEN a[m] ELSE <<i>>[m - p]
      BY <1>4, <2>1, <2>2
    <3>2. ~(m <= p) => m - p = 1
      BY <1>2
    <3>3. m <= p => m \in 1..p
      BY <1>2
    <3> QED
      BY <1>4, <2>1, <3>1, <3>2, <3>3
  <2> QED
    BY <1>4, <2>1, <2>2, <2>3
<1>8. PICK d : d = c \o b
  OBVIOUS
<1>9. /\ d \in Seq(Items) /\ Len(d) = (p + 1) + (n - p)
      /\ \A m \in 1..((p + 1) + (n - p)) : d[m] = IF m <= p + 1 THEN c[m] ELSE b[m - (p + 1)]
  <2>1. /\ d \in Seq(Items) /\ Len(d) = Len(c) + Len(b)
        /\ \A m \in 1..(Len(c) + Len(b)) : d[m] = IF m <= Len(c) THEN c[m] ELSE b[m - Len(c)]
    BY <1>5, <1>7, <1>8, ConcatProperties
  <2> QED
    BY <1>5, <1>7, <2>1
<1>10. Len(d) = n + 1
  BY <1>2, <1>9
<1>11. ASSUME NEW j \in 1..n + 1
       PROVE  d[j] = IF j <= p THEN s[j] ELSE IF j = p + 1 THEN i ELSE s[j - 1]
  <2>1. j \in 1..((p + 1) + (n - p))
    BY <1>2
  <2>2. CASE j <= p + 1
    <3>1. j \in 1..p + 1 /\ (~(j <= p) => j = p + 1)
      BY <1>2, <2>2
    <3> QED
      BY <1>7, <1>9, <2>1, <2>2, <3>1
  <2>3. CASE ~(j <= p + 1)
    <3>1. j - (p + 1) \in 1..n - p /\ p + (j - (p + 1)) = j - 1 /\ ~(j <= p) /\ j # p + 1
      BY <1>2, <2>3
    <3>2. b[j - (p + 1)] = s[j - 1]
      BY <1>5, <3>1
    <3> QED
      BY <1>9, <2>1, <2>3, <3>1, <3>2
  <2> QED
    BY <2>2, <2>3
<1>12. InsertAt(s, p, i) = d
  BY <1>1, <1>3, <1>6, <1>8 DEF InsertAt
<1> QED
  BY <1>1, <1>9, <1>10, <1>11, <1>12

\* A sequence in the order of its numbers is what is left, without one item, of an order of
\* all of them by their numbers.
LEMMA PutBack ==
    ASSUME TypeOK, NEW s \in Seq(Items), Distinct(s), InOrder(s), NEW i \in Items, i \notin ItemsOf(s)
    PROVE  \E u \in Seq(Items) : /\ Distinct(u) /\ InOrder(u) /\ ItemsOf(u) = ItemsOf(s) \cup {i}
                                 /\ Without(u, i) = s
<1>1. PICK n, x : n = Len(s) /\ x = row[i].idx
  OBVIOUS
<1>2. n \in Nat /\ x \in Nat /\ \A k \in 1..n : s[k] \in Items /\ row[s[k]].idx \in Nat /\ s[k] # i
  <2>1. \A v \in Rows : v.idx \in Nat
    BY DEF Rows
  <2>2. \A k \in 1..n : s[k] \in Items /\ s[k] # i
    BY <1>1, ElementOfSeq DEF ItemsOf
  <2> QED
    BY <1>1, <2>1, <2>2, LenProperties DEF TypeOK
<1>3. PICK B : B = {k \in 1..n : row[s[k]].idx <= x}
  OBVIOUS
<1>4. ASSUME NEW b \in B PROVE 1..b \subseteq B
  <2> SUFFICES ASSUME NEW a \in 1..b PROVE a \in B
    OBVIOUS
  <2>1. a \in 1..n /\ b \in 1..n /\ a <= b /\ row[s[b]].idx <= x
    BY <1>2, <1>3
  <2>2. row[s[a]].idx <= row[s[b]].idx
    <3>1. a < b \/ a = b
      BY <2>1
    <3> QED
      BY <1>1, <1>2, <2>1, <3>1 DEF InOrder
  <2>3. row[s[a]].idx <= x
    BY <1>2, <2>1, <2>2
  <2> QED
    BY <1>3, <2>1, <2>3
<1>5. PICK p \in 0..n : B = 1..p
  <2>1. B \in SUBSET (1..n)
    BY <1>3
  <2> QED
    BY <1>2, <1>4, <2>1, FirstPart
<1>6. \A k \in 1..n : IF k <= p THEN row[s[k]].idx <= x ELSE x <= row[s[k]].idx
  <2> SUFFICES ASSUME NEW k \in 1..n
               PROVE  IF k <= p THEN row[s[k]].idx <= x ELSE x <= row[s[k]].idx
    OBVIOUS
  <2>1. k \in B <=> k <= p
    BY <1>2, <1>5
  <2>2. k \in B <=> row[s[k]].idx <= x
    BY <1>3
  <2> QED
    BY <1>2, <2>1, <2>2
<1>7. PICK u : u = InsertAt(s, p, i)
  OBVIOUS
<1>8. /\ u \in Seq(Items) /\ Len(u) = n + 1
      /\ \A j \in 1..n + 1 : u[j] = IF j <= p THEN s[j] ELSE IF j = p + 1 THEN i ELSE s[j - 1]
  BY <1>1, <1>5, <1>7, InsertPlaces
<1>9. p \in Nat /\ p + 1 \in 1..n + 1 /\ u[p + 1] = i
  <2>1. p \in Nat /\ p + 1 \in 1..n + 1 /\ ~(p + 1 <= p)
    BY <1>2, <1>5
  <2> QED
    BY <1>8, <2>1
<1> DEFINE Old(j) == IF j <= p THEN j ELSE j - 1
<1>10. \A j \in 1..n + 1 : j # p + 1 => Old(j) \in 1..n /\ u[j] = s[Old(j)] /\ (j <= p <=> Old(j) <= p)
  BY <1>2, <1>5, <1>8
<1>11. \A a, b \in 1..n + 1 : a # p + 1 /\ b # p + 1 =>
          (Old(a) = Old(b) => a = b) /\ (a < b => Old(a) < Old(b))
  BY <1>2, <1>5
<1>12. \A k \in 1..n : \E j \in 1..n + 1 : j # p + 1 /\ Old(j) = k
  <2> SUFFICES ASSUME NEW k \in 1..n PROVE \E j \in 1..n + 1 : j # p + 1 /\ Old(j) = k
    OBVIOUS
  <2>1. CASE k <= p
    BY <1>2, <1>5, <2>1
  <2>2. CASE ~(k <= p)
    <3>1. k + 1 \in 1..n + 1 /\ k + 1 # p + 1 /\ Old(k + 1) = k
      BY <1>2, <1>5, <2>2
    <3> QED
      BY <3>1
  <2> QED
    BY <2>1, <2>2
<1> HIDE DEF Old
<1>13. Distinct(u)
  <2> SUFFICES ASSUME NEW a \in 1..n + 1, NEW b \in 1..n + 1, u[a] = u[b] PROVE a = b
    BY <1>8 DEF Distinct
  <2>1. CASE a # p + 1 /\ b # p + 1
    BY <1>1, <1>10, <1>11, <2>1 DEF Distinct
  <2>2. CASE a = p + 1 \/ b = p + 1
    BY <1>2, <1>9, <1>10, <2>2
  <2> QED
    BY <2>1, <2>2
<1>14. ItemsOf(u) = ItemsOf(s) \cup {i}
  <2>1. ASSUME NEW j \in 1..n + 1 PROVE u[j] \in ItemsOf(s) \cup {i}
    BY <1>1, <1>9, <1>10 DEF ItemsOf
  <2>2. ASSUME NEW k \in 1..n PROVE s[k] \in ItemsOf(u)
    <3>1. PICK j \in 1..n + 1 : j # p + 1 /\ Old(j) = k
      BY <1>12
    <3>2. u[j] = s[k]
      BY <1>10, <3>1
    <3> QED
      BY <1>8, <3>2 DEF ItemsOf
  <2>3. i \in ItemsOf(u)
    BY <1>8, <1>9 DEF ItemsOf
  <2> QED
    BY <1>1, <1>8, <2>1, <2>2, <2>3 DEF ItemsOf
<1>15. InOrder(u)
  <2> SUFFICES ASSUME NEW a \in 1..n + 1, NEW b \in 1..n + 1, a < b
               PROVE  row[u[a]].idx <= row[u[b]].idx
    BY <1>8 DEF InOrder
  <2>1. CASE a # p + 1 /\ b # p + 1
    BY <1>1, <1>10, <1>11, <2>1 DEF InOrder
  <2>2. CASE a = p + 1
    <3>1. b # p + 1 /\ ~(b <= p)
      BY <1>9, <2>2
    <3> QED
      BY <1>1, <1>6, <1>9, <1>10, <2>2, <3>1
  <2>3. CASE b = p + 1
    <3>1. a # p + 1 /\ a <= p
      BY <1>9, <2>3
    <3> QED
      BY <1>1, <1>6, <1>9, <1>10, <2>3, <3>1
  <2> QED
    BY <2>1, <2>2, <2>3
<1>16. Without(u, i) = s
  <2>1. PICK w : w = Without(u, i)
    OBVIOUS
  <2>2. /\ w \in Seq(Items) /\ Len(w) = Len(u) - 1
        /\ \A j \in 1..Len(u) - 1 : w[j] = IF j < p + 1 THEN u[j] ELSE u[j + 1]
    <3>1. p + 1 \in 1..Len(u)
      BY <1>8, <1>9
    <3> QED
      BY <1>8, <1>9, <1>13, <2>1, <3>1, WithoutPlaces
  <2>3. Len(w) = n
    BY <1>2, <1>8, <2>2
  <2>4. ASSUME NEW j \in 1..n PROVE w[j] = s[j]
    <3>1. j \in 1..Len(u) - 1 /\ j \in 1..n + 1 /\ j + 1 \in 1..n + 1
      BY <1>2, <1>8
    <3>2. CASE j < p + 1
      <4>1. j <= p
        BY <1>9, <3>2
      <4> QED
        BY <1>8, <2>2, <3>1, <3>2, <4>1
    <3>3. CASE ~(j < p + 1)
      <4>1. ~(j + 1 <= p) /\ j + 1 # p + 1 /\ (j + 1) - 1 = j
        BY <1>9, <3>3
      <4> QED
        BY <1>8, <2>2, <3>1, <3>3, <4>1
    <3> QED
      BY <3>2, <3>3
  <2>5. w = s
    BY <1>1, <2>2, <2>3, <2>4, SeqEqual
  <2> QED
    BY <2>1, <2>5
<1> QED
  BY <1>8, <1>13, <1>14, <1>15, <1>16

\* RunningOrder speaks of the same rows and sequences.
LEMMA SameRows ==
    /\ Abstract!LiveOf(row) = LiveOf(row) /\ Abstract!AtRest = AtRest
    /\ \A S : Abstract!Orderings(S) = Orderings(S)
    /\ \A s, i : Abstract!Without(s, i) = Without(s, i)
    /\ \A v : Abstract!Live(v) <=> Live(v)
    /\ \A n : Abstract!Numbered(n) = Numbered(n)
<1>0. \A S : Abstract!Cardinality(S) = Cardinality(S)
  BY DEF Abstract!Cardinality, Cardinality
<1>1. \A r : Abstract!LiveOf(r) = LiveOf(r)
  BY DEF Abstract!LiveOf, LiveOf, Abstract!Live, Live
<1>2. \A i, v, j, w : Abstract!SameKey(i, v, j, w) <=> SameKey(i, v, j, w)
  BY DEF Abstract!SameKey, SameKey, Abstract!Live, Live
<1>3. \A r : (Abstract!Dense(r) <=> Dense(r)) /\ (Abstract!KeysApart(r) <=> KeysApart(r))
  BY <1>0, <1>1, <1>2 DEF Abstract!Dense, Dense, Abstract!KeysApart, KeysApart
<1>4. Abstract!AtRest = AtRest
  <2>1. Abstract!NoRow = NoRow
    BY DEF Abstract!NoRow, NoRow
  <2> DEFINE T == [Items -> {NoRow} \cup [st : {"live", "removed"}, idx : 1..MaxIndex]]
  <2>2. /\ Abstract!AtRest = {r \in T : Abstract!Dense(r) /\ Abstract!KeysApart(r)}
        /\ AtRest = {r \in T : Dense(r) /\ KeysApart(r)}
    BY <2>1 DEF Abstract!AtRest, AtRest
  <2> HIDE DEF T
  <2> QED
    BY <1>3, <2>2
<1>5. \A S : Abstract!Orderings(S) = Orderings(S)
  BY <1>0 DEF Abstract!Orderings, Orderings
<1>6. \A s, i : Abstract!Without(s, i) = Without(s, i)
  BY DEF Abstract!Without, Without
<1>7. (\A v : Abstract!Live(v) <=> Live(v)) /\ (\A n : Abstract!Numbered(n) = Numbered(n))
  BY DEF Abstract!Live, Live, Abstract!Numbered, Numbered
<1> QED
  BY <1>1, <1>4, <1>5, <1>6, <1>7

\* Numbering the items of a sequence of distinct ones.
LEMMA NumberedRows ==
    ASSUME NEW s \in Seq(Items), Distinct(s), NEW i \in Items
    PROVE  /\ i \notin ItemsOf(s) => Abstract!NumberedAs(s)[i] = row[i]
           /\ \A k \in 1..Len(s) : i = s[k] => Abstract!NumberedAs(s)[i] = Numbered(k)
<1>1. Abstract!NumberedAs(s)[i] = IF \E k \in 1..Len(s) : s[k] = i
                                  THEN Numbered(CHOOSE k \in 1..Len(s) : s[k] = i)
                                  ELSE row[i]
  BY DEF Abstract!NumberedAs, Abstract!Numbered, Numbered
<1>2. ASSUME NEW k \in 1..Len(s), i = s[k]
      PROVE  (CHOOSE m \in 1..Len(s) : s[m] = i) = k
  BY <1>2 DEF Distinct
<1> QED
  BY <1>1, <1>2 DEF ItemsOf

\* What the renumbering of t does to every row.
LEMMA RowsAfter ==
    ASSUME RInv, NEW t \in Clients, Renumbered(t), NEW i \in Items
    PROVE  IF i \in ItemsOf(tx[t].order)
           THEN \A k \in 1..Len(tx[t].order) : i = tx[t].order[k] => row'[i] = Numbered(k)
           ELSE row'[i] = IF Removing(t, i) THEN [row[i] EXCEPT !.st = "removed"] ELSE row[i]
<1>1. CASE i \in ItemsOf(tx[t].order)
  BY <1>1, Outcome
<1>2. CASE i \notin ItemsOf(tx[t].order)
  <2>1. /\ tx[t].pc = "assign" /\ Written(t) /\ Places(t) /\ row[i] \in Rows
        /\ row'[i] = Sees(t, i)
    BY DEF Renumbered, Commit, Sees, RInv, Renumbers, IInv, TypeOK
  <2>2. ~Live(Sees(t, i))
    BY <1>2, <2>1 DEF Places, LiveSeenBy
  <2>3. CASE holder[i] = t
    <3>1. Sees(t, i) = new[i] /\ ~Live(new[i])
      BY <2>2, <2>3 DEF Sees
    <3> QED
      BY <1>2, <2>1, <2>3, <3>1 DEF Written
  <2>4. CASE holder[i] # t
    <3>1. ~Removing(t, i) /\ Sees(t, i) = row[i]
      BY <2>1, <2>4 DEF Sees, Written
    <3> QED
      BY <1>2, <2>1, <3>1
  <2> QED
    BY <2>3, <2>4
<1> QED
  BY <1>1, <1>2

\* The pieces everybody sees are those of the order, and the one that is being removed.
LEMMA LiveBefore ==
    ASSUME RInv, NEW t \in Clients, Renumbered(t)
    PROVE  LiveOf(row) = ItemsOf(tx[t].order) \cup {i \in Items : Removing(t, i)}
<1>1. tx[t].pc = "assign" /\ Written(t) /\ Places(t)
  BY DEF Renumbered, RInv, Renumbers
<1>2. ItemsOf(tx[t].order) = LiveSeenBy(t) /\ \A i \in LiveSeenBy(t) : holder[i] = t
  BY <1>1 DEF Places
<1>3. ASSUME NEW i \in Items, Live(row[i]), ~Removing(t, i) PROVE i \in LiveSeenBy(t)
  <2>1. Live(Sees(t, i))
    BY <1>1, <1>3 DEF Sees, Written
  <2> QED
    BY <2>1 DEF LiveSeenBy
<1>4. ASSUME NEW i \in LiveSeenBy(t) PROVE i \in Items /\ Live(row[i])
  <2>1. i \in Items /\ holder[i] = t /\ Live(new[i])
    BY <1>2 DEF LiveSeenBy, Sees
  <2> QED
    BY <2>1, WritesLess
<1>5. ASSUME NEW i \in Items, Removing(t, i) PROVE Live(row[i])
  BY <1>1, <1>5 DEF Written
<1> QED
  BY <1>2, <1>3, <1>4, <1>5 DEF LiveOf

\* Two versions of the rows are equal when they are for every item.
LEMMA SameFunction ==
    ASSUME NEW f \in [Items -> Rows], NEW g, g = [i \in Items |-> g[i]], \A i \in Items : f[i] = g[i]
    PROVE  f = g
OBVIOUS

LEMMA ReorderIsAtomic ==
    ASSUME RInv, RInv', NEW t \in Clients, Renumbered(t), tx[t].op # "remove"
    PROVE  Abstract!Next
<1>1. PICK s : s = tx[t].order
  OBVIOUS
<1>2. s \in Seq(Items) /\ Distinct(s)
  BY <1>1, Outcome
<1>3. \A i \in Items : ~Removing(t, i)
  BY DEF Removing
<1>4. s \in Orderings(LiveOf(row))
  BY <1>1, <1>2, <1>3, LiveBefore, ItemsOrdered
<1>5. PICK g : g = Abstract!NumberedAs(s)
  OBVIOUS
<1>6. ASSUME NEW i \in Items PROVE row'[i] = g[i]
  <2>1. CASE i \in ItemsOf(s)
    <3>1. PICK k \in 1..Len(s) : i = s[k]
      BY <2>1 DEF ItemsOf
    <3>2. row'[i] = Numbered(k)
      BY <1>1, <2>1, <3>1, RowsAfter
    <3>3. g[i] = Numbered(k)
      BY <1>2, <1>5, <3>1, NumberedRows
    <3> QED
      BY <3>2, <3>3
  <2>2. CASE i \notin ItemsOf(s)
    <3>1. row'[i] = row[i]
      BY <1>1, <1>3, <2>2, RowsAfter
    <3> QED
      BY <1>2, <1>5, <2>2, <3>1, NumberedRows
  <2> QED
    BY <2>1, <2>2
<1>7. row' = g
  <2>1. row' \in [Items -> Rows]
    BY DEF RInv, IInv, TypeOK
  <2>2. g = [i \in Items |-> g[i]]
    BY <1>5 DEF Abstract!NumberedAs
  <2> QED
    BY <1>6, <2>1, <2>2, SameFunction
<1>8. Abstract!Reorder(s) /\ s \in Abstract!Orderings(Abstract!LiveOf(row))
  BY <1>4, <1>5, <1>7, SameRows DEF Abstract!Reorder
<1> QED
  BY <1>8 DEF Abstract!Next

LEMMA RemoveIsAtomic ==
    ASSUME RInv, RInv', NEW t \in Clients, Renumbered(t), tx[t].op = "remove"
    PROVE  Abstract!Next
<1>1. PICK s, i : s = tx[t].order /\ i = tx[t].item
  OBVIOUS
<1>2. s \in Seq(Items) /\ Distinct(s)
  BY <1>1, Outcome
<1>3. /\ tx[t].pc = "assign" /\ Calls(t) /\ Written(t) /\ Places(t) /\ TypeOK
  BY DEF Renumbered, RInv, IInv, Renumbers
<1>4. i \in Items /\ \A j \in Items : Removing(t, j) <=> j = i
  BY <1>1, <1>3 DEF Calls, Removing
<1>5. LiveOf(row) = ItemsOf(s) \cup {i}
  BY <1>1, <1>4, LiveBefore
<1>6. InOrder(s) /\ Live(row[i])
  BY <1>1, <1>3, <1>4 DEF Places, Written
<1>7. i \notin ItemsOf(s)
  <2> SUFFICES ASSUME i \in ItemsOf(s) PROVE FALSE
    OBVIOUS
  <2>1. holder[i] = t /\ Live(new[i])
    BY <1>1, <1>3 DEF Places, LiveSeenBy, Sees
  <2> QED
    BY <1>4, <2>1, WritesLess
<1>8. PICK u \in Seq(Items) : /\ Distinct(u) /\ InOrder(u) /\ ItemsOf(u) = ItemsOf(s) \cup {i}
                              /\ Without(u, i) = s
  BY <1>2, <1>3, <1>4, <1>6, <1>7, PutBack
<1>9. u \in Abstract!InIndexOrder(Abstract!LiveOf(row), row)
  <2>1. u \in Orderings(LiveOf(row))
    BY <1>5, <1>8, ItemsOrdered
  <2>2. \A a, b \in DOMAIN u : a < b => row[u[a]].idx <= row[u[b]].idx
    BY <1>8, LenProperties DEF InOrder
  <2> QED
    BY <2>1, <2>2, SameRows DEF Abstract!InIndexOrder
<1>10. PICK h : h = Abstract!NumberedAs(s)
  OBVIOUS
<1>11. h = [j \in Items |-> h[j]] /\ h[i] = row[i]
  BY <1>2, <1>4, <1>7, <1>10, NumberedRows DEF Abstract!NumberedAs
<1>12. PICK g : g = [h EXCEPT ![i].st = "removed"]
  OBVIOUS
<1>13. g = [j \in Items |-> g[j]] /\ g[i] = [row[i] EXCEPT !.st = "removed"]
       /\ \A j \in Items \ {i} : g[j] = h[j]
  BY <1>4, <1>11, <1>12
<1>14. ASSUME NEW j \in Items PROVE row'[j] = g[j]
  <2>1. CASE j = i
    BY <1>1, <1>4, <1>7, <1>13, <2>1, RowsAfter
  <2>2. CASE j # i /\ j \in ItemsOf(s)
    <3>1. PICK k \in 1..Len(s) : j = s[k]
      BY <2>2 DEF ItemsOf
    <3>2. row'[j] = Numbered(k)
      BY <1>1, <2>2, <3>1, RowsAfter
    <3>3. h[j] = Numbered(k)
      BY <1>2, <1>10, <3>1, NumberedRows
    <3> QED
      BY <1>13, <2>2, <3>2, <3>3
  <2>3. CASE j # i /\ j \notin ItemsOf(s)
    <3>1. row'[j] = row[j]
      BY <1>1, <1>4, <2>3, RowsAfter
    <3>2. h[j] = row[j]
      BY <1>2, <1>10, <2>3, NumberedRows
    <3> QED
      BY <1>13, <2>3, <3>1, <3>2
  <2> QED
    BY <2>1, <2>2, <2>3
<1>15. row' = g
  <2>1. row' \in [Items -> Rows]
    BY DEF RInv, IInv, TypeOK
  <2> QED
    BY <1>13, <1>14, <2>1, SameFunction
<1>16. Abstract!Remove(i)
  <2>1. row' = [Abstract!NumberedAs(Abstract!Without(u, i)) EXCEPT ![i].st = "removed"]
    BY <1>8, <1>10, <1>12, <1>15, SameRows
  <2>2. Abstract!Live(row[i])
    BY <1>6, SameRows
  <2> QED
    BY <1>9, <2>1, <2>2 DEF Abstract!Remove
<1> QED
  BY <1>4, <1>16 DEF Abstract!Next

\* However many requests reorder and remove at once, whatever the order of their statements,
\* what everybody sees goes through whole operations, one after another.
THEOREM RenumberingIsAtomic ==
    ASSUME Kinds \subseteq Renumbering
    PROVE  Spec => ImplementsOrder
<1>1. Init => Abstract!Init
  BY SameRows DEF Init, Abstract!Init
<1>2. RInv /\ RInv' /\ [Next]_vars => [Abstract!Next]_row
  <2> SUFFICES ASSUME RInv, RInv', [Next]_vars, ~UNCHANGED row PROVE Abstract!Next
    OBVIOUS
  <2>1. PICK t \in Clients : Call(t) \/ Step(t) \/ Rollback(t)
    BY DEF Next, Cancel, DeadlockVictim, vars
  <2>2. Renumbered(t)
    BY <2>1, OnlyRenumbered
  <2> QED
    BY <2>2, ReorderIsAtomic, RemoveIsAtomic
<1> QED
  BY <1>1, <1>2, InitRInv, NextRInv, PTL DEF Spec, ImplementsOrder, Abstract!Spec
=============================================================================
