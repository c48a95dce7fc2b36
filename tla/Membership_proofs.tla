------------------------- MODULE Membership_proofs -------------------------
(***************************************************************************)
(* For all users, organizations, bodies and connections: the rows keep     *)
(* their type and leaders stay within players; and as long as requests are *)
(* served one at a time, an organization keeps an owner, rows change at    *)
(* the hands of its owners only, and an editor writes over what they saw.  *)
(***************************************************************************)
EXTENDS Membership, TLAPS

\* A request that has found its row names one, and is one of the three that do.
Targeted == \A c \in Clients :
    /\ req[c].pc \in {"ready", "find", "check", "count", "write"} => req[c].id \in Ids
    /\ req[c].pc \in {"find", "check", "count", "write"} => req[c].op \in {"update", "delete", "remove"}

\* The fields about to be written have passed validate_fields.
Validated == \A c \in Clients :
    req[c].pc = "insert" \/ (req[c].pc \in {"check", "count", "write"} /\ req[c].op = "update")
        => ValidFields(req[c].to)

IInv == TypeOK /\ Targeted /\ Validated /\ PrincipalsWithin

\* One request is served at a time ...
Alone == \A c, d \in Clients : Serving(c) /\ Serving(d) => c = d
\* ... so what it has counted is still true when it writes.
Counted == \A c \in Clients :
    req[c].pc = "write" /\ Live(req[c].id) /\ table[req[c].id].is.role = "owner" /\ GivesUpOwner(c)
        => OtherOwners(req[c].id) # {}

OneByOne == Alone /\ Counted

------------------------------------------------------------------------------

\* What an answer, a jump and a write of a row keep.
LEMMA NoRequestTyped == NoRequest \in Requests
  BY DEF NoRequest, Requests, Ops, Pcs, NoFields, Fields, Roles

LEMMA AnswerTyped == ASSUME req \in [Clients -> Requests], NEW c \in Clients, Answer(c)
                     PROVE  req' \in [Clients -> Requests]
  BY NoRequestTyped DEF Answer

LEMMA GotoTyped ==
  ASSUME req \in [Clients -> Requests], NEW c \in Clients, NEW label \in Pcs, Goto(c, label)
  PROVE  req' \in [Clients -> Requests]
  BY Zenon DEF Goto, Requests

\* Merging a body with a typed row gives typed fields.
LEMMA MergedTyped ==
  ASSUME NEW b \in Bodies \cup {NoFields}, NEW cur \in Fields
  PROVE  Merged(b, cur) \in Fields
  <1> DEFINE plays == IF b.plays = Omitted THEN cur.plays ELSE b.plays
             leads == IF b.leads = Omitted THEN cur.leads ELSE b.leads
  <1>1. b.role \in Roles /\ b.plays \in (SUBSET Instruments) \cup {Omitted}
        /\ b.leads \in (SUBSET Instruments) \cup {Omitted}
    BY BodiesAssumption DEF BodyType, NoFields, Roles
  <1>2. plays \in SUBSET Instruments /\ leads \in SUBSET Instruments
    BY <1>1 DEF Fields
  <1> HIDE DEF plays, leads
  <1>3. [role |-> b.role, plays |-> plays, leads |-> leads] \in Fields
    BY <1>1, <1>2 DEF Fields
  <1> QED
    BY <1>3 DEF Merged, plays, leads

\* Writing typed fields into a typed row gives a typed row.
LEMMA RewrittenTyped ==
  ASSUME NEW r \in Rows, NEW f \in Fields
  PROVE  Rewritten(r, f) \in Rows /\ Rewritten(r, f).is = f
         /\ Rewritten(r, f).st = r.st /\ Rewritten(r, f).org = r.org
  <1>1. r.ver + 1 \in Nat
    BY DEF Rows
  <1> DEFINE v == r.ver + 1
  <1> HIDE DEF v
  <1>2. v \in Nat
    BY <1>1 DEF v
  <1>3. [r EXCEPT !.is = f, !.ver = v] \in Rows
    BY <1>2, Zenon DEF Rows
  <1> QED
    BY <1>3, Zenon DEF Rewritten, v, Rows

LEMMA InitIInv == Init => IInv
  <1> SUFFICES ASSUME Init PROVE IInv
    OBVIOUS
  <1>1. NoRow \in Rows
    BY DEF NoRow, Rows, NoFields, Fields, Roles
  <1>2. TypeOK
    BY <1>1, NoRequestTyped DEF Init, TypeOK
  <1>3. Targeted /\ Validated
    BY DEF Init, Targeted, Validated, NoRequest
  <1>4. PrincipalsWithin
    BY DEF Init, PrincipalsWithin, NoRow, NoFields
  <1> QED
    BY <1>2, <1>3, <1>4 DEF IInv

------------------------------------------------------------------------------
(* Every step keeps IInv. *)

\* The one request a step moves is well formed afterwards.
Good(r) ==
    /\ r \in Requests
    /\ r.pc \in {"ready", "find", "check", "count", "write"} => r.id \in Ids
    /\ r.pc \in {"find", "check", "count", "write"} => r.op \in {"update", "delete", "remove"}
    /\ r.pc = "insert" \/ (r.pc \in {"check", "count", "write"} /\ r.op = "update")
           => ValidFields(r.to)

LEMMA GoodRequests ==
  ASSUME IInv, NEW c \in Clients PROVE Good(req[c])
  BY DEF IInv, TypeOK, Targeted, Validated, Good

LEMMA RequestMoves ==
  ASSUME IInv, NEW c \in Clients, NEW r, Good(r), req' = [req EXCEPT ![c] = r]
  PROVE  req' \in [Clients -> Requests] /\ Targeted' /\ Validated'
  <1>1. \A d \in Clients : Good(req'[d])
    BY GoodRequests, Zenon DEF IInv, TypeOK
  <1>2. req' \in [Clients -> Requests]
    BY Zenon DEF IInv, TypeOK, Good
  <1> QED
    BY <1>1, <1>2 DEF Good, Targeted, Validated, ValidFields

LEMMA AnswerMoves ==
  ASSUME IInv, NEW c \in Clients, Answer(c)
  PROVE  req' \in [Clients -> Requests] /\ Targeted' /\ Validated'
  <1>1. Good(NoRequest)
    BY NoRequestTyped DEF Good, NoRequest
  <1> QED
    BY <1>1, RequestMoves DEF Answer

LEMMA GotoMoves ==
  ASSUME IInv, NEW c \in Clients, NEW label \in {"count", "write"}, req[c].pc = "check" \/ req[c].pc = "count",
         Goto(c, label)
  PROVE  req' \in [Clients -> Requests] /\ Targeted' /\ Validated'
  <1> DEFINE r == [req[c] EXCEPT !.pc = label]
  <1>1. req[c] \in Requests
    BY DEF IInv, TypeOK
  <1>2. r \in Requests
    BY <1>1, Zenon DEF Requests, Pcs
  <1>3. /\ r.pc = label /\ r.id = req[c].id /\ r.op = req[c].op /\ r.to = req[c].to
    BY <1>1 DEF Requests
  <1>4. Good(req[c])
    BY GoodRequests
  <1>5. Good(r)
    BY <1>2, <1>3, <1>4 DEF Good
  <1>6. req' = [req EXCEPT ![c] = r]
    BY DEF Goto
  <1> QED
    BY <1>5, <1>6, RequestMoves

LEMMA TableKept ==
  ASSUME IInv, UNCHANGED table, req' \in [Clients -> Requests], Targeted', Validated'
  PROVE  IInv'
  BY DEF IInv, TypeOK, PrincipalsWithin

LEMMA TableMoves ==
  ASSUME IInv, NEW i \in Ids, NEW r \in Rows, r.is.leads \subseteq r.is.plays,
         table' = [table EXCEPT ![i] = r], req' \in [Clients -> Requests], Targeted', Validated'
  PROVE  IInv'
  <1>1. table' \in [Ids -> Rows]
    BY DEF IInv, TypeOK
  <1>2. PrincipalsWithin'
    BY DEF IInv, TypeOK, PrincipalsWithin
  <1> QED
    BY <1>1, <1>2 DEF IInv, TypeOK

LEMMA LookKeeps ==
  ASSUME IInv, NEW c \in Clients, NEW u \in Users, NEW i \in Ids, Look(c, u, i)
  PROVE  IInv'
  <1> DEFINE r == [NoRequest EXCEPT !.pc = "ready", !.by = u, !.id = i, !.etag = table[i].ver]
  <1>1. table[i].ver \in Nat
    BY DEF IInv, TypeOK, Rows
  <1>2. r \in Requests /\ r.pc = "ready" /\ r.id = i
    BY <1>1 DEF NoRequest, Requests, Ops, Pcs, NoFields, Fields, Roles
  <1>3. Good(r)
    BY <1>2 DEF Good
  <1> QED
    BY <1>3, RequestMoves, TableKept DEF Look

LEMMA ReceiveKeeps ==
  ASSUME IInv, NEW c \in Clients, NEW op \in {"update", "delete", "remove"}, NEW o \in Orgs,
         NEW b \in Bodies, Receive(c, op, o, b)
  PROVE  IInv'
  <1>1. CASE MayManage(req[c].by, o)
    <2> DEFINE r == [req[c] EXCEPT !.pc = "find", !.op = op, !.org = o, !.body = b]
    <2>1. req[c] \in Requests /\ req[c].id \in Ids
      BY DEF IInv, TypeOK, Targeted, Receive
    <2>2. r \in Requests
      BY <2>1, Zenon DEF Requests, Ops, Pcs
    <2>3. r.pc = "find" /\ r.id = req[c].id /\ r.op = op
      BY <2>1 DEF Requests
    <2>4. Good(r)
      BY <2>1, <2>2, <2>3 DEF Good
    <2>5. req' = [req EXCEPT ![c] = r]
      BY <1>1 DEF Receive
    <2> QED
      BY <2>4, <2>5, RequestMoves, TableKept DEF Receive
  <1>2. CASE ~MayManage(req[c].by, o)
    BY <1>2, AnswerMoves, TableKept DEF Receive
  <1> QED
    BY <1>1, <1>2

LEMMA ReceiveCreateKeeps ==
  ASSUME IInv, NEW c \in Clients, NEW u \in Users, NEW o \in Orgs, NEW target \in Users,
         NEW b \in Bodies, ReceiveCreate(c, u, o, target, b)
  PROVE  IInv'
  <1> DEFINE to == Merged(b, NoFields)
             r == [NoRequest EXCEPT !.op = "create", !.pc = "insert", !.by = u,
                                    !.org = o, !.target = target, !.body = b, !.to = to]
  <1>1. to \in Fields
    BY MergedTyped DEF NoFields, Fields, Roles
  <1>2. ValidFields(to) /\ req' = [req EXCEPT ![c] = r] /\ UNCHANGED table
    BY DEF ReceiveCreate
  <1> HIDE DEF to
  <1>3. r \in Requests /\ r.pc = "insert" /\ r.to = to
    BY <1>1 DEF NoRequest, Requests, Ops, Pcs
  <1>4. Good(r)
    BY <1>2, <1>3 DEF Good
  <1> QED
    BY <1>2, <1>4, RequestMoves, TableKept

LEMMA InsertKeeps ==
  ASSUME IInv, NEW c \in Clients, NEW i \in Ids, Insert(c, i)
  PROVE  IInv'
  <1>1. req' \in [Clients -> Requests] /\ Targeted' /\ Validated'
    BY AnswerMoves DEF Insert
  <1>2. CASE MemberOf(req[c].target, req[c].org)
    BY <1>1, <1>2, TableKept DEF Insert
  <1>3. CASE ~MemberOf(req[c].target, req[c].org)
    <2> DEFINE r == [st |-> "live", user |-> req[c].target, org |-> req[c].org,
                     is |-> req[c].to, ver |-> 1]
    <2>1. req[c] \in Requests /\ ValidFields(req[c].to)
      BY DEF IInv, TypeOK, Validated, Insert
    <2>2. r \in Rows /\ r.is.leads \subseteq r.is.plays
      BY <2>1 DEF Requests, Rows, ValidFields
    <2>3. table' = [table EXCEPT ![i] = r]
      BY <1>3 DEF Insert
    <2> QED
      BY <1>1, <2>2, <2>3, TableMoves
  <1> QED
    BY <1>2, <1>3

LEMMA FindKeeps ==
  ASSUME IInv, NEW c \in Clients, Find(c)
  PROVE  IInv'
  <1> DEFINE to == Merged(req[c].body, table[req[c].id].is)
             r == [req[c] EXCEPT !.pc = "check", !.to = to]
  <1>1. CASE Answer(c)
    BY <1>1, AnswerMoves, TableKept DEF Find
  <1>2. CASE req' = [req EXCEPT ![c].pc = "check", ![c].to = to]
             /\ (req[c].op = "update" => ValidFields(to))
    <2>1. req[c] \in Requests /\ req[c].id \in Ids /\ req[c].op \in {"update", "delete", "remove"}
      BY DEF IInv, TypeOK, Targeted, Find
    <2>2. req[c].body \in Bodies \cup {NoFields}
      BY <2>1 DEF Requests
    <2>3. table[req[c].id].is \in Fields
      BY <2>1 DEF IInv, TypeOK, Rows
    <2>4. to \in Fields
      BY <2>2, <2>3, MergedTyped
    <2> HIDE DEF to
    <2>5. r \in Requests
      BY <2>1, <2>4, Zenon DEF Requests, Pcs
    <2>6. r.pc = "check" /\ r.id = req[c].id /\ r.op = req[c].op /\ r.to = to
      BY <2>1 DEF Requests
    <2>7. Good(r)
      BY <1>2, <2>1, <2>5, <2>6 DEF Good
    <2> QED
      BY <1>2, <2>7, RequestMoves, TableKept DEF Find
  <1> QED
    BY <1>1, <1>2 DEF Find

LEMMA CheckKeeps ==
  ASSUME IInv, NEW c \in Clients, Check(c)
  PROVE  IInv'
  <1>1. Answer(c) \/ Goto(c, "count") \/ Goto(c, "write")
    BY DEF Check
  <1> QED
    BY <1>1, AnswerMoves, GotoMoves, TableKept DEF Check

LEMMA CountKeeps ==
  ASSUME IInv, NEW c \in Clients, Count(c)
  PROVE  IInv'
  <1>1. Answer(c) \/ Goto(c, "write")
    BY DEF Count
  <1> QED
    BY <1>1, AnswerMoves, GotoMoves, TableKept DEF Count

\* The row a Write leaves under the id it was asked for.
Written(c) ==
    IF req[c].op = "update" THEN Rewritten(table[req[c].id], req[c].to)
                            ELSE [table[req[c].id] EXCEPT !.st = "gone"]

LEMMA WriteWrites ==
  ASSUME IInv, NEW c \in Clients, Write(c)
  PROVE  /\ req[c].id \in Ids /\ Answer(c)
         /\ ~Live(req[c].id) => UNCHANGED table
         /\ Live(req[c].id) => table' = [table EXCEPT ![req[c].id] = Written(c)]
         /\ Written(c) \in Rows /\ Written(c).is.leads \subseteq Written(c).is.plays
  <1> DEFINE i == req[c].id
  <1>1. i \in Ids /\ req[c] \in Requests /\ req[c].op \in {"update", "delete", "remove"}
    BY DEF IInv, TypeOK, Targeted, Write
  <1>2. table[i] \in Rows /\ req[c].to \in Fields
    BY <1>1 DEF IInv, TypeOK, Requests
  <1>3. req[c].op = "update" => ValidFields(req[c].to)
    BY DEF IInv, Validated, Write
  <1>4. CASE req[c].op = "update"
    <2>1. Written(c) = Rewritten(table[i], req[c].to)
      BY <1>4 DEF Written
    <2>2. Written(c) \in Rows /\ Written(c).is = req[c].to
      BY <1>2, <2>1, RewrittenTyped
    <2>3. Live(i) => table' = [table EXCEPT ![i] = Written(c)]
      BY <1>4, <2>1, Zenon DEF Write
    <2> QED
      BY <1>1, <1>3, <1>4, <2>2, <2>3 DEF Write, ValidFields
  <1>5. CASE req[c].op # "update"
    <2>1. Written(c) = [table[i] EXCEPT !.st = "gone"]
      BY <1>5 DEF Written
    <2>2. Written(c) \in Rows /\ Written(c).is = table[i].is
      BY <1>2, <2>1 DEF Rows
    <2>3. table[i].is.leads \subseteq table[i].is.plays
      BY <1>1 DEF IInv, PrincipalsWithin
    <2>4. Live(i) => table' = [table EXCEPT ![i] = Written(c)]
      BY <1>5, <2>1, Zenon DEF Write
    <2> QED
      BY <1>1, <2>2, <2>3, <2>4 DEF Write
  <1> QED
    BY <1>4, <1>5

LEMMA WriteKeeps ==
  ASSUME IInv, NEW c \in Clients, Write(c)
  PROVE  IInv'
  BY WriteWrites, AnswerMoves, TableKept, TableMoves

LEMMA DropKeeps ==
  ASSUME IInv, NEW c \in Clients, Drop(c)
  PROVE  IInv'
  BY AnswerMoves, TableKept DEF Drop

LEMMA StepKeeps == IInv /\ [Next]_vars => IInv'
  <1> SUFFICES ASSUME IInv, [Next]_vars PROVE IInv'
    OBVIOUS
  <1>1. CASE UNCHANGED vars
    BY <1>1 DEF vars, IInv, TypeOK, Targeted, Validated, PrincipalsWithin, ValidFields
  <1>2. ASSUME NEW c \in Clients, Step(c) PROVE IInv'
    BY <1>2, LookKeeps, ReceiveKeeps, ReceiveCreateKeeps, InsertKeeps, FindKeeps, CheckKeeps,
       CountKeeps, WriteKeeps, DropKeeps DEF Step
  <1> QED
    BY <1>1, <1>2 DEF Next

\* Every state has the types it should, and leaders stay within players: no
\* interleaving of requests writes a mixture validate_fields did not see.
THEOREM RowsAreValid == Spec => [](TypeOK /\ PrincipalsWithin)
  <1>1. IInv => TypeOK /\ PrincipalsWithin
    BY DEF IInv
  <1> QED
    BY InitIInv, StepKeeps, <1>1, PTL DEF Spec

\* Rows and requests have their types, whatever overlaps.
THEOREM TypesHold == Spec => []TypeOK
  <1>1. IInv => TypeOK
    BY DEF IInv
  <1> QED
    BY InitIInv, StepKeeps, <1>1, PTL DEF Spec

------------------------------------------------------------------------------
(* One request at a time: what it has counted is still so when it writes. *)

LEMMA InitOneByOne == Init => OneByOne
  BY DEF Init, OneByOne, Alone, Counted, Serving, NoRequest

\* A step of c moves only c's request, and ends or begins alone.
LEMMA OneMoves ==
  ASSUME IInv, ~Overlap, Alone, NEW c \in Clients, Step(c)
  PROVE  /\ \A d \in Clients \ {c} : req'[d] = req[d]
         /\ Alone'
         /\ Serving(c) \/ UNCHANGED table
         /\ req'[c].pc = "write" => Serving(c) /\ UNCHANGED table
         /\ req'[c].pc = "write" => (Check(c) \/ Count(c)) /\ Goto(c, "write")
  <1>0. req \in [Clients -> Requests] /\ NoRequest.pc = "idle"
    BY DEF IInv, TypeOK, NoRequest
  <1> USE <1>0
  <1>1. ASSUME Answer(c) PROVE req'[c].pc = "idle" /\ \A d \in Clients \ {c} : req'[d] = req[d]
    BY <1>1 DEF Answer
  <1>2. ASSUME NEW label, Goto(c, label)
        PROVE  req'[c].pc = label /\ \A d \in Clients \ {c} : req'[d] = req[d]
    BY <1>2 DEF Goto, Requests
  <1>3. /\ \A d \in Clients \ {c} : req'[d] = req[d]
        /\ Serving(c) \/ req'[c].pc \in {"idle", "ready"} \/ Quiet
        /\ Serving(c) \/ UNCHANGED table
        /\ req'[c].pc = "write" => Serving(c) /\ UNCHANGED table
        /\ req'[c].pc = "write" => (Check(c) \/ Count(c)) /\ Goto(c, "write")
    <2>1. ASSUME NEW u \in Users, NEW i \in Ids, Look(c, u, i) PROVE <1>3!:
      BY <2>1 DEF Look, NoRequest
    <2>2. ASSUME NEW op \in {"update", "delete", "remove"}, NEW o \in Orgs, NEW b \in Bodies,
                 Receive(c, op, o, b)
          PROVE  <1>3!:
      <3>1. CASE MayManage(req[c].by, o)
        <4> DEFINE r == [req[c] EXCEPT !.pc = "find", !.op = op, !.org = o, !.body = b]
        <4>1. r.pc = "find"
          BY DEF Requests
        <4>2. req' = [req EXCEPT ![c] = r] /\ UNCHANGED table /\ Quiet
          BY <2>2, <3>1 DEF Receive
        <4> HIDE DEF r
        <4> QED
          BY <4>1, <4>2
      <3>2. CASE ~MayManage(req[c].by, o)
        BY <2>2, <3>2, <1>1 DEF Receive
      <3> QED
        BY <3>1, <3>2
    <2>3. ASSUME NEW u \in Users, NEW o \in Orgs, NEW target \in Users, NEW b \in Bodies,
                 ReceiveCreate(c, u, o, target, b)
          PROVE  <1>3!:
      BY <2>3 DEF ReceiveCreate, NoRequest
    <2>4. ASSUME NEW i \in Ids, Insert(c, i) PROVE <1>3!:
      BY <2>4, <1>1 DEF Insert, Serving
    <2>5. CASE Find(c)
      BY <2>5, <1>1 DEF Find, Serving, Requests
    <2>6. CASE Check(c) \/ Count(c)
      BY <2>6, <1>1, <1>2 DEF Check, Count, Serving
    <2>7. CASE Write(c)
      BY <2>7, <1>1 DEF Write, Serving
    <2>8. CASE Drop(c)
      BY <2>8, <1>1 DEF Drop
    <2> QED
      BY <2>1, <2>2, <2>3, <2>4, <2>5, <2>6, <2>7, <2>8 DEF Step
  <1>4. Alone'
    BY <1>3 DEF Alone, Serving, Quiet
  <1> QED
    BY <1>3, <1>4

LEMMA StepOneByOne == ~Overlap /\ IInv /\ OneByOne /\ [Next]_vars => OneByOne'
  <1> SUFFICES ASSUME ~Overlap, IInv, OneByOne, [Next]_vars PROVE OneByOne'
    OBVIOUS
  <1>1. CASE UNCHANGED vars
    BY <1>1 DEF vars, OneByOne, Alone, Serving, Counted, Live, GivesUpOwner, OtherOwners, OwnerRow
  <1>2. ASSUME NEW c \in Clients, Step(c) PROVE OneByOne'
    <2>1. /\ \A d \in Clients \ {c} : req'[d] = req[d]
          /\ Alone'
          /\ Serving(c) \/ UNCHANGED table
          /\ req'[c].pc = "write" => Serving(c) /\ UNCHANGED table
          /\ req'[c].pc = "write" => (Check(c) \/ Count(c)) /\ Goto(c, "write")
      BY <1>2, OneMoves DEF OneByOne
    <2>2. ASSUME NEW d \in Clients \ {c}, req'[d].pc = "write",
                 Live(req[d].id)', table'[req'[d].id].is.role = "owner", GivesUpOwner(d)'
          PROVE  OtherOwners(req[d].id)' # {}
      <3>1. req'[d] = req[d] /\ Serving(d)
        BY <2>1, <2>2 DEF Serving
      <3>2. UNCHANGED table
        BY <2>1, <3>1 DEF OneByOne, Alone
      <3> QED
        BY <2>2, <3>1, <3>2 DEF OneByOne, Counted, Live, GivesUpOwner, OtherOwners, OwnerRow
    <2>3. ASSUME req'[c].pc = "write", Live(req[c].id)',
                 table'[req'[c].id].is.role = "owner", GivesUpOwner(c)'
          PROVE  OtherOwners(req[c].id)' # {}
      <3>1. UNCHANGED table /\ (Check(c) \/ Count(c)) /\ Goto(c, "write")
        BY <2>1, <2>3
      <3>2. req[c] \in Requests /\ req \in [Clients -> Requests]
        BY DEF IInv, TypeOK
      <3>3. req'[c].id = req[c].id /\ req'[c].op = req[c].op /\ req'[c].to = req[c].to
        BY <3>1, <3>2 DEF Goto, Requests
      <3>4. Live(req[c].id) /\ table[req[c].id].is.role = "owner" /\ GivesUpOwner(c)
        BY <2>3, <3>1, <3>3 DEF Live, GivesUpOwner
      <3>5. ~Check(c)
        BY <3>1, <3>2, <3>4 DEF Check, Goto, Requests
      <3>6. OtherOwners(req[c].id) # {}
        <4>1. Count(c) /\ req'[c].pc = "write"
          BY <2>3, <3>1, <3>5
        <4>2. Answer(c) => req'[c].pc = "idle"
          BY <3>2 DEF Answer, NoRequest
        <4> QED
          BY <4>1, <4>2 DEF Count
      <3> QED
        BY <3>1, <3>3, <3>6 DEF OtherOwners, OwnerRow, Live
    <2> QED
      BY <2>1, <2>2, <2>3 DEF OneByOne, Counted
  <1> QED
    BY <1>1, <1>2 DEF Next

\* A write takes an owner from an organization only when it has another one.
LEMMA OwnerStays ==
  ASSUME IInv, Counted, NEW c \in Clients, Step(c), NEW o \in Orgs, HasOwner(o)
  PROVE  HasOwner(o)'
  <1>1. PICK k \in Ids : OwnerRow(k, o)
    BY DEF HasOwner
  <1>2. CASE UNCHANGED table
    BY <1>1, <1>2 DEF HasOwner, OwnerRow, Live
  <1>3. ASSUME NEW i \in Ids, Insert(c, i), table' # table PROVE HasOwner(o)'
    <2>1. i # k
      BY <1>1, <1>3 DEF Insert, OwnerRow, Live
    <2>2. table'[k] = table[k]
      BY <1>3, <2>1 DEF Insert, IInv, TypeOK
    <2> QED
      BY <1>1, <2>2 DEF HasOwner, OwnerRow, Live
  <1>4. CASE Write(c) /\ table' # table
    <2> DEFINE i == req[c].id
    <2>1. /\ i \in Ids /\ Live(i) /\ Written(c) \in Rows
          /\ table' = [table EXCEPT ![i] = Written(c)] /\ req[c].pc = "write"
      BY <1>4, WriteWrites DEF Write
    <2>2. \A j \in Ids \ {i} : table'[j] = table[j]
      BY <2>1
    <2>3. CASE i # k
      BY <1>1, <2>2, <2>3 DEF HasOwner, OwnerRow, Live
    <2>4. CASE i = k /\ GivesUpOwner(c)
      <3>1. OtherOwners(i) # {} /\ table[i].org = o
        BY <1>1, <2>1, <2>4 DEF Counted, OwnerRow
      <3>2. PICK j \in Ids \ {i} : OwnerRow(j, o)
        BY <3>1 DEF OtherOwners
      <3> QED
        BY <2>2, <3>2 DEF HasOwner, OwnerRow, Live
    <2>5. CASE i = k /\ ~GivesUpOwner(c)
      <3>1. Written(c) = Rewritten(table[i], req[c].to) /\ req[c].to.role = "owner"
        BY <2>5 DEF GivesUpOwner, Written
      <3>2. table[i] \in Rows /\ req[c].to \in Fields
        BY <2>1 DEF IInv, TypeOK, Requests
      <3>3. Written(c).is.role = "owner" /\ Written(c).st = "live" /\ Written(c).org = o
        BY <1>1, <2>1, <2>5, <3>1, <3>2, RewrittenTyped DEF OwnerRow, Live
      <3>4. table'[i] = Written(c)
        BY <2>1 DEF IInv, TypeOK
      <3> QED
        BY <2>1, <3>3, <3>4 DEF HasOwner, OwnerRow, Live
    <2> QED
      BY <2>3, <2>4, <2>5
  <1> QED
    BY <1>2, <1>3, <1>4 DEF Step, Look, Receive, ReceiveCreate, Find, Check, Count, Drop

\* Served one request at a time, every organization that has an owner keeps
\* one, whatever the users, the bodies and the order of the requests.
THEOREM OwnerKeptOneByOne == ASSUME ~Overlap PROVE Spec => OwnerKept
  <1>1. Init => IInv /\ OneByOne
    BY InitIInv, InitOneByOne
  <1>2. IInv /\ OneByOne /\ [Next]_vars => (IInv /\ OneByOne)'
    BY StepKeeps, StepOneByOne
  <1>3. IInv /\ OneByOne /\ [Next]_vars
          => [\A o \in Orgs : HasOwner(o) => HasOwner(o)']_vars
    <2> SUFFICES ASSUME IInv, OneByOne, Next, NEW o \in Orgs, HasOwner(o) PROVE HasOwner(o)'
      OBVIOUS
    <2> QED
      BY OwnerStays DEF Next, OneByOne
  <1> QED
    BY <1>1, <1>2, <1>3, PTL DEF Spec, OwnerKept

------------------------------------------------------------------------------
(* One request at a time: the caller's role, the row's organization and    *)
(* its version are still what they were when they were read.               *)

Standing == \A c \in Clients :
    /\ Serving(c) => MayManage(req[c].by, req[c].org)
    /\ req[c].pc \in {"check", "count", "write"} =>
          /\ table[req[c].id].org = req[c].org
          /\ req[c].op # "remove" => req[c].etag = table[req[c].id].ver

LEMMA InitStanding == Init => Standing
  BY DEF Init, Standing, Serving, NoRequest

LEMMA SameRole ==
  ASSUME UNCHANGED table, NEW u, NEW o, MayManage(u, o)
  PROVE  MayManage(u, o)'
  BY DEF MayManage, OwnerRow, Live

\* What a step makes of the request it moves, before the rows change.
LEMMA StandsAfter ==
  ASSUME IInv, Standing, NEW c \in Clients, Step(c), Serving(c)'
  PROVE  /\ UNCHANGED table
         /\ MayManage(req'[c].by, req'[c].org)
         /\ req'[c].pc \in {"check", "count", "write"} =>
               /\ table[req'[c].id].org = req'[c].org
               /\ req'[c].op # "remove" => req'[c].etag = table[req'[c].id].ver
  <1>0. req \in [Clients -> Requests] /\ req[c] \in Requests
    BY DEF IInv, TypeOK
  <1>1. ~Answer(c)
    BY <1>0 DEF Answer, Serving, NoRequest
  <1>2. ASSUME NEW u \in Users, NEW i \in Ids, Look(c, u, i) PROVE FALSE
    BY <1>0, <1>2 DEF Look, Serving, NoRequest
  <1>3. ASSUME NEW op \in {"update", "delete", "remove"}, NEW o \in Orgs, NEW b \in Bodies,
               Receive(c, op, o, b)
        PROVE  /\ UNCHANGED table /\ MayManage(req'[c].by, req'[c].org)
               /\ req'[c].pc \notin {"check", "count", "write"}
    <2> DEFINE r == [req[c] EXCEPT !.pc = "find", !.op = op, !.org = o, !.body = b]
    <2>1. r.pc = "find" /\ r.by = req[c].by /\ r.org = o
      BY <1>0 DEF Requests
    <2>2. req' = [req EXCEPT ![c] = r] /\ UNCHANGED table /\ MayManage(req[c].by, o)
      BY <1>1, <1>3 DEF Receive
    <2> HIDE DEF r
    <2>3. req'[c] = r
      BY <1>0, <2>2
    <2>4. req'[c].pc \notin {"check", "count", "write"}
      BY <2>1, <2>3
    <2>5. UNCHANGED table /\ MayManage(req'[c].by, req'[c].org)
      BY <2>1, <2>2, <2>3
    <2> QED
      BY <2>4, <2>5
  <1>4. ASSUME NEW u \in Users, NEW o \in Orgs, NEW target \in Users, NEW b \in Bodies,
               ReceiveCreate(c, u, o, target, b)
        PROVE  /\ UNCHANGED table /\ MayManage(req'[c].by, req'[c].org)
               /\ req'[c].pc \notin {"check", "count", "write"}
    <2> DEFINE r == [NoRequest EXCEPT !.op = "create", !.pc = "insert", !.by = u, !.org = o,
                        !.target = target, !.body = b, !.to = Merged(b, NoFields)]
    <2>1. r.pc = "insert" /\ r.by = u /\ r.org = o
      BY DEF NoRequest
    <2>2. req' = [req EXCEPT ![c] = r] /\ UNCHANGED table /\ MayManage(u, o)
      BY <1>4 DEF ReceiveCreate
    <2> HIDE DEF r
    <2>3. req'[c] = r
      BY <1>0, <2>2
    <2>4. req'[c].pc \notin {"check", "count", "write"}
      BY <2>1, <2>3
    <2>5. UNCHANGED table /\ MayManage(req'[c].by, req'[c].org)
      BY <2>1, <2>2, <2>3
    <2> QED
      BY <2>4, <2>5
  <1>5. CASE Find(c)
    <2> DEFINE to == Merged(req[c].body, table[req[c].id].is)
               r == [req[c] EXCEPT !.pc = "check", !.to = to]
    <2>1. /\ r.pc = "check" /\ r.by = req[c].by /\ r.org = req[c].org /\ r.id = req[c].id
          /\ r.op = req[c].op /\ r.etag = req[c].etag
      BY <1>0 DEF Requests
    <2>2. req' = [req EXCEPT ![c] = r] /\ UNCHANGED table /\ Scoped(c) /\ Fresh(c)
      BY <1>1, <1>5 DEF Find
    <2>3. MayManage(req[c].by, req[c].org)
      BY <1>5 DEF Standing, Find, Serving
    <2> HIDE DEF r
    <2>4. req'[c] = r
      BY <1>0, <2>2
    <2> QED
      BY <2>1, <2>2, <2>3, <2>4 DEF Scoped, Fresh
  <1>6. CASE Check(c) \/ Count(c)
    <2>1. PICK label \in {"count", "write"} : Goto(c, label)
      BY <1>1, <1>6 DEF Check, Count
    <2>2. /\ req'[c].pc = label /\ req'[c].by = req[c].by /\ req'[c].org = req[c].org
          /\ req'[c].id = req[c].id /\ req'[c].op = req[c].op /\ req'[c].etag = req[c].etag
      BY <1>0, <2>1 DEF Goto, Requests
    <2>3. Serving(c) /\ req[c].pc \in {"check", "count", "write"} /\ UNCHANGED table
      BY <1>6 DEF Check, Count, Serving
    <2> QED
      BY <2>2, <2>3 DEF Standing
  <1> QED
    BY <1>1, <1>2, <1>3, <1>4, <1>5, <1>6 DEF Step, Insert, Write, Drop

LEMMA StepStanding == ~Overlap /\ IInv /\ Alone /\ Standing /\ [Next]_vars => Standing'
  <1> SUFFICES ASSUME ~Overlap, IInv, Alone, Standing, [Next]_vars PROVE Standing'
    OBVIOUS
  <1>1. CASE UNCHANGED vars
    BY <1>1, SameRole DEF vars, Standing, Serving
  <1>2. ASSUME NEW c \in Clients, Step(c) PROVE Standing'
    <2>1. \A d \in Clients \ {c} : req'[d] = req[d]
      BY <1>2, OneMoves
    <2>2. Serving(c) \/ UNCHANGED table
      BY <1>2, OneMoves
    <2> DEFINE Stands(d) ==
          /\ Serving(d) => MayManage(req[d].by, req[d].org)
          /\ req[d].pc \in {"check", "count", "write"} =>
                /\ table[req[d].id].org = req[d].org
                /\ req[d].op # "remove" => req[d].etag = table[req[d].id].ver
    <2>3. ASSUME NEW d \in Clients \ {c} PROVE Stands(d)'
      <3>1. CASE Serving(d)
        <4>1. UNCHANGED table
          BY <2>2, <3>1 DEF Alone
        <4> QED
          BY <2>1, <4>1, SameRole DEF Standing, Serving
      <3>2. CASE ~Serving(d)
        BY <2>1, <3>2 DEF Serving
      <3> QED
        BY <3>1, <3>2
    <2>4. Stands(c)'
      <3>1. CASE Serving(c)'
        BY <1>2, <3>1, StandsAfter, SameRole
      <3>2. CASE ~Serving(c)'
        BY <3>2 DEF Serving
      <3> QED
        BY <3>1, <3>2
    <2> QED
      BY <2>3, <2>4 DEF Standing
  <1> QED
    BY <1>1, <1>2 DEF Next

\* Which row a step of c changes, and that it is c's to change.
LEMMA ChangesOwn ==
  ASSUME IInv, Standing, NEW c \in Clients, Step(c), NEW i \in Ids, table'[i] # table[i]
  PROVE  /\ MayManage(req[c].by, table'[i].org)
         /\ Write(c) /\ req[c].op # "remove" => table[req[c].id].ver = req[c].etag
  <1>1. ASSUME NEW j \in Ids, Insert(c, j) PROVE MayManage(req[c].by, table'[i].org)
    <2>1. table'[i].org = req[c].org
      BY <1>1 DEF Insert, IInv, TypeOK
    <2> QED
      BY <1>1, <2>1 DEF Standing, Serving, Insert
  <1>2. CASE Write(c)
    <2>1. /\ req[c].id = i /\ Live(i) /\ table' = [table EXCEPT ![i] = Written(c)]
          /\ Written(c) \in Rows /\ req[c].pc = "write"
      BY <1>2, WriteWrites DEF Write, IInv, TypeOK
    <2>2. table[i] \in Rows /\ req[c].to \in Fields /\ table'[i] = Written(c)
      BY <2>1 DEF IInv, TypeOK, Requests
    <2>3. Written(c).org = table[i].org
      BY <2>1, <2>2, RewrittenTyped DEF Written, Rows
    <2> QED
      BY <2>1, <2>2, <2>3 DEF Standing, Serving
  <1> QED
    BY <1>1, <1>2
       DEF Step, Look, Receive, ReceiveCreate, Find, Check, Count, Drop, Write, Insert

LEMMA InductionOneByOne ==
  ASSUME ~Overlap
  PROVE  /\ Init => IInv /\ OneByOne /\ Standing
         /\ IInv /\ OneByOne /\ Standing /\ [Next]_vars => (IInv /\ OneByOne /\ Standing)'
  <1>1. IInv /\ OneByOne /\ Standing /\ [Next]_vars => Standing'
    BY StepStanding DEF OneByOne
  <1> QED
    BY <1>1, InitIInv, InitOneByOne, InitStanding, StepKeeps, StepOneByOne

\* Served one request at a time, a membership changes only at the hand of a
\* system admin or of an owner of the organization that the row belongs to,
\* whichever organization the path of the request names.
THEOREM ManagedOneByOne == ASSUME ~Overlap PROVE Spec => ManagedByOwners
  <1>1. IInv /\ OneByOne /\ Standing /\ [Next]_vars
          => [\A c \in Clients : \A i \in Ids :
                req'[c] # req[c] /\ table'[i] # table[i] => MayManage(req[c].by, table'[i].org)]_vars
    <2> SUFFICES ASSUME IInv, OneByOne, Standing, NEW e \in Clients, Step(e),
                        NEW c \in Clients, NEW i \in Ids, req'[c] # req[c], table'[i] # table[i]
                 PROVE  MayManage(req[c].by, table'[i].org)
      BY DEF Next
    <2>1. c = e
      BY OneMoves DEF OneByOne
    <2> QED
      BY <2>1, ChangesOwn
  <1> QED
    BY <1>1, InductionOneByOne, PTL DEF Spec, ManagedByOwners

\* Served one request at a time, a versioned edit or removal lands on the version
\* its editor looked at.
THEOREM SeenOneByOne == ASSUME ~Overlap PROVE Spec => OnlyWhatWasSeen
  <1>1. IInv /\ OneByOne /\ Standing /\ [Next]_vars
          => [\A c \in Clients :
                Writes(c) /\ req[c].op # "remove" => table[req[c].id].ver = req[c].etag]_vars
    <2> SUFFICES ASSUME IInv, Standing, NEW c \in Clients, Writes(c), req[c].op # "remove"
                 PROVE  table[req[c].id].ver = req[c].etag
      OBVIOUS
    <2> QED
      BY DEF Standing, Writes
  <1> QED
    BY <1>1, InductionOneByOne, PTL DEF Spec, OnlyWhatWasSeen
=============================================================================
