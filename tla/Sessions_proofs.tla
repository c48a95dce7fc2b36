--------------------------- MODULE Sessions_proofs ---------------------------
(***************************************************************************)
(* Sessions: what a session is does not change, forms stay good, and       *)
(* nobody gets in with what had ended, for any number of requests in       *)
(* flight, users and app passwords.  The argument is about the copies: a   *)
(* request that loaded a session holds what the store holds, or the        *)
(* session has ended (`Copy'); so a request that stores has no session id  *)
(* and stores under its own number, which nobody else has used (`Unused'). *)
(***************************************************************************)
EXTENDS Sessions, TLAPS

Places == {"idle", "sent", "handle", "verified", "end", "rejected", "answer"}

Requests ==
    [kind : Kinds \cup {"none"}, at : Places, n : 0..MaxRequests, cookie : Sids \cup {none}, shown : BOOLEAN,
     form : Forms \cup {none}, claim : Users \cup AppPasswords \cup {none},
     sid : Sids \cup {none}, data : Records \cup {Empty}, modified : BOOLEAN,
     csrf : CsrfTokens \cup {none}, as : Users \cup {none}, spent : BOOLEAN, absent : SUBSET Users]

Known(s) == store[s] # none \/ s \in ended
Home(q) == IF q.sid = none THEN q.n ELSE q.sid

\* What a request says of itself.
Shaped(q) ==
    /\ q \in Requests
    /\ q.at = "idle" => q = Idle
    /\ q.at # "idle" => q.n \in 1..sent
    /\ q.at = "sent" => q.sid = none /\ q.data = Empty /\ ~q.modified /\ q.as = none
    /\ q.kind \in {"login", "call", "mint"} => q.claim \in Users \cup {none}
    /\ q.kind = "dav" => q.claim \in AppPasswords
    /\ q.kind = "submit" => q.form \in Forms
    /\ q.kind = "login" /\ q.at \in {"handle", "verified"} => q.data \in Records
    /\ q.kind = "page" /\ q.at \notin {"idle", "sent"} => q.data \in Records
    /\ q.kind = "login" /\ q.at = "verified" => q.claim \in Users

\* Until a request has stored, its number is no session's.
Unused(q) ==
    /\ q.at \notin {"idle", "answer"} => ~Known(q.n)
    /\ q.modified /\ q.at # "answer" => q.sid = none

\* What it loaded is what the store holds, or the session has ended.
Copy(q) == q.sid # none => q.data # Empty /\ (q.sid \in ended \/ store[q.sid] = q.data)

\* The token of a session is the number of the request that the first session
\* of its line came from.  A session that the browser sends was stored, so a
\* refusal with none loaded is of one that has ended.
Rooted(q) ==
    /\ q.data # Empty => q.data.token = root[Home(q)]
    /\ q.at = "sent" => root[q.n] = q.n
    /\ q.form # none /\ q.form.sid # none =>
          Known(q.form.sid) /\ q.form.token = root[q.form.sid]
    /\ q.cookie # none => Known(q.cookie)
    /\ q.at = "rejected" =>
          /\ q.kind = "submit" /\ q.data.token # q.form.token
          /\ q.cookie = none \/ q.cookie \in ended \/ q.sid = q.cookie

\* Whom it was let in as.
Granted(q) ==
    /\ q.absent \cap users = {}
    /\ q.as # none => q.as \notin q.absent
    /\ q.as # none /\ q.spent => q.kind = "call" /\ q.as = q.claim
    /\ q.spent /\ q.kind # "dav" => q.cookie \in ended
    /\ q.spent /\ q.kind = "dav" => q.at # "verified" /\ devices[q.claim] = "revoked"
    /\ q.spent /\ q.at = "handle" => q.data.user = none

Good(q) == Shaped(q) /\ Unused(q) /\ Copy(q) /\ Rooted(q) /\ Granted(q)

Distinct ==
    \A c, d \in Slots : c # d /\ req[c].at # "idle" /\ req[d].at # "idle" => req[c].n # req[d].n

\* The state beside the requests.
Typed ==
    /\ users \subseteq Users /\ tokens \subseteq Users
    /\ store \in [Sids -> Records \cup {none}]
    /\ browser.sid \in Sids \cup {none} /\ browser.csrf \in CsrfTokens \cup {none}
    /\ browser.forms \subseteq Forms
    /\ devices \in [AppPasswords -> {"absent", "active", "revoked"}]
    /\ sent \in 0..MaxRequests /\ ended \subseteq Sids /\ root \in [Sids -> Sids]

Lines ==
    /\ \A s \in Sids :
          /\ s \in ended => store[s] = none
          /\ store[s] # none => store[s].token = root[s]
          /\ s > sent => ~Known(s) /\ root[s] = s
    /\ browser.sid # none => Known(browser.sid)
    /\ \A f \in browser.forms :
          f.sid # none => Known(f.sid) /\ f.token = root[f.sid]

Inv ==
    /\ Typed /\ Lines /\ Distinct
    /\ req \in [Slots -> Requests] /\ \A c \in Slots : Good(req[c])

\* The invariant holds before the first request.
THEOREM Initially == Init => Inv
  <1> SUFFICES ASSUME Init PROVE Inv
    OBVIOUS
  <1> USE HoldersKnown
  <1>1. Typed
    BY DEF Init, Typed, Sids, Numbers, CsrfTokens, Records, Forms
  <1>2. Lines
    BY DEF Init, Lines, Known, Sids, Numbers
  <1>3. Idle \in Requests
    BY DEF Idle, Requests, Kinds, Places
  <1>4. Good(Idle)
    <2>1. Shaped(Idle)
      BY <1>3 DEF Shaped, Idle
    <2>2. Unused(Idle) /\ Copy(Idle)
      BY DEF Unused, Copy, Idle
    <2>3. Rooted(Idle)
      BY DEF Rooted, Idle
    <2>4. Granted(Idle)
      BY DEF Granted, Idle
    <2> QED BY <2>1, <2>2, <2>3, <2>4 DEF Good
  <1>5. req = [c \in Slots |-> Idle]
    BY DEF Init
  <1>6. Distinct
    <2>1. Idle.at = "idle"
      BY DEF Idle
    <2> QED BY <1>5, <2>1 DEF Distinct
  <1> QED BY <1>1, <1>2, <1>3, <1>4, <1>5, <1>6 DEF Inv

(***************************************************************************)
(* What a step leaves of the requests it is not about.                     *)
(***************************************************************************)
Steady(c) ==
    /\ users' \subseteq users /\ sent' >= sent /\ sent' \in Nat /\ ended \subseteq ended'
    /\ \A s \in Sids : Known(s) =>
          /\ Known(s)' /\ root'[s] = root[s]
          /\ (store'[s] = store[s] \/ s \in ended')
    /\ \A p \in AppPasswords : devices[p] = "revoked" => devices'[p] = "revoked"
    /\ \A d \in Slots \ {c} :
          /\ req'[d] = req[d]
          /\ req[d].at # "idle" => root'[req[d].n] = root[req[d].n]
          /\ req[d].at \notin {"idle", "answer"} => ~Known(req[d].n)'

LEMMA Fields ==
    ASSUME NEW q \in Requests
    PROVE  /\ q.kind \in Kinds \cup {"none"} /\ q.n \in 0..MaxRequests
           /\ q.at \in Places
           /\ q.cookie \in Sids \cup {none} /\ q.form \in Forms \cup {none}
           /\ q.claim \in Users \cup AppPasswords \cup {none}
           /\ q.sid \in Sids \cup {none} /\ q.data \in Records \cup {Empty}
           /\ q.modified \in BOOLEAN /\ q.as \in Users \cup {none} /\ q.spent \in BOOLEAN
           /\ q.absent \subseteq Users /\ q.shown \in BOOLEAN /\ q.csrf \in CsrfTokens \cup {none}
  BY DEF Requests

LEMMA Nones ==
    /\ none \notin Sids /\ none \notin Records /\ none \notin Forms /\ none # Empty /\ Empty \notin Records
    /\ none \notin Users /\ Sids = 1..MaxRequests /\ MaxRequests \in Nat
    /\ \A x \in Records : x.user \in Users \cup {none} /\ x.token \in Sids
    /\ \A f \in Forms : f.token \in Sids /\ f.sid \in Sids \cup {none}
    /\ Empty.user = none /\ Empty.token = none
  BY HoldersKnown DEF Sids, Numbers, Records, Forms, Empty, CsrfTokens

\* A request has a session that the store knows, or none.
LEMMA LoadedKnown ==
    ASSUME NEW q \in Requests, Good(q), q.sid # none, q.data # Empty
    PROVE  Known(q.sid)
  BY Fields, Nones DEF Good, Copy, Known

LEMMA OthersGood ==
    ASSUME Inv, NEW c \in Slots, NEW d \in Slots \ {c}, Steady(c)
    PROVE  Good(req[d])'
  <1> DEFINE q == req[d]
  <1>1. q \in Requests /\ Good(q) /\ req'[d] = q
    BY DEF Inv, Steady
  <1> USE Fields, Nones
  <1>2. Shaped(req[d])'
    BY <1>1 DEF Good, Shaped, Steady, Inv, Typed
  <1>3. Unused(req[d])'
    BY <1>1 DEF Good, Unused, Steady
  <1>4. Copy(req[d])'
    <2>1. CASE q.sid = none
      BY <1>1, <2>1 DEF Copy
    <2>2. CASE q.sid # none
      <3>1. q.sid \in Sids /\ q.data # Empty /\ (q.sid \in ended \/ store[q.sid] = q.data)
        BY <1>1, <2>2 DEF Good, Copy
      <3>2. Known(q.sid)
        BY <1>1, <2>2, <3>1, LoadedKnown
      <3>3. q.sid \in ended' \/ store'[q.sid] = q.data
        BY <3>1, <3>2 DEF Steady
      <3> QED BY <1>1, <3>1, <3>3 DEF Copy
    <2> QED BY <2>1, <2>2
  <1>5. Rooted(req[d])'
    <2>1. q.data # Empty => q.data.token = root'[Home(q)]
      <3> SUFFICES ASSUME q.data # Empty PROVE q.data.token = root'[Home(q)]
        OBVIOUS
      <3>1. q.data.token = root[Home(q)]
        BY <1>1 DEF Good, Rooted
      <3>2. CASE q.sid = none
        <4>1. q.at # "idle"
          BY <1>1 DEF Good, Shaped, Idle
        <4> QED BY <1>1, <3>1, <3>2, <4>1 DEF Home, Steady
      <3>3. CASE q.sid # none
        <4>1. Known(q.sid) /\ q.sid \in Sids
          BY <1>1, <3>3, LoadedKnown
        <4> QED BY <3>1, <3>3, <4>1 DEF Home, Steady
      <3> QED BY <3>2, <3>3
    <2>2. q.at = "sent" => root'[q.n] = q.n
      BY <1>1 DEF Good, Rooted, Steady
    <2>3. q.form # none /\ q.form.sid # none => Known(q.form.sid)' /\ q.form.token = root'[q.form.sid]
      BY <1>1 DEF Good, Rooted, Steady
    <2>4. q.at = "rejected" =>
             /\ q.kind = "submit" /\ q.data.token # q.form.token
             /\ q.cookie = none \/ q.cookie \in ended' \/ q.sid = q.cookie
      BY <1>1 DEF Good, Rooted, Steady
    <2>6. q.cookie # none => Known(q.cookie)'
      BY <1>1 DEF Good, Rooted, Steady
    <2>5. Home(req[d])' = Home(q)
      BY <1>1 DEF Home
    <2> QED BY <1>1, <2>1, <2>2, <2>3, <2>4, <2>5, <2>6 DEF Rooted, Known
  <1>6. Granted(req[d])'
    <2>1. q.kind = "dav" => q.claim \in AppPasswords
      BY <1>1 DEF Good, Shaped
    <2> QED BY <1>1, <2>1 DEF Good, Granted, Steady
  <1> QED BY <1>2, <1>3, <1>4, <1>5, <1>6 DEF Good

(***************************************************************************)
(* Steps that change only their own request, or the users or app passwords *)
(* in the way those may change.                                            *)
(***************************************************************************)
LEMMA Calm ==
    ASSUME Inv, NEW c \in Slots, NEW q, req' = [req EXCEPT ![c] = q],
           UNCHANGED <<store, ended, root, sent>>, users' \subseteq users,
           \A p \in AppPasswords : devices[p] = "revoked" => devices'[p] = "revoked"
    PROVE  Steady(c)
  <1>1. \A d \in Slots \ {c} : req'[d] = req[d]
    BY DEF Inv
  <1>2. \A d \in Slots \ {c} :
           req[d].at \notin {"idle", "answer"} => ~Known(req[d].n)'
    <2> SUFFICES ASSUME NEW d \in Slots \ {c}, req[d].at \notin {"idle", "answer"}
                 PROVE  ~Known(req[d].n)'
      OBVIOUS
    <2>1. ~Known(req[d].n)
      BY DEF Inv, Good, Unused
    <2> QED BY <1>1, <2>1 DEF Known
  <1>3. sent' \in Nat /\ sent' >= sent
    BY Nones DEF Inv, Typed
  <1> QED BY <1>1, <1>2, <1>3 DEF Steady, Known

LEMMA Plain ==
    ASSUME Inv, NEW c \in Slots, NEW q, Good(q), req' = [req EXCEPT ![c] = q],
           q.at = "idle" \/ (req[c].at # "idle" /\ q.n = req[c].n),
           tokens' \subseteq Users,
           UNCHANGED <<users, store, browser, devices, sent, ended, root>>
    PROVE  Inv'
  <1>1. Steady(c)
    BY Calm
  <1>2. \A d \in Slots \ {c} : Good(req[d])' /\ req'[d] = req[d]
    BY <1>1, OthersGood DEF Steady
  <1>3. req'[c] = q
    BY DEF Inv
  <1>4. Good(req[c])'
    BY <1>3 DEF Good, Shaped, Unused, Copy, Rooted, Granted, Home, Known
  <1>5. req' \in [Slots -> Requests]
    BY DEF Inv, Good, Shaped
  <1>6. Distinct'
    BY <1>2, <1>3 DEF Inv, Distinct
  <1>7. Typed' /\ Lines'
    BY DEF Inv, Typed, Lines, Known
  <1> QED BY <1>2, <1>4, <1>5, <1>6, <1>7 DEF Inv

(***************************************************************************)
(* The fields that a handler sets, and those no handler sets.              *)
(***************************************************************************)
Kept(e, q) ==
    /\ e.kind = q.kind /\ e.n = q.n /\ e.cookie = q.cookie /\ e.form = q.form
    /\ e.claim = q.claim /\ e.spent = q.spent /\ e.absent = q.absent

LEMMA SetAt ==
    ASSUME NEW q \in Requests, NEW x \in Places, NEW e, e = [q EXCEPT !.at = x]
    PROVE  /\ e \in Requests /\ Kept(e, q) /\ e.at = x
           /\ e.sid = q.sid /\ e.data = q.data /\ e.modified = q.modified /\ e.as = q.as
  BY DEF Requests, Kept, Places

LEMMA SetSid ==
    ASSUME NEW q \in Requests, NEW x \in Sids \cup {none}, NEW e, e = [q EXCEPT !.sid = x]
    PROVE  /\ e \in Requests /\ Kept(e, q) /\ e.sid = x
           /\ e.at = q.at /\ e.data = q.data /\ e.modified = q.modified /\ e.as = q.as
  BY DEF Requests, Kept, Places

LEMMA SetData ==
    ASSUME NEW q \in Requests, NEW x \in Records \cup {Empty}, NEW e, e = [q EXCEPT !.data = x]
    PROVE  /\ e \in Requests /\ Kept(e, q) /\ e.data = x
           /\ e.at = q.at /\ e.sid = q.sid /\ e.modified = q.modified /\ e.as = q.as
  BY DEF Requests, Kept, Places

LEMMA SetModified ==
    ASSUME NEW q \in Requests, NEW x \in BOOLEAN, NEW e, e = [q EXCEPT !.modified = x]
    PROVE  /\ e \in Requests /\ Kept(e, q) /\ e.modified = x
           /\ e.at = q.at /\ e.sid = q.sid /\ e.data = q.data /\ e.as = q.as
  BY DEF Requests, Kept, Places

LEMMA SetCsrf ==
    ASSUME NEW q \in Requests, NEW x \in CsrfTokens \cup {none}, NEW e, e = [q EXCEPT !.csrf = x]
    PROVE  /\ e \in Requests /\ Kept(e, q) /\ e.csrf = x /\ e.as = q.as
           /\ e.at = q.at /\ e.sid = q.sid /\ e.data = q.data /\ e.modified = q.modified
  BY DEF Requests, Kept, Places

LEMMA SetAs ==
    ASSUME NEW q \in Requests, NEW x \in Users \cup {none}, NEW e, e = [q EXCEPT !.as = x]
    PROVE  /\ e \in Requests /\ Kept(e, q) /\ e.as = x
           /\ e.at = q.at /\ e.sid = q.sid /\ e.data = q.data /\ e.modified = q.modified
  BY DEF Requests, Kept, Places

(***************************************************************************)
(* The handlers.                                                           *)
(***************************************************************************)
LEMMA Resting == Good(Idle) /\ Idle.at = "idle"
  <1>1. Idle \in Requests
    BY HoldersKnown DEF Idle, Requests, Kinds, Places
  <1>2. Shaped(Idle)
    BY <1>1 DEF Shaped, Idle
  <1>3. Unused(Idle) /\ Copy(Idle) /\ Rooted(Idle) /\ Granted(Idle)
    BY DEF Unused, Copy, Rooted, Granted, Idle
  <1>4. Idle.at = "idle"
    BY DEF Idle
  <1> QED BY <1>2, <1>3, <1>4 DEF Good

LEMMA Drops ==
    ASSUME Inv, NEW c \in Slots, Drop(c)
    PROVE  Inv'
  <1>1. req' = [req EXCEPT ![c] = Idle] /\ UNCHANGED <<users, store, browser, devices, sent, ended, root>>
    BY DEF Drop, Go
  <1>2. tokens' \subseteq Users
    BY DEF Drop, Inv, Typed
  <1> QED BY <1>1, <1>2, Resting, Plain

LEMMA AuthSessions ==
    ASSUME Inv, NEW c \in Slots, AuthSession(c)
    PROVE  Inv'
  <1> DEFINE q == req[c]
             e1 == [q EXCEPT !.at = "end"]
             e == [e1 EXCEPT !.as = Who(q)]
  <1>1. q \in Requests /\ Good(q) /\ q.at = "handle" /\ q.kind \in {"page", "submit"}
    BY DEF Inv, AuthSession
  <1>2. users \subseteq Users
    BY DEF Inv, Typed
  <1>3. Who(q) \in users \cup {none} /\ Who(q) \in Users \cup {none}
    BY <1>2 DEF Who
  <1>4. req' = [req EXCEPT ![c] = e]
    BY DEF AuthSession, Go
  <1>5. e = [e1 EXCEPT !.as = Who(q)] /\ e1 = [q EXCEPT !.at = "end"]
    OBVIOUS
  <1> HIDE DEF e, e1
  <1>6. e1 \in Requests /\ Kept(e1, q) /\ e1.at = "end" /\ e1.sid = q.sid
        /\ e1.data = q.data /\ e1.modified = q.modified
    BY <1>1, <1>5, SetAt DEF Places
  <1>7. e \in Requests /\ Kept(e, q) /\ e.at = "end" /\ e.sid = q.sid
        /\ e.data = q.data /\ e.modified = q.modified /\ e.as = Who(q)
    <2>1. e \in Requests /\ Kept(e, e1) /\ e.as = Who(q) /\ e.at = e1.at /\ e.sid = e1.sid
          /\ e.data = e1.data /\ e.modified = e1.modified
      <3>1. Who(q) \in Users \cup {none} /\ e1 \in Requests
        BY <1>3, <1>6
      <3>2. e = [e1 EXCEPT !.as = Who(q)]
        BY <1>5
      <3> QED BY <3>1, <3>2, SetAs
    <2> QED BY <1>6, <2>1 DEF Kept
  <1>8. Shaped(e) /\ Unused(e) /\ Copy(e)
    BY <1>1, <1>7 DEF Good, Shaped, Unused, Copy, Kept
  <1>9. Rooted(e)
    BY <1>1, <1>7 DEF Good, Rooted, Home, Kept
  <1>10. Granted(e)
    <2>1. e.as # none => e.as \in users
      BY <1>3, <1>7
    <2>2. q.spent => Who(q) = none
      BY <1>1, <1>2, Nones DEF Good, Granted, Who
    <2> QED BY <1>1, <1>7, <2>1, <2>2 DEF Good, Granted, Kept
  <1>11. tokens' \subseteq Users /\ UNCHANGED <<users, store, browser, devices, sent, ended, root>>
    BY DEF AuthSession, Inv, Typed
  <1> QED BY <1>1, <1>4, <1>7, <1>8, <1>9, <1>10, <1>11, Plain DEF Good, Kept

LEMMA VerifiesPassword ==
    ASSUME Inv, NEW c \in Slots, verify_password(c)
    PROVE  Inv'
  <1> DEFINE q == req[c]
             x == IF q.claim \in users THEN "verified" ELSE "end"
             e == [q EXCEPT !.at = x]
  <1>1. q \in Requests /\ Good(q) /\ q.at = "handle" /\ q.kind = "login"
    BY DEF Inv, verify_password
  <1>2. req' = [req EXCEPT ![c] = e]
    BY DEF verify_password, Go
  <1>3. x \in {"verified", "end"} /\ e = [q EXCEPT !.at = x]
        /\ (x = "verified" => q.claim \in Users)
    BY DEF Inv, Typed
  <1> HIDE DEF e, x
  <1>4. x \in Places
    BY <1>3 DEF Places
  <1>5. /\ e \in Requests /\ Kept(e, q) /\ e.at = x
        /\ e.sid = q.sid /\ e.data = q.data /\ e.modified = q.modified /\ e.as = q.as
    BY <1>1, <1>3, <1>4, SetAt
  <1>6. Shaped(e) /\ Unused(e) /\ Copy(e)
    BY <1>1, <1>3, <1>5 DEF Good, Shaped, Unused, Copy, Kept
  <1>7. Rooted(e) /\ Granted(e)
    BY <1>1, <1>3, <1>5 DEF Good, Rooted, Granted, Home, Kept
  <1>8. tokens' \subseteq Users /\ UNCHANGED <<users, store, browser, devices, sent, ended, root>>
    BY DEF verify_password, Inv, Typed
  <1> QED BY <1>1, <1>2, <1>5, <1>6, <1>7, <1>8, Plain DEF Good, Kept

LEMMA Fails ==
    ASSUME Inv, NEW c \in Slots, Fail(c)
    PROVE  Inv'
  <1> DEFINE q == req[c]
             e1 == [q EXCEPT !.at = "end"]
             e == [e1 EXCEPT !.modified = FALSE]
  <1>1. q \in Requests /\ Good(q) /\ q.at \in {"handle", "end"}
    BY DEF Inv, Fail
  <1>2. req' = [req EXCEPT ![c] = e]
    BY DEF Fail, Go
  <1>3. e = [e1 EXCEPT !.modified = FALSE] /\ e1 = [q EXCEPT !.at = "end"]
    OBVIOUS
  <1> HIDE DEF e, e1
  <1>4. /\ e1 \in Requests /\ Kept(e1, q) /\ e1.at = "end"
        /\ e1.sid = q.sid /\ e1.data = q.data /\ e1.as = q.as
    BY <1>1, <1>3, SetAt DEF Places
  <1>5. /\ e \in Requests /\ Kept(e, e1) /\ e.at = e1.at /\ e.modified = FALSE
        /\ e.sid = e1.sid /\ e.data = e1.data /\ e.as = e1.as
    <2>1. e1 \in Requests /\ FALSE \in BOOLEAN /\ e = [e1 EXCEPT !.modified = FALSE]
      BY <1>3, <1>4
    <2> QED BY <2>1, SetModified, Zenon
  <1>6. Shaped(e) /\ Unused(e) /\ Copy(e)
    BY <1>1, <1>4, <1>5 DEF Good, Shaped, Unused, Copy, Kept
  <1>7. Rooted(e)
    BY <1>1, <1>4, <1>5 DEF Good, Rooted, Home, Kept
  <1>9. Granted(e)
    BY <1>1, <1>4, <1>5 DEF Good, Granted, Kept
  <1>8. tokens' \subseteq Users /\ UNCHANGED <<users, store, browser, devices, sent, ended, root>>
    BY DEF Fail, Inv, Typed
  <1> QED BY <1>1, <1>2, <1>4, <1>5, <1>6, <1>7, <1>8, <1>9, Plain DEF Good, Kept

LEMMA Authenticates ==
    ASSUME Inv, NEW c \in Slots, authenticate(c)
    PROVE  Inv'
  <1> DEFINE q == req[c]
             e == [q EXCEPT !.at = "verified"]
  <1>1. q \in Requests /\ Good(q) /\ q.at = "sent" /\ q.kind = "dav"
    BY DEF Inv, authenticate
  <1>2. tokens' \subseteq Users /\ UNCHANGED <<users, store, browser, devices, sent, ended, root>>
    BY DEF authenticate, Inv, Typed
  <1>3. CASE req' = [req EXCEPT ![c] = Idle]
    BY <1>2, <1>3, Resting, Plain
  <1>4. CASE req' = [req EXCEPT ![c] = e] /\ devices[q.claim] = "active"
    <2>1. e = [q EXCEPT !.at = "verified"] /\ "verified" \in Places
      BY DEF Places
    <2> HIDE DEF e
    <2>2. /\ e \in Requests /\ Kept(e, q) /\ e.at = "verified"
          /\ e.sid = q.sid /\ e.data = q.data /\ e.modified = q.modified /\ e.as = q.as
      BY <1>1, <2>1, SetAt
    <2>3. Shaped(e) /\ Unused(e) /\ Copy(e)
      BY <1>1, <2>2 DEF Good, Shaped, Unused, Copy, Kept
    <2>4. Rooted(e) /\ Granted(e)
      BY <1>1, <1>4, <2>2 DEF Good, Rooted, Granted, Home, Kept
    <2> QED BY <1>1, <1>2, <1>4, <2>2, <2>3, <2>4, Plain DEF Good, Kept
  <1> QED BY <1>3, <1>4 DEF authenticate, Go, find_candidates_by_prefix

LEMMA Davs ==
    ASSUME Inv, NEW c \in Slots, dav(c)
    PROVE  Inv'
  <1> DEFINE q == req[c]
             x == IF holder[q.claim] \in users THEN holder[q.claim] ELSE none
             e1 == [q EXCEPT !.at = "end"]
             e == [e1 EXCEPT !.as = x]
  <1>1. q \in Requests /\ Good(q) /\ q.at = "verified" /\ q.kind = "dav"
    BY DEF Inv, dav
  <1>2. req' = [req EXCEPT ![c] = e]
    BY DEF dav, Go
  <1>3. x \in users \cup {none} /\ x \in Users \cup {none}
    BY DEF Inv, Typed
  <1>4. e = [e1 EXCEPT !.as = x] /\ e1 = [q EXCEPT !.at = "end"] /\ "end" \in Places
    BY DEF Places
  <1> HIDE DEF e, e1, x
  <1>5. /\ e1 \in Requests /\ Kept(e1, q) /\ e1.at = "end"
        /\ e1.sid = q.sid /\ e1.data = q.data /\ e1.modified = q.modified
    BY <1>1, <1>4, SetAt
  <1>6. /\ e \in Requests /\ Kept(e, e1) /\ e.at = e1.at /\ e.modified = e1.modified
        /\ e.sid = e1.sid /\ e.data = e1.data /\ e.as = x
    <2>1. x \in Users \cup {none} /\ e1 \in Requests
      BY <1>3, <1>5
    <2>2. e = [e1 EXCEPT !.as = x]
      BY <1>4
    <2> QED BY <2>1, <2>2, SetAs
  <1>7. Shaped(e) /\ Unused(e) /\ Copy(e)
    BY <1>1, <1>5, <1>6 DEF Good, Shaped, Unused, Copy, Kept
  <1>8. Rooted(e)
    BY <1>1, <1>5, <1>6 DEF Good, Rooted, Home, Kept
  <1>9. Granted(e)
    BY <1>1, <1>3, <1>5, <1>6 DEF Good, Granted, Kept
  <1>10. tokens' \subseteq Users /\ UNCHANGED <<users, store, browser, devices, sent, ended, root>>
    BY DEF dav, Inv, Typed
  <1> QED BY <1>1, <1>2, <1>5, <1>6, <1>7, <1>8, <1>9, <1>10, Plain DEF Good, Kept

\* What a request finds when it loads its session.
LEMMA Loads ==
    ASSUME Inv, NEW c \in Slots, req[c].at = "sent", NEW l, l = Loaded(c)
    PROVE  /\ l \in Requests /\ Kept(l, req[c]) /\ l.at = "sent"
           /\ ~l.modified /\ l.as = none
           /\ \/ /\ l.sid = none /\ l.data = Empty
                 /\ req[c].cookie = none \/ req[c].cookie \in ended
              \/ /\ l.sid \in Sids /\ l.data \in Records /\ l.sid = req[c].cookie
                 /\ store[l.sid] = l.data /\ l.data.token = root[l.sid] /\ l.sid \notin ended
  <1> DEFINE q == req[c]
             e1 == [q EXCEPT !.sid = q.cookie]
             e == [e1 EXCEPT !.data = store[q.cookie]]
  <1>1. /\ q \in Requests /\ Good(q) /\ q.cookie \in Sids \cup {none}
        /\ q.sid = none /\ q.data = Empty /\ ~q.modified /\ q.as = none
    BY Fields DEF Inv, Good, Shaped
  <1>2. CASE q.cookie = none \/ store[q.cookie] = none
    <2>1. l = q
      BY <1>2 DEF Loaded
    <2>2. q.cookie = none \/ q.cookie \in ended
      BY <1>1, <1>2 DEF Good, Rooted, Known
    <2> QED BY <1>1, <2>1, <2>2 DEF Kept
  <1>3. CASE ~(q.cookie = none \/ store[q.cookie] = none)
    <2>1. l = e /\ e = [e1 EXCEPT !.data = store[q.cookie]] /\ e1 = [q EXCEPT !.sid = q.cookie]
      BY <1>3 DEF Loaded
    <2>2. q.cookie \in Sids /\ store[q.cookie] \in Records
      BY <1>1, <1>3 DEF Inv, Typed
    <2> HIDE DEF e, e1
    <2>3. e1 \in Requests /\ Kept(e1, q) /\ e1.sid = q.cookie /\ e1.at = q.at
          /\ e1.modified = q.modified /\ e1.as = q.as
      BY <1>1, <2>1, SetSid
    <2>4. e \in Requests /\ Kept(e, e1) /\ e.sid = e1.sid /\ e.at = e1.at
          /\ e.modified = e1.modified /\ e.as = e1.as /\ e.data = store[q.cookie]
      <3>1. store[q.cookie] \in Records \cup {Empty} /\ e1 \in Requests
        BY <2>2, <2>3
      <3>2. e = [e1 EXCEPT !.data = store[q.cookie]]
        BY <2>1
      <3> QED BY <3>1, <3>2, SetData
    <2>5. store[q.cookie].token = root[q.cookie] /\ q.cookie \notin ended
      BY <1>3, <2>2 DEF Inv, Lines
    <2> QED BY <1>1, <2>1, <2>2, <2>3, <2>4, <2>5 DEF Kept
  <1> QED BY <1>2, <1>3

LEMMA Bearers ==
    ASSUME Inv, NEW c \in Slots, BearerOrSession(c)
    PROVE  Inv'
  <1> DEFINE q == req[c]
             l == Loaded(c)
             x == IF Who(l) # none THEN Who(l) ELSE IF l.claim \in users THEN l.claim ELSE none
             e1 == [l EXCEPT !.at = "end"]
             e == [e1 EXCEPT !.as = x]
  <1>1. q \in Requests /\ Good(q) /\ q.at = "sent" /\ q.kind = "call"
    BY DEF Inv, BearerOrSession
  <1>2. req' = [req EXCEPT ![c] = e]
    BY DEF BearerOrSession, Go
  <1>3. users \subseteq Users
    BY DEF Inv, Typed
  <1>4. x \in users \cup {none} /\ x \in Users \cup {none}
    BY <1>3 DEF Who
  <1>5. l.data.user \notin users => x = none \/ x = l.claim
    BY <1>3, Nones DEF Who
  <1>6. e = [e1 EXCEPT !.as = x] /\ e1 = [l EXCEPT !.at = "end"] /\ l = Loaded(c)
    OBVIOUS
  <1> HIDE DEF e, e1, x, l
  <1>7. /\ l \in Requests /\ Kept(l, q) /\ ~l.modified
        /\ \/ l.sid = none /\ l.data = Empty
           \/ /\ l.sid \in Sids /\ l.data \in Records /\ l.sid = q.cookie
              /\ store[l.sid] = l.data /\ l.data.token = root[l.sid] /\ l.sid \notin ended
    BY <1>1, <1>6, Loads
  <1>8. /\ e1 \in Requests /\ Kept(e1, l) /\ e1.at = "end"
        /\ e1.sid = l.sid /\ e1.data = l.data /\ e1.modified = l.modified
    BY <1>6, <1>7, SetAt DEF Places
  <1>9. /\ e \in Requests /\ Kept(e, e1) /\ e.at = e1.at /\ e.modified = e1.modified
        /\ e.sid = e1.sid /\ e.data = e1.data /\ e.as = x
    <2>1. x \in Users \cup {none} /\ e1 \in Requests
      BY <1>4, <1>8
    <2>2. e = [e1 EXCEPT !.as = x]
      BY <1>6
    <2> QED BY <2>1, <2>2, SetAs
  <1>10. Kept(e, q) /\ e.sid = l.sid /\ e.data = l.data /\ ~e.modified /\ e.at = "end"
    BY <1>7, <1>8, <1>9 DEF Kept
  <1>11. Shaped(e) /\ Unused(e)
    BY <1>1, <1>9, <1>10 DEF Good, Shaped, Unused, Kept
  <1>12. Copy(e)
    BY <1>7, <1>10, Nones DEF Copy
  <1>13. Rooted(e)
    BY <1>1, <1>7, <1>10, Nones DEF Good, Rooted, Home, Kept
  <1>14. Granted(e)
    <2>1. e.as # none => e.as \in users
      BY <1>4, <1>9
    <2>2. q.spent => l.data = Empty
      BY <1>1, <1>7 DEF Good, Granted
    <2>3. q.spent /\ x # none => x = l.claim
      BY <1>3, <1>5, <2>2, Nones
    <2>4. l.claim = q.claim
      BY <1>7 DEF Kept
    <2> QED BY <1>1, <1>9, <1>10, <2>1, <2>3, <2>4 DEF Good, Granted, Kept
  <1>15. tokens' \subseteq Users /\ UNCHANGED <<users, store, browser, devices, sent, ended, root>>
    BY DEF BearerOrSession, Inv, Typed
  <1>16. e.n = q.n /\ Good(e)
    BY <1>10, <1>11, <1>12, <1>13, <1>14 DEF Good, Kept
  <1> QED BY <1>1, <1>2, <1>15, <1>16, Plain

LEMMA Mints ==
    ASSUME Inv, NEW c \in Slots, mint_token(c)
    PROVE  Inv'
  <1> DEFINE q == req[c]
             l == Loaded(c)
             subject == IF l.data.user # none THEN l.data.user
                        ELSE IF l.claim \in users THEN l.claim ELSE none
             e == [l EXCEPT !.at = "end"]
  <1>1. q \in Requests /\ Good(q) /\ q.at = "sent" /\ q.kind = "mint"
    BY DEF Inv, mint_token
  <1>2. req' = [req EXCEPT ![c] = e] /\ tokens' = tokens \cup ({subject} \ {none})
    BY DEF mint_token, Go
  <1>3. e = [l EXCEPT !.at = "end"] /\ l = Loaded(c)
    OBVIOUS
  <1> HIDE DEF e, l
  <1>4. /\ l \in Requests /\ Kept(l, q) /\ ~l.modified /\ l.as = none
        /\ \/ l.sid = none /\ l.data = Empty
           \/ /\ l.sid \in Sids /\ l.data \in Records /\ l.sid = q.cookie
              /\ store[l.sid] = l.data /\ l.data.token = root[l.sid] /\ l.sid \notin ended
    BY <1>1, <1>3, Loads
  <1>5. l.data.user \in Users \cup {none}
    BY <1>4, Nones
  <1>6. tokens' \subseteq Users
    BY <1>2, <1>5 DEF Inv, Typed
  <1> HIDE DEF subject
  <1>7. /\ e \in Requests /\ Kept(e, l) /\ e.at = "end" /\ e.as = l.as
        /\ e.sid = l.sid /\ e.data = l.data /\ e.modified = l.modified
    BY <1>3, <1>4, SetAt DEF Places
  <1>8. Kept(e, q)
    BY <1>4, <1>7 DEF Kept
  <1>9. Shaped(e) /\ Unused(e)
    BY <1>1, <1>4, <1>7, <1>8 DEF Good, Shaped, Unused, Kept
  <1>10. Copy(e)
    BY <1>4, <1>7, Nones DEF Copy
  <1>11. Rooted(e)
    BY <1>1, <1>4, <1>7, <1>8, Nones DEF Good, Rooted, Home, Kept
  <1>12. Granted(e)
    BY <1>1, <1>4, <1>7, <1>8 DEF Good, Granted, Kept
  <1>13. UNCHANGED <<users, store, browser, devices, sent, ended, root>>
    BY DEF mint_token
  <1>14. e.n = q.n /\ Good(e)
    BY <1>8, <1>9, <1>10, <1>11, <1>12 DEF Good, Kept
  <1> QED BY <1>1, <1>2, <1>6, <1>13, <1>14, Plain

LEMMA EnsuresToken ==
    ASSUME NEW l \in Requests, l.data \in Records \cup {Empty}, l.n \in Sids,
           NEW e, e = ensure_token(l)
    PROVE  /\ e \in Requests /\ Kept(e, l) /\ e.at = l.at /\ e.sid = l.sid /\ e.as = l.as
           /\ e.data \in Records /\ e.data.user = l.data.user
           /\ \/ l.data = Empty /\ e.modified /\ e.data.token = l.n
              \/ l.data # Empty /\ e.modified = l.modified /\ e.data = l.data
  <1>1. CASE l.data # Empty
    <2>1. l.data.token # none
      BY <1>1, Nones
    <2>2. e = l
      BY <2>1 DEF ensure_token
    <2> QED BY <1>1, <2>2, Fields DEF Kept
  <1>2. CASE l.data = Empty
    <2> DEFINE t == [l.data EXCEPT !.token = l.n]
               e1 == [l EXCEPT !.data = t]
               e2 == [e1 EXCEPT !.modified = TRUE]
    <2>1. t \in Records /\ t.user = none /\ t.token = l.n
      BY <1>2 DEF Empty, Records, Sids, CsrfTokens
    <2>2. e = e2
      BY <1>2, Nones DEF ensure_token
    <2>3. e1 = [l EXCEPT !.data = t] /\ e2 = [e1 EXCEPT !.modified = TRUE]
      OBVIOUS
    <2> HIDE DEF e1, e2, t
    <2>4. /\ e1 \in Requests /\ Kept(e1, l) /\ e1.at = l.at /\ e1.sid = l.sid
          /\ e1.as = l.as /\ e1.data = t
      BY <2>1, <2>3, SetData
    <2>5. /\ e2 \in Requests /\ Kept(e2, e1) /\ e2.at = e1.at /\ e2.sid = e1.sid
          /\ e2.as = e1.as /\ e2.data = e1.data /\ e2.modified = TRUE
      <3>1. e1 \in Requests /\ TRUE \in BOOLEAN /\ e2 = [e1 EXCEPT !.modified = TRUE]
        BY <2>3, <2>4
      <3> QED BY <3>1, SetModified, Zenon
    <2> QED BY <1>2, <2>1, <2>2, <2>4, <2>5, Nones DEF Kept
  <1> QED BY <1>1, <1>2

LEMMA Middleware ==
    ASSUME Inv, NEW c \in Slots, csrf_middleware(c)
    PROVE  Inv'
  <1> DEFINE q == req[c]
             l == Loaded(c)
  <1>1. q \in Requests /\ Good(q) /\ q.at = "sent" /\ q.kind \in {"page", "login", "logout", "submit"}
    BY DEF Inv, csrf_middleware
  <1>2. req' = [req EXCEPT ![c] = Admitted(l)]
    BY DEF csrf_middleware, Go
  <1>3. l = Loaded(c)
    OBVIOUS
  <1> HIDE DEF l
  <1>4. /\ l \in Requests /\ Kept(l, q) /\ l.at = "sent" /\ ~l.modified /\ l.as = none
        /\ \/ /\ l.sid = none /\ l.data = Empty
              /\ q.cookie = none \/ q.cookie \in ended
           \/ /\ l.sid \in Sids /\ l.data \in Records /\ l.sid = q.cookie
              /\ store[l.sid] = l.data /\ l.data.token = root[l.sid] /\ l.sid \notin ended
    BY <1>1, <1>3, Loads
  <1>5. tokens' \subseteq Users /\ UNCHANGED <<users, store, browser, devices, sent, ended, root>>
    BY DEF csrf_middleware, Inv, Typed
  <1>6. q.n \in Sids /\ ~Known(q.n) /\ root[q.n] = q.n
    BY <1>1, Nones DEF Inv, Good, Shaped, Unused, Rooted, Typed
  <1>7. q.spent => l.data = Empty
    BY <1>1, <1>4 DEF Good, Granted
  <1>8. CASE q.kind = "submit"
    <2> DEFINE x == IF l.data.token = l.form.token THEN "handle" ELSE "rejected"
               e == [l EXCEPT !.at = x]
    <2>1. Admitted(l) = e
      BY <1>4, <1>8 DEF Admitted, Kept
    <2>2. x \in {"handle", "rejected"} /\ x \in Places
          /\ (x = "rejected" => l.data.token # l.form.token)
      BY DEF Places
    <2>3. e = [l EXCEPT !.at = x]
      OBVIOUS
    <2> HIDE DEF e, x
    <2>4. /\ e \in Requests /\ Kept(e, l) /\ e.at = x /\ e.as = l.as
          /\ e.sid = l.sid /\ e.data = l.data /\ e.modified = l.modified
      BY <1>4, <2>2, <2>3, SetAt
    <2>5. Kept(e, q) /\ l.form = q.form
      BY <1>4, <2>4 DEF Kept
    <2>6. Shaped(e) /\ Unused(e)
      BY <1>1, <1>4, <1>8, <2>2, <2>4, <2>5 DEF Good, Shaped, Unused, Kept
    <2>7. Copy(e)
      BY <1>4, <2>4, Nones DEF Copy
    <2>8. Rooted(e)
      BY <1>1, <1>4, <1>8, <2>2, <2>4, <2>5, Nones DEF Good, Rooted, Home, Kept
    <2>9. Granted(e)
      BY <1>1, <1>4, <1>7, <2>2, <2>4, <2>5, Nones DEF Good, Granted, Kept
    <2>10. e.n = q.n /\ Good(e)
      BY <2>5, <2>6, <2>7, <2>8, <2>9 DEF Good, Kept
    <2> QED BY <1>1, <1>2, <1>5, <2>1, <2>10, Plain
  <1>9. CASE q.kind # "submit"
    <2> DEFINE e1 == ensure_token(l)
               e2 == [e1 EXCEPT !.at = "handle"]
               x == IF l.shown THEN none ELSE e1.data.token
               e == [e2 EXCEPT !.csrf = x]
    <2>1. Admitted(l) = e
      BY <1>4, <1>9 DEF Admitted, Ensured, Kept
    <2>2. /\ e1 = ensure_token(l) /\ e2 = [e1 EXCEPT !.at = "handle"] /\ e = [e2 EXCEPT !.csrf = x]
          /\ x = none \/ x = e1.data.token
      OBVIOUS
    <2> HIDE DEF e, e1, e2, x
    <2>3. l.n = q.n /\ l.n \in Sids
      BY <1>4, <1>6 DEF Kept
    <2>4. /\ e1 \in Requests /\ Kept(e1, l) /\ e1.sid = l.sid /\ e1.as = l.as
          /\ e1.data \in Records /\ e1.data.user = l.data.user
          /\ \/ l.data = Empty /\ e1.modified /\ e1.data.token = l.n
             \/ l.data # Empty /\ e1.modified = l.modified /\ e1.data = l.data
      BY <1>4, <2>2, <2>3, EnsuresToken
    <2>5. /\ e \in Requests /\ Kept(e, e1) /\ e.at = "handle" /\ e.as = e1.as
          /\ e.sid = e1.sid /\ e.data = e1.data /\ e.modified = e1.modified
      <3>1. /\ e2 \in Requests /\ Kept(e2, e1) /\ e2.at = "handle" /\ e2.as = e1.as
            /\ e2.sid = e1.sid /\ e2.data = e1.data /\ e2.modified = e1.modified
        BY <2>2, <2>4, SetAt DEF Places
      <3>2. x \in CsrfTokens \cup {none} /\ e = [e2 EXCEPT !.csrf = x]
        BY <2>2, <2>4, Nones DEF Sids, CsrfTokens
      <3>3. /\ e \in Requests /\ Kept(e, e2) /\ e.at = e2.at /\ e.as = e2.as
            /\ e.sid = e2.sid /\ e.data = e2.data /\ e.modified = e2.modified
        BY <3>1, <3>2, SetCsrf
      <3> QED BY <3>1, <3>3 DEF Kept
    <2>6. Kept(e, q)
      BY <1>4, <2>4, <2>5 DEF Kept
    <2>7. Shaped(e)
      BY <1>1, <1>4, <1>9, <2>4, <2>5, <2>6 DEF Good, Shaped, Kept
    <2>8. Unused(e)
      BY <1>1, <1>4, <1>6, <2>4, <2>5, <2>6, Nones DEF Unused, Kept
    <2>9. Copy(e)
      BY <1>4, <2>4, <2>5, Nones DEF Copy
    <2>10. Rooted(e)
      BY <1>1, <1>4, <1>6, <2>3, <2>4, <2>5, <2>6, Nones DEF Good, Rooted, Home, Kept
    <2>11. Granted(e)
      BY <1>1, <1>4, <1>7, <2>4, <2>5, <2>6, Nones DEF Good, Granted, Kept
    <2>12. e.n = q.n /\ Good(e)
      BY <2>6, <2>7, <2>8, <2>9, <2>10, <2>11 DEF Good, Kept
    <2> QED BY <1>1, <1>2, <1>5, <2>1, <2>12, Plain
  <1> QED BY <1>8, <1>9

(***************************************************************************)
(* The browser sends, and receives.                                        *)
(***************************************************************************)
LEMMA Sends ==
    ASSUME Inv, NEW c \in Slots, NEW kind \in Kinds, NEW form \in Forms \cup {none},
           NEW claim \in Users \cup AppPasswords \cup {none}, NEW spent \in BOOLEAN,
           Send(c, kind, form, claim, spent),
           form # none /\ form.sid # none => Known(form.sid) /\ form.token = root[form.sid],
           kind \in {"login", "call", "mint"} => claim \in Users \cup {none},
           kind = "dav" => claim \in AppPasswords,
           kind = "submit" => form \in Forms,
           spent /\ kind # "dav" => browser.sid \in ended,
           spent /\ kind = "dav" => devices[claim] = "revoked"
    PROVE  Inv'
  <1> DEFINE cookie == IF kind = "dav" THEN none ELSE browser.sid
             shown == browser.csrf # none
             e == [kind |-> kind, at |-> "sent", n |-> sent + 1, cookie |-> cookie, shown |-> shown,
                   form |-> form, claim |-> claim, sid |-> none, data |-> Empty, modified |-> FALSE,
                   csrf |-> none, as |-> none, spent |-> spent, absent |-> Users \ users]
  <1>1. /\ req' = [req EXCEPT ![c] = e] /\ sent' = sent + 1 /\ sent < MaxRequests
        /\ UNCHANGED <<users, store, browser, tokens, devices, ended, root>>
    BY DEF Send, Go
  <1>2. cookie \in Sids \cup {none} /\ shown \in BOOLEAN
        /\ (spent /\ kind # "dav" => cookie \in ended) /\ (cookie # none => Known(cookie))
    BY DEF Inv, Typed, Lines
  <1>3. sent \in 0..MaxRequests /\ sent' \in 1..MaxRequests /\ sent' \in Sids /\ sent' \in Nat
        /\ sent' > sent
    BY <1>1, Nones DEF Inv, Typed
  <1>4. ~Known(sent') /\ root[sent'] = sent'
    BY <1>3 DEF Inv, Lines
  <1>5. /\ e.kind = kind /\ e.at = "sent" /\ e.n = sent' /\ e.cookie = cookie /\ e.form = form
        /\ e.claim = claim /\ e.sid = none /\ e.data = Empty /\ e.modified = FALSE
        /\ e.as = none /\ e.spent = spent /\ e.absent = Users \ users
    BY <1>1
  <1>6. e \in Requests
    BY <1>1, <1>2, <1>3 DEF Requests, Places
  <1> HIDE DEF e, cookie, shown
  <1>7. Steady(c)
    <2>1. \A d \in Slots \ {c} : req'[d] = req[d] /\
             (req[d].at \notin {"idle", "answer"} => ~Known(req[d].n)')
      BY <1>1 DEF Inv, Good, Unused, Known
    <2> QED BY <1>1, <1>3, <2>1 DEF Steady, Known
  <1>8. \A d \in Slots \ {c} : Good(req[d])' /\ req'[d] = req[d]
    BY <1>7, OthersGood DEF Steady
  <1>9. req'[c] = e /\ req' \in [Slots -> Requests]
    BY <1>1, <1>6 DEF Inv
  <1>10. Shaped(req[c])'
    BY <1>3, <1>5, <1>6, <1>9 DEF Shaped
  <1>11. Unused(req[c])' /\ Copy(req[c])'
    BY <1>1, <1>4, <1>5, <1>9 DEF Unused, Copy, Known
  <1>12. Rooted(req[c])'
    BY <1>1, <1>2, <1>4, <1>5, <1>9 DEF Rooted, Known
  <1>13. Granted(req[c])'
    BY <1>1, <1>2, <1>5, <1>9 DEF Granted
  <1>14. Distinct'
    <2>1. \A d \in Slots \ {c} : req[d].at # "idle" => req[d].n # sent'
      <3> SUFFICES ASSUME NEW d \in Slots \ {c}, req[d].at # "idle" PROVE req[d].n # sent'
        OBVIOUS
      <3>1. req[d].n \in 1..sent
        BY DEF Inv, Good, Shaped
      <3> QED BY <1>3, <3>1
    <2>2. \A x, d \in Slots : x # d /\ req'[x].at # "idle" /\ req'[d].at # "idle"
             => req'[x].n # req'[d].n
      BY <1>5, <1>8, <1>9, <2>1 DEF Inv, Distinct
    <2> QED BY <2>2 DEF Distinct
  <1>15. Typed'
    BY <1>1, <1>3 DEF Inv, Typed
  <1>16. Lines'
    BY <1>1, <1>3 DEF Inv, Lines, Known, Typed
  <1> QED BY <1>8, <1>9, <1>10, <1>11, <1>12, <1>13, <1>14, <1>15, <1>16 DEF Inv, Good

LEMMA Browsers ==
    ASSUME Inv, NEW c \in Slots,
           \/ Browse(c) \/ LogIn(c) \/ LogOut(c) \/ Submit(c) \/ Call(c) \/ Mint(c) \/ Dav(c)
    PROVE  Inv'
  <1>1. SpentCookie \in BOOLEAN /\ (SpentCookie => browser.sid \in ended)
    BY DEF SpentCookie
  <1>2. none \in Forms \cup {none} /\ none \in Users \cup AppPasswords \cup {none}
    OBVIOUS
  <1>3. tokens \subseteq Users /\ browser.forms \subseteq Forms
        /\ browser.csrf \in CsrfTokens \cup {none}
    BY DEF Inv, Typed
  <1>4. CASE Browse(c) \/ LogOut(c)
    BY <1>1, <1>2, <1>4, Sends DEF Browse, LogOut, Kinds
  <1>5. CASE LogIn(c) \/ Mint(c) \/ Call(c)
    <2>1. PICK u \in Users \cup {none} : \E k \in {"login", "mint", "call"} :
             Send(c, k, none, u, SpentCookie)
      BY <1>3, <1>5 DEF LogIn, Mint, Call
    <2>2. u \in Users \cup AppPasswords \cup {none}
      OBVIOUS
    <2>3. PICK k \in {"login", "mint", "call"} : Send(c, k, none, u, SpentCookie)
      BY <2>1
    <2>4. k \in Kinds /\ k # "dav" /\ k # "submit"
      BY DEF Kinds
    <2> QED BY <1>1, <1>2, <2>2, <2>3, <2>4, Sends
  <1>6. CASE Submit(c)
    <2>1. PICK f \in Forms : /\ Send(c, "submit", f, none, SpentCookie)
                             /\ f.sid # none => f \in browser.forms
      <3>1. CASE \E f \in browser.forms : Send(c, "submit", f, none, SpentCookie)
        BY <1>3, <3>1
      <3>2. CASE browser.csrf # none /\
                 Send(c, "submit", [token |-> browser.csrf, sid |-> none], none, SpentCookie)
        BY <1>3, <3>2 DEF Forms
      <3> QED BY <1>6, <3>1, <3>2 DEF Submit
    <2>2. f.sid # none => Known(f.sid) /\ f.token = root[f.sid]
      BY <2>1 DEF Inv, Lines
    <2> QED BY <1>1, <1>2, <2>1, <2>2, Sends DEF Kinds
  <1>7. CASE Dav(c)
    <2>1. PICK p \in AppPasswords : Send(c, "dav", none, p, devices[p] = "revoked")
      BY <1>7 DEF Dav
    <2>2. (devices[p] = "revoked") \in BOOLEAN /\ p \in Users \cup AppPasswords \cup {none}
      OBVIOUS
    <2> QED BY <1>2, <2>1, <2>2, Sends DEF Kinds
  <1> QED BY <1>4, <1>5, <1>6, <1>7

LEMMA Receives ==
    ASSUME Inv, NEW c \in Slots, Receive(c)
    PROVE  Inv'
  <1> DEFINE q == req[c]
             f0 == [token |-> q.data.token, sid |-> q.sid]
             fs == browser.forms \cup (IF q.kind = "page" /\ q.sid # none THEN {f0} ELSE {})
             b == [sid |-> SessionCookie(q), csrf |-> CsrfCookie(q), forms |-> fs]
  <1>1. /\ req' = [req EXCEPT ![c] = Idle] /\ browser' = b
        /\ UNCHANGED <<users, store, tokens, devices, sent, ended, root>>
    BY DEF Receive, Go
  <1>2. q \in Requests /\ Good(q) /\ q.at = "answer"
    BY DEF Inv, Receive
  <1>3. \A f \in fs :
           f \in Forms /\ (f.sid # none => Known(f.sid) /\ f.token = root[f.sid])
    <2>1. \A f \in browser.forms :
             f \in Forms /\ (f.sid # none => Known(f.sid) /\ f.token = root[f.sid])
      BY DEF Inv, Typed, Lines
    <2>2. ASSUME q.kind = "page", q.sid # none
          PROVE  f0 \in Forms /\ Known(f0.sid) /\ f0.token = root[f0.sid]
      <3>1. q.data \in Records /\ q.sid \in Sids
        BY <1>2, <2>2, Fields DEF Good, Shaped
      <3>2. Known(q.sid)
        BY <1>2, <2>2, <3>1, LoadedKnown, Nones
      <3>3. q.data.token = root[q.sid]
        BY <1>2, <2>2, <3>1, Nones DEF Good, Rooted, Home
      <3>4. q.data.token \in CsrfTokens
        BY <3>1, Nones DEF Sids, CsrfTokens
      <3> QED BY <3>1, <3>2, <3>3, <3>4 DEF Forms
    <2> QED BY <2>1, <2>2
  <1>4. SessionCookie(q) \in Sids \cup {none} /\ CsrfCookie(q) \in CsrfTokens \cup {none}
    <2>1. q.sid \in Sids \cup {none} /\ q.csrf \in CsrfTokens \cup {none}
      BY <1>2, Fields
    <2>2. browser.sid \in Sids \cup {none} /\ browser.csrf \in CsrfTokens \cup {none}
      BY DEF Inv, Typed
    <2> QED BY <2>1, <2>2 DEF SessionCookie, CsrfCookie
  <1>13. SessionCookie(q) # none => Known(SessionCookie(q))
    <2>1. browser.sid # none => Known(browser.sid)
      BY DEF Inv, Lines
    <2>2. q.sid # none /\ q.data # Empty => Known(q.sid)
      BY <1>2, LoadedKnown
    <2> QED BY <2>1, <2>2 DEF SessionCookie
  <1>5. b.sid = SessionCookie(q) /\ b.csrf = CsrfCookie(q) /\ b.forms = fs
    OBVIOUS
  <1> HIDE DEF b, fs
  <1>6. Steady(c)
    BY <1>1, Calm
  <1>7. \A d \in Slots \ {c} : Good(req[d])' /\ req'[d] = req[d]
    BY <1>6, OthersGood DEF Steady
  <1>8. req'[c] = Idle /\ Good(Idle) /\ Idle.at = "idle" /\ req' \in [Slots -> Requests]
    BY <1>1, Resting DEF Inv, Good, Shaped
  <1>9. Good(req[c])'
    BY <1>1, <1>8 DEF Good, Shaped, Unused, Copy, Rooted, Granted, Home, Known
  <1>10. Distinct'
    BY <1>7, <1>8 DEF Inv, Distinct
  <1>11. Typed'
    BY <1>1, <1>3, <1>4, <1>5 DEF Inv, Typed
  <1>12. Lines'
    BY <1>1, <1>3, <1>5, <1>13 DEF Inv, Lines, Known
  <1> QED BY <1>7, <1>8, <1>9, <1>10, <1>11, <1>12 DEF Inv

(***************************************************************************)
(* Sessions that end, and are stored.                                      *)
(***************************************************************************)
LEMMA Expires ==
    ASSUME Inv, Expire
    PROVE  Inv'
  <1>1. PICK s \in Sids : store[s] # none /\ Forget(s)
    BY DEF Expire
  <1>2. /\ store' = [x \in Sids |-> IF x = s THEN none ELSE store[x]] /\ ended' = ended \cup {s}
        /\ UNCHANGED <<users, browser, req, tokens, devices, sent, root>>
    BY <1>1, Nones DEF Expire, Forget
  <1>3. \A x \in Sids : Known(x)' <=> Known(x)
    BY <1>1, <1>2 DEF Known
  <1>4. \A c \in Slots : Good(req[c])'
    <2> SUFFICES ASSUME NEW c \in Slots PROVE Good(req[c])'
      OBVIOUS
    <2> DEFINE q == req[c]
    <2>1. q \in Requests /\ Good(q) /\ req'[c] = q
      BY <1>2 DEF Inv
    <2>2. q.at \notin {"idle", "answer"} => q.n \in Sids
      BY <2>1, Nones DEF Inv, Typed, Good, Shaped
    <2>3. q.sid \in Sids \cup {none} /\ (q.form # none => q.form.sid \in Sids \cup {none})
      BY <2>1, Fields, Nones
    <2>4. Shaped(req[c])'
      BY <1>2, <2>1 DEF Good, Shaped
    <2>5. Unused(req[c])'
      BY <1>3, <2>1, <2>2 DEF Good, Unused
    <2>6. Copy(req[c])'
      BY <1>2, <2>1, <2>3 DEF Good, Copy
    <2>9. q.cookie \in Sids \cup {none} /\ ended \subseteq ended'
      BY <1>2, <2>1, Fields
    <2>7. Rooted(req[c])'
      BY <1>2, <1>3, <2>1, <2>3, <2>9 DEF Good, Rooted, Home
    <2>8. Granted(req[c])'
      BY <1>2, <2>1 DEF Good, Granted
    <2> QED BY <2>4, <2>5, <2>6, <2>7, <2>8 DEF Good
  <1>5. Typed'
    BY <1>2 DEF Inv, Typed
  <1>6. Lines'
    BY <1>2, <1>3, Nones DEF Inv, Lines, Typed
  <1>7. Distinct' /\ req' \in [Slots -> Requests]
    BY <1>2 DEF Inv, Distinct
  <1> QED BY <1>4, <1>5, <1>6, <1>7 DEF Inv

LEMMA Forgets ==
    ASSUME NEW s \in Sids \cup {none}, s # none => Known(s), Forget(s), Typed
    PROVE  /\ \A x \in Sids : Known(x)' <=> Known(x)
           /\ \A x \in Sids : store'[x] = store[x] \/ (x \in ended' /\ store'[x] = none)
           /\ ended' \subseteq Sids /\ ended \subseteq ended' /\ (s # none => s \in ended')
           /\ store' \in [Sids -> Records \cup {none}]
           /\ \A x \in ended' : x \in ended \/ store'[x] = none
  <1>1. /\ store' = [x \in Sids |-> IF x = s THEN none ELSE store[x]]
        /\ ended' = ended \cup ({s} \ {none})
        /\ store \in [Sids -> Records \cup {none}] /\ ended \subseteq Sids
    BY DEF Forget, Typed
  <1>2. /\ store' \in [Sids -> Records \cup {none}]
        /\ ended' \subseteq Sids /\ ended \subseteq ended' /\ (s # none => s \in ended')
        /\ \A x \in Sids : store'[x] = IF x = s THEN none ELSE store[x]
    BY <1>1
  <1>3. \A x \in Sids : store'[x] = store[x] \/ (x \in ended' /\ store'[x] = none)
    BY <1>2, Nones
  <1>4. \A x \in ended' : x \in ended \/ store'[x] = none
    BY <1>1, <1>2
  <1>5. \A x \in Sids : Known(x)' <=> Known(x)
    BY <1>1, <1>2, Nones DEF Known
  <1> QED BY <1>2, <1>3, <1>4, <1>5

LEMMA Logins ==
    ASSUME Inv, NEW c \in Slots, login(c)
    PROVE  Inv'
  <1> DEFINE q == req[c]
             e1 == [q EXCEPT !.at = "end"]
             e2 == [e1 EXCEPT !.sid = none]
             e3 == [e2 EXCEPT !.modified = TRUE]
             t == [e3.data EXCEPT !.user = q.claim]
             e == [e3 EXCEPT !.data = t]
  <1>1. /\ q \in Requests /\ Good(q) /\ q.at = "verified" /\ q.kind = "login"
        /\ q.data \in Records /\ q.claim \in Users /\ q.sid \in Sids \cup {none}
        /\ q.n \in 1..sent /\ q.n \in Sids /\ ~Known(q.n)
    BY Fields, Nones DEF Inv, login, Good, Shaped, Unused, Typed
  <1>2. req' = [req EXCEPT ![c] = e]
    BY DEF login, Go
  <1>3. /\ e = [e3 EXCEPT !.data = t] /\ e3 = [e2 EXCEPT !.modified = TRUE]
        /\ e2 = [e1 EXCEPT !.sid = none] /\ e1 = [q EXCEPT !.at = "end"]
        /\ t = [e3.data EXCEPT !.user = q.claim]
    OBVIOUS
  <1> HIDE DEF e, e1, e2, e3, t
  <1>4. e1 \in Requests /\ Kept(e1, q) /\ e1.at = "end" /\ e1.data = q.data /\ e1.as = q.as
    BY <1>1, <1>3, SetAt DEF Places
  <1>5. /\ e2 \in Requests /\ Kept(e2, e1) /\ e2.at = e1.at /\ e2.data = e1.data
        /\ e2.as = e1.as /\ e2.sid = none
    <2>1. e1 \in Requests /\ none \in Sids \cup {none} /\ e2 = [e1 EXCEPT !.sid = none]
      BY <1>3, <1>4
    <2> QED BY <2>1, SetSid
  <1>6. /\ e3 \in Requests /\ Kept(e3, e2) /\ e3.at = e2.at /\ e3.data = e2.data
        /\ e3.as = e2.as /\ e3.sid = e2.sid /\ e3.modified = TRUE
    <2>1. e2 \in Requests /\ TRUE \in BOOLEAN /\ e3 = [e2 EXCEPT !.modified = TRUE]
      BY <1>3, <1>5
    <2> QED BY <2>1, SetModified, Zenon
  <1>7. t \in Records /\ t.token = q.data.token
    <2>1. e3.data = q.data
      BY <1>4, <1>5, <1>6
    <2> QED BY <1>1, <1>3, <2>1 DEF Records
  <1>8. /\ e \in Requests /\ Kept(e, e3) /\ e.at = e3.at /\ e.data = t
        /\ e.as = e3.as /\ e.sid = e3.sid /\ e.modified = e3.modified
    <2>1. e3 \in Requests /\ t \in Records \cup {Empty} /\ e = [e3 EXCEPT !.data = t]
      BY <1>3, <1>6, <1>7
    <2> QED BY <2>1, SetData
  <1>9. /\ Kept(e, q) /\ e.at = "end" /\ e.data = t /\ e.as = q.as /\ e.sid = none
        /\ e.modified
    BY <1>4, <1>5, <1>6, <1>8 DEF Kept
  <1>10. /\ Forget(q.sid) /\ UNCHANGED <<users, browser, tokens, devices, sent>>
         /\ root' = IF q.sid = none THEN root ELSE [root EXCEPT ![q.n] = root[q.sid]]
    BY DEF login
  <1>11. q.sid # none => Known(q.sid) /\ q.data.token = root[q.sid]
    BY <1>1, LoadedKnown, Nones DEF Good, Rooted, Home
  <1>12. Typed /\ sent \in 0..MaxRequests
    BY DEF Inv, Typed
  <1>13. /\ \A x \in Sids : Known(x)' <=> Known(x)
         /\ \A x \in Sids : store'[x] = store[x] \/ (x \in ended' /\ store'[x] = none)
         /\ ended' \subseteq Sids /\ ended \subseteq ended'
         /\ store' \in [Sids -> Records \cup {none}]
         /\ \A x \in ended' : x \in ended \/ store'[x] = none
    BY <1>1, <1>10, <1>11, <1>12, Forgets
  <1>14. /\ \A x \in Sids : x # q.n => root'[x] = root[x]
         /\ root' \in [Sids -> Sids] /\ root'[q.n] = q.data.token
    <2>1. CASE q.sid = none
      BY <1>1, <1>10, <2>1, Nones DEF Inv, Typed, Good, Rooted, Home
    <2>2. CASE q.sid # none
      BY <1>1, <1>10, <1>11, <2>2 DEF Inv, Typed
    <2> QED BY <2>1, <2>2
  <1>15. \A d \in Slots \ {c} : req'[d] = req[d] /\
            (req[d].at # "idle" => req[d].n # q.n /\ req[d].n \in Sids)
    <2> SUFFICES ASSUME NEW d \in Slots \ {c}
                 PROVE  req'[d] = req[d] /\
                        (req[d].at # "idle" => req[d].n # q.n /\ req[d].n \in Sids)
      OBVIOUS
    <2>1. req'[d] = req[d]
      BY <1>2 DEF Inv
    <2>2. req[d].at # "idle" => req[d].n # q.n
      BY <1>1 DEF Inv, Distinct
    <2>3. req[d].at # "idle" => req[d].n \in Sids
      BY <1>12, Nones DEF Inv, Good, Shaped
    <2> QED BY <2>1, <2>2, <2>3
  <1>16. Steady(c)
    <2>1. \A d \in Slots \ {c} : req[d].at \notin {"idle", "answer"} => ~Known(req[d].n)'
      BY <1>13, <1>15 DEF Inv, Good, Unused
    <2>2. \A s \in Sids : Known(s) => s # q.n
      BY <1>1
    <2> QED BY <1>10, <1>12, <1>13, <1>14, <1>15, <2>1, <2>2 DEF Steady
  <1>17. \A d \in Slots \ {c} : Good(req[d])'
    BY <1>16, OthersGood
  <1>18. req'[c] = e /\ req' \in [Slots -> Requests]
    BY <1>2, <1>8 DEF Inv
  <1>19. Shaped(req[c])'
    BY <1>1, <1>7, <1>8, <1>9, <1>10, <1>18 DEF Good, Shaped, Kept
  <1>20. Unused(req[c])' /\ Copy(req[c])'
    BY <1>1, <1>9, <1>13, <1>18 DEF Unused, Copy, Kept
  <1>21. Rooted(req[c])'
    <2>1. e.form # none => e.form.sid \in Sids \cup {none}
      BY <1>8, Fields, Nones
    <2>2. e.form # none /\ e.form.sid # none =>
             /\ store'[e.form.sid] # none \/ e.form.sid \in ended'
             /\ e.form.token = root'[e.form.sid]
      <3> SUFFICES ASSUME e.form # none, e.form.sid # none
                   PROVE  /\ store'[e.form.sid] # none \/ e.form.sid \in ended'
                          /\ e.form.token = root'[e.form.sid]
        OBVIOUS
      <3>1. e.form = q.form /\ e.form.sid \in Sids
        BY <1>9, <2>1 DEF Kept
      <3>2. Known(e.form.sid) /\ e.form.token = root[e.form.sid]
        BY <1>1, <3>1 DEF Good, Rooted
      <3>3. \A x \in Sids : Known(x) => (store'[x] # none \/ x \in ended') /\ x # q.n
        BY <1>1, <1>13 DEF Known
      <3> QED BY <1>14, <3>1, <3>2, <3>3
    <2>3. e.data.token = root'[e.n]
      BY <1>7, <1>9, <1>14 DEF Kept
    <2>4. e.cookie # none => store'[e.cookie] # none \/ e.cookie \in ended'
      <3>1. e.cookie = q.cookie /\ e.cookie \in Sids \cup {none}
        BY <1>8, <1>9, Fields DEF Kept
      <3>2. \A x \in Sids : Known(x) => store'[x] # none \/ x \in ended'
        BY <1>13 DEF Known
      <3> QED BY <1>1, <3>1, <3>2 DEF Good, Rooted
    <2> QED BY <1>9, <1>18, <2>2, <2>3, <2>4 DEF Rooted, Home, Known
  <1>22. Granted(req[c])'
    BY <1>1, <1>9, <1>10, <1>13, <1>18 DEF Good, Granted, Kept
  <1>23. Distinct'
    <2>1. e.n = q.n
      BY <1>9 DEF Kept
    <2>2. \A x, d \in Slots : x # d /\ req'[x].at # "idle" /\ req'[d].at # "idle"
             => req'[x].n # req'[d].n
      BY <1>1, <1>15, <1>18, <2>1 DEF Inv, Distinct
    <2> QED BY <2>2 DEF Distinct
  <1>24. Typed'
    BY <1>10, <1>13, <1>14 DEF Inv, Typed
  <1>25. Lines'
    <2>1. \A s \in Sids : (s \in ended' => store'[s] = none)
      BY <1>13 DEF Inv, Lines
    <2>2. \A s \in Sids : store'[s] # none => store'[s].token = root'[s]
      BY <1>1, <1>13, <1>14 DEF Inv, Lines, Known
    <2>3. \A s \in Sids : s > sent => ~Known(s)' /\ root'[s] = s
      <3>1. \A s \in Sids : s > sent => ~Known(s) /\ root[s] = s
        BY DEF Inv, Lines
      <3>2. \A s \in Sids : s > sent => s # q.n
        BY <1>1, <1>12, Nones
      <3> QED BY <1>13, <1>14, <3>1, <3>2
    <2>4. \A f \in browser.forms : f.sid # none => Known(f.sid)' /\ f.token = root'[f.sid]
      BY <1>1, <1>12, <1>13, <1>14, Nones DEF Inv, Lines, Typed
    <2>5. browser.sid # none => Known(browser.sid)'
      BY <1>10, <1>13 DEF Inv, Lines, Typed
    <2> QED BY <1>10, <2>1, <2>2, <2>3, <2>4, <2>5 DEF Lines, Known
  <1> QED BY <1>17, <1>18, <1>19, <1>20, <1>21, <1>22, <1>23, <1>24, <1>25 DEF Inv, Good

LEMMA Logouts ==
    ASSUME Inv, NEW c \in Slots, logout(c)
    PROVE  Inv'
  <1> DEFINE q == req[c]
             e1 == [q EXCEPT !.at = "end"]
             e2 == [e1 EXCEPT !.sid = none]
             e == [e2 EXCEPT !.data = Empty]
  <1>1. /\ q \in Requests /\ Good(q) /\ q.at = "handle" /\ q.kind = "logout"
        /\ q.sid \in Sids \cup {none} /\ q.n \in 1..sent /\ q.n \in Sids /\ ~Known(q.n)
    BY Fields, Nones DEF Inv, logout, Good, Shaped, Unused, Typed
  <1>2. req' = [req EXCEPT ![c] = e]
    BY DEF logout, Go
  <1>3. /\ e = [e2 EXCEPT !.data = Empty] /\ e2 = [e1 EXCEPT !.sid = none]
        /\ e1 = [q EXCEPT !.at = "end"]
    OBVIOUS
  <1> HIDE DEF e, e1, e2
  <1>4. /\ e1 \in Requests /\ Kept(e1, q) /\ e1.at = "end" /\ e1.modified = q.modified
        /\ e1.as = q.as
    BY <1>1, <1>3, SetAt DEF Places
  <1>5. /\ e2 \in Requests /\ Kept(e2, e1) /\ e2.at = e1.at /\ e2.modified = e1.modified
        /\ e2.as = e1.as /\ e2.sid = none
    <2>1. e1 \in Requests /\ none \in Sids \cup {none} /\ e2 = [e1 EXCEPT !.sid = none]
      BY <1>3, <1>4
    <2> QED BY <2>1, SetSid
  <1>6. /\ e \in Requests /\ Kept(e, e2) /\ e.at = e2.at /\ e.modified = e2.modified
        /\ e.as = e2.as /\ e.sid = e2.sid /\ e.data = Empty
    <2>1. e2 \in Requests /\ Empty \in Records \cup {Empty} /\ e = [e2 EXCEPT !.data = Empty]
      BY <1>3, <1>5
    <2> QED BY <2>1, SetData
  <1>7. /\ Kept(e, q) /\ e.at = "end" /\ e.as = q.as /\ e.sid = none /\ e.modified = q.modified
    BY <1>4, <1>5, <1>6 DEF Kept
  <1>8. Forget(q.sid) /\ UNCHANGED <<users, browser, tokens, devices, sent, root>>
    BY DEF logout
  <1>10. q.sid # none => Known(q.sid)
    BY <1>1, Fields, Nones DEF Good, Copy, Known
  <1>11. Typed /\ sent \in 0..MaxRequests
    BY DEF Inv, Typed
  <1>12. /\ \A x \in Sids : Known(x)' <=> Known(x)
         /\ \A x \in Sids : store'[x] = store[x] \/ (x \in ended' /\ store'[x] = none)
         /\ ended' \subseteq Sids /\ ended \subseteq ended'
         /\ store' \in [Sids -> Records \cup {none}]
         /\ \A x \in ended' : x \in ended \/ store'[x] = none
    BY <1>1, <1>8, <1>10, <1>11, Forgets
  <1>13. \A d \in Slots \ {c} : req'[d] = req[d] /\ (req[d].at # "idle" => req[d].n \in Sids)
    <2>1. \A d \in Slots \ {c} : req'[d] = req[d]
      BY <1>2 DEF Inv
    <2>2. \A d \in Slots \ {c} : req[d].at # "idle" => req[d].n \in Sids
      BY <1>11, Nones DEF Inv, Good, Shaped
    <2> QED BY <2>1, <2>2
  <1>14. Steady(c)
    <2>1. \A d \in Slots \ {c} : req[d].at \notin {"idle", "answer"} => ~Known(req[d].n)'
      BY <1>12, <1>13 DEF Inv, Good, Unused
    <2> QED BY <1>8, <1>11, <1>12, <1>13, <2>1 DEF Steady
  <1>15. \A d \in Slots \ {c} : Good(req[d])'
    BY <1>14, OthersGood
  <1>16. req'[c] = e /\ req' \in [Slots -> Requests]
    BY <1>2, <1>6 DEF Inv
  <1>17. Shaped(req[c])'
    BY <1>1, <1>6, <1>7, <1>8, <1>16 DEF Good, Shaped, Kept
  <1>18. Unused(req[c])' /\ Copy(req[c])'
    BY <1>1, <1>7, <1>12, <1>16 DEF Unused, Copy, Kept
  <1>19. Rooted(req[c])'
    <2>1. e.form = q.form /\ (e.form # none => e.form.sid \in Sids \cup {none})
      BY <1>6, <1>7, Fields, Nones DEF Kept
    <2>2. e.form # none /\ e.form.sid # none => Known(e.form.sid) /\ e.form.token = root[e.form.sid]
      BY <1>1, <2>1 DEF Good, Rooted
    <2>3. \A x \in Sids : Known(x) => store'[x] # none \/ x \in ended'
      BY <1>12 DEF Known
    <2>4. e.cookie = q.cookie /\ e.cookie \in Sids \cup {none}
      BY <1>6, <1>7, Fields DEF Kept
    <2>5. e.cookie # none => store'[e.cookie] # none \/ e.cookie \in ended'
      BY <1>1, <2>3, <2>4 DEF Good, Rooted
    <2> QED BY <1>6, <1>7, <1>8, <1>16, <2>1, <2>2, <2>3, <2>5 DEF Rooted, Known
  <1>20. Granted(req[c])'
    BY <1>1, <1>7, <1>8, <1>12, <1>16 DEF Good, Granted, Kept
  <1>21. Distinct'
    <2>1. e.n = q.n
      BY <1>7 DEF Kept
    <2>2. \A x, d \in Slots : x # d /\ req'[x].at # "idle" /\ req'[d].at # "idle"
             => req'[x].n # req'[d].n
      BY <1>1, <1>13, <1>16, <2>1 DEF Inv, Distinct
    <2> QED BY <2>2 DEF Distinct
  <1>22. Typed'
    BY <1>8, <1>12 DEF Inv, Typed
  <1>23. Lines'
    <2>1. \A s \in Sids : (s \in ended' => store'[s] = none)
      BY <1>12 DEF Inv, Lines
    <2>2. \A s \in Sids : store'[s] # none => store'[s].token = root[s]
      BY <1>12 DEF Inv, Lines
    <2>3. \A s \in Sids : s > sent => ~Known(s)' /\ root[s] = s
      BY <1>12 DEF Inv, Lines
    <2>4. \A f \in browser.forms : f.sid # none => Known(f.sid)' /\ f.token = root[f.sid]
      BY <1>12, Nones DEF Inv, Lines, Typed
    <2>5. browser.sid # none => Known(browser.sid)'
      BY <1>8, <1>12 DEF Inv, Lines, Typed
    <2> QED BY <1>8, <2>1, <2>2, <2>3, <2>4, <2>5 DEF Lines, Known
  <1> QED BY <1>15, <1>16, <1>17, <1>18, <1>19, <1>20, <1>21, <1>22, <1>23 DEF Inv, Good

LEMMA Saves ==
    ASSUME Inv, NEW c \in Slots, save(c)
    PROVE  Inv'
  <1> DEFINE q == req[c]
             e1 == [q EXCEPT !.at = "answer"]
             e == [e1 EXCEPT !.sid = q.n]
  <1>1. /\ q \in Requests /\ Good(q) /\ q.at \in {"end", "rejected"}
        /\ q.n \in 1..sent /\ q.n \in Sids /\ ~Known(q.n)
    BY Nones DEF Inv, save, Good, Shaped, Unused, Typed
  <1>2. tokens' \subseteq Users /\ UNCHANGED <<users, browser, devices, sent, ended, root>>
    BY DEF save, Inv, Typed
  <1>3. e = [e1 EXCEPT !.sid = q.n] /\ e1 = [q EXCEPT !.at = "answer"]
    OBVIOUS
  <1>4. CASE req' = [req EXCEPT ![c] = e1] /\ UNCHANGED store
    <2> HIDE DEF e, e1
    <2>1. /\ e1 \in Requests /\ Kept(e1, q) /\ e1.at = "answer" /\ e1.modified = q.modified
          /\ e1.as = q.as /\ e1.data = q.data /\ e1.sid = q.sid
      BY <1>1, <1>3, SetAt DEF Places
    <2>2. Shaped(e1) /\ Unused(e1) /\ Copy(e1)
      BY <1>1, <2>1 DEF Good, Shaped, Unused, Copy, Kept
    <2>3. Rooted(e1)
      BY <1>1, <2>1 DEF Good, Rooted, Home, Kept
    <2>4. Granted(e1)
      BY <1>1, <2>1 DEF Good, Granted, Kept
    <2>5. e1.n = q.n /\ Good(e1)
      BY <2>1, <2>2, <2>3, <2>4 DEF Good, Kept
    <2> QED BY <1>1, <1>2, <1>4, <2>5, Plain
  <1>5. CASE /\ q.modified /\ q.data # Empty /\ store' = [store EXCEPT ![q.n] = q.data]
             /\ req' = [req EXCEPT ![c] = e]
    <2> HIDE DEF e, e1
    <2>1. /\ e1 \in Requests /\ Kept(e1, q) /\ e1.at = "answer"
          /\ e1.as = q.as /\ e1.data = q.data
      BY <1>1, <1>3, SetAt DEF Places
    <2>2. /\ e \in Requests /\ Kept(e, e1) /\ e.at = e1.at /\ e.as = e1.as
          /\ e.data = e1.data /\ e.sid = q.n
      <3>1. e1 \in Requests /\ q.n \in Sids \cup {none} /\ e = [e1 EXCEPT !.sid = q.n]
        BY <1>1, <1>3, <2>1
      <3> QED BY <3>1, SetSid
    <2>3. /\ Kept(e, q) /\ e.at = "answer" /\ e.as = q.as /\ e.data = q.data
      BY <2>1, <2>2 DEF Kept
    <2>4. q.data \in Records /\ q.sid = none /\ q.data.token = root[q.n]
      BY <1>1, <1>5, Fields DEF Good, Unused, Rooted, Home
    <2>5. Typed /\ sent \in 0..MaxRequests /\ store \in [Sids -> Records \cup {none}]
      BY DEF Inv, Typed
    <2>6. /\ \A x \in Sids : store'[x] = IF x = q.n THEN q.data ELSE store[x]
          /\ store' \in [Sids -> Records \cup {none}]
      BY <1>1, <1>5, <2>4, <2>5
    <2>7. \A x \in Sids : Known(x)' <=> Known(x) \/ x = q.n
      BY <1>2, <2>4, <2>6, Nones DEF Known
    <2>8. \A d \in Slots \ {c} : req'[d] = req[d] /\
             (req[d].at # "idle" => req[d].n # q.n /\ req[d].n \in Sids)
      <3>1. \A d \in Slots \ {c} : req'[d] = req[d]
        BY <1>5 DEF Inv
      <3>2. \A d \in Slots \ {c} : req[d].at # "idle" => req[d].n # q.n
        BY <1>1 DEF Inv, Distinct
      <3>3. \A d \in Slots \ {c} : req[d].at # "idle" => req[d].n \in Sids
        BY <2>5, Nones DEF Inv, Good, Shaped
      <3> QED BY <3>1, <3>2, <3>3
    <2>9. Steady(c)
      <3>1. \A d \in Slots \ {c} : req[d].at \notin {"idle", "answer"} => ~Known(req[d].n)'
        BY <2>7, <2>8 DEF Inv, Good, Unused
      <3>2. \A s \in Sids : Known(s) => store'[s] = store[s]
        BY <1>1, <2>6
      <3> QED BY <1>2, <2>5, <2>7, <2>8, <3>1, <3>2 DEF Steady
    <2>10. \A d \in Slots \ {c} : Good(req[d])'
      BY <2>9, OthersGood
    <2>11. req'[c] = e /\ req' \in [Slots -> Requests]
      BY <1>5, <2>2 DEF Inv
    <2>12. Shaped(req[c])'
      BY <1>1, <1>2, <2>2, <2>3, <2>11 DEF Good, Shaped, Kept
    <2>13. Unused(req[c])' /\ Copy(req[c])'
      <3>1. store'[q.n] = q.data
        BY <1>1, <2>6
      <3> QED BY <1>5, <2>2, <2>3, <2>11, <3>1 DEF Unused, Copy, Kept
    <2>14. Rooted(req[c])'
      <3>1. e.form = q.form /\ (e.form # none => e.form.sid \in Sids \cup {none})
        BY <2>2, <2>3, Fields, Nones DEF Kept
      <3>2. e.form # none /\ e.form.sid # none => Known(e.form.sid) /\ e.form.token = root[e.form.sid]
        BY <1>1, <3>1 DEF Good, Rooted
      <3>3. \A x \in Sids : Known(x) => store'[x] # none \/ x \in ended'
        BY <2>7 DEF Known
      <3>4. q.n # none
        BY <1>1, Nones
      <3>5. e.cookie = q.cookie /\ e.cookie \in Sids \cup {none}
        BY <2>2, <2>3, Fields DEF Kept
      <3>6. e.cookie # none => store'[e.cookie] # none \/ e.cookie \in ended'
        BY <1>1, <3>3, <3>5 DEF Good, Rooted
      <3> QED BY <1>2, <2>2, <2>3, <2>4, <2>11, <3>1, <3>2, <3>3, <3>4, <3>6 DEF Rooted, Home, Known
    <2>15. Granted(req[c])'
      BY <1>1, <1>2, <2>3, <2>11 DEF Good, Granted, Kept
    <2>16. Distinct'
      <3>1. e.n = q.n
        BY <2>3 DEF Kept
      <3>2. \A x, d \in Slots : x # d /\ req'[x].at # "idle" /\ req'[d].at # "idle"
               => req'[x].n # req'[d].n
        BY <1>1, <2>8, <2>11, <3>1 DEF Inv, Distinct
      <3> QED BY <3>2 DEF Distinct
    <2>17. Typed'
      BY <1>2, <2>6 DEF Inv, Typed
    <2>18. Lines'
      <3>1. \A s \in Sids : (s \in ended => store'[s] = none)
        BY <1>1, <2>6 DEF Inv, Lines, Known
      <3>2. \A s \in Sids : store'[s] # none => store'[s].token = root[s]
        BY <2>4, <2>6 DEF Inv, Lines
      <3>3. \A s \in Sids : s > sent => ~Known(s)' /\ root[s] = s
        <4>1. \A s \in Sids : s > sent => s # q.n
          BY <1>1, <2>5, Nones
        <4> QED BY <2>7, <4>1 DEF Inv, Lines
      <3>4. \A f \in browser.forms : f.sid # none => Known(f.sid)' /\ f.token = root[f.sid]
        BY <2>7, Nones DEF Inv, Lines, Typed
      <3>5. browser.sid # none => Known(browser.sid)'
        BY <1>2, <2>7 DEF Inv, Lines, Typed
      <3> QED BY <1>2, <3>1, <3>2, <3>3, <3>4, <3>5 DEF Lines, Known
    <2> QED BY <2>10, <2>11, <2>12, <2>13, <2>14, <2>15, <2>16, <2>17, <2>18 DEF Inv, Good
  <1>6. q.modified /\ q.data # Empty => q.sid = none
    BY <1>1 DEF Good, Unused
  <1> QED BY <1>4, <1>5, <1>6 DEF save, Go

(***************************************************************************)
(* Users and app passwords.                                                *)
(***************************************************************************)
LEMMA Account ==
    ASSUME Inv, create_app_password \/ revoke_app_password \/ delete_user
    PROVE  Inv'
  <1>1. /\ UNCHANGED <<store, browser, req, tokens, sent, ended, root>>
        /\ users' \subseteq users
        /\ devices' \in [AppPasswords -> {"absent", "active", "revoked"}]
        /\ \A p \in AppPasswords : devices[p] = "revoked" => devices'[p] = "revoked"
    BY DEF create_app_password, create, revoke_app_password, revoke, delete_user, Inv, Typed
  <1>2. \A c \in Slots : Good(req[c])'
    <2> SUFFICES ASSUME NEW c \in Slots PROVE Good(req[c])'
      OBVIOUS
    <2> DEFINE q == req[c]
    <2>1. Good(q) /\ req'[c] = q
      BY <1>1 DEF Inv
    <2>2. Shaped(req[c])' /\ Unused(req[c])' /\ Copy(req[c])'
      BY <1>1, <2>1 DEF Good, Shaped, Unused, Copy, Known
    <2>3. Rooted(req[c])'
      BY <1>1, <2>1 DEF Good, Rooted, Home, Known
    <2>4. Granted(req[c])'
      BY <1>1, <2>1 DEF Good, Granted, Shaped
    <2> QED BY <2>2, <2>3, <2>4 DEF Good
  <1>3. Typed'
    BY <1>1 DEF Inv, Typed
  <1>4. Lines' /\ Distinct' /\ req' \in [Slots -> Requests]
    BY <1>1 DEF Inv, Lines, Distinct, Known
  <1> QED BY <1>2, <1>3, <1>4 DEF Inv

LEMMA Rests ==
    ASSUME Inv, UNCHANGED vars
    PROVE  Inv'
  BY DEF Inv, vars, Typed, Lines, Distinct, Known, Good, Shaped, Unused, Copy, Rooted, Granted, Home

\* Every step of the browser, of a handler or of the session layer keeps it.
THEOREM Stepwise == Inv /\ [Next]_vars => Inv'
  <1> SUFFICES ASSUME Inv, [Next]_vars PROVE Inv'
    OBVIOUS
  <1>1. CASE UNCHANGED vars
    BY <1>1, Rests
  <1>2. CASE Expire
    BY <1>2, Expires
  <1>3. CASE create_app_password \/ revoke_app_password \/ delete_user
    BY <1>3, Account
  <1>4. ASSUME NEW c \in Slots,
               \/ Browse(c) \/ LogIn(c) \/ LogOut(c) \/ Submit(c) \/ Call(c) \/ Mint(c) \/ Dav(c)
        PROVE  Inv'
    BY <1>4, Browsers
  <1>5. ASSUME NEW c \in Slots,
               \/ csrf_middleware(c) \/ AuthSession(c) \/ BearerOrSession(c) \/ mint_token(c)
               \/ verify_password(c) \/ login(c) \/ logout(c)
        PROVE  Inv'
    BY <1>5, Middleware, AuthSessions, Bearers, Mints, VerifiesPassword, Logins, Logouts
  <1>6. ASSUME NEW c \in Slots,
               \/ save(c) \/ Fail(c) \/ Receive(c) \/ Drop(c) \/ authenticate(c) \/ dav(c)
        PROVE  Inv'
    BY <1>6, Saves, Fails, Receives, Drops, Authenticates, Davs
  <1> QED BY <1>1, <1>2, <1>3, <1>4, <1>5, <1>6 DEF Next

\* So it holds in every state.
THEOREM Always == Spec => []Inv
  BY Initially, Stepwise, PTL DEF Spec

(***************************************************************************)
(* The properties.                                                         *)
(***************************************************************************)
\* The types of the state of sessions, requests and app passwords.
THEOREM TypesHold == Spec => []TypeOK
  <1>1. Inv => TypeOK
    <2> SUFFICES ASSUME Inv PROVE TypeOK
      OBVIOUS
    <2>1. \A c \in Slots : req[c] \in Requests
      BY DEF Inv
    <2>2. \A c \in Slots :
             /\ req[c].kind \in Kinds \cup {"none"} /\ req[c].at \in Places
             /\ req[c].sid \in Sids \cup {none} /\ req[c].data \in Records \cup {Empty}
             /\ req[c].csrf \in CsrfTokens \cup {none}
             /\ req[c].as \in Users \cup {none}
      BY <2>1, Fields
    <2> QED BY <2>2 DEF Inv, Typed, TypeOK, Places
  <1> QED BY <1>1, Always, PTL

\* A form is turned away only when the browser sent it without a session, with one that has
\* ended (a login that has deleted it and not yet answered included), or with one of another
\* line: a login, which changes the id, keeps the token.
THEOREM FormsStayGood == Spec => []FormsAccepted
  <1>1. Inv => FormsAccepted
    <2> SUFFICES ASSUME Inv, NEW c \in Slots, req[c].at = "rejected", req[c].form.sid # none,
                        req[c].cookie # none, req[c].cookie \notin ended
                 PROVE  root[req[c].cookie] # root[req[c].form.sid]
      BY DEF FormsAccepted
    <2> DEFINE q == req[c]
    <2>1. Good(q) /\ q \in Requests /\ q.kind = "submit" /\ q.sid = q.cookie /\ q.sid # none
      BY DEF Inv, Good, Rooted
    <2>2. q.form \in Forms /\ q.form # none
      BY <2>1, Nones DEF Good, Shaped
    <2>3. q.data # Empty => q.data.token = root[q.sid]
      BY <2>1 DEF Good, Rooted, Home
    <2>4. q.form.token = root[q.form.sid] /\ q.data.token # q.form.token
      BY <2>1, <2>2 DEF Good, Rooted
    <2>5. q.data # Empty
      BY <2>1 DEF Good, Copy
    <2> QED BY <2>1, <2>3, <2>4, <2>5
  <1> QED BY <1>1, Always, PTL

\* Nobody gets in with a session, an app password or an account that had ended.
THEOREM NobodyPassesLate == Spec => []GrantedWasLive
  <1>1. Inv => GrantedWasLive
    BY DEF Inv, Good, Granted, GrantedWasLive
  <1> QED BY <1>1, Always, PTL

\* The user and the token of a session never change, and what ended stays ended.
THEOREM SessionsAreFinal == Spec => RecordsAreFinal
  <1>1. Inv /\ Inv' /\ [Next]_vars =>
          [\A s \in Sids :
             /\ store[s] # none /\ store'[s] # none => store'[s] = store[s]
             /\ s \in ended => store'[s] = none]_vars
    <2> SUFFICES ASSUME Inv, Next, NEW s \in Sids
                 PROVE  /\ store[s] # none /\ store'[s] # none => store'[s] = store[s]
                        /\ s \in ended => store'[s] = none
      OBVIOUS
    <2>1. s \in ended => store[s] = none
      BY DEF Inv, Lines
    <2>2. CASE UNCHANGED store
      BY <2>1, <2>2
    <2>3. ASSUME NEW x, Forget(x)
          PROVE  store'[s] = none \/ store'[s] = store[s]
      BY <2>3 DEF Forget
    <2>4. ASSUME NEW c \in Slots, save(c), store' # store
          PROVE  store'[s] = store[s] \/ (store[s] = none /\ s \notin ended)
      <3> DEFINE q == req[c]
      <3>1. q \in Requests /\ Good(q) /\ q.modified /\ q.at \in {"end", "rejected"}
        BY <2>4 DEF Inv, save
      <3>2. q.sid = none /\ ~Known(q.n)
        BY <3>1 DEF Good, Unused
      <3>3. store' = [store EXCEPT ![q.n] = q.data]
        BY <2>4, <3>2 DEF save
      <3>4. store \in [Sids -> Records \cup {none}]
        BY DEF Inv, Typed
      <3> QED BY <3>2, <3>3, <3>4 DEF Known
    <2>5. \/ UNCHANGED store \/ (\E x : Forget(x)) \/ \E c \in Slots : save(c)
      <3>1. CASE Expire
        BY <3>1 DEF Expire
      <3>2. CASE create_app_password \/ revoke_app_password \/ delete_user
        BY <3>2 DEF create_app_password, create, revoke_app_password, revoke, delete_user
      <3>3. ASSUME NEW c \in Slots,
                   \/ Browse(c) \/ LogIn(c) \/ LogOut(c) \/ Submit(c) \/ Call(c) \/ Mint(c)
                   \/ Dav(c)
            PROVE  UNCHANGED store
        BY <3>3 DEF Browse, LogIn, LogOut, Submit, Call, Mint, Dav, Send
      <3>4. ASSUME NEW c \in Slots,
                   \/ csrf_middleware(c) \/ AuthSession(c) \/ BearerOrSession(c) \/ mint_token(c)
                   \/ verify_password(c) \/ Fail(c) \/ Receive(c) \/ Drop(c) \/ authenticate(c)
                   \/ dav(c)
            PROVE  UNCHANGED store
        BY <3>4 DEF csrf_middleware, AuthSession, BearerOrSession, mint_token, verify_password,
                    Fail, Receive, Drop, authenticate, dav
      <3>5. ASSUME NEW c \in Slots, login(c) \/ logout(c)
            PROVE  \E x : Forget(x)
        BY <3>5 DEF login, logout
      <3> QED BY <3>1, <3>2, <3>3, <3>4, <3>5 DEF Next
    <2> QED BY <2>1, <2>2, <2>3, <2>4, <2>5
  <1> QED BY <1>1, Always, PTL DEF Spec, RecordsAreFinal
=============================================================================
