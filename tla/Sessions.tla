------------------------------ MODULE Sessions ------------------------------
(***************************************************************************)
(* Who a request is.  A browser with several requests in flight holds a    *)
(* session cookie, the readable CSRF cookie and the forms it has been      *)
(* shown; a session is a record in the store with the user who logged in   *)
(* and the CSRF token.  A request works on the copy of the record that it  *)
(* loaded, and the session layer stores the copy at the end only when the  *)
(* request changed it.  Beside it: bearer tokens and app passwords, which  *)
(* know nothing of sessions, and users, who may be deleted meanwhile.      *)
(*                                                                         *)
(* The audit entries that the handlers end with are left out: nothing      *)
(* below depends on them.                                                  *)
(***************************************************************************)
EXTENDS Naturals

CONSTANTS
    Slots,         \* requests in flight
    Users,
    AppPasswords,
    holder,        \* whose an app password is
    none,
    MaxRequests    \* bounds the requests: each has a number, and the number is also the
                   \* session id and the token it may make up

Numbers == 1..MaxRequests
Sids == Numbers
CsrfTokens == Numbers
Empty == [user |-> none, token |-> none]
Records == [user : Users \cup {none}, token : CsrfTokens]
Forms == [token : CsrfTokens, sid : Sids \cup {none}]

ASSUME HoldersKnown ==
    /\ holder \in [AppPasswords -> Users]
    /\ MaxRequests \in Nat
    /\ none \notin Nat \cup Users \cup AppPasswords \cup Records \cup Forms \cup {Empty}

VARIABLES
    users,     \* the users there are
    store,     \* tower_sessions.session
    browser,   \* its cookies and forms
    req,       \* the requests in flight
    tokens,    \* the subjects of the bearer tokens minted
    devices,   \* the app passwords: absent, active or revoked
    sent,      \* requests so far
    ended,     \* session ids that were deleted: a history
    root       \* the session a session goes back to through logins: a history

vars == <<users, store, browser, req, tokens, devices, sent, ended, root>>
Kinds == {"page", "login", "logout", "submit", "call", "mint", "dav"}
Idle == [kind |-> "none", at |-> "idle", n |-> 0, cookie |-> none, shown |-> FALSE,
         form |-> none, claim |-> none, sid |-> none, data |-> Empty, modified |-> FALSE,
         csrf |-> none, as |-> none, spent |-> FALSE, absent |-> {}]

TypeOK ==
    /\ users \subseteq Users /\ tokens \subseteq Users
    /\ store \in [Sids -> Records \cup {none}]
    /\ browser.sid \in Sids \cup {none} /\ browser.csrf \in CsrfTokens \cup {none}
    /\ browser.forms \subseteq Forms
    /\ devices \in [AppPasswords -> {"absent", "active", "revoked"}]
    /\ sent \in 0..MaxRequests /\ ended \subseteq Sids /\ root \in [Sids -> Sids]
    /\ \A c \in Slots :
          /\ req[c].kind \in Kinds \cup {"none"}
          /\ req[c].at \in {"idle", "sent", "handle", "verified", "end", "rejected", "answer"}
          /\ req[c].sid \in Sids \cup {none} /\ req[c].data \in Records \cup {Empty}
          /\ req[c].csrf \in CsrfTokens \cup {none}
          /\ req[c].as \in Users \cup {none}

Go(c, q) == req' = [req EXCEPT ![c] = q]

(***************************************************************************)
(* The browser sends a request: with what it holds at that moment.         *)
(***************************************************************************)
Send(c, kind, form, claim, spent) ==
    /\ req[c] = Idle /\ sent < MaxRequests /\ sent' = sent + 1
    /\ Go(c, [kind |-> kind, at |-> "sent", n |-> sent + 1,
              cookie |-> IF kind = "dav" THEN none ELSE browser.sid,
              shown |-> browser.csrf # none, form |-> form, claim |-> claim,
              sid |-> none, data |-> Empty, modified |-> FALSE, csrf |-> none, as |-> none,
              spent |-> spent, absent |-> Users \ users])
    /\ UNCHANGED <<users, store, browser, tokens, devices, ended, root>>

SpentCookie == browser.sid \in ended

Browse(c) == Send(c, "page", none, none, SpentCookie)
\* with the right password of a user, or a wrong one
LogIn(c) == \E u \in Users \cup {none} : Send(c, "login", none, u, SpentCookie)
LogOut(c) == Send(c, "logout", none, none, SpentCookie)
\* a form with its field, or a request of a script with the header taken from the cookie
Submit(c) ==
    \/ \E f \in browser.forms : Send(c, "submit", f, none, SpentCookie)
    \/ /\ browser.csrf # none
       /\ Send(c, "submit", [token |-> browser.csrf, sid |-> none], none, SpentCookie)
\* /v1, with the cookie and perhaps a bearer token
Call(c) == \E u \in tokens \cup {none} : Send(c, "call", none, u, SpentCookie)
Mint(c) == \E u \in Users \cup {none} : Send(c, "mint", none, u, SpentCookie)
\* WebDAV, with an app password
Dav(c) == \E p \in AppPasswords :
             devices[p] # "absent" /\ Send(c, "dav", none, p, devices[p] = "revoked")

(***************************************************************************)
(* The session a request works on: loaded when it is first read, and none  *)
(* when the store has no record of that id.                                *)
(***************************************************************************)
Loaded(c) ==
    IF req[c].cookie = none \/ store[req[c].cookie] = none THEN req[c]
    ELSE [req[c] EXCEPT !.sid = req[c].cookie, !.data = store[req[c].cookie]]

ensure_token(q) ==
    IF q.data.token # none THEN q
    ELSE [q EXCEPT !.data.token = q.n, !.modified = TRUE]

\* and the token goes with the answer when the request came without the readable cookie
Ensured(q) ==
    LET e == ensure_token(q)
    IN [e EXCEPT !.at = "handle", !.csrf = IF q.shown THEN none ELSE e.data.token]

\* (as if a login did not pass the middleware)
AdmittedExempt(q) ==
    IF q.kind = "login" THEN [q EXCEPT !.at = "handle"]
    ELSE IF q.kind = "submit"
    THEN IF q.data.token = q.form.token THEN [q EXCEPT !.at = "handle"]
         ELSE [q EXCEPT !.at = "rejected"]
    ELSE Ensured(q)

Admitted(q) ==
    IF q.kind = "submit"
    THEN IF q.data.token = q.form.token THEN [q EXCEPT !.at = "handle"]
         ELSE [q EXCEPT !.at = "rejected"]
    ELSE Ensured(q)

csrf_middleware(c) ==
    /\ req[c].at = "sent" /\ req[c].kind \in {"page", "login", "logout", "submit"}
    /\ Go(c, Admitted(Loaded(c)))
    /\ UNCHANGED <<users, store, browser, tokens, devices, sent, ended, root>>

(***************************************************************************)
(* The handlers.                                                           *)
(***************************************************************************)
\* the user of the session, if it still exists
Who(q) == IF q.data.user \in users THEN q.data.user ELSE none

AuthSession(c) ==
    /\ req[c].at = "handle" /\ req[c].kind \in {"page", "submit"}
    /\ Go(c, [req[c] EXCEPT !.at = "end", !.as = Who(req[c])])
    /\ UNCHANGED <<users, store, browser, tokens, devices, sent, ended, root>>

BearerOrSession(c) ==
    /\ req[c].at = "sent" /\ req[c].kind = "call"
    /\ LET q == Loaded(c)
       IN Go(c, [q EXCEPT !.at = "end",
                    !.as = IF Who(q) # none THEN Who(q)
                           ELSE IF q.claim \in users THEN q.claim ELSE none])
    /\ UNCHANGED <<users, store, browser, tokens, devices, sent, ended, root>>

\* the user of a session is not looked up: the token names whoever logged in
mint_token(c) ==
    /\ req[c].at = "sent" /\ req[c].kind = "mint"
    /\ LET q == Loaded(c)
           subject == IF q.data.user # none THEN q.data.user
                      ELSE IF q.claim \in users THEN q.claim ELSE none
       IN /\ tokens' = tokens \cup ({subject} \ {none})
          /\ Go(c, [q EXCEPT !.at = "end"])
    /\ UNCHANGED <<users, store, browser, devices, sent, ended, root>>

\* login reads the user and checks the password,
verify_password(c) ==
    /\ req[c].at = "handle" /\ req[c].kind = "login"
    /\ Go(c, [req[c] EXCEPT !.at = IF req[c].claim \in users THEN "verified" ELSE "end"])
    /\ UNCHANGED <<users, store, browser, tokens, devices, sent, ended, root>>

Forget(sid) ==
    /\ store' = [s \in Sids |-> IF s = sid THEN none ELSE store[s]]
    /\ ended' = ended \cup ({sid} \ {none})

\* (as if the user were put into the session under the id it had)
loginWithoutCycle(c) ==
    /\ req[c].at = "verified" /\ req[c].kind = "login"
    /\ Go(c, [req[c] EXCEPT !.at = "end", !.modified = TRUE, !.data.user = req[c].claim])
    /\ UNCHANGED <<users, store, browser, tokens, devices, sent, ended, root>>

\* (as if a login gave the session a new token)
loginAfresh(c) ==
    /\ req[c].at = "verified" /\ req[c].kind = "login"
    /\ Forget(req[c].sid)
    /\ root' = IF req[c].sid = none THEN root ELSE [root EXCEPT ![req[c].n] = root[req[c].sid]]
    /\ Go(c, [req[c] EXCEPT !.at = "end", !.sid = none, !.modified = TRUE,
                            !.data = [user |-> req[c].claim, token |-> req[c].n]])
    /\ UNCHANGED <<users, browser, tokens, devices, sent>>

\* then gives up the id, deleting the record, and puts the user into the copy
login(c) ==
    /\ req[c].at = "verified" /\ req[c].kind = "login"
    /\ Forget(req[c].sid)
    /\ root' = IF req[c].sid = none THEN root ELSE [root EXCEPT ![req[c].n] = root[req[c].sid]]
    /\ Go(c, [req[c] EXCEPT !.at = "end", !.sid = none, !.modified = TRUE,
                            !.data.user = req[c].claim])
    /\ UNCHANGED <<users, browser, tokens, devices, sent>>

logout(c) ==
    /\ req[c].at = "handle" /\ req[c].kind = "logout"
    /\ Forget(req[c].sid)
    /\ Go(c, [req[c] EXCEPT !.at = "end", !.sid = none, !.data = Empty])
    /\ UNCHANGED <<users, browser, tokens, devices, sent, root>>

(***************************************************************************)
(* The end of a request: the session layer stores a session that changed,  *)
(* under a new id when it has none, and takes the cookie of one that is    *)
(* empty away; the middleware hands out the readable cookie.               *)
(***************************************************************************)
save(c) ==
    /\ req[c].at \in {"end", "rejected"}
    /\ LET q   == req[c]
           sid == IF q.sid = none THEN q.n ELSE q.sid
       IN IF q.modified /\ q.data # Empty
          THEN /\ store' = [store EXCEPT ![sid] = q.data]
               /\ Go(c, [q EXCEPT !.at = "answer", !.sid = sid])
          ELSE Go(c, [q EXCEPT !.at = "answer"]) /\ UNCHANGED store
    /\ UNCHANGED <<users, browser, tokens, devices, sent, ended, root>>

\* a handler failed: the answer is a server error, and nothing is stored (a logout that
\* changed its copy before has no record to delete, and nothing in it fails)
Fail(c) ==
    /\ req[c].at \in {"handle", "end"} /\ req[c].modified /\ req[c].kind # "logout"
    /\ Go(c, [req[c] EXCEPT !.at = "end", !.modified = FALSE])
    /\ UNCHANGED <<users, store, browser, tokens, devices, sent, ended, root>>

SessionCookie(q) ==
    IF q.data = Empty THEN IF q.cookie = none THEN browser.sid ELSE none
    ELSE IF q.modified THEN q.sid
    ELSE browser.sid

\* the middleware appends its cookie to the answer of the handler, after the one that a
\* logout takes away with
CsrfCookie(q) ==
    IF q.csrf # none THEN q.csrf
    ELSE IF q.kind = "logout" THEN none
    ELSE browser.csrf

Receive(c) ==
    /\ req[c].at = "answer"
    /\ browser' = [sid   |-> SessionCookie(req[c]),
                   csrf  |-> CsrfCookie(req[c]),
                   forms |-> browser.forms \cup
                             (IF req[c].kind = "page" /\ req[c].sid # none
                              THEN {[token |-> req[c].data.token, sid |-> req[c].sid]}
                              ELSE {})]
    /\ Go(c, Idle)
    /\ UNCHANGED <<users, store, tokens, devices, sent, ended, root>>

\* the client went away: the handler is dropped where it is, and nothing is stored
Drop(c) ==
    /\ req[c].at # "idle" /\ Go(c, Idle)
    /\ UNCHANGED <<users, store, browser, tokens, devices, sent, ended, root>>

Expire ==
    /\ \E s \in Sids : store[s] # none /\ Forget(s)
    /\ UNCHANGED <<users, browser, req, tokens, devices, sent, root>>

(***************************************************************************)
(* App passwords: the rows are read, the token is compared with each of    *)
(* them, and only then is the use written down.                            *)
(***************************************************************************)
\* (as if revoked passwords were candidates too)
CandidatesAll == {p \in AppPasswords : devices[p] # "absent"}
find_candidates_by_prefix == {p \in AppPasswords : devices[p] = "active"}

authenticate(c) ==
    /\ req[c].at = "sent" /\ req[c].kind = "dav"
    /\ IF holder[req[c].claim] \in users /\ req[c].claim \in find_candidates_by_prefix
       THEN Go(c, [req[c] EXCEPT !.at = "verified"])
       ELSE Go(c, Idle)
    /\ UNCHANGED <<users, store, browser, tokens, devices, sent, ended, root>>

\* the user is read once more, for the private library
dav(c) ==
    /\ req[c].at = "verified" /\ req[c].kind = "dav"
    /\ Go(c, [req[c] EXCEPT !.at = "end",
                !.as = IF holder[req[c].claim] \in users THEN holder[req[c].claim] ELSE none])
    /\ UNCHANGED <<users, store, browser, tokens, devices, sent, ended, root>>

create ==
    /\ \E p \in AppPasswords :
          /\ devices[p] = "absent" /\ holder[p] \in users
          /\ devices' = [devices EXCEPT ![p] = "active"]
    /\ UNCHANGED <<users, store, browser, req, tokens, sent, ended, root>>

\* with a name the user has not given to another one, revoked ones included
create_app_password == create

revoke ==
    /\ \E p \in AppPasswords :
          devices[p] = "active" /\ devices' = [devices EXCEPT ![p] = "revoked"]
    /\ UNCHANGED <<users, store, browser, req, tokens, sent, ended, root>>

revoke_app_password == revoke

\* the row of an app password, revoked or not, refers to its user
delete_user ==
    /\ \E u \in users :
          /\ \A p \in AppPasswords : holder[p] = u => devices[p] = "absent"
          /\ users' = users \ {u}
    /\ UNCHANGED <<store, browser, req, tokens, devices, sent, ended, root>>

Init ==
    /\ users = Users
    /\ store = [s \in Sids |-> none]
    /\ browser = [sid |-> none, csrf |-> none, forms |-> {}]
    /\ req = [c \in Slots |-> Idle]
    /\ tokens = {} /\ devices = [p \in AppPasswords |-> "absent"]
    /\ sent = 0 /\ ended = {} /\ root = [s \in Sids |-> s]

Next ==
    \/ Expire \/ create_app_password \/ revoke_app_password \/ delete_user
    \/ \E c \in Slots :
          \/ Browse(c) \/ LogIn(c) \/ LogOut(c) \/ Submit(c) \/ Call(c) \/ Mint(c) \/ Dav(c)
          \/ csrf_middleware(c) \/ AuthSession(c) \/ BearerOrSession(c) \/ mint_token(c)
          \/ verify_password(c) \/ login(c) \/ logout(c)
          \/ save(c) \/ Fail(c) \/ Receive(c) \/ Drop(c) \/ authenticate(c) \/ dav(c)

Spec == Init /\ [][Next]_vars

(***************************************************************************)
(* Properties.                                                             *)
(***************************************************************************)
\* What a session is does not change: while its record is there it is of the same user and has
\* the same token, and once a logout, a login or time has ended it no request that had loaded
\* it before brings it back, although storing a session inserts the record when it is missing.
RecordsAreFinal ==
    [][\A s \in Sids :
          /\ store[s] # none /\ store'[s] # none => store'[s] = store[s]
          /\ s \in ended => store'[s] = none]_vars

\* A form is turned away only when the browser sent it without a session, with one that has
\* ended, or with one that does not go back through logins to the session the form is from.
\* So while its session is there a form stays good, through logins and whatever else is in
\* flight.  One that has ended was logged out, or expired, or is that of a login which has
\* deleted it and not yet answered: in that window the browser still sends the old id, and
\* the middleware, which finds no token, refuses a form of the same line.
FormsAccepted ==
    \A c \in Slots :
       req[c].at = "rejected" /\ req[c].form.sid # none =>
          \/ req[c].cookie = none
          \/ req[c].cookie \in ended
          \/ root[req[c].cookie] # root[req[c].form.sid]

\* Nobody gets in with what had ended before the request was sent: a session that was logged
\* out, an app password that was revoked, an account that was deleted.  (A request that was
\* sent before may still be let in.)
GrantedWasLive ==
    \A c \in Slots :
       req[c].as # none =>
          /\ req[c].as \notin req[c].absent
          /\ req[c].spent => req[c].kind = "call" /\ req[c].as = req[c].claim
=============================================================================
