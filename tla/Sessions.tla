------------------------------ MODULE Sessions ------------------------------
(***************************************************************************)
(* The server side of one account's session: the users row, the account's  *)
(* refresh_tokens row, the two Redis keys refresh:<id> and access:<id>,    *)
(* and the requests that read and write them, from browser tabs that share *)
(* their browser's cookies and keep an access token in memory.             *)
(*                                                                         *)
(* A sign-in or a refresh mints a pair of tokens under one number and      *)
(* writes it to Postgres, then to refresh:<id>, then to access:<id>, one   *)
(* await at a time; a cookie changes when the answer reaches the browser.  *)
(* A number that no store, cookie, tab or request holds any more may be    *)
(* minted again.  What the pages do with the answers is Pages's part.      *)
(***************************************************************************)
EXTENDS Naturals, Sequences, FiniteSets

CONSTANTS
    Tabs,           \* browser tabs the account's owner works in
    Jars,           \* browsers: the tabs of one browser share its cookies
    Pairs,          \* numbers for token pairs
    None,           \* no token, no secret, no request
    RequestBudget,  \* requests the tabs send
    EventBudget     \* administrators' operations, lost answers and Redis keys

Ops == {"activate", "changePassword", "login", "enrollStart", "enrollVerify", "verify", "me",
        "logout", "refresh"}

\* There is a number left for another pair when every place that can hold one does.
ASSUME SessionConstants ==
    /\ 1 \in Pairs /\ None \notin Pairs \cup Tabs /\ None \notin Ops
    /\ IsFiniteSet(Tabs) /\ IsFiniteSet(Jars)
    /\ IsFiniteSet(Pairs) => Cardinality(Pairs) > 3 + Cardinality(Jars) + 5 * Cardinality(Tabs)
    /\ RequestBudget \in Nat /\ EventBudget \in Nat

VARIABLES
    jarOf,          \* the browser of each tab
    account,        \* the users row and its activation token
    row,            \* the account's refresh_tokens row
    redis,          \* refresh:<id> and access:<id>
    cookies,        \* the refresh and MFA cookies of each browser
    bearer,         \* the access token each tab keeps in memory
    req,            \* the request each tab has in flight
    admin,          \* an administrator's operation has yet to revoke the row
    calm,           \* no two session writers overlapped and none was cut off
    left            \* what is left of the two budgets

stores == <<account, row, redis>>
vars == <<jarOf, account, row, redis, cookies, bearer, req, admin, calm, left>>

\* The handlers that write the records of the session.
Writers == {"refresh", "verify", "enrollVerify", "logout"}

\* The handlers for which what is typed in, a password or a code, may be wrong.
Typed == {"changePassword", "login", "verify", "enrollVerify"}

NoRequest == [op |-> None]
Busy(t) == req[t].op # None

\* An answer: its status, what it does to the two cookies, the pair it carries.
Answer(status, refresh, mfa, pair) ==
    [status |-> status, refresh |-> refresh, mfa |-> mfa, pair |-> pair]
Plain(status) == Answer(status, "keep", "keep", None)
Failed == Plain(0)

SetMfaCookie == Answer(200, "clear", "set", None)
SetRefreshCookie(mfa, p) == Answer(200, "set", mfa, p)
ClearAuthCookies(status) == Answer(status, "clear", "clear", None)

\* A request leaves with the access token and the cookies of this moment.
Sent(op, t, right) ==
    [op |-> op, pc |-> "sent", right |-> right, bearer |-> bearer[t],
     cookie |-> cookies[jarOf[t]].refresh, mfa |-> cookies[jarOf[t]].mfa,
     pair |-> None, secret |-> None, todo |-> << >>, answer |-> Failed]

SetCookiesUndefined(jar, a) ==
    [refresh |-> IF a.refresh = "keep" THEN jar.refresh ELSE a.pair,
     mfa |-> CASE a.mfa = "keep" -> jar.mfa [] a.mfa = "set" -> TRUE [] OTHER -> None]
SetCookies(jar, a) ==
    [refresh |-> IF a.refresh = "keep" THEN jar.refresh ELSE a.pair,
     mfa |-> IF a.mfa = "keep" THEN jar.mfa ELSE a.mfa = "set"]

-----------------------------------------------------------------------------
(* A handler reads, decides, and then performs one await at a time the     *)
(* writes its "todo" names.                                                *)

RefreshWrites == <<"upsertRow", "setRefresh", "setAccess">>
LoginWrites == <<"upsertRow", "setRefresh", "setAccess", "reread">>
EnrollmentWrites == <<"enroll", "setRefresh", "setAccess">>
RevokeWrites == <<"revokeRow", "delRefresh", "delAccess">>

InUse ==
    {row.hash, redis.refresh, redis.access}
      \cup {cookies[j].refresh : j \in Jars} \cup {bearer[t] : t \in Tabs}
      \cup UNION {{req[t].bearer, req[t].cookie, req[t].pair, req[t].answer.pair} :
                    t \in {u \in Tabs : Busy(u)}}

FreshPair == CHOOSE p \in Pairs : p \notin InUse

\* What a handler decided: the answer it will give when its writes are done.
Decision(todo, answer, pair, secret) ==
    [todo |-> todo, answer |-> answer, pair |-> pair, secret |-> secret]
Refuse(status) == Decision(<< >>, Plain(status), None, None)

HandleActivate(r) == Decision(<<"claim">>, Plain(204), None, None)

\* requireAuth: the access token must be the one access:<id> names.
Authenticated(r) == r.bearer # None /\ r.bearer = redis.access

HandleChangePassword(r) ==
    CASE ~Authenticated(r) -> Refuse(401)
      [] Authenticated(r) /\ ~account.active -> Refuse(404)
      [] Authenticated(r) /\ account.active /\ ~r.right -> Refuse(401)
      [] OTHER -> Decision(<<"setPassword">>, Plain(204), None, None)

HandleLogin(r) ==
    IF account.active /\ account.password # None /\ r.right
    THEN Decision(<< >>, SetMfaCookie, None, None)
    ELSE Refuse(401)

HandleEnrollStart(r) ==
    IF ~r.mfa THEN Refuse(400)
    ELSE IF ~account.active THEN Refuse(404)
    ELSE IF account.enrolled THEN Refuse(400)
    ELSE Decision(<<"pending">>, Plain(200), None, None)

\* The code is checked against the secret read here, and that secret is kept.
HandleEnrollVerify(r, t) ==
    IF ~r.mfa THEN Refuse(400)
    ELSE IF ~account.active THEN Refuse(404)
    ELSE IF account.enrolled \/ account.pending # t \/ ~r.right THEN Refuse(400)
    ELSE Decision(EnrollmentWrites, SetRefreshCookie("clear", FreshPair), FreshPair, account.pending)

HandleVerify(r) ==
    IF ~r.mfa THEN Refuse(400)
    ELSE IF ~account.active THEN Refuse(404)
    ELSE IF ~account.enrolled THEN Refuse(400)
    ELSE IF ~r.right THEN Refuse(401)
    ELSE Decision(LoginWrites, SetRefreshCookie("clear", FreshPair), FreshPair, None)

HandleMe(r) ==
    Refuse(IF ~Authenticated(r) THEN 401 ELSE IF account.active THEN 200 ELSE 404)

HandleLogout(r) ==
    IF r.cookie = None THEN Decision(<<"delRefresh">>, ClearAuthCookies(204), None, None)
    ELSE IF row.hash # r.cookie THEN Refuse(404)
    ELSE Decision(RevokeWrites, ClearAuthCookies(204), None, None)

\* Redis first, the row when Redis has no answer; revokedAt is not looked at.
StoredRefresh == IF redis.refresh # None THEN redis.refresh ELSE row.hash

\* A cookie that is not the stored one ends the session in every store.
HandleRefresh(r) ==
    IF r.cookie = None THEN Refuse(404)
    ELSE IF r.cookie # StoredRefresh
         THEN Decision(RevokeWrites \o <<"delRefresh", "delAccess">>, ClearAuthCookies(401), None, None)
    ELSE IF ~account.active THEN Refuse(404)
    ELSE Decision(RefreshWrites, SetRefreshCookie("keep", FreshPair), FreshPair, None)

Handle(r, t) ==
    CASE r.op = "activate" -> HandleActivate(r)
      [] r.op = "changePassword" -> HandleChangePassword(r)
      [] r.op = "login" -> HandleLogin(r)
      [] r.op = "enrollStart" -> HandleEnrollStart(r)
      [] r.op = "enrollVerify" -> HandleEnrollVerify(r, t)
      [] r.op = "verify" -> HandleVerify(r)
      [] r.op = "me" -> HandleMe(r)
      [] r.op = "logout" -> HandleLogout(r)
      [] r.op = "refresh" -> HandleRefresh(r)

-----------------------------------------------------------------------------
(* The steps of a request.  It keeps only what later steps read.           *)

Put(t, r) == req' = [req EXCEPT ![t] = r]

Answered(r, a) ==
    [r EXCEPT !.pc = "answered", !.answer = a, !.todo = << >>, !.bearer = None,
              !.cookie = None, !.mfa = FALSE, !.pair = None, !.secret = None]

Working(r, d) ==
    IF d.todo = << >> THEN Answered(r, d.answer)
    ELSE [r EXCEPT !.pc = "work", !.todo = d.todo, !.answer = d.answer, !.pair = d.pair,
                   !.secret = d.secret, !.bearer = None, !.cookie = None, !.mfa = FALSE]

Spend(budget) == left[budget] > 0 /\ left' = [left EXCEPT ![budget] = @ - 1]

Send(t) ==
    /\ ~Busy(t) /\ Spend("request")
    /\ \E op \in Ops, right \in BOOLEAN :
          /\ right \/ op \in Typed
          /\ Put(t, Sent(op, t, right))
    /\ UNCHANGED <<stores, cookies, bearer, admin>>

\* Before logout requireAuth reads access:<id> in a step of its own.
RequireAuth(t) ==
    /\ Busy(t) /\ req[t].op = "logout" /\ req[t].pc = "sent"
    /\ Put(t, IF Authenticated(req[t]) THEN [req[t] EXCEPT !.pc = "handle", !.bearer = None]
                                       ELSE Answered(req[t], Plain(401)))
    /\ UNCHANGED <<stores, cookies, bearer, admin, left>>

Decide(t) ==
    /\ Busy(t) /\ req[t].pc = IF req[t].op = "logout" THEN "handle" ELSE "sent"
    /\ Put(t, Working(req[t], Handle(req[t], t)))
    /\ UNCHANGED <<stores, cookies, bearer, admin, left>>

\* The request's next write is w; after the last one the answer leaves.
NextWrite(t, w) ==
    /\ Busy(t) /\ req[t].pc = "work" /\ Head(req[t].todo) = w
    /\ Put(t, Working(req[t], [req[t] EXCEPT !.todo = Tail(@)]))
    /\ UNCHANGED <<cookies, bearer, admin, left>>

\* The handler throws: the writes that are left do not happen.
Throw(t, w, status) ==
    /\ Busy(t) /\ req[t].pc = "work" /\ Head(req[t].todo) = w
    /\ Put(t, Answered(req[t], Plain(status)))
    /\ UNCHANGED <<stores, cookies, bearer, admin, left>>

\* activateAccount: one transaction that claims the token if it is still unused
\* and sets the password.
ClaimableAgain == TRUE
Claimable == ~account.used
ActivateAccount(t) ==
    IF Claimable
    THEN /\ NextWrite(t, "claim")
         /\ account' = [account EXCEPT !.used = TRUE, !.password = t]
         /\ UNCHANGED <<row, redis>>
    ELSE Throw(t, "claim", 400)

SetPasswordHash(t) ==
    /\ NextWrite(t, "setPassword")
    /\ account' = [account EXCEPT !.password = t]
    /\ UNCHANGED <<row, redis>>

SetPendingMfaSecret(t) ==
    /\ NextWrite(t, "pending")
    /\ account' = [account EXCEPT !.pending = t]
    /\ UNCHANGED <<row, redis>>

\* completeMfaEnrollment promotes the secret the code was checked against, and
\* upserts the row in the same transaction.
PromotedSecretNow(r) == account.pending
PromotedSecret(r) == r.secret
CompleteMfaEnrollment(t) ==
    /\ NextWrite(t, "enroll")
    /\ account' = [account EXCEPT !.enrolled = TRUE, !.secret = PromotedSecret(req[t]),
                                  !.pending = None]
    /\ row' = [hash |-> req[t].pair, revoked |-> FALSE]
    /\ UNCHANGED redis

\* completeMfaLogin and addRefreshToken write the account's single row.
RowKept(t) == row
UpsertedRow(t) == [hash |-> req[t].pair, revoked |-> FALSE]
UpsertRow(t) ==
    /\ NextWrite(t, "upsertRow")
    /\ row' = UpsertedRow(t)
    /\ UNCHANGED <<account, redis>>

SetRefreshKey(t) ==
    /\ NextWrite(t, "setRefresh")
    /\ redis' = [redis EXCEPT !.refresh = req[t].pair]
    /\ UNCHANGED <<account, row>>

SetAccessKey(t) ==
    /\ NextWrite(t, "setAccess")
    /\ redis' = [redis EXCEPT !.access = req[t].pair]
    /\ UNCHANGED <<account, row>>

RevokeRefreshTokenForUser(t) ==
    /\ NextWrite(t, "revokeRow")
    /\ row' = [row EXCEPT !.revoked = TRUE]
    /\ UNCHANGED <<account, redis>>

DelRefreshKey(t) ==
    /\ NextWrite(t, "delRefresh")
    /\ redis' = [redis EXCEPT !.refresh = None]
    /\ UNCHANGED <<account, row>>

DelAccessKey(t) ==
    /\ NextWrite(t, "delAccess")
    /\ redis' = [redis EXCEPT !.access = None]
    /\ UNCHANGED <<account, row>>

\* verifyMfa looks the user up once more when everything is written.
FindFreshUser(t) ==
    IF account.active
    THEN NextWrite(t, "reread") /\ UNCHANGED stores
    ELSE Throw(t, "reread", 500)

\* The answer reaches the tab: its browser's cookies and its access token change.
Deliver(t) ==
    LET a == req[t].answer
    IN  /\ Busy(t) /\ req[t].pc = "answered"
        /\ cookies' = [cookies EXCEPT ![jarOf[t]] = SetCookies(@, a)]
        /\ bearer' = [bearer EXCEPT ![t] = CASE a.pair # None -> a.pair
                                             [] a.pair = None /\ req[t].op = "logout" -> None
                                             [] OTHER -> @]
        /\ Put(t, NoRequest)
        /\ UNCHANGED <<stores, admin, left>>

-----------------------------------------------------------------------------
(* Administrators and faults.                                              *)

\* updateUser writing status ACTIVE over DISABLED.
UpdateUser ==
    /\ ~account.active /\ account' = [account EXCEPT !.active = TRUE]
    /\ UNCHANGED <<row, redis, cookies, bearer, req, admin, left>>

\* The users row and the audit entry commit first, the row of the session after.
DeactivateUser ==
    /\ Spend("event") /\ ~admin
    /\ account' = [account EXCEPT !.active = FALSE] /\ admin' = TRUE
    /\ UNCHANGED <<row, redis, cookies, bearer, req>>

ResetMfa ==
    /\ Spend("event") /\ ~admin
    /\ account' = [account EXCEPT !.enrolled = FALSE, !.secret = None, !.pending = None]
    /\ admin' = TRUE
    /\ UNCHANGED <<row, redis, cookies, bearer, req>>

RevokeByUserId ==
    /\ admin /\ admin' = FALSE
    /\ row' = [row EXCEPT !.revoked = TRUE]
    /\ UNCHANGED <<account, redis, cookies, bearer, req, left>>

RevokeSession ==
    /\ Spend("event") /\ row' = [row EXCEPT !.revoked = TRUE]
    /\ UNCHANGED <<account, redis, cookies, bearer, req, admin>>

\* A request never arrives, its handler dies between two writes, or its answer
\* is lost.
Lose(t) ==
    /\ Busy(t) /\ Spend("event")
    /\ Put(t, Answered(req[t], Failed))
    /\ UNCHANGED <<stores, cookies, bearer, admin>>

\* access:<id> reaches its TTL, or Redis loses both keys.
LoseKeys ==
    /\ Spend("event")
    /\ redis' \in {[redis EXCEPT !.access = None], [refresh |-> None, access |-> None]}
    /\ UNCHANGED <<account, row, cookies, bearer, req, admin>>

\* The tab is reloaded: its memory is gone, its browser's cookies are not.
Reload(t) ==
    /\ ~Busy(t) /\ bearer' = [bearer EXCEPT ![t] = None]
    /\ UNCHANGED <<stores, cookies, req, admin, left>>

-----------------------------------------------------------------------------
\* The writers at work: sent, and their answer not yet arrived.
ActiveWriters(reqs) == {t \in Tabs : reqs[t].op \in Writers}

CutOff ==
    \E t \in ActiveWriters(req) \cap ActiveWriters(req') :
        req'[t] # req[t] /\ req'[t].pc = "answered" /\ req'[t].answer = Failed

Watch ==
    /\ calm' = (calm /\ Cardinality(ActiveWriters(req')) <= 1 /\ ~CutOff)
    /\ UNCHANGED jarOf

Account(password, enrolled, secret, pending) ==
    [active |-> TRUE, password |-> password, used |-> password # None,
     enrolled |-> enrolled, secret |-> secret, pending |-> pending]

\* provisionUser's row and token; a first login that has started an enrolment in
\* tab t; or the owner of an enrolled account signed in from tab t.
Provisioned == account = Account(None, FALSE, None, None) /\ row.hash = None
Enrolling(t) == account = Account(t, FALSE, None, t) /\ row.hash = None
SignedIn(t) == account = Account(t, TRUE, t, None) /\ row.hash = 1

Init ==
    /\ jarOf \in [Tabs -> Jars]
    /\ \E t \in Tabs, p \in {None, 1} :
        /\ row = [hash |-> p, revoked |-> FALSE]
        /\ Provisioned \/ Enrolling(t) \/ SignedIn(t)
        /\ redis = [refresh |-> p, access |-> p]
        /\ bearer = [u \in Tabs |-> IF u = t THEN p ELSE None]
        /\ cookies = [j \in Jars |->
              [refresh |-> IF j = jarOf[t] THEN p ELSE None,
               mfa |-> j = jarOf[t] /\ account.pending # None]]
    /\ req = [t \in Tabs |-> NoRequest]
    /\ admin = FALSE
    /\ calm = TRUE
    /\ left = [request |-> RequestBudget, event |-> EventBudget]

Step ==
    \/ \E t \in Tabs :
        \/ Send(t) \/ RequireAuth(t) \/ Decide(t)
        \/ ActivateAccount(t) \/ SetPasswordHash(t) \/ SetPendingMfaSecret(t) \/ CompleteMfaEnrollment(t)
        \/ UpsertRow(t) \/ SetRefreshKey(t) \/ SetAccessKey(t)
        \/ RevokeRefreshTokenForUser(t) \/ DelRefreshKey(t) \/ DelAccessKey(t)
        \/ FindFreshUser(t) \/ Deliver(t) \/ Reload(t) \/ Lose(t)
    \/ UpdateUser \/ DeactivateUser \/ ResetMfa \/ RevokeByUserId \/ RevokeSession
    \/ LoseKeys

Next == Step /\ Watch

Spec == Init /\ [][Next]_vars

-----------------------------------------------------------------------------
Token == Pairs \cup {None}

\* Every variable has its type.
TypeOK ==
    /\ jarOf \in [Tabs -> Jars]
    /\ account \in [active : BOOLEAN, password : Tabs \cup {None}, used : BOOLEAN,
                    enrolled : BOOLEAN, secret : Tabs \cup {None}, pending : Tabs \cup {None}]
    /\ row \in [hash : Token, revoked : BOOLEAN]
    /\ redis \in [refresh : Token, access : Token]
    /\ cookies \in [Jars -> [refresh : Token, mfa : BOOLEAN]]
    /\ bearer \in [Tabs -> Token]
    /\ admin \in BOOLEAN /\ calm \in BOOLEAN
    /\ left \in [request : 0 .. RequestBudget, event : 0 .. EventBudget]

\* When no two of the handlers that write the session overlapped and none was cut
\* off, Postgres and Redis name the same pair once they are done, and a browser
\* whose tab holds the live access token has that pair's refresh cookie or none:
\* every order of the four records' writes in auth.service.js ends the same way.
StoresAgree ==
    (calm /\ ActiveWriters(req) = {}) =>
        /\ redis.refresh \in {None, row.hash}
        /\ redis.access \in {None, row.hash}
        /\ \A t \in Tabs :
             (bearer[t] # None /\ bearer[t] = redis.access)
                => cookies[jarOf[t]].refresh \in {None, row.hash}

\* An account marked as enrolled has a secret to check codes against, whatever
\* enrolments, second verifications and resets by an administrator overlap.
EnrolledHasSecret == account.enrolled => account.secret # None

\* The activation link sets a password once: of two activations in flight one is
\* refused, and a password that is set changes only by a signed-in change of it.
ActivatedOnce ==
    [][(account.password # None /\ account'.password # account.password) =>
         \E t \in Tabs : req[t].op = "changePassword" /\ req'[t] # req[t]]_vars

\* When an account's deactivation is done its live session is over, as the comment
\* in deactivateUser says ("Kill live sessions after the deactivation commits").
DisabledHasNoSession == (~account.active /\ ~admin) => redis.access = None
=============================================================================
