--------------------------- MODULE SessionsProofs ---------------------------
(***************************************************************************)
(* Sessions for any number of tabs, browsers, requests and events: what is *)
(* enrolled has a secret, an activation link sets a password once, and the *)
(* stores and the browsers agree whenever the session's writers took turns.*)
(* The last needs more token numbers than can be held at once: a pair that *)
(* is minted is then one that no store, tab or request holds.              *)
(***************************************************************************)
EXTENDS Sessions, FiniteSetTheorems, TLAPS

(***************************************************************************)
(* The inductive invariant.                                                *)
(***************************************************************************)
AccountType ==
  account \in [active : BOOLEAN, password : Tabs \cup {None}, used : BOOLEAN,
               enrolled : BOOLEAN, secret : Tabs \cup {None}, pending : Tabs \cup {None}]

Fields == {"op", "pc", "right", "bearer", "cookie", "mfa", "pair", "secret", "todo", "answer"}

Writes == {"claim", "setPassword", "pending", "enroll", "upsertRow", "setRefresh", "setAccess",
           "reread", "revokeRow", "delRefresh", "delAccess"}

\* The writes that only an account whose link was used can lead to.
Establishing == {"setPassword", "enroll", "upsertRow", "setRefresh", "setAccess"}

\* What a handler has yet to write it may write: an enrolment has a secret to
\* promote, only a change of password sets one outside an activation, and nothing
\* is established before the activation link was used.
MayWrite(op, todo, secret, used) ==
  /\ todo \in Seq(Writes)
  /\ \A i \in 1 .. Len(todo) :
       /\ todo[i] = "enroll" => secret \in Tabs
       /\ todo[i] = "setPassword" => op = "changePassword"
       /\ todo[i] \in Establishing => used

\* A decision, and a request, that respect it; the MFA cookie is one of the things
\* that come after an activation.
Respects(op, d, used) ==
  MayWrite(op, d.todo, d.secret, used) /\ (d.answer.mfa = "set" => used)

Sound(r, used) ==
  r.op # None =>
    /\ DOMAIN r = Fields /\ r.op \in Ops
    /\ Respects(r.op, r, used)
    /\ r.pc = "work" => r.todo # << >>
    /\ r.mfa => used

RequestsSound == DOMAIN req = Tabs /\ \A t \in Tabs : Sound(req[t], account.used)

StoresType ==
  /\ DOMAIN row = {"hash", "revoked"} /\ DOMAIN redis = {"refresh", "access"}
  /\ DOMAIN cookies = Jars /\ jarOf \in [Tabs -> Jars]

\* A password, a session and an MFA cookie come after an activation.
ActivatedFirst ==
  /\ account.password # None => account.used
  /\ row.hash # None => account.used
  /\ redis.refresh # None => account.used
  /\ redis.access # None => account.used
  /\ \A j \in Jars : cookies[j].mfa => account.used

IInv == AccountType /\ StoresType /\ RequestsSound /\ ActivatedFirst /\ EnrolledHasSecret

-----------------------------------------------------------------------------
(***************************************************************************)
(* What is left of a plan may be written if the whole of it may.           *)
(***************************************************************************)
LEMMA TailMayWrite ==
  ASSUME NEW op, NEW todo, NEW secret, NEW used, MayWrite(op, todo, secret, used), todo # << >>
  PROVE  MayWrite(op, Tail(todo), secret, used)
<1>1. todo \in Seq(Writes) /\ Len(todo) \in Nat
  BY DEF MayWrite
<1>2. /\ Tail(todo) \in Seq(Writes) /\ Len(Tail(todo)) = Len(todo) - 1
      /\ \A i \in 1 .. Len(Tail(todo)) : Tail(todo)[i] = todo[i + 1]
  BY <1>1
<1>3. \A i \in 1 .. Len(Tail(todo)) : i + 1 \in 1 .. Len(todo)
  BY <1>1, <1>2
<1> QED
  BY <1>2, <1>3 DEF MayWrite

LEMMA ConcatMayWrite ==
  ASSUME NEW op, NEW p, NEW q, NEW secret, NEW used,
         MayWrite(op, p, secret, used), MayWrite(op, q, secret, used)
  PROVE  MayWrite(op, p \o q, secret, used)
<1>1. p \in Seq(Writes) /\ q \in Seq(Writes) /\ Len(p) \in Nat /\ Len(q) \in Nat
  BY DEF MayWrite
<1>2. /\ p \o q \in Seq(Writes) /\ Len(p \o q) = Len(p) + Len(q)
      /\ \A i \in 1 .. Len(p) + Len(q) : (p \o q)[i] = IF i <= Len(p) THEN p[i] ELSE q[i - Len(p)]
  BY <1>1
<1>3. \A i \in 1 .. Len(p \o q) : i \in 1 .. Len(p) \/ i - Len(p) \in 1 .. Len(q)
  BY <1>1, <1>2
<1> QED
  BY <1>1, <1>2, <1>3 DEF MayWrite

(***************************************************************************)
(* The plans of the handlers: only an enrolment writes one, only a change  *)
(* of password sets a password.                                            *)
(***************************************************************************)
LEMMA PlainPlans ==
  ASSUME NEW op, NEW s, NEW used
  PROVE  /\ MayWrite(op, << >>, s, used) /\ MayWrite(op, <<"claim">>, s, used)
         /\ MayWrite(op, <<"pending">>, s, used) /\ MayWrite(op, <<"delRefresh">>, s, used)
         /\ MayWrite(op, RevokeWrites, s, used)
         /\ MayWrite(op, RevokeWrites \o <<"delRefresh", "delAccess">>, s, used)
<1>1. MayWrite(op, << >>, s, used) /\ MayWrite(op, <<"claim">>, s, used)
  BY DEF MayWrite, Establishing, Writes
<1>2. MayWrite(op, <<"pending">>, s, used) /\ MayWrite(op, <<"delRefresh">>, s, used)
  BY DEF MayWrite, Establishing, Writes
<1>3. MayWrite(op, RevokeWrites, s, used)
  BY DEF MayWrite, Writes, RevokeWrites, Establishing
<1>4. MayWrite(op, <<"delRefresh", "delAccess">>, s, used)
  BY DEF MayWrite, Establishing, Writes
<1>5. MayWrite(op, RevokeWrites \o <<"delRefresh", "delAccess">>, s, used)
  BY <1>3, <1>4, ConcatMayWrite
<1> QED
  BY <1>1, <1>2, <1>3, <1>5

LEMMA EstablishingPlans ==
  ASSUME NEW op, NEW s, NEW used, used
  PROVE  /\ MayWrite("changePassword", <<"setPassword">>, s, used)
         /\ MayWrite(op, RefreshWrites, s, used) /\ MayWrite(op, LoginWrites, s, used)
         /\ s \in Tabs => MayWrite(op, EnrollmentWrites, s, used)
<1>1. MayWrite("changePassword", <<"setPassword">>, s, used)
  BY DEF MayWrite, Writes
<1>2. MayWrite(op, RefreshWrites, s, used)
  BY DEF MayWrite, Writes, RefreshWrites
<1>3. MayWrite(op, LoginWrites, s, used)
  BY DEF MayWrite, Writes, LoginWrites
<1>4. s \in Tabs => MayWrite(op, EnrollmentWrites, s, used)
  BY DEF MayWrite, Writes, EnrollmentWrites
<1> QED
  BY <1>1, <1>2, <1>3, <1>4

(***************************************************************************)
(* Whatever a handler decides respects the invariant: before the account   *)
(* is activated there is no password to log in with, no access token to    *)
(* pass requireAuth, no MFA cookie, and no stored token to refresh.        *)
(***************************************************************************)
LEMMA HandlersRespect ==
  ASSUME AccountType, ActivatedFirst, NEW t \in Tabs, NEW r, r.op \in Ops,
         r.mfa => account.used
  PROVE  Respects(r.op, Handle(r, t), account.used)
<1> DEFINE Fine(d) == Respects(r.op, d, account.used)
<1>1. \A status : Fine(Refuse(status))
  BY PlainPlans DEF Refuse, Decision, Respects, Plain, Answer
<1>2. CASE r.op = "activate"
  <2>1. Fine(HandleActivate(r))
    BY <1>1, <1>2, PlainPlans DEF HandleActivate, Decision, Respects, Plain, Answer
  <2> QED
    BY <1>2, <2>1 DEF Handle
<1>3. CASE r.op = "changePassword"
  <2> DEFINE set == Decision(<<"setPassword">>, Plain(204), None, None)
  <2>1. CASE Authenticated(r)
    <3>1. account.used
      BY <2>1 DEF Authenticated, ActivatedFirst
    <3>2. Fine(set)
      BY <1>3, <3>1, EstablishingPlans DEF Decision, Respects, Plain, Answer
    <3>3. HandleChangePassword(r) \in {Refuse(401), Refuse(404), set}
      BY <2>1 DEF HandleChangePassword
    <3> QED
      BY <1>1, <1>3, <3>2, <3>3 DEF Handle
  <2>2. CASE ~Authenticated(r)
    <3>1. HandleChangePassword(r) = Refuse(401)
      BY <2>2 DEF HandleChangePassword
    <3> QED
      BY <1>1, <1>3, <3>1 DEF Handle
  <2> QED
    BY <2>1, <2>2
<1>4. CASE r.op = "login"
  <2>1. Fine(HandleLogin(r))
    BY <1>1, <1>4, PlainPlans DEF HandleLogin, ActivatedFirst, Decision, Respects, SetMfaCookie, Answer
  <2> QED
    BY <1>4, <2>1 DEF Handle
<1>5. CASE r.op = "enrollStart"
  <2>1. Fine(HandleEnrollStart(r))
    BY <1>1, <1>5, PlainPlans DEF HandleEnrollStart, Decision, Respects, Plain, Answer
  <2> QED
    BY <1>5, <2>1 DEF Handle
<1>6. CASE r.op = "enrollVerify"
  <2>1. Fine(HandleEnrollVerify(r, t))
    BY <1>1, <1>6, EstablishingPlans DEF HandleEnrollVerify, Decision, Respects, SetRefreshCookie, Answer
  <2> QED
    BY <1>6, <2>1 DEF Handle
<1>7. CASE r.op = "verify"
  <2>1. Fine(HandleVerify(r))
    BY <1>1, <1>7, EstablishingPlans DEF HandleVerify, Decision, Respects, SetRefreshCookie, Answer
  <2> QED
    BY <1>7, <2>1 DEF Handle
<1>8. CASE r.op = "me"
  <2>1. Fine(HandleMe(r))
    BY <1>1, <1>8 DEF HandleMe
  <2> QED
    BY <1>8, <2>1 DEF Handle
<1>9. CASE r.op = "logout"
  <2>1. Fine(HandleLogout(r))
    BY <1>1, <1>9, PlainPlans DEF HandleLogout, Decision, Respects, ClearAuthCookies, Answer
  <2> QED
    BY <1>9, <2>1 DEF Handle
<1>10. CASE r.op = "refresh"
  <2>1. Fine(HandleRefresh(r))
    BY <1>1, <1>10, PlainPlans, EstablishingPlans DEF HandleRefresh, StoredRefresh, ActivatedFirst, Decision, Respects, SetRefreshCookie, ClearAuthCookies, Answer
  <2> QED
    BY <1>10, <2>1 DEF Handle
<1> QED
  BY <1>2, <1>3, <1>4, <1>5, <1>6, <1>7, <1>8, <1>9, <1>10 DEF Ops

(***************************************************************************)
(* What the steps of a request leave of it is sound again.                 *)
(***************************************************************************)
LEMMA AnsweredSound ==
  ASSUME NEW r, NEW a, NEW used, DOMAIN r = Fields, r.op \in Ops, a.mfa = "set" => used
  PROVE  Sound(Answered(r, a), used) /\ Answered(r, a).pc = "answered"
<1>1. /\ DOMAIN Answered(r, a) = Fields /\ Answered(r, a).op = r.op
      /\ Answered(r, a).todo = << >> /\ Answered(r, a).pc = "answered"
      /\ Answered(r, a).mfa = FALSE /\ Answered(r, a).answer = a
  BY DEF Answered, Fields
<1> QED
  BY <1>1, PlainPlans DEF Sound, Respects

LEMMA WorkingSound ==
  ASSUME NEW r, NEW d, NEW used, DOMAIN r = Fields, r.op \in Ops, Respects(r.op, d, used)
  PROVE  /\ Sound(Working(r, d), used)
         /\ Working(r, d).pc = "answered" \/ Working(r, d).todo = d.todo
<1>1. CASE d.todo = << >>
  BY <1>1, AnsweredSound DEF Working, Respects
<1>2. CASE d.todo # << >>
  <2>1. /\ DOMAIN Working(r, d) = Fields /\ Working(r, d).op = r.op
        /\ Working(r, d).todo = d.todo /\ Working(r, d).secret = d.secret
        /\ Working(r, d).mfa = FALSE /\ Working(r, d).answer = d.answer
    BY <1>2 DEF Working, Fields
  <2> QED
    BY <1>2, <2>1 DEF Sound, Respects
<1> QED
  BY <1>1, <1>2

\* A link that was used stays used.
LEMMA PutSound ==
  ASSUME RequestsSound, NEW t \in Tabs, NEW r, Sound(r, account.used), Put(t, r),
         account.used => account'.used
  PROVE  RequestsSound' /\ req'[t] = r
<1>1. /\ DOMAIN req' = Tabs /\ req'[t] = r
      /\ \A u \in Tabs \ {t} : req'[u] = req[u]
  BY DEF RequestsSound, Put
<1>2. \A x : Sound(x, account.used) => Sound(x, account'.used)
  BY DEF Sound, Respects, MayWrite
<1> QED
  BY <1>1, <1>2 DEF RequestsSound

\* A write leaves the other requests alone; its own has changed, and was one that
\* might make it.
LEMMA WriteSound ==
  ASSUME RequestsSound, NEW t \in Tabs, NEW w, NextWrite(t, w), account.used => account'.used
  PROVE  /\ RequestsSound' /\ req'[t] # req[t]
         /\ w = "enroll" => req[t].secret \in Tabs
         /\ w = "setPassword" => req[t].op = "changePassword"
         /\ w \in Establishing => account.used
<1> DEFINE r == req[t]
           d == [r EXCEPT !.todo = Tail(@)]
<1>1. /\ r.op # None /\ r.pc = "work" /\ Head(r.todo) = w /\ Put(t, Working(r, d))
  BY DEF NextWrite, Busy
<1>2. /\ DOMAIN r = Fields /\ r.op \in Ops /\ r.todo # << >> /\ Respects(r.op, r, account.used)
  BY <1>1 DEF RequestsSound, Sound
<1>3. d.todo = Tail(r.todo) /\ d.secret = r.secret /\ d.answer = r.answer
  BY <1>2 DEF Fields
<1>4. MayWrite(r.op, Tail(r.todo), r.secret, account.used)
  BY <1>2, TailMayWrite DEF Respects
<1>5. Respects(r.op, d, account.used)
  BY <1>2, <1>3, <1>4 DEF Respects
<1>6. /\ Sound(Working(r, d), account.used)
      /\ Working(r, d).pc = "answered" \/ Working(r, d).todo = Tail(r.todo)
  BY <1>2, <1>3, <1>5, WorkingSound
<1>7. RequestsSound' /\ req'[t] = Working(r, d)
  BY <1>1, <1>6, PutSound
<1>8. r.todo \in Seq(Writes) /\ r.todo # << >>
  BY <1>2 DEF Respects, MayWrite
<1>9. Len(r.todo) \in Nat \ {0} /\ Head(r.todo) = r.todo[1] /\ Len(Tail(r.todo)) = Len(r.todo) - 1
  BY <1>8
<1>10. Tail(r.todo) # r.todo
  <2>1. Len(Tail(r.todo)) # Len(r.todo)
    BY <1>9
  <2> QED
    BY <2>1, Zenon
<1>11. /\ w = "enroll" => r.secret \in Tabs
       /\ w = "setPassword" => r.op = "changePassword"
       /\ w \in Establishing => account.used
  BY <1>1, <1>2, <1>9 DEF Respects, MayWrite
<1>12. req'[t] # req[t]
  BY <1>1, <1>6, <1>7, <1>10
<1> QED
  BY <1>7, <1>11, <1>12

\* A failed answer ends a request.
LEMMA FailSound ==
  ASSUME RequestsSound, NEW t \in Tabs, NEW status, Busy(t), UNCHANGED account,
         Put(t, Answered(req[t], Plain(status)))
  PROVE  RequestsSound'
<1>1. DOMAIN req[t] = Fields /\ req[t].op \in Ops
  BY DEF Busy, RequestsSound, Sound
<1>2. Sound(Answered(req[t], Plain(status)), account.used)
  BY <1>1, AnsweredSound DEF Plain, Answer
<1> QED
  BY <1>2, PutSound

-----------------------------------------------------------------------------
LEMMA InitIInv == Init => IInv
<1> SUFFICES ASSUME Init PROVE IInv
  OBVIOUS
<1>1. PICK t \in Tabs, p \in {None, 1} :
        /\ row = [hash |-> p, revoked |-> FALSE]
        /\ Provisioned \/ Enrolling(t) \/ SignedIn(t)
        /\ redis = [refresh |-> p, access |-> p]
        /\ cookies = [j \in Jars |->
              [refresh |-> IF j = jarOf[t] THEN p ELSE None,
               mfa |-> j = jarOf[t] /\ account.pending # None]]
  BY DEF Init
<1>2. t # None
  BY SessionConstants
<1> DEFINE Row(password, used, enrolled, secret, pending) ==
             [active |-> TRUE, password |-> password, used |-> used,
              enrolled |-> enrolled, secret |-> secret, pending |-> pending]
<1>a. (None # None) = FALSE /\ (t # None) = TRUE
  BY <1>2
<1>b. /\ Account(None, FALSE, None, None) = Row(None, FALSE, FALSE, None, None)
      /\ Account(t, FALSE, None, t) = Row(t, TRUE, FALSE, None, t)
      /\ Account(t, TRUE, t, None) = Row(t, TRUE, TRUE, t, None)
  BY <1>a DEF Account
<1>3. \/ account = Row(None, FALSE, FALSE, None, None) /\ p = None
      \/ account = Row(t, TRUE, FALSE, None, t)
      \/ account = Row(t, TRUE, TRUE, t, None)
  BY <1>1, <1>b DEF Provisioned, Enrolling, SignedIn
<1>4. AccountType /\ EnrolledHasSecret
  <2>1. CASE account = Row(None, FALSE, FALSE, None, None)
    BY <2>1 DEF AccountType, EnrolledHasSecret
  <2>2. CASE account = Row(t, TRUE, FALSE, None, t)
    BY <2>2 DEF AccountType, EnrolledHasSecret
  <2>3. CASE account = Row(t, TRUE, TRUE, t, None)
    BY <1>2, <2>3 DEF AccountType, EnrolledHasSecret
  <2> QED
    BY <1>3, <2>1, <2>2, <2>3
<1>5. StoresType
  BY <1>1 DEF Init, StoresType
<1>6. account.used \/ (account.password = None /\ account.pending = None /\ p = None)
  BY <1>2, <1>3
<1>7. ActivatedFirst
  BY <1>1, <1>6 DEF ActivatedFirst
<1>8. RequestsSound
  BY DEF Init, RequestsSound, Sound, NoRequest
<1> QED
  BY <1>4, <1>5, <1>7, <1>8 DEF IInv

\* A password that is there changes only by a signed-in change of it.
PasswordKept ==
  (account.password # None /\ account'.password # account.password) =>
    \E t \in Tabs : req[t].op = "changePassword" /\ req'[t] # req[t]

\* What is to be shown of every step.
Kept == IInv' /\ PasswordKept

(***************************************************************************)
(* Steps that leave the stores and the cookies alone, and writes that      *)
(* leave the account alone.                                                *)
(***************************************************************************)
LEMMA StoresUnchanged ==
  ASSUME IInv, UNCHANGED <<account, row, redis, cookies, jarOf>>, RequestsSound'
  PROVE  Kept
BY DEF Kept, IInv, AccountType, StoresType, ActivatedFirst, EnrolledHasSecret, PasswordKept

LEMMA AccountUnchanged ==
  ASSUME IInv, UNCHANGED <<account, cookies, jarOf>>, RequestsSound',
         DOMAIN row' = DOMAIN row, DOMAIN redis' = DOMAIN redis,
         (row'.hash # None \/ redis'.refresh # None \/ redis'.access # None) => account.used
  PROVE  Kept
BY DEF Kept, IInv, AccountType, StoresType, ActivatedFirst, EnrolledHasSecret, PasswordKept

(***************************************************************************)
(* The requests: sending, deciding, answering.                             *)
(***************************************************************************)
LEMMA RequestSteps ==
  ASSUME IInv, UNCHANGED jarOf, NEW t \in Tabs,
         Send(t) \/ RequireAuth(t) \/ Decide(t) \/ Lose(t) \/ Reload(t) \/ Deliver(t)
  PROVE  Kept
<1> USE DEF stores
<1>1. CASE Send(t)
  <2>1. PICK op \in Ops, right \in BOOLEAN : Put(t, Sent(op, t, right))
    BY <1>1 DEF Send
  <2>2. cookies[jarOf[t]].mfa => account.used
    BY DEF IInv, StoresType, ActivatedFirst
  <2>3. Sound(Sent(op, t, right), account.used)
    BY <2>2, PlainPlans DEF Sound, Respects, Sent, Fields, Failed, Plain, Answer
  <2>4. UNCHANGED <<account, row, redis, cookies>>
    BY <1>1 DEF Send
  <2> QED
    BY <2>1, <2>3, <2>4, PutSound, StoresUnchanged DEF IInv
<1>2. CASE RequireAuth(t)
  <2>1. DOMAIN req[t] = Fields /\ Sound(req[t], account.used) /\ req[t].op \in Ops /\ req[t].op # None
    BY <1>2 DEF RequireAuth, Busy, IInv, RequestsSound, Sound
  <2> DEFINE h == [req[t] EXCEPT !.pc = "handle", !.bearer = None]
  <2>2. /\ DOMAIN h = Fields /\ h.op = req[t].op /\ h.todo = req[t].todo /\ h.secret = req[t].secret
        /\ h.answer = req[t].answer /\ h.mfa = req[t].mfa /\ h.pc = "handle"
    BY <2>1 DEF Fields
  <2>3. Sound(h, account.used)
    BY <2>1, <2>2 DEF Sound, Respects
  <2>4. Sound(Answered(req[t], Plain(401)), account.used)
    BY <2>1, AnsweredSound DEF Plain, Answer
  <2>5. UNCHANGED <<account, row, redis, cookies>> /\ (Put(t, h) \/ Put(t, Answered(req[t], Plain(401))))
    BY <1>2 DEF RequireAuth
  <2> QED
    BY <2>3, <2>4, <2>5, PutSound, StoresUnchanged DEF IInv
<1>3. CASE Decide(t)
  <2>1. DOMAIN req[t] = Fields /\ req[t].op \in Ops /\ (req[t].mfa => account.used)
    BY <1>3 DEF Decide, Busy, IInv, RequestsSound, Sound
  <2>2. Respects(req[t].op, Handle(req[t], t), account.used)
    BY <2>1, HandlersRespect DEF IInv
  <2>3. Sound(Working(req[t], Handle(req[t], t)), account.used)
    BY <2>1, <2>2, WorkingSound
  <2>4. UNCHANGED <<account, row, redis, cookies>> /\ Put(t, Working(req[t], Handle(req[t], t)))
    BY <1>3 DEF Decide
  <2> QED
    BY <2>3, <2>4, PutSound, StoresUnchanged DEF IInv
<1>4. CASE Lose(t)
  BY <1>4, FailSound, StoresUnchanged DEF Lose, Failed, IInv
<1>5. CASE Reload(t)
  BY <1>5, StoresUnchanged DEF Reload, IInv, RequestsSound
<1>6. CASE Deliver(t)
  <2> DEFINE a == req[t].answer
  <2>1. /\ UNCHANGED <<account, row, redis>> /\ Busy(t) /\ Put(t, NoRequest)
        /\ cookies' = [cookies EXCEPT ![jarOf[t]] = SetCookies(@, a)]
    BY <1>6 DEF Deliver
  <2>2. a.mfa = "set" => account.used
    BY <2>1 DEF Busy, IInv, RequestsSound, Sound, Respects
  <2>3. DOMAIN cookies' = Jars /\ \A j \in Jars :
          cookies'[j] = IF j = jarOf[t] THEN SetCookies(cookies[j], a) ELSE cookies[j]
    BY <2>1 DEF IInv, StoresType
  <2>4. \A j \in Jars : SetCookies(cookies[j], a).mfa => (cookies[j].mfa \/ a.mfa = "set")
    BY DEF SetCookies
  <2>5. \A j \in Jars : cookies'[j].mfa => account'.used
    BY <2>1, <2>2, <2>3, <2>4 DEF IInv, ActivatedFirst
  <2>6. RequestsSound'
    BY <2>1, PutSound DEF IInv, Sound, NoRequest
  <2> QED
    BY <2>1, <2>3, <2>5, <2>6
    DEF Kept, IInv, AccountType, StoresType, ActivatedFirst, EnrolledHasSecret, PasswordKept
<1> QED
  BY <1>1, <1>2, <1>3, <1>4, <1>5, <1>6

(***************************************************************************)
(* The writes to the account.                                              *)
(***************************************************************************)
LEMMA AccountWrites ==
  ASSUME IInv, UNCHANGED jarOf, NEW t \in Tabs,
         ActivateAccount(t) \/ SetPasswordHash(t) \/ SetPendingMfaSecret(t) \/ CompleteMfaEnrollment(t)
  PROVE  Kept
<1> USE DEF stores
<1>1. CASE ActivateAccount(t) /\ Claimable
  <2>1. /\ NextWrite(t, "claim") /\ account' = [account EXCEPT !.used = TRUE, !.password = t]
        /\ UNCHANGED <<row, redis, cookies>>
    BY <1>1 DEF ActivateAccount, NextWrite
  <2>2. account'.used /\ account.password = None
    BY <1>1, <2>1 DEF IInv, AccountType, ActivatedFirst, Claimable
  <2>3. RequestsSound'
    BY <2>1, <2>2, WriteSound DEF IInv
  <2> QED
    BY <2>1, <2>2, <2>3
    DEF Kept, IInv, AccountType, StoresType, ActivatedFirst, EnrolledHasSecret, PasswordKept
<1>2. CASE ActivateAccount(t) /\ ~Claimable
  <2>1. Throw(t, "claim", 400)
    BY <1>2 DEF ActivateAccount
  <2> QED
    BY <2>1, FailSound, StoresUnchanged DEF Throw, IInv
<1>3. CASE SetPasswordHash(t)
  <2>1. /\ NextWrite(t, "setPassword") /\ account' = [account EXCEPT !.password = t]
        /\ UNCHANGED <<row, redis, cookies>>
    BY <1>3 DEF SetPasswordHash, NextWrite
  <2>2. account'.used = account.used
    BY <2>1 DEF IInv, AccountType
  <2>3. RequestsSound' /\ req'[t] # req[t] /\ req[t].op = "changePassword" /\ account.used
    BY <2>1, <2>2, WriteSound DEF IInv, Establishing
  <2> QED
    BY <2>1, <2>2, <2>3
    DEF Kept, IInv, AccountType, StoresType, ActivatedFirst, EnrolledHasSecret, PasswordKept
<1>4. CASE SetPendingMfaSecret(t)
  <2>1. /\ NextWrite(t, "pending") /\ account' = [account EXCEPT !.pending = t]
        /\ UNCHANGED <<row, redis, cookies>>
    BY <1>4 DEF SetPendingMfaSecret, NextWrite
  <2>2. account'.used = account.used /\ account'.password = account.password
    BY <2>1 DEF IInv, AccountType
  <2>3. RequestsSound'
    BY <2>1, <2>2, WriteSound DEF IInv
  <2> QED
    BY <2>1, <2>2, <2>3
    DEF Kept, IInv, AccountType, StoresType, ActivatedFirst, EnrolledHasSecret, PasswordKept
<1>5. CASE CompleteMfaEnrollment(t)
  <2>1. /\ NextWrite(t, "enroll")
        /\ account' = [account EXCEPT !.enrolled = TRUE, !.secret = req[t].secret, !.pending = None]
        /\ row' = [hash |-> req[t].pair, revoked |-> FALSE]
        /\ UNCHANGED <<redis, cookies>>
    BY <1>5 DEF CompleteMfaEnrollment, PromotedSecret, NextWrite
  <2>2. account'.used = account.used /\ account'.password = account.password
    BY <2>1 DEF IInv, AccountType
  <2>3. RequestsSound' /\ req[t].secret \in Tabs /\ account.used
    BY <2>1, <2>2, WriteSound DEF IInv, Establishing
  <2>4. AccountType' /\ EnrolledHasSecret'
    BY <2>1, <2>3, SessionConstants DEF IInv, AccountType, EnrolledHasSecret
  <2>5. StoresType' /\ ActivatedFirst' /\ PasswordKept
    BY <2>1, <2>2, <2>3 DEF IInv, StoresType, ActivatedFirst, PasswordKept
  <2> QED
    BY <2>3, <2>4, <2>5 DEF Kept, IInv
<1> QED
  BY <1>1, <1>2, <1>3, <1>4, <1>5

(***************************************************************************)
(* The writes to Postgres's row of the session and to the keys of Redis.   *)
(***************************************************************************)
LEMMA SessionWrites ==
  ASSUME IInv, UNCHANGED jarOf, NEW t \in Tabs,
         \/ UpsertRow(t) \/ SetRefreshKey(t) \/ SetAccessKey(t) \/ RevokeRefreshTokenForUser(t)
         \/ DelRefreshKey(t) \/ DelAccessKey(t) \/ FindFreshUser(t)
  PROVE  Kept
<1> USE DEF stores
<1>1. CASE UpsertRow(t)
  <2>1. /\ NextWrite(t, "upsertRow") /\ row' = [hash |-> req[t].pair, revoked |-> FALSE]
        /\ UNCHANGED <<account, redis, cookies>>
    BY <1>1 DEF UpsertRow, UpsertedRow, NextWrite
  <2>2. RequestsSound' /\ account.used
    BY <2>1, WriteSound DEF IInv, Establishing
  <2> QED
    BY <2>1, <2>2, AccountUnchanged DEF IInv, StoresType
<1>2. CASE SetRefreshKey(t) \/ SetAccessKey(t)
  <2>1. PICK w \in {"setRefresh", "setAccess"} : NextWrite(t, w)
    BY <1>2 DEF SetRefreshKey, SetAccessKey
  <2>2. UNCHANGED <<account, row, cookies>> /\ DOMAIN redis' = DOMAIN redis
    BY <1>2, <2>1 DEF SetRefreshKey, SetAccessKey, NextWrite
  <2>3. RequestsSound' /\ account.used
    BY <2>1, <2>2, WriteSound DEF IInv, Establishing
  <2> QED
    BY <2>2, <2>3, AccountUnchanged
<1>3. CASE RevokeRefreshTokenForUser(t)
  <2>1. /\ NextWrite(t, "revokeRow") /\ row' = [row EXCEPT !.revoked = TRUE]
        /\ UNCHANGED <<account, redis, cookies>>
    BY <1>3 DEF RevokeRefreshTokenForUser, NextWrite
  <2>2. RequestsSound' /\ DOMAIN row' = DOMAIN row /\ row'.hash = row.hash
    BY <2>1, WriteSound DEF IInv, StoresType
  <2> QED
    BY <2>1, <2>2, AccountUnchanged DEF IInv, ActivatedFirst
<1>4. CASE DelRefreshKey(t) \/ DelAccessKey(t)
  <2>1. PICK w \in {"delRefresh", "delAccess"} : NextWrite(t, w)
    BY <1>4 DEF DelRefreshKey, DelAccessKey
  <2>2. /\ UNCHANGED <<account, row, cookies>> /\ DOMAIN redis' = DOMAIN redis
        /\ redis'.refresh \in {redis.refresh, None} /\ redis'.access \in {redis.access, None}
    BY <1>4, <2>1 DEF DelRefreshKey, DelAccessKey, NextWrite, IInv, StoresType
  <2>3. RequestsSound'
    BY <2>1, <2>2, WriteSound DEF IInv
  <2> QED
    BY <2>2, <2>3, AccountUnchanged DEF IInv, ActivatedFirst
<1>5. CASE FindFreshUser(t)
  <2>1. UNCHANGED <<account, row, redis, cookies>>
    BY <1>5 DEF FindFreshUser, NextWrite, Throw
  <2>2. CASE NextWrite(t, "reread")
    BY <2>1, <2>2, WriteSound, StoresUnchanged DEF IInv
  <2>3. CASE Throw(t, "reread", 500)
    BY <2>1, <2>3, FailSound, StoresUnchanged DEF IInv, Throw
  <2> QED
    BY <1>5, <2>2, <2>3 DEF FindFreshUser
<1> QED
  BY <1>1, <1>2, <1>3, <1>4, <1>5

(***************************************************************************)
(* Administrators, and keys that Redis loses.                              *)
(***************************************************************************)
LEMMA AdministratorSteps ==
  ASSUME IInv, UNCHANGED jarOf,
         \/ UpdateUser \/ DeactivateUser \/ ResetMfa
         \/ RevokeByUserId \/ RevokeSession \/ LoseKeys
  PROVE  Kept
<1>1. CASE UpdateUser \/ DeactivateUser \/ ResetMfa
  <2>1. /\ UNCHANGED <<row, redis, cookies, req>>
        /\ \/ \E b \in BOOLEAN : account' = [account EXCEPT !.active = b]
           \/ account' = [account EXCEPT !.enrolled = FALSE, !.secret = None, !.pending = None]
    BY <1>1 DEF UpdateUser, DeactivateUser, ResetMfa
  <2>2. AccountType' /\ EnrolledHasSecret' /\ account'.used = account.used
        /\ account'.password = account.password
    BY <2>1 DEF IInv, AccountType, EnrolledHasSecret
  <2>3. RequestsSound' /\ StoresType' /\ ActivatedFirst' /\ PasswordKept
    BY <2>1, <2>2 DEF IInv, RequestsSound, StoresType, ActivatedFirst, PasswordKept
  <2> QED
    BY <2>2, <2>3 DEF Kept, IInv
<1>2. CASE RevokeByUserId \/ RevokeSession
  <2>1. UNCHANGED <<account, redis, cookies, req>> /\ row' = [row EXCEPT !.revoked = TRUE]
    BY <1>2 DEF RevokeByUserId, RevokeSession
  <2>2. DOMAIN row' = DOMAIN row /\ row'.hash = row.hash
    BY <2>1 DEF IInv, StoresType
  <2>3. RequestsSound'
    BY <2>1 DEF IInv, RequestsSound
  <2> QED
    BY <2>1, <2>2, <2>3, AccountUnchanged DEF IInv, ActivatedFirst
<1>3. CASE LoseKeys
  <2>1. /\ UNCHANGED <<account, row, cookies, req>>
        /\ redis' \in {[redis EXCEPT !.access = None], [refresh |-> None, access |-> None]}
    BY <1>3 DEF LoseKeys
  <2>2. /\ DOMAIN redis' = DOMAIN redis
        /\ redis'.refresh \in {redis.refresh, None} /\ redis'.access = None
    BY <2>1 DEF IInv, StoresType
  <2>3. RequestsSound'
    BY <2>1 DEF IInv, RequestsSound
  <2> QED
    BY <2>1, <2>2, <2>3, AccountUnchanged DEF IInv, ActivatedFirst
<1> QED
  BY <1>1, <1>2, <1>3

(***************************************************************************)
(* Each step keeps the invariant and a password that is there.             *)
(***************************************************************************)
LEMMA StepKept == IInv /\ [Next]_vars => Kept
<1> SUFFICES ASSUME IInv, [Next]_vars PROVE Kept
  OBVIOUS
<1>1. CASE UNCHANGED vars
  BY <1>1, StoresUnchanged DEF vars, IInv, RequestsSound
<1>2. CASE Next
  <2>1. Step /\ UNCHANGED jarOf
    BY <1>2 DEF Next, Watch
  <2> QED
    BY <2>1, RequestSteps, AccountWrites, SessionWrites, AdministratorSteps DEF Step
<1> QED
  BY <1>1, <1>2

\* Every step of a handler, and of the administrator, keeps the inductive invariant.
THEOREM Invariance == Spec => []IInv
<1>1. IInv /\ [Next]_vars => IInv'
  BY StepKept DEF Kept
<1> QED
  BY InitIInv, <1>1, PTL DEF Spec

\* An account marked as enrolled has a secret to check codes against, however
\* enrolments, resets and lost answers overlap (completeMfaEnrollment).
THEOREM SecretsKept == Spec => []EnrolledHasSecret
<1>1. IInv => EnrolledHasSecret
  BY DEF IInv
<1> QED
  BY Invariance, <1>1, PTL

\* No password, session or MFA cookie before the activation link was used.
THEOREM ActivationFirst == Spec => []ActivatedFirst
<1>1. IInv => ActivatedFirst
  BY DEF IInv
<1> QED
  BY Invariance, <1>1, PTL

\* An activation link sets a password once, and a password that is set changes
\* only by a signed-in change of it (activateAccount, changePassword).
THEOREM LinksWorkOnce == Spec => ActivatedOnce
<1>1. IInv /\ [Next]_vars => [PasswordKept]_vars
  BY StepKept DEF Kept
<1>2. [][PasswordKept]_vars => ActivatedOnce
  BY DEF PasswordKept, ActivatedOnce
<1> QED
  BY Invariance, <1>1, <1>2, PTL DEF Spec

-----------------------------------------------------------------------------
(* Fresh pairs *)

LEMMA ImageSize ==
  ASSUME NEW S, IsFiniteSet(S), NEW f, DOMAIN f = S
  PROVE  /\ IsFiniteSet({f[x] : x \in S})
         /\ Cardinality({f[x] : x \in S}) \in Nat
         /\ Cardinality({f[x] : x \in S}) <= Cardinality(S)
<1> DEFINE T == {f[x] : x \in S}
           g == [x \in S |-> f[x]]
<1>1. g \in Surjection(S, T)
  BY DEF Surjection
<1>2. IsFiniteSet(T) /\ Cardinality(T) <= Cardinality(S)
  BY <1>1, FS_Surjection
<1> QED
  BY <1>2, FS_CardinalityType

LEMMA UnionSize ==
  ASSUME NEW S, NEW T, NEW m \in Nat, NEW n \in Nat, IsFiniteSet(S), IsFiniteSet(T),
         Cardinality(S) <= m, Cardinality(T) <= n
  PROVE  IsFiniteSet(S \cup T) /\ Cardinality(S \cup T) <= m + n
<1>1. IsFiniteSet(S \cup T) /\ IsFiniteSet(S \cap T)
  BY FS_Union, FS_Intersection
<1>2. Cardinality(S) \in Nat /\ Cardinality(T) \in Nat /\ Cardinality(S \cap T) \in Nat
  BY <1>1, FS_CardinalityType
<1>3. Cardinality(S \cup T) = Cardinality(S) + Cardinality(T) - Cardinality(S \cap T)
  BY FS_Union
<1> QED
  BY <1>1, <1>2, <1>3

(***************************************************************************)
(* A pair that is minted is a pair that nobody holds.                      *)
(***************************************************************************)
LEMMA FreshIsNew == FreshPair \in Pairs /\ FreshPair \notin InUse
<1> DEFINE c == Cardinality(Tabs)
           d == Cardinality(Jars)
           A == {row.hash, redis.refresh, redis.access}
           B == {cookies[j].refresh : j \in Jars}
           C == {bearer[t] : t \in Tabs}
           D(f) == {f[t] : t \in Tabs}
           f1 == [t \in Tabs |-> req[t].bearer]
           f2 == [t \in Tabs |-> req[t].cookie]
           f3 == [t \in Tabs |-> req[t].pair]
           f4 == [t \in Tabs |-> req[t].answer.pair]
<1>1. c \in Nat /\ d \in Nat /\ IsFiniteSet(Tabs) /\ IsFiniteSet(Jars)
  BY SessionConstants, FS_CardinalityType
<1>2. IsFiniteSet(A) /\ Cardinality(A) <= 3
  <2>1. IsFiniteSet({row.hash}) /\ Cardinality({row.hash}) = 1
    BY FS_Singleton
  <2>2. /\ IsFiniteSet({row.hash} \cup {redis.refresh})
        /\ Cardinality({row.hash} \cup {redis.refresh}) \in {1, 2}
    BY <2>1, FS_AddElement
  <2>3. /\ IsFiniteSet(({row.hash} \cup {redis.refresh}) \cup {redis.access})
        /\ Cardinality(({row.hash} \cup {redis.refresh}) \cup {redis.access}) \in {1, 2, 3}
    BY <2>2, FS_AddElement
  <2>4. A = ({row.hash} \cup {redis.refresh}) \cup {redis.access}
    OBVIOUS
  <2> QED
    BY <2>3, <2>4
<1>3. IsFiniteSet(B) /\ Cardinality(B) <= d
  <2> DEFINE g == [j \in Jars |-> cookies[j].refresh]
  <2>1. B = {g[j] : j \in Jars} /\ DOMAIN g = Jars
    OBVIOUS
  <2> HIDE DEF g
  <2> QED
    BY <1>1, <2>1, ImageSize
<1>4. ASSUME NEW f, DOMAIN f = Tabs PROVE IsFiniteSet(D(f)) /\ Cardinality(D(f)) <= c
  BY <1>1, <1>4, ImageSize
<1>5. IsFiniteSet(C) /\ Cardinality(C) <= c
  <2> DEFINE g == [t \in Tabs |-> bearer[t]]
  <2>1. C = D(g) /\ DOMAIN g = Tabs
    OBVIOUS
  <2> HIDE DEF g
  <2> QED
    BY <1>4, <2>1
<1>6. /\ IsFiniteSet(D(f1)) /\ Cardinality(D(f1)) <= c
      /\ IsFiniteSet(D(f2)) /\ Cardinality(D(f2)) <= c
      /\ IsFiniteSet(D(f3)) /\ Cardinality(D(f3)) <= c
      /\ IsFiniteSet(D(f4)) /\ Cardinality(D(f4)) <= c
  BY <1>4
<1> DEFINE All == ((A \cup B) \cup C) \cup ((D(f1) \cup D(f2)) \cup (D(f3) \cup D(f4)))
<1>7. InUse \subseteq All
  BY DEF InUse
<1> HIDE DEF A, B, C, D, c, d
<1>8. IsFiniteSet(All) /\ Cardinality(All) <= (3 + d + c) + ((c + c) + (c + c))
  <2>0. 3 + d \in Nat /\ 3 + d + c \in Nat /\ c + c \in Nat /\ (c + c) + (c + c) \in Nat
    BY <1>1
  <2>1. IsFiniteSet(A \cup B) /\ Cardinality(A \cup B) <= 3 + d
    BY <1>1, <1>2, <1>3, UnionSize
  <2>2. IsFiniteSet((A \cup B) \cup C) /\ Cardinality((A \cup B) \cup C) <= 3 + d + c
    BY <1>1, <1>5, <2>0, <2>1, UnionSize
  <2>3. /\ IsFiniteSet(D(f1) \cup D(f2)) /\ Cardinality(D(f1) \cup D(f2)) <= c + c
        /\ IsFiniteSet(D(f3) \cup D(f4)) /\ Cardinality(D(f3) \cup D(f4)) <= c + c
    BY <1>1, <1>6, UnionSize
  <2>4. /\ IsFiniteSet((D(f1) \cup D(f2)) \cup (D(f3) \cup D(f4)))
        /\ Cardinality((D(f1) \cup D(f2)) \cup (D(f3) \cup D(f4))) <= (c + c) + (c + c)
    BY <2>0, <2>3, UnionSize
  <2> QED
    BY <2>0, <2>2, <2>4, UnionSize
<1>9. \E p \in Pairs : p \notin InUse
  <2> SUFFICES ASSUME Pairs \subseteq All PROVE FALSE
    BY <1>7
  <2>1. IsFiniteSet(Pairs) /\ Cardinality(Pairs) <= Cardinality(All)
    BY <1>8, FS_Subset
  <2>2. Cardinality(Pairs) > 3 + d + 5 * c
    BY <2>1, SessionConstants DEF c, d
  <2>3. Cardinality(Pairs) \in Nat /\ Cardinality(All) \in Nat
    BY <1>8, <2>1, FS_CardinalityType
  <2> QED
    BY <1>1, <1>8, <2>1, <2>2, <2>3
<1> QED
  BY <1>9 DEF FreshPair

-----------------------------------------------------------------------------
(* Requests that write the records of the session *)

Accounting == {"claim", "setPassword", "pending"}
Revoking == {"revokeRow", "delRefresh", "delAccess"}

\* The plans that store a pair, by the write that comes next: the row, refresh:<id>,
\* access:<id>, and for a verification the user read once more.
Ends(todo, n) == Len(todo) = n \/ (Len(todo) = n + 1 /\ todo[n + 1] = "reread")
RowNext(todo) ==
  todo[1] \in {"upsertRow", "enroll"} /\ todo[2] = "setRefresh" /\ todo[3] = "setAccess" /\ Ends(todo, 3)
RefreshNext(todo) == todo[1] = "setRefresh" /\ todo[2] = "setAccess" /\ Ends(todo, 2)
AccessNext(todo) == todo[1] = "setAccess" /\ Ends(todo, 1)
RereadNext(todo) == todo[1] = "reread" /\ Len(todo) = 1
Mints(todo) == RowNext(todo) \/ RefreshNext(todo) \/ AccessNext(todo) \/ RereadNext(todo)

\* An answer that sets the refresh cookie, and no other, brings a pair.
Tellable(a) ==
  /\ a.refresh \in {"keep", "clear", "set"} /\ a.mfa \in {"keep", "clear", "set"}
  /\ a.pair \in Token /\ (a.refresh = "set" <=> a.pair # None)

\* A handler with a pair stores it everywhere before it answers with it; one without
\* touches the account or revokes.
Agreeing(op, d) ==
  /\ Tellable(d.answer) /\ d.pair = d.answer.pair
  /\ op \notin Writers => d.pair = None
  /\ d.pair # None => d.todo = << >> \/ Mints(d.todo)
  /\ d.pair = None => \A i \in 1 .. Len(d.todo) :
                        d.todo[i] \in IF op \in Writers THEN Revoking ELSE Accounting

Formed(r) ==
  r.op # None =>
    /\ r.pc \in {"sent", "handle", "work", "answered"}
    /\ Tellable(r.answer)
    /\ r.op \notin Writers \/ r.pc \in {"sent", "handle"} => r.answer.pair = None
    /\ r.pc = "work" => Agreeing(r.op, r)

AllFormed == \A t \in Tabs : Formed(req[t])

(***************************************************************************)
(* What is left of a plan that stores a pair.                              *)
(***************************************************************************)
LEMMA MintTail ==
  ASSUME NEW todo \in Seq(Writes), todo # << >>
  PROVE  /\ RowNext(todo) => RefreshNext(Tail(todo))
         /\ RefreshNext(todo) => AccessNext(Tail(todo))
         /\ AccessNext(todo) => Tail(todo) = << >> \/ RereadNext(Tail(todo))
         /\ RereadNext(todo) => Tail(todo) = << >>
<1>1. /\ Len(todo) \in Nat \ {0} /\ Tail(todo) \in Seq(Writes)
      /\ Len(Tail(todo)) = Len(todo) - 1
      /\ \A i \in 1 .. Len(Tail(todo)) : Tail(todo)[i] = todo[i + 1]
      /\ Len(Tail(todo)) = 0 => Tail(todo) = << >>
  OBVIOUS
<1>2. RowNext(todo) => RefreshNext(Tail(todo))
  BY <1>1 DEF RowNext, RefreshNext, Ends
<1>3. RefreshNext(todo) => AccessNext(Tail(todo))
  BY <1>1 DEF RefreshNext, AccessNext, Ends
<1>4. AccessNext(todo) => Tail(todo) = << >> \/ RereadNext(Tail(todo))
  BY <1>1 DEF AccessNext, RereadNext, Ends
<1>5. RereadNext(todo) => Tail(todo) = << >>
  BY <1>1 DEF RereadNext
<1> QED
  BY <1>2, <1>3, <1>4, <1>5

LEMMA TailAgreeing ==
  ASSUME NEW op, NEW d, NEW e, d.todo \in Seq(Writes), d.todo # << >>, Agreeing(op, d),
         e.todo = Tail(d.todo), e.pair = d.pair, e.answer = d.answer
  PROVE  Agreeing(op, e)
<1>1. /\ Len(Tail(d.todo)) = Len(d.todo) - 1 /\ Len(d.todo) \in Nat \ {0}
      /\ \A i \in 1 .. Len(Tail(d.todo)) : Tail(d.todo)[i] = d.todo[i + 1]
  OBVIOUS
<1>2. \A i \in 1 .. Len(Tail(d.todo)) : i + 1 \in 1 .. Len(d.todo)
  BY <1>1
<1>3. e.pair # None => e.todo = << >> \/ Mints(e.todo)
  BY MintTail DEF Agreeing, Mints
<1> QED
  BY <1>1, <1>2, <1>3 DEF Agreeing

(***************************************************************************)
(* The plans of the handlers.                                              *)
(***************************************************************************)
LEMMA PlansMint == RowNext(RefreshWrites) /\ RowNext(LoginWrites) /\ RowNext(EnrollmentWrites)
BY DEF RowNext, Ends, RefreshWrites, LoginWrites, EnrollmentWrites

LEMMA ConcatIn ==
  ASSUME NEW S, NEW p \in Seq(Writes), NEW q \in Seq(Writes),
         \A i \in 1 .. Len(p) : p[i] \in S, \A i \in 1 .. Len(q) : q[i] \in S
  PROVE  \A i \in 1 .. Len(p \o q) : (p \o q)[i] \in S
<1>1. /\ Len(p) \in Nat /\ Len(q) \in Nat /\ Len(p \o q) = Len(p) + Len(q)
      /\ \A i \in 1 .. Len(p) + Len(q) : (p \o q)[i] = IF i <= Len(p) THEN p[i] ELSE q[i - Len(p)]
  OBVIOUS
<1>2. \A i \in 1 .. Len(p) + Len(q) : i \in 1 .. Len(p) \/ (i > Len(p) /\ i - Len(p) \in 1 .. Len(q))
  BY <1>1
<1> QED
  BY <1>1, <1>2

LEMMA PlansRevoke ==
  /\ \A i \in 1 .. Len(RevokeWrites) : RevokeWrites[i] \in Revoking
  /\ LET p == RevokeWrites \o <<"delRefresh", "delAccess">>
     IN  \A i \in 1 .. Len(p) : p[i] \in Revoking
<1>1. RevokeWrites \in Seq(Writes) /\ \A i \in 1 .. Len(RevokeWrites) : RevokeWrites[i] \in Revoking
  BY DEF RevokeWrites, Revoking, Writes
<1> DEFINE q == <<"delRefresh", "delAccess">>
<1>2. q \in Seq(Writes) /\ \A i \in 1 .. Len(q) : q[i] \in Revoking
  BY DEF Revoking, Writes
<1> HIDE DEF q
<1>3. \A i \in 1 .. Len(RevokeWrites \o q) : (RevokeWrites \o q)[i] \in Revoking
  BY <1>1, <1>2, ConcatIn
<1> QED
  BY <1>1, <1>3 DEF q

(***************************************************************************)
(* A handler plans to store a pair everywhere, or to touch the account, or *)
(* to revoke; the pair it plans with is a fresh one.                       *)
(***************************************************************************)
Minted(d) == d.pair # None => d.pair = FreshPair /\ RowNext(d.todo)

LEMMA HandlersAgree ==
  ASSUME NEW t \in Tabs, NEW r, r.op \in Ops
  PROVE  Agreeing(r.op, Handle(r, t)) /\ Minted(Handle(r, t))
<1> DEFINE Fine(d) == Agreeing(r.op, d) /\ Minted(d)
<1>0. FreshPair # None /\ FreshPair \in Token /\ None \in Token
  BY FreshIsNew, SessionConstants DEF Token
<1>1. \A status : Fine(Refuse(status))
  BY <1>0 DEF Refuse, Decision, Agreeing, Minted, Tellable, Plain, Answer
<1>2. \A w : r.op \notin Writers /\ w \in Accounting =>
        \A status : Fine(Decision(<<w>>, Plain(status), None, None))
  BY <1>0 DEF Decision, Agreeing, Minted, Tellable, Plain, Answer
<1>3. r.op \in Writers => \A status :
        /\ Fine(Decision(<<"delRefresh">>, ClearAuthCookies(status), None, None))
        /\ Fine(Decision(RevokeWrites, ClearAuthCookies(status), None, None))
        /\ Fine(Decision(RevokeWrites \o <<"delRefresh", "delAccess">>, ClearAuthCookies(status), None, None))
  BY <1>0, PlansRevoke DEF Decision, Agreeing, Minted, Tellable, ClearAuthCookies, Answer, Revoking
<1>4. r.op \in Writers => \A todo, mfa, secret :
        RowNext(todo) /\ mfa \in {"keep", "clear"} =>
          Fine(Decision(todo, SetRefreshCookie(mfa, FreshPair), FreshPair, secret))
  BY <1>0 DEF Decision, Agreeing, Minted, Mints, Tellable, SetRefreshCookie, Answer
<1>5. CASE r.op \in {"activate", "changePassword", "login", "enrollStart", "me"}
  <2>1. r.op \notin Writers
    BY <1>5 DEF Writers
  <2>2. CASE r.op = "activate"
    BY <1>2, <2>1, <2>2 DEF Handle, HandleActivate, Accounting
  <2>3. CASE r.op = "changePassword"
    <3>1. HandleChangePassword(r) \in {Refuse(401), Refuse(404),
                                       Decision(<<"setPassword">>, Plain(204), None, None)}
      BY DEF HandleChangePassword
    <3> QED
      BY <1>1, <1>2, <2>1, <2>3, <3>1 DEF Handle, Accounting
  <2>4. CASE r.op = "login"
    <3>1. Fine(Decision(<< >>, SetMfaCookie, None, None))
      BY <1>0 DEF Decision, Agreeing, Minted, Tellable, SetMfaCookie, Answer
    <3> QED
      BY <1>1, <2>4, <3>1 DEF Handle, HandleLogin
  <2>5. CASE r.op = "enrollStart"
    BY <1>1, <1>2, <2>1, <2>5 DEF Handle, HandleEnrollStart, Accounting
  <2>6. CASE r.op = "me"
    BY <1>1, <2>6 DEF Handle, HandleMe
  <2> QED
    BY <1>5, <2>2, <2>3, <2>4, <2>5, <2>6
<1>6. CASE r.op \in {"enrollVerify", "verify", "logout", "refresh"}
  <2>1. r.op \in Writers
    BY <1>6 DEF Writers
  <2>2. CASE r.op = "enrollVerify"
    BY <1>1, <1>4, <2>1, <2>2, PlansMint DEF Handle, HandleEnrollVerify
  <2>3. CASE r.op = "verify"
    BY <1>1, <1>4, <2>1, <2>3, PlansMint DEF Handle, HandleVerify
  <2>4. CASE r.op = "logout"
    BY <1>1, <1>3, <2>1, <2>4 DEF Handle, HandleLogout
  <2>5. CASE r.op = "refresh"
    BY <1>1, <1>3, <1>4, <2>1, <2>5, PlansMint DEF Handle, HandleRefresh
  <2> QED
    BY <1>6, <2>2, <2>3, <2>4, <2>5
<1> QED
  BY <1>5, <1>6 DEF Ops

-----------------------------------------------------------------------------
(* Agreement *)

Settled ==
  /\ redis.refresh \in {None, row.hash}
  /\ redis.access \in {None, row.hash}
  /\ \A t \in Tabs : (bearer[t] # None /\ bearer[t] = redis.access)
                        => cookies[jarOf[t]].refresh \in {None, row.hash}

\* A writer without a pair leaves the records agreeing.  The pair of one that has
\* one is in no tab's memory before its answer is, and in each record it has written.
WriterSound(r) ==
  IF r.answer.pair = None THEN Settled
  ELSE /\ \A t \in Tabs : bearer[t] # r.answer.pair
       /\ IF r.pc = "work" /\ RowNext(r.todo) THEN Settled
          ELSE /\ row.hash = r.answer.pair
               /\ ~(r.pc = "work" /\ RefreshNext(r.todo)) => redis.refresh \in {None, row.hash}
               /\ ~(r.pc = "work" /\ (RefreshNext(r.todo) \/ AccessNext(r.todo)))
                    => redis.access \in {None, row.hash}

CalmSound ==
  calm => /\ \A t, u \in ActiveWriters(req) : t = u
          /\ \A t \in ActiveWriters(req) : WriterSound(req[t])
          /\ ActiveWriters(req) = {} => Settled

(***************************************************************************)
(* Nothing is stored that was not there.                                   *)
(***************************************************************************)
Fading ==
  /\ jarOf \in [Tabs -> Jars] /\ UNCHANGED jarOf
  /\ row'.hash = row.hash
  /\ redis'.refresh \in {redis.refresh, None} /\ redis'.access \in {redis.access, None}
  /\ \A t \in Tabs : bearer'[t] \in {bearer[t], None}
  /\ \A j \in Jars : cookies'[j].refresh \in {cookies[j].refresh, None}

LEMMA Fade ==
  ASSUME Fading
  PROVE  (Settled => Settled') /\ \A r : WriterSound(r) => WriterSound(r)'
<1>1. Settled => Settled'
  BY DEF Fading, Settled
<1> QED
  BY <1>1 DEF Fading, WriterSound

\* Others is what a step of t's request leaves alone.
Others(t) == \A u \in Tabs \ {t} : req'[u] = req[u]

\* At most one writer is left at work.
LEMMA OneWriter ==
  ASSUME Watch, calm'
  PROVE  calm /\ ~CutOff /\ \A t, u \in ActiveWriters(req') : t = u
<1> DEFINE W == ActiveWriters(req')
<1>1. calm /\ ~CutOff /\ Cardinality(W) <= 1
  BY DEF Watch
<1>2. IsFiniteSet(W)
  BY SessionConstants, FS_Subset DEF ActiveWriters
<1>3. ASSUME NEW t \in W, NEW u \in W, t # u PROVE FALSE
  <2>1. IsFiniteSet({t}) /\ Cardinality({t}) = 1
    BY FS_Singleton
  <2>2. Cardinality({t} \cup {u}) = 2
    BY <1>3, <2>1, FS_AddElement
  <2>3. {t} \cup {u} \in SUBSET W
    BY <1>3
  <2>4. Cardinality({t} \cup {u}) <= Cardinality(W) /\ Cardinality(W) \in Nat
    BY <1>2, <2>3, FS_Subset, FS_CardinalityType
  <2> QED
    BY <1>1, <2>2, <2>4
<1> QED
  BY <1>1, <1>3

(***************************************************************************)
(* A step of no writer, or of one that only now starts; of none at all;    *)
(* and of the one writer there is.                                         *)
(***************************************************************************)
LEMMA CalmOther ==
  ASSUME CalmSound, Watch, Fading, NEW t \in Tabs, Others(t), req[t].op \notin Writers,
         req'[t].op \in Writers => req'[t].answer.pair = None
  PROVE  CalmSound'
<1> SUFFICES ASSUME calm' PROVE CalmSound'
  BY DEF CalmSound
<1>1. calm /\ \A u, v \in ActiveWriters(req') : u = v
  BY OneWriter
<1>2. (Settled => Settled') /\ \A r : WriterSound(r) => WriterSound(r)'
  BY Fade
<1>3. \A u \in Tabs \ {t} : u \in ActiveWriters(req') <=> u \in ActiveWriters(req)
  BY DEF ActiveWriters, Others
<1>4. t \notin ActiveWriters(req)
  BY DEF ActiveWriters
<1>5. CASE t \in ActiveWriters(req')
  <2>1. ActiveWriters(req) = {} /\ ActiveWriters(req') = {t}
    BY <1>1, <1>3, <1>4, <1>5 DEF ActiveWriters
  <2>2. Settled'
    BY <1>1, <1>2, <2>1 DEF CalmSound
  <2>3. PICK q : q = req'[t]
    OBVIOUS
  <2>4. q.answer.pair = None
    BY <1>5, <2>3 DEF ActiveWriters
  <2>5. WriterSound(req[t])'
    BY <2>2, <2>3, <2>4 DEF WriterSound
  <2> QED
    BY <1>1, <2>1, <2>5 DEF CalmSound
<1>6. CASE t \notin ActiveWriters(req')
  <2>1. ActiveWriters(req') = ActiveWriters(req)
    BY <1>3, <1>4, <1>6 DEF ActiveWriters
  <2>2. ASSUME NEW u \in ActiveWriters(req') PROVE WriterSound(req[u])'
    <3>1. PICK q : q = req'[u]
      OBVIOUS
    <3>2. q = req[u] /\ WriterSound(q)
      BY <1>1, <1>6, <2>1, <2>2, <3>1 DEF CalmSound, Others, ActiveWriters
    <3>3. WriterSound(q)'
      BY <1>2, <3>2
    <3> QED
      BY <3>1, <3>3 DEF WriterSound
  <2> QED
    BY <1>1, <1>2, <2>1, <2>2 DEF CalmSound
<1> QED
  BY <1>5, <1>6

LEMMA CalmFade ==
  ASSUME CalmSound, Watch, Fading, UNCHANGED req
  PROVE  CalmSound'
<1>1. (Settled => Settled') /\ \A r : WriterSound(r) => WriterSound(r)'
  BY Fade
<1>2. ActiveWriters(req') = ActiveWriters(req)
  BY DEF ActiveWriters
<1>3. ASSUME NEW u \in ActiveWriters(req), WriterSound(req[u]) PROVE WriterSound(req[u])'
  <2>1. PICK q : q = req[u]
    OBVIOUS
  <2>2. WriterSound(q)'
    BY <1>1, <1>3, <2>1
  <2> QED
    BY <2>1, <2>2 DEF WriterSound
<1> QED
  BY <1>1, <1>2, <1>3, OneWriter DEF CalmSound

LEMMA CalmOne ==
  ASSUME CalmSound, Watch, NEW t \in Tabs, Others(t), req[t].op \in Writers,
         NEW q, q = req'[t], calm' /\ ~CutOff /\ WriterSound(req[t]) =>
                               IF q.op \in Writers THEN WriterSound(q)' ELSE Settled'
  PROVE  CalmSound'
<1> SUFFICES ASSUME calm' PROVE CalmSound'
  BY DEF CalmSound
<1>1. calm /\ ~CutOff /\ \A u, v \in ActiveWriters(req') : u = v
  BY OneWriter
<1>2. ActiveWriters(req) = {t} /\ WriterSound(req[t])
  BY <1>1 DEF CalmSound, ActiveWriters
<1>3. \A u \in ActiveWriters(req') : u = t
  BY <1>2 DEF ActiveWriters, Others
<1>4. CASE q.op \in Writers
  <2>1. WriterSound(req[t])'
    BY <1>1, <1>2, <1>4 DEF WriterSound
  <2>2. t \in ActiveWriters(req')
    BY <1>4 DEF ActiveWriters
  <2> QED
    BY <1>1, <1>3, <2>1, <2>2 DEF CalmSound
<1>5. CASE q.op \notin Writers
  <2>1. ActiveWriters(req') = {}
    BY <1>3, <1>5 DEF ActiveWriters
  <2> QED
    BY <1>1, <1>2, <1>5, <2>1 DEF CalmSound
<1> QED
  BY <1>4, <1>5

-----------------------------------------------------------------------------
(***************************************************************************)
(* The form of a request, and what its next write must be.                 *)
(***************************************************************************)
LEMMA AnsweredForm ==
  ASSUME NEW r, NEW a, DOMAIN r = Fields, r.op \in Ops, Tellable(a), r.op \in Writers \/ a.pair = None,
         NEW q, q = Answered(r, a)
  PROVE  q.op = r.op /\ q.pc = "answered" /\ q.answer = a /\ Formed(q)
<1>1. q.op = r.op /\ q.pc = "answered" /\ q.answer = a
  BY DEF Answered, Fields
<1> QED
  BY <1>1 DEF Formed

LEMMA WorkingForm ==
  ASSUME NEW r, NEW d, DOMAIN r = Fields, r.op \in Ops, Agreeing(r.op, d), NEW q, q = Working(r, d)
  PROVE  /\ q.op = r.op /\ q.answer = d.answer /\ Formed(q)
         /\ (q.pc = "answered" /\ d.todo = << >>) \/ (q.pc = "work" /\ q.todo = d.todo)
<1>0. Tellable(d.answer) /\ d.pair = d.answer.pair /\ (r.op \notin Writers => d.pair = None)
  BY DEF Agreeing
<1>1. CASE d.todo = << >>
  <2>1. q = Answered(r, d.answer)
    BY <1>1 DEF Working
  <2> QED
    BY <1>0, <1>1, <2>1, AnsweredForm
<1>2. CASE d.todo # << >>
  <2>1. /\ q.op = r.op /\ q.pc = "work" /\ q.todo = d.todo /\ q.answer = d.answer
        /\ q.pair = d.pair
    BY <1>2 DEF Working, Fields
  <2>2. Agreeing(q.op, q)
    BY <2>1 DEF Agreeing
  <2> QED
    BY <1>0, <2>1, <2>2 DEF Formed
<1> QED
  BY <1>1, <1>2

LEMMA PutForm ==
  ASSUME RequestsSound, AllFormed, NEW t \in Tabs, NEW q, Formed(q), Put(t, q)
  PROVE  AllFormed' /\ Others(t) /\ q = req'[t]
<1>1. q = req'[t] /\ \A u \in Tabs \ {t} : req'[u] = req[u]
  BY DEF RequestsSound, Put
<1>2. ASSUME NEW u \in Tabs PROVE Formed(req'[u])
  BY <1>1 DEF AllFormed
<1>3. AllFormed'
  BY <1>2 DEF AllFormed
<1> QED
  BY <1>1, <1>3 DEF Others

\* A write that stores a pair belongs to a plan that stores it everywhere.
LEMMA NextPlan ==
  ASSUME NEW op, NEW d, d.todo \in Seq(Writes), d.todo # << >>, Agreeing(op, d), NEW w, w = d.todo[1]
  PROVE  /\ w \in {"upsertRow", "enroll"} => d.pair # None /\ op \in Writers /\ RowNext(d.todo)
         /\ w = "setRefresh" => d.pair # None /\ op \in Writers /\ RefreshNext(d.todo)
         /\ w = "setAccess" => d.pair # None /\ op \in Writers /\ AccessNext(d.todo)
         /\ w = "reread" => d.pair # None /\ op \in Writers /\ RereadNext(d.todo)
         /\ w \in Accounting => d.pair = None /\ op \notin Writers
         /\ w \in Revoking => d.pair = None /\ op \in Writers
<1>1. 1 \in 1 .. Len(d.todo)
  OBVIOUS
<1>2. CASE d.pair = None
  BY <1>1, <1>2 DEF Agreeing, Accounting, Revoking
<1>3. CASE d.pair # None
  <2>1. op \in Writers /\ Mints(d.todo)
    BY <1>3 DEF Agreeing
  <2> QED
    BY <1>3, <2>1 DEF Mints, RowNext, RefreshNext, AccessNext, RereadNext, Accounting, Revoking
<1> QED
  BY <1>2, <1>3

\* What a write makes of its request.
LEMMA WriteForm ==
  ASSUME IInv, AllFormed, NEW t \in Tabs, NEW w, NextWrite(t, w), NEW r, r = req[t], NEW q, q = req'[t]
  PROVE  /\ r.op \in Ops /\ r.pc = "work" /\ r.todo \in Seq(Writes) /\ r.todo # << >> /\ r.todo[1] = w
         /\ Agreeing(r.op, r) /\ q.op = r.op /\ q.answer = r.answer
         /\ (q.pc = "answered" /\ Tail(r.todo) = << >>) \/ (q.pc = "work" /\ q.todo = Tail(r.todo))
         /\ AllFormed' /\ Others(t) /\ UNCHANGED <<cookies, bearer, admin, left>>
<1> DEFINE d == [r EXCEPT !.todo = Tail(@)]
<1>1. /\ r.op # None /\ r.pc = "work" /\ Head(r.todo) = w /\ Put(t, Working(r, d))
      /\ UNCHANGED <<cookies, bearer, admin, left>>
  BY DEF NextWrite, Busy
<1>2. DOMAIN r = Fields /\ r.op \in Ops /\ r.todo \in Seq(Writes) /\ r.todo # << >>
  BY <1>1 DEF IInv, RequestsSound, Sound, Respects, MayWrite
<1>3. r.todo[1] = w
  BY <1>1, <1>2
<1>4. Agreeing(r.op, r)
  BY <1>1 DEF AllFormed, Formed
<1>5. d.todo = Tail(r.todo) /\ d.pair = r.pair /\ d.answer = r.answer
  BY <1>2 DEF Fields
<1>6. Agreeing(r.op, d)
  BY <1>2, <1>4, <1>5, TailAgreeing
<1> HIDE DEF d
<1>7. PICK v : v = Working(r, d)
  OBVIOUS
<1>8. /\ v.op = r.op /\ v.answer = d.answer /\ Formed(v)
      /\ (v.pc = "answered" /\ d.todo = << >>) \/ (v.pc = "work" /\ v.todo = d.todo)
  BY <1>2, <1>6, <1>7, WorkingForm
<1>9. AllFormed' /\ Others(t) /\ v = req'[t]
  BY <1>1, <1>7, <1>8, PutForm DEF IInv
<1> QED
  BY <1>1, <1>2, <1>3, <1>4, <1>5, <1>8, <1>9

-----------------------------------------------------------------------------
(* The steps *)

StoresTyped ==
  /\ row \in [hash : Token, revoked : BOOLEAN] /\ redis \in [refresh : Token, access : Token]
  /\ cookies \in [Jars -> [refresh : Token, mfa : BOOLEAN]] /\ bearer \in [Tabs -> Token]
  /\ admin \in BOOLEAN /\ calm \in BOOLEAN
  /\ left \in [request : 0 .. RequestBudget, event : 0 .. EventBudget]

\* What a step is shown to keep, beside IInv.
Agreed == StoresTyped /\ AllFormed /\ CalmSound

LEMMA SpendTyped ==
  ASSUME StoresTyped, NEW b \in {"request", "event"}, Spend(b)
  PROVE  left' \in [request : 0 .. RequestBudget, event : 0 .. EventBudget]
<1>1. left[b] > 0 /\ left' = [left EXCEPT ![b] = @ - 1] /\ RequestBudget \in Nat /\ EventBudget \in Nat
  BY SessionConstants DEF Spend
<1>2. left \in [request : 0 .. RequestBudget, event : 0 .. EventBudget]
  BY DEF StoresTyped
<1>3. CASE b = "request"
  BY <1>1, <1>2, <1>3
<1>4. CASE b = "event"
  BY <1>1, <1>2, <1>4
<1> QED
  BY <1>3, <1>4

LEMMA WatchTyped == ASSUME Watch PROVE calm' \in BOOLEAN
BY DEF Watch

\* The records of one who waits, sends, or only asks.
LEMMA StillFading ==
  ASSUME IInv, UNCHANGED <<row, redis, cookies, bearer, jarOf>>
  PROVE  Fading
BY DEF Fading, IInv, StoresType

(***************************************************************************)
(* A step of a request that only changes the request.                      *)
(***************************************************************************)
LEMMA AskSteps ==
  ASSUME IInv, Agreed, Watch, NEW t \in Tabs, Send(t) \/ RequireAuth(t) \/ Decide(t) \/ Lose(t)
  PROVE  Agreed'
<1> USE DEF Agreed
<1> DEFINE r == req[t]
<1>1. UNCHANGED <<row, redis, cookies, bearer, admin, jarOf>> /\ Fading
  BY StillFading DEF Send, RequireAuth, Decide, Lose, stores, Watch
<1>2. StoresTyped'
  <2>1. left' \in [request : 0 .. RequestBudget, event : 0 .. EventBudget]
    BY SpendTyped DEF Send, RequireAuth, Decide, Lose, StoresTyped
  <2> QED
    BY <1>1, <2>1, WatchTyped DEF StoresTyped
<1>3. Tellable(Failed) /\ Failed.pair = None
  BY DEF Failed, Plain, Answer, Tellable, Token
<1>4. \A status : Tellable(Plain(status)) /\ Plain(status).pair = None
  BY DEF Plain, Answer, Tellable, Token
<1>5. r.op # None => DOMAIN r = Fields /\ r.op \in Ops
  BY DEF IInv, RequestsSound, Sound
<1>6. CASE Send(t)
  <2>1. PICK op \in Ops, right \in BOOLEAN : Put(t, Sent(op, t, right))
    BY <1>6 DEF Send
  <2>2. PICK q : q = Sent(op, t, right)
    OBVIOUS
  <2>3. q.op = op /\ q.pc = "sent" /\ q.answer = Failed
    BY <2>2 DEF Sent
  <2>4. Formed(q)
    BY <1>3, <2>3 DEF Formed
  <2>5. AllFormed' /\ Others(t) /\ q = req'[t]
    BY <2>1, <2>2, <2>4, PutForm DEF IInv
  <2>6. r.op \notin Writers
    BY <1>6, SessionConstants DEF Send, Busy, Writers, Ops
  <2>7. CalmSound'
    BY <1>1, <1>3, <2>3, <2>5, <2>6, CalmOther
  <2> QED
    BY <1>2, <2>5, <2>7
<1>7. CASE RequireAuth(t)
  <2> DEFINE h == [r EXCEPT !.pc = "handle", !.bearer = None]
             x == Answered(r, Plain(401))
  <2>1. r.op = "logout" /\ r.pc = "sent" /\ Busy(t) /\ (Put(t, h) \/ Put(t, x)) /\ r.op \in Writers
    BY <1>7 DEF RequireAuth, Writers
  <2>2. r.answer.pair = None /\ Tellable(r.answer)
    BY <2>1 DEF AllFormed, Formed, Busy
  <2>3. PICK q : q \in {h, x} /\ Put(t, q)
    BY <2>1
  <2>4. Formed(q) /\ q.op = r.op /\ q.answer.pair = None
    <3>1. CASE q = h
      <4>1. h.op = r.op /\ h.pc = "handle" /\ h.answer = r.answer
        BY <1>5, <2>1 DEF Busy, Fields
      <4> QED
        BY <2>2, <3>1, <4>1 DEF Formed
    <3>2. CASE q = x
      BY <1>4, <1>5, <2>1, <3>2, AnsweredForm DEF Busy
    <3> QED
      BY <2>3, <3>1, <3>2
  <2>5. AllFormed' /\ Others(t) /\ q = req'[t]
    BY <2>3, <2>4, PutForm DEF IInv
  <2>6. WriterSound(r) => WriterSound(q)'
    BY <1>1, <2>2, <2>4, Fade DEF WriterSound
  <2>7. CalmSound'
    BY <2>1, <2>4, <2>5, <2>6, CalmOne
  <2> QED
    BY <1>2, <2>5, <2>7
<1>8. CASE Decide(t)
  <2>1. PICK d : d = Handle(r, t)
    OBVIOUS
  <2>2. PICK q : q = Working(r, d)
    OBVIOUS
  <2>3. Busy(t) /\ r.pc \in {"sent", "handle"} /\ Put(t, q)
    BY <1>8, <2>1, <2>2 DEF Decide
  <2>4. Agreeing(r.op, d) /\ Minted(d)
    BY <1>5, <2>1, <2>3, HandlersAgree DEF Busy
  <2>5. /\ q.op = r.op /\ q.answer = d.answer /\ Formed(q)
        /\ (q.pc = "answered" /\ d.todo = << >>) \/ (q.pc = "work" /\ q.todo = d.todo)
    BY <1>5, <2>2, <2>3, <2>4, WorkingForm DEF Busy
  <2>6. AllFormed' /\ Others(t) /\ q = req'[t]
    BY <2>3, <2>5, PutForm DEF IInv
  <2>7. r.answer.pair = None /\ d.pair = d.answer.pair
    BY <2>3, <2>4 DEF AllFormed, Formed, Busy, Agreeing
  <2>8. CASE d.pair = None /\ r.op \notin Writers
    BY <1>1, <1>2, <2>5, <2>6, <2>7, <2>8, CalmOther
  <2>9. CASE d.pair = None /\ r.op \in Writers
    <3>1. WriterSound(r) => WriterSound(q)'
      BY <1>1, <2>5, <2>7, <2>9, Fade DEF WriterSound
    <3>2. CalmSound'
      BY <2>5, <2>6, <2>9, <3>1, CalmOne
    <3> QED
      BY <1>2, <2>6, <3>2
  <2>10. CASE d.pair # None
    <3>1. r.op \in Writers /\ RowNext(d.todo) /\ d.pair = FreshPair
      BY <2>4, <2>10 DEF Agreeing, Minted
    <3>2. \A u \in Tabs : bearer'[u] # d.pair
      BY <1>1, <3>1, FreshIsNew DEF InUse
    <3>3. q.pc = "work" /\ q.todo = d.todo
      BY <2>5, <3>1 DEF RowNext, Ends
    <3>4. WriterSound(r) => WriterSound(q)'
      <4>1. WriterSound(r) => Settled'
        BY <1>1, <2>7, Fade DEF WriterSound
      <4> QED
        BY <2>5, <2>7, <2>10, <3>1, <3>2, <3>3, <4>1 DEF WriterSound
    <3>5. CalmSound'
      BY <2>5, <2>6, <3>1, <3>4, CalmOne
    <3> QED
      BY <1>2, <2>6, <3>5
  <2> QED
    BY <2>8, <2>9, <2>10
<1>9. CASE Lose(t)
  <2>1. PICK q : q = Answered(r, Failed)
    OBVIOUS
  <2>2. Busy(t) /\ Put(t, q)
    BY <1>9, <2>1 DEF Lose
  <2>3. q.op = r.op /\ q.pc = "answered" /\ q.answer = Failed /\ Formed(q)
    BY <1>3, <1>5, <2>1, <2>2, AnsweredForm DEF Busy
  <2>4. AllFormed' /\ Others(t) /\ q = req'[t]
    BY <2>2, <2>3, PutForm DEF IInv
  <2>5. CASE r.op \notin Writers
    BY <1>1, <1>2, <1>3, <2>3, <2>4, <2>5, CalmOther
  <2>6. CASE r.op \in Writers
    <3>1. q # r => CutOff
      BY <2>3, <2>4, <2>6 DEF CutOff, ActiveWriters
    <3>2. q = r => (WriterSound(r) => WriterSound(q)')
      BY <1>1, Fade
    <3> QED
      BY <1>2, <2>3, <2>4, <2>6, <3>1, <3>2, CalmOne
  <2> QED
    BY <2>5, <2>6
<1> QED
  BY <1>6, <1>7, <1>8, <1>9

(***************************************************************************)
(* An answer arrives, and a tab is reloaded.                               *)
(***************************************************************************)
LEMMA DeliverSteps ==
  ASSUME IInv, Agreed, Watch, NEW t \in Tabs, Deliver(t)
  PROVE  Agreed'
<1> USE DEF Agreed
<1> DEFINE j == jarOf[t]
<1>1. PICK r : r = req[t]
  OBVIOUS
<1>2. PICK a : a = r.answer
  OBVIOUS
<1>3. /\ r.op # None /\ r.pc = "answered" /\ Put(t, NoRequest) /\ UNCHANGED <<row, redis, admin, left, jarOf>>
      /\ cookies' = [cookies EXCEPT ![j] = SetCookies(@, a)]
      /\ bearer' = [bearer EXCEPT ![t] = CASE a.pair # None -> a.pair
                                           [] a.pair = None /\ r.op = "logout" -> None
                                           [] OTHER -> @]
  BY <1>1, <1>2 DEF Deliver, Busy, stores, Watch
<1>4. Tellable(a) /\ (r.op \notin Writers => a.pair = None)
  BY <1>1, <1>2, <1>3 DEF AllFormed, Formed
<1>5. jarOf \in [Tabs -> Jars] /\ j \in Jars
  BY DEF IInv, StoresType
<1>6. NoRequest.op = None /\ None \notin Writers
  BY SessionConstants DEF NoRequest, Writers, Ops
<1>7. AllFormed' /\ Others(t) /\ NoRequest = req'[t]
  BY <1>3, <1>6, PutForm DEF IInv, Formed, NoRequest
<1>8. \A i \in Jars : cookies'[i].refresh = IF i # j \/ a.refresh = "keep" THEN cookies[i].refresh
                                            ELSE a.pair
  BY <1>3, <1>5 DEF StoresTyped, SetCookies
<1>9. \A u \in Tabs : bearer'[u] = IF u # t THEN bearer[u]
                                   ELSE IF a.pair # None THEN a.pair
                                   ELSE IF r.op = "logout" THEN None ELSE bearer[u]
  <2> DEFINE v == CASE a.pair # None -> a.pair [] a.pair = None /\ r.op = "logout" -> None
                  [] OTHER -> bearer[t]
  <2>1. bearer' = [bearer EXCEPT ![t] = v]
    BY <1>3
  <2>2. v = IF a.pair # None THEN a.pair ELSE IF r.op = "logout" THEN None ELSE bearer[t]
    <3>1. CASE a.pair # None
      BY <3>1
    <3>2. CASE a.pair = None /\ r.op = "logout"
      BY <3>2
    <3>3. CASE a.pair = None /\ r.op # "logout"
      BY <3>3
    <3> QED
      BY <3>1, <3>2, <3>3
  <2> HIDE DEF v
  <2> QED
    BY <2>1, <2>2 DEF StoresTyped
<1>10. StoresTyped'
  <2>1. SetCookies(cookies[j], a) \in [refresh : Token, mfa : BOOLEAN]
    BY <1>4, <1>5 DEF StoresTyped, SetCookies, Tellable
  <2>2. cookies' \in [Jars -> [refresh : Token, mfa : BOOLEAN]]
    BY <1>3, <2>1 DEF StoresTyped
  <2>3. bearer' \in [Tabs -> Token]
    BY <1>3, <1>4 DEF StoresTyped, Tellable, Token
  <2> QED
    BY <1>3, <2>2, <2>3, WatchTyped DEF StoresTyped
<1>11. CASE a.pair = None
  <2>1. Fading
    BY <1>3, <1>5, <1>8, <1>9, <1>11 DEF Fading
  <2>2. CASE r.op \notin Writers
    BY <1>1, <1>6, <1>7, <1>10, <2>1, <2>2, CalmOther
  <2>3. CASE r.op \in Writers
    <3>1. WriterSound(r) => Settled'
      BY <1>2, <1>11, <2>1, Fade DEF WriterSound
    <3>2. CalmSound'
      <4>1. PICK q : q = NoRequest
        OBVIOUS
      <4> QED
        BY <1>1, <1>6, <1>7, <2>3, <3>1, <4>1, CalmOne
    <3> QED
      BY <1>7, <1>10, <3>2
  <2> QED
    BY <2>2, <2>3
<1>12. CASE a.pair # None
  <2>1. a.refresh = "set" /\ r.op \in Writers
    BY <1>4, <1>12 DEF Tellable
  <2>2. WriterSound(r) => Settled'
    <3>1. SUFFICES ASSUME WriterSound(r) PROVE Settled'
      OBVIOUS
    <3>2. /\ \A u \in Tabs : bearer[u] # a.pair
          /\ row.hash = a.pair /\ redis.refresh \in {None, a.pair} /\ redis.access \in {None, a.pair}
      BY <1>2, <1>3, <1>12, <3>1 DEF WriterSound
    <3>3. cookies'[j].refresh = a.pair
      BY <1>5, <1>8, <2>1
    <3>4. \A u \in Tabs : (bearer'[u] # None /\ bearer'[u] = redis'.access)
                             => cookies'[jarOf'[u]].refresh \in {None, row'.hash}
      BY <1>3, <1>9, <3>2, <3>3
    <3> QED
      BY <1>3, <3>2, <3>4 DEF Settled
  <2>3. CalmSound'
    <3>1. PICK q : q = NoRequest
      OBVIOUS
    <3> QED
      BY <1>1, <1>6, <1>7, <2>1, <2>2, <3>1, CalmOne
  <2> QED
    BY <1>7, <1>10, <2>3
<1> QED
  BY <1>11, <1>12

LEMMA ReloadSteps ==
  ASSUME IInv, Agreed, Watch, NEW t \in Tabs, Reload(t)
  PROVE  Agreed'
<1> USE DEF Agreed
<1>1. /\ bearer' = [bearer EXCEPT ![t] = None] /\ jarOf \in [Tabs -> Jars]
      /\ UNCHANGED <<row, redis, cookies, req, admin, left, jarOf>>
  BY DEF Reload, stores, Watch, IInv, StoresType
<1>2. StoresTyped'
  BY <1>1, WatchTyped DEF StoresTyped, Token
<1>3. AllFormed'
  BY <1>1 DEF AllFormed
<1>4. Fading
  BY <1>1 DEF Fading, StoresTyped
<1> QED
  BY <1>1, <1>2, <1>3, <1>4, CalmFade

\* A plan has one next write.
LEMMA OneNext ==
  ASSUME NEW todo
  PROVE  /\ RefreshNext(todo) => todo # << >> /\ ~RowNext(todo)
         /\ AccessNext(todo) => todo # << >> /\ ~RowNext(todo) /\ ~RefreshNext(todo)
         /\ RereadNext(todo) => ~RowNext(todo) /\ ~RefreshNext(todo) /\ ~AccessNext(todo)
         /\ ~RowNext(<< >>)
<1>1. Len(<< >>) = 0
  OBVIOUS
<1>2. ~RowNext(<< >>) /\ ~RefreshNext(<< >>) /\ ~AccessNext(<< >>)
  BY <1>1 DEF RowNext, RefreshNext, AccessNext, Ends
<1>3. RefreshNext(todo) => ~RowNext(todo)
  BY DEF RowNext, RefreshNext
<1>4. AccessNext(todo) => ~RowNext(todo) /\ ~RefreshNext(todo)
  BY DEF RowNext, RefreshNext, AccessNext
<1>5. RereadNext(todo) => ~RowNext(todo) /\ ~RefreshNext(todo) /\ ~AccessNext(todo)
  BY DEF RowNext, RefreshNext, AccessNext, RereadNext
<1> QED
  BY <1>2, <1>3, <1>4, <1>5

(***************************************************************************)
(* The writes of a handler.                                                *)
(***************************************************************************)
LEMMA AccountSteps ==
  ASSUME IInv, Agreed, Watch, NEW t \in Tabs, NEW w \in Accounting, NextWrite(t, w),
         UNCHANGED <<row, redis>>
  PROVE  Agreed'
<1> USE DEF Agreed
<1>1. PICK r, q : r = req[t] /\ q = req'[t]
  OBVIOUS
<1>2. /\ r.todo \in Seq(Writes) /\ r.todo # << >> /\ r.todo[1] = w /\ Agreeing(r.op, r) /\ q.op = r.op
      /\ AllFormed' /\ Others(t) /\ UNCHANGED <<cookies, bearer, admin, left, jarOf>>
  BY <1>1, WriteForm DEF Watch
<1>3. r.op \notin Writers
  BY <1>2, NextPlan
<1>4. StoresTyped'
  BY <1>2, WatchTyped DEF StoresTyped
<1> QED
  BY <1>1, <1>2, <1>3, <1>4, StillFading, CalmOther

\* A pair is stored in the row, in refresh:<id>, in access:<id>, in this order.
LEMMA StoreSteps ==
  ASSUME IInv, Agreed, Watch, NEW t \in Tabs, NEW w, NextWrite(t, w),
         \/ /\ w \in {"upsertRow", "enroll"}
            /\ row' = [hash |-> req[t].pair, revoked |-> FALSE] /\ UNCHANGED redis
         \/ /\ w = "setRefresh" /\ redis' = [redis EXCEPT !.refresh = req[t].pair] /\ UNCHANGED row
         \/ /\ w = "setAccess" /\ redis' = [redis EXCEPT !.access = req[t].pair] /\ UNCHANGED row
         \/ w = "reread" /\ UNCHANGED <<row, redis>>
  PROVE  Agreed'
<1> USE DEF Agreed
<1>1. PICK r, q : r = req[t] /\ q = req'[t]
  OBVIOUS
<1>2. /\ r.pc = "work" /\ r.todo \in Seq(Writes) /\ r.todo # << >> /\ r.todo[1] = w
      /\ Agreeing(r.op, r) /\ q.op = r.op /\ q.answer = r.answer
      /\ (q.pc = "answered" /\ Tail(r.todo) = << >>) \/ (q.pc = "work" /\ q.todo = Tail(r.todo))
      /\ AllFormed' /\ Others(t) /\ UNCHANGED <<cookies, bearer, admin, left, jarOf>>
  BY <1>1, WriteForm DEF Watch
<1>3. r.pair # None /\ r.op \in Writers /\ r.pair = r.answer.pair /\ r.pair \in Token
  BY <1>2, NextPlan DEF Agreeing, Tellable
<1>4. row \in [hash : Token, revoked : BOOLEAN] /\ redis \in [refresh : Token, access : Token]
  BY DEF StoresTyped
<1>5. CASE w \in {"upsertRow", "enroll"}
  <2>1. row' = [hash |-> r.pair, revoked |-> FALSE] /\ UNCHANGED redis
    BY <1>1, <1>5
  <2>2. RowNext(r.todo)
    BY <1>2, <1>5, NextPlan
  <2>3. RefreshNext(Tail(r.todo))
    BY <1>2, <2>2, MintTail
  <2>4. q.pc = "work" /\ RefreshNext(q.todo) /\ ~RowNext(q.todo)
    BY <1>2, <2>3, OneNext
  <2>5. WriterSound(r) => WriterSound(q)'
    BY <1>2, <1>3, <2>1, <2>2, <2>4 DEF WriterSound
  <2>6. CalmSound'
    BY <1>1, <1>2, <1>3, <2>5, CalmOne
  <2>7. StoresTyped'
    BY <1>2, <1>3, <2>1, WatchTyped DEF StoresTyped
  <2> QED
    BY <1>2, <2>6, <2>7
<1>6. CASE w = "setRefresh"
  <2>1. redis' = [redis EXCEPT !.refresh = r.pair] /\ UNCHANGED row
    BY <1>1, <1>6
  <2>2. redis'.refresh = r.pair /\ redis'.access = redis.access
    BY <1>4, <2>1
  <2>3. RefreshNext(r.todo) /\ ~RowNext(r.todo)
    BY <1>2, <1>6, NextPlan, OneNext
  <2>4. AccessNext(Tail(r.todo))
    BY <1>2, <2>3, MintTail
  <2>5. q.pc = "work" /\ AccessNext(q.todo) /\ ~RowNext(q.todo)
    BY <1>2, <2>4, OneNext
  <2>6. WriterSound(r) => WriterSound(q)'
    BY <1>2, <1>3, <2>1, <2>2, <2>3, <2>5 DEF WriterSound
  <2>7. CalmSound'
    BY <1>1, <1>2, <1>3, <2>6, CalmOne
  <2>8. StoresTyped'
    BY <1>2, <1>3, <2>1, WatchTyped DEF StoresTyped
  <2> QED
    BY <1>2, <2>7, <2>8
<1>7. CASE w = "setAccess"
  <2>1. redis' = [redis EXCEPT !.access = r.pair] /\ UNCHANGED row
    BY <1>1, <1>7
  <2>2. redis'.access = r.pair /\ redis'.refresh = redis.refresh
    BY <1>4, <2>1
  <2>3. AccessNext(r.todo) /\ ~RowNext(r.todo) /\ ~RefreshNext(r.todo)
    BY <1>2, <1>7, NextPlan, OneNext
  <2>4. Tail(r.todo) = << >> \/ RereadNext(Tail(r.todo))
    BY <1>2, <2>3, MintTail
  <2>5. ~(q.pc = "work" /\ RowNext(q.todo))
    BY <1>2, <2>4, OneNext
  <2>6. WriterSound(r) => WriterSound(q)'
    BY <1>2, <1>3, <2>1, <2>2, <2>3, <2>5 DEF WriterSound
  <2>7. CalmSound'
    BY <1>1, <1>2, <1>3, <2>6, CalmOne
  <2>8. StoresTyped'
    BY <1>2, <1>3, <2>1, WatchTyped DEF StoresTyped
  <2> QED
    BY <1>2, <2>7, <2>8
<1>8. CASE w = "reread"
  <2>1. UNCHANGED <<row, redis>>
    BY <1>8
  <2>2. RereadNext(r.todo) /\ ~RowNext(r.todo) /\ ~RefreshNext(r.todo) /\ ~AccessNext(r.todo)
    BY <1>2, <1>8, NextPlan, OneNext
  <2>3. ~(q.pc = "work" /\ RowNext(q.todo))
    <3>1. Tail(r.todo) = << >>
      BY <1>2, <2>2, MintTail
    <3> QED
      BY <1>2, <3>1, OneNext
  <2>4. WriterSound(r) => WriterSound(q)'
    BY <1>2, <1>3, <2>1, <2>2, <2>3 DEF WriterSound
  <2>5. CalmSound'
    BY <1>1, <1>2, <1>3, <2>4, CalmOne
  <2>6. StoresTyped'
    BY <1>2, <2>1, WatchTyped DEF StoresTyped
  <2> QED
    BY <1>2, <2>5, <2>6
<1> QED
  BY <1>5, <1>6, <1>7, <1>8

LEMMA RevokeSteps ==
  ASSUME IInv, Agreed, Watch, NEW t \in Tabs, NEW w \in Revoking, NextWrite(t, w),
         \/ row' = [row EXCEPT !.revoked = TRUE] /\ UNCHANGED redis
         \/ redis' = [redis EXCEPT !.refresh = None] /\ UNCHANGED row
         \/ redis' = [redis EXCEPT !.access = None] /\ UNCHANGED row
  PROVE  Agreed'
<1> USE DEF Agreed
<1>1. PICK r, q : r = req[t] /\ q = req'[t]
  OBVIOUS
<1>2. /\ r.todo \in Seq(Writes) /\ r.todo # << >> /\ r.todo[1] = w
      /\ Agreeing(r.op, r) /\ q.op = r.op /\ q.answer = r.answer
      /\ AllFormed' /\ Others(t) /\ UNCHANGED <<cookies, bearer, admin, left, jarOf>>
  BY <1>1, WriteForm DEF Watch
<1>3. r.op \in Writers /\ r.answer.pair = None
  BY <1>2, NextPlan DEF Agreeing
<1>4. row \in [hash : Token, revoked : BOOLEAN] /\ redis \in [refresh : Token, access : Token]
  BY DEF StoresTyped
<1>5. row' \in [hash : Token, revoked : BOOLEAN] /\ redis' \in [refresh : Token, access : Token]
  BY <1>4 DEF Token
<1>6. /\ row'.hash = row.hash
      /\ redis'.refresh \in {redis.refresh, None} /\ redis'.access \in {redis.access, None}
  BY <1>4
<1>7. Fading
  BY <1>2, <1>6 DEF Fading, IInv, StoresType
<1>8. WriterSound(r) => WriterSound(q)'
  BY <1>2, <1>3, <1>7, Fade DEF WriterSound
<1>9. CalmSound'
  BY <1>1, <1>2, <1>3, <1>8, CalmOne
<1>10. StoresTyped'
  BY <1>2, <1>5, WatchTyped DEF StoresTyped
<1> QED
  BY <1>2, <1>9, <1>10

\* A handler that throws: an activation too late, a verification that no longer finds
\* its user.
LEMMA ThrowSteps ==
  ASSUME IInv, Agreed, Watch, NEW t \in Tabs, NEW w \in {"claim", "reread"}, NEW status \in {400, 500},
         Throw(t, w, status)
  PROVE  Agreed'
<1> USE DEF Agreed
<1>1. PICK r, q : r = req[t] /\ q = Answered(r, Plain(status))
  OBVIOUS
<1>2. /\ r.op # None /\ r.pc = "work" /\ Put(t, q) /\ Head(r.todo) = w
      /\ UNCHANGED <<row, redis, cookies, bearer, admin, left, jarOf>>
  BY <1>1 DEF Throw, Busy, stores, Watch
<1>3. /\ DOMAIN r = Fields /\ r.op \in Ops /\ r.todo \in Seq(Writes) /\ r.todo # << >>
      /\ Agreeing(r.op, r)
  BY <1>1, <1>2 DEF IInv, RequestsSound, Sound, Respects, MayWrite, AllFormed, Formed
<1>4. r.todo[1] = w
  BY <1>2, <1>3
<1>5. Tellable(Plain(status)) /\ Plain(status).pair = None
  BY DEF Plain, Answer, Tellable, Token
<1>6. q.op = r.op /\ q.answer = Plain(status) /\ Formed(q)
  BY <1>1, <1>3, <1>5, AnsweredForm
<1>7. AllFormed' /\ Others(t) /\ q = req'[t]
  BY <1>2, <1>6, PutForm DEF IInv
<1>8. Fading
  BY <1>2, StillFading
<1>9. StoresTyped'
  BY <1>2, WatchTyped DEF StoresTyped
<1>10. CASE w = "claim"
  <2>1. r.op \notin Writers
    BY <1>3, <1>4, <1>10, NextPlan DEF Accounting
  <2> QED
    BY <1>1, <1>5, <1>6, <1>7, <1>8, <1>9, <2>1, CalmOther
<1>11. CASE w = "reread"
  <2>1. r.op \in Writers /\ r.answer.pair # None /\ RereadNext(r.todo)
    BY <1>3, <1>4, <1>11, NextPlan DEF Agreeing
  <2>2. ~RowNext(r.todo) /\ ~RefreshNext(r.todo) /\ ~AccessNext(r.todo)
    BY <2>1, OneNext
  <2>3. WriterSound(r) => Settled
    BY <2>1, <2>2 DEF WriterSound, Settled
  <2>4. WriterSound(r) => WriterSound(q)'
    BY <1>5, <1>6, <1>8, <2>3, Fade DEF WriterSound
  <2>5. CalmSound'
    BY <1>1, <1>6, <1>7, <2>1, <2>4, CalmOne
  <2> QED
    BY <1>7, <1>9, <2>5
<1> QED
  BY <1>10, <1>11

(***************************************************************************)
(* Administrators and Redis take, and store nothing.                       *)
(***************************************************************************)
LEMMA OutsideSteps ==
  ASSUME IInv, Agreed, Watch,
         \/ UpdateUser \/ DeactivateUser \/ ResetMfa
         \/ RevokeByUserId \/ RevokeSession \/ LoseKeys
  PROVE  Agreed'
<1> USE DEF Agreed
<1>1. UNCHANGED <<cookies, bearer, req, jarOf>> /\ jarOf \in [Tabs -> Jars] /\ admin' \in BOOLEAN
  BY DEF UpdateUser, DeactivateUser, ResetMfa, RevokeByUserId, RevokeSession, LoseKeys, Watch,
         IInv, StoresType, StoresTyped
<1>2. left' \in [request : 0 .. RequestBudget, event : 0 .. EventBudget]
  BY SpendTyped DEF UpdateUser, DeactivateUser, ResetMfa, RevokeByUserId, RevokeSession, LoseKeys,
                    StoresTyped
<1>3. row \in [hash : Token, revoked : BOOLEAN] /\ redis \in [refresh : Token, access : Token]
  BY DEF StoresTyped
<1>4. \/ UNCHANGED row \/ row' = [row EXCEPT !.revoked = TRUE]
  BY DEF UpdateUser, DeactivateUser, ResetMfa, RevokeByUserId, RevokeSession, LoseKeys
<1>5. \/ UNCHANGED redis \/ redis' = [redis EXCEPT !.access = None]
      \/ redis' = [refresh |-> None, access |-> None]
  BY DEF UpdateUser, DeactivateUser, ResetMfa, RevokeByUserId, RevokeSession, LoseKeys
<1>6. /\ row' \in [hash : Token, revoked : BOOLEAN] /\ redis' \in [refresh : Token, access : Token]
      /\ row'.hash = row.hash
      /\ redis'.refresh \in {redis.refresh, None} /\ redis'.access \in {redis.access, None}
  <2>1. row' \in [hash : Token, revoked : BOOLEAN] /\ row'.hash = row.hash
    BY <1>3, <1>4
  <2>2. CASE UNCHANGED redis
    BY <1>3, <2>1, <2>2
  <2>3. CASE redis' = [redis EXCEPT !.access = None]
    BY <1>3, <2>1, <2>3 DEF Token
  <2>4. CASE redis' = [refresh |-> None, access |-> None]
    BY <2>1, <2>4 DEF Token
  <2> QED
    BY <1>5, <2>2, <2>3, <2>4
<1>7. StoresTyped'
  BY <1>1, <1>2, <1>6, WatchTyped DEF StoresTyped
<1>8. AllFormed'
  BY <1>1 DEF AllFormed
<1>9. Fading
  BY <1>1, <1>6 DEF Fading
<1> QED
  BY <1>1, <1>7, <1>8, <1>9, CalmFade

-----------------------------------------------------------------------------
LEMMA InitAgreed == Init => Agreed
<1> SUFFICES ASSUME Init PROVE Agreed
  OBVIOUS
<1>1. PICK t \in Tabs, p \in {None, 1} :
        /\ row = [hash |-> p, revoked |-> FALSE] /\ redis = [refresh |-> p, access |-> p]
        /\ bearer = [u \in Tabs |-> IF u = t THEN p ELSE None]
        /\ cookies = [j \in Jars |->
              [refresh |-> IF j = jarOf[t] THEN p ELSE None,
               mfa |-> j = jarOf[t] /\ account.pending # None]]
  BY DEF Init
<1>2. p \in Token /\ None \in Token /\ RequestBudget \in Nat /\ EventBudget \in Nat
  BY SessionConstants DEF Token
<1>3. jarOf \in [Tabs -> Jars] /\ admin = FALSE /\ calm = TRUE /\ req = [u \in Tabs |-> NoRequest]
  BY DEF Init
<1>4. StoresTyped
  <2>1. left \in [request : 0 .. RequestBudget, event : 0 .. EventBudget]
    BY <1>2 DEF Init
  <2>2. cookies \in [Jars -> [refresh : Token, mfa : BOOLEAN]]
    BY <1>1, <1>2
  <2>3. row \in [hash : Token, revoked : BOOLEAN] /\ redis \in [refresh : Token, access : Token]
    BY <1>1, <1>2
  <2>4. bearer \in [Tabs -> Token]
    BY <1>1, <1>2
  <2> QED
    BY <1>3, <2>1, <2>2, <2>3, <2>4 DEF StoresTyped
<1>5. AllFormed
  BY <1>3 DEF AllFormed, Formed, NoRequest
<1>6. Settled
  BY <1>1, <1>3 DEF Settled
<1>7. ActiveWriters(req) = {}
  BY <1>3, SessionConstants DEF ActiveWriters, NoRequest, Writers, Ops
<1> QED
  BY <1>4, <1>5, <1>6, <1>7 DEF Agreed, CalmSound

(***************************************************************************)
(* Each step of the account's session keeps the agreement.                 *)
(***************************************************************************)
LEMMA StepAgreed == IInv /\ Agreed /\ [Next]_vars => Agreed'
<1> SUFFICES ASSUME IInv, Agreed, [Next]_vars PROVE Agreed'
  OBVIOUS
<1>1. CASE UNCHANGED vars
  BY <1>1 DEF vars, Agreed, StoresTyped, AllFormed, CalmSound, WriterSound, Settled
<1>2. CASE Next
  <2>1. Step /\ Watch
    BY <1>2 DEF Next
  <2>2. ASSUME NEW t \in Tabs,
               ActivateAccount(t) \/ SetPasswordHash(t) \/ SetPendingMfaSecret(t)
        PROVE  Agreed'
    <3>1. Throw(t, "claim", 400) \/ \E w \in Accounting : NextWrite(t, w) /\ UNCHANGED <<row, redis>>
      BY <2>2 DEF ActivateAccount, SetPasswordHash, SetPendingMfaSecret, Accounting
    <3> QED
      BY <2>1, <3>1, AccountSteps, ThrowSteps
  <2>3. ASSUME NEW t \in Tabs,
               \/ CompleteMfaEnrollment(t) \/ UpsertRow(t) \/ SetRefreshKey(t) \/ SetAccessKey(t)
               \/ FindFreshUser(t)
        PROVE  Agreed'
    <3>1. CASE CompleteMfaEnrollment(t)
      BY <2>1, <3>1, StoreSteps DEF CompleteMfaEnrollment
    <3>2. CASE UpsertRow(t)
      BY <2>1, <3>2, StoreSteps DEF UpsertRow, UpsertedRow
    <3>3. CASE SetRefreshKey(t)
      BY <2>1, <3>3, StoreSteps DEF SetRefreshKey
    <3>4. CASE SetAccessKey(t)
      BY <2>1, <3>4, StoreSteps DEF SetAccessKey
    <3>5. CASE FindFreshUser(t)
      BY <2>1, <3>5, StoreSteps, ThrowSteps DEF FindFreshUser, stores
    <3> QED
      BY <2>3, <3>1, <3>2, <3>3, <3>4, <3>5
  <2>4. ASSUME NEW t \in Tabs,
               RevokeRefreshTokenForUser(t) \/ DelRefreshKey(t) \/ DelAccessKey(t)
        PROVE  Agreed'
    BY <2>1, <2>4, RevokeSteps
       DEF RevokeRefreshTokenForUser, DelRefreshKey, DelAccessKey, Revoking
  <2> QED
    BY <2>1, <2>2, <2>3, <2>4, AskSteps, DeliverSteps, ReloadSteps, OutsideSteps DEF Step
<1> QED
  BY <1>1, <1>2

LEMMA AlwaysAgreed == Spec => [](IInv /\ Agreed)
<1>1. IInv /\ Agreed /\ [Next]_vars => (IInv /\ Agreed)'
  BY StepKept, StepAgreed DEF Kept
<1> QED
  BY InitIInv, InitAgreed, <1>1, PTL DEF Spec

\* Postgres, Redis and the browsers name the same pair of tokens whenever no writer of
\* the session overlapped another and none was cut off, however many tabs and browsers
\* there are and whatever administrators and lost keys do meanwhile (auth.service.js).
THEOREM StoresStayTogether == Spec => []StoresAgree
<1>1. IInv /\ Agreed => StoresAgree
  BY DEF Agreed, CalmSound, Settled, StoresAgree
<1> QED
  BY AlwaysAgreed, <1>1, PTL

\* Every variable of the session keeps its type.
THEOREM TypeCorrect == Spec => []TypeOK
<1>1. IInv /\ Agreed => TypeOK
  BY DEF IInv, AccountType, StoresType, Agreed, StoresTyped, TypeOK
<1> QED
  BY AlwaysAgreed, <1>1, PTL

=============================================================================
