---------------------------- MODULE PagesProofs ----------------------------
(***************************************************************************)
(* Pages for any keys and budgets: its types, that no handler which keeps  *)
(* buttons disabled loses its request for a code to another, that a page   *)
(* hidden by a spinner has a load, that the preview is the page's, and     *)
(* that a page at rest shows what its own handlers wrote.                  *)
(***************************************************************************)
EXTENDS Pages, FiniteSetTheorems, TLAPS

-----------------------------------------------------------------------------
(* Promises in progress *)

\* Numbered promises: a function on finitely many numbers.
Pool(ps) == IsFiniteSet(DOMAIN ps) /\ ps = [n \in DOMAIN ps |-> ps[n]]

(***************************************************************************)
(* The number of a new promise is not in use.                              *)
(***************************************************************************)
LEMMA UnusedIsNew ==
  ASSUME NEW ps, IsFiniteSet(DOMAIN ps)
  PROVE  Unused(ps) \notin DOMAIN ps
<1> DEFINE c == Cardinality(DOMAIN ps)
<1>1. c \in Nat
  BY FS_CardinalityType
<1>2. IsFiniteSet(1 .. c + 1) /\ Cardinality(1 .. c + 1) = c + 1
  BY <1>1, FS_Interval
<1>3. ~(1 .. c + 1 \subseteq DOMAIN ps)
  BY <1>1, <1>2, FS_Subset
<1>4. \E n \in 1 .. c + 1 : n \notin DOMAIN ps
  BY <1>3
<1> QED
  BY <1>4 DEF Unused

(***************************************************************************)
(* What a pool holds with a new promise.                                   *)
(***************************************************************************)
LEMMA WithOne ==
  ASSUME NEW ps, NEW p, Pool(ps)
  PROVE  /\ Pool(With(ps, p))
         /\ Unused(ps) \notin DOMAIN ps
         /\ DOMAIN With(ps, p) = DOMAIN ps \cup {Unused(ps)}
         /\ \A n \in DOMAIN ps : With(ps, p)[n] = ps[n]
         /\ With(ps, p)[Unused(ps)] = p
<1>1. Unused(ps) \notin DOMAIN ps
  BY UnusedIsNew DEF Pool
<1>2. IsFiniteSet(DOMAIN ps \cup {Unused(ps)})
  BY FS_AddElement DEF Pool
<1> QED
  BY <1>1, <1>2 DEF With, Pool

(***************************************************************************)
(* And what it holds without one.                                          *)
(***************************************************************************)
LEMMA WithoutOne ==
  ASSUME NEW ps, NEW i, Pool(ps)
  PROVE  /\ Pool(Without(ps, i))
         /\ DOMAIN Without(ps, i) = DOMAIN ps \ {i}
         /\ \A n \in DOMAIN ps \ {i} : Without(ps, i)[n] = ps[n]
<1>1. IsFiniteSet(DOMAIN ps \ {i})
  BY FS_RemoveElement DEF Pool
<1> QED
  BY <1>1 DEF Without, Restrict, Pool

(***************************************************************************)
(* From pool ps to qs, promise i makes room for p, numbered n; or is gone. *)
(***************************************************************************)
Swapped(ps, qs, i, n, p) ==
  /\ Pool(qs)
  /\ n \notin DOMAIN ps \ {i}
  /\ DOMAIN qs = (DOMAIN ps \ {i}) \cup {n}
  /\ qs[n] = p
  /\ \A m \in DOMAIN ps \ {i} : qs[m] = ps[m]

Gone(ps, qs, i) ==
  /\ Pool(qs)
  /\ DOMAIN qs = DOMAIN ps \ {i}
  /\ \A m \in DOMAIN qs : qs[m] = ps[m]

(***************************************************************************)
(* A new promise, one that changes, one that ends, and one that ends and   *)
(* starts another.                                                         *)
(***************************************************************************)
LEMMA Added ==
  ASSUME NEW ps, NEW p, Pool(ps)
  PROVE  \E n : n \notin DOMAIN ps /\ Swapped(ps, With(ps, p), n, n, p)
<1> DEFINE n == Unused(ps)
<1>1. /\ n \notin DOMAIN ps /\ Pool(With(ps, p)) /\ DOMAIN With(ps, p) = DOMAIN ps \cup {n}
      /\ With(ps, p)[n] = p /\ \A m \in DOMAIN ps : With(ps, p)[m] = ps[m]
  BY WithOne
<1> HIDE DEF n
<1>2. Swapped(ps, With(ps, p), n, n, p)
  BY <1>1 DEF Swapped
<1> QED
  BY <1>1, <1>2

LEMMA Changed ==
  ASSUME NEW ps, NEW i \in DOMAIN ps, NEW p, Pool(ps)
  PROVE  Swapped(ps, [ps EXCEPT ![i] = p], i, i, p)
BY DEF Swapped, Pool

LEMMA Ended ==
  ASSUME NEW ps, NEW i, Pool(ps)
  PROVE  Gone(ps, Without(ps, i), i)
BY WithoutOne DEF Gone

LEMMA Followed ==
  ASSUME NEW ps, NEW i, NEW p, Pool(ps)
  PROVE  \E n : Swapped(ps, With(Without(ps, i), p), i, n, p)
<1> DEFINE rest == Without(ps, i)
<1>1. Pool(rest) /\ DOMAIN rest = DOMAIN ps \ {i} /\ \A m \in DOMAIN ps \ {i} : rest[m] = ps[m]
  BY WithoutOne
<1> HIDE DEF rest
<1>2. PICK n : n \notin DOMAIN rest /\ Swapped(rest, With(rest, p), n, n, p)
  BY <1>1, Added
<1>3. Swapped(ps, With(rest, p), i, n, p)
  BY <1>1, <1>2 DEF Swapped
<1> QED
  BY <1>3 DEF rest

-----------------------------------------------------------------------------
(* The pages *)

\* Handlers that write more than they bring onto the page.
Partial == {"handleDeactivate", "handleResetMfa"}

(***************************************************************************)
(* What every handler brings onto its page again: everything it wrote, by  *)
(* installing the answer or reloading, but for two of the person's page.   *)
(***************************************************************************)
HandlerFair(h) ==
  /\ h.name # "load" /\ h.stepUp \in BOOLEAN /\ h.busy \in BOOLEAN
  /\ h.name \in Partial => h \in {HandleDeactivate, HandleResetMfa}
  /\ h.name \notin Partial =>
       /\ "main" \in h.writes => "install" \in h.refresh \/ "reload" \in h.refresh
       /\ "list" \in h.writes => "filter" \in h.refresh \/ "reload" \in h.refresh
  /\ "install" \in h.refresh => "main" \in h.writes
  /\ "filter" \in h.refresh => "list" \in h.writes

PageFair(p) ==
  /\ p.reads \in {0, 1, 2}
  /\ p.stays \/ p.spinner = "load" => p.reads # 0
  /\ \A h \in p.handlers : HandlerFair(h) /\ ("reload" \in h.refresh => p.reads # 0)

(***************************************************************************)
(* So it is for every handler,                                             *)
(***************************************************************************)
LEMMA HandlersFair ==
  /\ HandlerFair(HandleSeal) /\ HandlerFair(AddVersion) /\ HandlerFair(HandleRestore)
  /\ HandlerFair(RunCheck) /\ HandlerFair(HandleGrant) /\ HandlerFair(HandleRevoke)
  /\ HandlerFair(HandleApprove) /\ HandlerFair(HandleObject) /\ HandlerFair(HandleExecute)
  /\ HandlerFair(HandleDeactivate) /\ HandlerFair(UpdateField) /\ HandlerFair(HandleResetMfa)
  /\ HandlerFair(HandleRevokeSession) /\ HandlerFair(UploadDocument) /\ HandlerFair(HandleStatusChange)
  /\ HandlerFair(AssignOfficer) /\ HandlerFair(HandleRemoveOfficer) /\ HandlerFair(PlaceLegalHold)
  /\ HandlerFair(ReleaseLegalHold) /\ HandlerFair(SubmitComment) /\ HandlerFair(SaveEdit)
  /\ HandlerFair(DeleteComment) /\ HandlerFair(NewCase) /\ HandlerFair(FileProposal)
  /\ HandlerFair(NewUser) /\ HandlerFair(HandleVerify)
<1> USE DEF HandlerFair, Handler, Partial
<1>1. HandlerFair(HandleSeal) /\ HandlerFair(AddVersion)
  BY DEF HandleSeal, AddVersion
<1>2. HandlerFair(HandleRestore)
  BY DEF HandleRestore
<1>3. HandlerFair(RunCheck)
  BY DEF RunCheck
<1>4. HandlerFair(HandleGrant) /\ HandlerFair(HandleRevoke)
  BY DEF HandleGrant, HandleRevoke
<1>5. HandlerFair(HandleApprove) /\ HandlerFair(HandleObject)
  BY DEF HandleApprove, HandleObject
<1>6. HandlerFair(HandleExecute)
  BY DEF HandleExecute
<1>7. HandlerFair(HandleDeactivate) /\ HandlerFair(UpdateField)
  BY DEF HandleDeactivate, UpdateField
<1>8. HandlerFair(HandleResetMfa) /\ HandlerFair(HandleRevokeSession)
  BY DEF HandleResetMfa, HandleRevokeSession
<1>9. HandlerFair(UploadDocument) /\ HandlerFair(HandleStatusChange)
  BY DEF UploadDocument, HandleStatusChange
<1>10. HandlerFair(AssignOfficer) /\ HandlerFair(HandleRemoveOfficer)
  BY DEF AssignOfficer, HandleRemoveOfficer
<1>11. HandlerFair(PlaceLegalHold) /\ HandlerFair(ReleaseLegalHold)
  BY DEF PlaceLegalHold, ReleaseLegalHold
<1>12. HandlerFair(SubmitComment) /\ HandlerFair(SaveEdit)
  BY DEF SubmitComment, SaveEdit
<1>13. HandlerFair(DeleteComment)
  BY DEF DeleteComment
<1>14. HandlerFair(NewCase)
  BY DEF NewCase
<1>15. HandlerFair(FileProposal)
  BY DEF FileProposal
<1>16. HandlerFair(NewUser)
  BY DEF NewUser
<1>17. HandlerFair(HandleVerify)
  BY DEF HandleVerify
<1> QED
  BY <1>1, <1>2, <1>3, <1>4, <1>5, <1>6, <1>7, <1>8, <1>9, <1>10, <1>11, <1>12, <1>13, <1>14,
     <1>15, <1>16, <1>17

(***************************************************************************)
(* and on every page.                                                      *)
(***************************************************************************)
LEMMA PagesFair == \A p \in DOMAIN PageOf : PageFair(PageOf[p])
<1> USE HandlersFair DEF PageFair, Page, Panel
<1>1. PageFair(DocumentDetail)
  BY DEF DocumentDetail, VersionsTab
<1>2. PageFair(CustodyTab) /\ PageFair(AccessTab)
  BY DEF CustodyTab, AccessTab
<1>3. PageFair(ProposalDetail)
  BY DEF ProposalDetail, VotePanel
<1>4. PageFair(UserDetail)
  BY DEF UserDetail, ProfileCard
<1>5. PageFair(CaseDetail)
  BY DEF CaseDetail, CaseSidebar
<1>6. PageFair(CommentsThread)
  BY DEF CommentsThread
<1>7. PageFair(CasesList) /\ PageFair(ProposalsList) /\ PageFair(UsersList)
  BY DEF CasesList, ProposalsList, UsersList
<1>8. PageFair(AuditLog) /\ PageFair(SearchPage)
  BY DEF AuditLog, SearchPage
<1>9. PageFair(IntegrityTab)
  <2>1. RunCheck.refresh = {"install"}
    BY DEF RunCheck, Handler
  <2> QED
    BY <2>1 DEF IntegrityTab
<1> QED
  BY <1>1, <1>2, <1>3, <1>4, <1>5, <1>6, <1>7, <1>8, <1>9 DEF PageOf

(***************************************************************************)
(* Of the handlers of a page that ask for a code, either all disable the   *)
(* page's buttons or none does.                                            *)
(***************************************************************************)
StepUpsAlike(p) == \E b \in BOOLEAN : \A h \in p.handlers : h.stepUp => h.busy = b

LEMMA PagesAlike == \A p \in DOMAIN PageOf : StepUpsAlike(PageOf[p])
<1> DEFINE Never(p) == \A h \in p.handlers : h.stepUp => h.busy = FALSE
           Always(p) == \A h \in p.handlers : h.stepUp => h.busy = TRUE
<1> USE DEF Page, Panel, Handler
<1>1. Never(DocumentDetail)
  BY DEF DocumentDetail, VersionsTab, HandleSeal, AddVersion, HandleRestore
<1>2. Never(IntegrityTab) /\ Never(CustodyTab)
  BY DEF IntegrityTab, CustodyTab, RunCheck
<1>3. Never(AccessTab)
  BY DEF AccessTab, HandleGrant, HandleRevoke
<1>4. Always(ProposalDetail)
  BY DEF ProposalDetail, VotePanel, HandleApprove, HandleObject, HandleExecute
<1>5. Never(UserDetail)
  BY DEF UserDetail, ProfileCard, HandleDeactivate, UpdateField, HandleResetMfa, HandleRevokeSession
<1>6. Always(CaseDetail)
  BY DEF CaseDetail, CaseSidebar, UploadDocument, HandleStatusChange, AssignOfficer,
     HandleRemoveOfficer, PlaceLegalHold, ReleaseLegalHold
<1>7. Never(CommentsThread)
  BY DEF CommentsThread, SubmitComment, SaveEdit, DeleteComment
<1>8. Never(CasesList) /\ Never(ProposalsList) /\ Never(UsersList)
  BY DEF CasesList, ProposalsList, UsersList, NewCase, FileProposal, NewUser
<1>9. Never(AuditLog) /\ Never(SearchPage)
  BY DEF AuditLog, SearchPage, HandleVerify
<1>10. \A p : Never(p) \/ Always(p) => StepUpsAlike(p)
  BY DEF StepUpsAlike
<1> HIDE DEF Never, Always
<1> QED
  BY <1>1, <1>2, <1>3, <1>4, <1>5, <1>6, <1>7, <1>8, <1>9, <1>10 DEF PageOf

-----------------------------------------------------------------------------
(* Tasks *)

Names == {h.name : h \in ThisPage.handlers}

TaskType ==
  [what : {"load"} \cup Names, key : Keys, mine : BOOLEAN,
   stage : {"waiting", "lost", "sent", "done", "refused"}, ends : BOOLEAN,
   main : Mains \cup {None}, list : Besides \cup {None}]

(***************************************************************************)
(* A task has its type; a load is the page's own and does not wait for a   *)
(* code, and a handler whose call is done has its answer.                  *)
(***************************************************************************)
TaskSound(t) ==
  /\ t \in TaskType
  /\ IsLoad(t) => t.stage = "sent" /\ t.mine
  /\ t.stage = "done" => t.main \in Mains /\ t.list \in Besides

TasksSound == Pool(tasks) /\ \A i \in DOMAIN tasks : TaskSound(tasks[i])

(***************************************************************************)
(* The page is a fair one, and the handler of a task one of its own.       *)
(***************************************************************************)
LEMMA ThisPageFair ==
  ASSUME part \in DOMAIN PageOf
  PROVE  PageFair(ThisPage)
BY PagesFair DEF ThisPage

LEMMA HandlerKnown ==
  ASSUME part \in DOMAIN PageOf, NEW t, TaskSound(t), ~IsLoad(t)
  PROVE  /\ HandlerOf(t) \in ThisPage.handlers
         /\ HandlerOf(t).name = t.what
         /\ HandlerFair(HandlerOf(t))
         /\ "reload" \in HandlerOf(t).refresh => ThisPage.reads # 0
<1>1. \E h \in ThisPage.handlers : h.name = t.what
  BY DEF TaskSound, TaskType, Names, IsLoad
<1>2. HandlerOf(t) \in ThisPage.handlers /\ HandlerOf(t).name = t.what
  BY <1>1 DEF HandlerOf
<1> QED
  BY <1>2, ThisPageFair DEF PageFair

(***************************************************************************)
(* Sound tasks stay sound if the one that is new is.                       *)
(***************************************************************************)
LEMMA TasksKept ==
  ASSUME UNCHANGED part, Pool(tasks'), \A i \in DOMAIN tasks' : TaskSound(tasks'[i])
  PROVE  TasksSound'
BY DEF TasksSound, TaskSound, TaskType, Names, ThisPage, IsLoad

LEMMA SwappedSound ==
  ASSUME UNCHANGED part, TasksSound, NEW i, NEW n, NEW p, Swapped(tasks, tasks', i, n, p), TaskSound(p)
  PROVE  TasksSound'
BY TasksKept DEF Swapped, TasksSound

LEMMA GoneSound ==
  ASSUME UNCHANGED part, TasksSound, NEW i, Gone(tasks, tasks', i)
  PROVE  TasksSound'
BY TasksKept DEF Gone, TasksSound

-----------------------------------------------------------------------------
(* Types *)

PageTyped ==
  /\ part \in DOMAIN PageOf /\ at \in Keys \cup {None}
  /\ view \in [main : Mains, list : Besides] \cup {None}
  /\ loading \in BOOLEAN /\ calm \in BOOLEAN
  /\ dialog \in [open : BOOLEAN, busy : BOOLEAN]
  /\ server \in [Keys -> [row : Rows, list : Counts]]
  /\ wrote \in [rev : Nat, list : Nat]
  /\ left \in [click : Nat, event : Nat]

LEMMA LoadTyped ==
  ASSUME NEW k \in Keys, NEW ends \in BOOLEAN
  PROVE  TaskSound(Load(k, ends))
BY DEF TaskSound, TaskType, Load, IsLoad

LEMMA StartedTyped ==
  ASSUME at \in Keys, part \in DOMAIN PageOf, NEW h \in ThisPage.handlers
  PROVE  TaskSound(Started(h)) /\ ~IsLoad(Started(h))
<1>1. HandlerFair(h)
  BY ThisPageFair DEF PageFair
<1> QED
  BY <1>1 DEF TaskSound, TaskType, Started, IsLoad, Names, HandlerFair

(***************************************************************************)
(* What a handler leaves behind is a row, and no older than it was.        *)
(***************************************************************************)
LEMMA WrittenTyped ==
  ASSUME NEW h, NEW s \in [row : Rows, list : Counts]
  PROVE  /\ Written(h, s) \in [row : Rows, list : Counts]
         /\ s.row.rev <= Written(h, s).row.rev /\ s.list <= Written(h, s).list
BY DEF Written, Rows, Counts

(***************************************************************************)
(* The answer of a load's read, or of a call, typed.                       *)
(***************************************************************************)
LEMMA ReadTyped ==
  ASSUME PageTyped, NEW k \in Keys
  PROVE  Main(k) \in Mains /\ Beside(k) \in Besides
BY DEF PageTyped, Main, Beside, Mains, Besides

LEMMA SpendTyped ==
  ASSUME left \in [click : Nat, event : Nat], NEW b \in {"click", "event"}, Spend(b)
  PROVE  left' \in [click : Nat, event : Nat]
BY DEF Spend

(***************************************************************************)
(* What a step does to the task it is about: a read goes into a load, a    *)
(* call's answer into a handler, and a handler that finishes is gone or    *)
(* followed by its load.                                                   *)
(***************************************************************************)
LEMMA ReadForm ==
  ASSUME PageTyped, TasksSound, NEW i \in DOMAIN tasks, ReadMain(i) \/ ReadList(i)
  PROVE  \E p : /\ Swapped(tasks, tasks', i, i, p) /\ TaskSound(p) /\ IsLoad(tasks[i]) /\ IsLoad(p)
                /\ p.mine = tasks[i].mine /\ p.key = tasks[i].key /\ p.stage = tasks[i].stage
                /\ p.main \in {tasks[i].main, Main(p.key)}
                /\ p.list \in {tasks[i].list, Beside(p.key)}
<1> DEFINE t == tasks[i]
           mains == {t.main, Main(t.key)}
           lists == {t.list, Beside(t.key)}
<1>1. t \in TaskType /\ IsLoad(t) /\ t.stage = "sent" /\ t.mine /\ t.key \in Keys
  BY DEF ReadMain, ReadList, TasksSound, TaskSound, TaskType
<1>2. mains \subseteq Mains \cup {None} /\ lists \subseteq Besides \cup {None}
  BY <1>1, ReadTyped DEF TaskType
<1>3. \E m \in mains, l \in lists : tasks' = [tasks EXCEPT ![i] = [t EXCEPT !.main = m, !.list = l]]
  <2>1. CASE ReadMain(i)
    <3> DEFINE l == IF ThisPage.reads = 1 THEN Beside(t.key) ELSE t.list
    <3>1. tasks' = [tasks EXCEPT ![i] = [t EXCEPT !.main = Main(t.key), !.list = l]]
      BY <1>1, <2>1 DEF ReadMain, TaskType
    <3> QED
      BY <3>1
  <2>2. CASE ReadList(i)
    <3>1. tasks' = [tasks EXCEPT ![i] = [t EXCEPT !.main = t.main, !.list = Beside(t.key)]]
      BY <1>1, <2>2 DEF ReadList, TaskType
    <3> QED
      BY <3>1
  <2> QED
    BY <2>1, <2>2
<1>4. PICK m \in mains, l \in lists : tasks' = [tasks EXCEPT ![i] = [t EXCEPT !.main = m, !.list = l]]
  BY <1>3
<1> DEFINE p == [t EXCEPT !.main = m, !.list = l]
<1>5. /\ p \in TaskType /\ p.what = t.what /\ p.mine = t.mine /\ p.key = t.key /\ p.stage = t.stage
      /\ p.main = m /\ p.list = l
  BY <1>1, <1>2 DEF TaskType
<1>6. Swapped(tasks, tasks', i, i, p)
  BY <1>4, Changed DEF TasksSound
<1> HIDE DEF p
<1> QED
  BY <1>1, <1>5, <1>6 DEF TaskSound, IsLoad

LEMMA CallForm ==
  ASSUME PageTyped, TasksSound, NEW i \in DOMAIN tasks, Serve(i) \/ Refuse(i)
  PROVE  \E p : /\ Swapped(tasks, tasks', i, i, p) /\ TaskSound(p)
                /\ ~IsLoad(tasks[i]) /\ ~IsLoad(p) /\ tasks[i].stage = "sent"
                /\ p.mine = tasks[i].mine /\ p.key = tasks[i].key /\ p.what = tasks[i].what
                /\ p.stage \in {"done", "refused"}
                /\ p.stage = "done" => p.main = Main(p.key)' /\ p.list = Beside(p.key)'
<1> DEFINE t == tasks[i]
<1>1. t \in TaskType /\ ~IsLoad(t) /\ t.stage = "sent" /\ t.key \in Keys
  BY DEF Serve, Refuse, TasksSound, TaskSound, TaskType
<1> PICK k \in Keys : k = t.key
  BY <1>1
<1>2. CASE tasks' = [tasks EXCEPT ![i].stage = "refused"]
  <2> DEFINE p == [t EXCEPT !.stage = "refused"]
  <2>1. /\ p \in TaskType /\ p.what = t.what /\ p.mine = t.mine /\ p.key = t.key
        /\ p.stage = "refused"
    BY <1>1 DEF TaskType
  <2>2. Swapped(tasks, tasks', i, i, p)
    BY <1>2, Changed DEF TasksSound
  <2> HIDE DEF p
  <2> QED
    BY <1>1, <2>1, <2>2 DEF TaskSound, IsLoad
<1>3. CASE tasks' # [tasks EXCEPT ![i].stage = "refused"]
  <2> DEFINE s == Written(HandlerOf(t), server[k])
             m == [key |-> k, row |-> s.row]
             l == [key |-> k, list |-> s.list]
             p == [t EXCEPT !.stage = "done", !.main = m, !.list = l]
  <2>1. /\ server' = [server EXCEPT ![k] = s]
        /\ tasks' = [tasks EXCEPT ![i] = p]
    BY <1>1, <1>3 DEF Serve, Refuse, TaskType
  <2>2. s \in [row : Rows, list : Counts]
    BY <1>1, WrittenTyped DEF PageTyped
  <2>3. m = Main(k)' /\ l = Beside(k)' /\ m \in Mains /\ l \in Besides
    <3>1. server'[k] = s
      BY <1>1, <2>1 DEF PageTyped
    <3> QED
      BY <1>1, <2>2, <3>1 DEF Main, Beside, Mains, Besides
  <2> HIDE DEF m, l
  <2>4. /\ p \in TaskType /\ p.what = t.what /\ p.mine = t.mine /\ p.key = k
        /\ p.stage = "done" /\ p.main = m /\ p.list = l
    BY <1>1, <2>3 DEF TaskType
  <2>5. Swapped(tasks, tasks', i, i, p)
    BY <2>1, Changed DEF TasksSound
  <2> HIDE DEF p
  <2> QED
    BY <1>1, <2>3, <2>4, <2>5 DEF TaskSound, IsLoad, Main, Beside
<1> QED
  BY <1>2, <1>3

LEMMA FinishForm ==
  ASSUME PageTyped, TasksSound, NEW i \in DOMAIN tasks, Finish(i)
  PROVE  /\ ~IsLoad(tasks[i]) /\ tasks[i].stage \in {"done", "refused"}
         /\ \/ /\ Gone(tasks, tasks', i)
               /\ ~(/\ tasks[i].mine /\ tasks[i].stage = "done"
                    /\ "reload" \in HandlerOf(tasks[i]).refresh)
            \/ /\ tasks[i].mine /\ tasks[i].stage = "done"
               /\ \E n : \E ends \in BOOLEAN : Swapped(tasks, tasks', i, n, Load(tasks[i].key, ends))
<1> DEFINE t == tasks[i]
           h == HandlerOf(t)
<1>1. TaskSound(t) /\ ~IsLoad(t) /\ Over(t) /\ Pool(tasks)
  BY DEF Finish, TasksSound
<1>2. HandlerFair(h) /\ ("reload" \in h.refresh => ThisPage.reads # 0)
  BY <1>1, HandlerKnown DEF PageTyped
<1>3. CASE t.mine /\ t.stage = "done" /\ Reloads(h)
  <2>1. tasks' = With(Without(tasks, i), Load(t.key, h.busy))
    BY <1>2, <1>3 DEF Finish, WithLoad, Reloads
  <2>2. PICK n : Swapped(tasks, tasks', i, n, Load(t.key, h.busy))
    BY <1>1, <2>1, Followed
  <2>3. h.busy \in BOOLEAN
    BY <1>2 DEF HandlerFair
  <2> QED
    BY <1>1, <1>3, <2>2, <2>3 DEF Over
<1>4. CASE ~(t.mine /\ t.stage = "done" /\ Reloads(h))
  <2>1. tasks' = Without(tasks, i)
    BY <1>4 DEF Finish
  <2> QED
    BY <1>1, <1>4, <2>1, Ended DEF Over, Reloads
<1> QED
  BY <1>3, <1>4

LEMMA OpenForm ==
  ASSUME Pool(tasks), NEW k, Open(k)
  PROVE  \/ ThisPage.reads = 0 /\ tasks' = tasks
         \/ \E n : n \notin DOMAIN tasks /\ Swapped(tasks, tasks', n, n, Load(k, FALSE))
BY Added DEF Open, WithLoad

LEMMA LoadEnds ==
  ASSUME Pool(tasks), NEW i \in DOMAIN tasks, LoadDone(i) \/ LoadFails(i)
  PROVE  Gone(tasks, tasks', i) /\ IsLoad(tasks[i])
BY Ended DEF LoadDone, LoadFails

(***************************************************************************)
(* A click adds a handler, and if this one asks for a code, one that       *)
(* waited for a code is lost.                                              *)
(***************************************************************************)
AfterClick(h, t) == IF h.stepUp /\ ~NotWaiting(t) THEN [t EXCEPT !.stage = "lost"] ELSE t

LEMMA ClickForm ==
  ASSUME TasksSound, NEW h, Click(h)
  PROVE  \E n : /\ n \notin DOMAIN tasks
               /\ Pool(tasks') /\ DOMAIN tasks' = DOMAIN tasks \cup {n}
               /\ tasks'[n] = Started(h)
               /\ \A i \in DOMAIN tasks : tasks'[i] = AfterClick(h, tasks[i])
<1>1. PICK ts : ts = IF h.stepUp THEN Overwritten(tasks) ELSE tasks
  OBVIOUS
<1>2. Pool(ts) /\ DOMAIN ts = DOMAIN tasks /\ \A i \in DOMAIN tasks : ts[i] = AfterClick(h, tasks[i])
  <2>1. CASE h.stepUp
    BY <1>1, <2>1 DEF Overwritten, AfterClick, TasksSound, Pool
  <2>2. CASE ~h.stepUp
    BY <1>1, <2>2 DEF AfterClick, TasksSound
  <2> QED
    BY <2>1, <2>2
<1>3. PICK n : n \notin DOMAIN ts /\ Swapped(ts, With(ts, Started(h)), n, n, Started(h))
  BY <1>2, Added
<1>4. tasks' = With(ts, Started(h))
  BY <1>1 DEF Click
<1> QED
  BY <1>2, <1>3, <1>4 DEF Swapped

(***************************************************************************)
(* All but the stage of such a task is as it was.                          *)
(***************************************************************************)
LEMMA AfterClickTyped ==
  ASSUME NEW h, NEW t, TaskSound(t)
  PROVE  LET u == AfterClick(h, t)
         IN  /\ TaskSound(u) /\ (IsLoad(u) <=> IsLoad(t))
             /\ u.what = t.what /\ u.mine = t.mine /\ u.ends = t.ends /\ u.key = t.key
             /\ u.main = t.main /\ u.list = t.list
             /\ u.stage = IF h.stepUp /\ t.stage = "waiting" THEN "lost" ELSE t.stage
<1>1. CASE h.stepUp /\ ~NotWaiting(t)
  <2> DEFINE u == [t EXCEPT !.stage = "lost"]
  <2>1. t \in TaskType /\ t.stage = "waiting"
    BY <1>1 DEF TaskSound, NotWaiting
  <2>2. /\ u \in TaskType /\ u.what = t.what /\ u.mine = t.mine /\ u.ends = t.ends /\ u.key = t.key
        /\ u.main = t.main /\ u.list = t.list /\ u.stage = "lost"
    BY <2>1 DEF TaskType
  <2>3. ~IsLoad(t) /\ AfterClick(h, t) = u
    BY <1>1, <2>1 DEF TaskSound, AfterClick
  <2> HIDE DEF u
  <2>4. TaskSound(u) /\ ~IsLoad(u)
    BY <2>2, <2>3 DEF TaskSound, IsLoad
  <2> QED
    BY <1>1, <2>1, <2>2, <2>3, <2>4
<1>2. CASE ~(h.stepUp /\ ~NotWaiting(t))
  BY <1>2 DEF AfterClick, NotWaiting
<1> QED
  BY <1>1, <1>2

(***************************************************************************)
(* What becomes of all tasks at once: the dialog resolves or rejects those *)
(* that wait, and leaving the page drops its loads and disowns the rest.   *)
(***************************************************************************)
LEMMA LeaveForm ==
  ASSUME TasksSound, Leave
  PROVE  /\ Pool(tasks')
         /\ DOMAIN tasks' = {i \in DOMAIN tasks : ~IsLoad(tasks[i])}
         /\ \A i \in DOMAIN tasks' : tasks'[i] = [tasks[i] EXCEPT !.mine = FALSE]
<1>1. IsFiniteSet({i \in DOMAIN tasks : ~IsLoad(tasks[i])})
  BY FS_Subset DEF TasksSound, Pool
<1> QED
  BY <1>1 DEF Leave, RestrictValues, Restrict, Pool

LEMMA CancelForm ==
  ASSUME TasksSound, CancelDialog
  PROVE  /\ Pool(tasks')
         /\ DOMAIN tasks' = {i \in DOMAIN tasks : NotWaiting(tasks[i])}
         /\ \A i \in DOMAIN tasks' : tasks'[i] = tasks[i]
<1>1. IsFiniteSet({i \in DOMAIN tasks : NotWaiting(tasks[i])})
  BY FS_Subset DEF TasksSound, Pool
<1> QED
  BY <1>1 DEF CancelDialog, Rejected, RestrictValues, Restrict, Pool

LEMMA ResolveForm ==
  ASSUME TasksSound, CodeAccepted
  PROVE  /\ Pool(tasks') /\ DOMAIN tasks' = DOMAIN tasks
         /\ \A i \in DOMAIN tasks' :
              tasks'[i] = IF NotWaiting(tasks[i]) THEN tasks[i] ELSE [tasks[i] EXCEPT !.stage = "sent"]
BY DEF CodeAccepted, Resolved, TasksSound, Pool

(***************************************************************************)
(* Every step of the page leaves sound tasks.                              *)
(***************************************************************************)
LEMMA TasksStep ==
  ASSUME PageTyped, TasksSound, PageStep, UNCHANGED part
  PROVE  TasksSound'
<1> USE DEF PageTyped
<1>0. Pool(tasks) /\ \A i \in DOMAIN tasks : TaskSound(tasks[i]) /\ tasks[i] \in TaskType
  BY DEF TasksSound, TaskSound
<1>1. ASSUME NEW i \in DOMAIN tasks, ReadMain(i) \/ ReadList(i) PROVE TasksSound'
  BY <1>1, ReadForm, SwappedSound
<1>2. ASSUME NEW i \in DOMAIN tasks, LoadDone(i) \/ LoadFails(i) PROVE TasksSound'
  BY <1>0, <1>2, LoadEnds, GoneSound
<1>3. ASSUME NEW i \in DOMAIN tasks, Serve(i) \/ Refuse(i) PROVE TasksSound'
  BY <1>3, CallForm, SwappedSound
<1>4. ASSUME NEW i \in DOMAIN tasks, Finish(i) PROVE TasksSound'
  <2>1. tasks[i].key \in Keys
    BY <1>0 DEF TaskType
  <2>2. CASE Gone(tasks, tasks', i)
    BY <2>2, GoneSound
  <2>3. CASE ~Gone(tasks, tasks', i)
    <3>1. PICK n : \E ends \in BOOLEAN : Swapped(tasks, tasks', i, n, Load(tasks[i].key, ends))
      BY <1>4, <2>3, FinishForm
    <3> QED
      BY <2>1, <3>1, LoadTyped, SwappedSound
  <2> QED
    BY <2>2, <2>3
<1>5. ASSUME NEW k \in Keys, Open(k) PROVE TasksSound'
  <2>1. CASE tasks' = tasks
    BY <1>0, <2>1, TasksKept
  <2>2. CASE tasks' # tasks
    BY <1>0, <1>5, <2>2, OpenForm, LoadTyped, SwappedSound
  <2> QED
    BY <2>1, <2>2
<1>6. ASSUME NEW h \in ThisPage.handlers, Click(h) PROVE TasksSound'
  <2>1. TaskSound(Started(h))
    BY <1>6, StartedTyped DEF Click
  <2>2. PICK n : /\ Pool(tasks') /\ DOMAIN tasks' = DOMAIN tasks \cup {n} /\ tasks'[n] = Started(h)
                 /\ \A i \in DOMAIN tasks : tasks'[i] = AfterClick(h, tasks[i])
    BY <1>6, ClickForm
  <2>3. \A i \in DOMAIN tasks : TaskSound(AfterClick(h, tasks[i]))
    BY <1>0, AfterClickTyped
  <2> QED
    BY <2>1, <2>2, <2>3, TasksKept
<1>7. CASE Leave
  <2>1. ASSUME NEW i \in DOMAIN tasks' PROVE TaskSound(tasks'[i])
    <3> DEFINE p == [tasks[i] EXCEPT !.mine = FALSE]
    <3>1. tasks'[i] = p /\ TaskSound(tasks[i]) /\ ~IsLoad(tasks[i])
      BY <1>0, <1>7, <2>1, LeaveForm
    <3>2. /\ p \in TaskType /\ p.what = tasks[i].what /\ p.stage = tasks[i].stage
          /\ p.main = tasks[i].main /\ p.list = tasks[i].list
      BY <3>1 DEF TaskSound, TaskType
    <3> HIDE DEF p
    <3> QED
      BY <3>1, <3>2 DEF TaskSound, IsLoad
  <2> QED
    BY <1>7, <2>1, LeaveForm, TasksKept
<1>8. CASE CancelDialog
  BY <1>0, <1>8, CancelForm, TasksKept
<1>9. CASE CodeAccepted
  <2>1. \A i \in DOMAIN tasks' : TaskSound(tasks'[i])
    BY <1>0, <1>9, ResolveForm DEF TaskSound, TaskType, IsLoad, NotWaiting
  <2> QED
    BY <1>9, <2>1, ResolveForm, TasksKept
<1>10. CASE SubmitCode \/ CodeRefused \/ \E k \in Keys : OthersChange(k)
  <2>1. tasks' = tasks
    BY <1>10 DEF SubmitCode, CodeRefused, OthersChange
  <2> QED
    BY <1>0, <2>1, TasksKept
<1> QED
  BY <1>1, <1>2, <1>3, <1>4, <1>5, <1>6, <1>7, <1>8, <1>9, <1>10 DEF PageStep, Answer

(***************************************************************************)
(* Every step of the page keeps the types of what it shows and knows.      *)
(***************************************************************************)
LEMMA PageTypedStep ==
  ASSUME PageTyped, TasksSound, PageStep, UNCHANGED part
  PROVE  PageTyped'
<1> USE DEF PageTyped
<1>0. \A i \in DOMAIN tasks : TaskSound(tasks[i]) /\ tasks[i] \in TaskType
  BY DEF TasksSound, TaskSound
<1>1. ASSUME NEW i \in DOMAIN tasks, ReadMain(i) \/ ReadList(i) PROVE PageTyped'
  BY <1>1 DEF ReadMain, ReadList
<1>2. ASSUME NEW i \in DOMAIN tasks, LoadDone(i) \/ LoadFails(i) PROVE PageTyped'
  <2>1. CASE LoadDone(i)
    <3>1. tasks[i].main \in Mains /\ tasks[i].list \in Besides
      BY <1>0, <2>1 DEF LoadDone, TaskType
    <3> QED
      BY <2>1, <3>1 DEF LoadDone
  <2>2. CASE LoadFails(i)
    BY <2>2, SpendTyped DEF LoadFails
  <2> QED
    BY <1>2, <2>1, <2>2
<1>3. ASSUME NEW i \in DOMAIN tasks, Serve(i) \/ Refuse(i) PROVE PageTyped'
  <2>1. tasks[i].key \in Keys
    BY <1>0 DEF TaskType
  <2>2. server' = server \/
          server' = [server EXCEPT ![tasks[i].key] = Written(HandlerOf(tasks[i]), server[tasks[i].key])]
    BY <1>3 DEF Serve, Refuse
  <2>3. server' \in [Keys -> [row : Rows, list : Counts]]
    BY <2>1, <2>2, WrittenTyped
  <2>4. left' \in [click : Nat, event : Nat]
    BY <1>3, SpendTyped DEF Serve, Refuse
  <2> QED
    BY <1>3, <2>3, <2>4 DEF Serve, Refuse
<1>4. ASSUME NEW i \in DOMAIN tasks, Finish(i) PROVE PageTyped'
  <2> DEFINE t == tasks[i]
             h == HandlerOf(t)
             good == t.mine /\ t.stage = "done"
  <2>1. good => t.main \in Mains /\ t.list \in Besides
    BY <1>0 DEF TaskSound
  <2>2. view' \in [main : Mains, list : Besides] \cup {None}
    <3>1. good => Installed(h, t) \in [main : Mains, list : Besides] \cup {None}
      BY <2>1 DEF Installed
    <3> QED
      BY <1>4, <3>1 DEF Finish
  <2>3. wrote' \in [rev : Nat, list : Nat]
    <3>1. good => Acknowledged(h, t) \in [rev : Nat, list : Nat]
      BY <2>1 DEF Acknowledged, Mains, Besides, Rows, Counts
    <3> QED
      BY <1>4, <3>1 DEF Finish
  <2>4. loading' \in BOOLEAN
    BY <1>4 DEF Finish
  <2> QED
    BY <1>4, <2>2, <2>3, <2>4 DEF Finish
<1>5. ASSUME NEW k \in Keys, Open(k) PROVE PageTyped'
  BY <1>5, SpendTyped DEF Open, Hides
<1>6. ASSUME NEW h \in ThisPage.handlers, Click(h) PROVE PageTyped'
  <2>1. h.stepUp \in BOOLEAN
    BY ThisPageFair DEF PageFair, HandlerFair
  <2> QED
    BY <1>6, <2>1, SpendTyped DEF Click
<1>7. CASE Leave
  BY <1>7 DEF Leave
<1>8. CASE CancelDialog \/ CodeAccepted \/ SubmitCode \/ CodeRefused
  <2>1. dialog' \in [open : BOOLEAN, busy : BOOLEAN]
    <3>1. CASE CancelDialog
      <4>1. dialog \in [open : BOOLEAN, busy : BOOLEAN] /\ dialog' = [dialog EXCEPT !.open = FALSE]
        BY <3>1 DEF CancelDialog
      <4> HIDE DEF PageTyped
      <4> QED
        BY <4>1
    <3>2. CASE CodeAccepted
      <4> HIDE DEF PageTyped
      <4> QED
        BY <3>2 DEF CodeAccepted
    <3>3. CASE SubmitCode
      <4> HIDE DEF PageTyped
      <4> QED
        BY <3>3 DEF SubmitCode
    <3>4. CASE CodeRefused
      BY <3>4 DEF CodeRefused
    <3> QED
      BY <1>8, <3>1, <3>2, <3>3, <3>4
  <2>2. left' \in [click : Nat, event : Nat]
    BY <1>8, SpendTyped DEF CancelDialog, CodeAccepted, SubmitCode, CodeRefused
  <2>3. UNCHANGED <<at, view, loading, server, wrote, calm>>
    BY <1>8 DEF CancelDialog, CodeAccepted, SubmitCode, CodeRefused
  <2> QED
    BY <2>1, <2>2, <2>3
<1>9. ASSUME NEW k \in Keys, OthersChange(k) PROVE PageTyped'
  <2>1. PICK c \in BOOLEAN : server' = [server EXCEPT ![k].row = [server[k].row EXCEPT !.rev = @ + 1, !.closed = c]]
    BY <1>9 DEF OthersChange
  <2> DEFINE r == [server[k].row EXCEPT !.rev = server[k].row.rev + 1, !.closed = c]
             s == [server[k] EXCEPT !.row = r]
  <2>2. server[k] \in [row : Rows, list : Counts]
    OBVIOUS
  <2>3. r \in Rows
    <3>1. server[k].row \in Rows /\ server[k].row.rev + 1 \in Counts
      BY <2>2 DEF Rows, Counts
    <3> HIDE DEF PageTyped
    <3> QED
      BY <3>1 DEF Rows
  <2>4. server' = [server EXCEPT ![k] = s]
    <3> HIDE DEF PageTyped
    <3> QED
      BY <2>1
  <2>5. s \in [row : Rows, list : Counts]
    BY <2>2, <2>3
  <2> HIDE DEF s
  <2>6. server' \in [Keys -> [row : Rows, list : Counts]]
    BY <2>4, <2>5
  <2> QED
    BY <1>9, <2>6, SpendTyped DEF OthersChange
<1> QED
  BY <1>1, <1>2, <1>3, <1>4, <1>5, <1>6, <1>7, <1>8, <1>9 DEF PageStep, Answer

-----------------------------------------------------------------------------
(* The dialog *)

Waiting(i) == i \in DOMAIN tasks /\ tasks[i].stage = "waiting"
Lost(i) == i \in DOMAIN tasks /\ tasks[i].stage = "lost"

(***************************************************************************)
(* NoButtonLost, and that what waits for a code holds buttons exactly as   *)
(* the handlers of this page do that ask for one.                          *)
(***************************************************************************)
WaitersSound ==
  /\ dialog.open <=> \E i : Waiting(i)
  /\ \A i : Waiting(i) => \E g \in ThisPage.handlers : g.stepUp /\ tasks[i].ends = g.busy
  /\ \A i : Lost(i) => ~Holds(tasks[i])

(***************************************************************************)
(* The dialog stays open until its handler is resolved or rejected; who    *)
(* loses a resolver to a handler that could be started held nothing.       *)
(***************************************************************************)
LEMMA WaitStep ==
  ASSUME PageTyped, TasksSound, WaitersSound, PageStep, UNCHANGED part
  PROVE  WaitersSound'
<1> DEFINE Same == /\ dialog'.open = dialog.open
                   /\ \A i : Waiting(i) => Waiting(i)'
                   /\ \A i : Waiting(i)' => Waiting(i) /\ tasks'[i].ends = tasks[i].ends
                   /\ \A i : Lost(i)' => Lost(i) /\ (Holds(tasks'[i]) => Holds(tasks[i]))
<1>0. \A i \in DOMAIN tasks : IsLoad(tasks[i]) => ~Waiting(i)
  BY DEF TasksSound, TaskSound, Waiting
<1>1. ASSUME Same PROVE WaitersSound'
  <2>1. ThisPage' = ThisPage
    BY DEF ThisPage
  <2>2. ASSUME NEW i, Lost(i)' PROVE ~Holds(tasks[i])'
    <3>1. ~Holds(tasks'[i])
      BY <1>1, <2>2 DEF WaitersSound
    <3> QED
      BY <3>1 DEF Holds
  <2>3. ASSUME NEW i, Waiting(i)' PROVE \E g \in ThisPage.handlers : g.stepUp /\ tasks'[i].ends = g.busy
    BY <1>1, <2>3 DEF WaitersSound
  <2> QED
    BY <1>1, <2>1, <2>2, <2>3 DEF WaitersSound
<1>2. ASSUME NEW i, NEW n, NEW p, Swapped(tasks, tasks', i, n, p), ~Waiting(i),
             p.stage \notin {"waiting", "lost"}, UNCHANGED dialog
      PROVE  Same
  BY <1>2 DEF Swapped, Waiting, Lost
<1>3. ASSUME NEW i, Gone(tasks, tasks', i), ~Waiting(i), UNCHANGED dialog PROVE Same
  BY <1>3 DEF Gone, Waiting, Lost
<1>4. ASSUME NEW k, NEW ends PROVE Load(k, ends).stage = "sent"
  BY DEF Load
<1>5. ASSUME NEW i \in DOMAIN tasks, ReadMain(i) \/ ReadList(i) PROVE Same
  <2>1. UNCHANGED dialog
    BY <1>5 DEF ReadMain, ReadList
  <2>2. PICK p : /\ Swapped(tasks, tasks', i, i, p) /\ TaskSound(p) /\ IsLoad(tasks[i]) /\ IsLoad(p)
    BY <1>5, ReadForm
  <2> QED
    BY <1>0, <1>2, <2>1, <2>2 DEF TaskSound
<1>6. ASSUME NEW i \in DOMAIN tasks, LoadDone(i) \/ LoadFails(i) PROVE Same
  <2>1. UNCHANGED dialog
    BY <1>6 DEF LoadDone, LoadFails
  <2> QED
    BY <1>0, <1>3, <1>6, <2>1, LoadEnds DEF TasksSound
<1>7. ASSUME NEW i \in DOMAIN tasks, Serve(i) \/ Refuse(i) PROVE Same
  <2>1. UNCHANGED dialog
    BY <1>7 DEF Serve, Refuse
  <2>2. PICK p : /\ Swapped(tasks, tasks', i, i, p) /\ tasks[i].stage = "sent"
                 /\ p.stage \in {"done", "refused"}
    BY <1>7, CallForm
  <2> QED
    BY <1>2, <2>1, <2>2 DEF Waiting
<1>8. ASSUME NEW i \in DOMAIN tasks, Finish(i) PROVE Same
  <2>1. UNCHANGED dialog /\ ~Waiting(i)
    BY <1>8, FinishForm DEF Finish, Waiting
  <2>2. CASE Gone(tasks, tasks', i)
    BY <1>3, <2>1, <2>2
  <2>3. CASE ~Gone(tasks, tasks', i)
    <3>1. PICK n : \E ends \in BOOLEAN : Swapped(tasks, tasks', i, n, Load(tasks[i].key, ends))
      BY <1>8, <2>3, FinishForm
    <3> QED
      BY <1>2, <1>4, <2>1, <3>1
  <2> QED
    BY <2>2, <2>3
<1>9. ASSUME NEW k \in Keys, Open(k) PROVE Same
  <2>1. UNCHANGED dialog
    BY <1>9 DEF Open
  <2>2. CASE tasks' = tasks
    BY <2>1, <2>2 DEF Waiting, Lost
  <2>3. CASE tasks' # tasks
    <3>1. PICK n : n \notin DOMAIN tasks /\ Swapped(tasks, tasks', n, n, Load(k, FALSE))
      BY <1>9, <2>3, OpenForm DEF TasksSound
    <3> QED
      BY <1>2, <1>4, <2>1, <3>1 DEF Waiting
  <2> QED
    BY <2>2, <2>3
<1>10. ASSUME NEW h \in ThisPage.handlers, Click(h) PROVE WaitersSound'
  <2>1. PICK n : /\ n \notin DOMAIN tasks /\ DOMAIN tasks' = DOMAIN tasks \cup {n}
                 /\ tasks'[n] = Started(h)
                 /\ \A i \in DOMAIN tasks : tasks'[i] = AfterClick(h, tasks[i])
    BY <1>10, ClickForm
  <2>2. /\ dialog'.open = (dialog.open \/ h.stepUp)
        /\ Started(h).stage = (IF h.stepUp THEN "waiting" ELSE "sent")
        /\ Started(h).ends = h.busy
    BY <1>10 DEF Click, Started, PageTyped
  <2>3. \A i \in DOMAIN tasks :
          /\ tasks'[i].mine = tasks[i].mine /\ tasks'[i].ends = tasks[i].ends
          /\ tasks'[i].stage = IF h.stepUp /\ tasks[i].stage = "waiting" THEN "lost" ELSE tasks[i].stage
    BY <2>1, AfterClickTyped DEF TasksSound
  <2>4. CASE ~h.stepUp
    <3>1. dialog'.open = dialog.open
      <4>1. dialog \in [open : BOOLEAN, busy : BOOLEAN]
        BY DEF PageTyped
      <4> QED
        BY <2>2, <2>4, <4>1
    <3>2. \A i : Waiting(i) => Waiting(i)'
      BY <2>1, <2>3, <2>4 DEF Waiting
    <3>3. \A i : Waiting(i)' => Waiting(i) /\ tasks'[i].ends = tasks[i].ends
      BY <2>1, <2>2, <2>3, <2>4 DEF Waiting
    <3>4. \A i : Lost(i)' => Lost(i) /\ (Holds(tasks'[i]) => Holds(tasks[i]))
      BY <2>1, <2>2, <2>3, <2>4 DEF Lost, Holds
    <3> QED
      BY <1>1, <3>1, <3>2, <3>3, <3>4
  <2>5. CASE h.stepUp
    <3>1. \A i : Waiting(i)' <=> i = n
      BY <2>1, <2>2, <2>3, <2>5 DEF Waiting
    <3>2. ASSUME NEW i, Lost(i)' PROVE ~Holds(tasks'[i])
      <4>1. i \in DOMAIN tasks
        BY <2>1, <2>2, <2>5, <3>2 DEF Lost
      <4>2. CASE Lost(i)
        BY <2>3, <4>1, <4>2 DEF WaitersSound, Holds
      <4>3. CASE ~Lost(i)
        <5>1. Waiting(i)
          BY <2>3, <3>2, <4>1, <4>3 DEF Waiting, Lost
        <5>2. PICK g \in ThisPage.handlers : g.stepUp /\ tasks[i].ends = g.busy
          BY <5>1 DEF WaitersSound
        <5>3. g.busy = h.busy
          <6>1. StepUpsAlike(ThisPage)
            BY PagesAlike DEF ThisPage, PageTyped
          <6> QED
            BY <2>5, <5>2, <6>1 DEF StepUpsAlike
        <5>4. Holds(tasks[i]) => ~h.busy
          BY <1>10, <4>1 DEF Click, Enabled, Busy
        <5> QED
          BY <2>3, <4>1, <5>2, <5>3, <5>4 DEF Holds
      <4> QED
        BY <4>2, <4>3
    <3>3. ThisPage' = ThisPage
      BY DEF ThisPage
    <3>4. ASSUME NEW i, Lost(i)' PROVE ~Holds(tasks[i])'
      BY <3>2, <3>4 DEF Holds
    <3> QED
      BY <2>1, <2>2, <2>5, <3>1, <3>3, <3>4 DEF WaitersSound
  <2> QED
    BY <2>4, <2>5
<1>11. CASE Leave
  <2>1. UNCHANGED dialog
    BY <1>11 DEF Leave
  <2>2. \A i \in DOMAIN tasks' : /\ tasks'[i].stage = tasks[i].stage /\ tasks'[i].ends = tasks[i].ends
                                 /\ ~tasks'[i].mine
    BY <1>11, LeaveForm DEF TasksSound, TaskSound, TaskType
  <2>3. Same
    BY <1>0, <1>11, <2>1, <2>2, LeaveForm DEF Waiting, Lost, Holds
  <2> QED
    BY <1>1, <2>3
<1>12. CASE CancelDialog \/ CodeAccepted
  <2>1. ~dialog'.open
    BY <1>12 DEF CancelDialog, CodeAccepted, PageTyped
  <2>2. /\ \A i : ~Waiting(i)'
        /\ \A i : Lost(i)' => Lost(i) /\ tasks'[i] = tasks[i]
    <3>1. CASE CancelDialog
      BY <3>1, CancelForm DEF Waiting, Lost, NotWaiting
    <3>2. CASE CodeAccepted
      <4>1. \A i \in DOMAIN tasks' :
              /\ NotWaiting(tasks[i]) => tasks'[i] = tasks[i]
              /\ ~NotWaiting(tasks[i]) => tasks'[i].stage = "sent"
        BY <3>2, ResolveForm DEF TasksSound, TaskSound, TaskType
      <4> QED
        BY <3>2, <4>1, ResolveForm DEF Waiting, Lost, NotWaiting
    <3> QED
      BY <1>12, <3>1, <3>2
  <2>3. ASSUME NEW i, Lost(i)' PROVE ~Holds(tasks[i])'
    BY <2>2, <2>3 DEF WaitersSound, Holds
  <2> QED
    BY <2>1, <2>2, <2>3 DEF WaitersSound
<1>13. CASE SubmitCode \/ CodeRefused \/ \E k \in Keys : OthersChange(k)
  <2>1. tasks' = tasks /\ dialog'.open = dialog.open
    <3>1. dialog \in [open : BOOLEAN, busy : BOOLEAN]
      BY DEF PageTyped
    <3>2. CASE SubmitCode
      BY <3>1, <3>2 DEF SubmitCode
    <3>3. CASE CodeRefused
      BY <3>1, <3>3 DEF CodeRefused
    <3>4. CASE \E k \in Keys : OthersChange(k)
      BY <3>4 DEF OthersChange
    <3> QED
      BY <1>13, <3>2, <3>3, <3>4
  <2>2. Same
    BY <2>1 DEF Waiting, Lost
  <2> QED
    BY <1>1, <2>2
<1> QED
  BY <1>1, <1>5, <1>6, <1>7, <1>8, <1>9, <1>10, <1>11, <1>12, <1>13 DEF PageStep, Answer

-----------------------------------------------------------------------------
(* The spinner *)

LoadRuns == \E i \in DOMAIN tasks : IsLoad(tasks[i])

HiddenSound == loading => LoadRuns

(***************************************************************************)
(* What hides the page has started a load, and what ends a load shows it.  *)
(***************************************************************************)
LEMMA HiddenStep ==
  ASSUME PageTyped, TasksSound, HiddenSound, PageStep, UNCHANGED part
  PROVE  HiddenSound'
<1> USE DEF HiddenSound
<1>0. PageFair(ThisPage) /\ \A i \in DOMAIN tasks : TaskSound(tasks[i])
  BY ThisPageFair DEF PageTyped, TasksSound
<1>1. ASSUME UNCHANGED loading, LoadRuns => LoadRuns' PROVE HiddenSound'
  BY <1>1
<1>2. ASSUME NEW i, NEW n, NEW p, Swapped(tasks, tasks', i, n, p), IsLoad(p) PROVE LoadRuns'
  BY <1>2 DEF Swapped, LoadRuns, IsLoad
<1>3. ASSUME NEW k, NEW ends PROVE IsLoad(Load(k, ends))
  BY DEF Load, IsLoad
<1>4. ASSUME NEW i \in DOMAIN tasks, ReadMain(i) \/ ReadList(i) PROVE HiddenSound'
  BY <1>2, <1>4, ReadForm
<1>5. ASSUME NEW i \in DOMAIN tasks, LoadDone(i) \/ LoadFails(i) PROVE HiddenSound'
  BY <1>5 DEF LoadDone, LoadFails
<1>6. ASSUME NEW i \in DOMAIN tasks, Serve(i) \/ Refuse(i) PROVE HiddenSound'
  <2>1. UNCHANGED loading
    BY <1>6 DEF Serve, Refuse
  <2>2. PICK p : Swapped(tasks, tasks', i, i, p) /\ ~IsLoad(tasks[i])
    BY <1>6, CallForm
  <2>3. LoadRuns => LoadRuns'
    BY <2>2 DEF Swapped, LoadRuns, IsLoad
  <2> QED
    BY <1>1, <2>1, <2>3
<1>7. ASSUME NEW i \in DOMAIN tasks, Finish(i) PROVE HiddenSound'
  <2>1. CASE Gone(tasks, tasks', i)
    <3>1. ~(tasks[i].mine /\ tasks[i].stage = "done" /\ Reloads(HandlerOf(tasks[i]))) /\ ~IsLoad(tasks[i])
      <4>1. \A n, q : ~Swapped(tasks, tasks', i, n, q)
        BY <2>1 DEF Gone, Swapped
      <4> QED
        BY <1>7, <4>1, FinishForm DEF Reloads
    <3>2. UNCHANGED loading
      BY <1>7, <3>1 DEF Finish, PageTyped
    <3>3. LoadRuns => LoadRuns'
      BY <2>1, <3>1 DEF Gone, LoadRuns, IsLoad
    <3> QED
      BY <1>1, <3>2, <3>3
  <2>2. CASE ~Gone(tasks, tasks', i)
    <3>1. PICK n : \E ends \in BOOLEAN : Swapped(tasks, tasks', i, n, Load(tasks[i].key, ends))
      BY <1>7, <2>2, FinishForm
    <3> QED
      BY <1>2, <1>3, <3>1
  <2> QED
    BY <2>1, <2>2
<1>8. ASSUME NEW k \in Keys, Open(k) PROVE HiddenSound'
  <2>1. CASE Hides
    <3>1. ThisPage.reads # 0
      BY <1>0, <2>1 DEF PageFair, Hides
    <3>2. PICK n : Swapped(tasks, tasks', n, n, Load(k, FALSE))
      BY <1>8, <3>1, OpenForm DEF TasksSound
    <3> QED
      BY <1>2, <1>3, <3>2
  <2>2. CASE ~Hides
    BY <1>8, <2>2 DEF Open
  <2> QED
    BY <2>1, <2>2
<1>9. ASSUME NEW h \in ThisPage.handlers, Click(h) PROVE HiddenSound'
  <2>1. UNCHANGED loading
    BY <1>9 DEF Click
  <2>2. DOMAIN tasks \subseteq DOMAIN tasks' /\ \A i \in DOMAIN tasks : tasks'[i] = AfterClick(h, tasks[i])
    BY <1>9, ClickForm
  <2>3. LoadRuns => LoadRuns'
    BY <1>0, <2>2, AfterClickTyped DEF LoadRuns, IsLoad
  <2> QED
    BY <1>1, <2>1, <2>3
<1>10. CASE Leave
  BY <1>10 DEF Leave
<1>11. CASE CancelDialog \/ CodeAccepted
  <2>1. UNCHANGED loading
    BY <1>11 DEF CancelDialog, CodeAccepted
  <2>2. \A i \in DOMAIN tasks : IsLoad(tasks[i]) => i \in DOMAIN tasks' /\ tasks'[i] = tasks[i]
    BY <1>0, <1>11, CancelForm, ResolveForm DEF TaskSound, NotWaiting
  <2>3. LoadRuns => LoadRuns'
    BY <2>2 DEF LoadRuns, IsLoad
  <2> QED
    BY <1>1, <2>1, <2>3
<1>12. CASE SubmitCode \/ CodeRefused \/ \E k \in Keys : OthersChange(k)
  <2>1. UNCHANGED <<loading, tasks>>
    BY <1>12 DEF SubmitCode, CodeRefused, OthersChange
  <2> QED
    BY <1>1, <2>1 DEF LoadRuns, IsLoad
<1> QED
  BY <1>4, <1>5, <1>6, <1>7, <1>8, <1>9, <1>10, <1>11, <1>12 DEF PageStep, Answer

-----------------------------------------------------------------------------
(* The preview *)

RunType == [props : Props, cancelled : BOOLEAN, stage : {"link", "bytes"}]

(***************************************************************************)
(* At most one run of the effect is not cancelled; it fetches what the     *)
(* page names, and nothing is shown yet.                                   *)
(***************************************************************************)
OneRun ==
  /\ Pool(runs) /\ \A i \in DOMAIN runs : runs[i] \in RunType
  /\ preview \in [props : Props, shown : Props]
  /\ \A i, j \in DOMAIN runs : ~runs[i].cancelled /\ ~runs[j].cancelled => i = j
  /\ \A i \in DOMAIN runs : ~runs[i].cancelled =>
       runs[i].props = preview.props /\ preview.props # None /\ preview.shown = None

(***************************************************************************)
(* A step of the page restarts the effect exactly if what is previewed     *)
(* changes.                                                                *)
(***************************************************************************)
LEMMA EffectStep ==
  ASSUME PageTyped', OneRun, PreviewIsCurrent, PreviewEffect
  PROVE  OneRun' /\ PreviewIsCurrent'
<1>1. CASE PreviewProps' = preview.props
  BY <1>1 DEF PreviewEffect, previewVars, OneRun, PreviewIsCurrent
<1>2. CASE PreviewProps' # preview.props
  <2> DEFINE old == [i \in DOMAIN runs |-> [runs[i] EXCEPT !.cancelled = TRUE]]
  <2>1. PICK q \in Props : q = PreviewProps'
    BY DEF PageTyped, PreviewProps, CurrentVersion, Shown, Props, Mains, Besides, Rows
  <2>2. /\ preview' = [props |-> q, shown |-> None]
        /\ urls' = IF preview.shown = None THEN urls ELSE urls - 1
        /\ runs' = IF q = None THEN old ELSE With(old, PreviewRun(q))
    BY <1>2, <2>1 DEF PreviewEffect
  <2>3. PreviewIsCurrent'
    <3>1. urls' = 0
      BY <2>2 DEF PreviewIsCurrent
    <3> QED
      BY <2>1, <2>2, <3>1 DEF PreviewIsCurrent
  <2>4. Pool(old) /\ DOMAIN old = DOMAIN runs
    BY DEF Pool, OneRun
  <2>5. \A i \in DOMAIN old : old[i] \in RunType /\ old[i].cancelled
    <3> TAKE i \in DOMAIN old
    <3>1. runs[i] \in RunType /\ old[i] = [runs[i] EXCEPT !.cancelled = TRUE]
      BY DEF OneRun
    <3> HIDE DEF old
    <3> QED
      BY <3>1 DEF RunType
  <2> HIDE DEF old
  <2>6. None \in Props
    BY DEF Props
  <2>7. CASE q = None
    <3>1. runs' = old
      BY <2>2, <2>7
    <3>2. \A i \in DOMAIN runs' : runs'[i] \in RunType /\ runs'[i].cancelled
      BY <2>5, <3>1
    <3>3. Pool(runs)'
      BY <2>4, <3>1 DEF Pool
    <3>4. preview' \in [props : Props, shown : Props]
      BY <2>2, <2>6
    <3> QED
      BY <2>3, <3>2, <3>3, <3>4 DEF OneRun
  <2>8. CASE q # None
    <3>1. PICK n : n \notin DOMAIN old /\ Swapped(old, With(old, PreviewRun(q)), n, n, PreviewRun(q))
      BY <2>4, Added
    <3>2. PreviewRun(q) \in RunType /\ PreviewRun(q).props = q
      BY DEF PreviewRun, RunType
    <3> DEFINE new == With(old, PreviewRun(q))
    <3>3. /\ Pool(new) /\ DOMAIN new = DOMAIN old \cup {n} /\ new[n] = PreviewRun(q)
          /\ \A i \in DOMAIN old : new[i] = old[i]
      BY <3>1 DEF Swapped
    <3>4. runs' = new
      BY <2>2, <2>8
    <3> HIDE DEF new
    <3>5. /\ \A i \in DOMAIN runs' : runs'[i] \in RunType
          /\ \A i \in DOMAIN runs' : ~runs'[i].cancelled => i = n /\ runs'[i].props = q
      BY <2>5, <3>2, <3>3, <3>4
    <3>6. /\ preview'.props = q /\ preview'.shown = None
          /\ preview' \in [props : Props, shown : Props]
      BY <2>2, <2>6
    <3>7. Pool(runs)'
      BY <3>3, <3>4 DEF Pool
    <3> QED
      BY <2>3, <2>8, <3>5, <3>6, <3>7 DEF OneRun
  <2> QED
    BY <2>3, <2>7, <2>8
<1> QED
  BY <1>1, <1>2

(***************************************************************************)
(* A step of a run shows what the page names, or nothing new.              *)
(***************************************************************************)
LEMMA PreviewRuns ==
  ASSUME OneRun, PreviewIsCurrent, PreviewStep, UNCHANGED <<part, pageVars>>
  PROVE  OneRun' /\ PreviewIsCurrent'
<1>1. PICK i \in DOMAIN runs : PreviewLink(i) \/ PreviewBytes(i)
  BY DEF PreviewStep
<1>2. PreviewProps' = PreviewProps
  BY DEF pageVars, PreviewProps, CurrentVersion, Shown
<1>3. ASSUME Gone(runs, runs', i), UNCHANGED <<preview, urls>> PROVE OneRun' /\ PreviewIsCurrent'
  BY <1>2, <1>3 DEF Gone, OneRun, PreviewIsCurrent
<1>4. Pool(runs) /\ runs[i] \in RunType
  BY DEF OneRun
<1>5. CASE PreviewLink(i)
  <2>1. CASE runs' = Without(runs, i)
    BY <1>3, <1>4, <1>5, <2>1, Ended DEF PreviewLink
  <2>2. CASE runs' # Without(runs, i)
    <3> DEFINE p == [runs[i] EXCEPT !.stage = "bytes"]
    <3>1. runs' = [runs EXCEPT ![i] = p] /\ UNCHANGED <<preview, urls>>
      BY <1>5, <2>2 DEF PreviewLink
    <3>2. p \in RunType /\ p.props = runs[i].props /\ p.cancelled = runs[i].cancelled
      BY <1>4 DEF RunType
    <3> HIDE DEF p
    <3>3. Swapped(runs, runs', i, i, p)
      BY <1>4, <3>1, Changed
    <3>4. /\ Pool(runs') /\ DOMAIN runs' = DOMAIN runs
          /\ \A j \in DOMAIN runs : /\ runs'[j] \in RunType /\ runs'[j].props = runs[j].props
                                    /\ runs'[j].cancelled = runs[j].cancelled
      BY <3>2, <3>3 DEF Swapped, OneRun
    <3>5. OneRun'
      BY <3>1, <3>4 DEF OneRun
    <3> QED
      BY <1>2, <3>1, <3>5 DEF PreviewIsCurrent
  <2> QED
    BY <2>1, <2>2
<1>6. CASE PreviewBytes(i)
  <2>1. Gone(runs, runs', i)
    BY <1>4, <1>6, Ended DEF PreviewBytes
  <2>2. CASE runs[i].cancelled
    BY <1>3, <1>6, <2>1, <2>2 DEF PreviewBytes, GoesOn
  <2>3. CASE ~runs[i].cancelled
    <3>1. urls' = urls + 1 /\ preview' = [preview EXCEPT !.shown = preview.props]
      BY <1>6, <2>3 DEF PreviewBytes, GoesOn, OneRun
    <3>2. preview.props # None /\ preview.shown = None
      BY <2>3 DEF OneRun
    <3>3. /\ preview'.props = preview.props /\ preview'.shown = preview.props
          /\ preview' \in [props : Props, shown : Props]
      BY <3>1 DEF OneRun
    <3>4. \A j \in DOMAIN runs' : runs'[j] \in RunType /\ runs'[j].cancelled
      BY <2>1, <2>3 DEF Gone, OneRun, RunType
    <3>5. OneRun'
      BY <2>1, <3>3, <3>4 DEF OneRun, Gone
    <3>6. PreviewIsCurrent'
      BY <1>2, <3>1, <3>2, <3>3 DEF PreviewIsCurrent
    <3> QED
      BY <3>5, <3>6
  <2> QED
    BY <2>2, <2>3
<1> QED
  BY <1>1, <1>5, <1>6

-----------------------------------------------------------------------------
(* Read your writes *)

UpToDate(main, list) ==
  /\ main.key = at /\ wrote.rev <= main.row.rev
  /\ list.key = at /\ wrote.list <= list.list

(***************************************************************************)
(* What a load has read is under the key of the page and not older than    *)
(* what the page's handlers wrote.                                         *)
(***************************************************************************)
LoadSound(t) ==
  /\ t.main # None => t.main.key = at /\ wrote.rev <= t.main.row.rev
  /\ t.list # None => t.list.key = at /\ wrote.list <= t.list.list

(***************************************************************************)
(* A handler was started on a page up to date; its answer is what the      *)
(* server held since.                                                      *)
(***************************************************************************)
HandlerSound(t) ==
  /\ view # None => UpToDate(view.main, view.list)
  /\ t.what \notin Partial
  /\ t.stage = "done" =>
       /\ UpToDate(t.main, t.list)
       /\ t.main.row.rev <= server[at].row.rev /\ t.list.list <= server[at].list

OwnSound(t) == t.key = at /\ IF IsLoad(t) THEN LoadSound(t) ELSE HandlerSound(t)

Mine(i) == i \in DOMAIN tasks /\ tasks[i].mine

Undisturbed ==
  /\ \A i, j : Mine(i) /\ Mine(j) => i = j
  /\ \A i : Mine(i) => OwnSound(tasks[i])
  /\ wrote.rev <= server[at].row.rev /\ wrote.list <= server[at].list
  /\ view # None /\ (\A i : ~Mine(i)) => UpToDate(view.main, view.list)

(***************************************************************************)
(* A page whose user did one thing at a time has one task of its own, and  *)
(* is up to date when it has none.                                         *)
(***************************************************************************)
PageSound ==
  /\ at = None => \A i : ~Mine(i)
  /\ calm /\ at # None => Undisturbed

(***************************************************************************)
(* The server's rows only grow.                                            *)
(***************************************************************************)
LEMMA ServerGrows ==
  ASSUME PageTyped, TasksSound, PageStep
  PROVE  \A k \in Keys : server[k].row.rev <= server'[k].row.rev /\ server[k].list <= server'[k].list
<1>1. server \in [Keys -> [row : Rows, list : Counts]]
  BY DEF PageTyped
<1>2. CASE server' = server
  BY <1>1, <1>2 DEF Rows, Counts
<1>3. ASSUME NEW i \in DOMAIN tasks, Serve(i) 
      PROVE  \A k \in Keys : server[k].row.rev <= server'[k].row.rev /\ server[k].list <= server'[k].list
  <2> DEFINE s == Written(HandlerOf(tasks[i]), server[tasks[i].key])
  <2>1. server' = [server EXCEPT ![tasks[i].key] = s] /\ tasks[i].key \in Keys
    BY <1>3 DEF Serve, TasksSound, TaskSound, TaskType
  <2>2. server[tasks[i].key].row.rev <= s.row.rev /\ server[tasks[i].key].list <= s.list
    BY <1>1, <2>1, WrittenTyped
  <2> HIDE DEF s
  <2> QED
    BY <1>1, <2>1, <2>2 DEF Rows, Counts
<1>4. ASSUME NEW k \in Keys, OthersChange(k)
      PROVE  \A u \in Keys : server[u].row.rev <= server'[u].row.rev /\ server[u].list <= server'[u].list
  <2>1. PICK c \in BOOLEAN :
          server' = [server EXCEPT ![k].row = [server[k].row EXCEPT !.rev = @ + 1, !.closed = c]]
    BY <1>4 DEF OthersChange
  <2> DEFINE r == [server[k].row EXCEPT !.rev = server[k].row.rev + 1, !.closed = c]
  <2>2. r.rev = server[k].row.rev + 1
    BY <1>1 DEF Rows
  <2>3. server' = [server EXCEPT ![k].row = r]
    BY <2>1
  <2> HIDE DEF r
  <2> QED
    BY <1>1, <2>2, <2>3 DEF Rows, Counts
<1> QED
  BY <1>2, <1>3, <1>4 DEF PageStep, Answer, CodeAccepted, ReadMain, ReadList, LoadDone, Refuse, Finish,
     Open, Click, LoadFails, Leave, SubmitCode, CodeRefused, CancelDialog

Grows ==
  \A k \in Keys : server[k].row.rev <= server'[k].row.rev /\ server[k].list <= server'[k].list

(***************************************************************************)
(* What a task read or was answered stays sound while the page is as it    *)
(* was and the server only grows.                                          *)
(***************************************************************************)
LEMMA OwnKept ==
  ASSUME PageTyped, PageTyped', Grows, at \in Keys, UNCHANGED <<at, view, wrote>>,
         NEW t, TaskSound(t), OwnSound(t)
  PROVE  OwnSound(t)'
<1>1. /\ server[at].row.rev <= server'[at].row.rev /\ server[at].list <= server'[at].list
      /\ server[at].row.rev \in Nat /\ server'[at].row.rev \in Nat
      /\ server[at].list \in Nat /\ server'[at].list \in Nat
  BY DEF Grows, PageTyped, Rows, Counts
<1>2. t.stage = "done" => t.main.row.rev \in Nat /\ t.list.list \in Nat
  BY DEF TaskSound, Mains, Besides, Rows, Counts
<1>3. t.stage = "done" /\ ~IsLoad(t) =>
        t.main.row.rev <= server'[at].row.rev /\ t.list.list <= server'[at].list
  BY <1>1, <1>2 DEF OwnSound, HandlerSound
<1> QED
  BY <1>3 DEF OwnSound, LoadSound, HandlerSound, UpToDate, IsLoad

(***************************************************************************)
(* A task changes its state, and the page shows what it did.               *)
(***************************************************************************)
LEMMA CalmSwap ==
  ASSUME PageTyped, PageTyped', TasksSound, PageSound, Grows, UNCHANGED <<at, view, wrote, calm>>,
         NEW i \in DOMAIN tasks, NEW p, Swapped(tasks, tasks', i, i, p), p.mine = tasks[i].mine,
         at \in Keys /\ Undisturbed /\ p.mine => OwnSound(p)'
  PROVE  PageSound'
<1>1. \A j : Mine(j)' <=> Mine(j)
  BY DEF Swapped, Mine
<1>2. ASSUME at \in Keys, Undisturbed PROVE Undisturbed'
  <2>1. ASSUME NEW j, Mine(j)' PROVE OwnSound(tasks[j])'
    <3>1. PICK t : t = tasks'[j]
      OBVIOUS
    <3>2. CASE j = i
      BY <1>2, <2>1, <3>1, <3>2 DEF Swapped, Mine, OwnSound, HandlerSound, LoadSound, UpToDate, IsLoad
    <3>3. CASE j # i
      <4>1. Mine(j) /\ t = tasks[j]
        BY <2>1, <3>1, <3>3 DEF Mine, Swapped
      <4>2. TaskSound(t) /\ OwnSound(t)
        BY <1>2, <4>1 DEF Undisturbed, TasksSound, Mine
      <4>3. OwnSound(t)'
        BY <1>2, <4>2, OwnKept
      <4> QED
        BY <3>1, <4>3 DEF OwnSound, HandlerSound, LoadSound, UpToDate, IsLoad
    <3> QED
      BY <3>2, <3>3
  <2>2. wrote'.rev <= server'[at].row.rev /\ wrote'.list <= server'[at].list
    BY <1>2 DEF Undisturbed, Grows, PageTyped, Rows, Counts
  <2> QED
    BY <1>1, <1>2, <2>1, <2>2 DEF Undisturbed, UpToDate
<1> QED
  BY <1>1, <1>2 DEF PageSound, PageTyped

(***************************************************************************)
(* Tasks end, and what the page shows is up to date if one was its own.    *)
(***************************************************************************)
LEMMA CalmLoss ==
  ASSUME PageTyped, PageTyped', TasksSound, PageSound, Grows, UNCHANGED <<at, view, wrote>>,
         DOMAIN tasks' \subseteq DOMAIN tasks, \A j \in DOMAIN tasks' : tasks'[j] = tasks[j],
         calm' => calm,
         \A j : Mine(j) /\ ~Mine(j)' /\ calm' /\ Undisturbed /\ view # None => UpToDate(view.main, view.list)
  PROVE  PageSound'
<1>1. \A j : Mine(j)' => Mine(j) /\ tasks'[j] = tasks[j]
  BY DEF Mine
<1>2. ASSUME at \in Keys, Undisturbed, calm' PROVE Undisturbed'
  <2>1. ASSUME NEW j, Mine(j)' PROVE OwnSound(tasks[j])'
    <3>1. PICK t : t = tasks'[j]
      OBVIOUS
    <3>2. TaskSound(t) /\ OwnSound(t)
      BY <1>1, <1>2, <2>1, <3>1 DEF Undisturbed, TasksSound, Mine
    <3>3. OwnSound(t)'
      BY <1>2, <3>2, OwnKept
    <3> QED
      BY <3>1, <3>3 DEF OwnSound, HandlerSound, LoadSound, UpToDate, IsLoad
  <2>2. wrote'.rev <= server'[at].row.rev /\ wrote'.list <= server'[at].list
    BY <1>2 DEF Undisturbed, Grows, PageTyped, Rows, Counts
  <2>3. view # None /\ (\A j : ~Mine(j)') => UpToDate(view.main, view.list)
    BY <1>2 DEF Undisturbed
  <2> QED
    BY <1>1, <1>2, <2>1, <2>2, <2>3 DEF Undisturbed, UpToDate
<1> QED
  BY <1>1, <1>2 DEF PageSound, PageTyped

(***************************************************************************)
(* The steps that take a page of one thing at a time to another.           *)
(***************************************************************************)
LEMMA CalmRead ==
  ASSUME PageTyped, PageTyped', TasksSound, PageSound, Grows,
         NEW i \in DOMAIN tasks, ReadMain(i) \/ ReadList(i)
  PROVE  PageSound'
<1>1. UNCHANGED <<at, view, wrote, calm, server>>
  BY DEF ReadMain, ReadList
<1>2. PICK p : /\ Swapped(tasks, tasks', i, i, p) /\ IsLoad(tasks[i]) /\ IsLoad(p)
               /\ p.mine = tasks[i].mine /\ p.key = tasks[i].key
               /\ p.main \in {tasks[i].main, Main(p.key)}
               /\ p.list \in {tasks[i].list, Beside(p.key)}
  BY ReadForm
<1>3. ASSUME at \in Keys, Undisturbed, p.mine PROVE OwnSound(p)'
  <2>1. p.key = at /\ LoadSound(tasks[i])
    BY <1>2, <1>3 DEF Undisturbed, Mine, OwnSound
  <2>2. LoadSound(p)
    BY <1>2, <1>3, <2>1 DEF LoadSound, Undisturbed, Main, Beside
  <2> QED
    BY <1>1, <1>2, <2>1, <2>2 DEF OwnSound, LoadSound, IsLoad
<1> QED
  BY <1>1, <1>2, <1>3, CalmSwap

LEMMA CalmCall ==
  ASSUME PageTyped, PageTyped', TasksSound, PageSound, Grows,
         NEW i \in DOMAIN tasks, Serve(i) \/ Refuse(i)
  PROVE  PageSound'
<1>1. UNCHANGED <<at, view, wrote, calm>>
  BY DEF Serve, Refuse
<1>2. PICK p : /\ Swapped(tasks, tasks', i, i, p) /\ ~IsLoad(tasks[i]) /\ ~IsLoad(p)
               /\ p.mine = tasks[i].mine /\ p.key = tasks[i].key /\ p.what = tasks[i].what
               /\ p.stage = "done" => p.main = Main(p.key)' /\ p.list = Beside(p.key)'
  BY CallForm
<1>3. ASSUME at \in Keys, Undisturbed, p.mine PROVE OwnSound(p)'
  <2>1. p.key = at /\ HandlerSound(tasks[i])
    BY <1>2, <1>3 DEF Undisturbed, Mine, OwnSound
  <2>2. /\ wrote.rev <= server'[at].row.rev /\ wrote.list <= server'[at].list
        /\ server'[at].row.rev \in Nat /\ server'[at].list \in Nat
    BY <1>3 DEF Undisturbed, Grows, PageTyped, Rows, Counts
  <2>3. p.stage = "done" => /\ p.main = [key |-> at, row |-> server'[at].row]
                            /\ p.list = [key |-> at, list |-> server'[at].list]
    BY <1>1, <1>2, <2>1 DEF Main, Beside
  <2>4. p.stage = "done" => /\ p.main.key = at /\ p.main.row.rev = server'[at].row.rev
                            /\ p.list.key = at /\ p.list.list = server'[at].list
    BY <2>3
  <2>5. HandlerSound(p)'
    BY <1>1, <1>2, <2>1, <2>2, <2>4 DEF HandlerSound, UpToDate
  <2> QED
    BY <1>1, <1>2, <2>1, <2>5 DEF OwnSound, IsLoad
<1> QED
  BY <1>1, <1>2, <1>3, CalmSwap

LEMMA CalmLoaded ==
  ASSUME PageTyped, PageTyped', TasksSound, PageSound, Grows,
         NEW i \in DOMAIN tasks, LoadDone(i) \/ LoadFails(i)
  PROVE  PageSound'
<1>1. Gone(tasks, tasks', i) /\ IsLoad(tasks[i]) /\ UNCHANGED <<at, wrote>>
  BY LoadEnds DEF TasksSound, LoadDone, LoadFails
<1>2. /\ Mine(i) /\ \A j : Mine(j)' => Mine(j) /\ j # i
  BY <1>1 DEF Gone, Mine, TasksSound, TaskSound
<1>3. CASE LoadFails(i)
  <2>1. (calm' => calm /\ view = None) /\ UNCHANGED view
    BY <1>3 DEF LoadFails
  <2> QED
    BY <1>1, <2>1, CalmLoss DEF Gone
<1>4. CASE LoadDone(i)
  <2>1. /\ view' = [main |-> tasks[i].main, list |-> tasks[i].list] /\ UNCHANGED <<calm, server>>
        /\ tasks[i].main # None /\ tasks[i].list # None
    BY <1>4 DEF LoadDone
  <2>2. ASSUME at \in Keys, Undisturbed PROVE Undisturbed'
    <3>1. \A j : ~Mine(j)'
      BY <1>2, <2>2 DEF Undisturbed
    <3>2. LoadSound(tasks[i])
      BY <1>1, <1>2, <2>2 DEF Undisturbed, OwnSound
    <3>3. UpToDate(tasks[i].main, tasks[i].list)
      BY <2>1, <3>2 DEF LoadSound, UpToDate
    <3>4. UpToDate(view.main, view.list)'
      <4>1. view'.main = tasks[i].main /\ view'.list = tasks[i].list
        BY <2>1
      <4> QED
        BY <1>1, <3>3, <4>1 DEF UpToDate
    <3> QED
      BY <1>1, <2>1, <2>2, <3>1, <3>4 DEF Undisturbed
  <2> QED
    BY <1>1, <1>2, <2>1, <2>2 DEF PageSound, PageTyped
<1> QED
  BY <1>3, <1>4

LEMMA CalmOpen ==
  ASSUME PageTyped, PageTyped', TasksSound, PageSound, NEW k \in Keys, Open(k)
  PROVE  PageSound'
<1>1. at' = k /\ k # None /\ wrote' = [rev |-> 0, list |-> 0]
  BY PageConstants DEF Open
<1>2. ASSUME calm' PROVE Undisturbed'
  <2>1. \A j : ~Mine(j)
    BY <1>2 DEF Open, AtWork, Mine, PageSound
  <2>2. 0 <= server'[k].row.rev /\ 0 <= server'[k].list /\ wrote'.rev = 0 /\ wrote'.list = 0
    BY <1>1 DEF PageTyped, Rows, Counts
  <2>3. CASE ThisPage.reads = 0 /\ tasks' = tasks
    <3>1. \A j : ~Mine(j)'
      BY <2>1, <2>3 DEF Mine
    <3>2. at = None
      BY <2>3, ThisPageFair DEF Open, PageFair, PageTyped
    <3>3. view' = None
      BY <3>2 DEF Open
    <3> QED
      BY <1>1, <2>2, <3>1, <3>3 DEF Undisturbed
  <2>4. CASE \E n : n \notin DOMAIN tasks /\ Swapped(tasks, tasks', n, n, Load(k, FALSE))
    <3>1. PICK n : n \notin DOMAIN tasks /\ Swapped(tasks, tasks', n, n, Load(k, FALSE))
      BY <2>4
    <3>2. \A j : Mine(j)' => j = n
      BY <2>1, <3>1 DEF Swapped, Mine
    <3>3. Mine(n)' /\ tasks'[n] = Load(k, FALSE)
      BY <3>1 DEF Swapped, Mine, Load
    <3>4. OwnSound(tasks[n])'
      BY <1>1, <3>3 DEF OwnSound, IsLoad, LoadSound, Load
    <3> QED
      BY <1>1, <2>2, <3>2, <3>3, <3>4 DEF Undisturbed
  <2> QED
    BY <2>3, <2>4, OpenForm DEF TasksSound
<1> QED
  BY <1>1, <1>2 DEF PageSound

LEMMA CalmClick ==
  ASSUME PageTyped, PageTyped', TasksSound, PageSound, NEW h \in ThisPage.handlers, Click(h)
  PROVE  PageSound'
<1>1. UNCHANGED <<at, view, server, wrote>> /\ at # None
  BY DEF Click
<1>2. PICK n : /\ n \notin DOMAIN tasks /\ DOMAIN tasks' = DOMAIN tasks \cup {n}
               /\ tasks'[n] = Started(h)
               /\ \A i \in DOMAIN tasks : tasks'[i] = AfterClick(h, tasks[i])
  BY ClickForm
<1>3. HandlerFair(h)
  BY ThisPageFair DEF PageFair, PageTyped
<1>4. ASSUME calm' PROVE Undisturbed'
  <2>1. /\ calm /\ h \notin {HandleDeactivate, HandleResetMfa}
        /\ \A j : ~Mine(j)
    BY <1>4 DEF Click, AtWork, Mine
  <2>2. Undisturbed
    BY <1>1, <2>1 DEF PageSound
  <2>3. \A j : Mine(j)' => j = n
    BY <1>2, <2>1, AfterClickTyped DEF Mine, TasksSound
  <2> DEFINE t == Started(h)
  <2>4. /\ t.key = at /\ t.what = h.name /\ t.what # "load" /\ t.stage # "done" /\ t.mine
        /\ t.what \notin Partial
    BY <1>3, <2>1 DEF Started, HandlerFair
  <2>5. tasks'[n] = t /\ Mine(n)'
    BY <1>2, <2>4 DEF Mine
  <2> HIDE DEF t
  <2>6. OwnSound(tasks[n])'
    BY <1>1, <2>1, <2>2, <2>4, <2>5 DEF OwnSound, IsLoad, HandlerSound, Undisturbed, UpToDate
  <2> QED
    BY <1>1, <2>2, <2>3, <2>5, <2>6 DEF Undisturbed
<1> QED
  BY <1>1, <1>4 DEF PageSound

(***************************************************************************)
(* A handler that finishes on its page leaves it up to date, or its load   *)
(* behind.                                                                 *)
(***************************************************************************)
LEMMA CalmInstalled ==
  ASSUME PageTyped, at \in Keys, Undisturbed, NEW i \in DOMAIN tasks, TasksSound, Finish(i),
         tasks[i].mine, tasks[i].stage = "done", "reload" \notin HandlerOf(tasks[i]).refresh,
         view' # None
  PROVE  UpToDate(view.main, view.list)'
<1> DEFINE t == tasks[i]
           h == HandlerOf(t)
<1>1. TaskSound(t) /\ ~IsLoad(t) /\ t.key = at /\ HandlerSound(t) /\ t.what \notin Partial
  BY DEF Finish, TasksSound, Undisturbed, OwnSound, HandlerSound, Mine
<1>2. /\ t.main.row.rev \in Nat /\ t.list.list \in Nat
  BY <1>1 DEF TaskSound, Mains, Besides, Rows, Counts
<1>3. /\ "main" \in h.writes => "install" \in h.refresh
      /\ "list" \in h.writes => "filter" \in h.refresh
  BY <1>1, HandlerKnown DEF PageTyped, HandlerFair
<1>4. /\ t.main.key = at /\ wrote.rev <= t.main.row.rev
      /\ t.list.key = at /\ wrote.list <= t.list.list
      /\ view # None => /\ view.main.key = at /\ wrote.rev <= view.main.row.rev
                        /\ view.list.key = at /\ wrote.list <= view.list.list
  BY <1>1 DEF HandlerSound, UpToDate
<1>5. view' = Installed(h, t) /\ wrote' = Acknowledged(h, t) /\ at' = at
  BY <1>1 DEF Finish
<1> HIDE DEF h, t
<1>6. /\ wrote'.rev = IF "main" \in h.writes THEN t.main.row.rev ELSE wrote.rev
      /\ wrote'.list = IF "list" \in h.writes THEN t.list.list ELSE wrote.list
  BY <1>5 DEF Acknowledged
<1>7. CASE view = None
  <2>1. view'.main = t.main /\ view'.list = t.list
    BY <1>5, <1>7 DEF Installed
  <2> QED
    BY <1>2, <1>4, <1>5, <1>6, <2>1 DEF UpToDate
<1>8. CASE view # None
  <2>1. /\ view'.main = IF "install" \in h.refresh THEN t.main ELSE view.main
        /\ view'.list = IF "filter" \in h.refresh THEN t.list ELSE view.list
    BY <1>5, <1>8 DEF Installed
  <2> QED
    BY <1>2, <1>3, <1>4, <1>5, <1>6, <1>8, <2>1 DEF UpToDate
<1> QED
  BY <1>7, <1>8

LEMMA CalmFinish ==
  ASSUME PageTyped, PageTyped', TasksSound, PageSound, Grows, NEW i \in DOMAIN tasks, Finish(i)
  PROVE  PageSound'
<1> DEFINE t == tasks[i]
<1>1. UNCHANGED <<at, server, calm>> /\ TaskSound(t) /\ t.key \in Keys
  BY DEF Finish, TasksSound, TaskSound, TaskType
<1>2. CASE ~(t.mine /\ t.stage = "done")
  <2>1. Gone(tasks, tasks', i) /\ UNCHANGED <<view, wrote>> /\ ~IsLoad(t)
    BY <1>2, FinishForm DEF Finish
  <2>2. \A j : Mine(j) /\ ~Mine(j)' /\ Undisturbed /\ view # None => UpToDate(view.main, view.list)
    <3> SUFFICES ASSUME NEW j, Mine(j), ~Mine(j)', Undisturbed, view # None
                 PROVE  UpToDate(view.main, view.list)
      OBVIOUS
    <3>1. j = i
      BY <2>1 DEF Gone, Mine
    <3> QED
      BY <2>1, <3>1 DEF Undisturbed, OwnSound, HandlerSound
  <2> QED
    BY <1>1, <2>1, <2>2, CalmLoss DEF Gone
<1>3. CASE t.mine /\ t.stage = "done"
  <2>1. Mine(i)
    BY <1>3 DEF Mine
  <2>2. at \in Keys
    BY <2>1 DEF PageSound, PageTyped
  <2>3. ASSUME Undisturbed PROVE Undisturbed'
    <3>1. OwnSound(t) /\ ~IsLoad(t) /\ t.key = at /\ \A j : Mine(j) => j = i
      BY <2>1, <2>3 DEF Undisturbed, OwnSound, Finish
    <3>2. wrote'.rev <= server'[at].row.rev /\ wrote'.list <= server'[at].list
      <4>1. wrote' = Acknowledged(HandlerOf(t), t)
        BY <1>3, <3>1 DEF Finish
      <4>2. /\ t.main.row.rev <= server[at].row.rev /\ t.list.list <= server[at].list
            /\ wrote.rev <= server[at].row.rev /\ wrote.list <= server[at].list
        BY <1>3, <2>3, <3>1 DEF OwnSound, HandlerSound, Undisturbed
      <4> QED
        BY <1>1, <4>1, <4>2 DEF Acknowledged
    <3>3. CASE Gone(tasks, tasks', i)
      <4>1. \A j : ~Mine(j)'
        BY <3>1, <3>3 DEF Gone, Mine
      <4>2. "reload" \notin HandlerOf(t).refresh
        <5>1. ~("reload" \in HandlerOf(t).refresh /\ Gone(tasks, tasks', i))
          <6>1. ASSUME NEW n, NEW ends, Swapped(tasks, tasks', i, n, Load(t.key, ends))
                PROVE  ~Gone(tasks, tasks', i)
            BY <6>1, <4>1 DEF Swapped, Mine, Load
          <6> QED
            BY <1>3, <6>1, FinishForm
        <5> QED
          BY <3>3, <5>1
      <4>3. view' # None => UpToDate(view.main, view.list)'
        BY <1>3, <2>2, <2>3, <4>2, CalmInstalled
      <4> QED
        BY <1>1, <3>2, <4>1, <4>3 DEF Undisturbed
    <3>4. CASE ~Gone(tasks, tasks', i)
      <4>1. PICK n : \E ends \in BOOLEAN : Swapped(tasks, tasks', i, n, Load(t.key, ends))
        BY <3>4, FinishForm
      <4>2. PICK ends \in BOOLEAN : Swapped(tasks, tasks', i, n, Load(t.key, ends))
        BY <4>1
      <4>3. /\ tasks'[n] = Load(t.key, ends) /\ Mine(n)' /\ \A j : Mine(j)' => j = n
        BY <3>1, <4>2 DEF Swapped, Mine, Load
      <4>4. OwnSound(tasks[n])'
        BY <1>1, <3>1, <4>3 DEF OwnSound, IsLoad, LoadSound, Load
      <4> QED
        BY <1>1, <3>2, <4>3, <4>4 DEF Undisturbed
    <3> QED
      BY <3>3, <3>4
  <2> QED
    BY <1>1, <2>2, <2>3, PageConstants DEF PageSound
<1> QED
  BY <1>2, <1>3

(***************************************************************************)
(* The steps about all tasks.                                              *)
(***************************************************************************)
LEMMA CalmLeave ==
  ASSUME TasksSound, Leave
  PROVE  PageSound'
<1>1. \A j \in DOMAIN tasks' : tasks'[j] = [tasks[j] EXCEPT !.mine = FALSE] /\ tasks[j] \in TaskType
  BY LeaveForm DEF TasksSound, TaskSound
<1>2. \A j \in DOMAIN tasks' : ~tasks'[j].mine
  BY <1>1 DEF TaskType
<1> QED
  BY <1>2 DEF PageSound, Mine, Leave

LEMMA CalmCancel ==
  ASSUME PageTyped, PageTyped', TasksSound, PageSound, Grows, CancelDialog
  PROVE  PageSound'
<1>1. UNCHANGED <<at, view, wrote, calm>>
  BY DEF CancelDialog
<1>2. ASSUME NEW j, Mine(j), ~Mine(j)', Undisturbed, view # None
      PROVE  UpToDate(view.main, view.list)
  <2>1. tasks[j].stage = "waiting" /\ TaskSound(tasks[j])
    BY <1>2, CancelForm DEF Mine, NotWaiting, TasksSound
  <2> QED
    BY <1>2, <2>1 DEF TaskSound, Undisturbed, OwnSound, HandlerSound
<1> QED
  BY <1>1, <1>2, CalmLoss, CancelForm

LEMMA CalmResolve ==
  ASSUME PageTyped, PageTyped', TasksSound, PageSound, Grows, CodeAccepted
  PROVE  PageSound'
<1>1. UNCHANGED <<at, view, wrote, calm, server>>
  BY DEF CodeAccepted
<1>2. \A j \in DOMAIN tasks : tasks[j] \in TaskType
  BY DEF TasksSound, TaskSound
<1>3. DOMAIN tasks' = DOMAIN tasks /\ \A j \in DOMAIN tasks :
        /\ tasks'[j].mine = tasks[j].mine /\ tasks'[j].key = tasks[j].key
        /\ tasks'[j].what = tasks[j].what /\ tasks'[j].main = tasks[j].main
        /\ tasks'[j].list = tasks[j].list
        /\ tasks'[j].stage = "done" => tasks[j].stage = "done"
  BY <1>2, ResolveForm DEF TaskType
<1>4. \A j : Mine(j)' <=> Mine(j)
  BY <1>3 DEF Mine
<1>5. ASSUME NEW j, Mine(j), OwnSound(tasks[j]) PROVE OwnSound(tasks[j])'
  BY <1>1, <1>3, <1>5 DEF OwnSound, IsLoad, LoadSound, HandlerSound, UpToDate, Mine
<1> QED
  BY <1>1, <1>4, <1>5 DEF PageSound, Undisturbed, UpToDate

(***************************************************************************)
(* Every step of the page keeps it sound.                                  *)
(***************************************************************************)
LEMMA CalmStep ==
  ASSUME PageTyped, TasksSound, PageSound, PageStep, UNCHANGED part
  PROVE  PageSound'
<1>1. PageTyped'
  BY PageTypedStep
<1>2. Grows
  BY ServerGrows DEF Grows
<1>3. CASE SubmitCode \/ CodeRefused \/ \E k \in Keys : OthersChange(k)
  <2>1. UNCHANGED <<at, view, wrote, calm, tasks>>
    BY <1>3 DEF SubmitCode, CodeRefused, OthersChange
  <2> QED
    BY <1>1, <1>2, <2>1, CalmLoss DEF Mine
<1> QED
  BY <1>1, <1>2, <1>3, CalmRead, CalmCall, CalmLoaded, CalmOpen, CalmClick, CalmFinish, CalmLeave,
     CalmCancel, CalmResolve DEF PageStep, Answer

-----------------------------------------------------------------------------
(* The page *)

IInv == PageTyped /\ TasksSound /\ WaitersSound /\ HiddenSound /\ OneRun /\ PreviewIsCurrent /\ PageSound

LEMMA InitInv == Init => IInv
<1> SUFFICES ASSUME Init PROVE IInv
  OBVIOUS
<1>1. part \in DOMAIN PageOf /\ PageFair(ThisPage)
  BY ThisPageFair DEF Init
<1>2. at \in Keys /\ at # None /\ view = None
  BY PageConstants DEF Init
<1>3. PageTyped
  <2>1. PICK c \in BOOLEAN :
          server = [k \in Keys |-> [row |-> [rev |-> 1, current |-> 2, closed |-> c, voted |-> FALSE],
                                    list |-> 2]]
    BY DEF Init
  <2>2. server \in [Keys -> [row : Rows, list : Counts]]
    BY <2>1 DEF Rows, Counts
  <2> QED
    BY <1>1, <1>2, <2>2, PageConstants DEF PageTyped, Init, Hides
<1>4. Pool(<< >>) /\ DOMAIN << >> = {}
  BY FS_EmptySet DEF Pool
<1>5. \/ DOMAIN tasks = {} /\ Pool(tasks)
      \/ \E n : Pool(tasks) /\ DOMAIN tasks = {n} /\ tasks[n] = Load(at, FALSE)
  <2>1. CASE tasks = << >>
    BY <1>4, <2>1
  <2>2. CASE tasks # << >>
    <3>1. tasks = With(<< >>, Load(at, FALSE))
      BY <2>2 DEF Init, WithLoad
    <3>2. PICK n : n \notin {} /\ Swapped(<< >>, tasks, n, n, Load(at, FALSE))
      BY <1>4, <3>1, Added
    <3> QED
      BY <1>4, <3>2 DEF Swapped
  <2> QED
    BY <2>1, <2>2
<1>6. TasksSound
  BY <1>2, <1>5, LoadTyped DEF TasksSound
<1>7. WaitersSound
  <2>1. \A i : ~Waiting(i) /\ ~Lost(i)
    <3>1. Load(at, FALSE).stage = "sent"
      BY DEF Load
    <3> QED
      BY <1>5, <3>1 DEF Waiting, Lost
  <2> QED
    BY <2>1 DEF WaitersSound, Init
<1>8. HiddenSound
  <2>1. CASE Hides
    <3>1. ThisPage.reads # 0
      BY <1>1, <2>1 DEF PageFair, Hides
    <3>2. tasks = With(<< >>, Load(at, FALSE))
      BY <3>1 DEF Init, WithLoad
    <3>3. PICK n : Swapped(<< >>, tasks, n, n, Load(at, FALSE))
      BY <1>4, <3>2, Added
    <3>4. n \in DOMAIN tasks /\ IsLoad(tasks[n])
      BY <3>3 DEF Swapped, Load, IsLoad
    <3> QED
      BY <3>4 DEF HiddenSound, LoadRuns
  <2>2. CASE ~Hides
    BY <2>2 DEF Init, HiddenSound
  <2> QED
    BY <2>1, <2>2
<1>9. OneRun /\ PreviewIsCurrent
  <2>1. PreviewProps = None
    BY <1>2 DEF PreviewProps, Shown
  <2> QED
    BY <1>4, <2>1 DEF Init, OneRun, PreviewIsCurrent, Props
<1>10. PageSound
  <2>1. wrote.rev = 0 /\ wrote.list = 0 /\ server[at].row.rev >= 0 /\ server[at].list >= 0
    BY <1>2, <1>3 DEF Init, PageTyped, Rows, Counts
  <2>2. LoadSound(Load(at, FALSE)) /\ IsLoad(Load(at, FALSE)) /\ Load(at, FALSE).key = at
    BY DEF LoadSound, IsLoad, Load
  <2>3. \A i, j : Mine(i) /\ Mine(j) => i = j
    BY <1>5 DEF Mine
  <2>4. \A i : Mine(i) => OwnSound(tasks[i])
    BY <1>5, <2>2 DEF Mine, OwnSound
  <2>5. wrote.rev <= server[at].row.rev /\ wrote.list <= server[at].list
    BY <1>2, <1>3, <2>1 DEF PageTyped, Rows, Counts
  <2> QED
    BY <1>2, <2>3, <2>4, <2>5 DEF PageSound, Undisturbed
<1> QED
  BY <1>3, <1>6, <1>7, <1>8, <1>9, <1>10 DEF IInv

LEMMA StepInv == IInv /\ [Next]_vars => IInv'
<1> SUFFICES ASSUME IInv, [Next]_vars PROVE IInv'
  OBVIOUS
<1>1. CASE PageStep /\ UNCHANGED part /\ PreviewEffect
  <2>1. PageTyped' /\ TasksSound' /\ WaitersSound' /\ HiddenSound' /\ PageSound'
    BY <1>1, PageTypedStep, TasksStep, WaitStep, HiddenStep, CalmStep DEF IInv
  <2> QED
    BY <1>1, <2>1, EffectStep DEF IInv
<1>2. ASSUME UNCHANGED <<part, pageVars>> PROVE PageTyped' /\ TasksSound' /\ WaitersSound' /\ HiddenSound' /\ PageSound'
  <2>1. PageTyped'
    BY <1>2 DEF IInv, PageTyped, pageVars
  <2>2. TasksSound'
    BY <1>2, TasksKept DEF IInv, TasksSound, pageVars
  <2>3. WaitersSound'
    <3>1. UNCHANGED <<part, tasks, dialog>>
      BY <1>2 DEF pageVars
    <3>2. WaitersSound
      BY DEF IInv
    <3> QED
      BY <3>1, <3>2 DEF WaitersSound, Waiting, Lost, Holds, ThisPage
  <2>4. HiddenSound'
    BY <1>2 DEF IInv, HiddenSound, LoadRuns, IsLoad, pageVars
  <2>5. PageSound'
    BY <1>2 DEF IInv, PageSound, Undisturbed, OwnSound, LoadSound, HandlerSound, UpToDate, IsLoad, Mine,
       pageVars
  <2> QED
    BY <2>1, <2>2, <2>3, <2>4, <2>5
<1>3. CASE PreviewStep /\ UNCHANGED <<part, pageVars>>
  BY <1>2, <1>3, PreviewRuns DEF IInv
<1>4. CASE UNCHANGED vars
  <2>1. OneRun'
    BY <1>4 DEF IInv, OneRun, vars, previewVars
  <2>2. PreviewIsCurrent'
    BY <1>4 DEF IInv, PreviewIsCurrent, PreviewProps, CurrentVersion, Shown, vars, previewVars, pageVars
  <2> QED
    BY <1>2, <1>4, <2>1, <2>2 DEF IInv, vars
<1> QED
  BY <1>1, <1>3, <1>4 DEF Next

(***************************************************************************)
(* The inductive invariant holds of every behaviour.                       *)
(***************************************************************************)
THEOREM Invariance == Spec => []IInv
BY InitInv, StepInv, PTL DEF Spec

(***************************************************************************)
(* Every variable has its type, and a page never shows a record without    *)
(* the list beside it, on every page and for any keys and budgets.         *)
(***************************************************************************)
THEOREM TypeCorrect == Spec => []TypeOK
<1>1. IInv => TypeOK
  BY DEF IInv, TypeOK, PageTyped, TasksSound, TaskSound, TaskType, Names, OneRun
<1> QED
  BY <1>1, Invariance, PTL

(***************************************************************************)
(* Requests for a code overwrite each other's resolver, whatever buttons   *)
(* are reached behind the dialog and on whatever page; no handler that     *)
(* disables the buttons of the page is ever the one that lost.             *)
(***************************************************************************)
THEOREM NoButtonIsLost == Spec => []NoButtonLost
<1>1. IInv => NoButtonLost
  BY DEF IInv, WaitersSound, Waiting, Lost, NoButtonLost
<1> QED
  BY <1>1, Invariance, PTL

\* Only the spinner over an empty list can outlast every load.
SpinnerHasLoad == Spinning /\ ThisPage.spinner # "empty" => LoadRuns

(***************************************************************************)
(* A page hidden by its spinner has a load that will show it, whichever of *)
(* its loads overtook each other and whatever page was left and opened     *)
(* again: only the list of grants can spin with none.                      *)
(***************************************************************************)
THEOREM SpinnersHaveLoads == Spec => []SpinnerHasLoad
<1>1. IInv => SpinnerHasLoad
  BY DEF IInv, HiddenSound, SpinnerHasLoad, Spinning
<1> QED
  BY <1>1, Invariance, PTL

(***************************************************************************)
(* The preview is of the version the page names, and holds one object URL, *)
(* however many effects were overtaken.                                    *)
(***************************************************************************)
THEOREM PreviewFollows == Spec => []PreviewIsCurrent
<1>1. IInv => PreviewIsCurrent
  BY DEF IInv
<1> QED
  BY <1>1, Invariance, PTL

(***************************************************************************)
(* A page at rest, whose user did one thing at a time, shows what its own  *)
(* handlers wrote, however often the server's rows change.                 *)
(***************************************************************************)
THEOREM WritesAreRead == Spec => []ReadYourWrites
<1>1. ASSUME IInv PROVE ReadYourWrites
  <2> SUFFICES ASSUME calm, at # None, view # None, ~AtWork
               PROVE  /\ view.main.key = at /\ view.main.row.rev >= wrote.rev
                      /\ view.list.key = at /\ view.list.list >= wrote.list
    BY DEF ReadYourWrites
  <2>1. UpToDate(view.main, view.list)
    BY <1>1 DEF IInv, PageSound, Undisturbed, AtWork, Mine
  <2>2. /\ view.main.row.rev \in Nat /\ view.list.list \in Nat /\ wrote.rev \in Nat /\ wrote.list \in Nat
    BY <1>1 DEF IInv, PageTyped, Mains, Besides, Rows, Counts
  <2> QED
    BY <2>1, <2>2 DEF UpToDate
<1> QED
  BY <1>1, Invariance, PTL

=============================================================================
