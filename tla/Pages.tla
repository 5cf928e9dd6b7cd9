------------------------------- MODULE Pages -------------------------------
(***************************************************************************)
(* One browser tab of the web client on one of its pages: what the page    *)
(* shows, its load whenever the key in its address changes (never          *)
(* cancelled), the handlers behind its buttons, the step-up dialog that    *)
(* every page shares, and the preview inside the document page.            *)
(*                                                                         *)
(* A page is data: how many reads its load makes, when it shows a spinner, *)
(* and its handlers.  A handler is data too: when its button is offered,   *)
(* whether it asks for a step-up code, whether it disables the page's      *)
(* buttons, how it brings its result onto the page, and what it writes.    *)
(* The user may do what the page offers; one whose role lacks a permission *)
(* is drawn fewer buttons and does less.                                   *)
(***************************************************************************)
EXTENDS Naturals, FiniteSets, Functions

CONSTANTS
    Keys,           \* ids in the address, or the criteria of a list
    None,           \* elsewhere, nothing shown, not read yet
    ClickBudget,    \* handlers the user starts
    EventBudget     \* changes of the address, failed calls and wrong codes, and
                    \* changes made by other users

ASSUME PageConstants ==
    /\ Keys # {} /\ None \notin Keys
    /\ ClickBudget \in Nat /\ EventBudget \in Nat

VARIABLES
    part,           \* the page the tab works on
    at,             \* the key in the address, None when the tab is elsewhere
    view,           \* what the page shows
    loading,        \* a load hides the page
    tasks,          \* loads and handlers in progress, numbered
    dialog,         \* the step-up dialog
    server,         \* what the server holds under each key
    preview,        \* the document preview: its properties and what it shows
    runs,           \* preview effects in progress, numbered
    urls,           \* object URLs created and not revoked
    wrote,          \* what the page's own handlers wrote, as the answers told it
    calm,           \* one thing at a time, no failed reload, no partial refresh
    left            \* what is left of the budgets

pageVars == <<at, view, loading, tasks, dialog, server, wrote, calm, left>>
previewVars == <<preview, runs, urls>>
vars == <<part, pageVars, previewVars>>

-----------------------------------------------------------------------------
(* The handlers.  "needs" is read from the page when the button is drawn   *)
(* and from the row when the server decides.                               *)

Handler(name, needs, stepUp, busy, refresh, writes) ==
    [name |-> name, needs |-> needs, stepUp |-> stepUp, busy |-> busy,
     refresh |-> refresh, writes |-> writes]

HandleSeal == Handler("handleSeal", "open", TRUE, FALSE, {"install"}, {"main", "close"})
HandleRestore == Handler("handleRestore", "open", FALSE, FALSE, {"install", "reload"}, {"main", "list", "newest"})
AddVersion == Handler("addVersion", "open", FALSE, FALSE, {"reload"}, {"main", "list", "newest"})
RunCheck == Handler("run", "always", FALSE, TRUE, {"install"}, {"main"})
HandleGrant == Handler("handleGrant", "always", FALSE, TRUE, {"reload"}, {"main"})
HandleRevoke == Handler("handleRevoke", "any", FALSE, FALSE, {"reload"}, {"main"})

HandleApprove == Handler("handleApprove", "vote", TRUE, TRUE, {"reload"}, {"main", "vote"})
HandleObject == Handler("handleObject", "vote", FALSE, TRUE, {"reload"}, {"main", "vote"})
HandleExecute == Handler("handleExecute", "open", TRUE, TRUE, {"reload"}, {"main", "close"})

UpdateField == Handler("updateField", "any", TRUE, FALSE, {"install"}, {"main"})
HandleDeactivate == Handler("handleDeactivate", "open", TRUE, FALSE, {"install"}, {"main", "list", "close"})
HandleResetMfa == Handler("handleResetMfa", "any", FALSE, FALSE, {}, {"main", "list"})
HandleRevokeSession == Handler("handleRevokeSession", "any", TRUE, FALSE, {"filter"}, {"list"})

HandleStatusChange == Handler("handleStatusChange", "any", FALSE, FALSE, {"install"}, {"main"})
PlaceLegalHold == Handler("placeLegalHold", "open", TRUE, TRUE, {"install"}, {"main", "close"})
ReleaseLegalHold == Handler("releaseLegalHold", "closed", TRUE, TRUE, {"install"}, {"main", "reopen"})
HandleRemoveOfficer == Handler("handleRemoveOfficer", "any", FALSE, FALSE, {"install"}, {"main"})
UploadDocument == Handler("upload", "any", FALSE, FALSE, {"reload"}, {"main", "list"})
AssignOfficer == Handler("assign", "any", FALSE, FALSE, {"reload"}, {"main"})

SubmitComment == Handler("submit", "always", FALSE, TRUE, {"reload"}, {"main"})
SaveEdit == Handler("saveEdit", "any", FALSE, FALSE, {"reload"}, {"main"})
DeleteComment == Handler("handleDelete", "any", FALSE, FALSE, {"reload"}, {"main"})

NewCase == Handler("newCase", "always", FALSE, FALSE, {"reload"}, {"main"})
FileProposal == Handler("fileProposal", "always", FALSE, FALSE, {"reload"}, {"main"})
NewUser == Handler("newUser", "always", FALSE, FALSE, {"reload"}, {"main"})
HandleVerify == Handler("handleVerify", "always", FALSE, TRUE, {}, {})

(* The pages: the reads of a load, when a spinner is shown ("load": until  *)
(* the load has ended; "empty": as long as there is nothing to show; or    *)
(* never), and the handlers its buttons start.  A page stays mounted when  *)
(* the key in its address changes; a panel goes with the spinner of the    *)
(* page around it.                                                         *)

Page(reads, handlers) == [reads |-> reads, spinner |-> "load", stays |-> TRUE, handlers |-> handlers]
Panel(reads, spinner, handlers) == [reads |-> reads, spinner |-> spinner, stays |-> FALSE, handlers |-> handlers]

VersionsTab == {HandleRestore}
DocumentDetail == Page(2, {HandleSeal, AddVersion} \cup VersionsTab)
IntegrityTab == Panel(0, "never", {RunCheck})
CustodyTab == Panel(1, "load", {})
AccessTab == Panel(1, "empty", {HandleGrant, HandleRevoke})

VotePanel == {HandleApprove, HandleObject, HandleExecute}
ProposalDetail == Page(1, VotePanel)

ProfileCard == {HandleDeactivate, UpdateField, HandleResetMfa}
UserDetail == Page(2, ProfileCard \cup {HandleRevokeSession})

CaseSidebar == {HandleStatusChange, AssignOfficer, HandleRemoveOfficer, PlaceLegalHold, ReleaseLegalHold}
CaseDetail == Page(2, {UploadDocument} \cup CaseSidebar)

CommentsThread == Panel(1, "load", {SubmitComment, SaveEdit, DeleteComment})

CasesList == Page(1, {NewCase})
ProposalsList == Page(1, {FileProposal})
UsersList == Page(1, {NewUser})
AuditLog == Page(1, {HandleVerify})
SearchPage == Page(1, {})

PageOf ==
    [document |-> DocumentDetail, integrity |-> IntegrityTab, custody |-> CustodyTab,
     access |-> AccessTab, proposal |-> ProposalDetail, user |-> UserDetail,
     case |-> CaseDetail, comments |-> CommentsThread, cases |-> CasesList,
     proposals |-> ProposalsList, users |-> UsersList, audit |-> AuditLog,
     search |-> SearchPage]

ThisPage == PageOf[part]
Hides == ThisPage.spinner = "load"
HandlerOf(task) == CHOOSE h \in ThisPage.handlers : h.name = task.what

-----------------------------------------------------------------------------
(* Rows and what a page shows of them: the main record with its key, and   *)
(* the list beside it (versions, sessions, documents) with its key.        *)

Main(k) == [key |-> k, row |-> server[k].row]
Beside(k) == [key |-> k, list |-> server[k].list]

Shown == view # None /\ ~loading

\* The condition under which a button is drawn, or the server agrees.
Agrees(needs, row) ==
    CASE needs \in {"always", "any"} -> TRUE
      [] needs = "open" -> ~row.closed
      [] needs = "closed" -> row.closed
      [] needs = "vote" -> ~row.closed /\ ~row.voted

Offered(h) == h.needs = "always" \/ (Shown /\ Agrees(h.needs, view.main.row))

\* The version the document page previews: the current one, or the first of the
\* list when the list does not have it.
CurrentVersion ==
    IF view.main.key = view.list.key /\ view.main.row.current <= view.list.list
    THEN [key |-> view.main.key, no |-> view.main.row.current]
    ELSE [key |-> view.list.key, no |-> view.list.list]

PreviewProps ==
    IF part = "document" /\ at # None /\ Shown
    THEN [id |-> at, version |-> CurrentVersion]
    ELSE None

\* The rows a handler leaves behind.  A version added or restored is the newest
\* and the current one.
Written(h, s) ==
    LET bump(what, n) == IF what \in h.writes THEN n + 1 ELSE n
        list == bump("list", s.list)
    IN  [row |-> [rev |-> bump("main", s.row.rev),
                  current |-> IF "newest" \in h.writes THEN list ELSE s.row.current,
                  closed |-> "close" \in h.writes \/ (s.row.closed /\ "reopen" \notin h.writes),
                  voted |-> s.row.voted \/ "vote" \in h.writes],
         list |-> list]

-----------------------------------------------------------------------------
(* Promises in progress have numbers, and settle in no order.              *)

Unused(ps) == CHOOSE n \in 1 .. Cardinality(DOMAIN ps) + 1 : n \notin DOMAIN ps
With(ps, p) == [n \in DOMAIN ps \cup {Unused(ps)} |-> IF n \in DOMAIN ps THEN ps[n] ELSE p]
Without(ps, n) == Restrict(ps, DOMAIN ps \ {n})

-----------------------------------------------------------------------------
(* Tasks.  "mine" says that the component which started it is still there. *)

Load(k, ends) ==
    [what |-> "load", key |-> k, mine |-> TRUE, stage |-> "sent", ends |-> ends,
     main |-> None, list |-> None]

Started(h) ==
    [what |-> h.name, key |-> at, mine |-> TRUE, stage |-> IF h.stepUp THEN "waiting" ELSE "sent",
     ends |-> h.busy, main |-> None, list |-> None]

IsLoad(task) == task.what = "load"
NotWaiting(task) == task.stage # "waiting"

\* Each handler that asks for a code overwrites the one resolver there is: the one
\* that waited before it is lost, neither resolved nor rejected any more.
Overwritten(ts) ==
    [i \in DOMAIN ts |-> IF NotWaiting(ts[i]) THEN ts[i] ELSE [ts[i] EXCEPT !.stage = "lost"]]

\* The page has something of its own in progress.
AtWork == \E i \in DOMAIN tasks : tasks[i].mine

\* A handler that disables buttons does so until its finally, after the load it
\* awaits.
Holds(task) == task.mine /\ task.ends
Busy == \E i \in DOMAIN tasks : Holds(tasks[i])

EnabledAlways(h) == TRUE
Enabled(h) == h.busy => ~Busy

WithLoad(ts, k, ends) == IF ThisPage.reads = 0 THEN ts ELSE With(ts, Load(k, ends))

Spend(budget) == left[budget] > 0 /\ left' = [left EXCEPT ![budget] = @ - 1]

\* The address changes to k: a page that stays mounted keeps what it shows.
Open(k) ==
    /\ k # at /\ (at = None \/ ThisPage.stays) /\ Spend("event")
    /\ at' = k
    /\ tasks' = WithLoad(tasks, k, FALSE)
    /\ loading' = Hides
    /\ view' = IF at = None THEN None ELSE view
    /\ calm' = (at = None \/ (calm /\ ~AtWork))
    /\ wrote' = [rev |-> 0, list |-> 0]
    /\ UNCHANGED <<dialog, server>>

\* The tab goes elsewhere, by the menu, the Back button or an expired session:
\* what the handlers of the page still do, they do to the server only.
Leave ==
    /\ at # None /\ at' = None
    /\ view' = None /\ loading' = FALSE
    /\ tasks' = LET handlers == RestrictValues(tasks, LAMBDA t : ~IsLoad(t))
                IN  [i \in DOMAIN handlers |-> [handlers[i] EXCEPT !.mine = FALSE]]
    /\ calm' = TRUE /\ wrote' = [rev |-> 0, list |-> 0]
    /\ UNCHANGED <<dialog, server, left>>

\* An open dialog hides the buttons of the page from the mouse only: the keyboard
\* still reaches them.
Click(h) ==
    /\ at # None /\ h \in ThisPage.handlers /\ Offered(h) /\ Enabled(h)
    /\ Spend("click")
    /\ tasks' = With(IF h.stepUp THEN Overwritten(tasks) ELSE tasks, Started(h))
    /\ dialog' = [dialog EXCEPT !.open = @ \/ h.stepUp]
    /\ calm' = (calm /\ ~AtWork /\ h \notin {HandleDeactivate, HandleResetMfa})
    /\ UNCHANGED <<at, view, loading, server, wrote>>

-----------------------------------------------------------------------------
(* The step-up dialog.  Its state outlives the page that opened it.        *)

SubmitCode ==
    /\ dialog.open /\ ~dialog.busy
    /\ dialog' = [open |-> TRUE, busy |-> TRUE]
    /\ UNCHANGED <<at, view, loading, tasks, server, wrote, calm, left>>

\* The dialog closes and whichever request for a code came last is resolved, also
\* if another was open when the code was typed.
Resolved(ts) ==
    [i \in DOMAIN ts |-> IF NotWaiting(ts[i]) THEN ts[i]
                         ELSE [ts[i] EXCEPT !.stage = "sent"]]
CodeAccepted ==
    /\ dialog.busy
    /\ dialog' = [open |-> FALSE, busy |-> FALSE]
    /\ tasks' = Resolved(tasks)
    /\ UNCHANGED <<at, view, loading, server, wrote, calm, left>>

CodeRefused ==
    /\ dialog.busy /\ Spend("event")
    /\ dialog' = [dialog EXCEPT !.busy = FALSE]
    /\ UNCHANGED <<at, view, loading, tasks, server, wrote, calm>>

\* A handler whose request for a code is rejected ends.
Rejected(ts) == RestrictValues(ts, NotWaiting)
CancelDialog ==
    /\ dialog.open
    /\ dialog' = [dialog EXCEPT !.open = FALSE]
    /\ tasks' = Rejected(tasks)
    /\ UNCHANGED <<at, view, loading, server, wrote, calm, left>>

-----------------------------------------------------------------------------
(* Calls and their answers.                                                *)

ReadMain(i) ==
    /\ IsLoad(tasks[i]) /\ tasks[i].main = None
    /\ tasks' = [tasks EXCEPT ![i].main = Main(tasks[i].key),
                              ![i].list = IF ThisPage.reads = 1 THEN Beside(tasks[i].key) ELSE @]
    /\ UNCHANGED <<at, view, loading, dialog, server, wrote, calm, left>>

ReadList(i) ==
    /\ IsLoad(tasks[i]) /\ tasks[i].list = None /\ ThisPage.reads = 2
    /\ tasks' = [tasks EXCEPT ![i].list = Beside(tasks[i].key)]
    /\ UNCHANGED <<at, view, loading, dialog, server, wrote, calm, left>>

LoadDone(i) ==
    /\ IsLoad(tasks[i]) /\ tasks[i].main # None /\ tasks[i].list # None
    /\ view' = [main |-> tasks[i].main, list |-> tasks[i].list]
    /\ loading' = FALSE
    /\ tasks' = Without(tasks, i)
    /\ UNCHANGED <<at, dialog, server, wrote, calm, left>>

LoadFails(i) ==
    /\ IsLoad(tasks[i]) /\ Spend("event")
    /\ loading' = FALSE
    /\ tasks' = Without(tasks, i)
    /\ calm' = (calm /\ view = None)
    /\ UNCHANGED <<at, view, dialog, server, wrote>>

\* The server carries the call out, and the answer may be lost on its way back.
Serve(i) ==
    /\ ~IsLoad(tasks[i]) /\ tasks[i].stage = "sent"
    /\ LET h == HandlerOf(tasks[i])
           k == tasks[i].key
           s == Written(h, server[k])
       IN  /\ Agrees(h.needs, server[k].row)
           /\ server' = [server EXCEPT ![k] = s]
           /\ \/ /\ tasks' = [tasks EXCEPT ![i].stage = "done",
                                           ![i].main = [key |-> k, row |-> s.row],
                                           ![i].list = [key |-> k, list |-> s.list]]
                 /\ UNCHANGED left
              \/ tasks' = [tasks EXCEPT ![i].stage = "refused"] /\ Spend("event")
    /\ UNCHANGED <<at, view, loading, dialog, wrote, calm>>

Refuse(i) ==
    /\ ~IsLoad(tasks[i]) /\ tasks[i].stage = "sent"
    /\ IF Agrees(HandlerOf(tasks[i]).needs, server[tasks[i].key].row)
       THEN Spend("event") ELSE UNCHANGED left
    /\ tasks' = [tasks EXCEPT ![i].stage = "refused"]
    /\ UNCHANGED <<at, view, loading, dialog, server, wrote, calm>>

\* What the handler's answer changes on the page at once.
InstalledBare(h, task) ==
    IF view = None THEN IF "install" \in h.refresh THEN [main |-> task.main, list |-> None] ELSE None
    ELSE [main |-> IF "install" \in h.refresh THEN task.main ELSE view.main,
          list |-> IF "filter" \in h.refresh THEN task.list ELSE view.list]
Installed(h, task) ==
    IF view = None THEN IF "install" \in h.refresh THEN [main |-> task.main, list |-> task.list] ELSE None
    ELSE [main |-> IF "install" \in h.refresh THEN task.main ELSE view.main,
          list |-> IF "filter" \in h.refresh THEN task.list ELSE view.list]

\* What the page now knows to have been written.
Acknowledged(h, task) ==
    [rev |-> IF "main" \in h.writes THEN task.main.row.rev ELSE wrote.rev,
     list |-> IF "list" \in h.writes THEN task.list.list ELSE wrote.list]

\* The load a handler starts afterwards is the one of the page it was started on.
NeverReloads(h) == FALSE
Reloads(h) == "reload" \in h.refresh

\* Its catch and finally run whatever the answer is.
OverWhenDone(task) == task.stage = "done"
Over(task) == task.stage \in {"done", "refused"}

Finish(i) ==
    /\ ~IsLoad(tasks[i]) /\ Over(tasks[i])
    /\ LET task == tasks[i]
           h == HandlerOf(task)
           good == task.mine /\ task.stage = "done"
       IN  /\ view' = IF good THEN Installed(h, task) ELSE view
           /\ tasks' = IF good /\ Reloads(h)
                       THEN WithLoad(Without(tasks, i), task.key, h.busy)
                       ELSE Without(tasks, i)
           /\ loading' = (loading \/ (good /\ Reloads(h) /\ Hides))
           /\ wrote' = IF good /\ task.key = at THEN Acknowledged(h, task) ELSE wrote
    /\ UNCHANGED <<at, dialog, server, calm, left>>

\* Another user changes the row.
OthersChange(k) ==
    /\ Spend("event")
    /\ \E c \in BOOLEAN :
          server' = [server EXCEPT ![k].row = [server[k].row EXCEPT !.rev = @ + 1, !.closed = c]]
    /\ UNCHANGED <<at, view, loading, tasks, dialog, wrote, calm>>

-----------------------------------------------------------------------------
(* The preview effect: it starts anew whenever its properties change, and  *)
(* its cleanup cancels the run before it and revokes what that one shows.  *)

PreviewRun(props) == [props |-> props, cancelled |-> FALSE, stage |-> "link"]

PreviewEffect ==
    IF PreviewProps' = preview.props
    THEN UNCHANGED previewVars
    ELSE /\ preview' = [props |-> PreviewProps', shown |-> None]
         /\ urls' = IF preview.shown = None THEN urls ELSE urls - 1
         /\ runs' = LET old == [i \in DOMAIN runs |-> [runs[i] EXCEPT !.cancelled = TRUE]]
                    IN  IF PreviewProps' = None THEN old ELSE With(old, PreviewRun(PreviewProps'))

\* After each await the run looks at its flag.
GoesOnAlways(run) == TRUE
GoesOn(run) == ~run.cancelled

\* The link is refused when the version is not of the document in the address.
PreviewLink(i) ==
    /\ runs[i].stage = "link"
    /\ runs' = IF GoesOn(runs[i]) /\ runs[i].props.version.key = runs[i].props.id
               THEN [runs EXCEPT ![i].stage = "bytes"] ELSE Without(runs, i)
    /\ UNCHANGED <<preview, urls>>

PreviewBytes(i) ==
    /\ runs[i].stage = "bytes"
    /\ runs' = Without(runs, i)
    /\ IF GoesOn(runs[i])
       THEN urls' = urls + 1 /\ preview' = [preview EXCEPT !.shown = runs[i].props]
       ELSE UNCHANGED <<preview, urls>>

-----------------------------------------------------------------------------
Init ==
    /\ part \in DOMAIN PageOf
    /\ at = CHOOSE k \in Keys : TRUE
    /\ view = None
    /\ loading = Hides
    /\ tasks = WithLoad(<< >>, at, FALSE)
    /\ dialog = [open |-> FALSE, busy |-> FALSE]
    /\ \E c \in BOOLEAN :
          server = [k \in Keys |-> [row |-> [rev |-> 1, current |-> 2, closed |-> c, voted |-> FALSE],
                                    list |-> 2]]
    /\ preview = [props |-> None, shown |-> None] /\ runs = << >> /\ urls = 0
    /\ wrote = [rev |-> 0, list |-> 0]
    /\ calm = TRUE
    /\ left = [click |-> ClickBudget, event |-> EventBudget]

Answer ==
    \/ CodeAccepted
    \/ \E i \in DOMAIN tasks :
          ReadMain(i) \/ ReadList(i) \/ LoadDone(i) \/ Serve(i) \/ Refuse(i) \/ Finish(i)

PageStep ==
    \/ Answer
    \/ \E k \in Keys : Open(k) \/ OthersChange(k)
    \/ \E h \in ThisPage.handlers : Click(h)
    \/ \E i \in DOMAIN tasks : LoadFails(i)
    \/ Leave \/ SubmitCode \/ CodeRefused \/ CancelDialog

PreviewStep == \E i \in DOMAIN runs : PreviewLink(i) \/ PreviewBytes(i)

Next ==
    \/ PageStep /\ UNCHANGED part /\ PreviewEffect
    \/ PreviewStep /\ UNCHANGED <<part, pageVars>>

\* The network brings every answer, and a settled promise runs its handler.
Fairness == WF_vars(Answer /\ UNCHANGED part /\ PreviewEffect)

Spec == Init /\ [][Next]_vars /\ Fairness

-----------------------------------------------------------------------------
Counts == Nat \ {0}
Rows == [rev : Counts, current : Counts, closed : BOOLEAN, voted : BOOLEAN]
Mains == [key : Keys, row : Rows]
Besides == [key : Keys, list : Counts]
Props == [id : Keys, version : [key : Keys, no : Counts]] \cup {None}

\* Every variable has its type; in particular a page never shows a record
\* without the list beside it.
TypeOK ==
    /\ part \in DOMAIN PageOf /\ at \in Keys \cup {None}
    /\ view \in [main : Mains, list : Besides] \cup {None}
    /\ loading \in BOOLEAN /\ calm \in BOOLEAN
    /\ \A i \in DOMAIN tasks :
          /\ tasks[i].what = "load" \/ \E h \in ThisPage.handlers : h.name = tasks[i].what
          /\ tasks[i].main \in Mains \cup {None} /\ tasks[i].list \in Besides \cup {None}
          /\ tasks[i].key \in Keys
    /\ dialog \in [open : BOOLEAN, busy : BOOLEAN]
    /\ server \in [Keys -> [row : Rows, list : Counts]]
    /\ preview \in [props : Props, shown : Props]
    /\ wrote \in [rev : Nat, list : Nat]

\* The open dialog has a handler to answer and no handler waits behind a closed
\* one. A handler that lost its resolver to another never ends, so it is none that
\* keeps buttons of the page disabled.
NoButtonLost ==
    /\ dialog.open <=> \E i \in DOMAIN tasks : tasks[i].stage = "waiting"
    /\ \A i \in DOMAIN tasks : tasks[i].stage = "lost" => ~Holds(tasks[i])

\* The preview shows the version the page names now or nothing, and holds the
\* one object URL it shows: no run that was overtaken shows its bytes or leaves
\* its URL behind.
PreviewIsCurrent ==
    /\ preview.props = PreviewProps
    /\ preview.shown \in {None, preview.props}
    /\ urls = IF preview.shown = None THEN 0 ELSE 1

\* Read your writes: a page at rest, whose user did one thing at a time, shows
\* the key of its address and everything its own handlers wrote there.
ReadYourWrites ==
    (calm /\ at # None /\ view # None /\ ~AtWork) =>
        /\ view.main.key = at /\ view.main.row.rev >= wrote.rev
        /\ view.list.key = at /\ view.list.list >= wrote.list

Spinning ==
    at # None /\ CASE ThisPage.spinner = "empty" -> view = None
                   [] ThisPage.spinner # "empty" -> loading

\* A spinner over an empty page with no load behind it.
SpinsInVain == ThisPage.spinner = "empty" /\ view = None /\ \A i \in DOMAIN tasks : ~IsLoad(tasks[i])

AskedForCode == dialog.open /\ \E i \in DOMAIN tasks : Holds(tasks[i]) /\ tasks[i].stage = "waiting"

\* The spinner goes away, but for the list of grants when its load has failed, and
\* buttons that were disabled come back unless their handler waits for a code.
PageComesBack ==
    /\ Spinning ~> (~Spinning \/ SpinsInVain)
    /\ Busy ~> (~Busy \/ AskedForCode)

=============================================================================
