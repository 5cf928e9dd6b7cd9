# PramaanX in TLA+

PramaanX is a case-document system: documents are uploaded, processed and
anchored on a ledger, every act is written to a hash-chained audit log, and the
privileged identities are governed by quorum. This directory holds
TLA+ modules for its backend (`src/backend`) and its web client
(`src/frontend`), the TLC configurations that check them on small instances, and
TLAPS proofs. Paths below are relative to
`src/backend/src/` unless they start with `src/`.

## 1. Inventory

| Component | State | Operations | What is hard | What makes it correct |
|---|---|---|---|---|
| Governance (`governance/`) | `admin_pools`, `admin_pool_members`, `sudo_proposals`, `sudo_approvals`, `sudo_objections`, `abac_policies` | file, approve, object, execute (8 actions), bootstrap, regenesis | only the proposal row is locked, so executions interleave on stale pool rows; votes outlive memberships | quorum behind every decision, decisions final, thresholds legal, power moves only by decision |
| Audit log (`audit/`) | `audit_log`, chained by hash | `recordAudit`, `listAudit`, `verifyAuditChain` | concurrent appends; an append in a transaction that rolls back | one chain, append-only, every committed act in it |
| Documents and versions (`services/documents.service.js`) | `documents`, `document_versions`, objects in the store | upload, add version, restore, download, verify, seal | store, database, queue and ledger are written in turn, without a common transaction | a version is what was uploaded; the sealed flag stops new versions |
| Ledger (`ledger/`, `jobs/ledgerAnchor.processor.js`, chaincode) | one record per version, with custody events | register, custody event, seal, verify | submission after commit, retries, idempotent re-submission | a registration is never overwritten; custody is a linear history |
| Document processing (`jobs/documentProcessing.*`) | `document_extractions`, BullMQ jobs, `processing_status` | enqueue, process, retry, fail, reconcile | lost enqueue, stalled duplicate, crash between two database writes | a file never passes a scan it failed; every version ends READY, QUARANTINED or FAILED; the two status columns agree |
| Sessions and users (`services/auth.service.js`, `services/users.service.js`) | the `users` row, one `refresh_tokens` row per user, the keys `refresh:<id>` and `access:<id>` in Redis, cookies, the token a tab holds | activate, change password, login, MFA enrolment and check, refresh, logout, deactivate, reset MFA, revoke | four records written in turn; rotation races; an administrator acts between two writes | the stores name one pair once requests are at rest; an activation link works once; what is enrolled has a secret |
| Authorisation (`lib/authorize.js`, `lib/abacPolicy.js`) | the policy cache of each process | authorize, reload, invalidate | each read of a decision is awaited while its facts change; a reload is in flight when a policy commits | a decision rests on facts of the request's own time; the cache never goes back |
| Access grants (`documents.service.js`) | `document_access_grants` | grant, revoke, expiry | seal, case, grantee, policy and officers are read before the insert | every grant was due when it was made |
| Cases (`services/cases.service.js`) | `cases`, `case_officers` | create, update, officers, legal hold | they move the facts that authorisation reads | – |
| Web pages (`src/frontend/src/pages`) | what a page shows, loads and handlers in flight, the step-up dialog, the document preview | open, click, code, leave | loads are not cancelled; one dialog for all handlers; a preview overtaken by the next | a page at rest shows what its user wrote; disabled buttons come back; the preview is of the version shown |
| Comments, notifications, search, reference data | rows per feature, a search index, a notification queue | CRUD, mention fan-out, index and query | last writer wins in the index; mention jobs repeated | index and notifications follow the database |
| Realtime (`realtime/`) | sockets in rooms | join, broadcast | pure delivery | – |

How they meet: every service writes its audit entry inside the transaction of
the change it records. Uploads enqueue two jobs after commit, one for
processing, one for anchoring; two worker processors take them and write back
to the version's row. Governance writes the policy that `authorize` reads
through its cache, and the pools that decide who may vote. Seal and verify call
the ledger from the request. A page of the client calls the API and brings the answer, or a new
load, onto the page; a handler that the API guards with a step-up code waits for
the dialog first.

The text stages of processing and the storage drivers hold no state of this
kind. `services/proposals.service.js` is an older copy of
`governance/proposals.service.js` that nothing imports.

## 2. Modules

| Module | Models | Proofs |
|---|---|---|
| `PoolMath` | `governance/poolMath.js`: default, legal and effective thresholds | used by `GovernanceProofs` |
| `QuorumDecision` | what governance promises: questions, voters, decisions by quorum, powers that only decisions move, a record that grows with each act | |
| `Governance` | `proposals.service.js`, `sudoActions.js`, `pools.js`, `bootstrap.js`; implements `QuorumDecision` | `GovernanceProofs` |
| `Processing` | the pipeline from upload to verdict: producer, BullMQ, worker, failure handler, sweep | `ProcessingProofs` |
| `AppendOnlyLog` | what the audit log promises: a history to which each act is appended once | |
| `AuditChain` | `recordAudit` in concurrent transactions, on two instances `audit_log` and `case_activity_log`; implements `AppendOnlyLog` | `AuditChainProofs` |
| `DocumentCustody` | one document across object store, database, anchor queue and ledger; composes the document service, the anchor worker and the chaincode | `DocumentCustodyProofs` |
| `Sessions` | one account's session: `auth.service.js`, `users.service.js`, the cookies and the access token of the browser's tabs | `SessionsProofs` |
| `Access` | `authorize()`, the policy cache, grants, and the operations on a case and a document that move what they read | `AccessProofs` |
| `Pages` | one tab of the web client on any of thirteen pages and panels | `PagesProofs` |
| `MC…` | the small instances | |

### Governance

`threshold` and `members` are `admin_pools` and `admin_pool_members` (a pool
with k = m = 0 does not exist), `status`, `payload`, `waiting` the
`sudo_proposals` rows (`waiting`: the `execute_after` delay of a reinstatement
has not passed), `vote` the `sudo_approvals` with the capacity each was
classified into, `spent` their unique `step_up_jti`, `objections` the
`sudo_objections` counted, `policyVersion` the highest `abac_policies.version`,
`active` the users with status ACTIVE, `auditRows` the entries written. `exec`
holds what a transaction that is executing has read.

`File`, `Approve` and `Object` are one step each: such a transaction reads
nothing that another can change before it commits and that it depends on, other
than the proposal row it has locked. `executeProposal` is `BeginExecute` (row
lock, status, delay, quorum, guard reads) and then `CommitExecute` or
`AbortExecute`, because the pool rows it read are not locked; a policy change
whose version was taken meanwhile fails on the unique index. The eight actions
of `SUDO_ACTIONS` are the operators `Mutate` dispatches to. `Bootstrap` and
`Regenesis` are the ceremonies, `SetStatus` the one operation of another service
(user administration) that governance reads. A person's role is fixed: no decree
writes `users.role` (`proposals.service.js:364-366`), whatever the comment at
`sudoActions.js:113` says of demotion on removal.

### Processing

`version` and `extraction` are the two status columns, `job`, `tries` and `run`
the BullMQ job of a version, its `attemptsMade` and what each worker slot has
reached; `report` is the `failed` listener of `worker.js` between its two reads
and its write. `Program` lists the writes of `processDocument`, each a
transaction of its own, and `Advance` takes the next. A scan that flags the file
goes through `Quarantine` and `Reject`, the last transaction is `CommitReady`,
then the best-effort indexing (`Complete`). Time is left out: the sweep may
find a row stuck at any moment, which only adds re-enqueues.

### AuditChain

A transaction writes its row (`Write`, under the row's lock), takes the advisory
lock (`Lock`), reads the last hash (`ReadTip`), inserts (`Insert`) and commits.
READ COMMITTED is the visibility of committed rows at `ReadTip`. A hash is the
sequence of entries it commits to, so equal hashes mean equal histories.

### DocumentCustody

`versions`, `sha256`, `ledgerStatus`, `integrity`, `sealed` are the columns,
`store` the objects by key, `ledger` the chaincode's record of each version,
`anchor` its job, `op` what each request has read and reached. Reads that
follow one another are one step with the write after them, except where what is
read can go stale before it is used: upload and restore keep the seal they read,
`verifyIntegrity` its ledger status, hash and ledger record. A ledger call
succeeds, fails, or takes effect and is reported as failed; a request may be
abandoned after any step (an error, or the death of the process); a worker may
die before or after either of its writes, and its job is then queued again or
given up.

The ledger is the Fabric one, shared by API and worker; the in-memory driver
keeps its records per process and stands in for it in tests.
`RecordCustodyEvent` is left out: nothing in `src/` calls it. `getCustody` is a
read.

### Sessions

`account` is the `users` row with the activation token's `used_at`, `row` the
account's one `refresh_tokens` row, `redis` the two keys, `cookies` the refresh
and MFA cookies of each browser, `bearer` the access token each tab keeps in
memory. A pair of tokens is a number, a secret and a password are named by the
tab that set them. `req` is a request in flight: `Send` takes cookie and token
along, `Decide` is the handler up to its first write (`HandleLogin`,
`HandleRefresh`, …), and each store write after it (`UpsertRow`,
`SetRefreshKey`, …) is a step, in the order of the awaits. `Deliver` is the
answer reaching the browser. `Lose` stops a handler between two writes or loses
its answer; `LoseKeys` is the TTL of `access:<id>` or a Redis restart.
`deactivateUser`, `resetMfa` and `revokeSession` commit, and revoke the row in a
later step (`RevokeByUserId`). Reads that precede the first write are one step
with it, except `requireAuth`, which reads Redis in a step of its own before
logout decides. The client's retry after a 401 is another `Send`.

### Access

`users`, `case`, `sealed` and `grants` are rows, `token` the role each access
token was signed with, `table` the versions of `abac_policies`, `cache` the
process's cached version with its freshness and its shared load, `decree` an
execution in this process that has committed a policy and not yet refreshed the
cache. `authorize()` is `GetActivePolicy`, `FindUser`, `ResolveCase`,
`ListOfficers`, `HasActiveAccessGrant`, an await each; `grantAccess` is
`GrantAccess`, `FindGrantee`, `GetActivePolicy`, `GrantScope`,
`UpsertAccessGrant`. Which fact comes from which read follows the code: the
permissions from the cache as it is when the user has been read, the rest from
the policy awaited first, the sharer's role from the token. A policy is a record
merged as `mergePolicy` does; organisations and jurisdictions are reduced to
whether a user is in the case's. `seen` is a history variable, what each request
could have read since it began, in no guard.

### Pages

A page is data: how many reads its load makes, when it shows a spinner (until the
load has ended, as long as there is nothing to show, or never), and its handlers; a handler is data too: when its button is drawn, whether it asks
for a step-up code, whether it disables buttons, and whether it installs its
answer, reloads, or filters a list (`HandleSeal`, `UpdateField`, …). The actions
are common: `Open` and `Leave` change the address, `Click` starts a handler,
`ReadMain`/`ReadList`/`LoadDone` are a load, `Serve`/`Refuse`/`Finish` a call and
what the handler does with its answer, `SubmitCode`/`CodeAccepted`/`CancelDialog`
the dialog of `StepUpContext.jsx`, whose state outlives a page and which keeps one
resolver: each `Click` on a handler that asks for a code overwrites it
(`Overwritten`), and the handler that waited before is `"lost"`, neither resolved
nor rejected any more. The dialog is an overlay without a focus trap, so an open one
does not stop `Click`; only the buttons that the page disables are out of reach.
`PreviewEffect` runs with every step, as React runs an effect whenever its
properties change, and `PreviewLink`/`PreviewBytes` are its two awaits. `server`
is what the API would answer: revisions, not contents. Promises in progress
(`tasks`, `runs`) are numbered; they settle in no order, so the numbers mean
nothing else.

## 3. Runs

Every run finishes in under four minutes with two workers.

| Run | Shows |
|---|---|
| `governance` | the safety properties of governance and its refinement of `QuorumDecision`, for seven kinds of decree including one each for founding, reinstating and appointing into a pool, two executions at once; an execution that was not overtaken leaves m equal to the roster |
| `governance_lost_roster` | (violation) executed at once, two removals leave a pool of one with k = 2 |
| `processing` | no infected file passes the scan and no job has two lock holders, with a crash, an expired lock and a lost failure report |
| `processing_live` | verdicts are final, recorded once and shown alike by both rows, and every version a worker has touched is settled, with a crash, a lost enqueue and a lost job |
| `processing_unswept` | (violation) a version whose enqueue failed is never found by the sweep |
| `audit_chain` | the chain verifies at every moment, each committed change appends exactly its entry, and every transaction ends |
| `custody` | rows have their bytes, anchors are true, no false alarm, seals are on the ledger and stay there |
| `custody_seal_race` | (violation) an upload that passed the seal test commits after the seal |
| `sessions` | Postgres, Redis and the browser name the same pair whenever no two writers overlapped and none was cut off; a link activates once; an enrolled account has a secret whatever overlaps |
| `sessions_outlive` | (violation) an account that is deactivated keeps its live access token |
| `access` | each decision and each grant rests on facts that held during the request that made it; the policy cache never goes back, and is no older than a decree that refreshed it with a load of its own |
| `pages` | every page comes back from its spinner, but for the list of grants when its load has failed, and from its disabled buttons, unless they wait for a code; a request for a code that is overwritten never belonged to a handler that keeps buttons disabled; the preview is of the version shown, and a page at rest shows what its user wrote |

### Bounds

- Governance: two System Admins, two Security Admins, an auditor, one
  organisation; two proposals, two executions in flight, two step-up tokens
  each, one regenesis. Two proposals are what it takes to interleave executions
  and to replay a token across proposals; the pools of two (`PairGenesis`) sit
  at the minimum, where k = m and every guard on k and m decides; `TrioGenesis`
  is the smallest pool that can lose two members. One genesis lacks the pool that
  `POOL_REINSTATEMENT` then founds. The regenesis roster names one person twice,
  so that m and roster may differ before an execution, which `RosterKept` must
  not depend on.
- Processing: two slots are what a stalled run and its replacement need, two
  attempts have a retry and a last one. The fault budgets differ: `processing`
  allows expired locks, under which only the two properties it checks are
  promised; `processing_live` states the rest for runs that keep their lock.
- Audit: two transactions contend for a row, a third for another row, the fourth
  changes none; with four, a rollback can fall between any two of the others.
- Custody: two versions, two requests, two contents, two attempts, one damaged
  object at a time; worker deaths and abandoned requests are unbounded. A
  version restores from another or is verified beside an upload; more requests
  add no pair of steps.
- Sessions: two tabs, in one browser or in two, since a race needs two requests
  and shared or separate cookies decide it; three requests (one to overtake two
  that depend on each other) and one event: an operation of an administrator, a
  lost answer, or lost keys. Sixteen numbers are one more than two tabs and two
  browsers can hold at once, and a number nobody holds is minted again.
- Access: two users with one request in flight each, because a grant needs
  a granter and a grantee; four rows on both sides of the jurisdiction, the
  clearance, the elevated roles and ACTIVE; two policies that take something
  away; two requests and one event, the change that can fall between two reads.
  `Asked` leaves out `download` and `readCase`, whose decision is `read`'s on
  another action.
- Pages: two keys, so that an address can change under a load; two handlers, one
  to overtake the other; one event (a change of address, a failed call, a wrong
  code, another user's change). Initial states are all thirteen pages. The budgets
  bound the revisions.

Deadlock is not checked: proposals, transactions, version ids and the budgets of
requests and events run out, and a finished instance stops. `AuditChain` states instead that every transaction ends,
which two row locks and the advisory lock could prevent. Symmetry is used over
interchangeable proposals, executors, workers, versions, contents, tabs, browsers
and users, and in no run with a liveness property.

### Fairness

`Processing!Fairness` is weak fairness of what the running system keeps doing: a
request goes on to its enqueue, BullMQ hands out a waiting job, a run goes on
until it ends or dies, the failed event reaches its listener, the sweep recurs
(`worker.js` runs it on an interval). No fault is fair, and none is needed.
`AuditChain!FairSpec` is weak fairness of each transaction's next step, never of
`Rollback`: a statement that may run does. Weak fairness of `Lock` is enough
because the lock is freed for good once each of the others has ended.
`Pages!Fairness` is weak fairness of answers together: a call that was sent comes
back, as success or as an error, and the promise
runs its handler. What the user does is not fair: a code that nobody types leaves
its handler waiting, which `PageComesBack` excludes by name (`AskedForCode`), and
nobody need try again after the list of grants failed to load (`SpinsInVain`). The
spinner inside the preview is left out. Sessions and Access state no liveness.

## 4. Proofs

All for every value of the constants that satisfies the modules' assumptions
(finite users, typed payloads, positive bounds); fairness is not assumed.

**GovernanceProofs.** `Inv` is TypeOK, PoolsLegal, ExecutionsSound and
ExecutedByQuorum together. ExecutedByQuorum is not inductive alone: the quorum
is counted at `BeginExecute` against the k read there, and k may be lowered
before `CommitExecute`. What survives is that an open execution's proposal is
endorsed (at least two in-pool votes and one per co-signer), that votes are
never taken back, and that no threshold ever read was below 2, hence PoolsLegal.
From it: `TypeCorrect`, `PoolsStayLegal`, `DecisionsEndorsed`, `ExecutionsStaySound`,
`DecisionsAreFinal`, and `GovernanceDecides`, that every step maps to an act of
`QuorumDecision` or to a stutter. Three more need invariants of their own beside
it. `VotesAreSteppedUp` needs that the tokens a person spent match the proposals
they voted on one to one, kept step by step as equal cardinalities.
`VersionsStayDense` needs that an execution commits a policy only if the version
it took is still the next one. `PowerMovesOnlyByDecree` and `RostersKept` rest on
what each of the eight actions touches (`MutateAffects`, `MutateCounts`), the
latter with no word about executions that overlap. `DefaultQuorumsMeet`, about
poolMath alone, is that the default threshold is a strict majority: two quorums
of one pool share a member. A custom k >= 2 does not promise this.

**ProcessingProofs.** `IInv` adds to TypeOK and NothingInfectedPasses the
invariants HeldBack (a run of an infected version is still before the scan or
already refused) and LockHeld (a job is active exactly while one run holds its
lock). From it `TypeCorrect`, `ScanHolds` and `JobsHeldOnce`, the latter through
a cardinality lemma. `VersionsProcessedOnce`, `VerdictsAgree` and `VerdictsStay`
carry the hypothesis `NoStalls`, that no lock expires under a living run. This is
the condition under which the properties are stated and `processing_live` checks
them: with it every run holds its lock, so there is one run of a version at a
time, and Unstalled relates what it has written to what it has yet to write
(RunSound), and the two rows and the record of a version without a run
(VersionSound). Crashes, lost jobs, lost enqueues and repeated deliveries stay in.

**AuditChainProofs.** `IInv` says that the advisory lock excludes (LockExcludes),
that what its holder has read is still the tip and what it has inserted lies
above the log (TipStands), that new sequence numbers do too (LogBelow), that exactly the committed transactions have
entries (CommittedMade), and ChainValid. From it `TypeCorrect`,
`ChainNeverForks`, and `LogIsAppendOnly`, the refinement of `AppendOnlyLog`.
`NoDeadlock` is the safety half of EveryTransactionEnds: a lock is held by a
transaction under way (HoldersUnderWay), the one with the audit lock waits for
nobody, and one with a row only for the audit lock, so that two waits lead from
any transaction to one whose next statement can run.

**DocumentCustodyProofs.** The requests and the jobs interleave freely, so the
inductive invariant speaks of what each has in hand. An upload or a restore in
flight has a version id that no other has and no row names until its own commit:
the clean-up after a failure can then only delete bytes that no row needs
(`RowsHaveBytes`). A ledger record, once written, keeps its hash, which is the
hash of the row, and an anchor job writes ANCHORED only over such a record
(`AnchorsTrue`). What `verifyIntegrity` read at different moments can be
overtaken by an anchoring, but a hash that differs means damage at any of them
(`VerdictsFair`). A seal that is about to commit has its record sealed already,
and the chaincode refuses to change that record (`SealsWitnessed`, `SealsStay`).
The module assumes that the value for "no record" is none.

**SessionsProofs.** `IInv` is AccountType, StoresType, RequestsSound,
ActivatedFirst and EnrolledHasSecret. RequestsSound says that what a handler has
yet to write it may write: an enrolment in flight has a secret to promote, only
`changePassword` sets a password outside an activation, and nothing that
establishes a session is planned before the activation link was used.
ActivatedOnce needs it: a session that existed before the activation would let
`changePassword` set a password on an account whose link still works. From it
`SecretsKept`, `ActivationFirst` and `LinksWorkOnce`.

`StoresStayTogether` is about the order of the writes. StoresAgree says nothing of
the states between two writes; what each of them must have reached is
CalmSound: while the writers take turns and none is cut off there is at most one
at work, and either it has no pair and the stores agree (Settled), or its pair is
already in every record that its remaining plan no longer writes, and in no
tab's memory. AllFormed gives the plans: a handler with a pair writes the row,
`refresh:<id>` and `access:<id>` in this order and answers with that pair
(Agreeing); every other writer only revokes, every other handler only touches the
account. What administrators, lost keys and reloads do takes and stores nothing
(Fading), and Settled survives it. That a pair that is minted is held by nobody
is `FreshIsNew`, counted from the assumption that there are more numbers than
places that can hold one; in the code the tokens are random. `TypeCorrect` comes
with it.

**AccessProofs.** `IInv` says of the policy cache (PolicyInv) that a load in
flight has read nothing older than what is cached, nor older than the decree
that started it, and of each request (RequestInv) that its history includes what
is there now (Present) and that each value it has read so far is in that history
and permits it to have come so far (Honest: Authorizing for `authorize()`,
Granting for `grantAccess`). The history only grows, so what another process
changes between two reads leaves Honest true. From it `DecisionsCurrent`,
`GrantsDue` and `PolicyForward`. `TypeCorrect` needs TInv beside it: a request that
will grant, revoke, assign or remove has a user to do it to, a revocation past
its check has a grant to revoke (AllOrderly), and whoever awaits a load of the
policy has one to await (Awaited). It assumes that None is neither a user nor a
load, since `cache.load # None` is how the code tells that one is in flight.

**PagesProofs.** First, that each of the thirteen pages is fair to its handlers
(`PagesFair`): a handler installs or reloads whatever it writes, all but two on
the page of a person, and a page that stays mounted or shows a spinner while it
loads has something to read. Second, that of the handlers of a page that ask for a
code, either all disable its buttons or none does (`PagesAlike`): so whoever could
be started while another waits overwrites the resolver of a handler that disabled
nothing. `IInv` is then the types, TasksSound (a handler whose call is done has its
answer, a load is its page's own), WaitersSound (an open dialog has a handler that
waits, a closed one none; who waits holds buttons as such handlers of its page do,
and who lost its resolver holds none), HiddenSound (what hides the page is a load in progress),
OneRun (of all preview effects at most one is not cancelled; it fetches
what the page names and shows nothing yet), PreviewIsCurrent and PageSound. The
last strengthens ReadYourWrites: while the user does one thing at a time the page
has at most one task of its own, and what this one has read or was answered, or
else what is shown, is under the page's address and as new as every write
acknowledged, because the server's revisions only grow. From it `TypeCorrect`,
`NoButtonIsLost`, `SpinnersHaveLoads` (only the list of grants can spin without a
load), `PreviewFollows` and `WritesAreRead`.

Only model-checked: liveness (TouchedSettles, EveryTransactionEnds,
PageComesBack), which is beyond the prover. Every invariant and action property
of a passing run, and both refinements, have a theorem.

## 5. Where code and documentation disagree

Shown by a run:

- Two decrees executed at once write k and m from the row each read first; two
  removals from a pool of three leave one member with k = 2
  (`proposals.service.js:381`, `governance_lost_roster`).
- The sweep reads only `document_extractions`, so a version whose enqueue failed
  stays SCANNING (`documentProcessing.reconcile.js:43`, `processing_unswept`).
- The seal is tested before the upload and not at its commit
  (`documents.service.js:180`, `custody_seal_race`).
- `deactivateUser` revokes the Postgres row only; `requireAuth` reads Redis, so
  the session outlives the account (`users.service.js:140`, `sessions_outlive`).

Met while modelling, with no run of their own. The models follow the code:

- `SECURITY_ADMIN` is its own co-signer, so two Security Admins re-threshold
  their own pool alone (`sudoActions.js:132-133`, `proposals.service.js:335`;
  `src/backend/docs/GOVERNANCE.md:69-71` asks for a co-signer outside it).
- `setLedgerFailed` writes FAILED over ANCHORED when a repeated anchor job gives
  up (`documents.repo.js:222-224`).
- `invalidatePolicyCache` may join a load that read the table before the new
  policy committed, and the older policy then stays for a TTL
  (`abacPolicy.js:170-175`); `PolicyMovesForward` says so by its exception.
- `grantAccess` and `revokeAccess` take the caller's role from the token, and
  `hasStandingCaseAccess` ignores the sharer's jurisdiction
  (`documents.service.js:644-653`, `686`).
- Mentions are resolved with `document:read` in threads that need `case:read`
  (`comments.service.js:26-27`, `40-44`).
- `listCases` has its own list of elevated roles and its own order of clearances
  (`case.repository.js:41`, `48`), and `createCase` its own rank
  (`cases.service.js:6`), beside the policy that governance may change.
- The client's table of aliases says that it mirrors the backend's
  (`src/frontend/src/lib/permissions.js:1`) and lacks some of its entries
  (`abacPolicy.js:46-54`): a page may hide a button that the API would accept.
- A code submitted for one action is accepted for the next one when the dialog
  was cancelled and opened again meanwhile (`StepUpContext.jsx:29`).
- `requestStepUp` overwrites its resolver without asking whether a dialog is open,
  and buttons behind the overlay are reached by keyboard: a second request on the
  page of a person or a document leaves the first handler waiting for ever
  (`StepUpContext.jsx:13-20`). On the pages of a proposal and a case the buttons
  are disabled meanwhile (`NoButtonLost`).
- The list of grants shows its spinner while it has none, and a failed first load
  only sets the error (`DocumentDetail.jsx:519-534`, `642-645`): it spins until the
  tab is opened again or a later reload succeeds.
- A page whose load is overtaken or fails shows the row of one key under the
  address of another, and its handlers act on the address
  (`UserDetail.jsx:105`, `119`). `ReadYourWrites` is stated for users who do one
  thing at a time and whose loads succeed.

## 6. Not modelled

- Statement timeouts, an ambiguous COMMIT and an exhausted pool of connections
  (helpers query the pool inside an open transaction): a transaction is known to
  have committed or not, and always gets its connection.
- What a run that outlived its lock may write over a verdict: the step is in the
  model (`Stall`), no property is stated because no document promises one.
  Likewise the failure handler that read its status before its transaction.
- Hazards without a property beyond those listed with a note in `PROJECT.json`:
  a pool whose members are deactivated outside governance keeps its k; an anchor
  job whose enqueue fails is found by no sweep; of two overlapping verifications
  the older verdict may be written last.
- Comments and notifications: single-row statements and a job delivered at least
  once; their two hazards are listed with the reason no property is stated.
- Search: Processing has the step that indexes; ranking and content are text,
  and each hit is authorised and read again from Postgres.
- Reference data: lookups whose constraints the database keeps. Realtime: a
  signal to refetch, with no promise. Object storage: I/O and cryptography.
- The stages of processing: text functions and calls to services; Processing
  models whether each returns or throws.
- Cases: `createCase` and `listCases` (one insert, one query), legal hold and text
  fields, single statements with the last writer winning. Organisation scoping,
  request validation, listing and download links: reads, or pure functions of
  rows.
- In the client: drawing, field validation, sign-in pages, the reference
  administration, the bell of notifications, and downloads.
- `services/proposals.service.js`: dead code.

## 7. What is left

- Theorems for what still holds beside each violated property, such as that a
  pool stays governable while the executions of its decrees do not overlap.
- The safety half of TouchedSettles, as NoDeadlock is for the audit log and
  `SpinnersHaveLoads` for PageComesBack.
- The hazards that no property covers, each with its reason in
  `PROJECT.json`.
