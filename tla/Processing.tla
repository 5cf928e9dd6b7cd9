----------------------------- MODULE Processing -----------------------------
(***************************************************************************)
(* The document-intelligence pipeline: the API enqueues a BullMQ job per   *)
(* version after its upload commits; workers scan, extract, index and tag, *)
(* keeping processing_status on two rows in separate transactions; failed  *)
(* jobs are retried and finally reported; a sweep re-enqueues versions     *)
(* left half-way.                                                          *)
(*                                                                         *)
(* Time is left out: the sweep may find a row stuck at any moment, which   *)
(* only adds re-enqueues that collapse onto the job already there.         *)
(***************************************************************************)
EXTENDS Integers, Sequences, FiniteSets

CONSTANTS
  Versions,     \* document versions, each with a job of its own (jobId)
  Infected,     \* versions the scanner flags
  Workers,      \* jobs that may run at once
  Idle,         \* a worker slot with no run
  Attempts,     \* config.processing.attempts
  FaultBudget   \* bound: how often each fault may strike

Faults == {"enqueue",   \* the after-commit enqueue fails, or the API dies first
           "drop",      \* Redis loses a waiting job
           "crash",     \* a worker process dies with its runs
           "stall",     \* a run outlives its BullMQ lock and goes on
           "report"}    \* the failure handler's transaction fails or is cut off

ASSUME InfectedKnown == Infected \subseteq Versions
ASSUME IdleIsNoRun == Idle \notin [version : Versions, at : Nat, locked : BOOLEAN]
ASSUME AttemptsPositive == Attempts \in Nat \ {0}
ASSUME BudgetTyped == FaultBudget \in [Faults -> Nat]

VARIABLES
  version,     \* document_versions.processing_status, "ABSENT" before upload
  extraction,  \* document_extractions.status, "ABSENT" without a row
  unsent,      \* versions committed and not yet enqueued
  job,         \* the BullMQ job of a version
  tries,       \* its attemptsMade
  run,         \* what each worker slot is doing
  report,      \* the failure handler of a version: "none", "due", "decided"
  processed,   \* number of VERSION_PROCESSED audit entries
  indexed,     \* versions written to the search index
  left         \* faults still to come

rows == <<version, extraction>>
queue == <<job, tries>>
vars == <<version, extraction, unsent, job, tries, run, report, processed, indexed, left>>

Statuses == {"SCANNING", "EXTRACTING", "INDEXING", "TAGGING", "READY", "QUARANTINED", "FAILED"}
Done == {"READY", "QUARANTINED"}
Settled == Done \cup {"FAILED"}

\* The writes of a run, each in a transaction of its own.
Program ==
  <<[row |-> "extraction", to |-> "SCANNING"],
    [row |-> "version",    to |-> "SCANNING"],
    [row |-> "extraction", to |-> "EXTRACTING"],
    [row |-> "version",    to |-> "EXTRACTING"],
    [row |-> "extraction", to |-> "INDEXING"],
    [row |-> "version",    to |-> "INDEXING"],
    [row |-> "version",    to |-> "TAGGING"],
    [row |-> "extraction", to |-> "TAGGING"]>>

Opening == 1                    \* ensureExtraction: creates the row or leaves it
Scanned == 3                    \* the first write after the scan
Commit == Len(Program) + 1      \* both rows, tags and audit entry at once
Index == Commit + 1             \* best-effort indexing
Refused == Index + 1            \* quarantined, the job about to be rejected

Strike(fault) == left[fault] > 0 /\ left' = [left EXCEPT ![fault] = @ - 1]
SetBoth(v, s) ==
  /\ version' = [version EXCEPT ![v] = s]
  /\ extraction' = [extraction EXCEPT ![v] = s]

-----------------------------------------------------------------------------
(* The producer *)

Upload(v) ==
  /\ version[v] = "ABSENT"
  /\ version' = [version EXCEPT ![v] = "SCANNING"]
  /\ unsent' = unsent \cup {v}
  /\ UNCHANGED <<extraction, queue, run, report, processed, indexed, left>>

\* queue.add without a jobId: a job is queued whatever there is already.
AddAgain(v) ==
  /\ job' = [job EXCEPT ![v] = "waiting"]
  /\ tries' = [tries EXCEPT ![v] = 0]

\* queue.add with jobId = versionId collapses onto a job in any state, one
\* kept after it completed or failed included.
AddJob(v) ==
  IF job[v] = "none" THEN AddAgain(v) ELSE UNCHANGED queue

Enqueue(v) ==
  /\ v \in unsent
  /\ unsent' = unsent \ {v}
  /\ AddJob(v)
  /\ UNCHANGED <<rows, run, report, processed, indexed, left>>

EnqueueFails(v) ==
  /\ v \in unsent
  /\ unsent' = unsent \ {v}
  /\ Strike("enqueue")
  /\ UNCHANGED <<rows, queue, run, report, processed, indexed>>

\* A sweep that takes a file still being scanned for a fresh one.
StuckAfterScan(v) == extraction[v] \notin Settled \cup {"ABSENT", "SCANNING"}
\* The sweep looks for extraction rows left half-way.
Stuck(v) == extraction[v] \notin Settled \cup {"ABSENT"}

Reconcile(v) ==
  /\ Stuck(v)
  /\ version[v] \notin Done
  /\ AddJob(v)
  /\ UNCHANGED <<rows, unsent, run, report, processed, indexed, left>>

-----------------------------------------------------------------------------
(* The queue *)

\* A version that is done is left alone.
Skip(w, v) ==
  /\ run[w] = Idle /\ job[v] = "waiting"
  /\ version[v] \in Done
  /\ job' = [job EXCEPT ![v] = "completed"]
  /\ UNCHANGED <<rows, unsent, tries, run, report, processed, indexed, left>>

\* What a run must not start on; and a check that has been dropped.
NothingBarred(v) == FALSE
Barred(v) == version[v] \in Done

Take(w, v) ==
  /\ run[w] = Idle /\ job[v] = "waiting"
  /\ ~Barred(v)
  /\ job' = [job EXCEPT ![v] = "active"]
  /\ run' = [run EXCEPT ![w] = [version |-> v, at |-> Opening, locked |-> TRUE]]
  /\ UNCHANGED <<rows, unsent, tries, report, processed, indexed, left>>

\* A run without its lock can no longer move its job.
Finish(w, state) ==
  /\ run' = [run EXCEPT ![w] = Idle]
  /\ job' = IF run[w].locked THEN [job EXCEPT ![run[w].version] = state] ELSE job

Exhaust(w) ==
  /\ Finish(w, "failed")
  /\ report' = IF run[w].locked THEN [report EXCEPT ![run[w].version] = "due"] ELSE report
  /\ UNCHANGED tries

\* Counting the attempts made without the one that has just failed.
OneAttemptMore(v) == tries[v] < Attempts
AttemptsLeft(v) == tries[v] + 1 < Attempts

Retry(w) ==
  LET v == run[w].version IN
    /\ AttemptsLeft(v)
    /\ Finish(w, "waiting")
    /\ tries' = IF run[w].locked THEN [tries EXCEPT ![v] = @ + 1] ELSE tries
    /\ UNCHANGED report

\* Finished jobs are dropped when thousands more have finished after them
\* (removeOnComplete, removeOnFail), long after their handler is through.
Evict(v) ==
  /\ job[v] \in {"completed", "failed"}
  /\ report[v] = "none"
  /\ job' = [job EXCEPT ![v] = "none"]
  /\ UNCHANGED <<rows, unsent, tries, run, report, processed, indexed, left>>

Drop(v) ==
  /\ job[v] = "waiting"
  /\ job' = [job EXCEPT ![v] = "none"]
  /\ Strike("drop")
  /\ UNCHANGED <<rows, unsent, tries, run, report, processed, indexed>>

-----------------------------------------------------------------------------
(* The worker *)

Goto(w, step) == run' = [run EXCEPT ![w].at = step]

\* A scanner that lets a file through when it cannot judge it.
PassesUnscanned(v) == TRUE
\* The scanner fails closed: only a clean verdict lets a run go on.
PassesScan(v) == v \notin Infected

WriteRow(v, write) ==
  IF write.row = "version"
    THEN /\ version' = [version EXCEPT ![v] = write.to]
         /\ UNCHANGED extraction
    ELSE /\ extraction' = [extraction EXCEPT ![v] = write.to]
         /\ UNCHANGED version

\* ensureExtraction leaves the status of a row that exists.
OpenRow(v) ==
  /\ extraction' = [extraction EXCEPT ![v] = IF @ = "ABSENT" THEN "SCANNING" ELSE @]
  /\ UNCHANGED version

Advance(w) ==
  LET v == run[w].version
      at == run[w].at
  IN
    /\ run[w] # Idle
    /\ at < Commit
    /\ at = Scanned => PassesScan(v)
    /\ IF at = Opening THEN OpenRow(v) ELSE WriteRow(v, Program[at])
    /\ Goto(w, at + 1)
    /\ UNCHANGED <<unsent, queue, report, processed, indexed, left>>

Quarantine(w) ==
  LET v == run[w].version IN
    /\ run[w] # Idle
    /\ run[w].at = Scanned
    /\ v \in Infected
    /\ SetBoth(v, "QUARANTINED")
    /\ Goto(w, Refused)
    /\ UNCHANGED <<unsent, queue, report, processed, indexed, left>>

CommitReady(w) ==
  LET v == run[w].version IN
    /\ run[w] # Idle
    /\ run[w].at = Commit
    /\ SetBoth(v, "READY")
    /\ processed' = [processed EXCEPT ![v] = @ + 1]
    /\ Goto(w, Index)
    /\ UNCHANGED <<unsent, queue, report, indexed, left>>

\* The search index may be down: the job completes all the same.
Complete(w) ==
  /\ run[w] # Idle
  /\ run[w].at = Index
  /\ \E reached \in BOOLEAN :
       indexed' = IF reached THEN indexed \cup {run[w].version} ELSE indexed
  /\ Finish(w, "completed")
  /\ UNCHANGED <<rows, unsent, tries, report, processed, left>>

\* Storage, scanner, OCR, database: whatever throws ends the run, to be retried
\* or, once too often, for good; a file too large to read is not tried again.
Throw(w) ==
  /\ run[w] # Idle
  /\ run[w].at <= Commit
  /\ \/ Retry(w)
     \/ /\ ~AttemptsLeft(run[w].version) \/ run[w].at = Scanned
        /\ Exhaust(w)
  /\ UNCHANGED <<rows, unsent, processed, indexed, left>>

Reject(w) ==
  /\ run[w] # Idle
  /\ run[w].at = Refused
  /\ Exhaust(w)
  /\ UNCHANGED <<rows, unsent, processed, indexed, left>>

\* The process dies; BullMQ finds the job stalled and queues it again.
Crash(w) ==
  /\ run[w] # Idle
  /\ Finish(w, "waiting")
  /\ Strike("crash")
  /\ UNCHANGED <<rows, unsent, tries, report, processed, indexed>>

\* The lock expires under a live run: the job is queued again, the run goes on.
Stall(w) ==
  /\ run[w] # Idle
  /\ run[w].locked
  /\ run' = [run EXCEPT ![w].locked = FALSE]
  /\ job' = [job EXCEPT ![run[w].version] = "waiting"]
  /\ Strike("stall")
  /\ UNCHANGED <<rows, unsent, tries, report, processed, indexed>>

-----------------------------------------------------------------------------
(* markProcessingFailed *)

Examine(v) ==
  /\ report[v] = "due"
  /\ report' = [report EXCEPT ![v] = IF version[v] \in Done THEN "none" ELSE "decided"]
  /\ UNCHANGED <<rows, unsent, queue, run, processed, indexed, left>>

\* The handler updating the version alone, and both rows.
FailVersionOnly(v) ==
  /\ version' = [version EXCEPT ![v] = "FAILED"]
  /\ UNCHANGED extraction
\* setExtractionFields changes nothing where there is no row.
FailBoth(v) ==
  /\ version' = [version EXCEPT ![v] = "FAILED"]
  /\ extraction' = [extraction EXCEPT ![v] = IF @ = "ABSENT" THEN @ ELSE "FAILED"]

MarkFailed(v) ==
  /\ report[v] = "decided"
  /\ FailBoth(v)
  /\ report' = [report EXCEPT ![v] = "none"]
  /\ UNCHANGED <<unsent, queue, run, processed, indexed, left>>

ReportLost(v) ==
  /\ report[v] # "none"
  /\ report' = [report EXCEPT ![v] = "none"]
  /\ Strike("report")
  /\ UNCHANGED <<rows, unsent, queue, run, processed, indexed>>

-----------------------------------------------------------------------------
Init ==
  /\ version = [v \in Versions |-> "ABSENT"]
  /\ extraction = [v \in Versions |-> "ABSENT"]
  /\ unsent = {}
  /\ job = [v \in Versions |-> "none"]
  /\ tries = [v \in Versions |-> 0]
  /\ run = [w \in Workers |-> Idle]
  /\ report = [v \in Versions |-> "none"]
  /\ processed = [v \in Versions |-> 0]
  /\ indexed = {}
  /\ left = FaultBudget

Work(w) == Advance(w) \/ Quarantine(w) \/ CommitReady(w) \/ Complete(w) \/ Throw(w) \/ Reject(w)
PickUp(v) == \E w \in Workers : Skip(w, v) \/ Take(w, v)
Handle(v) == Examine(v) \/ MarkFailed(v)
Send(v) == Enqueue(v) \/ EnqueueFails(v)

Next ==
  \/ \E v \in Versions :
       Upload(v) \/ Send(v) \/ Reconcile(v) \/ PickUp(v) \/ Evict(v) \/ Drop(v)
         \/ Handle(v) \/ ReportLost(v)
  \/ \E w \in Workers : Work(w) \/ Crash(w) \/ Stall(w)

Spec == Init /\ [][Next]_vars

\* A request goes on to its enqueue, BullMQ hands out waiting jobs, a run goes
\* on until it ends, the failed event reaches the handler, the sweep recurs.
Fairness ==
  /\ \A v \in Versions : WF_vars(Send(v)) /\ WF_vars(PickUp(v)) /\ WF_vars(Handle(v))
                         /\ WF_vars(Reconcile(v))
  /\ \A w \in Workers : WF_vars(Work(w))

FairSpec == Spec /\ Fairness

-----------------------------------------------------------------------------
(* Properties *)

RunType == [version : Versions, at : Opening .. Refused, locked : BOOLEAN]

\* Every variable has the shape of the rows and queue entries it stands for.
TypeOK ==
  /\ version \in [Versions -> Statuses \cup {"ABSENT"}]
  /\ extraction \in [Versions -> Statuses \cup {"ABSENT"}]
  /\ unsent \subseteq Versions
  /\ job \in [Versions -> {"none", "waiting", "active", "completed", "failed"}]
  /\ tries \in [Versions -> 0 .. Attempts - 1]
  /\ run \in [Workers -> RunType \cup {Idle}]
  /\ report \in [Versions -> {"none", "due", "decided"}]
  /\ processed \in [Versions -> Nat]
  /\ indexed \subseteq Versions
  /\ left \in [Faults -> Nat]

Running(w, v) == run[w] # Idle /\ run[w].version = v

\* No crash, retry, stalled duplicate or sweep gets an infected file past the
\* scanner: neither row ever shows a later stage and it is never searchable
\* (processDocument, "Fail-CLOSED").
NothingInfectedPasses ==
  \A v \in Infected :
    /\ {version[v], extraction[v]} \cap {"EXTRACTING", "INDEXING", "TAGGING", "READY"} = {}
    /\ v \notin indexed

\* A job is active exactly while one run holds its lock: re-enqueues by the
\* API and the sweep collapse onto it (jobId = versionId).
OneLockHolder ==
  \A v \in Versions :
    Cardinality({w \in Workers : Running(w, v) /\ run[w].locked})
      = IF job[v] = "active" THEN 1 ELSE 0

\* Where no run outlives its lock, a verdict is final: READY and QUARANTINED
\* are never overwritten, whatever is retried or swept ("terminal").
VerdictsFinal ==
  [][\A v \in Versions : version[v] \in Done =>
       version'[v] = version[v] /\ extraction'[v] = extraction[v]]_vars

\* Then also a version is processed once: one VERSION_PROCESSED entry if it is
\* READY and none otherwise, after crashes between commit and completion too.
ProcessedOnce ==
  \A v \in Versions : processed[v] = IF version[v] = "READY" THEN 1 ELSE 0

\* And the two rows agree once a verdict or a failure is in, a version whose
\* every attempt failed before its first write having one row only.
RowsAgree ==
  \A v \in Versions :
    version[v] \in Settled =>
      extraction[v] = version[v] \/ (version[v] = "FAILED" /\ extraction[v] = "ABSENT")

\* A version a worker has touched ends READY, QUARANTINED or FAILED, although
\* workers crash and waiting jobs are lost: the sweep sees to it.
TouchedSettles ==
  \A v \in Versions : extraction[v] # "ABSENT" ~> version[v] \in Settled

\* Every uploaded version is settled in the end; a failed enqueue leaves it to
\* the sweep (documents.service.js, documentProcessing.queue.js).
UploadedSettles ==
  \A v \in Versions : version[v] # "ABSENT" ~> version[v] \in Settled
=============================================================================
