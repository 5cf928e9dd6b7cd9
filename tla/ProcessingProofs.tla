-------------------------- MODULE ProcessingProofs --------------------------
(***************************************************************************)
(* Processing for any versions, worker slots, attempts and faults: its     *)
(* types, that no infected file passes the scan, and that a job has one    *)
(* lock holder; and, where no run outlives its lock, that verdicts are     *)
(* final, versions processed once and the two rows in agreement.           *)
(***************************************************************************)
EXTENDS Processing, FiniteSetTheorems, TLAPS

(***************************************************************************)
(* A step of one version, and of one worker slot.                          *)
(***************************************************************************)
VersionStep(v) ==
  \/ Upload(v) \/ Enqueue(v) \/ EnqueueFails(v) \/ Reconcile(v) \/ Evict(v) \/ Drop(v)
  \/ Examine(v) \/ MarkFailed(v) \/ ReportLost(v)

(***************************************************************************)
(* Every step is one of these, or a pick-up.                               *)
(***************************************************************************)
LEMMA NextCases ==
  ASSUME Next
  PROVE  \/ \E v \in Versions : VersionStep(v)
         \/ \E v \in Versions, w \in Workers : Skip(w, v) \/ Take(w, v)
         \/ \E w \in Workers : Work(w) \/ Crash(w) \/ Stall(w)
BY DEF Next, VersionStep, Send, Handle, PickUp

(***************************************************************************)
(* The steps of a run in numbers.                                          *)
(***************************************************************************)
LEMMA Steps == Opening = 1 /\ Scanned = 3 /\ Commit = 9 /\ Index = 10 /\ Refused = 11
BY DEF Opening, Scanned, Commit, Index, Refused, Program

(***************************************************************************)
(* The second step writes SCANNING; every step writes a status.            *)
(***************************************************************************)
LEMMA ProgramWrites ==
  /\ Program[2] = [row |-> "version", to |-> "SCANNING"]
  /\ \A at \in 1 .. 8 : Program[at].to \in Statuses
BY DEF Program, Statuses

-----------------------------------------------------------------------------
(* Types *)

(***************************************************************************)
(* A step of a version keeps the types.                                    *)
(***************************************************************************)
LEMMA VersionTypes ==
  ASSUME TypeOK, NEW v \in Versions, VersionStep(v)
  PROVE  TypeOK'
<1> USE AttemptsPositive DEF TypeOK, rows, queue, Statuses, Strike
<1>1. CASE Upload(v)
  BY <1>1 DEF Upload
<1>2. CASE Enqueue(v) \/ Reconcile(v)
  BY <1>2 DEF Enqueue, Reconcile, AddJob, AddAgain
<1>3. CASE EnqueueFails(v)
  BY <1>3 DEF EnqueueFails, Faults
<1>4. CASE Evict(v)
  BY <1>4 DEF Evict
<1>5. CASE Drop(v)
  BY <1>5 DEF Drop, Faults
<1>6. CASE Examine(v)
  BY <1>6 DEF Examine
<1>7. CASE MarkFailed(v)
  BY <1>7 DEF MarkFailed, FailBoth
<1>8. CASE ReportLost(v)
  BY <1>8 DEF ReportLost, Faults
<1> QED
  BY <1>1, <1>2, <1>3, <1>4, <1>5, <1>6, <1>7, <1>8 DEF VersionStep

(***************************************************************************)
(* Ending a run keeps the types of runs and jobs.                          *)
(***************************************************************************)
LEMMA FinishTypes ==
  ASSUME TypeOK, NEW w \in Workers, run[w] # Idle,
         NEW state \in {"waiting", "completed", "failed"}, Finish(w, state)
  PROVE  /\ run' \in [Workers -> RunType \cup {Idle}]
         /\ job' \in [Versions -> {"none", "waiting", "active", "completed", "failed"}]
BY DEF Finish, TypeOK, RunType

(***************************************************************************)
(* A step of a worker slot keeps the types.                                *)
(***************************************************************************)
LEMMA WorkTypes ==
  ASSUME TypeOK, NEW w \in Workers, Work(w) \/ Crash(w) \/ Stall(w)
  PROVE  TypeOK'
<1> DEFINE v == run[w].version
<1>1. run[w] # Idle
  BY DEF Work, Advance, Quarantine, CommitReady, Complete, Throw, Reject, Crash, Stall
<1>2. v \in Versions /\ run[w].at \in 1 .. 11 /\ run[w].locked \in BOOLEAN
  BY <1>1, Steps DEF TypeOK, RunType
<1>3. ASSUME NEW s \in 1 .. 11 PROVE [run EXCEPT ![w].at = s] \in [Workers -> RunType \cup {Idle}]
  BY <1>1, <1>2, <1>3, Steps DEF TypeOK, RunType
<1>4. CASE Advance(w)
  <2>1. /\ run[w].at \in 1 .. 8
        /\ version' \in [Versions -> Statuses \cup {"ABSENT"}]
        /\ extraction' \in [Versions -> Statuses \cup {"ABSENT"}]
    BY <1>2, <1>4, Steps, ProgramWrites DEF Advance, OpenRow, WriteRow, TypeOK, Statuses
  <2>2. run' \in [Workers -> RunType \cup {Idle}]
    BY <1>3, <1>4, <2>1 DEF Advance, Goto
  <2> QED
    BY <1>4, <2>1, <2>2 DEF Advance, TypeOK, queue
<1>5. CASE Quarantine(w)
  <2>1. run' \in [Workers -> RunType \cup {Idle}]
    BY <1>3, <1>5, Steps DEF Quarantine, Goto
  <2> QED
    BY <1>2, <1>5, <2>1 DEF Quarantine, SetBoth, TypeOK, queue, Statuses
<1>6. CASE CommitReady(w)
  <2>1. run' \in [Workers -> RunType \cup {Idle}]
    BY <1>3, <1>6, Steps DEF CommitReady, Goto
  <2> QED
    BY <1>2, <1>6, <2>1 DEF CommitReady, SetBoth, TypeOK, queue, Statuses
<1>7. CASE Complete(w)
  BY <1>1, <1>2, <1>7, FinishTypes DEF Complete, TypeOK, rows
<1>8. CASE Throw(w) \/ Reject(w)
  <2>1. CASE Retry(w)
    <3>1. tries' \in [Versions -> 0 .. Attempts - 1]
      BY <1>2, <2>1, AttemptsPositive DEF Retry, AttemptsLeft, TypeOK
    <3> QED
      BY <1>1, <1>8, <2>1, <3>1, FinishTypes DEF Throw, Reject, Exhaust, Retry, TypeOK, rows
  <2>2. CASE Exhaust(w)
    BY <1>1, <1>2, <1>8, <2>2, FinishTypes DEF Throw, Reject, Exhaust, TypeOK, rows
  <2> QED
    BY <1>8, <2>1, <2>2 DEF Throw, Reject
<1>9. CASE Crash(w)
  BY <1>1, <1>9, FinishTypes DEF Crash, TypeOK, rows, Strike, Faults
<1>10. CASE Stall(w)
  <2>1. run' \in [Workers -> RunType \cup {Idle}]
    <3>1. run[w] \in RunType
      BY <1>1 DEF TypeOK
    <3>2. [run[w] EXCEPT !.locked = FALSE] \in RunType
      BY <3>1 DEF RunType
    <3>3. run' = [run EXCEPT ![w] = [run[w] EXCEPT !.locked = FALSE]]
      BY <1>10 DEF Stall
    <3> QED
      BY <3>2, <3>3 DEF TypeOK
  <2> QED
    BY <1>2, <1>10, <2>1 DEF Stall, TypeOK, rows, Strike, Faults
<1> QED
  BY <1>4, <1>5, <1>6, <1>7, <1>8, <1>9, <1>10 DEF Work

(***************************************************************************)
(* Every step keeps the types.                                             *)
(***************************************************************************)
LEMMA TypeStep ==
  ASSUME TypeOK, [Next]_vars
  PROVE  TypeOK'
<1>1. ASSUME NEW v \in Versions, NEW w \in Workers, Skip(w, v) \/ Take(w, v)
      PROVE  TypeOK'
  <2>1. CASE Skip(w, v)
    BY <2>1 DEF Skip, TypeOK, rows
  <2>2. CASE Take(w, v)
    <3>1. [version |-> v, at |-> Opening, locked |-> TRUE] \in RunType
      BY Steps DEF RunType
    <3> QED
      BY <2>2, <3>1 DEF Take, TypeOK, rows
  <2> QED
    BY <1>1, <2>1, <2>2
<1>2. CASE UNCHANGED vars
  BY <1>2 DEF vars, rows, queue, TypeOK
<1> QED
  BY <1>1, <1>2, NextCases, VersionTypes, WorkTypes

-----------------------------------------------------------------------------
(* The scan *)

(***************************************************************************)
(* What makes NothingInfectedPasses inductive: a run of an infected file   *)
(* is at the scan or before it, or has been refused.                       *)
(***************************************************************************)
HeldBack ==
  \A w \in Workers :
    run[w] # Idle /\ run[w].version \in Infected => run[w].at \in 1 .. Scanned \cup {Refused}

(***************************************************************************)
(* No step lets an infected file pass.                                     *)
(***************************************************************************)
LEMMA ScanStep ==
  ASSUME TypeOK, NothingInfectedPasses, HeldBack, [Next]_vars
  PROVE  NothingInfectedPasses' /\ HeldBack'
<1> USE Steps DEF NothingInfectedPasses, HeldBack
<1>1. ASSUME NEW v \in Versions, VersionStep(v) PROVE NothingInfectedPasses' /\ HeldBack'
  <2>1. run' = run /\ indexed' = indexed
    BY <1>1 DEF VersionStep, Upload, Enqueue, EnqueueFails, Reconcile, Evict, Drop, Examine,
       MarkFailed, ReportLost
  <2>2. \A u \in Versions :
          /\ version'[u] \in {version[u], "SCANNING", "FAILED"}
          /\ extraction'[u] \in {extraction[u], "FAILED"}
    BY <1>1 DEF VersionStep, Upload, Enqueue, EnqueueFails, Reconcile, Evict, Drop, Examine,
       MarkFailed, FailBoth, ReportLost, TypeOK, rows
  <2> QED
    BY <2>1, <2>2, InfectedKnown
<1>2. ASSUME NEW v \in Versions, NEW w \in Workers, Skip(w, v) \/ Take(w, v)
      PROVE  NothingInfectedPasses' /\ HeldBack'
  BY <1>2 DEF Skip, Take, TypeOK, rows
<1>3. ASSUME NEW w \in Workers, Work(w) \/ Crash(w) \/ Stall(w)
      PROVE  NothingInfectedPasses' /\ HeldBack'
  <2> DEFINE v == run[w].version
  <2>1. run[w] # Idle
    BY <1>3 DEF Work, Advance, Quarantine, CommitReady, Complete, Throw, Reject, Crash, Stall
  <2>2. v \in Versions /\ run[w].at \in 1 .. 11 /\ (v \in Infected => run[w].at \in {1, 2, 3, 11})
    BY <2>1 DEF TypeOK, RunType
  <2>3. CASE Advance(w)
    <3>1. v \notin Infected \/ run[w].at \in {1, 2}
      BY <2>2, <2>3 DEF Advance, PassesScan
    <3>2. \A u \in Infected :
            /\ version'[u] \in {version[u], "SCANNING"}
            /\ extraction'[u] \in {extraction[u], "SCANNING"}
      BY <2>2, <2>3, <3>1, ProgramWrites, InfectedKnown DEF Advance, OpenRow, WriteRow, TypeOK
    <3>3. HeldBack'
      BY <2>1, <2>2, <2>3, <3>1 DEF Advance, Goto, TypeOK
    <3> QED
      BY <2>3, <3>2, <3>3 DEF Advance
  <2>4. CASE Quarantine(w)
    BY <2>1, <2>2, <2>4, InfectedKnown DEF Quarantine, SetBoth, Goto, TypeOK
  <2>5. CASE CommitReady(w)
    <3>1. v \notin Infected
      BY <2>2, <2>5 DEF CommitReady
    <3> QED
      BY <2>1, <2>2, <2>5, <3>1, InfectedKnown DEF CommitReady, SetBoth, Goto, TypeOK
  <2>6. CASE Complete(w)
    <3>1. v \notin Infected
      BY <2>2, <2>6 DEF Complete
    <3> QED
      BY <2>6, <3>1 DEF Complete, Finish, TypeOK, rows
  <2>7. CASE Throw(w) \/ Reject(w) \/ Crash(w)
    <3>1. run' = [run EXCEPT ![w] = Idle] /\ UNCHANGED <<rows, indexed>>
      BY <2>7 DEF Throw, Reject, Crash, Retry, Exhaust, Finish
    <3> QED
      BY <3>1 DEF rows, TypeOK
  <2>8. CASE Stall(w)
    BY <2>1, <2>8 DEF Stall, rows, TypeOK
  <2> QED
    BY <1>3, <2>3, <2>4, <2>5, <2>6, <2>7, <2>8 DEF Work
<1>4. CASE UNCHANGED vars
  BY <1>4 DEF vars, rows
<1> QED
  BY <1>1, <1>2, <1>3, <1>4, NextCases

-----------------------------------------------------------------------------
(* The lock *)

Holds(w, v) == Running(w, v) /\ run[w].locked

(***************************************************************************)
(* What OneLockHolder says, without counting.                              *)
(***************************************************************************)
LockHeld ==
  \A v \in Versions :
    /\ \A w1, w2 \in Workers : Holds(w1, v) /\ Holds(w2, v) => w1 = w2
    /\ job[v] = "active" <=> \E w \in Workers : Holds(w, v)

(***************************************************************************)
(* A unique holder or none is a set of one or none.                        *)
(***************************************************************************)
LEMMA HoldersCounted == LockHeld => OneLockHolder
<1> SUFFICES ASSUME LockHeld, NEW v \in Versions
             PROVE  Cardinality({w \in Workers : Running(w, v) /\ run[w].locked})
                      = IF job[v] = "active" THEN 1 ELSE 0
  BY DEF OneLockHolder
<1> DEFINE H == {w \in Workers : Holds(w, v)}
<1>1. CASE job[v] = "active"
  <2>1. PICK w \in Workers : Holds(w, v)
    BY <1>1 DEF LockHeld
  <2>2. H = {w}
    BY <2>1 DEF LockHeld
  <2> QED
    BY <1>1, <2>2, FS_Singleton DEF Holds
<1>2. CASE job[v] # "active"
  <2>1. H = {}
    BY <1>2 DEF LockHeld
  <2> QED
    BY <1>2, <2>1, FS_EmptySet DEF Holds
<1> QED
  BY <1>1, <1>2

(***************************************************************************)
(* A run that ends, with its lock or without, leaves every job held by one *)
(* run or by none.                                                         *)
(***************************************************************************)
LEMMA FinishLock ==
  ASSUME TypeOK, LockHeld, NEW w \in Workers, run[w] # Idle,
         NEW state \in {"waiting", "completed", "failed"}, Finish(w, state)
  PROVE  LockHeld'
<1> DEFINE v == run[w].version
<1>1. v \in Versions
  BY DEF TypeOK, RunType
<1>2. \A u \in Versions, w1 \in Workers : Holds(w1, u)' <=> Holds(w1, u) /\ w1 # w
  BY DEF Holds, Running, Finish, TypeOK
<1>3. CASE run[w].locked
  <2>1. Holds(w, v) /\ \A u \in Versions : Holds(w, u) => u = v
    BY <1>3 DEF Holds, Running
  <2>2. job' = [job EXCEPT ![v] = state]
    BY <1>3 DEF Finish
  <2> QED
    BY <1>1, <1>2, <2>1, <2>2 DEF LockHeld, TypeOK
<1>4. CASE ~run[w].locked
  <2>1. job' = job /\ \A u \in Versions : ~Holds(w, u)
    BY <1>4 DEF Finish, Holds
  <2> QED
    BY <1>2, <2>1 DEF LockHeld
<1> QED
  BY <1>3, <1>4

(***************************************************************************)
(* Every step leaves every job held by one run or by none.                 *)
(***************************************************************************)
LEMMA LockStep ==
  ASSUME TypeOK, LockHeld, [Next]_vars
  PROVE  LockHeld'
<1>1. ASSUME NEW v \in Versions, VersionStep(v) PROVE LockHeld'
  <2>1. /\ run' = run
        /\ \A u \in Versions : job'[u] = "active" <=> job[u] = "active"
    BY <1>1 DEF VersionStep, Upload, Enqueue, EnqueueFails, Reconcile, AddJob, AddAgain, Evict,
       Drop, Examine, MarkFailed, ReportLost, TypeOK, queue
  <2> QED
    BY <2>1 DEF LockHeld, Holds, Running
<1>2. ASSUME NEW v \in Versions, NEW w \in Workers, Skip(w, v) PROVE LockHeld'
  <2>1. run' = run /\ \A u \in Versions : job'[u] = "active" <=> job[u] = "active"
    BY <1>2 DEF Skip, TypeOK
  <2> QED
    BY <2>1 DEF LockHeld, Holds, Running
<1>3. ASSUME NEW v \in Versions, NEW w \in Workers, Take(w, v) PROVE LockHeld'
  <2> DEFINE r == [version |-> v, at |-> Opening, locked |-> TRUE]
  <2>1. r # Idle
    <3>1. Opening \in Nat
      BY Steps
    <3>2. r \in [version : Versions, at : Nat, locked : BOOLEAN]
      BY <3>1
    <3> QED
      BY <3>2, IdleIsNoRun
  <2>2. \A u \in Versions, w1 \in Workers :
          Holds(w1, u)' <=> IF w1 = w THEN u = v ELSE Holds(w1, u)
    BY <1>3, <2>1 DEF Take, Holds, Running, TypeOK
  <2>3. \A w1 \in Workers : ~Holds(w1, v)
    BY <1>3 DEF Take, LockHeld
  <2>4. job' = [job EXCEPT ![v] = "active"] /\ ~Holds(w, v) /\ run[w] = Idle
    BY <1>3, <2>3 DEF Take
  <2>5. \A u \in Versions : ~Holds(w, u)
    BY <2>4 DEF Holds, Running
  <2> QED
    BY <2>2, <2>3, <2>4, <2>5 DEF LockHeld, TypeOK
<1>4. ASSUME NEW w \in Workers, Work(w) \/ Crash(w) \/ Stall(w) PROVE LockHeld'
  <2>1. run[w] # Idle
    BY <1>4 DEF Work, Advance, Quarantine, CommitReady, Complete, Throw, Reject, Crash, Stall
  <2>2. run[w] \in RunType /\ run[w].version \in Versions /\ run[w].at \in 1 .. 11
    BY <2>1, Steps DEF TypeOK, RunType
  <2>3. CASE Advance(w) \/ Quarantine(w) \/ CommitReady(w)
    <3>1. job' = job /\ \E s \in 1 .. 11 : run' = [run EXCEPT ![w].at = s]
      BY <2>2, <2>3, Steps DEF Advance, Quarantine, CommitReady, Goto, queue
    <3>2. PICK s \in 1 .. 11 : run' = [run EXCEPT ![w].at = s]
      BY <3>1
    <3>3. [run[w] EXCEPT !.at = s] \in RunType
      BY <2>2, Steps DEF RunType
    <3>4. [run[w] EXCEPT !.at = s] # Idle
      BY <3>3, IdleIsNoRun, Steps DEF RunType
    <3>5. run' = [run EXCEPT ![w] = [run[w] EXCEPT !.at = s]]
      BY <3>2
    <3>6. /\ [run[w] EXCEPT !.at = s].version = run[w].version
          /\ [run[w] EXCEPT !.at = s].locked = run[w].locked
      BY <2>2 DEF RunType
    <3>7. \A u \in Versions, w1 \in Workers : Holds(w1, u)' <=> Holds(w1, u)
      BY <2>1, <3>4, <3>5, <3>6 DEF Holds, Running, TypeOK
    <3> QED
      BY <3>1, <3>7 DEF LockHeld
  <2>4. CASE Complete(w) \/ Throw(w) \/ Reject(w) \/ Crash(w)
    BY <2>1, <2>4, FinishLock DEF Complete, Throw, Reject, Crash, Retry, Exhaust
  <2>5. CASE Stall(w)
    <3> DEFINE v == run[w].version
               r == [run[w] EXCEPT !.locked = FALSE]
    <3>1. run' = [run EXCEPT ![w] = r] /\ r.locked = FALSE /\ job' = [job EXCEPT ![v] = "waiting"]
      BY <2>2, <2>5 DEF Stall, RunType
    <3>2. \A u \in Versions, w1 \in Workers : Holds(w1, u)' <=> Holds(w1, u) /\ w1 # w
      BY <3>1 DEF Holds, Running, TypeOK
    <3>3. Holds(w, v) /\ \A u \in Versions : Holds(w, u) => u = v
      BY <2>1, <2>5 DEF Stall, Holds, Running
    <3> QED
      BY <2>2, <3>1, <3>2, <3>3 DEF LockHeld, TypeOK
  <2> QED
    BY <1>4, <2>3, <2>4, <2>5 DEF Work
<1>5. CASE UNCHANGED vars
  BY <1>5 DEF vars, queue, LockHeld, Holds, Running
<1> QED
  BY <1>1, <1>2, <1>3, <1>4, <1>5, NextCases

-----------------------------------------------------------------------------
(* Where no run outlives its lock *)

NoStalls == FaultBudget["stall"] = 0

(***************************************************************************)
(* How the rows, the job and the report of a version hang together: what   *)
(* is waiting or worked on has no failure to report, and a failure is      *)
(* only reported of a version without a verdict.                           *)
(***************************************************************************)
VersionSound(v) ==
  /\ processed[v] = IF version[v] = "READY" THEN 1 ELSE 0
  /\ version[v] \in Done => extraction[v] = version[v]
  /\ version[v] = "FAILED" => extraction[v] \in {"FAILED", "ABSENT"}
  /\ extraction[v] \in Settled => version[v] = extraction[v]
  /\ version[v] = "ABSENT" => extraction[v] = "ABSENT" /\ v \notin unsent /\ job[v] = "none"
  /\ v \in unsent => version[v] = "SCANNING" /\ extraction[v] = "ABSENT" /\ job[v] = "none"
  /\ job[v] \in {"waiting", "active"} => version[v] \notin {"ABSENT", "FAILED"}
  /\ report[v] # "none" => job[v] = "failed"
  /\ report[v] = "decided" => version[v] \notin Done

(***************************************************************************)
(* A run has its lock, and its version a verdict only once the run has     *)
(* committed one itself.                                                   *)
(***************************************************************************)
RunSound(w) ==
  run[w] # Idle =>
    /\ run[w].locked
    /\ run[w].at = Index => version[run[w].version] = "READY"
    /\ run[w].at = Refused => version[run[w].version] = "QUARANTINED"
    /\ run[w].at <= Commit => version[run[w].version] \notin Done

Unstalled ==
  /\ left["stall"] = 0
  /\ \A v \in Versions : VersionSound(v)
  /\ \A w \in Workers : RunSound(w)

(***************************************************************************)
(* Then two runs never work on one version, and a run's job is active.     *)
(***************************************************************************)
LEMMA RunsApart ==
  ASSUME TypeOK, LockHeld, Unstalled, NEW w \in Workers, run[w] # Idle
  PROVE  /\ run[w] \in RunType
         /\ run[w].version \in Versions /\ run[w].at \in 1 .. 11 /\ run[w].locked
         /\ job[run[w].version] = "active"
         /\ \A w1 \in Workers : run[w1] # Idle /\ run[w1].version = run[w].version => w1 = w
<1>1. run[w] \in RunType /\ run[w].version \in Versions /\ run[w].at \in 1 .. 11
  BY Steps DEF TypeOK, RunType
<1>2. \A w1 \in Workers : run[w1] # Idle => Holds(w1, run[w1].version)
  BY DEF Unstalled, RunSound, Holds, Running
<1> QED
  BY <1>1, <1>2 DEF LockHeld, Holds

(***************************************************************************)
(* A step of a version leaves runs and other versions alone, and the rows  *)
(* of a version a run works on.                                            *)
(***************************************************************************)
LEMMA VersionStepKeeps ==
  ASSUME TypeOK, LockHeld, Unstalled, NEW v \in Versions, VersionStep(v)
  PROVE  /\ run' = run /\ processed' = processed /\ left'["stall"] = left["stall"]
         /\ \A u \in Versions \ {v} :
              /\ version'[u] = version[u] /\ extraction'[u] = extraction[u]
              /\ job'[u] = job[u] /\ report'[u] = report[u] /\ (u \in unsent' <=> u \in unsent)
         /\ version'[v] # version[v] =>
              \/ version[v] = "ABSENT" /\ version'[v] = "SCANNING" /\ job[v] = "none"
              \/ version[v] \notin Done /\ version'[v] = "FAILED" /\ job[v] = "failed"
<1> USE DEF TypeOK, rows, queue, Strike, Faults
<1>0. VersionSound(v)
  BY DEF Unstalled
<1>1. CASE Upload(v)
  BY <1>0, <1>1 DEF Upload, VersionSound
<1>2. CASE Enqueue(v) \/ Reconcile(v)
  BY <1>2 DEF Enqueue, Reconcile, AddJob, AddAgain
<1>3. CASE EnqueueFails(v) \/ Evict(v) \/ Drop(v)
  BY <1>3 DEF EnqueueFails, Evict, Drop
<1>4. CASE Examine(v) \/ ReportLost(v)
  BY <1>4 DEF Examine, ReportLost
<1>5. CASE MarkFailed(v)
  BY <1>0, <1>5 DEF MarkFailed, FailBoth, VersionSound
<1> QED
  BY <1>1, <1>2, <1>3, <1>4, <1>5 DEF VersionStep

(***************************************************************************)
(* And leaves the version itself sound.                                    *)
(***************************************************************************)
LEMMA VersionStepSound ==
  ASSUME TypeOK, LockHeld, Unstalled, NEW v \in Versions, VersionStep(v)
  PROVE  VersionSound(v)'
<1> USE DEF TypeOK, rows, queue, VersionSound, Done, Settled
<1>0. VersionSound(v)
  BY DEF Unstalled
<1>1. CASE Upload(v)
  BY <1>0, <1>1 DEF Upload
<1>2. CASE Enqueue(v) \/ Reconcile(v)
  BY <1>0, <1>2 DEF Enqueue, Reconcile, AddJob, AddAgain, Stuck
<1>3. CASE EnqueueFails(v) \/ Evict(v) \/ Drop(v)
  BY <1>0, <1>3 DEF EnqueueFails, Evict, Drop
<1>4. CASE Examine(v) \/ ReportLost(v)
  BY <1>0, <1>4 DEF Examine, ReportLost
<1>5. CASE MarkFailed(v)
  BY <1>0, <1>5 DEF MarkFailed, FailBoth
<1> QED
  BY <1>1, <1>2, <1>3, <1>4, <1>5 DEF VersionStep

(***************************************************************************)
(* What a step of a run writes is one version's, and no verdict but the    *)
(* run's own; a run that ends tells its job.                               *)
(***************************************************************************)
LEMMA WorkWrites ==
  ASSUME TypeOK, LockHeld, Unstalled, NEW w \in Workers, run[w] # Idle,
         Work(w) \/ Crash(w)
  PROVE  /\ UNCHANGED unsent
         /\ left'["stall"] = left["stall"]
         /\ \A u \in Versions \ {run[w].version} :
              /\ version'[u] = version[u] /\ extraction'[u] = extraction[u]
              /\ job'[u] = job[u] /\ report'[u] = report[u] /\ processed'[u] = processed[u]
         /\ \A w1 \in Workers \ {w} : run'[w1] = run[w1]
<1> DEFINE v == run[w].version
<1>1. v \in Versions /\ run[w].locked
  BY RunsApart
<1>2. ASSUME NEW state, Finish(w, state)
      PROVE  /\ \A u \in Versions \ {v} : job'[u] = job[u]
             /\ \A w1 \in Workers \ {w} : run'[w1] = run[w1]
  BY <1>1, <1>2 DEF Finish, TypeOK
<1>3. CASE Advance(w)
  BY <1>1, <1>3 DEF Advance, OpenRow, WriteRow, Goto, queue, TypeOK
<1>4. CASE Quarantine(w) \/ CommitReady(w)
  BY <1>1, <1>4 DEF Quarantine, CommitReady, SetBoth, Goto, queue, TypeOK
<1>5. CASE Complete(w) \/ Crash(w)
  BY <1>2, <1>5 DEF Complete, Crash, rows, Strike, Faults, TypeOK
<1>6. CASE Throw(w) \/ Reject(w)
  <2>1. \A u \in Versions \ {v} : report'[u] = report[u]
    BY <1>1, <1>6 DEF Throw, Reject, Retry, Exhaust, TypeOK
  <2> QED
    BY <1>2, <1>6, <2>1 DEF Throw, Reject, Retry, Exhaust, rows
<1> QED
  BY <1>3, <1>4, <1>5, <1>6 DEF Work

(***************************************************************************)
(* The writes of a run before its commit, the opening one apart.           *)
(***************************************************************************)
LEMMA ProgramNotSettled == \A at \in 2 .. 8 : Program[at].to \notin Settled \cup {"ABSENT"}
BY DEF Program, Settled, Done

(***************************************************************************)
(* A step of a run leaves its version and itself sound.                    *)
(***************************************************************************)
LEMMA WorkSound ==
  ASSUME TypeOK, LockHeld, Unstalled, NEW w \in Workers, run[w] # Idle,
         Work(w) \/ Crash(w), NEW v \in Versions, v = run[w].version
  PROVE  VersionSound(v)' /\ RunSound(w)'
<1> DEFINE at == run[w].at
<1> USE Steps
<1>1. /\ run[w] \in RunType /\ v \in Versions /\ at \in 1 .. 11 /\ run[w].locked
      /\ job[v] = "active"
  BY RunsApart
<1>2. /\ at = 10 => version[v] = "READY"
      /\ at = 11 => version[v] = "QUARANTINED"
      /\ at <= 9 => version[v] \notin Done
  BY DEF Unstalled, RunSound
<1>3. VersionSound(v) /\ version[v] \notin {"ABSENT", "FAILED"} /\ v \notin unsent
      /\ report[v] = "none"
  BY <1>1 DEF Unstalled, VersionSound, TypeOK
<1>4. ASSUME NEW s \in 1 .. 11, Goto(w, s)
      PROVE  run'[w].at = s /\ run'[w].version = v /\ run'[w].locked
  BY <1>1, <1>4 DEF Goto, RunType, TypeOK
<1>5. ASSUME NEW state, Finish(w, state)
      PROVE  run'[w] = Idle /\ job'[v] = state
  BY <1>1, <1>5 DEF Finish, TypeOK
<1>6. CASE Advance(w)
  <2>1. at \in 1 .. 8 /\ run'[w].at = at + 1 /\ run'[w].version = v /\ run'[w].locked
    BY <1>1, <1>4, <1>6 DEF Advance
  <2>2. UNCHANGED <<unsent, job, report, processed>>
    BY <1>6 DEF Advance, queue
  <2>3. /\ version'[v] \notin Settled \cup {"ABSENT"}
        /\ extraction'[v] \notin Settled
    <3>1. version[v] \notin Settled \cup {"ABSENT"} /\ extraction[v] \notin Settled
      BY <1>2, <1>3, <2>1 DEF VersionSound, Settled, Done
    <3>2. CASE at = 1
      BY <1>1, <1>6, <3>1, <3>2 DEF Advance, OpenRow, Settled, Done, TypeOK
    <3>3. CASE at # 1
      BY <1>1, <1>6, <2>1, <3>1, <3>3, ProgramNotSettled DEF Advance, WriteRow, TypeOK
    <3> QED
      BY <3>2, <3>3
  <2>4. VersionSound(v)'
    BY <1>1, <1>2, <1>3, <2>1, <2>2, <2>3 DEF VersionSound, Settled, Done
  <2>5. RunSound(w)'
    BY <2>1, <2>3 DEF RunSound, Settled, Done
  <2> QED
    BY <2>4, <2>5
<1>7. CASE Quarantine(w)
  <2>1. run'[w].at = 11 /\ run'[w].version = v /\ run'[w].locked /\ at = 3
    BY <1>4, <1>7 DEF Quarantine
  <2>2. UNCHANGED <<unsent, job, report, processed>>
    BY <1>7 DEF Quarantine, queue
  <2>3. version'[v] = "QUARANTINED" /\ extraction'[v] = "QUARANTINED"
    BY <1>1, <1>7 DEF Quarantine, SetBoth, TypeOK
  <2>4. VersionSound(v)'
    BY <1>1, <1>2, <1>3, <2>1, <2>2, <2>3 DEF VersionSound, Settled, Done
  <2>5. RunSound(w)'
    BY <2>1, <2>3 DEF RunSound
  <2> QED
    BY <2>4, <2>5
<1>8. CASE CommitReady(w)
  <2>1. run'[w].at = 10 /\ run'[w].version = v /\ run'[w].locked /\ at = 9
    BY <1>4, <1>8 DEF CommitReady
  <2>2. UNCHANGED <<unsent, job, report>>
    BY <1>8 DEF CommitReady, queue
  <2>3. version'[v] = "READY" /\ extraction'[v] = "READY" /\ processed'[v] = processed[v] + 1
    BY <1>1, <1>8 DEF CommitReady, SetBoth, TypeOK
  <2>4. VersionSound(v)'
    BY <1>1, <1>2, <1>3, <2>1, <2>2, <2>3 DEF VersionSound, Settled, Done
  <2>5. RunSound(w)'
    BY <2>1, <2>3 DEF RunSound
  <2> QED
    BY <2>4, <2>5
<1>9. CASE Complete(w)
  <2>1. UNCHANGED <<version, extraction, unsent, report, processed>>
    BY <1>9 DEF Complete, rows
  <2>2. run'[w] = Idle /\ job'[v] = "completed"
    BY <1>5, <1>9 DEF Complete
  <2>3. VersionSound(v)'
    BY <1>3, <2>1, <2>2 DEF VersionSound
  <2> QED
    BY <2>2, <2>3 DEF RunSound
<1>10. CASE Crash(w)
  <2>1. UNCHANGED <<version, extraction, unsent, report, processed>>
    BY <1>10 DEF Crash, rows
  <2>2. run'[w] = Idle /\ job'[v] = "waiting"
    BY <1>5, <1>10 DEF Crash
  <2>3. VersionSound(v)'
    BY <1>3, <2>1, <2>2 DEF VersionSound
  <2> QED
    BY <2>2, <2>3 DEF RunSound
<1>11. CASE Throw(w) \/ Reject(w)
  <2>1. UNCHANGED <<version, extraction, unsent, processed>>
    BY <1>11 DEF Throw, Reject, rows
  <2>2. CASE Retry(w)
    <3>1. run'[w] = Idle /\ job'[v] = "waiting" /\ report' = report
      BY <1>5, <2>2 DEF Retry
    <3>2. VersionSound(v)'
      BY <1>3, <2>1, <3>1 DEF VersionSound
    <3> QED
      BY <3>1, <3>2 DEF RunSound
  <2>3. CASE Exhaust(w)
    <3>1. run'[w] = Idle /\ job'[v] = "failed" /\ report'[v] = "due"
      BY <1>1, <1>5, <2>3 DEF Exhaust, TypeOK
    <3>2. VersionSound(v)'
      BY <1>2, <1>3, <2>1, <3>1 DEF VersionSound
    <3> QED
      BY <3>1, <3>2 DEF RunSound
  <2> QED
    BY <1>11, <2>2, <2>3 DEF Throw, Reject
<1> QED
  BY <1>6, <1>7, <1>8, <1>9, <1>10, <1>11 DEF Work

(***************************************************************************)
(* A pick-up leaves its version and the run sound.                         *)
(***************************************************************************)
LEMMA PickUpSound ==
  ASSUME TypeOK, LockHeld, Unstalled, NEW v \in Versions, NEW w \in Workers,
         Skip(w, v) \/ Take(w, v)
  PROVE  Unstalled'
<1>1. UNCHANGED <<rows, unsent, report, processed, left>>
  BY DEF Skip, Take
<1>2. \A u \in Versions : VersionSound(u)'
  <2> TAKE u \in Versions
  <2>1. VersionSound(u)
    BY DEF Unstalled
  <2>2. job'[u] = job[u] \/ (job[u] = "waiting" /\ job'[u] \in {"active", "completed"})
    BY DEF Skip, Take, TypeOK
  <2> QED
    BY <1>1, <2>1, <2>2 DEF VersionSound, rows
<1>3. \A w1 \in Workers : RunSound(w1)'
  <2> TAKE w1 \in Workers
  <2>1. RunSound(w1)
    BY DEF Unstalled
  <2>2. CASE run'[w1] = run[w1]
    BY <1>1, <2>1, <2>2 DEF RunSound, rows
  <2>3. CASE run'[w1] # run[w1]
    <3>1. w1 = w /\ Take(w, v) /\ run'[w] = [version |-> v, at |-> Opening, locked |-> TRUE]
      BY <2>3 DEF Skip, Take, TypeOK
    <3>2. version[v] \notin Done
      BY <3>1 DEF Take, Barred
    <3> QED
      BY <1>1, <3>1, <3>2, Steps DEF RunSound, rows
  <2> QED
    BY <2>2, <2>3
<1> QED
  BY <1>1, <1>2, <1>3 DEF Unstalled

(***************************************************************************)
(* Where no run outlives its lock, every step leaves versions and runs     *)
(* sound, and the rows of a version with a verdict alone.                  *)
(***************************************************************************)
LEMMA UnstalledStep ==
  ASSUME TypeOK, LockHeld, Unstalled, [Next]_vars
  PROVE  /\ Unstalled'
         /\ \A u \in Versions : version[u] \in Done =>
              version'[u] = version[u] /\ extraction'[u] = extraction[u]
<1> DEFINE Final == \A u \in Versions : version[u] \in Done =>
                      version'[u] = version[u] /\ extraction'[u] = extraction[u]
<1>1. ASSUME NEW v \in Versions, VersionStep(v) PROVE Unstalled' /\ Final
  <2>1. \A u \in Versions : VersionSound(u)'
    <3> TAKE u \in Versions
    <3>1. CASE u = v
      BY <1>1, <3>1, VersionStepSound
    <3>2. CASE u # v
      <4>1. VersionSound(u)
        BY DEF Unstalled
      <4> QED
        BY <1>1, <3>2, <4>1, VersionStepKeeps DEF VersionSound
    <3> QED
      BY <3>1, <3>2
  <2>2. \A u \in Versions : job[u] = "active" => version'[u] = version[u]
    BY <1>1, VersionStepKeeps
  <2>3. \A w \in Workers : RunSound(w)'
    <3> TAKE w \in Workers
    <3>1. CASE run[w] = Idle
      BY <1>1, <3>1, VersionStepKeeps DEF RunSound
    <3>2. CASE run[w] # Idle
      <4>1. version'[run[w].version] = version[run[w].version] /\ RunSound(w)
        BY <2>2, <3>2, RunsApart DEF Unstalled
      <4> QED
        BY <1>1, <4>1, VersionStepKeeps DEF RunSound
    <3> QED
      BY <3>1, <3>2
  <2>4. Final
    <3> SUFFICES ASSUME NEW u \in Versions, version[u] \in Done
                 PROVE  version'[u] = version[u] /\ extraction'[u] = extraction[u]
      OBVIOUS
    <3>1. CASE u # v
      BY <1>1, <3>1, VersionStepKeeps
    <3>2. CASE u = v
      <4>1. version'[v] = version[v]
        BY <1>1, <3>2, VersionStepKeeps DEF Done
      <4>2. VersionSound(v) /\ VersionSound(v)'
        BY <2>1 DEF Unstalled
      <4> QED
        BY <3>2, <4>1, <4>2 DEF VersionSound
    <3> QED
      BY <3>1, <3>2
  <2> QED
    BY <1>1, <2>1, <2>3, <2>4, VersionStepKeeps DEF Unstalled
<1>2. ASSUME NEW v \in Versions, NEW w \in Workers, Skip(w, v) \/ Take(w, v)
      PROVE  Unstalled' /\ Final
  <2>1. rows' = rows
    BY <1>2 DEF Skip, Take
  <2> QED
    BY <1>2, <2>1, PickUpSound DEF rows
<1>3. ASSUME NEW w \in Workers, Work(w) \/ Crash(w) \/ Stall(w) PROVE Unstalled' /\ Final
  <2>1. run[w] # Idle /\ (Work(w) \/ Crash(w))
    BY <1>3 DEF Work, Advance, Quarantine, CommitReady, Complete, Throw, Reject, Crash, Stall,
       Strike, Unstalled
  <2>2. PICK v \in Versions : v = run[w].version
    BY <2>1, RunsApart
  <2>3. VersionSound(v) /\ VersionSound(v)' /\ RunSound(w) /\ RunSound(w)'
    BY <2>1, <2>2, WorkSound DEF Unstalled
  <2>4. \A u \in Versions : VersionSound(u)'
    <3> TAKE u \in Versions
    <3>1. CASE u # v
      <4>1. VersionSound(u)
        BY DEF Unstalled
      <4>2. /\ version'[u] = version[u] /\ extraction'[u] = extraction[u]
            /\ job'[u] = job[u] /\ report'[u] = report[u] /\ processed'[u] = processed[u]
            /\ unsent' = unsent
        BY <2>1, <2>2, <3>1, WorkWrites
      <4> QED
        BY <4>1, <4>2 DEF VersionSound
    <3> QED
      BY <2>3, <3>1
  <2>5. \A w1 \in Workers : RunSound(w1)'
    <3> TAKE w1 \in Workers
    <3>1. CASE w1 # w
      <4>1. run'[w1] = run[w1] /\ RunSound(w1)
        BY <2>1, <2>2, <3>1, WorkWrites DEF Unstalled
      <4>2. run[w1] # Idle =>
              run[w1].version # v /\ version'[run[w1].version] = version[run[w1].version]
        BY <2>1, <2>2, <3>1, RunsApart, WorkWrites
      <4> QED
        BY <4>1, <4>2 DEF RunSound
    <3> QED
      BY <2>3, <3>1
  <2>6. Final
    <3> SUFFICES ASSUME NEW u \in Versions, version[u] \in Done
                 PROVE  version'[u] = version[u] /\ extraction'[u] = extraction[u]
      OBVIOUS
    <3>1. CASE u # v
      BY <2>1, <2>2, <3>1, WorkWrites
    <3>2. CASE u = v
      <4>1. run[w].at \in {10, 11}
        BY <2>1, <2>2, <2>3, <3>2, RunsApart, Steps DEF RunSound
      <4>2. Complete(w) \/ Throw(w) \/ Reject(w) \/ Crash(w)
        BY <2>1, <4>1, Steps DEF Work, Advance, Quarantine, CommitReady
      <4> QED
        BY <4>2 DEF Complete, Throw, Reject, Crash, rows
    <3> QED
      BY <3>1, <3>2
  <2> QED
    BY <2>1, <2>4, <2>5, <2>6, WorkWrites DEF Unstalled
<1>4. CASE UNCHANGED vars
  BY <1>4 DEF vars, rows, queue, Unstalled, VersionSound, RunSound
<1> QED
  BY <1>1, <1>2, <1>3, <1>4, NextCases

-----------------------------------------------------------------------------
(* The theorems *)

IInv == TypeOK /\ NothingInfectedPasses /\ HeldBack /\ LockHeld

(***************************************************************************)
(* The inductive invariant of the pipeline.                                *)
(***************************************************************************)
THEOREM Invariance == Spec => []IInv
<1>1. Init => IInv
  <2> SUFFICES ASSUME Init PROVE IInv
    OBVIOUS
  <2>1. TypeOK
    BY AttemptsPositive, BudgetTyped DEF Init, TypeOK
  <2>2. NothingInfectedPasses /\ HeldBack
    BY InfectedKnown DEF Init, NothingInfectedPasses, HeldBack
  <2>3. LockHeld
    BY DEF Init, LockHeld, Holds, Running
  <2> QED
    BY <2>1, <2>2, <2>3 DEF IInv
<1>2. IInv /\ [Next]_vars => IInv'
  BY TypeStep, ScanStep, LockStep DEF IInv
<1> QED
  BY <1>1, <1>2, PTL DEF Spec

(***************************************************************************)
(* The rows and the queue always hold values of their types.               *)
(***************************************************************************)
THEOREM TypeCorrect == Spec => []TypeOK
<1>1. IInv => TypeOK
  BY DEF IInv
<1> QED
  BY <1>1, Invariance, PTL

(***************************************************************************)
(* Whatever crashes, stalls, retries and sweeps there are, no infected     *)
(* file is taken further than the scan (processDocument, "Fail-CLOSED").   *)
(***************************************************************************)
THEOREM ScanHolds == Spec => []NothingInfectedPasses
<1>1. IInv => NothingInfectedPasses
  BY DEF IInv
<1> QED
  BY <1>1, Invariance, PTL

(***************************************************************************)
(* However often a version is enqueued, an active job has one lock holder  *)
(* and every other job none (enqueueDocumentProcessing, jobId).            *)
(***************************************************************************)
THEOREM JobsHeldOnce == Spec => []OneLockHolder
<1>1. IInv => OneLockHolder
  BY HoldersCounted DEF IInv
<1> QED
  BY <1>1, Invariance, PTL

(***************************************************************************)
(* With no stalls, versions and runs are sound at every step.              *)
(***************************************************************************)
THEOREM UnstalledInvariance == NoStalls => (Spec => []Unstalled)
<1>1. NoStalls /\ Init => Unstalled
  BY Steps DEF NoStalls, Init, Unstalled, VersionSound, RunSound, Done, Settled
<1>2. IInv /\ Unstalled /\ [Next]_vars => Unstalled'
  BY UnstalledStep DEF IInv
<1>3. CASE NoStalls
  <2>1. Init => Unstalled
    BY <1>1, <1>3
  <2> QED
    BY <1>2, <2>1, Invariance, PTL DEF Spec
<1> QED
  BY <1>3

(***************************************************************************)
(* Where no run outlives its lock, a version has a VERSION_PROCESSED entry *)
(* exactly if it is READY, after crashes, lost jobs and retries too        *)
(* (processDocument, the commit and the skip of a terminal version).       *)
(***************************************************************************)
THEOREM VersionsProcessedOnce == NoStalls => (Spec => []ProcessedOnce)
<1>1. Unstalled => ProcessedOnce
  BY DEF Unstalled, VersionSound, ProcessedOnce
<1>2. CASE NoStalls
  BY <1>1, <1>2, UnstalledInvariance, PTL
<1> QED
  BY <1>2

(***************************************************************************)
(* There too, the version and the extraction row tell the same verdict,    *)
(* although each status is written to them in separate transactions        *)
(* (setVersionStatus, setExtractionFields, markProcessingFailed).          *)
(***************************************************************************)
THEOREM VerdictsAgree == NoStalls => (Spec => []RowsAgree)
<1>1. Unstalled => RowsAgree
  BY DEF Unstalled, VersionSound, RowsAgree, Settled
<1>2. CASE NoStalls
  BY <1>1, <1>2, UnstalledInvariance, PTL
<1> QED
  BY <1>2

(***************************************************************************)
(* And no step changes a row of a version that is READY or QUARANTINED: a  *)
(* failure report already decided finds no verdict, and no run begins on   *)
(* one (TERMINAL, markProcessingFailed).                                   *)
(***************************************************************************)
THEOREM VerdictsStay == NoStalls => (Spec => VerdictsFinal)
<1>1. IInv /\ Unstalled /\ [Next]_vars =>
        [\A v \in Versions : version[v] \in Done =>
          version'[v] = version[v] /\ extraction'[v] = extraction[v]]_vars
  BY UnstalledStep DEF IInv
<1>2. CASE NoStalls
  BY <1>1, <1>2, Invariance, UnstalledInvariance, PTL DEF Spec, VerdictsFinal
<1> QED
  BY <1>2
=============================================================================
