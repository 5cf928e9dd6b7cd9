---------------------------- MODULE MCProcessing ----------------------------
(***************************************************************************)
(* Small instances of Processing: a clean and an infected version, two     *)
(* worker slots, two attempts.                                             *)
(***************************************************************************)
EXTENDS Processing, TLC

CONSTANTS clean, infected, worker1, worker2

TwoWorkers == {worker1, worker2}
WorkerSymmetry == Permutations(TwoWorkers)

Budget(lostEnqueues, drops, crashes, stalls, lostReports) ==
  "enqueue" :> lostEnqueues @@ "drop" :> drops @@ "crash" :> crashes
    @@ "stall" :> stalls @@ "report" :> lostReports

StallsAndLostReports == Budget(0, 0, 1, 1, 1)
CrashesAndLosses == Budget(1, 1, 1, 0, 0)
EnqueueFault == Budget(1, 0, 0, 0, 0)
=============================================================================
