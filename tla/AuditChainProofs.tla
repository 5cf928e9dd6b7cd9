-------------------------- MODULE AuditChainProofs --------------------------
(***************************************************************************)
(* AuditChain for any number of transactions and rows: its types, that the *)
(* chain always verifies, that it implements AppendOnlyLog, and that its   *)
(* transactions do not deadlock.                                           *)
(***************************************************************************)
EXTENDS AuditChain, TLAPS

(***************************************************************************)
(* The last of a set of entries is the one all others come before.         *)
(***************************************************************************)
LEMMA LastIs ==
  ASSUME NEW S \in SUBSET Entries, NEW e \in S, \A f \in S \ {e} : f.seq < e.seq
  PROVE  Last(S) = e
<1>1. \A f \in S : f.seq \in Nat
  BY DEF Entries
<1>2. \A f \in S : f.seq <= e.seq
  BY <1>1
<1>3. \A d \in S : (\A f \in S : f.seq <= d.seq) => d = e
  BY <1>1
<1> QED
  BY <1>2, <1>3 DEF Last

-----------------------------------------------------------------------------
(* The inductive invariant *)

Holding == {"locked", "read", "inserted"}

\* Exactly the holder of the lock is between its lock and its end; what it has
\* read is still the tip; what it has inserted comes after every entry.
LockExcludes == \A t \in Txns : pc[t] \in Holding => lock = t

TipStands ==
  \A t \in Txns :
    /\ pc[t] \in {"read", "inserted"} => prevHash[t] = Tip(log)
    /\ pc[t] = "inserted" =>
         /\ entry[t].id = t
         /\ entry[t].prevHash = prevHash[t]
         /\ entry[t].entryHash = Append(prevHash[t], t)
         /\ entry[t].seq < nextSeq
         /\ \A e \in log : e.seq < entry[t].seq

LogBelow == \A e \in log : e.seq < nextSeq

CommittedMade == \A t \in Txns : t \in made <=> pc[t] = "committed"

IInv ==
  /\ TypeOK /\ LockExcludes /\ TipStands /\ LogBelow /\ CommittedMade
  /\ ChainValid /\ Tip(log) \in Hashes

(***************************************************************************)
(* A committed entry becomes the tip, the history before it unchanged.     *)
(***************************************************************************)
LEMMA CommitAppends ==
  ASSUME IInv, NEW t \in Txns, Commit(t)
  PROVE  /\ entry[t] \in Entries
         /\ Tip(log') = Append(Tip(log), t)
         /\ ChainValid'
<1>1. /\ pc[t] = "inserted" /\ entry[t] \in Entries /\ log' = log \cup {entry[t]}
      /\ entry[t].entryHash = Append(Tip(log), t) /\ entry[t].prevHash = Tip(log)
      /\ entry[t].id = t
      /\ \A e \in log : e.seq < entry[t].seq
      /\ log \in SUBSET Entries
  BY DEF Commit, IInv, TipStands, TypeOK
<1>2. Last(log') = entry[t]
  BY <1>1, LastIs
<1>3. Tip(log') = Append(Tip(log), t)
  BY <1>1, <1>2 DEF Tip
<1>4. \A e \in log' : e.seq \in Nat
  BY <1>1 DEF Entries
<1>5. {f \in log' : f.seq < entry[t].seq} = log
  BY <1>1, <1>4
<1>6. \A e \in log : {f \in log' : f.seq < e.seq} = {f \in log : f.seq < e.seq}
  BY <1>1, <1>4
<1>7. ChainValid'
  <2> SUFFICES ASSUME NEW e \in log'
               PROVE  /\ e.prevHash = Tip({f \in log' : f.seq < e.seq})
                      /\ e.entryHash = Append(e.prevHash, e.id)
    BY DEF ChainValid, Before
  <2>1. CASE e \in log
    BY <1>6, <2>1 DEF IInv, ChainValid, Before
  <2>2. CASE e = entry[t]
    BY <1>1, <1>5, <2>2
  <2> QED
    BY <1>1, <2>1, <2>2
<1> QED
  BY <1>1, <1>3, <1>7

(***************************************************************************)
(* Every step keeps the types.                                             *)
(***************************************************************************)
LEMMA TypeStep ==
  ASSUME IInv, [Next]_vars
  PROVE  TypeOK'
<1> USE DEF IInv, TypeOK
<1>1. ASSUME NEW t \in Txns, Begin(t) PROVE TypeOK'
  BY <1>1 DEF Begin, Live
<1>2. ASSUME NEW t \in Txns, Write(t) PROVE TypeOK'
  BY <1>2, RowsKnown DEF Write, Live
<1>3. ASSUME NEW t \in Txns, Lock(t) PROVE TypeOK'
  BY <1>3 DEF Lock, ExclusiveLock, Live
<1>4. ASSUME NEW t \in Txns, ReadTip(t) PROVE TypeOK'
  BY <1>4 DEF ReadTip, Live
<1>5. ASSUME NEW t \in Txns, Insert(t) PROVE TypeOK'
  <2>1. Append(prevHash[t], t) \in Hashes
    BY <1>5 DEF Insert, Hashes
  <2>2. [seq |-> nextSeq, id |-> t, prevHash |-> prevHash[t],
         entryHash |-> ComputeEntryHash(prevHash[t], t)] \in Entries
    BY <1>5, <2>1 DEF Insert, ComputeEntryHash, Entries
  <2> QED
    BY <1>5, <2>2 DEF Insert, Live
<1>6. ASSUME NEW t \in Txns, Commit(t) PROVE TypeOK'
  BY <1>6, CommitAppends DEF Commit, Release, ReleaseRow
<1>7. ASSUME NEW t \in Txns, Rollback(t) PROVE TypeOK'
  BY <1>7 DEF Rollback, Release, ReleaseRow, Live
<1>8. CASE UNCHANGED vars
  BY <1>8 DEF vars
<1> QED
  BY <1>1, <1>2, <1>3, <1>4, <1>5, <1>6, <1>7, <1>8 DEF Next, Proceed

(***************************************************************************)
(* Every step keeps the rest of the invariant.                             *)
(***************************************************************************)
LEMMA ChainStep ==
  ASSUME IInv, [Next]_vars
  PROVE  /\ LockExcludes' /\ TipStands' /\ LogBelow' /\ CommittedMade'
         /\ ChainValid' /\ (Tip(log) \in Hashes)'
<1> DEFINE Rest == /\ LockExcludes /\ TipStands /\ LogBelow /\ CommittedMade
                   /\ ChainValid /\ Tip(log) \in Hashes
<1> USE DEF IInv, TypeOK
<1>1. ASSUME NEW t \in Txns, Begin(t) \/ Write(t) PROVE Rest'
  <2>1. /\ UNCHANGED <<log, nextSeq, lock, prevHash, entry, made>>
        /\ pc' \in {[pc EXCEPT ![t] = "begun"], [pc EXCEPT ![t] = "written"]}
        /\ pc[t] \in {"idle", "begun"}
    BY <1>1 DEF Begin, Write
  <2>2. LockExcludes' /\ CommittedMade'
    BY <2>1 DEF LockExcludes, CommittedMade, Holding
  <2>3. \A u \in Txns : pc'[u] \in {"read", "inserted"} => u # t /\ pc'[u] = pc[u]
    BY <2>1
  <2>4. TipStands'
    BY <2>1, <2>3 DEF TipStands
  <2> QED
    BY <2>1, <2>2, <2>4 DEF LogBelow, ChainValid, Before
<1>2. ASSUME NEW t \in Txns, Lock(t) PROVE Rest'
  <2>1. /\ UNCHANGED <<log, nextSeq, prevHash, entry, made>>
        /\ lock = None /\ lock' = t /\ pc[t] = "written" /\ pc' = [pc EXCEPT ![t] = "locked"]
    BY <1>2 DEF Lock, ExclusiveLock
  <2>2. \A u \in Txns : pc[u] \notin Holding
    BY <2>1, NoneIsNone DEF LockExcludes
  <2> QED
    BY <2>1, <2>2 DEF LockExcludes, TipStands, LogBelow, CommittedMade, ChainValid, Before,
       Holding
<1>3. ASSUME NEW t \in Txns, ReadTip(t) PROVE Rest'
  <2>1. /\ UNCHANGED <<log, nextSeq, lock, entry, made>> /\ pc[t] = "locked"
        /\ prevHash' = [prevHash EXCEPT ![t] = Tip(log)] /\ pc' = [pc EXCEPT ![t] = "read"]
    BY <1>3 DEF ReadTip
  <2> QED
    BY <2>1 DEF LockExcludes, TipStands, LogBelow, CommittedMade, ChainValid, Before, Holding
<1>4. ASSUME NEW t \in Txns, Insert(t) PROVE Rest'
  <2> DEFINE e == [seq |-> nextSeq, id |-> t, prevHash |-> prevHash[t],
                   entryHash |-> Append(prevHash[t], t)]
  <2>1. /\ UNCHANGED <<log, lock, prevHash, made>> /\ pc[t] = "read"
        /\ entry' = [entry EXCEPT ![t] = e] /\ nextSeq' = nextSeq + 1
        /\ pc' = [pc EXCEPT ![t] = "inserted"]
    BY <1>4 DEF Insert, ComputeEntryHash
  <2>2. LogBelow' /\ LockExcludes' /\ CommittedMade' /\ ChainValid' /\ (Tip(log) \in Hashes)'
    <3>1. \A f \in log : f.seq \in Nat
      BY DEF Entries
    <3>2. LogBelow'
      BY <2>1, <3>1 DEF LogBelow
    <3>3. LockExcludes' /\ CommittedMade'
      BY <2>1 DEF LockExcludes, CommittedMade, Holding
    <3>4. ChainValid' /\ (Tip(log) \in Hashes)'
      BY <2>1 DEF ChainValid, Before
    <3> QED
      BY <3>2, <3>3, <3>4
  <2>3. TipStands'
    <3> SUFFICES ASSUME NEW u \in Txns
                 PROVE  /\ pc'[u] \in {"read", "inserted"} => prevHash'[u] = Tip(log')
                        /\ pc'[u] = "inserted" =>
                             /\ entry'[u].id = u
                             /\ entry'[u].prevHash = prevHash'[u]
                             /\ entry'[u].entryHash = Append(prevHash'[u], u)
                             /\ entry'[u].seq < nextSeq'
                             /\ \A f \in log' : f.seq < entry'[u].seq
      BY DEF TipStands
    <3>1. CASE u = t
      BY <2>1, <3>1 DEF TipStands, LogBelow
    <3>2. CASE u # t
      <4>1. pc'[u] = pc[u] /\ entry'[u] = entry[u] /\ pc[u] \notin Holding
        BY <2>1, <3>2 DEF LockExcludes, Holding
      <4> QED
        BY <2>1, <4>1 DEF Holding
    <3> QED
      BY <3>1, <3>2
  <2> QED
    BY <2>2, <2>3
<1>5. ASSUME NEW t \in Txns, Commit(t) PROVE Rest'
  <2>1. /\ entry[t] \in Entries /\ Tip(log') = Append(Tip(log), t) /\ ChainValid'
    BY <1>5, CommitAppends
  <2>2. /\ UNCHANGED <<nextSeq, prevHash, entry>> /\ pc[t] = "inserted"
        /\ log' = log \cup {entry[t]} /\ made' = made \cup {t}
        /\ pc' = [pc EXCEPT ![t] = "committed"]
    BY <1>5 DEF Commit
  <2>3. \A u \in Txns \ {t} : pc[u] \notin Holding
    BY <2>2 DEF LockExcludes, Holding
  <2>4. \A u \in Txns : pc'[u] \notin Holding
    BY <2>2, <2>3 DEF Holding
  <2>5. LockExcludes' /\ TipStands' /\ CommittedMade'
    BY <2>2, <2>4 DEF LockExcludes, TipStands, CommittedMade, Holding
  <2>6. LogBelow'
    BY <2>2 DEF LogBelow, TipStands
  <2>7. (Tip(log) \in Hashes)'
    BY <2>1 DEF Hashes
  <2> QED
    BY <2>1, <2>5, <2>6, <2>7
<1>6. ASSUME NEW t \in Txns, Rollback(t) PROVE Rest'
  <2>1. /\ UNCHANGED <<log, nextSeq, prevHash, entry, made>>
        /\ lock' = (IF lock = t THEN None ELSE lock) /\ pc[t] # "committed"
        /\ pc' = [pc EXCEPT ![t] = "aborted"]
    BY <1>6 DEF Rollback, Release, Live
  <2> QED
    BY <2>1 DEF LockExcludes, TipStands, LogBelow, CommittedMade, ChainValid, Before, Holding
<1>7. CASE UNCHANGED vars
  BY <1>7 DEF vars, LockExcludes, TipStands, LogBelow, CommittedMade, ChainValid, Before
<1> QED
  BY <1>1, <1>2, <1>3, <1>4, <1>5, <1>6, <1>7 DEF Next, Proceed

-----------------------------------------------------------------------------
(* The theorems *)

(***************************************************************************)
(* The inductive invariant of the log.                                     *)
(***************************************************************************)
THEOREM Invariance == Spec => []IInv
<1>1. Init => IInv
  BY DEF Init, IInv, TypeOK, LockExcludes, TipStands, LogBelow, CommittedMade, ChainValid,
     Before, Tip, GENESIS_HASH, Hashes, Holding, Live
<1>2. IInv /\ [Next]_vars => IInv'
  <2> SUFFICES ASSUME IInv, [Next]_vars PROVE IInv'
    OBVIOUS
  <2> QED
    BY TypeStep, ChainStep DEF IInv
<1> QED
  BY <1>1, <1>2, PTL DEF Spec

(***************************************************************************)
(* Rows, locks and hashes always have their types.                         *)
(***************************************************************************)
THEOREM TypeCorrect == Spec => []TypeOK
<1>1. IInv => TypeOK
  BY DEF IInv
<1> QED
  BY <1>1, Invariance, PTL

(***************************************************************************)
(* However many transactions race, fail and roll back, verifyAuditChain    *)
(* finds the log in order (recordAudit, "cannot fork the chain").          *)
(***************************************************************************)
THEOREM ChainNeverForks == Spec => []ChainValid
<1>1. IInv => ChainValid
  BY DEF IInv
<1> QED
  BY <1>1, Invariance, PTL

(***************************************************************************)
(* The log implements the abstract append-only log: every change that      *)
(* commits adds exactly its own entry at the end of the history.           *)
(***************************************************************************)
THEOREM LogIsAppendOnly == Spec => ImplementsAppendOnlyLog
<1>1. Init => History!Init
  BY DEF Init, Tip, GENESIS_HASH, History!Init
<1>2. IInv /\ [Next]_vars => [History!Next]_(History!vars)
  <2> SUFFICES ASSUME IInv, [Next]_vars PROVE [History!Next]_(History!vars)
    OBVIOUS
  <2>1. ASSUME NEW t \in Txns, Commit(t) PROVE History!Next
    <3>1. Tip(log') = Append(Tip(log), t)
      BY <2>1, CommitAppends
    <3>2. t \notin made /\ made' = made \cup {t}
      BY <2>1 DEF Commit, IInv, CommittedMade
    <3> QED
      BY <3>1, <3>2 DEF History!Next, History!Make
  <2>2. ASSUME NEW t \in Txns,
               Begin(t) \/ Write(t) \/ Lock(t) \/ ReadTip(t) \/ Insert(t) \/ Rollback(t)
        PROVE  UNCHANGED <<Tip(log), made>>
    BY <2>2 DEF Begin, Write, Lock, ReadTip, Insert, Rollback
  <2>3. CASE UNCHANGED vars
    BY <2>3 DEF vars, History!vars
  <2> QED
    BY <2>1, <2>2, <2>3 DEF Next, Proceed, History!vars
<1> QED
  BY <1>1, <1>2, Invariance, PTL DEF Spec, ImplementsAppendOnlyLog, History!Spec

-----------------------------------------------------------------------------
\* Locks are held by transactions under way: the audit lock by one that took it, a
\* row by one that has written.
HoldersUnderWay ==
  /\ lock # None => pc[lock] \in Holding
  /\ \A r \in Rows : rowLock[r] # None => pc[rowLock[r]] \in Holding \cup {"written"}

LEMMA HoldersStep ==
  ASSUME IInv, HoldersUnderWay, [Next]_vars
  PROVE  HoldersUnderWay'
<1> USE DEF IInv, TypeOK, HoldersUnderWay
<1>1. ASSUME NEW t \in Txns, Begin(t) PROVE HoldersUnderWay'
  BY <1>1, NoneIsNone DEF Begin, Holding
<1>2. ASSUME NEW t \in Txns, Write(t) PROVE HoldersUnderWay'
  <2>1. /\ UNCHANGED lock /\ pc[t] = "begun" /\ pc' = [pc EXCEPT ![t] = "written"]
        /\ \A r \in Rows : rowLock'[r] \in {rowLock[r], t}
    BY <1>2, RowsKnown DEF Write
  <2>2. \A u \in Txns : u # t => pc'[u] = pc[u]
    BY <2>1
  <2>3. lock' # None => pc'[lock'] \in Holding
    BY <2>1, <2>2 DEF Holding
  <2>4. \A r \in Rows : rowLock'[r] # None => pc'[rowLock'[r]] \in Holding \cup {"written"}
    BY <2>1, <2>2 DEF Holding
  <2> QED
    BY <2>3, <2>4
<1>3. ASSUME NEW t \in Txns, Lock(t) \/ ReadTip(t) \/ Insert(t) PROVE HoldersUnderWay'
  <2>1. /\ UNCHANGED rowLock /\ lock' \in {lock, t}
        /\ pc'[t] \in Holding /\ \A u \in Txns : u # t => pc'[u] = pc[u]
    BY <1>3 DEF Lock, ExclusiveLock, ReadTip, Insert, Holding
  <2> QED
    BY <2>1
<1>4. ASSUME NEW t \in Txns, Commit(t) \/ Rollback(t) PROVE HoldersUnderWay'
  <2>1. /\ lock' # t /\ lock' \in {lock, None}
        /\ \A r \in Rows : rowLock'[r] # t /\ rowLock'[r] \in {rowLock[r], None}
        /\ \A u \in Txns : u # t => pc'[u] = pc[u]
    BY <1>4, NoneIsNone DEF Commit, Rollback, Release, ReleaseRow
  <2> QED
    BY <2>1
<1>5. CASE UNCHANGED vars
  BY <1>5 DEF vars
<1> QED
  BY <1>1, <1>2, <1>3, <1>4, <1>5 DEF Next, Proceed

\* t can only wait for u to end: for its row, or for the audit lock.
WaitsFor(t, u) ==
  \/ pc[t] = "begun" /\ RowOf[t] # None /\ rowLock[RowOf[t]] = u
  \/ pc[t] = "written" /\ lock = u

\* t is under way and waits for nobody: its next statement can run.
Clear(t) == pc[t] \in Live /\ \A u \in Txns : ~WaitsFor(t, u)

\* Nobody waits for itself or in a circle: two waits lead from any transaction to one
\* that is clear.
WaitsEnd ==
  \A t \in Txns : pc[t] \in Live =>
    \/ Clear(t)
    \/ \E u \in Txns : WaitsFor(t, u) /\ (Clear(u) \/ \E v \in Txns : WaitsFor(u, v) /\ Clear(v))

(***************************************************************************)
(* Whoever has the audit lock waits for nobody, and whoever has a row      *)
(* waits at most for the audit lock: the order of recordAudit after the    *)
(* mutation leaves no deadlock. This is the safety half of                 *)
(* EveryTransactionEnds, which adds that what can go on does.              *)
(***************************************************************************)
THEOREM NoDeadlock == Spec => []WaitsEnd
<1>1. Init => HoldersUnderWay
  BY DEF Init, HoldersUnderWay
<1>2. IInv /\ HoldersUnderWay /\ [Next]_vars => HoldersUnderWay'
  BY HoldersStep
<1>3. IInv /\ HoldersUnderWay => WaitsEnd
  <2> SUFFICES ASSUME IInv, HoldersUnderWay, NEW t \in Txns, pc[t] \in Live, ~Clear(t)
               PROVE  \E u \in Txns : /\ WaitsFor(t, u)
                                      /\ Clear(u) \/ \E v \in Txns : WaitsFor(u, v) /\ Clear(v)
    BY DEF WaitsEnd
  <2> USE DEF IInv, TypeOK, HoldersUnderWay
  <2>1. ASSUME NEW u \in Txns, pc[u] \in Holding PROVE Clear(u)
    BY <2>1 DEF Clear, WaitsFor, Holding, Live
  <2>2. PICK u \in Txns : WaitsFor(t, u)
    BY DEF Clear
  <2>3. pc[u] \in Holding \cup {"written"}
    BY <2>2, RowsKnown, NoneIsNone DEF WaitsFor
  <2>4. CASE pc[u] \in Holding
    BY <2>1, <2>2, <2>4
  <2>5. CASE pc[u] = "written" /\ lock = None
    <3>1. Clear(u)
      BY <2>5, NoneIsNone DEF Clear, WaitsFor, Live
    <3> QED
      BY <2>2, <3>1
  <2>6. CASE pc[u] = "written" /\ lock # None
    <3>1. lock \in Txns /\ WaitsFor(u, lock) /\ Clear(lock)
      BY <2>1, <2>6 DEF WaitsFor
    <3> QED
      BY <2>2, <3>1
  <2> QED
    BY <2>3, <2>4, <2>5, <2>6
<1> QED
  BY <1>1, <1>2, <1>3, Invariance, PTL DEF Spec
=============================================================================
