----------------------------- MODULE AuditChain -----------------------------
(***************************************************************************)
(* The hash-chained log. A transaction writes the row it changes, then     *)
(* recordAudit takes a transaction-scoped advisory lock, reads the last    *)
(* entry_hash and inserts its own entry. audit_log and case_activity_log   *)
(* are two instances with a lock each.                                     *)
(*                                                                         *)
(* The database runs at READ COMMITTED: each statement sees what had been  *)
(* committed when it began. Hashes do not collide: a hash is the sequence  *)
(* of the entries it commits to.                                           *)
(***************************************************************************)
EXTENDS Integers, Sequences

CONSTANTS
  Txns,    \* transactions, each recording one entry
  Rows,    \* rows they change
  RowOf,   \* the row of a transaction, or None (getDownloadUrl only records)
  None     \* no row, no holder, no value

ASSUME RowsKnown == RowOf \in [Txns -> Rows \cup {None}]
ASSUME NoneIsNone == None \notin Txns \cup Rows

VARIABLES
  log,        \* committed rows of audit_log
  nextSeq,    \* its seq sequence, which rollbacks do not rewind
  lock,       \* holder of the advisory lock
  rowLock,    \* holder of each row's lock
  pc,         \* how far a transaction is
  prevHash,   \* what its select of the tip answered
  entry,      \* the entry it has inserted and not committed
  made        \* transactions whose change is committed

vars == <<log, nextSeq, lock, rowLock, pc, prevHash, entry, made>>

GENESIS_HASH == <<>>
Hashes == Seq(Txns)
Entries == [seq : Nat, id : Txns, prevHash : Hashes, entryHash : Hashes]

\* A hash over the content alone, and the one chained to the entry before.
HashContentOnly(previous, id) == <<id>>
ComputeEntryHash(previous, id) == Append(previous, id)

Last(rows) == CHOOSE e \in rows : \A f \in rows : f.seq <= e.seq

\* The tip of a log, without and with a value for the empty log.
TipOrNothing(rows) == IF rows = {} THEN None ELSE Last(rows).entryHash
Tip(rows) == IF rows = {} THEN GENESIS_HASH ELSE Last(rows).entryHash

-----------------------------------------------------------------------------
Live == {"begun", "written", "locked", "read", "inserted"}

Begin(t) ==
  /\ pc[t] = "idle"
  /\ pc' = [pc EXCEPT ![t] = "begun"]
  /\ UNCHANGED <<log, nextSeq, lock, rowLock, prevHash, entry, made>>

\* The mutation: it waits for the row and keeps it to the end.
Write(t) ==
  /\ pc[t] = "begun"
  /\ \/ RowOf[t] = None /\ UNCHANGED rowLock
     \/ /\ RowOf[t] # None /\ rowLock[RowOf[t]] = None
        /\ rowLock' = [rowLock EXCEPT ![RowOf[t]] = t]
  /\ pc' = [pc EXCEPT ![t] = "written"]
  /\ UNCHANGED <<log, nextSeq, lock, prevHash, entry, made>>

\* pg_advisory_xact_lock, and a lock of some other kind that does not exclude.
SharedLock(t) == lock' = t
ExclusiveLock(t) == lock = None /\ lock' = t

Lock(t) ==
  /\ pc[t] = "written"
  /\ ExclusiveLock(t)
  /\ pc' = [pc EXCEPT ![t] = "locked"]
  /\ UNCHANGED <<log, nextSeq, rowLock, prevHash, entry, made>>

ReadTip(t) ==
  /\ pc[t] = "locked"
  /\ prevHash' = [prevHash EXCEPT ![t] = Tip(log)]
  /\ pc' = [pc EXCEPT ![t] = "read"]
  /\ UNCHANGED <<log, nextSeq, lock, rowLock, entry, made>>

Insert(t) ==
  /\ pc[t] = "read"
  /\ entry' = [entry EXCEPT ![t] =
                 [seq |-> nextSeq, id |-> t, prevHash |-> prevHash[t],
                  entryHash |-> ComputeEntryHash(prevHash[t], t)]]
  /\ nextSeq' = nextSeq + 1
  /\ pc' = [pc EXCEPT ![t] = "inserted"]
  /\ UNCHANGED <<log, lock, rowLock, prevHash, made>>

ReleaseRow(t) ==
  rowLock' = [r \in Rows |-> IF rowLock[r] = t THEN None ELSE rowLock[r]]

\* Locks of the session outlive the transaction, those of the transaction end
\* with it, however it ends.
ReleaseRowOnly(t) == ReleaseRow(t) /\ UNCHANGED lock
Release(t) ==
  /\ ReleaseRow(t)
  /\ lock' = IF lock = t THEN None ELSE lock

Commit(t) ==
  /\ pc[t] = "inserted"
  /\ log' = log \cup {entry[t]}
  /\ made' = made \cup {t}
  /\ Release(t)
  /\ pc' = [pc EXCEPT ![t] = "committed"]
  /\ UNCHANGED <<nextSeq, prevHash, entry>>

\* A statement fails, the process dies, the connection is lost.
Rollback(t) ==
  /\ pc[t] \in Live
  /\ Release(t)
  /\ pc' = [pc EXCEPT ![t] = "aborted"]
  /\ UNCHANGED <<log, nextSeq, prevHash, entry, made>>

-----------------------------------------------------------------------------
Init ==
  /\ log = {}
  /\ nextSeq = 1
  /\ lock = None
  /\ rowLock = [r \in Rows |-> None]
  /\ pc = [t \in Txns |-> "idle"]
  /\ prevHash = [t \in Txns |-> None]
  /\ entry = [t \in Txns |-> None]
  /\ made = {}

Proceed(t) == Write(t) \/ Lock(t) \/ ReadTip(t) \/ Insert(t) \/ Commit(t)

Next == \E t \in Txns : Begin(t) \/ Proceed(t) \/ Rollback(t)

Spec == Init /\ [][Next]_vars

\* A transaction goes on as soon as it is not waiting for a lock. That a
\* statement fails is never relied on.
FairSpec == Spec /\ \A t \in Txns : WF_vars(Proceed(t))

-----------------------------------------------------------------------------
(* Properties *)

\* Every variable has its type, and a transaction that has read the tip and
\* inserted its entry has a hash and an entry.
TypeOK ==
  /\ log \subseteq Entries
  /\ nextSeq \in Nat \ {0}
  /\ lock \in Txns \cup {None}
  /\ rowLock \in [Rows -> Txns \cup {None}]
  /\ pc \in [Txns -> Live \cup {"idle", "committed", "aborted"}]
  /\ prevHash \in [Txns -> Hashes \cup {None}]
  /\ entry \in [Txns -> Entries \cup {None}]
  /\ made \subseteq Txns
  /\ \A t \in Txns : /\ pc[t] \in {"read", "inserted"} => prevHash[t] \in Hashes
                     /\ pc[t] = "inserted" => entry[t] \in Entries

Before(e) == {f \in log : f.seq < e.seq}

\* verifyAuditChain, whenever it runs, walks the log by seq and finds every
\* link and every hash in order: appends never fork the chain, although they
\* race, are rolled back and leave gaps in seq.
ChainValid ==
  \A e \in log :
    /\ e.prevHash = Tip(Before(e))
    /\ e.entryHash = Append(e.prevHash, e.id)

History == INSTANCE AppendOnlyLog WITH Acts <- Txns, history <- Tip(log), made <- made

\* The last hash is the whole history, and it grows by exactly the entry of
\* each change that commits, as it commits: "no mutation without its audit
\* row, no audit row for a rolled-back mutation".
ImplementsAppendOnlyLog == History!Spec

\* No transaction waits for a lock for ever: the row comes before the audit
\* lock in all of them, and both end with the transaction.
EveryTransactionEnds ==
  \A t \in Txns : pc[t] = "begun" ~> pc[t] \in {"committed", "aborted"}
=============================================================================
