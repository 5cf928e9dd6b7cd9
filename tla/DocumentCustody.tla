-------------------------- MODULE DocumentCustody --------------------------
(***************************************************************************)
(* The life of one document across four stores that share no transaction:  *)
(* the object store, the database, the anchor queue and the ledger.        *)
(* Requests upload, restore, seal and verify; a worker anchors each        *)
(* version's hash.  Every call that writes is a step of its own.           *)
(*                                                                         *)
(* A hash is the content it was taken of.  A ledger call may succeed, fail *)
(* without effect, or take effect and be reported as failed.               *)
(***************************************************************************)
EXTENDS Integers, Sequences, SequencesExt

CONSTANTS
  Versions,   \* version ids (randomUUID)
  Requests,   \* requests that may be in flight at once
  Contents,   \* what may be uploaded
  Damaged,    \* bytes that are no longer what was uploaded
  None,
  Over,       \* an anchor job that is over
  Attempts,   \* config.ledger.attempts
  MaxDamaged  \* bound: objects damaged at once

ASSUME NewValues ==
  /\ None \notin Versions \cup Contents
  /\ None \notin [sha : Contents, status : {"ACTIVE", "SEALED"}]
  /\ Damaged \notin Contents \cup {None}
ASSUME AttemptsPositive == Attempts \in Nat \ {0}
ASSUME MaxDamagedNatural == MaxDamaged \in Nat

VARIABLES
  store,         \* the object under each storage key
  versions,      \* document_versions of the document, by version_no
  sha256,        \* their sha256 column
  ledgerStatus,  \* their ledger_status column
  integrity,     \* their integrity_status column
  sealed,        \* documents.sealed
  ledger,        \* the record of each version on the ledger
  op,            \* what each request is doing
  anchor,        \* the anchor job of each version: queued (the ledger not yet called),
                 \* to be mirrored, or failed for good; and its attemptsMade
  taken          \* version ids handed out

rowVars == <<versions, sha256, ledgerStatus, integrity, sealed>>
vars == <<store, rowVars, ledger, op, anchor, taken>>

\* An object per document, and per version (versionStorageKey).
KeyOfDocument(v) == CHOOSE w \in Versions : TRUE
Key(v) == v

Committed == ToSet(versions)
Current == versions[Len(versions)]

-----------------------------------------------------------------------------
(* Uploading: the bytes first, then the row, then the anchor job *)

Take(r, v, content, source) ==
  /\ op[r] = None
  /\ v \notin taken
  /\ taken' = taken \cup {v}
  /\ op' = [op EXCEPT ![r] =
              [kind |-> "upload", at |-> "put", version |-> v, sha |-> content, from |-> source]]
  /\ UNCHANGED <<store, rowVars, ledger, anchor>>

CreateDocument(r, v, content) == taken = {} /\ Take(r, v, content, None)

AddVersion(r, v, content) == versions # <<>> /\ ~sealed /\ Take(r, v, content, None)

\* The source's hash is reused: its bytes are copied, not read.
RestoreVersion(r, v, source) ==
  source \in Committed /\ ~sealed /\ Take(r, v, sha256[source], source)

Doing(r, kind, at) == op[r] # None /\ op[r].kind = kind /\ op[r].at = at
Goto(r, at) == op' = [op EXCEPT ![r].at = at]
Return(r) == op' = [op EXCEPT ![r] = None]

PutObject(r) ==
  /\ Doing(r, "upload", "put")
  /\ store' = [store EXCEPT ![Key(op[r].version)] =
                 IF op[r].from = None THEN op[r].sha ELSE store[Key(op[r].from)]]
  /\ Goto(r, "commit")
  /\ UNCHANGED <<rowVars, ledger, anchor, taken>>

\* document, version and audit entry in one transaction; triggers number the
\* version and make it the current one.
CommitVersion(r) ==
  /\ Doing(r, "upload", "commit")
  /\ versions' = Append(versions, op[r].version)
  /\ sha256' = [sha256 EXCEPT ![op[r].version] = op[r].sha]
  /\ Goto(r, "enqueue")
  /\ UNCHANGED <<store, ledgerStatus, integrity, sealed, ledger, anchor, taken>>

\* The transaction fails: the object is deleted, if the store lets it.
UndoVersion(r) ==
  /\ Doing(r, "upload", "commit")
  /\ \E deleted \in BOOLEAN :
       store' = IF deleted THEN [store EXCEPT ![Key(op[r].version)] = None] ELSE store
  /\ Return(r)
  /\ UNCHANGED <<rowVars, ledger, anchor, taken>>

\* Fail-open: a version may be left PENDING_LEDGER without a job.
EnqueueAnchor(r) ==
  /\ Doing(r, "upload", "enqueue")
  /\ \E queued \in BOOLEAN :
       anchor' = IF queued THEN [anchor EXCEPT ![op[r].version] = [at |-> "queued", tries |-> 0]]
                         ELSE anchor
  /\ Return(r)
  /\ UNCHANGED <<store, rowVars, ledger, taken>>

-----------------------------------------------------------------------------
(* The ledger *)

\* Registering over what is there, and keeping it.
RegisterAnew(v) == ledger' = [ledger EXCEPT ![v] = [sha |-> sha256[v], status |-> "ACTIVE"]]
Register(v) ==
  ledger' = IF ledger[v] = None
              THEN [ledger EXCEPT ![v] = [sha |-> sha256[v], status |-> "ACTIVE"]]
              ELSE ledger

Freeze(v) == ledger' = [ledger EXCEPT ![v].status = "SEALED"]

\* Taking every error for "is already registered" or "is already SEALED".
AnyError(v) == TRUE
AlreadyRegistered(v) == ledger[v] # None
AnySealError(v) == TRUE
AlreadySealed(v) == ledger[v] # None /\ ledger[v].status = "SEALED"

-----------------------------------------------------------------------------
(* Anchoring (processLedgerAnchor) *)

At(v, step) == anchor[v] \notin {None, Over} /\ anchor[v].at = step
GotoStep(v, step) == anchor' = [anchor EXCEPT ![v].at = step]
End(v) == anchor' = [anchor EXCEPT ![v] = Over]

\* Giving up one attempt late, and in time.
AttemptedOnceMore(v) ==
  LET tries == anchor[v].tries + 1 IN
  anchor' = [anchor EXCEPT ![v] =
               [at |-> IF tries <= Attempts THEN "queued" ELSE "failed", tries |-> tries]]
Attempted(v) ==
  LET tries == anchor[v].tries + 1 IN
  anchor' = [anchor EXCEPT ![v] =
               [at |-> IF tries < Attempts THEN "queued" ELSE "failed", tries |-> tries]]

RegisterVersion(v) ==
  /\ At(v, "queued")
  /\ \/ Register(v) /\ (GotoStep(v, "mirror") \/ Attempted(v))
     \/ AlreadyRegistered(v) /\ GotoStep(v, "mirror") /\ UNCHANGED ledger
     \/ Attempted(v) /\ UNCHANGED ledger
  /\ UNCHANGED <<store, rowVars, op, taken>>

\* The row and its audit entry in one transaction, which may fail.  After it the
\* job is complete, unless the worker dies first and it runs again.
SetLedgerAnchored(v) ==
  /\ At(v, "mirror")
  /\ \/ /\ ledgerStatus' = [ledgerStatus EXCEPT ![v] = "ANCHORED"]
        /\ End(v) \/ GotoStep(v, "queued")
     \/ Attempted(v) /\ UNCHANGED ledgerStatus
  /\ UNCHANGED <<store, versions, sha256, integrity, sealed, ledger, op, taken>>

\* markAnchorFailed; its own transaction may fail as well.
SetLedgerFailed(v) ==
  /\ At(v, "failed")
  /\ \/ ledgerStatus' = [ledgerStatus EXCEPT ![v] = "FAILED"]
     \/ UNCHANGED ledgerStatus
  /\ End(v)
  /\ UNCHANGED <<store, versions, sha256, integrity, sealed, ledger, op, taken>>

-----------------------------------------------------------------------------
(* Sealing: the ledger first, then the mirror *)

SealDocument(r) ==
  /\ op[r] = None
  /\ versions # <<>> /\ ~sealed
  /\ ledgerStatus[Current] = "ANCHORED"
  /\ op' = [op EXCEPT ![r] = [kind |-> "seal", at |-> "ledger", version |-> Current]]
  /\ UNCHANGED <<store, rowVars, ledger, anchor, taken>>

SealOnLedger(r) ==
  LET v == op[r].version IN
  /\ Doing(r, "seal", "ledger")
  /\ \/ ~AlreadySealed(v) /\ Freeze(v) /\ (Goto(r, "mirror") \/ Return(r))
     \/ AlreadySealed(v) /\ Goto(r, "mirror") /\ UNCHANGED ledger
  /\ UNCHANGED <<store, rowVars, anchor, taken>>

SetDocumentSealed(r) ==
  /\ Doing(r, "seal", "mirror")
  /\ sealed' = TRUE
  /\ Return(r)
  /\ UNCHANGED <<store, versions, sha256, ledgerStatus, integrity, ledger, anchor, taken>>

-----------------------------------------------------------------------------
(* Verifying *)

\* A verdict that does not wait for the anchor, and the code's.
DecideWithoutAnchor(recomputed, recorded, onLedger, anchored) ==
  IF recomputed = onLedger /\ recomputed = recorded THEN "VERIFIED" ELSE "TAMPERED"
DecideIntegrity(recomputed, recorded, onLedger, anchored) ==
  IF ~anchored \/ onLedger = None
    THEN IF recomputed # recorded THEN "TAMPERED" ELSE "PENDING"
    ELSE IF recomputed = onLedger /\ recomputed = recorded THEN "VERIFIED" ELSE "TAMPERED"

\* The row is read here, its ledger_status included, and never again.
VerifyIntegrity(r) ==
  /\ op[r] = None
  /\ versions # <<>>
  /\ op' = [op EXCEPT ![r] =
              [kind |-> "verify", at |-> "hash", version |-> Current,
               anchored |-> ledgerStatus[Current] = "ANCHORED",
               recomputed |-> None, onLedger |-> None]]
  /\ UNCHANGED <<store, rowVars, ledger, anchor, taken>>

RehashObject(r) ==
  /\ Doing(r, "verify", "hash")
  /\ store[Key(op[r].version)] # None
  /\ op' = [op EXCEPT ![r].at = "ledger", ![r].recomputed = store[Key(op[r].version)]]
  /\ UNCHANGED <<store, rowVars, ledger, anchor, taken>>

VerifyHash(r) ==
  LET record == ledger[op[r].version] IN
  /\ Doing(r, "verify", "ledger")
  /\ op' = [op EXCEPT ![r].at = "record",
                      ![r].onLedger = IF record = None THEN None ELSE record.sha]
  /\ UNCHANGED <<store, rowVars, ledger, anchor, taken>>

SetIntegrityChecked(r) ==
  /\ Doing(r, "verify", "record")
  /\ integrity' = [integrity EXCEPT ![op[r].version] =
       DecideIntegrity(op[r].recomputed, sha256[op[r].version], op[r].onLedger, op[r].anchored)]
  /\ Return(r)
  /\ UNCHANGED <<store, versions, sha256, ledgerStatus, sealed, ledger, anchor, taken>>

-----------------------------------------------------------------------------
(* Faults *)

\* A call throws before its effect and the request ends; the API process dies.
Abandon(r) ==
  /\ op[r] # None
  /\ Return(r)
  /\ UNCHANGED <<store, rowVars, ledger, anchor, taken>>

\* The worker dies; BullMQ queues the stalled job again, or gives it up.
CrashAnchor(v) ==
  /\ At(v, "queued") \/ At(v, "mirror")
  /\ GotoStep(v, "queued") \/ End(v)
  /\ UNCHANGED <<store, rowVars, ledger, op, taken>>

Damage(v) ==
  /\ store[v] # None
  /\ Cardinality({w \in Versions : store[w] = Damaged}) < MaxDamaged
  /\ store' = [store EXCEPT ![v] = Damaged]
  /\ UNCHANGED <<rowVars, ledger, op, anchor, taken>>

-----------------------------------------------------------------------------
Init ==
  /\ store = [v \in Versions |-> None]
  /\ versions = <<>>
  /\ sha256 = [v \in Versions |-> None]
  /\ ledgerStatus = [v \in Versions |-> "PENDING_LEDGER"]
  /\ integrity = [v \in Versions |-> "PENDING"]
  /\ sealed = FALSE
  /\ ledger = [v \in Versions |-> None]
  /\ op = [r \in Requests |-> None]
  /\ anchor = [v \in Versions |-> None]
  /\ taken = {}

Request(r) ==
  \/ \E v \in Versions :
       \/ \E content \in Contents : CreateDocument(r, v, content) \/ AddVersion(r, v, content)
       \/ \E source \in Versions : RestoreVersion(r, v, source)
  \/ PutObject(r) \/ CommitVersion(r) \/ UndoVersion(r) \/ EnqueueAnchor(r)
  \/ SealDocument(r) \/ SealOnLedger(r) \/ SetDocumentSealed(r)
  \/ VerifyIntegrity(r) \/ RehashObject(r) \/ VerifyHash(r) \/ SetIntegrityChecked(r)
  \/ Abandon(r)

Anchoring(v) ==
  RegisterVersion(v) \/ SetLedgerAnchored(v) \/ SetLedgerFailed(v) \/ CrashAnchor(v)

Next == (\E r \in Requests : Request(r)) \/ (\E v \in Versions : Anchoring(v) \/ Damage(v))

Spec == Init /\ [][Next]_vars

-----------------------------------------------------------------------------
(* Properties *)

Hashes == Contents \cup {Damaged, None}
Records == [sha : Contents, status : {"ACTIVE", "SEALED"}]
Uploads == [kind : {"upload"}, at : {"put", "commit", "enqueue"}, version : Versions,
            sha : Contents, from : Versions \cup {None}]
Seals == [kind : {"seal"}, at : {"ledger", "mirror"}, version : Versions]
Checks == [kind : {"verify"}, at : {"hash", "ledger", "record"}, version : Versions,
           anchored : BOOLEAN, recomputed : Hashes, onLedger : Contents \cup {None}]
Jobs == [at : {"queued", "mirror", "failed"}, tries : 0 .. Attempts]

\* Every store holds values of its type, and no version has two rows.
TypeOK ==
  /\ store \in [Versions -> Hashes]
  /\ versions \in Seq(Versions) /\ IsInjective(versions)
  /\ sha256 \in [Versions -> Contents \cup {None}]
  /\ ledgerStatus \in [Versions -> {"PENDING_LEDGER", "ANCHORED", "FAILED"}]
  /\ integrity \in [Versions -> {"PENDING", "VERIFIED", "TAMPERED"}]
  /\ sealed \in BOOLEAN
  /\ ledger \in [Versions -> Records \cup {None}]
  /\ op \in [Requests -> Uploads \cup Seals \cup Checks \cup {None}]
  /\ anchor \in [Versions -> Jobs \cup {None, Over}]
  /\ taken \subseteq Versions

\* A committed row has its bytes behind it, the ones its hash was taken of
\* unless the store has damaged them, whatever uploads, restores, failures and
\* clean-ups ran beside its own (createDocument, "a committed row always has
\* its bytes behind it").
BytesBehindRows ==
  \A v \in Committed : store[v] \in {sha256[v], Damaged}

\* A row is ANCHORED only over a ledger record with its own hash, although the
\* two are written apart, retried and repeated after a crash.
AnchorsTruthful ==
  \A v \in Committed :
    ledgerStatus[v] = "ANCHORED" => ledger[v] # None /\ ledger[v].sha = sha256[v]

\* verifyIntegrity raises no false alarm: a version is marked TAMPERED only
\* once its object is damaged, however the check races with the anchoring.
NoFalseAlarm == \A v \in Committed : integrity[v] = "TAMPERED" => store[v] = Damaged

\* A document sealed in the database has been sealed on the ledger before.
SealWitnessed ==
  sealed => \E v \in Committed : ledger[v] # None /\ ledger[v].status = "SEALED"

\* A sealed record is never changed: a repeated anchoring leaves the seal.
SealStays ==
  [][\A v \in Versions :
       ledger[v] # None /\ ledger[v].status = "SEALED" => ledger'[v] = ledger[v]]_vars

\* "Seal a document: freeze it on the ledger and in the mirror so no further
\* versions can be added" (documents.service.js).
NothingAfterSeal == [][sealed => versions' = versions]_vars
=============================================================================
