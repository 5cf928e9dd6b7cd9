----------------------- MODULE DocumentCustodyProofs -----------------------
(***************************************************************************)
(* DocumentCustody for any versions, contents, requests in flight and      *)
(* attempts: the bytes behind a row, the truth of an anchor, the verdicts  *)
(* and the seal.                                                           *)
(***************************************************************************)
EXTENDS DocumentCustody, TLAPS

(***************************************************************************)
(* The inductive invariant: first the stores, row by row.                  *)
(***************************************************************************)
StoresType ==
  /\ store \in [Versions -> Hashes]
  /\ versions \in Seq(Versions) /\ IsInjective(versions)
  /\ sha256 \in [Versions -> Contents \cup {None}]
  /\ ledgerStatus \in [Versions -> {"PENDING_LEDGER", "ANCHORED", "FAILED"}]
  /\ integrity \in [Versions -> {"PENDING", "VERIFIED", "TAMPERED"}]
  /\ sealed \in BOOLEAN
  /\ ledger \in [Versions -> Records \cup {None}]
  /\ anchor \in [Versions -> Jobs \cup {None, Over}]
  /\ taken \subseteq Versions

\* A committed row has the hash of an upload and the bytes it was taken of, and only
\* such a row, over damaged bytes, is marked TAMPERED.
RowsSound ==
  /\ \A v \in Committed :
       v \in taken /\ sha256[v] \in Contents /\ store[v] \in {sha256[v], Damaged}
  /\ \A v \in Versions :
       integrity[v] = "TAMPERED" => v \in Committed /\ store[v] = Damaged

\* The ledger holds committed versions only, with their hash; ANCHORED rows are there.
LedgerSound ==
  \A v \in Versions :
    /\ ledger[v] # None => v \in Committed /\ ledger[v].sha = sha256[v]
    /\ ledgerStatus[v] = "ANCHORED" => ledger[v] # None

\* A job anchors a committed version, and mirrors what the ledger holds.
JobsSound ==
  \A v \in Versions : anchor[v] \notin {None, Over} =>
    /\ v \in Committed
    /\ anchor[v].at = "mirror" => ledger[v] # None
    /\ anchor[v].at # "failed" => anchor[v].tries < Attempts

StoresInv == StoresType /\ RowsSound /\ LedgerSound /\ JobsSound /\ SealWitnessed

(***************************************************************************)
(* Then the requests: what each has done and read so far.                  *)
(***************************************************************************)
UploadSound(o) ==
  o.kind = "upload" =>
    /\ o \in Uploads
    /\ o.version \in taken
    /\ o.at \in {"put", "commit"} => o.version \notin Committed
    /\ o.at = "commit" => store[o.version] \in {o.sha, Damaged}
    /\ o.at = "enqueue" => o.version \in Committed
    /\ o.from # None => o.from \in Committed /\ o.sha = sha256[o.from]

SealSound(o) ==
  o.kind = "seal" =>
    /\ o \in Seals
    /\ o.version \in Committed /\ ledger[o.version] # None
    /\ o.at = "mirror" => ledger[o.version].status = "SEALED"

CheckSound(o) ==
  o.kind = "verify" =>
    /\ o \in Checks
    /\ o.version \in Committed
    /\ o.at \in {"ledger", "record"} =>
         /\ o.recomputed \in {sha256[o.version], Damaged}
         /\ o.recomputed = Damaged => store[o.version] = Damaged
    /\ o.at = "record" => o.onLedger \in {None, sha256[o.version]}

OpSound(r) ==
  op[r] # None =>
    /\ op[r].kind \in {"upload", "seal", "verify"}
    /\ UploadSound(op[r]) /\ SealSound(op[r]) /\ CheckSound(op[r])

Uploading(r) == op[r] # None /\ op[r].kind = "upload"

\* No two uploads have the same version.
Apart ==
  \A q, r \in Requests :
    (Uploading(q) /\ Uploading(r) /\ q # r) => op[q].version # op[r].version

RequestsSound ==
  /\ op = [r \in Requests |-> op[r]]
  /\ \A r \in Requests : OpSound(r)
  /\ Apart

IInv == StoresInv /\ RequestsSound

LEMMA InitIInv == Init => IInv
<1> SUFFICES ASSUME Init PROVE IInv
  OBVIOUS
<1>1. Committed = {}
  BY DEF Init, Committed, ToSet
<1>2. StoresType
  <2>1. versions \in Seq(Versions) /\ IsInjective(versions)
    BY DEF Init, IsInjective
  <2>2. store \in [Versions -> Hashes] /\ anchor \in [Versions -> Jobs \cup {None, Over}]
    BY DEF Init, Hashes
  <2> QED
    BY <2>1, <2>2 DEF Init, StoresType
<1>3. RowsSound /\ LedgerSound /\ JobsSound /\ SealWitnessed
  BY <1>1 DEF Init, RowsSound, LedgerSound, JobsSound, SealWitnessed
<1>4. RequestsSound
  BY DEF Init, RequestsSound, OpSound, Apart, Uploading
<1> QED
  BY <1>2, <1>3, <1>4 DEF IInv, StoresInv

(***************************************************************************)
(* The properties follow from the invariant.                               *)
(***************************************************************************)
LEMMA IInvSafe ==
  IInv => TypeOK /\ BytesBehindRows /\ AnchorsTruthful /\ NoFalseAlarm /\ SealWitnessed
<1> SUFFICES ASSUME IInv
             PROVE  TypeOK /\ BytesBehindRows /\ AnchorsTruthful /\ NoFalseAlarm /\ SealWitnessed
  OBVIOUS
<1>1. ASSUME NEW r \in Requests PROVE op[r] \in Uploads \cup Seals \cup Checks \cup {None}
  BY DEF IInv, RequestsSound, OpSound, UploadSound, SealSound, CheckSound
<1>2. op \in [Requests -> Uploads \cup Seals \cup Checks \cup {None}]
  BY <1>1 DEF IInv, RequestsSound
<1>3. TypeOK
  BY <1>2 DEF IInv, StoresInv, StoresType, TypeOK
<1>4. \A v \in Committed : v \in Versions
  BY DEF IInv, StoresInv, StoresType, Committed, ToSet
<1> QED
  BY <1>3, <1>4 DEF IInv, StoresInv, RowsSound, LedgerSound, BytesBehindRows, AnchorsTruthful,
                    NoFalseAlarm

-----------------------------------------------------------------------------
(***************************************************************************)
(* The versions of the document.                                           *)
(***************************************************************************)
LEMMA CurrentCommitted ==
  ASSUME versions \in Seq(Versions), versions # <<>>
  PROVE  Current \in Committed
BY DEF Current, Committed, ToSet

LEMMA CommittedVersions ==
  ASSUME versions \in Seq(Versions)
  PROVE  Committed \subseteq Versions
BY DEF Committed, ToSet

LEMMA CommittedGrows ==
  ASSUME versions \in Seq(Versions), IsInjective(versions), NEW v \in Versions, v \notin Committed,
         versions' = Append(versions, v)
  PROVE  /\ Committed' = Committed \cup {v}
         /\ versions' \in Seq(Versions) /\ IsInjective(versions')
<1>1. /\ Len(versions) \in Nat /\ DOMAIN versions = 1 .. Len(versions)
      /\ versions' \in Seq(Versions) /\ DOMAIN versions' = 1 .. Len(versions) + 1
      /\ versions'[Len(versions) + 1] = v
      /\ \A i \in 1 .. Len(versions) : versions'[i] = versions[i]
  OBVIOUS
<1>2. Committed' = {versions'[i] : i \in 1 .. Len(versions) + 1}
  BY <1>1 DEF Committed, ToSet
<1>3. Committed = {versions[i] : i \in 1 .. Len(versions)}
  BY <1>1 DEF Committed, ToSet
<1>4. Committed' = Committed \cup {v}
  <2>1. ASSUME NEW w \in Committed' PROVE w \in Committed \cup {v}
    <3>1. PICK i \in 1 .. Len(versions) + 1 : w = versions'[i]
      BY <1>2, <2>1
    <3>2. i = Len(versions) + 1 \/ i \in 1 .. Len(versions)
      BY <1>1
    <3> QED
      BY <1>1, <1>3, <3>1, <3>2
  <2>2. ASSUME NEW w \in Committed PROVE w \in Committed'
    <3>1. PICK i \in 1 .. Len(versions) : w = versions[i]
      BY <1>3, <2>2
    <3>2. i \in 1 .. Len(versions) + 1
      BY <1>1
    <3> QED
      BY <1>1, <1>2, <3>1, <3>2
  <2>3. v \in Committed'
    <3>1. Len(versions) + 1 \in 1 .. Len(versions) + 1
      BY <1>1
    <3> QED
      BY <1>1, <1>2, <3>1
  <2> QED
    BY <2>1, <2>2, <2>3
<1>5. IsInjective(versions')
  <2> SUFFICES ASSUME NEW i \in 1 .. Len(versions) + 1, NEW j \in 1 .. Len(versions) + 1,
                      versions'[i] = versions'[j]
               PROVE  i = j
    BY <1>1 DEF IsInjective
  <2>1. \A k \in 1 .. Len(versions) : versions[k] # v
    BY <1>3
  <2>2. \A k \in 1 .. Len(versions) + 1 : k = Len(versions) + 1 \/ k \in 1 .. Len(versions)
    BY <1>1
  <2> QED
    BY <1>1, <2>1, <2>2 DEF IsInjective
<1> QED
  BY <1>1, <1>4, <1>5

-----------------------------------------------------------------------------
(***************************************************************************)
(* What no step takes back: committed rows keep their hash, their bytes    *)
(* unless damaged, and their record on the ledger.                         *)
(***************************************************************************)
Kept ==
  /\ taken \subseteq taken' /\ Committed \subseteq Committed'
  /\ \A v \in Committed : sha256'[v] = sha256[v] /\ store'[v] \in {store[v], Damaged}
  /\ \A v \in Versions : ledger[v] # None =>
       /\ ledger'[v] # None /\ ledger'[v].sha = ledger[v].sha
       /\ ledger[v].status = "SEALED" => ledger'[v] = ledger[v]

\* A version of which nothing but the store's damage is seen.
Untouched(v) == (v \in Committed' => v \in Committed) /\ store'[v] \in {store[v], Damaged}

(***************************************************************************)
(* The other requests stay sound.                                          *)
(***************************************************************************)
LEMMA Bystander ==
  ASSUME IInv, Kept, NEW q \in Requests, op'[q] = op[q],
         Uploading(q) => Untouched(op[q].version)
  PROVE  OpSound(q)'
<1> SUFFICES ASSUME op[q] # None PROVE OpSound(q)'
  BY DEF OpSound
<1> DEFINE o == op[q]
<1>1. /\ op'[q] = o /\ o.kind \in {"upload", "seal", "verify"}
      /\ UploadSound(o) /\ SealSound(o) /\ CheckSound(o)
  BY DEF IInv, RequestsSound, OpSound
<1>2. Committed \subseteq Versions
  BY CommittedVersions DEF IInv, StoresInv, StoresType
<1>3. UploadSound(op[q])'
  <2> SUFFICES ASSUME o.kind = "upload" PROVE UploadSound(op[q])'
    BY <1>1 DEF UploadSound
  <2>1. Untouched(o.version)
    BY DEF Uploading
  <2>2. /\ o \in Uploads /\ o.version \in taken
        /\ o.at \in {"put", "commit"} => o.version \notin Committed
        /\ o.at = "commit" => store[o.version] \in {o.sha, Damaged}
        /\ o.at = "enqueue" => o.version \in Committed
        /\ o.from # None => o.from \in Committed /\ o.sha = sha256[o.from]
    BY <1>1 DEF UploadSound
  <2> HIDE DEF o
  <2> QED
    BY <1>1, <2>1, <2>2 DEF Kept, Untouched, UploadSound
<1>4. SealSound(op[q])'
  <2> SUFFICES ASSUME o.kind = "seal" PROVE SealSound(op[q])'
    BY <1>1 DEF SealSound
  <2>1. /\ o \in Seals /\ o.version \in Committed /\ ledger[o.version] # None
        /\ o.at = "mirror" => ledger[o.version].status = "SEALED"
    BY <1>1 DEF SealSound
  <2> HIDE DEF o
  <2> QED
    BY <1>1, <1>2, <2>1 DEF Kept, SealSound
<1>5. CheckSound(op[q])'
  <2> SUFFICES ASSUME o.kind = "verify" PROVE CheckSound(op[q])'
    BY <1>1 DEF CheckSound
  <2>1. /\ o \in Checks /\ o.version \in Committed
        /\ o.at \in {"ledger", "record"} =>
             /\ o.recomputed \in {sha256[o.version], Damaged}
             /\ o.recomputed = Damaged => store[o.version] = Damaged
        /\ o.at = "record" => o.onLedger \in {None, sha256[o.version]}
    BY <1>1 DEF CheckSound
  <2> HIDE DEF o
  <2> QED
    BY <1>1, <2>1 DEF Kept, CheckSound
<1> QED
  BY <1>1, <1>3, <1>4, <1>5 DEF OpSound

(***************************************************************************)
(* A step of request r leaves the requests sound if it leaves r so, keeps  *)
(* r's version, if r uploads one, apart, and touches no other.             *)
(***************************************************************************)
LEMMA RequestStep ==
  ASSUME IInv, Kept, NEW r \in Requests, NEW x, op' = [op EXCEPT ![r] = x],
         OpSound(r)',
         \A q \in Requests \ {r} : Uploading(q) =>
            /\ Untouched(op[q].version)
            /\ Uploading(r)' => op[q].version # x.version
  PROVE  RequestsSound'
<1>1. /\ op' = [q \in Requests |-> op'[q]] /\ op'[r] = x
      /\ \A q \in Requests \ {r} : op'[q] = op[q]
  BY DEF IInv, RequestsSound
<1>2. \A q \in Requests \ {r} : OpSound(q)'
  BY <1>1, Bystander
<1>3. Apart'
  <2> SUFFICES ASSUME NEW p \in Requests, NEW q \in Requests, Uploading(p)', Uploading(q)', p # q
               PROVE  op'[p].version # op'[q].version
    BY DEF Apart
  <2>1. CASE p # r /\ q # r
    BY <1>1, <2>1 DEF IInv, RequestsSound, Apart, Uploading
  <2>2. CASE p = r
    BY <1>1, <2>2 DEF Uploading
  <2>3. CASE q = r
    BY <1>1, <2>3 DEF Uploading
  <2> QED
    BY <2>1, <2>2, <2>3
<1> QED
  BY <1>1, <1>2, <1>3 DEF RequestsSound

\* A step of no request.
LEMMA StoreStep ==
  ASSUME IInv, Kept, UNCHANGED op, \A v \in Versions : Untouched(v)
  PROVE  RequestsSound'
<1>1. \A q \in Requests : Uploading(q) => op[q].version \in Versions
  BY DEF IInv, RequestsSound, OpSound, UploadSound, Uploading, Uploads
<1>2. \A q \in Requests : OpSound(q)'
  BY <1>1, Bystander
<1> QED
  BY <1>2 DEF IInv, RequestsSound, Apart, Uploading

-----------------------------------------------------------------------------
(***************************************************************************)
(* Steps that write no store.                                              *)
(***************************************************************************)
LEMMA StoresUnchanged ==
  ASSUME IInv, UNCHANGED <<store, rowVars, ledger, anchor>>,
         taken \subseteq taken', taken' \subseteq Versions
  PROVE  StoresInv' /\ Kept /\ Committed' = Committed /\ \A v : Untouched(v)
<1>1. Committed' = Committed
  BY DEF rowVars, Committed
<1>2. StoresType' /\ LedgerSound' /\ JobsSound' /\ SealWitnessed'
  BY <1>1 DEF IInv, StoresInv, StoresType, LedgerSound, JobsSound, SealWitnessed, rowVars
<1>3. RowsSound'
  BY <1>1 DEF IInv, StoresInv, RowsSound, rowVars
<1> QED
  BY <1>1, <1>2, <1>3 DEF StoresInv, Kept, Untouched, rowVars

\* A new upload has a version nobody had.
LEMMA TakeStep ==
  ASSUME IInv, NEW r \in Requests, NEW v \in Versions, NEW c \in Contents, NEW s \in Versions \cup {None},
         Take(r, v, c, s), s # None => s \in Committed /\ c = sha256[s]
  PROVE  IInv'
<1> DEFINE x == [kind |-> "upload", at |-> "put", version |-> v, sha |-> c, from |-> s]
<1>1. /\ v \notin taken /\ taken' = taken \cup {v} /\ op' = [op EXCEPT ![r] = x]
      /\ UNCHANGED <<store, rowVars, ledger, anchor>>
  BY DEF Take
<1>2. StoresInv' /\ Kept /\ Committed' = Committed /\ \A w : Untouched(w)
  <2>1. taken \subseteq Versions
    BY DEF IInv, StoresInv, StoresType
  <2> QED
    BY <1>1, <2>1, StoresUnchanged
<1>3. op'[r] = x
  BY <1>1 DEF IInv, RequestsSound
<1>4. v \notin Committed
  BY <1>1 DEF IInv, StoresInv, RowsSound
<1>5. OpSound(r)'
  <2>1. x \in Uploads /\ v \in taken' /\ sha256' = sha256
    BY <1>1 DEF Uploads, rowVars
  <2> QED
    BY <1>2, <1>3, <1>4, <2>1 DEF OpSound, UploadSound, SealSound, CheckSound
<1>6. \A q \in Requests : Uploading(q) => op[q].version \in taken
  BY DEF IInv, RequestsSound, OpSound, UploadSound, Uploading
<1>7. RequestsSound'
  <2>1. x.version = v
    OBVIOUS
  <2>2. \A q \in Requests \ {r} : Uploading(q) => Untouched(op[q].version) /\ op[q].version # x.version
    BY <1>1, <1>2, <1>6, <2>1
  <2> HIDE DEF x
  <2> QED
    BY <1>1, <1>2, <1>5, <2>2, RequestStep
<1> QED
  BY <1>2, <1>7 DEF IInv

LEMMA BeginUpload ==
  ASSUME IInv, NEW r \in Requests, NEW v \in Versions,
         \/ \E c \in Contents : CreateDocument(r, v, c) \/ AddVersion(r, v, c)
         \/ \E s \in Versions : RestoreVersion(r, v, s)
  PROVE  IInv'
<1>1. CASE \E c \in Contents : CreateDocument(r, v, c) \/ AddVersion(r, v, c)
  BY <1>1, TakeStep DEF CreateDocument, AddVersion
<1>2. ASSUME NEW s \in Versions, RestoreVersion(r, v, s) PROVE IInv'
  <2>1. s \in Committed /\ Take(r, v, sha256[s], s)
    BY <1>2 DEF RestoreVersion
  <2>2. sha256[s] \in Contents
    BY <2>1 DEF IInv, StoresInv, RowsSound
  <2> QED
    BY <2>1, <2>2, TakeStep
<1> QED
  BY <1>1, <1>2

\* A request that ends, or goes on, without a write.
LEMMA QuietStep ==
  ASSUME IInv, NEW r \in Requests, NEW x, op' = [op EXCEPT ![r] = x],
         UNCHANGED <<store, rowVars, ledger, anchor, taken>>,
         x # None => x.kind \in {"seal", "verify"}, OpSound(r)'
  PROVE  IInv'
<1>1. StoresInv' /\ Kept /\ \A w : Untouched(w)
  <2>1. taken \subseteq Versions
    BY DEF IInv, StoresInv, StoresType
  <2> QED
    BY <2>1, StoresUnchanged
<1>2. ~Uploading(r)'
  BY DEF Uploading, IInv, RequestsSound
<1>3. RequestsSound'
  BY <1>1, <1>2, RequestStep
<1> QED
  BY <1>1, <1>3 DEF IInv

LEMMA ReturnStep ==
  ASSUME IInv, NEW r \in Requests, Return(r), UNCHANGED <<store, rowVars, ledger, anchor, taken>>
  PROVE  IInv'
<1>1. op' = [op EXCEPT ![r] = None]
  BY DEF Return
<1>2. op'[r] = None
  BY <1>1 DEF IInv, RequestsSound
<1>3. OpSound(r)'
  BY <1>2 DEF OpSound
<1> QED
  BY <1>1, <1>3, QuietStep

LEMMA SealStarts == ASSUME IInv, NEW r \in Requests, SealDocument(r) PROVE IInv'
<1> DEFINE x == [kind |-> "seal", at |-> "ledger", version |-> Current]
<1>1. /\ op' = [op EXCEPT ![r] = x] /\ UNCHANGED <<store, rowVars, ledger, anchor, taken>>
      /\ versions # <<>> /\ ledgerStatus[Current] = "ANCHORED"
  BY DEF SealDocument
<1>2. Current \in Committed /\ Current \in Versions
  BY <1>1, CurrentCommitted, CommittedVersions DEF IInv, StoresInv, StoresType
<1>3. ledger[Current] # None
  BY <1>1, <1>2 DEF IInv, StoresInv, LedgerSound
<1>4. op'[r] = x /\ Committed' = Committed /\ ledger' = ledger
  BY <1>1 DEF IInv, RequestsSound, Committed, rowVars
<1>5. OpSound(r)'
  <2>1. x \in Seals
    BY <1>2 DEF Seals
  <2> HIDE DEF x
  <2>2. x.kind = "seal" /\ x.at = "ledger" /\ x.version = Current
    BY DEF x
  <2> QED
    BY <1>2, <1>3, <1>4, <2>1, <2>2 DEF OpSound, UploadSound, SealSound, CheckSound
<1> QED
  BY <1>1, <1>5, QuietStep

\* The check of a version reads its row ...
LEMMA CheckStarts == ASSUME IInv, NEW r \in Requests, VerifyIntegrity(r) PROVE IInv'
<1> DEFINE x == [kind |-> "verify", at |-> "hash", version |-> Current,
                 anchored |-> ledgerStatus[Current] = "ANCHORED",
                 recomputed |-> None, onLedger |-> None]
<1>1. /\ op' = [op EXCEPT ![r] = x] /\ UNCHANGED <<store, rowVars, ledger, anchor, taken>>
      /\ versions # <<>>
  BY DEF VerifyIntegrity
<1>2. Current \in Committed /\ Current \in Versions
  BY <1>1, CurrentCommitted, CommittedVersions DEF IInv, StoresInv, StoresType
<1>3. op'[r] = x /\ Committed' = Committed
  BY <1>1 DEF IInv, RequestsSound, Committed, rowVars
<1>4. OpSound(r)'
  <2>1. x \in Checks
    BY <1>2 DEF Checks, Hashes
  <2>2. x.kind = "verify" /\ x.at = "hash" /\ x.version = Current
    OBVIOUS
  <2> HIDE DEF x
  <2> QED
    BY <1>2, <1>3, <2>1, <2>2 DEF OpSound, UploadSound, SealSound, CheckSound
<1>5. x.kind = "verify"
  OBVIOUS
<1> HIDE DEF x
<1> QED
  BY <1>1, <1>4, <1>5, QuietStep

\* ... then its bytes ...
LEMMA CheckHashes == ASSUME IInv, NEW r \in Requests, RehashObject(r) PROVE IInv'
<1> DEFINE o == op[r]
           x == [o EXCEPT !.at = "ledger", !.recomputed = store[Key(o.version)]]
<1>1. /\ o # None /\ o.kind = "verify" /\ op' = [op EXCEPT ![r] = x]
      /\ UNCHANGED <<store, rowVars, ledger, anchor, taken>>
  BY DEF RehashObject, Doing
<1>2. o \in Checks /\ o.version \in Committed
  BY <1>1 DEF IInv, RequestsSound, OpSound, CheckSound
<1>3. /\ store[o.version] \in {sha256[o.version], Damaged} /\ store[o.version] \in Hashes
  BY <1>2 DEF IInv, StoresInv, RowsSound, StoresType, Checks
<1>4. /\ x \in Checks /\ x.kind = "verify" /\ x.at = "ledger" /\ x.version = o.version
      /\ x.recomputed = store[o.version]
  BY <1>2, <1>3 DEF Checks, Key
<1>5. op'[r] = x /\ Committed' = Committed /\ sha256' = sha256 /\ store' = store
  BY <1>1 DEF IInv, RequestsSound, Committed, rowVars
<1> HIDE DEF x
<1>6. OpSound(r)'
  BY <1>2, <1>3, <1>4, <1>5 DEF OpSound, UploadSound, SealSound, CheckSound
<1> QED
  BY <1>1, <1>4, <1>6, QuietStep

\* ... then the ledger's record.
LEMMA CheckReads == ASSUME IInv, NEW r \in Requests, VerifyHash(r) PROVE IInv'
<1> DEFINE o == op[r]
           hash == IF ledger[o.version] = None THEN None ELSE ledger[o.version].sha
           x == [o EXCEPT !.at = "record", !.onLedger = hash]
<1>1. /\ o # None /\ o.kind = "verify" /\ o.at = "ledger" /\ op' = [op EXCEPT ![r] = x]
      /\ UNCHANGED <<store, rowVars, ledger, anchor, taken>>
  BY DEF VerifyHash, Doing
<1>2. /\ o \in Checks /\ o.version \in Committed
      /\ o.recomputed \in {sha256[o.version], Damaged}
      /\ o.recomputed = Damaged => store[o.version] = Damaged
  BY <1>1 DEF IInv, RequestsSound, OpSound, CheckSound
<1>3. hash \in {None, sha256[o.version]} /\ hash \in Contents \cup {None}
  BY <1>2 DEF IInv, StoresInv, LedgerSound, StoresType, Records, Checks
<1> HIDE DEF hash
<1>4. /\ x \in Checks /\ x.kind = "verify" /\ x.at = "record" /\ x.version = o.version
      /\ x.recomputed = o.recomputed /\ x.onLedger = hash
  BY <1>2, <1>3 DEF Checks
<1>5. op'[r] = x /\ Committed' = Committed /\ sha256' = sha256 /\ store' = store
  BY <1>1 DEF IInv, RequestsSound, Committed, rowVars
<1> HIDE DEF x
<1>6. OpSound(r)'
  BY <1>2, <1>3, <1>4, <1>5 DEF OpSound, UploadSound, SealSound, CheckSound
<1> QED
  BY <1>1, <1>4, <1>6, QuietStep

-----------------------------------------------------------------------------
(***************************************************************************)
(* Steps that write a store for a request: each shows that the stores stay *)
(* sound, that nothing is taken back, and that only r's version is touched.*)
(***************************************************************************)

\* The bytes are put before there is a row.
LEMMA PutStep == ASSUME IInv, NEW r \in Requests, PutObject(r) PROVE IInv' /\ Kept
<1> DEFINE o == op[r]
           v == o.version
           bytes == IF o.from = None THEN o.sha ELSE store[Key(o.from)]
           x == [o EXCEPT !.at = "commit"]
<1>1. /\ o # None /\ o.kind = "upload" /\ o.at = "put" /\ store' = [store EXCEPT ![v] = bytes]
      /\ op' = [op EXCEPT ![r] = x] /\ UNCHANGED <<rowVars, ledger, anchor, taken>>
  BY DEF PutObject, Doing, Goto, Key
<1>2. /\ o \in Uploads /\ v \in Versions /\ o.sha \in Contents /\ v \in taken /\ v \notin Committed
      /\ o.from # None => o.from \in Committed /\ o.sha = sha256[o.from]
  BY <1>1 DEF IInv, RequestsSound, OpSound, UploadSound, Uploads
<1>3. bytes \in {o.sha, Damaged}
  BY <1>2 DEF IInv, StoresInv, RowsSound, Key
<1> HIDE DEF bytes
<1>4. Committed' = Committed /\ UNCHANGED <<sha256, ledgerStatus, integrity, sealed, versions>>
  BY <1>1 DEF rowVars, Committed
<1>5. /\ store' \in [Versions -> Hashes] /\ store'[v] = bytes
      /\ \A w \in Versions \ {v} : store'[w] = store[w]
  BY <1>1, <1>2, <1>3 DEF IInv, StoresInv, StoresType, Hashes
<1>6. Committed \subseteq Versions
  BY CommittedVersions DEF IInv, StoresInv, StoresType
<1>7. StoresType' /\ LedgerSound' /\ JobsSound' /\ SealWitnessed'
  BY <1>1, <1>4, <1>5 DEF IInv, StoresInv, StoresType, LedgerSound, JobsSound, SealWitnessed
<1>8. RowsSound'
  BY <1>1, <1>2, <1>4, <1>5, <1>6 DEF IInv, StoresInv, RowsSound
<1>9. Kept /\ \A w \in Versions \ {v} : Untouched(w)
  BY <1>1, <1>2, <1>4, <1>5, <1>6 DEF Kept, Untouched
<1>10. x \in Uploads /\ x.kind = "upload" /\ x.at = "commit" /\ x.version = v /\ x.sha = o.sha /\ x.from = o.from
  BY <1>1, <1>2 DEF Uploads
<1>11. op'[r] = x
  BY <1>1 DEF IInv, RequestsSound
<1> HIDE DEF x
<1>12. OpSound(r)'
  BY <1>1, <1>2, <1>3, <1>4, <1>5, <1>10, <1>11 DEF OpSound, UploadSound, SealSound, CheckSound
<1>13. \A q \in Requests \ {r} : Uploading(q) => op[q].version \in Versions \ {v}
  BY <1>1 DEF IInv, RequestsSound, Apart, Uploading, OpSound, UploadSound, Uploads
<1>14. RequestsSound'
  BY <1>1, <1>9, <1>10, <1>12, <1>13, RequestStep
<1> QED
  BY <1>7, <1>8, <1>9, <1>14 DEF IInv, StoresInv

\* The row is committed over its bytes.
LEMMA CommitStep == ASSUME IInv, NEW r \in Requests, CommitVersion(r) PROVE IInv' /\ Kept
<1> DEFINE o == op[r]
           v == o.version
           x == [o EXCEPT !.at = "enqueue"]
<1>1. /\ o # None /\ o.kind = "upload" /\ o.at = "commit"
      /\ versions' = Append(versions, v) /\ sha256' = [sha256 EXCEPT ![v] = o.sha]
      /\ op' = [op EXCEPT ![r] = x]
      /\ UNCHANGED <<store, ledgerStatus, integrity, sealed, ledger, anchor, taken>>
  BY DEF CommitVersion, Doing, Goto
<1>2. /\ o \in Uploads /\ v \in Versions /\ o.sha \in Contents /\ v \in taken /\ v \notin Committed
      /\ store[v] \in {o.sha, Damaged}
      /\ o.from # None => o.from \in Committed /\ o.sha = sha256[o.from]
  BY <1>1 DEF IInv, RequestsSound, OpSound, UploadSound, Uploads
<1>3. Committed' = Committed \cup {v} /\ versions' \in Seq(Versions) /\ IsInjective(versions)'
  BY <1>1, <1>2, CommittedGrows DEF IInv, StoresInv, StoresType
<1>4. Committed \subseteq Versions
  BY CommittedVersions DEF IInv, StoresInv, StoresType
<1>5. /\ sha256' \in [Versions -> Contents \cup {None}] /\ sha256'[v] = o.sha
      /\ \A w \in Versions \ {v} : sha256'[w] = sha256[w]
  BY <1>1, <1>2 DEF IInv, StoresInv, StoresType
<1>6. StoresType' /\ JobsSound'
  BY <1>1, <1>3, <1>5 DEF IInv, StoresInv, StoresType, JobsSound
<1>7. LedgerSound' /\ SealWitnessed'
  BY <1>1, <1>2, <1>3, <1>4, <1>5 DEF IInv, StoresInv, LedgerSound, SealWitnessed
<1>8. RowsSound'
  BY <1>1, <1>2, <1>3, <1>4, <1>5 DEF IInv, StoresInv, RowsSound
<1>9. Kept /\ \A w \in Versions \ {v} : Untouched(w)
  BY <1>1, <1>2, <1>3, <1>4, <1>5 DEF Kept, Untouched
<1>10. x \in Uploads /\ x.kind = "upload" /\ x.at = "enqueue" /\ x.version = v /\ x.sha = o.sha /\ x.from = o.from
  BY <1>1, <1>2 DEF Uploads
<1>11. op'[r] = x
  BY <1>1 DEF IInv, RequestsSound
<1> HIDE DEF x
<1>12. OpSound(r)'
  BY <1>1, <1>2, <1>3, <1>5, <1>4, <1>10, <1>11 DEF OpSound, UploadSound, SealSound, CheckSound
<1>13. \A q \in Requests \ {r} : Uploading(q) => op[q].version \in Versions \ {v}
  BY <1>1 DEF IInv, RequestsSound, Apart, Uploading, OpSound, UploadSound, Uploads
<1>14. RequestsSound'
  BY <1>1, <1>9, <1>10, <1>12, <1>13, RequestStep
<1> QED
  BY <1>6, <1>7, <1>8, <1>9, <1>14 DEF IInv, StoresInv

\* The clean-up deletes bytes without a row.
LEMMA UndoStep == ASSUME IInv, NEW r \in Requests, UndoVersion(r) PROVE IInv' /\ Kept
<1> DEFINE o == op[r]
           v == o.version
<1>1. /\ o # None /\ o.kind = "upload" /\ o.at = "commit"
      /\ store' = [store EXCEPT ![v] = None] \/ store' = store
      /\ op' = [op EXCEPT ![r] = None] /\ UNCHANGED <<rowVars, ledger, anchor, taken>>
  BY DEF UndoVersion, Doing, Return, Key
<1>2. v \in Versions /\ v \notin Committed
  BY <1>1 DEF IInv, RequestsSound, OpSound, UploadSound, Uploads
<1>3. Committed' = Committed /\ UNCHANGED <<sha256, ledgerStatus, integrity, sealed, versions>>
  BY <1>1 DEF rowVars, Committed
<1>4. store' \in [Versions -> Hashes] /\ \A w \in Versions \ {v} : store'[w] = store[w]
  BY <1>1, <1>2 DEF IInv, StoresInv, StoresType, Hashes
<1>5. Committed \subseteq Versions
  BY CommittedVersions DEF IInv, StoresInv, StoresType
<1>6. StoresType' /\ LedgerSound' /\ JobsSound' /\ SealWitnessed'
  BY <1>1, <1>3, <1>4 DEF IInv, StoresInv, StoresType, LedgerSound, JobsSound, SealWitnessed
<1>7. RowsSound'
  BY <1>1, <1>2, <1>3, <1>4, <1>5 DEF IInv, StoresInv, RowsSound
<1>8. Kept /\ \A w \in Versions \ {v} : Untouched(w)
  BY <1>1, <1>2, <1>3, <1>4, <1>5 DEF Kept, Untouched
<1>9. op'[r] = None
  BY <1>1 DEF IInv, RequestsSound
<1>10. \A q \in Requests \ {r} : Uploading(q) => op[q].version \in Versions \ {v}
  BY <1>1 DEF IInv, RequestsSound, Apart, Uploading, OpSound, UploadSound, Uploads
<1>11. RequestsSound'
  <2>1. OpSound(r)' /\ ~Uploading(r)'
    BY <1>9 DEF OpSound, Uploading
  <2> QED
    BY <1>1, <1>8, <1>10, <2>1, RequestStep
<1> QED
  BY <1>6, <1>7, <1>8, <1>11 DEF IInv, StoresInv

\* A job is queued for a committed version.
LEMMA EnqueueStep == ASSUME IInv, NEW r \in Requests, EnqueueAnchor(r) PROVE IInv' /\ Kept
<1> DEFINE o == op[r]
           v == o.version
           job == [at |-> "queued", tries |-> 0]
<1>1. /\ o # None /\ o.kind = "upload" /\ o.at = "enqueue"
      /\ anchor' = [anchor EXCEPT ![v] = job] \/ anchor' = anchor
      /\ op' = [op EXCEPT ![r] = None] /\ UNCHANGED <<store, rowVars, ledger, taken>>
  BY DEF EnqueueAnchor, Doing, Return
<1>2. v \in Versions /\ v \in Committed
  BY <1>1 DEF IInv, RequestsSound, OpSound, UploadSound, Uploads
<1>3. Committed' = Committed /\ UNCHANGED <<sha256, ledgerStatus, integrity, sealed, versions>>
  BY <1>1 DEF rowVars, Committed
<1>4. job \in Jobs /\ job.at = "queued" /\ job.tries = 0 /\ 0 < Attempts
  BY AttemptsPositive DEF Jobs
<1> HIDE DEF job
<1>5. /\ anchor' \in [Versions -> Jobs \cup {None, Over}]
      /\ anchor'[v] = job \/ anchor'[v] = anchor[v]
      /\ \A w \in Versions \ {v} : anchor'[w] = anchor[w]
  BY <1>1, <1>2, <1>4 DEF IInv, StoresInv, StoresType
<1>6. StoresType' /\ RowsSound' /\ LedgerSound' /\ SealWitnessed'
  BY <1>1, <1>3, <1>5 DEF IInv, StoresInv, StoresType, RowsSound, LedgerSound, SealWitnessed
<1>7. JobsSound'
  BY <1>1, <1>2, <1>3, <1>4, <1>5 DEF IInv, StoresInv, JobsSound
<1>8. Kept /\ \A w : Untouched(w)
  BY <1>1, <1>3 DEF Kept, Untouched
<1>9. op'[r] = None
  BY <1>1 DEF IInv, RequestsSound
<1>10. RequestsSound'
  <2>1. OpSound(r)' /\ ~Uploading(r)'
    BY <1>9 DEF OpSound, Uploading
  <2> QED
    BY <1>1, <1>8, <2>1, RequestStep
<1> QED
  BY <1>6, <1>7, <1>8, <1>10 DEF IInv, StoresInv

\* The seal on the ledger only freezes a record that is there.
LEMMA FreezeStep == ASSUME IInv, NEW r \in Requests, SealOnLedger(r) PROVE IInv' /\ Kept
<1> DEFINE o == op[r]
           v == o.version
           x == [o EXCEPT !.at = "mirror"]
<1>1. /\ o # None /\ o.kind = "seal" /\ UNCHANGED <<store, rowVars, anchor, taken>>
      /\ \/ ~AlreadySealed(v) /\ ledger' = [ledger EXCEPT ![v].status = "SEALED"]
         \/ AlreadySealed(v) /\ ledger' = ledger
      /\ op' = [op EXCEPT ![r] = x] \/ op' = [op EXCEPT ![r] = None]
  BY DEF SealOnLedger, Doing, Freeze, Goto, Return
<1>2. o \in Seals /\ v \in Versions /\ v \in Committed /\ ledger[v] # None /\ ledger[v] \in Records
  BY <1>1 DEF IInv, RequestsSound, OpSound, SealSound, Seals, StoresInv, StoresType
<1>3. Committed' = Committed /\ UNCHANGED <<sha256, ledgerStatus, integrity, sealed, versions>>
  BY <1>1 DEF rowVars, Committed
<1>4. /\ ledger'[v] \in Records /\ ledger'[v].sha = ledger[v].sha /\ ledger'[v].status = "SEALED"
      /\ ledger[v].status = "SEALED" => ledger'[v] = ledger[v]
      /\ ledger' \in [Versions -> Records \cup {None}]
      /\ \A w \in Versions \ {v} : ledger'[w] = ledger[w]
  <2>1. CASE AlreadySealed(v)
    BY <1>1, <1>2, <2>1 DEF AlreadySealed, IInv, StoresInv, StoresType
  <2>2. CASE ~AlreadySealed(v)
    <3>1. [ledger[v] EXCEPT !.status = "SEALED"] \in Records
      BY <1>2 DEF Records
    <3>2. ledger[v].status # "SEALED"
      BY <1>2, <2>2 DEF AlreadySealed
    <3> QED
      BY <1>1, <1>2, <2>2, <3>1, <3>2 DEF IInv, StoresInv, StoresType, Records
  <2> QED
    BY <2>1, <2>2
<1>5. ledger'[v] # None
  BY <1>4, NewValues DEF Records
<1>6. Committed \subseteq Versions
  BY CommittedVersions DEF IInv, StoresInv, StoresType
<1>7. StoresType' /\ RowsSound'
  BY <1>1, <1>3, <1>4 DEF IInv, StoresInv, StoresType, RowsSound
<1>8. LedgerSound' /\ JobsSound' /\ SealWitnessed'
  BY <1>1, <1>2, <1>3, <1>4, <1>5, <1>6 DEF IInv, StoresInv, LedgerSound, JobsSound, SealWitnessed
<1>9. Kept /\ \A w : Untouched(w)
  BY <1>1, <1>2, <1>3, <1>4, <1>5 DEF Kept, Untouched
<1>10. x \in Seals /\ x.kind = "seal" /\ x.at = "mirror" /\ x.version = v
  BY <1>2 DEF Seals
<1>11. op'[r] = x \/ op'[r] = None
  BY <1>1 DEF IInv, RequestsSound
<1> HIDE DEF x
<1>12. OpSound(r)' /\ ~Uploading(r)'
  BY <1>2, <1>3, <1>4, <1>5, <1>10, <1>11 DEF OpSound, UploadSound, SealSound, CheckSound, Uploading
<1>13. RequestsSound'
  BY <1>1, <1>9, <1>12, RequestStep
<1> QED
  BY <1>7, <1>8, <1>9, <1>13 DEF IInv, StoresInv

\* The mirror of the seal follows the ledger's.
LEMMA MirrorSealStep == ASSUME IInv, NEW r \in Requests, SetDocumentSealed(r) PROVE IInv' /\ Kept
<1> DEFINE o == op[r]
<1>1. /\ o # None /\ o.kind = "seal" /\ o.at = "mirror" /\ sealed' = TRUE
      /\ op' = [op EXCEPT ![r] = None]
      /\ UNCHANGED <<store, versions, sha256, ledgerStatus, integrity, ledger, anchor, taken>>
  BY DEF SetDocumentSealed, Doing, Return
<1>2. o.version \in Committed /\ ledger[o.version] # None /\ ledger[o.version].status = "SEALED"
  BY <1>1 DEF IInv, RequestsSound, OpSound, SealSound
<1>3. Committed' = Committed
  BY <1>1 DEF Committed
<1>4. StoresType' /\ RowsSound' /\ LedgerSound' /\ JobsSound'
  BY <1>1, <1>3 DEF IInv, StoresInv, StoresType, RowsSound, LedgerSound, JobsSound
<1>5. SealWitnessed'
  BY <1>1, <1>2, <1>3 DEF SealWitnessed
<1>6. Kept /\ \A w : Untouched(w)
  BY <1>1, <1>3 DEF Kept, Untouched
<1>7. OpSound(r)' /\ ~Uploading(r)'
  BY <1>1 DEF OpSound, Uploading, IInv, RequestsSound
<1>8. RequestsSound'
  BY <1>1, <1>6, <1>7, RequestStep
<1> QED
  BY <1>4, <1>5, <1>6, <1>8 DEF IInv, StoresInv

\* A verdict of TAMPERED is over damaged bytes.
LEMMA VerdictStep == ASSUME IInv, NEW r \in Requests, SetIntegrityChecked(r) PROVE IInv' /\ Kept
<1> DEFINE o == op[r]
           v == o.version
           verdict == DecideIntegrity(o.recomputed, sha256[v], o.onLedger, o.anchored)
<1>1. /\ o # None /\ o.kind = "verify" /\ o.at = "record"
      /\ integrity' = [integrity EXCEPT ![v] = verdict] /\ op' = [op EXCEPT ![r] = None]
      /\ UNCHANGED <<store, versions, sha256, ledgerStatus, sealed, ledger, anchor, taken>>
  BY DEF SetIntegrityChecked, Doing, Return
<1>2. /\ v \in Versions /\ v \in Committed
      /\ o.recomputed \in {sha256[v], Damaged}
      /\ o.recomputed = Damaged => store[v] = Damaged
      /\ o.onLedger \in {None, sha256[v]}
  BY <1>1 DEF IInv, RequestsSound, OpSound, CheckSound, Checks
<1>3. verdict \in {"PENDING", "VERIFIED", "TAMPERED"}
  BY DEF DecideIntegrity
<1>4. verdict = "TAMPERED" => store[v] = Damaged
  BY <1>2 DEF DecideIntegrity
<1> HIDE DEF verdict
<1>5. Committed' = Committed
  BY <1>1 DEF Committed
<1>6. /\ integrity' \in [Versions -> {"PENDING", "VERIFIED", "TAMPERED"}] /\ integrity'[v] = verdict
      /\ \A w \in Versions \ {v} : integrity'[w] = integrity[w]
  BY <1>1, <1>2, <1>3 DEF IInv, StoresInv, StoresType
<1>7. StoresType' /\ LedgerSound' /\ JobsSound' /\ SealWitnessed'
  BY <1>1, <1>5, <1>6 DEF IInv, StoresInv, StoresType, LedgerSound, JobsSound, SealWitnessed
<1>8. RowsSound'
  BY <1>1, <1>2, <1>4, <1>5, <1>6 DEF IInv, StoresInv, RowsSound
<1>9. Kept /\ \A w : Untouched(w)
  BY <1>1, <1>5 DEF Kept, Untouched
<1>10. OpSound(r)' /\ ~Uploading(r)'
  BY <1>1 DEF OpSound, Uploading, IInv, RequestsSound
<1>11. RequestsSound'
  BY <1>1, <1>9, <1>10, RequestStep
<1> QED
  BY <1>7, <1>8, <1>9, <1>11 DEF IInv, StoresInv

-----------------------------------------------------------------------------
(***************************************************************************)
(* The anchor worker: what becomes of a job, and then its steps.           *)
(***************************************************************************)
LEMMA JobMoves ==
  ASSUME IInv, NEW v \in Versions, anchor[v] \notin {None, Over}, anchor[v].at # "failed",
         \/ Attempted(v) \/ GotoStep(v, "queued") \/ End(v)
         \/ GotoStep(v, "mirror") /\ ledger'[v] # None
  PROVE  /\ anchor' \in [Versions -> Jobs \cup {None, Over}] /\ v \in Committed
         /\ \A w \in Versions \ {v} : anchor'[w] = anchor[w]
         /\ anchor'[v] \notin {None, Over} =>
              /\ anchor'[v].at = "mirror" => ledger'[v] # None
              /\ anchor'[v].at # "failed" => anchor'[v].tries < Attempts
<1> DEFINE job == anchor[v]
<1>1. /\ anchor \in [Versions -> Jobs \cup {None, Over}] /\ job \in Jobs /\ v \in Committed
      /\ job.tries \in 0 .. Attempts /\ job.tries < Attempts /\ Attempts \in Nat
  BY AttemptsPositive DEF IInv, StoresInv, StoresType, JobsSound, Jobs
<1>2. ASSUME NEW x, x \in Jobs \cup {Over}, anchor' = [anchor EXCEPT ![v] = x]
      PROVE  /\ anchor' \in [Versions -> Jobs \cup {None, Over}] /\ anchor'[v] = x
             /\ \A w \in Versions \ {v} : anchor'[w] = anchor[w]
  BY <1>1, <1>2
<1>3. CASE Attempted(v)
  <2> DEFINE tries == job.tries + 1
             x == [at |-> IF tries < Attempts THEN "queued" ELSE "failed", tries |-> tries]
  <2>1. anchor' = [anchor EXCEPT ![v] = x]
    BY <1>3 DEF Attempted
  <2>2. x \in Jobs /\ x.at # "mirror" /\ (x.at # "failed" => x.tries < Attempts)
    BY <1>1 DEF Jobs
  <2> HIDE DEF x
  <2> QED
    BY <1>1, <1>2, <2>1, <2>2
<1>4. ASSUME NEW step \in {"queued", "mirror"}, GotoStep(v, step)
      PROVE  /\ anchor' \in [Versions -> Jobs \cup {None, Over}]
             /\ \A w \in Versions \ {v} : anchor'[w] = anchor[w]
             /\ anchor'[v].at = step /\ anchor'[v].tries < Attempts
  <2> DEFINE x == [job EXCEPT !.at = step]
  <2>1. anchor' = [anchor EXCEPT ![v] = x]
    BY <1>4 DEF GotoStep
  <2>2. x \in Jobs /\ x.at = step /\ x.tries = job.tries
    BY <1>1, <1>4 DEF Jobs
  <2> HIDE DEF x
  <2> QED
    BY <1>1, <1>2, <2>1, <2>2
<1>5. CASE End(v)
  BY <1>1, <1>2, <1>5 DEF End
<1> QED
  BY <1>1, <1>3, <1>4, <1>5

\* A step of the worker that writes neither bytes nor rows but a ledger_status.
LEMMA WorkerStep ==
  ASSUME IInv, NEW v \in Versions, v \in Committed,
         UNCHANGED <<store, versions, sha256, integrity, sealed, op, taken>>,
         ledgerStatus' \in [Versions -> {"PENDING_LEDGER", "ANCHORED", "FAILED"}],
         ledgerStatus'[v] = "ANCHORED" => ledger'[v] # None,
         \A w \in Versions \ {v} : ledgerStatus'[w] = ledgerStatus[w],
         ledger' \in [Versions -> Records \cup {None}],
         ledger'[v] # None => ledger'[v].sha = sha256[v],
         ledger[v] # None => ledger'[v] = ledger[v],
         \A w \in Versions \ {v} : ledger'[w] = ledger[w],
         anchor' \in [Versions -> Jobs \cup {None, Over}],
         \A w \in Versions \ {v} : anchor'[w] = anchor[w],
         anchor'[v] \notin {None, Over} =>
              /\ anchor'[v].at = "mirror" => ledger'[v] # None
              /\ anchor'[v].at # "failed" => anchor'[v].tries < Attempts
  PROVE  IInv' /\ Kept
<1>1. Committed' = Committed
  BY DEF Committed
<1>2. Committed \subseteq Versions
  BY CommittedVersions DEF IInv, StoresInv, StoresType
<1>3. StoresType' /\ RowsSound'
  BY <1>1 DEF IInv, StoresInv, StoresType, RowsSound
<1>4. LedgerSound' /\ SealWitnessed'
  BY <1>1, <1>2 DEF IInv, StoresInv, LedgerSound, SealWitnessed
<1>5. JobsSound'
  BY <1>1 DEF IInv, StoresInv, JobsSound
<1>6. Kept /\ \A w \in Versions : Untouched(w)
  BY <1>1 DEF Kept, Untouched
<1>7. RequestsSound'
  BY <1>6, StoreStep
<1> QED
  BY <1>3, <1>4, <1>5, <1>6, <1>7 DEF IInv, StoresInv

LEMMA RegisterStep == ASSUME IInv, NEW v \in Versions, RegisterVersion(v) PROVE IInv' /\ Kept
<1> DEFINE rec == [sha |-> sha256[v], status |-> "ACTIVE"]
<1>1. /\ anchor[v] \notin {None, Over} /\ anchor[v].at = "queued"
      /\ UNCHANGED <<store, rowVars, op, taken>>
      /\ \/ Register(v) /\ (GotoStep(v, "mirror") \/ Attempted(v))
         \/ AlreadyRegistered(v) /\ GotoStep(v, "mirror") /\ UNCHANGED ledger
         \/ Attempted(v) /\ UNCHANGED ledger
  BY DEF RegisterVersion, At
<1>2. v \in Committed /\ sha256[v] \in Contents
  BY <1>1 DEF IInv, StoresInv, JobsSound, RowsSound
<1>3. rec \in Records /\ rec # None /\ rec.sha = sha256[v]
  BY <1>2, NewValues DEF Records
<1> HIDE DEF rec
<1>4. /\ ledger' \in [Versions -> Records \cup {None}]
      /\ ledger'[v] # None => ledger'[v].sha = sha256[v]
      /\ ledger[v] # None => ledger'[v] = ledger[v]
      /\ \A w \in Versions \ {v} : ledger'[w] = ledger[w]
      /\ Register(v) \/ AlreadyRegistered(v) => ledger'[v] # None
  <2>1. CASE ledger[v] = None /\ ledger' = [ledger EXCEPT ![v] = rec]
    BY <1>3, <2>1 DEF IInv, StoresInv, StoresType
  <2>2. CASE UNCHANGED ledger
    BY <1>3, <2>2 DEF IInv, StoresInv, StoresType, LedgerSound, Register, AlreadyRegistered, rec
  <2> QED
    BY <1>1, <2>1, <2>2 DEF Register, rec
<1>5. Attempted(v) \/ (GotoStep(v, "mirror") /\ ledger'[v] # None)
  BY <1>1, <1>4
<1>6. /\ UNCHANGED <<store, versions, sha256, integrity, sealed, op, taken>> /\ ledgerStatus' = ledgerStatus
  BY <1>1 DEF rowVars
<1>7. /\ ledgerStatus' \in [Versions -> {"PENDING_LEDGER", "ANCHORED", "FAILED"}]
      /\ ledgerStatus'[v] = "ANCHORED" => ledger'[v] # None
  BY <1>4, <1>6 DEF IInv, StoresInv, StoresType, LedgerSound
<1> QED
  BY <1>1, <1>2, <1>4, <1>5, <1>6, <1>7, JobMoves, WorkerStep

LEMMA MirrorStep ==
  ASSUME IInv, NEW v \in Versions, SetLedgerAnchored(v) \/ SetLedgerFailed(v)
  PROVE  IInv' /\ Kept
<1>1. /\ anchor[v] \notin {None, Over}
      /\ UNCHANGED <<store, versions, sha256, integrity, sealed, ledger, op, taken>>
  BY DEF SetLedgerAnchored, SetLedgerFailed, At
<1>2. /\ anchor' \in [Versions -> Jobs \cup {None, Over}] /\ v \in Committed
      /\ \A w \in Versions \ {v} : anchor'[w] = anchor[w]
      /\ anchor'[v] \notin {None, Over} =>
           /\ anchor'[v].at = "mirror" => ledger'[v] # None
           /\ anchor'[v].at # "failed" => anchor'[v].tries < Attempts
  <2>1. CASE SetLedgerAnchored(v)
    BY <1>1, <2>1, JobMoves DEF SetLedgerAnchored, At
  <2>2. CASE SetLedgerFailed(v)
    <3>1. anchor' = [anchor EXCEPT ![v] = Over]
      BY <2>2 DEF SetLedgerFailed, End
    <3> QED
      BY <1>1, <3>1 DEF IInv, StoresInv, StoresType, JobsSound
  <2> QED
    BY <2>1, <2>2
<1>3. /\ ledgerStatus' \in [Versions -> {"PENDING_LEDGER", "ANCHORED", "FAILED"}]
      /\ \A w \in Versions \ {v} : ledgerStatus'[w] = ledgerStatus[w]
      /\ ledgerStatus'[v] = "ANCHORED" => ledger'[v] # None
  <2>1. CASE SetLedgerAnchored(v)
    <3>1. ledger[v] # None
      BY <1>1, <2>1 DEF SetLedgerAnchored, At, IInv, StoresInv, JobsSound
    <3> QED
      BY <1>1, <2>1, <3>1 DEF SetLedgerAnchored, IInv, StoresInv, StoresType
  <2>2. CASE SetLedgerFailed(v)
    BY <1>1, <2>2 DEF SetLedgerFailed, IInv, StoresInv, StoresType, LedgerSound
  <2> QED
    BY <2>1, <2>2
<1>4. /\ ledger' \in [Versions -> Records \cup {None}]
      /\ ledger'[v] # None => ledger'[v].sha = sha256[v]
      /\ \A w \in Versions : ledger'[w] = ledger[w]
  BY <1>1 DEF IInv, StoresInv, StoresType, LedgerSound
<1> QED
  BY <1>1, <1>2, <1>3, <1>4, WorkerStep

LEMMA CrashStep == ASSUME IInv, NEW v \in Versions, CrashAnchor(v) PROVE IInv' /\ Kept
<1>1. /\ anchor[v] \notin {None, Over} /\ anchor[v].at # "failed"
      /\ GotoStep(v, "queued") \/ End(v)
      /\ UNCHANGED <<store, rowVars, ledger, op, taken>>
  BY DEF CrashAnchor, At
<1>2. /\ ledgerStatus \in [Versions -> {"PENDING_LEDGER", "ANCHORED", "FAILED"}]
      /\ ledgerStatus[v] = "ANCHORED" => ledger[v] # None
      /\ ledger \in [Versions -> Records \cup {None}]
      /\ ledger[v] # None => ledger[v].sha = sha256[v]
  BY DEF IInv, StoresInv, StoresType, LedgerSound
<1>3. UNCHANGED <<store, versions, sha256, integrity, sealed, op, taken>> /\ UNCHANGED <<ledgerStatus, ledger>>
  BY <1>1 DEF rowVars
<1> QED
  BY <1>1, <1>2, <1>3, JobMoves, WorkerStep

LEMMA DamageStep == ASSUME IInv, NEW v \in Versions, Damage(v) PROVE IInv' /\ Kept
<1>1. store' = [store EXCEPT ![v] = Damaged] /\ UNCHANGED <<rowVars, ledger, op, anchor, taken>>
  BY DEF Damage
<1>2. Committed' = Committed /\ UNCHANGED <<versions, sha256, ledgerStatus, integrity, sealed>>
  BY <1>1 DEF rowVars, Committed
<1>3. /\ store' \in [Versions -> Hashes]
      /\ \A w \in Versions : store'[w] \in {store[w], Damaged}
  BY <1>1 DEF IInv, StoresInv, StoresType, Hashes
<1>4. Committed \subseteq Versions
  BY CommittedVersions DEF IInv, StoresInv, StoresType
<1>5. StoresType' /\ LedgerSound' /\ JobsSound' /\ SealWitnessed'
  <2>1. StoresType'
    BY <1>1, <1>2, <1>3 DEF IInv, StoresInv, StoresType
  <2>2. LedgerSound' /\ JobsSound' /\ SealWitnessed'
    BY <1>1, <1>2 DEF IInv, StoresInv, LedgerSound, JobsSound, SealWitnessed
  <2> QED
    BY <2>1, <2>2
<1>6. RowsSound'
  <2>1. taken' = taken /\ RowsSound
    BY <1>1 DEF IInv, StoresInv
  <2> QED
    BY <1>2, <1>3, <1>4, <2>1 DEF RowsSound
<1>7. Kept /\ \A w \in Versions : Untouched(w)
  BY <1>1, <1>2, <1>3, <1>4 DEF Kept, Untouched
<1>8. RequestsSound'
  BY <1>1, <1>7, StoreStep
<1> QED
  BY <1>5, <1>6, <1>7, <1>8 DEF IInv, StoresInv

-----------------------------------------------------------------------------
(***************************************************************************)
(* Every step keeps the invariant and takes nothing back.                  *)
(***************************************************************************)
LEMMA QuietKept == UNCHANGED <<store, rowVars, ledger>> /\ taken \subseteq taken' => Kept
BY DEF Kept, Committed, rowVars

LEMMA RequestSteps == ASSUME IInv, NEW r \in Requests, Request(r) PROVE IInv' /\ Kept
<1>1. CASE \E v \in Versions :
             \/ \E content \in Contents : CreateDocument(r, v, content) \/ AddVersion(r, v, content)
             \/ \E source \in Versions : RestoreVersion(r, v, source)
  <2>1. UNCHANGED <<store, rowVars, ledger>> /\ taken \subseteq taken'
    BY <1>1 DEF CreateDocument, AddVersion, RestoreVersion, Take
  <2> QED
    BY <1>1, <2>1, BeginUpload, QuietKept
<1>2. CASE PutObject(r) \/ CommitVersion(r) \/ UndoVersion(r) \/ EnqueueAnchor(r)
  BY <1>2, PutStep, CommitStep, UndoStep, EnqueueStep
<1>3. CASE SealOnLedger(r) \/ SetDocumentSealed(r) \/ SetIntegrityChecked(r)
  BY <1>3, FreezeStep, MirrorSealStep, VerdictStep
<1>4. CASE SealDocument(r) \/ VerifyIntegrity(r) \/ RehashObject(r) \/ VerifyHash(r) \/ Abandon(r)
  <2>1. UNCHANGED <<store, rowVars, ledger>> /\ taken \subseteq taken'
    BY <1>4 DEF SealDocument, VerifyIntegrity, RehashObject, VerifyHash, Abandon
  <2>2. IInv'
    BY <1>4, SealStarts, CheckStarts, CheckHashes, CheckReads, ReturnStep DEF Abandon
  <2> QED
    BY <2>1, <2>2, QuietKept
<1> QED
  BY <1>1, <1>2, <1>3, <1>4 DEF Request

LEMMA StepKept == IInv /\ [Next]_vars => IInv' /\ Kept
<1> SUFFICES ASSUME IInv, [Next]_vars PROVE IInv' /\ Kept
  OBVIOUS
<1>1. CASE \E r \in Requests : Request(r)
  BY <1>1, RequestSteps
<1>2. CASE \E v \in Versions : Anchoring(v) \/ Damage(v)
  BY <1>2, RegisterStep, MirrorStep, CrashStep, DamageStep DEF Anchoring
<1>3. CASE UNCHANGED vars
  <2>1. Committed' = Committed
    BY <1>3 DEF vars, rowVars, Committed
  <2>2. Kept /\ \A v \in Versions : Untouched(v)
    BY <1>3, <2>1 DEF vars, rowVars, Kept, Untouched
  <2>3. RequestsSound'
    BY <1>3, <2>2, StoreStep DEF vars
  <2>4. taken' \subseteq Versions
    BY <1>3 DEF IInv, StoresInv, StoresType, vars
  <2> QED
    BY <1>3, <2>2, <2>3, <2>4, StoresUnchanged DEF IInv, vars
<1> QED
  BY <1>1, <1>2, <1>3 DEF Next

\* However requests, the anchor worker, their failures and the clean-up interleave.
THEOREM Invariance == Spec => []IInv
<1>1. IInv /\ [Next]_vars => IInv'
  BY StepKept
<1> QED
  BY InitIInv, <1>1, PTL DEF Spec

\* Every store keeps its types, and no version gets a second row.
THEOREM TypeCorrect == Spec => []TypeOK
<1>1. IInv => TypeOK
  BY IInvSafe
<1> QED
  BY Invariance, <1>1, PTL

\* A committed row has its bytes behind it, whatever uploads, restores, failed
\* transactions and clean-ups run beside its own (createDocument, addVersion).
THEOREM RowsHaveBytes == Spec => []BytesBehindRows
<1>1. IInv => BytesBehindRows
  BY IInvSafe
<1> QED
  BY Invariance, <1>1, PTL

\* ANCHORED is only said of a version whose hash is on the ledger
\* (processLedgerAnchor).
THEOREM AnchorsTrue == Spec => []AnchorsTruthful
<1>1. IInv => AnchorsTruthful
  BY IInvSafe
<1> QED
  BY Invariance, <1>1, PTL

\* verifyIntegrity accuses no undamaged bytes, however it races with the anchoring.
THEOREM VerdictsFair == Spec => []NoFalseAlarm
<1>1. IInv => NoFalseAlarm
  BY IInvSafe
<1> QED
  BY Invariance, <1>1, PTL

\* The database says sealed only of what the ledger has sealed (sealDocument).
THEOREM SealsWitnessed == Spec => []SealWitnessed
<1>1. IInv => SealWitnessed
  BY IInvSafe
<1> QED
  BY Invariance, <1>1, PTL

\* No step changes a sealed record (RegisterDocumentVersion, SealDocument).
THEOREM SealsStay == Spec => SealStays
<1> DEFINE Stays == \A v \in Versions :
                      ledger[v] # None /\ ledger[v].status = "SEALED" => ledger'[v] = ledger[v]
<1>1. IInv /\ [Next]_vars => [Stays]_vars
  BY StepKept DEF Kept
<1>2. [][Stays]_vars => SealStays
  BY DEF SealStays
<1> QED
  BY Invariance, <1>1, <1>2, PTL DEF Spec
=============================================================================
