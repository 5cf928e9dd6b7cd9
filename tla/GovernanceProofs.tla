-------------------------- MODULE GovernanceProofs --------------------------
(***************************************************************************)
(* Governance for any users, organisations, payloads, rosters and any      *)
(* number of proposals and concurrent executions: its types, the safety of *)
(* its decisions, and that it implements QuorumDecision.                   *)
(***************************************************************************)
EXTENDS Governance, FiniteSetTheorems, TLAPS

(***************************************************************************)
(* The default majority of a pool of two or more is a legal threshold      *)
(* (poolMath.js: defaultK(m) lies within [2, m] for m >= 2).               *)
(***************************************************************************)
LEMMA DefaultKLegal ==
  ASSUME NEW m \in Int, m >= MinM
  PROVE  ValidThreshold(DefaultK(m), m)
BY DEF ValidThreshold, DefaultK, MinM, MinK

(***************************************************************************)
(* The threshold operators stay within the integers.                       *)
(***************************************************************************)
LEMMA EffectiveKInt ==
  ASSUME NEW k \in Int, NEW m \in Int
  PROVE  EffectiveK(k, m) \in Int
BY DEF EffectiveK, DefaultK

(***************************************************************************)
(* The default threshold is a strict majority: two quorums of one pool     *)
(* share a member, so no two decisions are taken by disjoint groups        *)
(* (poolMath.js: defaultK).                                                *)
(***************************************************************************)
THEOREM DefaultQuorumsMeet ==
  ASSUME NEW M, IsFiniteSet(M), NEW S \in SUBSET M, NEW T \in SUBSET M,
         Cardinality(S) >= DefaultK(Cardinality(M)), Cardinality(T) >= DefaultK(Cardinality(M))
  PROVE  S \cap T # {}
<1>1. Cardinality(M) \in Nat
  BY FS_CardinalityType
<1>2. IsFiniteSet(S) /\ Cardinality(S) \in Nat /\ IsFiniteSet(T) /\ Cardinality(T) \in Nat
  BY FS_Subset, FS_CardinalityType
<1>3. /\ IsFiniteSet(S \cup T)
      /\ Cardinality(S \cup T) = Cardinality(S) + Cardinality(T) - Cardinality(S \cap T)
  BY <1>2, FS_Union
<1>4. Cardinality(S \cup T) <= Cardinality(M)
  BY FS_Subset
<1>5. Cardinality(S) + Cardinality(T) > Cardinality(M)
  BY <1>1, <1>2 DEF DefaultK
<1>6. S \cap T = {} => Cardinality(S \cap T) = 0
  BY FS_EmptySet
<1>7. Cardinality(S \cup T) \in Nat
  BY <1>3, FS_CardinalityType
<1> QED
  BY <1>1, <1>2, <1>3, <1>4, <1>5, <1>6, <1>7

(***************************************************************************)
(* A group of users has a size.                                            *)
(***************************************************************************)
LEMMA GroupSize ==
  ASSUME NEW S \in SUBSET Users
  PROVE  IsFiniteSet(S) /\ Cardinality(S) \in Nat
<1>1. IsFiniteSet(S)
  BY UsersFinite, FS_Subset
<1> QED
  BY <1>1, FS_CardinalityType

(***************************************************************************)
(* Every payload acts on pools there are.                                  *)
(***************************************************************************)
LEMMA PayloadPools ==
  ASSUME NEW d \in Payloads
  PROVE  /\ d.pool \in PoolIds /\ d.user \in Users /\ d.members \subseteq Users
         /\ d.k \in Int /\ Target(d) \in PoolIds
BY PayloadsTyped DEF PayloadType, Target, PoolIds, TopTier

(***************************************************************************)
(* classifyApprover answers with an approver_pool_role or nothing.         *)
(***************************************************************************)
LEMMA ClassifyLabel ==
  ASSUME NEW u, NEW d
  PROVE  Classify(u, d) \in Labels \cup {"NONE"}
BY DEF Classify, CrossTierLabel, Labels, CrossTierLabels

-----------------------------------------------------------------------------
(* Types *)

(***************************************************************************)
(* What a mutation writes to the pools and the policy is well typed.       *)
(***************************************************************************)
LEMMA MutateType ==
  ASSUME TypeOK, NEW s \in SnapshotType, NEW d \in Payloads, Mutate(s, d)
  PROVE  /\ threshold' \in [PoolIds -> [k : Int, m : Int]]
         /\ members' \in [PoolIds -> SUBSET Users]
         /\ policyVersion' \in Nat
<1>1. /\ d.pool \in PoolIds /\ d.user \in Users /\ d.members \subseteq Users
      /\ d.k \in Int /\ Target(d) \in PoolIds
  BY PayloadPools
<1>2. /\ s.k \in Int /\ s.m \in Int /\ s.version \in Nat /\ s.roster \subseteq Users
  BY DEF SnapshotType
<1>3. Cardinality(d.members) \in Int
  BY <1>1, GroupSize
<1>4. EffectiveK(d.k, Cardinality(d.members)) \in Int
  BY <1>1, <1>3, EffectiveKInt
<1>5. ASSUME NEW x \in PoolIds, NEW k \in Int, NEW m \in Int, SetThreshold(x, k, m)
      PROVE  threshold' \in [PoolIds -> [k : Int, m : Int]]
  BY <1>5 DEF SetThreshold, TypeOK
<1>6. CASE Appoint(s, d)
  <2>1. SetThreshold(Target(d), s.k, s.m + 1)
    BY <1>6 DEF Appoint
  <2>2. threshold' \in [PoolIds -> [k : Int, m : Int]]
    BY <1>1, <1>2, <1>5, <2>1
  <2> QED
    BY <1>1, <1>6, <2>2 DEF Appoint, TypeOK
<1>7. CASE Remove(s, d)
  <2>1. SetThreshold(Target(d), s.k, s.m - 1)
    BY <1>7 DEF Remove
  <2>2. threshold' \in [PoolIds -> [k : Int, m : Int]]
    BY <1>1, <1>2, <1>5, <2>1
  <2> QED
    BY <1>1, <1>7, <2>2 DEF Remove, TypeOK
<1>8. CASE ChangeThreshold(s, d)
  <2>1. threshold' \in [PoolIds -> [k : Int, m : Int]]
    BY <1>1, <1>2, <1>5, <1>8 DEF ChangeThreshold
  <2> QED
    BY <1>8, <2>1 DEF ChangeThreshold, TypeOK
<1>9. CASE CreatePool(d)
  <2>1. threshold' \in [PoolIds -> [k : Int, m : Int]]
    BY <1>1, <1>3, <1>4, <1>5, <1>9 DEF CreatePool
  <2> QED
    BY <1>1, <1>9, <2>1 DEF CreatePool, TypeOK
<1>10. CASE ChangePolicy(s)
  BY <1>2, <1>10 DEF ChangePolicy, TypeOK, pools
<1>11. CASE ReconcileRoster(s, d)
  <2>1. threshold' \in [PoolIds -> [k : Int, m : Int]]
    BY <1>1, <1>3, <1>4, <1>5, <1>11 DEF ReconcileRoster
  <2> QED
    BY <1>1, <1>11, <2>1 DEF ReconcileRoster, TypeOK
<1> QED
  BY <1>6, <1>7, <1>8, <1>9, <1>10, <1>11 DEF Mutate

(***************************************************************************)
(* What an execution reads is well typed.                                  *)
(***************************************************************************)
LEMMA SnapshotTyped ==
  ASSUME TypeOK, NEW p \in Proposals, status[p] = "PENDING"
  PROVE  payload[p] \in Payloads /\ Snapshot(p) \in SnapshotType
<1>1. payload[p] \in Payloads
  BY DEF TypeOK
<1>2. payload[p].pool \in PoolIds /\ Target(payload[p]) \in PoolIds
  BY <1>1, PayloadPools
<1>3. /\ threshold[Target(payload[p])].k \in Int
      /\ threshold[Target(payload[p])].m \in Int
      /\ members[payload[p].pool] \subseteq Users
      /\ policyVersion \in Nat
  BY <1>2 DEF TypeOK
<1>4. (~Exists(payload[p].pool)) \in BOOLEAN
  BY DEF Exists
<1> QED
  BY <1>1, <1>3, <1>4 DEF Snapshot, SnapshotType

(***************************************************************************)
(* Every step keeps the types; a commit needs its proposal to be filed.    *)
(***************************************************************************)
LEMMA TypeStep == TypeOK /\ ExecutionsSound /\ [Next]_vars => TypeOK'
<1> SUFFICES ASSUME TypeOK, ExecutionsSound, [Next]_vars PROVE TypeOK'
  OBVIOUS
<1>1. ASSUME NEW g \in GenesisManifests, Bootstrap(g) PROVE TypeOK'
  <2>1. /\ DOMAIN g \subseteq PoolIds
        /\ \A x \in DOMAIN g : g[x].members \subseteq Users /\ g[x].k \in Int
    BY ManifestsTyped DEF ManifestEntry
  <2>2. \A x \in DOMAIN g : Cardinality(g[x].members) \in Int
    BY <2>1, GroupSize
  <2>3. \A x \in DOMAIN g : EffectiveK(g[x].k, Cardinality(g[x].members)) \in Int
    BY <2>1, <2>2, EffectiveKInt
  <2>4. threshold' \in [PoolIds -> [k : Int, m : Int]]
    BY <1>1, <2>2, <2>3 DEF Bootstrap, NoThreshold
  <2>5. members' \in [PoolIds -> SUBSET Users]
    BY <1>1, <2>1 DEF Bootstrap
  <2> QED
    BY <1>1, <2>4, <2>5 DEF Bootstrap, TypeOK, Recorded, ballots
<1>2. ASSUME NEW r \in Rosters, Regenesis(r) PROVE TypeOK'
  <2>1. \A x \in DOMAIN r : /\ r[x].members \subseteq Users
                            /\ r[x].k \in Int /\ r[x].size \in Int
    BY RostersTyped DEF RosterEntry
  <2>2. \A x \in DOMAIN r : EffectiveK(r[x].k, r[x].size) \in Int
    BY <2>1, EffectiveKInt
  <2>3. threshold' \in [PoolIds -> [k : Int, m : Int]]
    BY <1>2, <2>1, <2>2 DEF Regenesis, TypeOK
  <2>4. members' \in [PoolIds -> SUBSET Users]
    BY <1>2, <2>1 DEF Regenesis, TypeOK
  <2> QED
    BY <1>2, <2>3, <2>4 DEF Regenesis, TypeOK, Recorded, ballots
<1>3. ASSUME NEW u \in Users, NEW p \in Proposals, NEW d \in Payloads, File(u, p, d)
      PROVE  TypeOK'
  BY <1>3, PayloadsTyped DEF File, TypeOK, Recorded, ballots, pools
<1>4. ASSUME NEW u \in Users, NEW p \in Proposals, NEW t \in 1 .. MaxStepUps,
             Approve(u, p, t)
      PROVE  TypeOK'
  <2>1. Classify(u, payload[p]) \in Labels \cup {"NONE"}
    BY ClassifyLabel
  <2>2. vote' \in [Proposals -> [Users -> Labels \cup {"NONE"}]]
    BY <1>4, <2>1 DEF Approve, TypeOK
  <2> QED
    BY <1>4, <2>2 DEF Approve, TypeOK, Recorded, pools
<1>5. ASSUME NEW u \in Users, NEW p \in Proposals, Object(u, p) PROVE TypeOK'
  <2>1. status' \in [Proposals -> {"UNFILED", "PENDING", "OBJECTED", "EXECUTED"}]
    BY <1>5 DEF Object, TypeOK
  <2>2. \A q \in Proposals : payload'[q] = NoPayload <=> status'[q] = "UNFILED"
    BY <1>5 DEF Object, Open, TypeOK
  <2>3. objections' \in [Proposals -> Nat]
    BY <1>5 DEF Object, TypeOK
  <2> QED
    BY <1>5, <2>1, <2>2, <2>3 DEF Object, TypeOK, Recorded, pools
<1>6. ASSUME NEW p \in Proposals, DelayPasses(p) PROVE TypeOK'
  BY <1>6 DEF DelayPasses, TypeOK, pools, ballots
<1>7. ASSUME NEW e \in Executors, NEW u \in Users, NEW p \in Proposals,
             BeginExecute(e, u, p)
      PROVE  TypeOK'
  <2>1. Snapshot(p) \in SnapshotType
    BY <1>7, SnapshotTyped DEF BeginExecute, Open
  <2>2. exec' \in [Executors -> SnapshotType \cup {Idle}]
    BY <1>7, <2>1 DEF BeginExecute, TypeOK
  <2> QED
    BY <1>7, <2>2 DEF BeginExecute, TypeOK, pools, ballots
<1>8. ASSUME NEW e \in Executors, CommitExecute(e) PROVE TypeOK'
  <2> DEFINE p == exec[e].prop
  <2>1. exec[e] \in SnapshotType /\ status[p] = "PENDING"
    BY <1>8 DEF CommitExecute, ExecutionsSound, Holds, TypeOK, SnapshotType
  <2>2. p \in Proposals
    BY <2>1 DEF SnapshotType
  <2>3. payload[p] \in Payloads
    BY <2>1, <2>2, SnapshotTyped
  <2>4. Mutate(exec[e], payload[p])
    BY <1>8 DEF CommitExecute
  <2>5. /\ threshold' \in [PoolIds -> [k : Int, m : Int]]
        /\ members' \in [PoolIds -> SUBSET Users]
        /\ policyVersion' \in Nat
    BY <2>1, <2>3, <2>4, MutateType
  <2>6. status' = [status EXCEPT ![p] = "EXECUTED"]
    BY <1>8 DEF CommitExecute, Close
  <2>7. /\ status' \in [Proposals -> {"UNFILED", "PENDING", "OBJECTED", "EXECUTED"}]
        /\ \A q \in Proposals : status'[q] = "UNFILED" <=> status[q] = "UNFILED"
    BY <2>1, <2>2, <2>6 DEF TypeOK
  <2>8. exec' \in [Executors -> SnapshotType \cup {Idle}]
    BY <1>8 DEF CommitExecute, TypeOK
  <2>9. UNCHANGED <<active, payload, waiting, ballots, ceremonies>> /\ Recorded
    BY <1>8 DEF CommitExecute
  <2> QED
    BY <2>5, <2>7, <2>8, <2>9 DEF TypeOK, Recorded, ballots
<1>9. ASSUME NEW e \in Executors, AbortExecute(e) PROVE TypeOK'
  BY <1>9 DEF AbortExecute, TypeOK, pools, ballots
<1>10. ASSUME NEW u \in Suspendable, SetStatus(u) PROVE TypeOK'
  BY <1>10, SuspendableTyped DEF SetStatus, TypeOK, pools, ballots
<1>11. CASE UNCHANGED vars
  BY <1>11 DEF vars, TypeOK
<1> QED
  BY <1>1, <1>2, <1>3, <1>4, <1>5, <1>6, <1>7, <1>8, <1>9, <1>10, <1>11 DEF Next

-----------------------------------------------------------------------------
(* Safety *)

(***************************************************************************)
(* A proposal that has its quorum under legal thresholds is endorsed.      *)
(***************************************************************************)
LEMMA QuorumEndorses ==
  ASSUME TypeOK, PoolsLegal, NEW p \in Proposals, status[p] = "PENDING",
         Exists(Target(payload[p])), HasQuorum(p, payload[p])
  PROVE  Endorsed(p)
<1> DEFINE d == payload[p]
<1>1. d \in Payloads
  BY SnapshotTyped
<1>2. Target(d) \in PoolIds
  BY <1>1, PayloadPools
<1>3. \A l : Count(p, l) \in Nat
  BY GroupSize DEF Count, Voters
<1>4. Count(p, "IN_POOL") >= MinK
  <2>1. threshold[Target(d)].k \in Int /\ threshold[Target(d)].k >= MinK
    BY <1>2 DEF PoolsLegal, TypeOK
  <2>2. Count(p, "IN_POOL") >= threshold[Target(d)].k
    BY DEF HasQuorum, InPoolQuorum
  <2> QED
    BY <1>3, <2>1, <2>2 DEF MinK
<1>5. ASSUME NEW c \in CoSigners(d)
      PROVE  Count(p, CrossTierLabel(c))
               >= (IF d.action = "CHANGE_ABAC_POLICY" THEN MinK ELSE 1)
  <2>1. c \in PoolIds
    BY DEF CoSigners, CrossTier, PoolIds, TopTier
  <2>2. CASE d.action = "CHANGE_ABAC_POLICY"
    <3>1. Exists(c) /\ Count(p, CrossTierLabel(c)) >= threshold[c].k
      BY <2>2 DEF HasQuorum, CrossTierQuorum
    <3>2. threshold[c].k \in Int /\ threshold[c].k >= MinK
      BY <2>1, <3>1 DEF PoolsLegal, TypeOK
    <3> QED
      BY <1>3, <2>2, <3>1, <3>2 DEF MinK
  <2>3. CASE d.action # "CHANGE_ABAC_POLICY"
    BY <2>3 DEF HasQuorum, CrossTierQuorum
  <2> QED
    BY <2>2, <2>3
<1>6. ASSUME AuditorQuorum(d) PROVE Count(p, "AUDITOR_VOTE") >= 1
  <2>1. ActiveAuditors \subseteq Users
    BY DEF ActiveAuditors, TypeOK
  <2>2. Cardinality(ActiveAuditors) \in Nat
    BY <2>1, GroupSize
  <2>3. Count(p, "AUDITOR_VOTE") >= DefaultK(Cardinality(ActiveAuditors))
    BY <1>6 DEF HasQuorum, AuditorsAgree
  <2>4. DefaultK(Cardinality(ActiveAuditors)) \in Int
        /\ DefaultK(Cardinality(ActiveAuditors)) >= 1
    BY <2>2 DEF DefaultK
  <2> QED
    BY <1>3, <2>3, <2>4
<1> QED
  BY <1>4, <1>5, <1>6 DEF Endorsed

(***************************************************************************)
(* An endorsement stands as long as the votes and the payload do.          *)
(***************************************************************************)
LEMMA EndorsementStands ==
  ASSUME NEW p, Endorsed(p), vote'[p] = vote[p], payload'[p] = payload[p]
  PROVE  Endorsed(p)'
<1>1. \A l : Count(p, l)' = Count(p, l)
  BY DEF Count, Voters
<1> QED
  BY <1>1 DEF Endorsed

(***************************************************************************)
(* A threshold write leaves every pool legal.                              *)
(***************************************************************************)
LEMMA ThresholdWriteLegal ==
  ASSUME TypeOK, PoolsLegal, NEW x \in PoolIds, NEW k, NEW m, SetThreshold(x, k, m)
  PROVE  PoolsLegal'
<1>1. ASSUME NEW y \in PoolIds, Exists(y)'
      PROVE  MinK <= threshold'[y].k /\ threshold'[y].k <= threshold'[y].m
  <2>1. CASE y = x
    <3>1. threshold'[x] = [k |-> k, m |-> m]
      BY DEF SetThreshold, TypeOK
    <3> QED
      BY <2>1, <3>1 DEF SetThreshold, ValidThreshold
  <2>2. CASE y # x
    <3>1. threshold'[y] = threshold[y]
      BY <2>2 DEF SetThreshold, TypeOK
    <3>2. Exists(y)
      BY <1>1, <3>1 DEF Exists
    <3> QED
      BY <3>1, <3>2 DEF PoolsLegal
  <2> QED
    BY <2>1, <2>2
<1> QED
  BY <1>1 DEF PoolsLegal

(***************************************************************************)
(* Pools that no step touches stay legal.                                  *)
(***************************************************************************)
LEMMA PoolsStand ==
  ASSUME PoolsLegal, threshold' = threshold
  PROVE  PoolsLegal'
BY DEF PoolsLegal, Exists

(***************************************************************************)
(* Every step keeps every stored threshold legal.                          *)
(***************************************************************************)
LEMMA PoolsStep == TypeOK /\ ExecutionsSound /\ PoolsLegal /\ [Next]_vars => PoolsLegal'
<1> SUFFICES ASSUME TypeOK, ExecutionsSound, PoolsLegal, [Next]_vars PROVE PoolsLegal'
  OBVIOUS
<1>1. ASSUME NEW g \in GenesisManifests, Bootstrap(g) PROVE PoolsLegal'
  BY <1>1 DEF Bootstrap, PoolsLegal, Exists, ValidThreshold
<1>2. ASSUME NEW r \in Rosters, Regenesis(r) PROVE PoolsLegal'
  BY <1>2 DEF Regenesis, PoolsLegal, Exists, ValidThreshold
<1>3. ASSUME NEW e \in Executors, CommitExecute(e) PROVE PoolsLegal'
  <2> DEFINE s == exec[e]
             d == payload[exec[e].prop]
  <2>1. s \in SnapshotType /\ status[s.prop] = "PENDING" /\ s.prop \in Proposals
    BY <1>3 DEF CommitExecute, ExecutionsSound, Holds, TypeOK, SnapshotType
  <2>2. d \in Payloads
    BY <2>1, SnapshotTyped
  <2>3. d.pool \in PoolIds /\ Target(d) \in PoolIds
    BY <2>2, PayloadPools
  <2>4. Mutate(s, d)
    BY <1>3 DEF CommitExecute
  <2>5. \/ threshold' = threshold
        \/ \E x \in PoolIds : \E k, m : SetThreshold(x, k, m)
    BY <2>3, <2>4 DEF Mutate, Appoint, Remove, ChangeThreshold, CreatePool, ChangePolicy,
                      ReconcileRoster, pools
  <2> QED
    BY <2>5, ThresholdWriteLegal, PoolsStand
<1>4. ASSUME threshold' = threshold PROVE PoolsLegal'
  BY <1>4, PoolsStand
<1> QED
  BY <1>1, <1>2, <1>3, <1>4 DEF Next, File, Approve, Object, DelayPasses, BeginExecute,
     AbortExecute, SetStatus, pools, vars

(***************************************************************************)
(* Executions that no step touches stay sound if their proposals keep      *)
(* their status, votes and payload and are not delayed again.              *)
(***************************************************************************)
LEMMA ExecutionsStand ==
  ASSUME ExecutionsSound,
         \A e \in Executors : exec'[e] \in {exec[e], Idle},
         \A e \in Executors, p \in Proposals : Holds(e, p) /\ Holds(e, p)' =>
           /\ status'[p] = status[p] /\ vote'[p] = vote[p] /\ payload'[p] = payload[p]
           /\ p \notin waiting => p \notin waiting'
  PROVE  ExecutionsSound'
<1>1. \A e \in Executors : exec'[e] # Idle => exec[e] # Idle /\ exec'[e] = exec[e]
  OBVIOUS
<1>2. \A e \in Executors, p \in Proposals : Holds(e, p)' => Holds(e, p)
  BY <1>1 DEF Holds
<1>3. ASSUME NEW e \in Executors, NEW p \in Proposals, Holds(e, p)'
      PROVE  status'[p] = "PENDING" /\ Endorsed(p)' /\ p \notin waiting'
  <2>1. status[p] = "PENDING" /\ Endorsed(p) /\ p \notin waiting
    BY <1>2, <1>3 DEF ExecutionsSound
  <2>2. /\ status'[p] = status[p] /\ vote'[p] = vote[p] /\ payload'[p] = payload[p]
        /\ p \notin waiting'
    BY <1>2, <1>3, <2>1
  <2>3. Endorsed(p)'
    BY <2>1, <2>2, EndorsementStands
  <2> QED
    BY <2>1, <2>2, <2>3
<1>4. \A e \in Executors : exec'[e] # Idle => ValidThreshold(exec'[e].k, exec'[e].m)
  BY <1>1 DEF ExecutionsSound
<1>5. \A e, f \in Executors, p \in Proposals : Holds(e, p)' /\ Holds(f, p)' => e = f
  BY <1>2 DEF ExecutionsSound
<1> QED
  BY <1>3, <1>4, <1>5 DEF ExecutionsSound, ValidThreshold

(***************************************************************************)
(* The row lock keeps every open execution sound.                          *)
(***************************************************************************)
LEMMA ExecutionsStep ==
  TypeOK /\ PoolsLegal /\ ExecutionsSound /\ [Next]_vars => ExecutionsSound'
<1> SUFFICES ASSUME TypeOK, PoolsLegal, ExecutionsSound, [Next]_vars PROVE ExecutionsSound'
  OBVIOUS
<1>1. ASSUME exec' = exec, status' = status, vote' = vote, payload' = payload,
             waiting' \subseteq waiting
      PROVE  ExecutionsSound'
  BY <1>1, ExecutionsStand
<1>2. ASSUME NEW u \in Users, NEW p \in Proposals, NEW d \in Payloads, File(u, p, d)
      PROVE  ExecutionsSound'
  <2>1. \A e \in Executors : ~Holds(e, p)
    BY <1>2 DEF File, ExecutionsSound
  <2>2. \A q \in Proposals : q # p =>
          /\ status'[q] = status[q] /\ vote'[q] = vote[q] /\ payload'[q] = payload[q]
          /\ q \notin waiting => q \notin waiting'
    BY <1>2 DEF File, TypeOK, ballots
  <2> QED
    BY <1>2, <2>1, <2>2, ExecutionsStand DEF File
<1>3. ASSUME NEW u \in Users, NEW p \in Proposals, NEW t \in 1 .. MaxStepUps,
             Approve(u, p, t)
      PROVE  ExecutionsSound'
  <2>1. \A e \in Executors : ~Holds(e, p)
    BY <1>3 DEF Approve, Open, Locked
  <2>2. \A q \in Proposals : q # p => vote'[q] = vote[q]
    BY <1>3 DEF Approve, TypeOK
  <2> QED
    BY <1>3, <2>1, <2>2, ExecutionsStand DEF Approve
<1>4. ASSUME NEW u \in Users, NEW p \in Proposals, Object(u, p) PROVE ExecutionsSound'
  <2>1. \A e \in Executors : ~Holds(e, p)
    BY <1>4 DEF Object, Open, Locked
  <2>2. \A q \in Proposals : q # p => status'[q] = status[q]
    BY <1>4 DEF Object, TypeOK
  <2> QED
    BY <1>4, <2>1, <2>2, ExecutionsStand DEF Object
<1>5. ASSUME NEW e \in Executors, NEW u \in Users, NEW p \in Proposals,
             BeginExecute(e, u, p)
      PROVE  ExecutionsSound'
  <2>1. /\ status[p] = "PENDING" /\ p \notin waiting
        /\ Exists(Target(payload[p])) /\ HasQuorum(p, payload[p])
        /\ \A f \in Executors : ~Holds(f, p)
        /\ UNCHANGED <<status, vote, payload, waiting>>
    BY <1>5 DEF BeginExecute, Open, Locked, ballots
  <2>2. exec'[e] = Snapshot(p) /\ \A f \in Executors \ {e} : exec'[f] = exec[f]
    BY <1>5 DEF BeginExecute, TypeOK
  <2>3. Endorsed(p)
    BY <2>1, QuorumEndorses
  <2>4. Snapshot(p).prop = p
    BY DEF Snapshot
  <2>5. ASSUME NEW f \in Executors, NEW q \in Proposals, Holds(f, q)'
        PROVE  (f = e /\ q = p) \/ (f # e /\ q # p /\ Holds(f, q))
    BY <2>1, <2>2, <2>4, <2>5 DEF Holds
  <2>6. ASSUME NEW f \in Executors, NEW q \in Proposals, Holds(f, q)'
        PROVE  status'[q] = "PENDING" /\ Endorsed(q)' /\ q \notin waiting'
    <3>1. status[q] = "PENDING" /\ Endorsed(q) /\ q \notin waiting
      BY <2>1, <2>3, <2>5, <2>6 DEF ExecutionsSound
    <3> QED
      BY <2>1, <3>1, EndorsementStands
  <2>7. ASSUME NEW f \in Executors, exec'[f] # Idle
        PROVE  ValidThreshold(exec'[f].k, exec'[f].m)
    <3>1. CASE f # e
      BY <2>2, <2>7, <3>1 DEF ExecutionsSound
    <3>2. CASE f = e
      <4>1. Target(payload[p]) \in PoolIds
        BY <2>1, SnapshotTyped, PayloadPools
      <4>2. ValidThreshold(threshold[Target(payload[p])].k, threshold[Target(payload[p])].m)
        BY <2>1, <4>1 DEF PoolsLegal, TypeOK, ValidThreshold, MinK, MinM
      <4> QED
        BY <2>2, <3>2, <4>2 DEF Snapshot
    <3> QED
      BY <3>1, <3>2
  <2>8. ASSUME NEW f \in Executors, NEW g \in Executors, NEW q \in Proposals,
               Holds(f, q)', Holds(g, q)'
        PROVE  f = g
    BY <2>5, <2>8 DEF ExecutionsSound
  <2> QED
    BY <2>6, <2>7, <2>8 DEF ExecutionsSound, ValidThreshold
<1>6. ASSUME NEW e \in Executors, CommitExecute(e) PROVE ExecutionsSound'
  <2>1. /\ exec[e] # Idle
        /\ exec' = [exec EXCEPT ![e] = Idle]
        /\ status' = [status EXCEPT ![exec[e].prop] = "EXECUTED"]
        /\ UNCHANGED <<vote, payload, waiting>>
    BY <1>6 DEF CommitExecute, Close, ballots
  <2>2. ASSUME NEW f \in Executors, NEW q \in Proposals, Holds(f, q), Holds(f, q)'
        PROVE  status'[q] = status[q]
    <3>1. f # e
      BY <2>1, <2>2 DEF Holds, TypeOK
    <3>2. q # exec[e].prop
      BY <2>1, <2>2, <3>1 DEF Holds, ExecutionsSound
    <3> QED
      BY <2>1, <3>2 DEF TypeOK
  <2> QED
    BY <2>1, <2>2, ExecutionsStand DEF TypeOK
<1>7. ASSUME NEW e \in Executors, AbortExecute(e) PROVE ExecutionsSound'
  BY <1>7, ExecutionsStand DEF AbortExecute, TypeOK, ballots
<1> QED
  BY <1>1, <1>2, <1>3, <1>4, <1>5, <1>6, <1>7 DEF Next, Bootstrap, Regenesis, DelayPasses,
     SetStatus, ballots, vars

-----------------------------------------------------------------------------
(* Decisions *)

(***************************************************************************)
(* A commit decides the one proposal it holds, pending and endorsed.       *)
(***************************************************************************)
LEMMA CommitDecides ==
  ASSUME TypeOK, ExecutionsSound, NEW e \in Executors, CommitExecute(e)
  PROVE  \E p \in Proposals :
           /\ Holds(e, p)
           /\ status[p] = "PENDING" /\ Endorsed(p) /\ p \notin waiting
           /\ status' = [status EXCEPT ![p] = "EXECUTED"]
           /\ UNCHANGED <<vote, payload, waiting>> /\ Recorded
<1> DEFINE p == exec[e].prop
<1>1. exec[e] \in SnapshotType /\ exec[e] # Idle
  BY DEF CommitExecute, TypeOK
<1>2. p \in Proposals /\ Holds(e, p)
  BY <1>1 DEF SnapshotType, Holds
<1>3. status[p] = "PENDING" /\ Endorsed(p) /\ p \notin waiting
  BY <1>2 DEF ExecutionsSound
<1>4. /\ status' = [status EXCEPT ![p] = "EXECUTED"]
      /\ UNCHANGED <<vote, payload, waiting>> /\ Recorded
  BY DEF CommitExecute, Close, ballots
<1> QED
  BY <1>2, <1>3, <1>4

(***************************************************************************)
(* What any step does to one proposal: it is filed, voted on or objected   *)
(* to while pending, executed while pending and endorsed, or left alone.   *)
(***************************************************************************)
LEMMA ProposalStep ==
  ASSUME TypeOK, ExecutionsSound, [Next]_vars, NEW p \in Proposals
  PROVE  \/ status[p] = "UNFILED" /\ status'[p] = "PENDING"
         \/ status[p] = "PENDING" /\ status'[p] \in {"PENDING", "OBJECTED"}
         \/ /\ status[p] = "PENDING" /\ status'[p] = "EXECUTED"
            /\ Endorsed(p) /\ p \notin waiting'
            /\ vote'[p] = vote[p] /\ payload'[p] = payload[p]
         \/ /\ status'[p] = status[p] /\ vote'[p] = vote[p] /\ payload'[p] = payload[p]
            /\ p \notin waiting => p \notin waiting'
<1>1. ASSUME UNCHANGED <<status, vote, payload>>, waiting' \subseteq waiting
      PROVE  /\ status'[p] = status[p] /\ vote'[p] = vote[p] /\ payload'[p] = payload[p]
             /\ p \notin waiting => p \notin waiting'
  BY <1>1
<1>2. ASSUME NEW u \in Users, NEW q \in Proposals, NEW d \in Payloads, File(u, q, d)
      PROVE  \/ status[p] = "UNFILED" /\ status'[p] = "PENDING"
             \/ /\ status'[p] = status[p] /\ vote'[p] = vote[p] /\ payload'[p] = payload[p]
                /\ p \notin waiting => p \notin waiting'
  BY <1>2 DEF File, TypeOK, ballots
<1>3. ASSUME NEW u \in Users, NEW q \in Proposals, NEW t \in 1 .. MaxStepUps,
             Approve(u, q, t)
      PROVE  \/ status[p] = "PENDING" /\ status'[p] = "PENDING"
             \/ /\ status'[p] = status[p] /\ vote'[p] = vote[p] /\ payload'[p] = payload[p]
                /\ p \notin waiting => p \notin waiting'
  BY <1>3 DEF Approve, Open, TypeOK
<1>4. ASSUME NEW u \in Users, NEW q \in Proposals, Object(u, q)
      PROVE  \/ status[p] = "PENDING" /\ status'[p] \in {"PENDING", "OBJECTED"}
             \/ /\ status'[p] = status[p] /\ vote'[p] = vote[p] /\ payload'[p] = payload[p]
                /\ p \notin waiting => p \notin waiting'
  BY <1>4 DEF Object, Open, TypeOK
<1>5. ASSUME NEW e \in Executors, CommitExecute(e)
      PROVE  \/ /\ status[p] = "PENDING" /\ status'[p] = "EXECUTED"
                /\ Endorsed(p) /\ p \notin waiting'
                /\ vote'[p] = vote[p] /\ payload'[p] = payload[p]
             \/ /\ status'[p] = status[p] /\ vote'[p] = vote[p] /\ payload'[p] = payload[p]
                /\ p \notin waiting => p \notin waiting'
  BY <1>5, CommitDecides DEF TypeOK
<1> QED
  BY <1>1, <1>2, <1>3, <1>4, <1>5 DEF Next, Bootstrap, Regenesis, DelayPasses,
     BeginExecute, AbortExecute, SetStatus, ballots, vars

(***************************************************************************)
(* Every step keeps executed proposals endorsed and due.                   *)
(***************************************************************************)
LEMMA ExecutedStep ==
  TypeOK /\ ExecutionsSound /\ ExecutedByQuorum /\ [Next]_vars => ExecutedByQuorum'
<1> SUFFICES ASSUME TypeOK, ExecutionsSound, ExecutedByQuorum, [Next]_vars,
                    NEW p \in Proposals, status'[p] = "EXECUTED"
             PROVE  Endorsed(p)' /\ p \notin waiting'
  BY DEF ExecutedByQuorum
<1>1. /\ vote'[p] = vote[p] /\ payload'[p] = payload[p]
      /\ Endorsed(p) /\ p \notin waiting'
  BY ProposalStep DEF ExecutedByQuorum
<1> QED
  BY <1>1, EndorsementStands

-----------------------------------------------------------------------------
(* Theorems *)

Inv == TypeOK /\ PoolsLegal /\ ExecutionsSound /\ ExecutedByQuorum

(***************************************************************************)
(* The inductive invariant: types, legal pools, sound executions and       *)
(* endorsed decisions carry each other from step to step.                  *)
(***************************************************************************)
THEOREM Invariance == Spec => []Inv
<1>1. Init => Inv
  <2> SUFFICES ASSUME Init PROVE Inv
    OBVIOUS
  <2>1. TypeOK
    BY PayloadsTyped DEF Init, TypeOK, NoThreshold, Labels
  <2>2. PoolsLegal
    BY DEF Init, PoolsLegal, Exists
  <2>3. ExecutionsSound
    BY DEF Init, ExecutionsSound, Holds
  <2>4. ExecutedByQuorum
    BY DEF Init, ExecutedByQuorum
  <2> QED
    BY <2>1, <2>2, <2>3, <2>4 DEF Inv
<1>2. Inv /\ [Next]_vars => Inv'
  BY TypeStep, PoolsStep, ExecutionsStep, ExecutedStep DEF Inv
<1> QED
  BY <1>1, <1>2, PTL DEF Spec

(***************************************************************************)
(* The tables keep their shape.                                            *)
(***************************************************************************)
THEOREM TypeCorrect == Spec => []TypeOK
BY Invariance, PTL DEF Inv

(***************************************************************************)
(* No stored threshold ever lies outside 2 <= k <= m, however executions   *)
(* and ceremonies interleave.                                              *)
(***************************************************************************)
THEOREM PoolsStayLegal == Spec => []PoolsLegal
BY Invariance, PTL DEF Inv

(***************************************************************************)
(* An executed proposal carries the votes its action requires.             *)
(***************************************************************************)
THEOREM DecisionsEndorsed == Spec => []ExecutedByQuorum
BY Invariance, PTL DEF Inv

(***************************************************************************)
(* Executed and halted proposals are final, and so are their votes.        *)
(***************************************************************************)
THEOREM DecisionsAreFinal == Spec => DecisionsFinal
<1>1. Inv /\ [Next]_vars =>
        [\A p \in Proposals : status[p] \in {"OBJECTED", "EXECUTED"} =>
           status'[p] = status[p] /\ vote'[p] = vote[p]]_vars
  BY ProposalStep DEF Inv
<1> QED
  BY <1>1, Invariance, PTL DEF Spec, DecisionsFinal

-----------------------------------------------------------------------------
(* Votes, versions and powers *)

(***************************************************************************)
(* An open execution holds its proposal alone, and nothing that happens    *)
(* to votes, people and delays meanwhile takes the ground from under it.   *)
(***************************************************************************)
THEOREM ExecutionsStaySound == Spec => []ExecutionsSound
BY Invariance, PTL DEF Inv

(***************************************************************************)
(* One more element makes a finite set one larger.                         *)
(***************************************************************************)
LEMMA OneMore ==
  ASSUME NEW S, IsFiniteSet(S), NEW x, x \notin S
  PROVE  IsFiniteSet(S \cup {x}) /\ Cardinality(S \cup {x}) = Cardinality(S) + 1
BY FS_AddElement

\* The tokens u has spent, and the proposals u has voted on.
Spent(u) == {t \in 1 .. MaxStepUps : <<u, t>> \in spent}
VotedOn(u) == {p \in Proposals : vote[p][u] # "NONE"}

VotesInv ==
  \A u \in Users : IsFiniteSet(VotedOn(u)) /\ Cardinality(Spent(u)) = Cardinality(VotedOn(u))

(***************************************************************************)
(* A vote spends one token, and nothing else spends or votes.              *)
(***************************************************************************)
LEMMA VotesStep == TypeOK /\ VotesInv /\ [Next]_vars => VotesInv'
<1> SUFFICES ASSUME TypeOK, VotesInv, [Next]_vars PROVE VotesInv'
  OBVIOUS
<1>1. ASSUME NEW u \in Users, NEW p \in Proposals, NEW t \in 1 .. MaxStepUps, Approve(u, p, t)
      PROVE  VotesInv'
  <2>1. /\ vote[p][u] = "NONE" /\ <<u, t>> \notin spent /\ Classify(u, payload[p]) # "NONE"
        /\ vote' = [vote EXCEPT ![p][u] = Classify(u, payload[p])]
        /\ spent' = spent \cup {<<u, t>>}
    BY <1>1 DEF Approve, UnspentToken
  <2>2. \A q \in Proposals, w \in Users :
          vote'[q][w] = IF q = p /\ w = u THEN Classify(u, payload[p]) ELSE vote[q][w]
    BY <2>1 DEF TypeOK
  <2>3. ASSUME NEW w \in Users, w # u
        PROVE  IsFiniteSet(VotedOn(w))' /\ Cardinality(Spent(w))' = Cardinality(VotedOn(w))'
    <3>1. Spent(w)' = Spent(w)
      BY <2>1, <2>3 DEF Spent
    <3>2. VotedOn(w)' = VotedOn(w)
      BY <2>2, <2>3 DEF VotedOn
    <3> QED
      BY <3>1, <3>2 DEF VotesInv
  <2>4. IsFiniteSet(VotedOn(u))' /\ Cardinality(Spent(u))' = Cardinality(VotedOn(u))'
    <3>1. Spent(u)' = Spent(u) \cup {t} /\ t \notin Spent(u)
      BY <2>1 DEF Spent
    <3>2. VotedOn(u)' = VotedOn(u) \cup {p} /\ p \notin VotedOn(u)
      BY <2>1, <2>2 DEF VotedOn
    <3>3. IsFiniteSet(Spent(u))
      <4>1. IsFiniteSet(1 .. MaxStepUps)
        BY FS_Interval, BoundsTyped
      <4> QED
        BY <4>1, FS_Subset DEF Spent
    <3> QED
      BY <3>1, <3>2, <3>3, OneMore DEF VotesInv
  <2> QED
    BY <2>3, <2>4 DEF VotesInv
<1>2. CASE UNCHANGED <<vote, spent>>
  BY <1>2 DEF VotesInv, Spent, VotedOn
<1> QED
  BY <1>1, <1>2 DEF Next, Bootstrap, Regenesis, File, Object, DelayPasses, BeginExecute,
     CommitExecute, AbortExecute, SetStatus, ballots, vars

(***************************************************************************)
(* A person has as many votes as step-up tokens were consumed.             *)
(***************************************************************************)
THEOREM VotesAreSteppedUp == Spec => []VotesMatchStepUps
<1>1. Init => VotesInv
  <2> SUFFICES ASSUME Init, NEW u \in Users
               PROVE  IsFiniteSet(VotedOn(u)) /\ Cardinality(Spent(u)) = Cardinality(VotedOn(u))
    BY DEF VotesInv
  <2>1. VotedOn(u) = {} /\ Spent(u) = {}
    BY DEF Init, VotedOn, Spent
  <2> QED
    BY <2>1, FS_EmptySet
<1>2. VotesInv => VotesMatchStepUps
  BY DEF VotesInv, VotesMatchStepUps, Spent, VotedOn
<1> QED
  BY <1>1, <1>2, VotesStep, TypeCorrect, PTL DEF Spec

\* The policy changes that were executed.
PolicyChanges ==
  {p \in Proposals : status[p] = "EXECUTED" /\ payload[p].action = "CHANGE_ABAC_POLICY"}

VersionsInv == IsFiniteSet(PolicyChanges) /\ policyVersion = Cardinality(PolicyChanges)

(***************************************************************************)
(* A policy change commits only over the version it has read.              *)
(***************************************************************************)
LEMMA VersionsStep == Inv /\ VersionsInv /\ [Next]_vars => VersionsInv'
<1> SUFFICES ASSUME Inv, VersionsInv, [Next]_vars PROVE VersionsInv'
  OBVIOUS
<1>1. TypeOK /\ ExecutionsSound
  BY DEF Inv
<1>2. ASSUME NEW e \in Executors, CommitExecute(e) PROVE VersionsInv'
  <2>1. PICK p \in Proposals :
          /\ Holds(e, p) /\ status[p] = "PENDING"
          /\ status' = [status EXCEPT ![p] = "EXECUTED"] /\ payload' = payload
    BY <1>1, <1>2, CommitDecides
  <2>2. Mutate(exec[e], payload[p])
    BY <1>2, <2>1 DEF CommitExecute, Holds
  <2>3. \A q \in Proposals : status'[q] = IF q = p THEN "EXECUTED" ELSE status[q]
    BY <1>1, <2>1 DEF TypeOK
  <2>4. CASE payload[p].action = "CHANGE_ABAC_POLICY"
    <3>1. policyVersion' = policyVersion + 1
      BY <2>2, <2>4 DEF Mutate, ChangePolicy, VersionFree
    <3>2. PolicyChanges' = PolicyChanges \cup {p} /\ p \notin PolicyChanges
      BY <2>1, <2>3, <2>4 DEF PolicyChanges
    <3> QED
      BY <3>1, <3>2, OneMore DEF VersionsInv
  <2>5. CASE payload[p].action # "CHANGE_ABAC_POLICY"
    <3>1. policyVersion' = policyVersion
      BY <2>2, <2>5 DEF Mutate, Appoint, Remove, ChangeThreshold, CreatePool, ReconcileRoster
    <3>2. PolicyChanges' = PolicyChanges
      BY <2>1, <2>3, <2>5 DEF PolicyChanges
    <3> QED
      BY <3>1, <3>2 DEF VersionsInv
  <2> QED
    BY <2>4, <2>5
<1>3. ASSUME policyVersion' = policyVersion,
             \A p \in Proposals : (status'[p] = "EXECUTED" <=> status[p] = "EXECUTED")
                                  /\ (status[p] = "EXECUTED" => payload'[p] = payload[p])
      PROVE  VersionsInv'
  <2>1. PolicyChanges' = PolicyChanges
    BY <1>3 DEF PolicyChanges
  <2> QED
    BY <1>3, <2>1 DEF VersionsInv
<1>4. ASSUME NEW u \in Users, NEW p \in Proposals, NEW d \in Payloads, File(u, p, d)
      PROVE  VersionsInv'
  BY <1>1, <1>3, <1>4 DEF File, TypeOK
<1>5. ASSUME NEW u \in Users, NEW p \in Proposals, Object(u, p) PROVE VersionsInv'
  BY <1>1, <1>3, <1>5 DEF Object, Open, TypeOK
<1>6. CASE UNCHANGED <<policyVersion, status, payload>>
  BY <1>3, <1>6
<1> QED
  BY <1>2, <1>4, <1>5, <1>6 DEF Next, Bootstrap, Regenesis, Approve, DelayPasses, BeginExecute,
     AbortExecute, SetStatus, vars

(***************************************************************************)
(* The policy versions count the executed policy changes, concurrent ones  *)
(* included.                                                               *)
(***************************************************************************)
THEOREM VersionsStayDense == Spec => []PolicyVersionsDense
<1>1. Init => VersionsInv
  <2> SUFFICES ASSUME Init PROVE VersionsInv
    OBVIOUS
  <2>1. PolicyChanges = {} /\ policyVersion = 0
    BY DEF Init, PolicyChanges
  <2> QED
    BY <2>1, FS_EmptySet DEF VersionsInv
<1>2. VersionsInv => PolicyVersionsDense
  BY DEF VersionsInv, PolicyVersionsDense, PolicyChanges
<1> QED
  BY <1>1, <1>2, VersionsStep, Invariance, PTL DEF Spec

(***************************************************************************)
(* A mutation stays within the pool its action affects.                    *)
(***************************************************************************)
LEMMA MutateAffects ==
  ASSUME TypeOK, NEW s, NEW d \in Payloads, Mutate(s, d), NEW x \in PoolIds \ Affected(d)
  PROVE  threshold'[x] = threshold[x] /\ members'[x] = members[x]
<1>1. /\ d.action \in {"APPOINT_ORG_ADMIN", "REMOVE_ORG_ADMIN", "CHANGE_POOL_THRESHOLD",
                       "ONBOARD_ORG", "POOL_REINSTATEMENT"} => x # d.pool
      /\ d.action \in {"APPOINT_ORG_ADMIN", "REMOVE_ORG_ADMIN", "APPOINT_SYSTEM_ADMIN",
                       "REMOVE_SYSTEM_ADMIN"} => x # Target(d)
  BY PayloadsTyped DEF Affected, Target, PayloadType, Actions
<1>2. ASSUME NEW y, NEW k, NEW m, SetThreshold(y, k, m), y # x PROVE threshold'[x] = threshold[x]
  BY <1>2 DEF SetThreshold, TypeOK
<1>3. ASSUME NEW y, NEW S, members' = [members EXCEPT ![y] = S], y # x PROVE members'[x] = members[x]
  BY <1>3 DEF TypeOK
<1>4. CASE d.action \in {"APPOINT_ORG_ADMIN", "APPOINT_SYSTEM_ADMIN"} /\ Appoint(s, d)
  BY <1>1, <1>2, <1>3, <1>4 DEF Appoint
<1>5. CASE d.action \in {"REMOVE_ORG_ADMIN", "REMOVE_SYSTEM_ADMIN"} /\ Remove(s, d)
  BY <1>1, <1>2, <1>3, <1>5 DEF Remove
<1>6. CASE d.action = "CHANGE_POOL_THRESHOLD" /\ ChangeThreshold(s, d)
  BY <1>1, <1>2, <1>6 DEF ChangeThreshold
<1>7. CASE d.action \in {"ONBOARD_ORG", "POOL_REINSTATEMENT"} /\ CreatePool(d)
  BY <1>1, <1>2, <1>3, <1>7 DEF CreatePool
<1>8. CASE ChangePolicy(s)
  BY <1>8 DEF ChangePolicy, pools
<1>9. CASE d.action = "POOL_REINSTATEMENT" /\ ReconcileRoster(s, d)
  BY <1>1, <1>2, <1>3, <1>9 DEF ReconcileRoster
<1> QED
  BY <1>4, <1>5, <1>6, <1>7, <1>8, <1>9 DEF Mutate

(***************************************************************************)
(* Outside the ceremonies power moves only with the execution of a pending *)
(* proposal, and only in the pool that proposal affects.                   *)
(***************************************************************************)
THEOREM PowerMovesOnlyByDecree == Spec => PowerMovesByDecree
<1> DEFINE Decreed ==
             \E p \in Proposals :
               /\ status[p] = "PENDING" /\ status'[p] = "EXECUTED"
               /\ \A x \in PoolIds \ Affected(payload[p]) :
                    threshold'[x] = threshold[x] /\ members'[x] = members[x]
           Moves == <<pools, policyVersion>>' # <<pools, policyVersion>> =>
                      \/ ceremonies' # ceremonies
                      \/ Decreed
<1>1. ASSUME Inv, Next PROVE Moves
  <2>1. TypeOK /\ ExecutionsSound
    BY <1>1 DEF Inv
  <2>2. ASSUME NEW e \in Executors, CommitExecute(e) PROVE Decreed
    <3>1. PICK p \in Proposals :
            /\ Holds(e, p) /\ status[p] = "PENDING" /\ status' = [status EXCEPT ![p] = "EXECUTED"]
      BY <2>1, <2>2, CommitDecides
    <3>2. payload[p] \in Payloads
      BY <2>1, <3>1, SnapshotTyped
    <3>3. Mutate(exec[e], payload[p])
      BY <2>2, <3>1 DEF CommitExecute, Holds
    <3>4. \A x \in PoolIds \ Affected(payload[p]) :
            threshold'[x] = threshold[x] /\ members'[x] = members[x]
      BY <2>1, <3>2, <3>3, MutateAffects
    <3>5. status'[p] = "EXECUTED"
      BY <2>1, <3>1 DEF TypeOK
    <3> QED
      BY <3>1, <3>4, <3>5
  <2>3. CASE ceremonies' = ceremonies + 1
    BY <2>1, <2>3 DEF TypeOK
  <2>4. CASE UNCHANGED <<pools, policyVersion>>
    BY <2>4
  <2> HIDE DEF Decreed
  <2> QED
    BY <1>1, <2>2, <2>3, <2>4 DEF Next, Bootstrap, Regenesis, File, Approve, Object, DelayPasses,
       BeginExecute, AbortExecute, SetStatus
<1> HIDE DEF Moves
<1>2. Inv /\ [Next]_vars => [Moves]_vars
  BY <1>1
<1>3. [][Moves]_vars => PowerMovesByDecree
  BY DEF PowerMovesByDecree, Moves, Decreed
<1> QED
  BY <1>2, <1>3, Invariance, PTL DEF Spec

(***************************************************************************)
(* What a mutation leaves of a pool whose rows are as it has read them:    *)
(* the roster it decrees, counted.                                         *)
(***************************************************************************)
LEMMA MutateCounts ==
  ASSUME TypeOK, NEW p \in Proposals, payload[p] \in Payloads,
         Mutate(Snapshot(p), payload[p]), NEW x \in PoolIds, Counted(threshold[x].m, members[x])
  PROVE  Counted(threshold'[x].m, members'[x])
<1> DEFINE d == payload[p]
           s == Snapshot(p)
<1>1. /\ d.pool \in PoolIds /\ d.user \in Users /\ d.members \subseteq Users /\ Target(d) \in PoolIds
  BY PayloadPools
<1>2. /\ s.m = threshold[Target(d)].m /\ s.roster = members[d.pool]
      /\ s.m \in Int
  BY <1>1 DEF Snapshot, TypeOK
<1>3. \A y \in PoolIds : members[y] \subseteq Users /\ IsFiniteSet(members[y])
  BY GroupSize DEF TypeOK
<1>4. ASSUME NEW y \in PoolIds, NEW k, NEW m, NEW S, SetThreshold(y, k, m),
             members' = [members EXCEPT ![y] = S], m = Cardinality(S)
      PROVE  Counted(threshold'[x].m, members'[x])
  <2>1. threshold'[y].m = m /\ (x # y => threshold'[x] = threshold[x])
    BY <1>4 DEF SetThreshold, TypeOK
  <2>2. members'[y] = S /\ (x # y => members'[x] = members[x])
    BY <1>4 DEF TypeOK
  <2> QED
    BY <1>4, <2>1, <2>2 DEF Counted
<1>5. CASE x # Target(d) /\ (Appoint(s, d) \/ Remove(s, d))
  BY <1>5 DEF Appoint, Remove, SetThreshold, TypeOK
<1> DEFINE M == members[Target(d)]
<1>6. IsFiniteSet(M) /\ (x = Target(d) => s.m = Cardinality(M))
  BY <1>1, <1>2, <1>3 DEF Counted
<1> HIDE DEF s
<1>7. CASE x = Target(d) /\ Appoint(s, d)
  <2>1. /\ d.user \notin M /\ SetThreshold(Target(d), s.k, s.m + 1)
        /\ members' = [members EXCEPT ![Target(d)] = M \cup {d.user}]
    BY <1>7 DEF Appoint
  <2> HIDE DEF M
  <2>2. Cardinality(M \cup {d.user}) = s.m + 1
    BY <1>6, <1>7, <2>1, FS_AddElement
  <2> QED
    BY <1>1, <1>4, <2>1, <2>2
<1>8. CASE x = Target(d) /\ Remove(s, d)
  <2>1. /\ d.user \in M /\ SetThreshold(Target(d), s.k, s.m - 1)
        /\ members' = [members EXCEPT ![Target(d)] = M \ {d.user}]
    BY <1>8 DEF Remove
  <2> HIDE DEF M
  <2>2. Cardinality(M \ {d.user}) = s.m - 1
    BY <1>6, <1>8, <2>1, FS_RemoveElement
  <2> QED
    BY <1>1, <1>4, <2>1, <2>2
<1>9. CASE d.action = "CHANGE_POOL_THRESHOLD" /\ ChangeThreshold(s, d)
  <2>1. Target(d) = d.pool
    BY <1>9 DEF Target
  <2>2. members' = members /\ (x # Target(d) => threshold'[x] = threshold[x])
        /\ threshold'[Target(d)].m = s.m
    BY <1>1, <1>9, <2>1 DEF ChangeThreshold, SetThreshold, TypeOK
  <2> QED
    BY <1>6, <2>2 DEF Counted
<1>10. CASE CreatePool(d)
  BY <1>1, <1>4, <1>10 DEF CreatePool
<1>11. CASE ChangePolicy(s)
  BY <1>11 DEF ChangePolicy, pools
<1>12. CASE ReconcileRoster(s, d)
  <2> DEFINE R == (members[d.pool] \cup (d.members \ s.roster)) \ (s.roster \ d.members)
  <2>1. /\ SetThreshold(d.pool, EffectiveK(d.k, Cardinality(d.members)), Cardinality(d.members))
        /\ members' = [members EXCEPT ![d.pool] = R]
    BY <1>12 DEF ReconcileRoster
  <2>2. R = d.members
    BY <1>2
  <2> HIDE DEF R
  <2> QED
    BY <1>1, <1>4, <2>1, <2>2
<1> QED
  BY <1>5, <1>7, <1>8, <1>9, <1>10, <1>11, <1>12 DEF Mutate, s

(***************************************************************************)
(* An execution whose snapshot still holds when it commits keeps every     *)
(* stored m the number of members.                                         *)
(***************************************************************************)
THEOREM RostersKept == Spec => RosterKept
<1> DEFINE Keeps == \A e \in Executors :
             CommitExecute(e) /\ exec[e] = Snapshot(exec[e].prop) =>
               \A x \in PoolIds : Counted(threshold[x].m, members[x])
                                   => Counted(threshold'[x].m, members'[x])
<1>1. ASSUME Inv PROVE Keeps
  <2> SUFFICES ASSUME NEW e \in Executors, CommitExecute(e), exec[e] = Snapshot(exec[e].prop),
                      NEW x \in PoolIds, Counted(threshold[x].m, members[x])
               PROVE  Counted(threshold'[x].m, members'[x])
    OBVIOUS
  <2>1. TypeOK /\ ExecutionsSound
    BY <1>1 DEF Inv
  <2>2. PICK p \in Proposals : Holds(e, p) /\ status[p] = "PENDING"
    BY <2>1, CommitDecides
  <2>3. payload[p] \in Payloads
    BY <2>1, <2>2, SnapshotTyped
  <2>4. Mutate(Snapshot(p), payload[p])
    BY <2>2 DEF CommitExecute, Holds
  <2> QED
    BY <2>1, <2>3, <2>4, MutateCounts
<1>2. Inv /\ [Next]_vars => [Keeps]_vars
  BY <1>1
<1>3. [][Keeps]_vars => RosterKept
  BY DEF RosterKept
<1> QED
  BY <1>2, <1>3, Invariance, PTL DEF Spec

-----------------------------------------------------------------------------
(* Refinement *)

(***************************************************************************)
(* An endorsed proposal has two voters at least.                           *)
(***************************************************************************)
LEMMA EndorsedVoters ==
  ASSUME NEW p, Endorsed(p)
  PROVE  Cardinality({u \in Users : vote[p][u] # "NONE"}) >= MinK
<1> DEFINE V == {u \in Users : vote[p][u] # "NONE"}
<1>1. Voters(p, "IN_POOL") \subseteq V
  BY DEF Voters
<1>2. IsFiniteSet(V) /\ Cardinality(V) \in Nat /\ Count(p, "IN_POOL") \in Nat
  BY GroupSize DEF Voters, Count
<1>3. Count(p, "IN_POOL") <= Cardinality(V)
  BY <1>1, <1>2, FS_Subset DEF Count
<1>4. Count(p, "IN_POOL") >= MinK
  BY DEF Endorsed
<1> QED
  BY <1>2, <1>3, <1>4 DEF MinK

(***************************************************************************)
(* Governance implements QuorumDecision: every step is one of its acts,    *)
(* with an entry in the record, or changes nothing it can see.             *)
(***************************************************************************)
THEOREM GovernanceDecides == Spec => ImplementsQuorumDecision
<1> DEFINE V == [p \in Proposals |-> {u \in Users : vote[p][u] # "NONE"}]
<1>1. Init => Decision!Init
  BY DEF Init, Decision!Init
<1>2. ASSUME Inv, [Next]_vars PROVE [Decision!Next]_(Decision!vars)
  <2>1. ASSUME vote' = vote PROVE V' = V
    BY <2>1
  <2>2. TypeOK /\ ExecutionsSound
    BY <1>2 DEF Inv
  <2>3. ASSUME NEW g \in GenesisManifests, Bootstrap(g) PROVE Decision!Next
    BY <2>1, <2>3 DEF Bootstrap, Recorded, ballots, Decision!Next, Decision!Act,
       Decision!Ceremony
  <2>4. ASSUME NEW r \in Rosters, Regenesis(r) PROVE Decision!Next
    BY <2>1, <2>4 DEF Regenesis, Recorded, ballots, Decision!Next, Decision!Act,
       Decision!Ceremony
  <2>5. ASSUME NEW u \in Users, NEW p \in Proposals, NEW d \in Payloads, File(u, p, d)
        PROVE  Decision!Next
    <3>1. Decision!Propose(p) /\ Recorded
      BY <2>1, <2>5 DEF File, ballots, pools, Decision!Propose
    <3> QED
      BY <3>1 DEF Recorded, Decision!Next, Decision!Act
  <2>6. ASSUME NEW u \in Users, NEW p \in Proposals, NEW t \in 1 .. MaxStepUps,
               Approve(u, p, t)
        PROVE  Decision!Next
    <3>1. /\ status[p] = "PENDING" /\ vote[p][u] = "NONE"
          /\ Classify(u, payload[p]) # "NONE"
          /\ vote' = [vote EXCEPT ![p][u] = Classify(u, payload[p])]
          /\ UNCHANGED <<status, pools, policyVersion>> /\ Recorded
      BY <2>6 DEF Approve, Open
    <3>2. V' = [V EXCEPT ![p] = @ \cup {u}]
      <4>1. \A q \in Proposals, w \in Users :
              vote'[q][w] = IF q = p /\ w = u THEN Classify(u, payload[p]) ELSE vote[q][w]
        BY <2>2, <3>1 DEF TypeOK
      <4>2. \A q \in Proposals :
              {w \in Users : vote'[q][w] # "NONE"}
                = IF q = p THEN {w \in Users : vote[q][w] # "NONE"} \cup {u}
                  ELSE {w \in Users : vote[q][w] # "NONE"}
        BY <3>1, <4>1
      <4> QED
        BY <4>2
    <3>3. Decision!Vote(p, u)
      BY <3>1, <3>2 DEF Decision!Vote
    <3> QED
      BY <3>1, <3>3 DEF Recorded, Decision!Next, Decision!Act
  <2>7. ASSUME NEW u \in Users, NEW p \in Proposals, Object(u, p) PROVE Decision!Next
    <3>1. \E next \in {"PENDING", "OBJECTED"} : status' = [status EXCEPT ![p] = next]
      BY <2>2, <2>7 DEF Object, Open, TypeOK
    <3>2. Decision!Object(p) /\ Recorded
      BY <2>1, <2>7, <3>1 DEF Object, Open, pools, Decision!Object
    <3> QED
      BY <3>2 DEF Recorded, Decision!Next, Decision!Act
  <2>8. ASSUME NEW e \in Executors, CommitExecute(e) PROVE Decision!Next
    <3>1. PICK p \in Proposals :
            /\ status[p] = "PENDING" /\ Endorsed(p)
            /\ status' = [status EXCEPT ![p] = "EXECUTED"]
            /\ vote' = vote /\ Recorded
      BY <2>2, <2>8, CommitDecides
    <3>2. V[p] \in {S \in SUBSET Users : Cardinality(S) >= MinK}
      BY <3>1, EndorsedVoters
    <3>3. Decision!Enact(p)
      BY <2>1, <3>1, <3>2 DEF Decision!Enact
    <3> QED
      BY <3>1, <3>3 DEF Recorded, Decision!Next, Decision!Act
  <2>9. CASE UNCHANGED <<status, vote, pools, policyVersion, auditRows>>
    BY <2>1, <2>9 DEF Decision!vars
  <2> QED
    BY <1>2, <2>3, <2>4, <2>5, <2>6, <2>7, <2>8, <2>9 DEF Next, DelayPasses, BeginExecute,
       AbortExecute, SetStatus, ballots, pools, vars
<1> QED
  BY <1>1, <1>2, Invariance, PTL DEF Spec, ImplementsQuorumDecision, Decision!Spec
=============================================================================
