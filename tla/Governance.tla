----------------------------- MODULE Governance -----------------------------
(***************************************************************************)
(* The k-of-m governance of backend/src/governance: admin pools, sudo      *)
(* proposals, votes, objections, executions and the two ceremonies.        *)
(*                                                                         *)
(* A request is one database transaction under READ COMMITTED.  Filing,    *)
(* voting and objecting are single steps: they read nothing that another   *)
(* transaction can change before they commit.  An execution is two steps:  *)
(* BeginExecute takes the row lock of the proposal and reads everything    *)
(* the mutation depends on; CommitExecute writes.  Only the proposal row   *)
(* is locked, so executions of two proposals interleave and the second may *)
(* write from rows the first has already replaced.                         *)
(***************************************************************************)
EXTENDS FiniteSets, PoolMath

CONSTANTS
  Users,              \* rows of users
  Role,               \* [Users -> role], fixed: users.role is not changed here
  Orgs,               \* organisations; an ORG_ADMIN pool is named by its org
  Proposals,          \* rows of sudo_proposals
  Executors,          \* executions that may be in flight at once
  Payloads,           \* what proposals may ask for
  NoPayload,          \* the payload of a proposal that is not filed
  Idle,               \* an executor with no transaction open
  GenesisManifests,   \* pool specifications bootstrap may be given
  Rosters,            \* pool specifications regenesis may be given
  Suspendable,        \* users whose status the user service may change
  MinObjectorsToHalt, \* config.governance.minObjectorsToHalt
  MaxStepUps,         \* bound: step-up tokens a user obtains
  MaxRegenesis        \* bound: regenesis ceremonies

TopTier == {"SYSTEM_ADMIN", "SECURITY_ADMIN"}
PoolIds == TopTier \cup Orgs

Actions == {"APPOINT_ORG_ADMIN", "REMOVE_ORG_ADMIN", "CHANGE_POOL_THRESHOLD",
            "APPOINT_SYSTEM_ADMIN", "REMOVE_SYSTEM_ADMIN", "ONBOARD_ORG",
            "CHANGE_ABAC_POLICY", "POOL_REINSTATEMENT"}

\* A payload names a pool (org or poolType), a user, a roster and a k; an
\* action looks at the fields it needs.
PayloadType == [action : Actions, pool : PoolIds, user : Users,
                members : SUBSET Users, k : Int]

CrossTierLabels == {"CROSS_TIER_SECURITY_ADMIN", "SYSTEM_ADMIN_QUORUM"}
Labels == {"IN_POOL", "AUDITOR_VOTE"} \cup CrossTierLabels

\* A genesis manifest gives some pools a roster and a k.
ManifestEntry == [members : SUBSET Users, k : Int]

\* Regenesis receives a list of addresses: size is its length, members the
\* people it resolves to, fewer when an address is repeated.
RosterEntry == [members : SUBSET Users, size : Nat, k : Int]

ASSUME UsersFinite == IsFiniteSet(Users)
ASSUME PayloadsTyped == Payloads \subseteq PayloadType /\ NoPayload \notin Payloads
ASSUME ManifestsTyped ==
  \A g \in GenesisManifests :
    DOMAIN g \subseteq PoolIds /\ \A x \in DOMAIN g : g[x] \in ManifestEntry
ASSUME RostersTyped ==
  \A r \in Rosters :
    DOMAIN r \subseteq TopTier /\ \A x \in DOMAIN r : r[x] \in RosterEntry
ASSUME BoundsTyped ==
  MinObjectorsToHalt \in Nat \ {0} /\ MaxStepUps \in Nat /\ MaxRegenesis \in Nat
ASSUME SuspendableTyped == Suspendable \subseteq Users

VARIABLES
  active,         \* users whose status is ACTIVE
  threshold,      \* admin_pools: [PoolIds -> [k, m]], NoThreshold if absent
  members,        \* admin_pool_members: [PoolIds -> SUBSET Users]
  status,         \* sudo_proposals.status, or "UNFILED"
  payload,        \* sudo_proposals.payload
  waiting,        \* proposals whose executes_after lies ahead
  vote,           \* sudo_approvals: [Proposals -> [Users -> label or "NONE"]]
  spent,          \* step_up_token_jti values in sudo_approvals
  objections,     \* number of sudo_objections rows per proposal
  policyVersion,  \* highest version in abac_policies
  exec,           \* open execution transactions: what each has read
  ceremonies,     \* bootstrap and regenesis ceremonies held
  auditRows       \* governance rows in the audit log

pools == <<threshold, members>>
ballots == <<vote, spent, objections>>
vars == <<active, threshold, members, status, payload, waiting, vote, spent,
          objections, policyVersion, exec, ceremonies, auditRows>>

-----------------------------------------------------------------------------
(* The registry of sudo actions *)

NoThreshold == [k |-> 0, m |-> 0]

Exists(x) == threshold[x] # NoThreshold

Target(d) ==
  CASE d.action \in {"APPOINT_ORG_ADMIN", "REMOVE_ORG_ADMIN", "CHANGE_POOL_THRESHOLD"}
         -> d.pool
    [] d.action = "CHANGE_ABAC_POLICY" -> "SECURITY_ADMIN"
    [] OTHER -> "SYSTEM_ADMIN"

\* The pools a decree rewrites.
Affected(d) ==
  CASE d.action \in {"APPOINT_SYSTEM_ADMIN", "REMOVE_SYSTEM_ADMIN"} -> {"SYSTEM_ADMIN"}
    [] d.action = "CHANGE_ABAC_POLICY" -> {}
    [] OTHER -> {d.pool}

\* The cross-tier pool whose co-signature the action asks for, if any.
CrossTier(d) ==
  CASE d.action = "CHANGE_ABAC_POLICY" -> {"SYSTEM_ADMIN"}
    [] d.action = "POOL_REINSTATEMENT" /\ d.pool \in TopTier -> {}
    [] OTHER -> {"SECURITY_ADMIN"}

\* A pool is not its own co-signer: the requirement is then void.
CoSigners(d) == CrossTier(d) \ {Target(d)}

\* The pool type where its approver_pool_role is meant.
PoolTypeAsLabel(x) == x

CrossTierLabel(x) ==
  IF x = "SECURITY_ADMIN" THEN "CROSS_TIER_SECURITY_ADMIN" ELSE "SYSTEM_ADMIN_QUORUM"

\* The route strips demotedRole from the payload, which REMOVE_ORG_ADMIN then
\* misses; reinstating the top pool is a ceremony.
Fileable(d) ==
  /\ d.action # "REMOVE_ORG_ADMIN"
  /\ d.action = "POOL_REINSTATEMENT" => d.pool # "SYSTEM_ADMIN"
  /\ d.action \in {"ONBOARD_ORG", "POOL_REINSTATEMENT"} => d.members # {}
  /\ d.action \in {"ONBOARD_ORG", "APPOINT_ORG_ADMIN"} => d.pool \in Orgs

Delayed(d) == d.action = "POOL_REINSTATEMENT"
AuditorQuorum(d) == d.action = "POOL_REINSTATEMENT"

-----------------------------------------------------------------------------
(* Who may act, and in what capacity *)

MayPropose(u) == u \in active /\ Role[u] \in {"SYSTEM_ADMIN", "SECURITY_ADMIN", "ORG_ADMIN"}
MayApprove(u) == u \in active /\ Role[u] \in {"SYSTEM_ADMIN", "SECURITY_ADMIN", "ORG_ADMIN", "AUDITOR"}

\* The first capacity that applies counts.
Classify(u, d) ==
  IF u \in members[Target(d)] THEN "IN_POOL"
  ELSE IF \E c \in CoSigners(d) : u \in members[c]
    THEN CrossTierLabel(CHOOSE c \in CoSigners(d) : u \in members[c])
  ELSE IF AuditorQuorum(d) /\ Role[u] = "AUDITOR" /\ u \in active THEN "AUDITOR_VOTE"
  ELSE "NONE"

Voters(p, label) == {u \in Users : vote[p][u] = label}
Count(p, label) == Cardinality(Voters(p, label))
ActiveAuditors == {u \in active : Role[u] = "AUDITOR"}

Holds(e, p) == exec[e] # Idle /\ exec[e].prop = p

\* The FOR UPDATE forgotten.
NeverLocked(p) == FALSE

\* SELECT ... FOR UPDATE on the proposal row, held until the commit.
Locked(p) == \E e \in Executors : Holds(e, p)

Open(p) == status[p] = "PENDING" /\ ~Locked(p)

Recorded == auditRows' = auditRows + 1

-----------------------------------------------------------------------------
(* Quorum, derived from the approval rows *)

InPoolQuorum(p, d) == Count(p, "IN_POOL") >= threshold[Target(d)].k

\* A co-signing pool needs one voice, and for a policy change its own k.
CrossTierQuorum(p, d) ==
  \A c \in CoSigners(d) :
    IF d.action = "CHANGE_ABAC_POLICY"
      THEN Exists(c) /\ Count(p, CrossTierLabel(c)) >= threshold[c].k
      ELSE Count(p, CrossTierLabel(c)) >= 1

\* With no active auditor the quorum is out of reach.
AuditorsAgree(p, d) ==
  AuditorQuorum(d) =>
    /\ ActiveAuditors # {}
    /\ Count(p, "AUDITOR_VOTE") >= DefaultK(Cardinality(ActiveAuditors))

\* Two forms of HasQuorum that forget a part of it.
HasInPoolQuorumOnly(p, d) == InPoolQuorum(p, d) /\ AuditorsAgree(p, d)
HasCrossTierQuorumOnly(p, d) == CrossTierQuorum(p, d) /\ AuditorsAgree(p, d)

HasQuorum(p, d) == InPoolQuorum(p, d) /\ CrossTierQuorum(p, d) /\ AuditorsAgree(p, d)

-----------------------------------------------------------------------------
(* Ceremonies *)

Bootstrapped == \E x \in PoolIds : Exists(x)

\* Founds the pools.  A repeated address breaks UNIQUE(pool, user) and rolls
\* the ceremony back, so m is the number of people.
Bootstrap(g) ==
  /\ ~Bootstrapped
  /\ DOMAIN g # {}
  /\ \A x \in DOMAIN g :
       ValidThreshold(EffectiveK(g[x].k, Cardinality(g[x].members)), Cardinality(g[x].members))
  /\ members' = [x \in PoolIds |-> IF x \in DOMAIN g THEN g[x].members ELSE {}]
  /\ threshold' =
       [x \in PoolIds |->
          IF x \in DOMAIN g
            THEN [k |-> EffectiveK(g[x].k, Cardinality(g[x].members)),
                  m |-> Cardinality(g[x].members)]
            ELSE NoThreshold]
  /\ ceremonies' = ceremonies + 1
  /\ Recorded
  /\ UNCHANGED <<active, status, payload, waiting, ballots, policyVersion, exec>>

\* Replaces the rosters of top-tier pools.  Here m is the length of the list,
\* repeated addresses included.
Regenesis(r) ==
  /\ Bootstrapped
  /\ ceremonies <= MaxRegenesis
  /\ DOMAIN r # {}
  /\ \A x \in DOMAIN r :
       /\ Exists(x)
       /\ ValidThreshold(EffectiveK(r[x].k, r[x].size), r[x].size)
  /\ members' = [x \in PoolIds |-> IF x \in DOMAIN r THEN r[x].members ELSE members[x]]
  /\ threshold' =
       [x \in PoolIds |->
          IF x \in DOMAIN r
            THEN [k |-> EffectiveK(r[x].k, r[x].size), m |-> r[x].size]
            ELSE threshold[x]]
  /\ ceremonies' = ceremonies + 1
  /\ Recorded
  /\ UNCHANGED <<active, status, payload, waiting, ballots, policyVersion, exec>>

-----------------------------------------------------------------------------
(* Filing, voting, objecting *)

File(u, p, d) ==
  /\ status[p] = "UNFILED"
  /\ MayPropose(u)
  /\ Fileable(d)
  /\ Exists(Target(d))
  /\ Classify(u, d) # "NONE"
  /\ status' = [status EXCEPT ![p] = "PENDING"]
  /\ payload' = [payload EXCEPT ![p] = d]
  /\ waiting' = IF Delayed(d) THEN waiting \cup {p} ELSE waiting
  /\ Recorded
  /\ UNCHANGED <<active, pools, ballots, policyVersion, exec, ceremonies>>

\* UNIQUE(step_up_token_jti), and its absence.
AnyToken(u, t) == TRUE
UnspentToken(u, t) == <<u, t>> \notin spent

Approve(u, p, t) ==
  /\ Open(p)
  /\ MayApprove(u)
  /\ Classify(u, payload[p]) # "NONE"
  /\ vote[p][u] = "NONE"                         \* UNIQUE(proposal, approver)
  /\ UnspentToken(u, t)
  /\ vote' = [vote EXCEPT ![p][u] = Classify(u, payload[p])]
  /\ spent' = spent \cup {<<u, t>>}
  /\ Recorded
  /\ UNCHANGED <<active, pools, status, payload, waiting, objections, policyVersion,
                 exec, ceremonies>>

\* Nothing stops one person from objecting twice.
Object(u, p) ==
  /\ Open(p)
  /\ MayApprove(u)
  /\ Classify(u, payload[p]) # "NONE"
  /\ objections' = [objections EXCEPT ![p] = @ + 1]
  /\ status' = IF objections[p] + 1 >= MinObjectorsToHalt
                 THEN [status EXCEPT ![p] = "OBJECTED"] ELSE status
  /\ Recorded
  /\ UNCHANGED <<active, pools, payload, waiting, vote, spent, policyVersion, exec,
                 ceremonies>>

DelayPasses(p) ==
  /\ p \in waiting
  /\ waiting' = waiting \ {p}
  /\ UNCHANGED <<active, pools, status, payload, ballots, policyVersion, exec,
                 ceremonies, auditRows>>

-----------------------------------------------------------------------------
(* Execution *)

\* What an execution has read when it starts to write: the target pool's k and
\* m, the affected pool's roster and whether it existed, the policy version.
Snapshot(p) ==
  LET d == payload[p] IN
    [prop    |-> p,
     k       |-> threshold[Target(d)].k,
     m       |-> threshold[Target(d)].m,
     fresh   |-> ~Exists(d.pool),
     roster  |-> members[d.pool],
     version |-> policyVersion]

RosterActive(d) ==
  d.action \in {"ONBOARD_ORG", "POOL_REINSTATEMENT"} => d.members \subseteq active

BeginExecute(e, u, p) ==
  LET d == payload[p] IN
    /\ exec[e] = Idle
    /\ Open(p)
    /\ MayApprove(u)
    /\ Classify(u, d) # "NONE"
    /\ p \notin waiting
    /\ Exists(Target(d))
    /\ HasQuorum(p, d)
    /\ RosterActive(d)
    /\ exec' = [exec EXCEPT ![e] = Snapshot(p)]
    /\ UNCHANGED <<active, pools, status, payload, waiting, ballots, policyVersion,
                   ceremonies, auditRows>>

SetThreshold(x, k, m) ==
  /\ ValidThreshold(k, m)
  /\ threshold' = [threshold EXCEPT ![x] = [k |-> k, m |-> m]]

\* UNIQUE(pool, user) refuses an appointee whom another transaction appointed.
Appoint(s, d) ==
  /\ d.user \notin members[Target(d)]
  /\ members' = [members EXCEPT ![Target(d)] = @ \cup {d.user}]
  /\ SetThreshold(Target(d), s.k, s.m + 1)
  /\ UNCHANGED policyVersion

Remove(s, d) ==
  /\ s.m - 1 >= MinM /\ s.k <= s.m - 1
  /\ d.user \in members[Target(d)]
  /\ members' = [members EXCEPT ![Target(d)] = @ \ {d.user}]
  /\ SetThreshold(Target(d), s.k, s.m - 1)
  /\ UNCHANGED policyVersion

ChangeThreshold(s, d) ==
  /\ SetThreshold(d.pool, d.k, s.m)
  /\ UNCHANGED <<members, policyVersion>>

\* The partial unique indexes on admin_pools refuse a second pool.
CreatePool(d) ==
  LET m == Cardinality(d.members) IN
    /\ ~Exists(d.pool)
    /\ SetThreshold(d.pool, EffectiveK(d.k, m), m)
    /\ members' = [members EXCEPT ![d.pool] = d.members]
    /\ UNCHANGED policyVersion

\* max(version) + 1 with and without UNIQUE(version) on the insert.
VersionUnchecked(s) == s.version \in Int
VersionFree(s) == s.version = policyVersion

ChangePolicy(s) ==
  /\ VersionFree(s)
  /\ policyVersion' = s.version + 1
  /\ UNCHANGED pools

\* A reconciliation that forgets the members to remove.
MergeRoster(s, d) ==
  LET m == Cardinality(d.members) IN
    /\ SetThreshold(d.pool, EffectiveK(d.k, m), m)
    /\ members' = [members EXCEPT ![d.pool] = @ \cup (d.members \ s.roster)]
    /\ UNCHANGED policyVersion

\* Adds whom the roster read lacks and removes whom it has too many.
ReconcileRoster(s, d) ==
  LET m == Cardinality(d.members)
      missing == d.members \ s.roster
      surplus == s.roster \ d.members
  IN
    /\ missing \cap members[d.pool] = {}
    /\ SetThreshold(d.pool, EffectiveK(d.k, m), m)
    /\ members' = [members EXCEPT ![d.pool] = (@ \cup missing) \ surplus]
    /\ UNCHANGED policyVersion

Mutate(s, d) ==
  \/ d.action \in {"APPOINT_ORG_ADMIN", "APPOINT_SYSTEM_ADMIN"} /\ Appoint(s, d)
  \/ d.action \in {"REMOVE_ORG_ADMIN", "REMOVE_SYSTEM_ADMIN"} /\ Remove(s, d)
  \/ d.action = "CHANGE_POOL_THRESHOLD" /\ ChangeThreshold(s, d)
  \/ d.action = "ONBOARD_ORG" /\ CreatePool(d)
  \/ d.action = "CHANGE_ABAC_POLICY" /\ ChangePolicy(s)
  \/ d.action = "POOL_REINSTATEMENT" /\ s.fresh /\ CreatePool(d)
  \/ d.action = "POOL_REINSTATEMENT" /\ ~s.fresh /\ ReconcileRoster(s, d)

\* The proposal row keeps its status; and is closed.
LeaveOpen(p) == status' = [status EXCEPT ![p] = @]
Close(p) == status' = [status EXCEPT ![p] = "EXECUTED"]

CommitExecute(e) ==
  LET p == exec[e].prop IN
    /\ exec[e] # Idle
    /\ Mutate(exec[e], payload[p])
    /\ Close(p)
    /\ exec' = [exec EXCEPT ![e] = Idle]
    /\ Recorded
    /\ UNCHANGED <<active, payload, waiting, ballots, ceremonies>>

\* A refused mutation, a lost connection or a crash: the transaction rolls back.
AbortExecute(e) ==
  /\ exec[e] # Idle
  /\ exec' = [exec EXCEPT ![e] = Idle]
  /\ UNCHANGED <<active, pools, status, payload, waiting, ballots, policyVersion,
                 ceremonies, auditRows>>

-----------------------------------------------------------------------------
\* The user service deactivates and reactivates people, pool members too, and
\* looks at no pool when it does.
SetStatus(u) ==
  /\ active' = IF u \in active THEN active \ {u} ELSE active \cup {u}
  /\ UNCHANGED <<pools, status, payload, waiting, ballots, policyVersion, exec,
                 ceremonies, auditRows>>

-----------------------------------------------------------------------------
Init ==
  /\ active = Users
  /\ threshold = [x \in PoolIds |-> NoThreshold]
  /\ members = [x \in PoolIds |-> {}]
  /\ status = [p \in Proposals |-> "UNFILED"]
  /\ payload = [p \in Proposals |-> NoPayload]
  /\ waiting = {}
  /\ vote = [p \in Proposals |-> [u \in Users |-> "NONE"]]
  /\ spent = {}
  /\ objections = [p \in Proposals |-> 0]
  /\ policyVersion = 0
  /\ exec = [e \in Executors |-> Idle]
  /\ ceremonies = 0
  /\ auditRows = 0

Next ==
  \/ \E g \in GenesisManifests : Bootstrap(g)
  \/ \E r \in Rosters : Regenesis(r)
  \/ \E u \in Users, p \in Proposals, d \in Payloads : File(u, p, d)
  \/ \E u \in Users, p \in Proposals, t \in 1 .. MaxStepUps : Approve(u, p, t)
  \/ \E u \in Users, p \in Proposals : Object(u, p)
  \/ \E p \in Proposals : DelayPasses(p)
  \/ \E e \in Executors, u \in Users, p \in Proposals : BeginExecute(e, u, p)
  \/ \E e \in Executors : CommitExecute(e) \/ AbortExecute(e)
  \/ \E u \in Suspendable : SetStatus(u)

Spec == Init /\ [][Next]_vars

-----------------------------------------------------------------------------
(* Properties *)

SnapshotType == [prop : Proposals, k : Int, m : Int, fresh : BOOLEAN,
                 roster : SUBSET Users, version : Nat]

\* Every variable has the shape of the tables it stands for.
TypeOK ==
  /\ active \subseteq Users
  /\ threshold \in [PoolIds -> [k : Int, m : Int]]
  /\ members \in [PoolIds -> SUBSET Users]
  /\ status \in [Proposals -> {"UNFILED", "PENDING", "OBJECTED", "EXECUTED"}]
  /\ payload \in [Proposals -> Payloads \cup {NoPayload}]
  /\ waiting \subseteq Proposals
  /\ vote \in [Proposals -> [Users -> Labels \cup {"NONE"}]]
  /\ spent \subseteq Users \X (1 .. MaxStepUps)
  /\ objections \in [Proposals -> Nat]
  /\ policyVersion \in Nat
  /\ exec \in [Executors -> SnapshotType \cup {Idle}]
  /\ ceremonies \in Nat
  /\ auditRows \in Nat
  /\ \A p \in Proposals : payload[p] = NoPayload <=> status[p] = "UNFILED"

\* No sequence of decrees and ceremonies, interleaved in any way, stores a
\* threshold outside 2 <= k <= m (poolMath.js, the CHECK on admin_pools).
PoolsLegal ==
  \A x \in PoolIds : Exists(x) => MinK <= threshold[x].k /\ threshold[x].k <= threshold[x].m

\* Two people of the governing pool, and beside them one of each co-signing
\* pool (two for a policy change) and one auditor where the action asks for it.
Endorsed(p) ==
  LET d == payload[p] IN
    /\ Count(p, "IN_POOL") >= MinK
    /\ \A c \in CoSigners(d) :
         Count(p, CrossTierLabel(c)) >= (IF d.action = "CHANGE_ABAC_POLICY" THEN MinK ELSE 1)
    /\ AuditorQuorum(d) => Count(p, "AUDITOR_VOTE") >= 1

\* Whatever happens to pools, people and auditors between the votes and the
\* commit, an executed proposal carries the votes of distinct people in every
\* capacity the action requires, and its delay has passed.
ExecutedByQuorum ==
  \A p \in Proposals : status[p] = "EXECUTED" => Endorsed(p) /\ p \notin waiting

\* An open execution holds its proposal alone, and the proposal stays pending,
\* endorsed and due under it; the threshold it read was legal.
ExecutionsSound ==
  /\ \A e \in Executors, p \in Proposals : Holds(e, p) =>
       status[p] = "PENDING" /\ Endorsed(p) /\ p \notin waiting
  /\ \A e \in Executors : exec[e] # Idle => ValidThreshold(exec[e].k, exec[e].m)
  /\ \A e, f \in Executors, p \in Proposals : Holds(e, p) /\ Holds(f, p) => e = f

\* A step-up token buys one vote: nobody has cast more votes, on any
\* proposals, than tokens were consumed (approveProposal's single-use jti).
VotesMatchStepUps ==
  \A u \in Users :
    Cardinality({t \in 1 .. MaxStepUps : <<u, t>> \in spent})
      = Cardinality({p \in Proposals : vote[p][u] # "NONE"})

\* Policy versions have no gap and no duplicate: as many as policy changes
\* were executed, concurrent ones included (writePolicyVersion).
PolicyVersionsDense ==
  policyVersion = Cardinality({p \in Proposals :
                    status[p] = "EXECUTED" /\ payload[p].action = "CHANGE_ABAC_POLICY"})

\* An executed or halted proposal stays so and its votes stay as they were: a
\* late vote, objection or second execution finds the row lock or the status.
DecisionsFinal ==
  [][\A p \in Proposals : status[p] \in {"OBJECTED", "EXECUTED"} =>
       status'[p] = status[p] /\ vote'[p] = vote[p]]_vars

\* Outside the ceremonies, power moves only in the step that executes a
\* pending proposal, and only in the pool that proposal affects.
PowerMovesByDecree ==
  [][<<pools, policyVersion>>' # <<pools, policyVersion>> =>
       \/ ceremonies' # ceremonies
       \/ \E p \in Proposals :
            /\ status[p] = "PENDING" /\ status'[p] = "EXECUTED"
            /\ \A x \in PoolIds \ Affected(payload[p]) :
                 threshold'[x] = threshold[x] /\ members'[x] = members[x]]_vars

\* Governance implements QuorumDecision: bookkeeping, the two-step execution
\* and its rollbacks are invisible there.
Decision == INSTANCE QuorumDecision WITH
  People <- Users, Questions <- Proposals,
  Quorums <- {S \in SUBSET Users : Cardinality(S) >= MinK},
  stage <- status,
  voters <- [p \in Proposals |-> {u \in Users : vote[p][u] # "NONE"}],
  powers <- <<pools, policyVersion>>,
  record <- auditRows

ImplementsQuorumDecision == Decision!Spec

\* The stored m follows the roster: an execution whose snapshot still holds when it
\* commits, whatever was decided and suspended since the votes, leaves m the number
\* of members wherever it was.  What two executions that overlap do is
\* PoolGovernable's part, and a repeated address Regenesis's.
Counted(m, roster) == m = Cardinality(roster)
RosterKept ==
  [][\A e \in Executors :
       CommitExecute(e) /\ exec[e] = Snapshot(exec[e].prop) =>
         \A x \in PoolIds : Counted(threshold[x].m, members[x])
                             => Counted(threshold'[x].m, members'[x])]_vars

\* The guard on m keeps every pool governable: its members can reach its k
\* (proposals.service.js, "Roster edits keep the stored k and guard m so a pool
\* can never be driven ungovernable").
PoolGovernable == \A x \in PoolIds : Exists(x) => threshold[x].k <= Cardinality(members[x])
=============================================================================
