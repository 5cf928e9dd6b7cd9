------------------------------- MODULE Access -------------------------------
(***************************************************************************)
(* Who may do what with one document and its case: authorize() as the      *)
(* sequence of reads it is, in one server process, with the policy cache   *)
(* of that process, the grants that reach over a jurisdiction, and the     *)
(* operations on the case and the document that authorize() guards.        *)
(*                                                                         *)
(* Each await is a step of its own: users, officers, grants, seals and the *)
(* policy table may change between two reads of one decision.  "seen" is   *)
(* what each request could have read since it began, kept for the          *)
(* properties only.  Passwords, tokens and sessions are Sessions's part,   *)
(* how a policy is decreed Governance's, how a seal is made                *)
(* DocumentCustody's.                                                      *)
(***************************************************************************)
EXTENDS Naturals, Sequences, FiniteSets, TLC

CONSTANTS
    Users,          \* users, each with one request in flight at most
    Rows,           \* users rows: role, clearance, in the case's jurisdiction, active
    Asked,          \* the operations requested
    Overrides,      \* policy documents that governance may put into force
    None,           \* nobody, no request, no grant, no load
    RequestBudget,  \* requests
    EventBudget     \* changed users, new policies, loads that fail, lapsed caches and grants

Levels == {"RESTRICTED", "SECRET"}
Roles == {"INVESTIGATING_OFFICER", "SUPERVISOR", "FORENSIC_ANALYST", "ORG_ADMIN", "SYSTEM_ADMIN"}

\* None is neither a user nor a load of the policy.
ASSUME AccessConstants ==
    /\ None \notin Users \cup [read : Nat \cup {None}]
    /\ Rows \subseteq [role : Roles, level : Levels, here : BOOLEAN, active : BOOLEAN]
    /\ RequestBudget \in Nat /\ EventBudget \in Nat

VARIABLES
    users,          \* the users rows
    token,          \* the role each user's access token was signed with
    case,           \* the case: its classification, its creator, its officers
    sealed,         \* the document's seal
    grants,         \* document_access_grants, by grantee
    table,          \* abac_policies, oldest version first
    cache,          \* the process's policy cache
    decree,         \* an execution here that has yet to refresh the cache
    req,            \* the request of each user
    seen,           \* what was true at some moment of that request
    left            \* what is left of the budgets

rows == <<users, token, case, sealed, grants>>
policyVars == <<table, cache, decree>>
vars == <<rows, policyVars, req, seen, left>>

-----------------------------------------------------------------------------
(* The policy.                                                             *)

DefaultPolicy ==
    [rank |-> [RESTRICTED |-> 1, SECRET |-> 3],
     elevated |-> {"SUPERVISOR", "ORG_ADMIN", "SYSTEM_ADMIN"},
     cross |-> {"SYSTEM_ADMIN"},
     aliases |->
        "document:read" :> {"document:read", "document:manage"}
        @@ "document:download" :> {"document:download", "document:read", "document:manage"}
        @@ "document:seal" :> {"document:seal", "document:manage"}
        @@ "document:share" :> {"document:share", "document:manage"}
        @@ "case:read" :> {"case:read", "case:manage"}
        @@ "case:update" :> {"case:update", "case:manage"}
        @@ "case:manage" :> {"case:manage"},
     may |->
        [INVESTIGATING_OFFICER |-> {"case:read", "document:read", "document:share"},
         SUPERVISOR |-> {"case:read", "case:manage", "document:read", "document:share"},
         FORENSIC_ANALYST |-> {"document:read", "document:share"},
         ORG_ADMIN |-> {"case:manage", "document:manage"},
         SYSTEM_ADMIN |-> {"*"}]]

\* Objects merge key by key, lists are replaced.
MergePolicy(base, override) ==
    LET given(key, default) == IF key \in DOMAIN override THEN override[key] ELSE default
    IN  [rank |-> given("rank", << >>) @@ base.rank,
         elevated |-> given("elevated", base.elevated),
         cross |-> given("cross", base.cross),
         aliases |-> given("aliases", << >>) @@ base.aliases,
         may |-> given("may", << >>) @@ base.may]

\* Version 0 is the policy before any decree.
PolicyOf(version) ==
    IF version = 0 THEN DefaultPolicy ELSE MergePolicy(DefaultPolicy, table[version])

HasPermission(role, action, perms, aliases) ==
    "*" \in perms[role] \/ perms[role] \cap aliases[action] # {}

-----------------------------------------------------------------------------
(* The operations: the action each asks for, and on what.                  *)

Op(action, on) == [action |-> action, on |-> on]

Ops ==
    [read |-> Op("document:read", "document"), download |-> Op("document:download", "document"),
     seal |-> Op("document:seal", "document"), grant |-> Op("document:share", "nothing"),
     revoke |-> Op("document:share", "nothing"), readCase |-> Op("case:read", "case"),
     updateCase |-> Op("case:update", "case"), assign |-> Op("case:manage", "case"),
     remove |-> Op("case:manage", "case")]

\* The actions a grant can satisfy, whatever the policy says.
GrantEligibleActions == {"document:read", "document:download"}
GrantEligible(op) == Ops[op].on = "document" /\ Ops[op].action \in GrantEligibleActions

OrgTierRoles == {"ORG_ADMIN", "SYSTEM_ADMIN"}

\* requireAuth: the claims of the token, role included, stay with the request.
Request(u, op, target) ==
    [op |-> op, target |-> target, role |-> token[u], pc |-> "policy", next |-> "user", policy |-> 0,
     row |-> None, level |-> None]

Working(u, pc) == req[u] # None /\ req[u].pc = pc
Put(u, r) == req' = [req EXCEPT ![u] = r]
Goto(u, pc) == Put(u, [req[u] EXCEPT !.pc = pc])
Refuse(u) == Put(u, None)

\* authorize() returns: what it read is forgotten, and the service begins.
Pass(u) == Put(u, [req[u] EXCEPT !.pc = "service", !.policy = 0, !.row = None])

Spend(budget) == left[budget] > 0 /\ left' = [left EXCEPT ![budget] = @ - 1]

Send(u) ==
    /\ req[u] = None /\ Spend("request")
    /\ \E op \in Asked, target \in Users \cup {None} :
          /\ (target # None) <=> op \in {"grant", "revoke", "assign", "remove"}
          /\ Put(u, Request(u, op, target))
    /\ UNCHANGED <<rows, policyVars>>

-----------------------------------------------------------------------------
(* The policy cache.                                                       *)

NewLoad == [read |-> None]
Latest == Len(table)

\* A cache older than its TTL is loaded again; whoever asks meanwhile awaits the
\* same load.
GetActivePolicy(u) ==
    /\ Working(u, "policy")
    /\ IF cache.fresh
       THEN /\ Put(u, [req[u] EXCEPT !.pc = req[u].next, !.policy = cache.version])
            /\ UNCHANGED cache
       ELSE /\ Goto(u, "awaiting")
            /\ cache' = [cache EXCEPT !.load = IF @ = None THEN NewLoad ELSE @]
    /\ UNCHANGED <<rows, table, decree, left>>

LoadRead ==
    /\ cache.load # None /\ cache.load.read = None
    /\ cache' = [cache EXCEPT !.load.read = Latest]
    /\ UNCHANGED <<rows, table, decree, req, left>>

\* Everyone who awaits the load goes on with what is cached then.
ResumeRequests(version) ==
    req' = [u \in Users |->
              IF ~Working(u, "awaiting") THEN req[u]
              ELSE [req[u] EXCEPT !.pc = req[u].next, !.policy = version]]
ResumeOnlyRequests(version) == ResumeRequests(version) /\ UNCHANGED decree
Resume(version) ==
    /\ ResumeRequests(version)
    /\ decree' = IF decree # None /\ decree.pc = "awaiting" THEN None ELSE decree

LoadDone ==
    /\ cache.load # None /\ cache.load.read # None
    /\ cache' = [version |-> cache.load.read, fresh |-> TRUE, load |-> None]
    /\ Resume(cache.load.read)
    /\ UNCHANGED <<rows, table, left>>

LoadFails ==
    /\ cache.load # None /\ Spend("event")
    /\ cache' = [cache EXCEPT !.load = None]
    /\ Resume(cache.version)
    /\ UNCHANGED <<rows, table>>

TtlElapses ==
    /\ cache.fresh /\ Spend("event")
    /\ cache' = [cache EXCEPT !.fresh = FALSE]
    /\ UNCHANGED <<rows, table, decree, req>>

\* A decree commits its policy version, in this process or in another one.
WritePolicyVersion ==
    /\ Spend("event") /\ \E override \in Overrides : table' = Append(table, override)
    /\ \/ UNCHANGED decree
       \/ decree = None /\ decree' = [version |-> Len(table'), pc |-> "committed", joined |-> FALSE]
    /\ UNCHANGED <<rows, cache, req>>

InvalidateWithinTtl ==
    /\ decree # None /\ decree.pc = "committed" /\ decree' = None
    /\ UNCHANGED <<rows, table, cache, req, left>>
InvalidatePolicyCache ==
    /\ decree # None /\ decree.pc = "committed"
    /\ decree' = [decree EXCEPT !.pc = "awaiting", !.joined = cache.load # None]
    /\ cache' = [cache EXCEPT !.fresh = FALSE, !.load = IF @ = None THEN NewLoad ELSE @]
    /\ UNCHANGED <<rows, table, req, left>>

-----------------------------------------------------------------------------
(* authorize(): the reads after the policy.                                *)

Cleared(row, level, policy) == policy.rank[row.level] >= policy.rank[level]

\* The role is the row's, whatever the token says.
RoleOfToken(u) == token[u]
RoleOf(u) == users[u].role
FindUser(u) ==
    /\ Working(u, "user")
    /\ LET op == Ops[req[u].op]
           row == [users[u] EXCEPT !.role = RoleOf(u)]
       IN  IF ~row.active \/ ~HasPermission(row.role, op.action, PolicyOf(cache.version).may,
                                            PolicyOf(req[u].policy).aliases)
           THEN Refuse(u)
           ELSE IF op.on = "nothing" THEN Pass(u)
           ELSE Put(u, [req[u] EXCEPT !.pc = "case", !.row = row])
    /\ UNCHANGED <<rows, policyVars, left>>

\* Where canAccessCase goes when the case itself does not give access.
LastResort(u) == IF GrantEligible(req[u].op) THEN Goto(u, "grant") ELSE Refuse(u)

ResolveCase(u) ==
    /\ Working(u, "case")
    /\ LET row == req[u].row
           policy == PolicyOf(req[u].policy)
       IN  IF ~Cleared(row, case.level, policy) THEN Refuse(u)
           ELSE IF row.role \in policy.cross THEN Pass(u)
           ELSE IF ~row.here THEN LastResort(u)
           ELSE IF row.role \in policy.elevated \/ case.creator = u THEN Pass(u)
           ELSE Goto(u, "officers")
    /\ UNCHANGED <<rows, policyVars, left>>

ListOfficers(u) ==
    /\ Working(u, "officers")
    /\ IF u \in case.officers THEN Pass(u) ELSE LastResort(u)
    /\ UNCHANGED <<rows, policyVars, left>>

Live(grant) == grant # None /\ grant.status = "live"
HasActiveAccessGrant(u) ==
    /\ Working(u, "grant")
    /\ IF Live(grants[u]) THEN Pass(u) ELSE Refuse(u)
    /\ UNCHANGED <<rows, policyVars, left>>

-----------------------------------------------------------------------------
(* The services.                                                           *)

Serving(u, op) == Working(u, "service") /\ req[u].op = op

Answer(u) ==
    /\ \E op \in {"read", "download", "readCase"} : Serving(u, op)
    /\ Put(u, None)
    /\ UNCHANGED <<rows, policyVars, left>>

SealDocument(u) ==
    /\ Serving(u, "seal") /\ sealed' = TRUE
    /\ Put(u, None)
    /\ UNCHANGED <<users, token, case, grants, policyVars, left>>

UpdateCase(u) ==
    /\ Serving(u, "updateCase")
    /\ \E level \in Levels : case' = [case EXCEPT !.level = level]
    /\ Put(u, None)
    /\ UNCHANGED <<users, token, sealed, grants, policyVars, left>>

FindOfficer(u) ==
    /\ Serving(u, "assign")
    /\ IF users[req[u].target].active THEN Goto(u, "commit") ELSE Refuse(u)
    /\ UNCHANGED <<rows, policyVars, left>>

AssignOfficer(u) ==
    /\ Working(u, "commit") /\ req[u].op = "assign"
    /\ case' = [case EXCEPT !.officers = @ \cup {req[u].target}]
    /\ Put(u, None)
    /\ UNCHANGED <<users, token, sealed, grants, policyVars, left>>

RemoveOfficer(u) ==
    /\ Serving(u, "remove") /\ case' = [case EXCEPT !.officers = @ \ {req[u].target}]
    /\ Put(u, None)
    /\ UNCHANGED <<users, token, sealed, grants, policyVars, left>>

\* grantAccess reads the document and its case, then the grantee, then the policy,
\* then the officers, and then writes; the seal is asked at the first of these only.
FrozenNever == FALSE
Frozen == sealed
GrantAccess(u) ==
    /\ Serving(u, "grant")
    /\ IF Frozen \/ req[u].target = u THEN Refuse(u)
       ELSE Put(u, [req[u] EXCEPT !.pc = "grantee", !.level = case.level])
    /\ UNCHANGED <<rows, policyVars, left>>

FindGrantee(u) ==
    /\ Working(u, "grantee")
    /\ LET row == users[req[u].target]
       IN  IF row.active
           THEN Put(u, [req[u] EXCEPT !.pc = "policy", !.next = "scope", !.row = row])
           ELSE Refuse(u)
    /\ UNCHANGED <<rows, policyVars, left>>

\* The sharer's role is the token's, and the sharer's jurisdiction is not asked.
HasStandingCaseAccess(u, policy) ==
    req[u].role \in policy.elevated \/ case.creator = u \/ u \in case.officers

GrantScope(u) ==
    /\ Working(u, "scope") /\ req[u].op = "grant"
    /\ LET policy == PolicyOf(req[u].policy)
           row == req[u].row
       IN  IF /\ Cleared(row, req[u].level, policy)
              /\ IF row.here THEN HasStandingCaseAccess(u, policy) ELSE req[u].role \in OrgTierRoles
           THEN Goto(u, "commit") ELSE Refuse(u)
    /\ UNCHANGED <<rows, policyVars, left>>

\* A grant to the same person replaces the one before, revoked or not.
UpsertAccessGrant(u) ==
    /\ Working(u, "commit") /\ req[u].op = "grant"
    /\ grants' = [grants EXCEPT ![req[u].target] =
                     [by |-> u, cross |-> ~req[u].row.here, status |-> "live"]]
    /\ Put(u, None)
    /\ UNCHANGED <<users, token, case, sealed, policyVars, left>>

\* revokeAccess: the granter, or whoever could grant.
RevokeAccess(u) ==
    /\ Serving(u, "revoke")
    /\ LET grant == grants[req[u].target]
       IN  IF grant = None \/ grant.status = "revoked" THEN Refuse(u)
           ELSE IF grant.by = u \/ (grant.cross /\ req[u].role \in OrgTierRoles) THEN Goto(u, "commit")
           ELSE IF grant.cross THEN Refuse(u)
           ELSE Put(u, [req[u] EXCEPT !.pc = "policy", !.next = "scope"])
    /\ UNCHANGED <<rows, policyVars, left>>

RevokeScope(u) ==
    /\ Working(u, "scope") /\ req[u].op = "revoke"
    /\ IF HasStandingCaseAccess(u, PolicyOf(req[u].policy)) THEN Goto(u, "commit") ELSE Refuse(u)
    /\ UNCHANGED <<rows, policyVars, left>>

RevokeAccessGrant(u) ==
    /\ Working(u, "commit") /\ req[u].op = "revoke"
    /\ grants' = [grants EXCEPT ![req[u].target].status = "revoked"]
    /\ Put(u, None)
    /\ UNCHANGED <<users, token, case, sealed, policyVars, left>>

-----------------------------------------------------------------------------
(* What changes beside the requests.                                       *)

ChangeUser(u) ==
    /\ Spend("event")
    /\ \E row \in Rows \ {users[u]} : users' = [users EXCEPT ![u] = row]
    /\ UNCHANGED <<token, case, sealed, grants, policyVars, req>>

\* A refresh signs an access token with the role of the row.
SignAccessToken(u) ==
    /\ users[u].active /\ token' = [token EXCEPT ![u] = users[u].role]
    /\ UNCHANGED <<users, case, sealed, grants, policyVars, req, left>>

ExpireGrant(u) ==
    /\ Live(grants[u]) /\ Spend("event")
    /\ grants' = [grants EXCEPT ![u].status = "expired"]
    /\ UNCHANGED <<users, token, case, sealed, policyVars, req>>

-----------------------------------------------------------------------------
(* What a request could have read: every row, classification and cached    *)
(* policy there was since it began, and what held at some moment.          *)

Nothing == [rows |-> {}, targets |-> {}, levels |-> {}, policies |-> {},
            officer |-> FALSE, live |-> FALSE, open |-> FALSE]

\* What the state after this step adds to what u's request could have read.
Noted(s, u, target) ==
    [rows |-> s.rows \cup {users'[u]},
     targets |-> IF target = None THEN {} ELSE s.targets \cup {users'[target]},
     levels |-> s.levels \cup {case'.level},
     policies |-> s.policies \cup {cache'.version},
     officer |-> s.officer \/ u \in case'.officers,
     live |-> s.live \/ Live(grants'[u]),
     open |-> s.open \/ ~sealed']

Watch ==
    seen' = [u \in Users |->
               IF req'[u] = None THEN Nothing
               ELSE Noted(IF req[u] = None THEN Nothing ELSE seen[u], u, req'[u].target)]

Init ==
    /\ users \in [Users -> {row \in Rows : row.active}]
    /\ token = [u \in Users |-> users[u].role]
    /\ \E creator \in Users \cup {None}, officers \in SUBSET Users :
          /\ Cardinality(officers) = IF creator = None THEN 1 ELSE 0
          /\ case = [level |-> "RESTRICTED", creator |-> creator, officers |-> officers]
    /\ sealed = FALSE
    /\ grants = [u \in Users |-> None]
    /\ table = << >>
    /\ cache = [version |-> 0, fresh |-> FALSE, load |-> None]
    /\ decree = None
    /\ req = [u \in Users |-> None]
    /\ seen = [u \in Users |-> Nothing]
    /\ left = [request |-> RequestBudget, event |-> EventBudget]

Authorize(u) ==
    GetActivePolicy(u) \/ FindUser(u) \/ ResolveCase(u) \/ ListOfficers(u) \/ HasActiveAccessGrant(u)

Serve(u) ==
    \/ Answer(u) \/ SealDocument(u) \/ UpdateCase(u)
    \/ FindOfficer(u) \/ AssignOfficer(u) \/ RemoveOfficer(u)
    \/ GrantAccess(u) \/ FindGrantee(u) \/ GrantScope(u) \/ UpsertAccessGrant(u)
    \/ RevokeAccess(u) \/ RevokeScope(u) \/ RevokeAccessGrant(u)

Step ==
    \/ \E u \in Users :
          Send(u) \/ Authorize(u) \/ Serve(u) \/ ChangeUser(u) \/ SignAccessToken(u) \/ ExpireGrant(u)
    \/ LoadRead \/ LoadDone \/ LoadFails \/ TtlElapses
    \/ WritePolicyVersion \/ InvalidatePolicyCache

Next == Step /\ Watch

Spec == Init /\ [][Next]_vars
-----------------------------------------------------------------------------
(* Properties.                                                             *)

\* Every variable holds a value of its kind: officers are users, a grant has a
\* granter, a cached version has been read from the table, and whoever awaits a
\* load has one to await.
TypeOK ==
    /\ users \in [Users -> Rows] /\ token \in [Users -> Roles]
    /\ case.level \in Levels /\ case.creator \in Users \cup {None} /\ case.officers \subseteq Users
    /\ sealed \in BOOLEAN
    /\ \A u \in Users : grants[u] # None =>
          /\ grants[u].by \in Users \ {u} /\ grants[u].cross \in BOOLEAN
          /\ grants[u].status \in {"live", "expired", "revoked"}
    /\ cache.version \in 0 .. Len(table) /\ cache.fresh \in BOOLEAN
    /\ cache.load # None => cache.load.read \in {None} \cup (0 .. Len(table))
    /\ \A u \in Users : Working(u, "awaiting") => cache.load # None
    /\ (decree # None /\ decree.pc = "awaiting") => cache.load # None

\* What canAccessCase accepts, of facts that each held at some moment of u's request.
MayReach(u, row, level, policy) ==
    /\ Cleared(row, level, policy)
    /\ \/ row.role \in policy.cross
       \/ row.here /\ (row.role \in policy.elevated \/ case.creator = u \/ seen[u].officer)
       \/ GrantEligible(req[u].op) /\ seen[u].live

\* authorize.js:4-6: "re-loaded from the DB on each call so a deactivated account or
\* changed clearance takes effect immediately".  A service runs only for a request
\* that its user's row, the case's classification, the officers, the grants and the
\* cached policy permitted, each as it stood at some moment of this very request: no
\* decision rests on what ceased to hold before the request began, whatever changes
\* between the reads.  The permissions come from the cache as it is when the user has
\* been read, everything else from the policy that was awaited first.
DecisionsAreCurrent ==
    \A u \in Users : Working(u, "service") =>
       \E row \in seen[u].rows, level \in seen[u].levels, v, w \in seen[u].policies :
          LET op == Ops[req[u].op] IN
          /\ row.active
          /\ HasPermission(row.role, op.action, PolicyOf(w).may, PolicyOf(v).aliases)
          /\ op.on = "nothing" \/ MayReach(u, row, level, PolicyOf(v))

\* documents.service.js:622-628: a grant is written only for an active person whose
\* clearance reached the case's classification, for somebody else's document access
\* than the granter's own, while the document was not sealed, and over a
\* jurisdiction only by an org-tier role, within it only by someone with standing
\* in the case: each true at some moment of the request that wrote it.
GrantsWereDue ==
    [][\A u \in Users : UpsertAccessGrant(u) =>
          /\ seen[u].open /\ req[u].target # u
          /\ \E row \in seen[u].targets, level \in seen[u].levels, v \in seen[u].policies :
                /\ row.active /\ Cleared(row, level, PolicyOf(v))
                /\ IF row.here
                   THEN req[u].role \in PolicyOf(v).elevated \/ case.creator = u \/ seen[u].officer
                   ELSE req[u].role \in OrgTierRoles]_vars

\* abacPolicy.js:170-171: "so the new version is visible without waiting out the
\* TTL".  The cached policy never goes back to an older version, and an execution
\* that refreshed the cache with a load of its own finds at least its own version
\* there, unless the load failed.
PolicyMovesForward ==
    [][/\ cache'.version >= cache.version
       /\ (decree # None /\ decree' = None /\ ~decree.joined /\ cache'.fresh)
             => cache'.version >= decree.version]_vars
=============================================================================
