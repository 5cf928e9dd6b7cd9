---------------------------- MODULE AccessProofs ----------------------------
(***************************************************************************)
(* Access for any users, rows, policies and budgets: the policy cache      *)
(* never goes back, each decision and each grant rests on facts of the     *)
(* request's own time, and every variable keeps its type.                  *)
(***************************************************************************)
EXTENDS Access, TLAPS

(***************************************************************************)
(* The policy cache: a load in flight has read nothing older than what is  *)
(* cached, and nothing older than the decree that started it.              *)
(***************************************************************************)
Loaded == cache.load # None /\ cache.load.read # None

PolicyInv ==
  /\ table \in Seq(Overrides)
  /\ DOMAIN cache = {"version", "fresh", "load"}
  /\ cache.version \in 0 .. Len(table) /\ cache.fresh \in BOOLEAN
  /\ cache.load # None => DOMAIN cache.load = {"read"} /\ ~cache.fresh
  /\ Loaded => cache.load.read \in cache.version .. Len(table)
  /\ decree # None =>
       /\ DOMAIN decree = {"version", "pc", "joined"}
       /\ decree.version \in 0 .. Len(table)
       /\ (Loaded /\ decree.pc = "awaiting" /\ ~decree.joined) => decree.version <= cache.load.read

\* What a step may do to the cache, the property without its box.
Forward ==
  /\ cache'.version >= cache.version
  /\ (decree # None /\ decree' = None /\ ~decree.joined /\ cache'.fresh)
        => cache'.version >= decree.version

Extends(t1, t2) == Len(t1) <= Len(t2) /\ \A v \in 1 .. Len(t1) : t2[v] = t1[v]

PolicyKept == PolicyInv' /\ Forward /\ Extends(table, table')

LEMMA PolicyUnchanged == ASSUME PolicyInv, UNCHANGED policyVars PROVE PolicyKept
BY DEF PolicyKept, PolicyInv, Loaded, Forward, Extends, policyVars

LEMMA PolicySteps ==
  ASSUME PolicyInv,
         \/ \E u \in Users : GetActivePolicy(u)
         \/ LoadRead \/ LoadDone \/ LoadFails \/ TtlElapses \/ WritePolicyVersion \/ InvalidatePolicyCache
  PROVE  PolicyKept
<1> USE DEF PolicyKept, PolicyInv, Loaded, Forward, Extends
<1>0. Len(table) \in Nat
  OBVIOUS
<1>1. ASSUME NEW u \in Users, GetActivePolicy(u) PROVE PolicyKept
  <2>1. UNCHANGED <<table, decree>>
    BY <1>1 DEF GetActivePolicy
  <2>2. CASE cache.fresh
    <3>1. UNCHANGED cache
      BY <1>1, <2>2 DEF GetActivePolicy
    <3> QED
      BY <2>1, <3>1, PolicyUnchanged DEF policyVars
  <2>3. CASE ~cache.fresh
    <3>1. cache' = [cache EXCEPT !.load = IF @ = None THEN NewLoad ELSE @]
      BY <1>1, <2>3 DEF GetActivePolicy
    <3>2. /\ DOMAIN cache' = DOMAIN cache /\ cache'.version = cache.version
          /\ cache'.fresh = cache.fresh
          /\ cache'.load = IF cache.load = None THEN [read |-> None] ELSE cache.load
      BY <3>1 DEF NewLoad
    <3>3. Loaded' => Loaded /\ cache'.load = cache.load
      BY <3>2
    <3> QED
      BY <1>0, <2>1, <2>3, <3>2, <3>3
  <2> QED
    BY <2>2, <2>3
<1>2. CASE LoadRead
  <2>1. /\ UNCHANGED <<table, decree>> /\ cache.load # None /\ cache.load.read = None
        /\ cache' = [cache EXCEPT !.load.read = Len(table)]
    BY <1>2 DEF LoadRead, Latest
  <2>2. /\ DOMAIN cache' = DOMAIN cache /\ cache'.version = cache.version
        /\ cache'.fresh = cache.fresh /\ cache'.load = [cache.load EXCEPT !.read = Len(table)]
    BY <2>1
  <2>3. DOMAIN cache'.load = {"read"} /\ cache'.load.read = Len(table)
    BY <2>1, <2>2
  <2> QED
    BY <1>0, <2>1, <2>2, <2>3
<1>3. CASE LoadDone
  <2>1. /\ UNCHANGED table /\ Loaded
        /\ cache' = [version |-> cache.load.read, fresh |-> TRUE, load |-> None]
        /\ decree' = IF decree # None /\ decree.pc = "awaiting" THEN None ELSE decree
    BY <1>3 DEF LoadDone, Resume
  <2> QED
    BY <1>0, <2>1
<1>4. CASE LoadFails
  <2>1. /\ UNCHANGED table /\ cache.load # None
        /\ cache' = [cache EXCEPT !.load = None]
        /\ decree' = IF decree # None /\ decree.pc = "awaiting" THEN None ELSE decree
    BY <1>4 DEF LoadFails, Resume
  <2>2. /\ DOMAIN cache' = DOMAIN cache /\ cache'.version = cache.version
        /\ cache'.fresh = FALSE /\ cache'.load = None
    BY <2>1
  <2> QED
    BY <1>0, <2>1, <2>2
<1>5. CASE TtlElapses
  <2>1. /\ UNCHANGED <<table, decree>> /\ cache.fresh /\ cache' = [cache EXCEPT !.fresh = FALSE]
    BY <1>5 DEF TtlElapses
  <2>2. /\ DOMAIN cache' = DOMAIN cache /\ cache'.version = cache.version
        /\ cache'.fresh = FALSE /\ cache'.load = cache.load
    BY <2>1
  <2> QED
    BY <1>0, <2>1, <2>2
<1>6. CASE WritePolicyVersion
  <2>1. PICK override \in Overrides : table' = Append(table, override)
    BY <1>6 DEF WritePolicyVersion
  <2>2. /\ UNCHANGED cache
        /\ UNCHANGED decree \/ (decree = None /\ decree' = [version |-> Len(table'), pc |-> "committed", joined |-> FALSE])
    BY <1>6 DEF WritePolicyVersion
  <2>3. /\ table' \in Seq(Overrides) /\ Len(table') = Len(table) + 1
        /\ \A v \in 1 .. Len(table) : table'[v] = table[v]
    BY <2>1
  <2> QED
    BY <1>0, <2>2, <2>3
<1>7. CASE InvalidatePolicyCache
  <2>1. /\ UNCHANGED table /\ decree # None /\ decree.pc = "committed"
        /\ decree' = [decree EXCEPT !.pc = "awaiting", !.joined = cache.load # None]
        /\ cache' = [cache EXCEPT !.fresh = FALSE, !.load = IF @ = None THEN NewLoad ELSE @]
    BY <1>7 DEF InvalidatePolicyCache
  <2>2. /\ DOMAIN cache' = DOMAIN cache /\ cache'.version = cache.version /\ cache'.fresh = FALSE
        /\ cache'.load = IF cache.load = None THEN [read |-> None] ELSE cache.load
    BY <2>1 DEF NewLoad
  <2>3. /\ DOMAIN decree' = DOMAIN decree /\ decree'.version = decree.version
        /\ cache.load # None => decree'.joined
    BY <2>1
  <2> QED
    BY <1>0, <2>1, <2>2, <2>3
<1> QED
  BY <1>1, <1>2, <1>3, <1>4, <1>5, <1>6, <1>7

-----------------------------------------------------------------------------
(***************************************************************************)
(* Who may do what.  What a request has read is described by operators of  *)
(* its arguments only: u's request r, what it could have read, s, and the  *)
(* table and the creator of the case.                                      *)
(***************************************************************************)
AsOf(tbl, v) == IF v = 0 THEN DefaultPolicy ELSE MergePolicy(DefaultPolicy, tbl[v])

LEMMA PolicyIsAsOf == \A v : PolicyOf(v) = AsOf(table, v)
BY DEF PolicyOf, AsOf

Permits(role, op, v, s, tbl) ==
  \E w \in s.policies :
    HasPermission(role, Ops[op].action, AsOf(tbl, w).may, AsOf(tbl, v).aliases)

Reaches(u, op, row, v, s, tbl, creator) ==
  \/ row.role \in AsOf(tbl, v).cross
  \/ row.here /\ (row.role \in AsOf(tbl, v).elevated \/ creator = u \/ s.officer)
  \/ GrantEligible(op) /\ s.live

\* A decision rests on facts of the request's own time.
Settled(u, op, s, tbl, creator) ==
  \E row \in s.rows, level \in s.levels, v \in s.policies :
    /\ row.active /\ Permits(row.role, op, v, s, tbl)
    /\ \/ Ops[op].on = "nothing"
       \/ Cleared(row, level, AsOf(tbl, v)) /\ Reaches(u, op, row, v, s, tbl, creator)

\* So does a grant that is about to be written.
Due(u, r, s, tbl, creator) ==
  \E row \in s.targets, level \in s.levels, v \in s.policies :
    /\ row.active /\ Cleared(row, level, AsOf(tbl, v))
    /\ IF row.here THEN r.role \in AsOf(tbl, v).elevated \/ creator = u \/ s.officer
                   ELSE r.role \in OrgTierRoles

\* authorize() has read the user's row, which permits the operation.
UserRead(r, s, tbl) ==
  r.row \in s.rows /\ r.row.active /\ Permits(r.row.role, r.op, r.policy, s, tbl)

\* How far authorize() has come.
Authorizing(u, r, s, tbl, creator) ==
  /\ r.next \in {"user", "scope"}
  /\ r.pc \in {"user", "scope", "case", "officers", "grant"} => r.policy \in s.policies
  /\ r.pc \in {"case", "officers", "grant"} => UserRead(r, s, tbl)
  /\ r.pc \in {"officers", "grant"} =>
       \E level \in s.levels : Cleared(r.row, level, AsOf(tbl, r.policy))
  /\ r.pc = "officers" => r.row.here
  /\ r.pc = "grant" => GrantEligible(r.op)
  /\ r.pc = "service" => Settled(u, r.op, s, tbl, creator)

\* How far grantAccess has come: past the document, past the grantee, at the write.
PastDocument(r) ==
  r.pc \in {"grantee", "scope", "commit"} \/ (r.pc \in {"policy", "awaiting"} /\ r.next = "scope")

Granting(u, r, s, tbl, creator) ==
  r.op = "grant" =>
    /\ r.target # None
    /\ PastDocument(r) => s.open /\ r.target # u /\ r.level \in s.levels
    /\ PastDocument(r) /\ r.pc # "grantee" => r.row \in s.targets /\ r.row.active
    /\ r.pc = "commit" => Due(u, r, s, tbl, creator)

Honest(u, r, s, tbl, creator) ==
  Authorizing(u, r, s, tbl, creator) /\ Granting(u, r, s, tbl, creator)

\* What a request could have read includes what is there now.
Present(u) ==
  /\ users[u] \in seen[u].rows /\ case.level \in seen[u].levels
  /\ cache.version \in seen[u].policies /\ seen[u].policies \subseteq 0 .. Len(table)
  /\ u \in case.officers => seen[u].officer
  /\ Live(grants[u]) => seen[u].live
  /\ ~sealed => seen[u].open
  /\ req[u].target # None => users[req[u].target] \in seen[u].targets

Fields == {"op", "target", "role", "pc", "next", "policy", "row", "level"}

RequestInv(u) ==
  req[u] # None =>
    /\ DOMAIN req[u] = Fields /\ Present(u)
    /\ Honest(u, req[u], seen[u], table, case.creator)

RowsInv ==
  /\ users \in [Users -> Rows] /\ DOMAIN case = {"level", "creator", "officers"}
  /\ DOMAIN req = Users

IInv == PolicyInv /\ RowsInv /\ \A u \in Users : RequestInv(u)

-----------------------------------------------------------------------------
(***************************************************************************)
(* What a request could have read only grows, and with it what is true of  *)
(* the request; versions of the policy in the table do not change.         *)
(***************************************************************************)
Wider(s, s2, target) ==
  /\ s.rows \subseteq s2.rows /\ s.levels \subseteq s2.levels /\ s.policies \subseteq s2.policies
  /\ s.officer => s2.officer
  /\ s.live => s2.live
  /\ s.open => s2.open
  /\ target # None => s.targets \subseteq s2.targets

LEMMA AsOfStable ==
  ASSUME NEW t1, NEW t2, Extends(t1, t2), NEW v \in 0 .. Len(t1), Len(t1) \in Nat
  PROVE  AsOf(t2, v) = AsOf(t1, v)
<1>1. v = 0 \/ v \in 1 .. Len(t1)
  OBVIOUS
<1> QED
  BY <1>1 DEF AsOf, Extends

LEMMA StaysHonest ==
  ASSUME NEW u, NEW r, NEW s, NEW s2, NEW t1, NEW t2, NEW creator,
         Honest(u, r, s, t1, creator), Wider(s, s2, r.target),
         Extends(t1, t2), Len(t1) \in Nat, s.policies \subseteq 0 .. Len(t1)
  PROVE  Honest(u, r, s2, t2, creator)
<1>1. \A v \in s.policies : AsOf(t2, v) = AsOf(t1, v)
  BY AsOfStable
<1>2. \A role, op : \A v \in s.policies : Permits(role, op, v, s, t1) => Permits(role, op, v, s2, t2)
  BY <1>1 DEF Permits, Wider
<1>3. \A op, row : \A v \in s.policies :
         Reaches(u, op, row, v, s, t1, creator) => Reaches(u, op, row, v, s2, t2, creator)
  BY <1>1 DEF Reaches, Wider
<1>4. \A op : Settled(u, op, s, t1, creator) => Settled(u, op, s2, t2, creator)
  <2> SUFFICES ASSUME NEW op, Settled(u, op, s, t1, creator) PROVE Settled(u, op, s2, t2, creator)
    OBVIOUS
  <2>1. PICK row \in s.rows, level \in s.levels, v \in s.policies :
          /\ row.active /\ Permits(row.role, op, v, s, t1)
          /\ \/ Ops[op].on = "nothing"
             \/ Cleared(row, level, AsOf(t1, v)) /\ Reaches(u, op, row, v, s, t1, creator)
    BY DEF Settled
  <2>2. row \in s2.rows /\ level \in s2.levels /\ v \in s2.policies /\ AsOf(t2, v) = AsOf(t1, v)
    BY <1>1 DEF Wider
  <2> QED
    BY <1>2, <1>3, <2>1, <2>2 DEF Settled
<1>5. Authorizing(u, r, s2, t2, creator)
  <2>1. Authorizing(u, r, s, t1, creator)
    BY DEF Honest
  <2>2. r.pc \in {"case", "officers", "grant"} => UserRead(r, s2, t2)
    BY <1>2, <2>1 DEF Authorizing, UserRead, Wider
  <2>3. r.pc \in {"officers", "grant"} =>
          \E level \in s2.levels : Cleared(r.row, level, AsOf(t2, r.policy))
    BY <1>1, <2>1 DEF Authorizing, Wider
  <2> QED
    BY <1>4, <2>1, <2>2, <2>3 DEF Authorizing, Wider
<1>6. Granting(u, r, s2, t2, creator)
  <2>1. CASE r.op # "grant"
    BY <2>1 DEF Granting
  <2>2. CASE r.op = "grant"
    <3>1. /\ r.target # None
          /\ PastDocument(r) => s.open /\ r.target # u /\ r.level \in s.levels
          /\ PastDocument(r) /\ r.pc # "grantee" => r.row \in s.targets /\ r.row.active
          /\ r.pc = "commit" => Due(u, r, s, t1, creator)
      BY <2>2 DEF Honest, Granting
    <3>2. Due(u, r, s, t1, creator) => Due(u, r, s2, t2, creator)
      BY <1>1, <3>1 DEF Due, Wider
    <3> QED
      BY <3>1, <3>2 DEF Granting, Wider
  <2> QED
    BY <2>1, <2>2
<1> QED
  BY <1>5, <1>6 DEF Honest

(***************************************************************************)
(* What every step notes.                                                  *)
(***************************************************************************)
LEMMA WhatIsNoted ==
  ASSUME PolicyInv, PolicyInv', Extends(table, table'), Watch, NEW u \in Users, req'[u] # None,
         req[u] # None => Present(u)
  PROVE  /\ Present(u)'
         /\ req[u] # None => Wider(seen[u], seen'[u], req'[u].target)
<1> DEFINE s == IF req[u] = None THEN Nothing ELSE seen[u]
<1>1. seen'[u] = Noted(s, u, req'[u].target)
  BY DEF Watch
<1>2. /\ seen'[u].rows = s.rows \cup {users'[u]}
      /\ seen'[u].targets = IF req'[u].target = None THEN {} ELSE s.targets \cup {users'[req'[u].target]}
      /\ seen'[u].levels = s.levels \cup {case'.level}
      /\ seen'[u].policies = s.policies \cup {cache'.version}
      /\ seen'[u].officer = (s.officer \/ u \in case'.officers)
      /\ seen'[u].live = (s.live \/ Live(grants'[u]))
      /\ seen'[u].open = (s.open \/ ~sealed')
  BY <1>1 DEF Noted
<1>3. s.policies \subseteq 0 .. Len(table)
  BY DEF Nothing, Present
<1>4. cache'.version \in 0 .. Len(table') /\ Len(table) <= Len(table')
      /\ Len(table) \in Nat /\ Len(table') \in Nat
  BY DEF PolicyInv, Extends
<1>5. seen'[u].policies \subseteq 0 .. Len(table')
  BY <1>2, <1>3, <1>4
<1>6. Present(u)'
  BY <1>2, <1>5 DEF Present, Live
<1>7. req[u] # None => Wider(seen[u], seen'[u], req'[u].target)
  BY <1>2 DEF Wider
<1> QED
  BY <1>6, <1>7

-----------------------------------------------------------------------------
RowsKept ==
  /\ users' \in [Users -> Rows] /\ DOMAIN case' = DOMAIN case
  /\ case'.creator = case.creator

\* What holds of every step beside what it does to the requests.
Framed == IInv /\ Watch /\ PolicyKept /\ RowsKept

LEMMA Glue ==
  ASSUME Framed, DOMAIN req' = Users,
         \A u \in Users : req'[u] # None =>
            DOMAIN req'[u] = Fields /\ Honest(u, req'[u], seen'[u], table', case'.creator)
  PROVE  IInv'
<1>1. \A u \in Users : req'[u] # None => Present(u)'
  BY WhatIsNoted DEF Framed, IInv, PolicyKept, RequestInv
<1>2. \A u \in Users : RequestInv(u)'
  BY <1>1 DEF RequestInv
<1>3. RowsInv' /\ PolicyInv'
  BY DEF Framed, IInv, RowsInv, RowsKept, PolicyKept
<1> QED
  BY <1>2, <1>3 DEF IInv

\* A request that goes on is as honest as it was, and what is there now has been
\* noted for it.
LEMMA Carried ==
  ASSUME Framed, NEW u \in Users, req[u] # None, req'[u] # None, req'[u].target = req[u].target
  PROVE  /\ DOMAIN req[u] = Fields /\ Present(u)'
         /\ Honest(u, req[u], seen'[u], table', case'.creator)
<1>1. DOMAIN req[u] = Fields /\ Present(u) /\ Honest(u, req[u], seen[u], table, case.creator)
  BY DEF Framed, IInv, RequestInv
<1>2. Present(u)' /\ Wider(seen[u], seen'[u], req[u].target)
  BY <1>1, WhatIsNoted DEF Framed, IInv, PolicyKept
<1>3. Len(table) \in Nat /\ Extends(table, table') /\ case'.creator = case.creator
  BY DEF Framed, IInv, PolicyInv, PolicyKept, RowsKept
<1>4. Honest(u, req[u], seen'[u], table', case.creator)
  BY <1>1, <1>2, <1>3, StaysHonest DEF Present
<1> QED
  BY <1>1, <1>2, <1>3, <1>4

LEMMA OwnStep ==
  ASSUME Framed, NEW u \in Users, NEW x, Put(u, x),
         x # None => DOMAIN x = Fields /\ Honest(u, x, seen'[u], table', case'.creator)
  PROVE  IInv'
<1>1. DOMAIN req = Users
  BY DEF Framed, IInv, RowsInv
<1>2. /\ DOMAIN req' = Users /\ req'[u] = x
      /\ \A w \in Users \ {u} : req'[w] = req[w]
  BY <1>1 DEF Put
<1>3. \A w \in Users \ {u} : req'[w] # None =>
         DOMAIN req'[w] = Fields /\ Honest(w, req'[w], seen'[w], table', case'.creator)
  BY <1>2, Carried
<1> QED
  BY <1>2, <1>3, Glue

LEMMA NoOnesStep == ASSUME Framed, UNCHANGED req PROVE IInv'
<1>1. DOMAIN req' = Users
  BY DEF Framed, IInv, RowsInv
<1>2. \A w \in Users : req'[w] # None =>
         DOMAIN req'[w] = Fields /\ Honest(w, req'[w], seen'[w], table', case'.creator)
  BY Carried
<1> QED
  BY <1>1, <1>2, Glue

-----------------------------------------------------------------------------
(* The requests, step by step.                                             *)

LEMMA SendStep == ASSUME Framed, NEW u \in Users, Send(u) PROVE IInv'
<1>1. PICK op \in Asked, target \in Users \cup {None} :
        /\ (target # None) <=> op \in {"grant", "revoke", "assign", "remove"}
        /\ Put(u, Request(u, op, target))
  BY DEF Send
<1>2. /\ DOMAIN Request(u, op, target) = Fields /\ Request(u, op, target).op = op
      /\ Request(u, op, target).target = target
      /\ Request(u, op, target).pc = "policy" /\ Request(u, op, target).next = "user"
  BY DEF Request, Fields
<1>3. Honest(u, Request(u, op, target), seen'[u], table', case'.creator)
  BY <1>1, <1>2 DEF Honest, Authorizing, Granting, PastDocument
<1> QED
  BY <1>1, <1>2, <1>3, OwnStep

\* Whoever awaits the policy goes on with a version that has been noted.
LEMMA WithPolicy ==
  ASSUME Framed, NEW u \in Users, req[u] # None, req[u].pc \in {"policy", "awaiting"},
         req'[u] # None, req'[u] = [req[u] EXCEPT !.pc = req[u].next, !.policy = cache'.version]
  PROVE  DOMAIN req'[u] = Fields /\ Honest(u, req'[u], seen'[u], table', case'.creator)
<1> DEFINE r == req[u]
           x == [r EXCEPT !.pc = r.next, !.policy = cache'.version]
<1>1. DOMAIN r = Fields
  BY DEF Framed, IInv, RequestInv
<1>2. /\ DOMAIN x = Fields /\ x.op = r.op /\ x.target = r.target /\ x.role = r.role
      /\ x.next = r.next /\ x.row = r.row /\ x.level = r.level
      /\ x.pc = r.next /\ x.policy = cache'.version
  BY <1>1 DEF Fields
<1>3. Present(u)' /\ Honest(u, r, seen'[u], table', case'.creator)
  BY <1>2, Carried
<1>4. Authorizing(u, x, seen'[u], table', case'.creator)
  BY <1>2, <1>3 DEF Honest, Authorizing, Present
<1>5. Granting(u, x, seen'[u], table', case'.creator)
  <2>1. r.next \in {"user", "scope"}
    BY <1>3 DEF Honest, Authorizing
  <2>2. PastDocument(x) => PastDocument(r) /\ r.pc # "grantee"
    BY <1>2, <2>1 DEF PastDocument
  <2> QED
    BY <1>2, <1>3, <2>1, <2>2 DEF Honest, Granting
<1> QED
  BY <1>2, <1>4, <1>5 DEF Honest

LEMMA PolicyStep == ASSUME Framed, NEW u \in Users, GetActivePolicy(u) PROVE IInv'
<1>1. req[u] # None /\ req[u].pc = "policy"
  BY DEF GetActivePolicy, Working
<1>2. CASE cache.fresh
  <2> DEFINE x == [req[u] EXCEPT !.pc = req[u].next, !.policy = cache.version]
  <2>1. Put(u, x) /\ cache'.version = cache.version
    BY <1>2 DEF GetActivePolicy
  <2>2. req'[u] = x
    BY <2>1 DEF Put, Framed, IInv, RowsInv
  <2>3. x # None => DOMAIN x = Fields /\ Honest(u, x, seen'[u], table', case'.creator)
    BY <1>1, <2>1, <2>2, WithPolicy
  <2> QED
    BY <2>1, <2>3, OwnStep
<1>3. CASE ~cache.fresh
  <2> DEFINE r == req[u]
             x == [r EXCEPT !.pc = "awaiting"]
  <2>1. Put(u, x)
    BY <1>3 DEF GetActivePolicy, Goto
  <2>2. DOMAIN r = Fields /\ req'[u] = x
    BY <1>1, <2>1 DEF Put, Framed, IInv, RowsInv, RequestInv
  <2>3. /\ DOMAIN x = Fields /\ x.op = r.op /\ x.target = r.target /\ x.role = r.role
        /\ x.next = r.next /\ x.row = r.row /\ x.level = r.level
        /\ x.pc = "awaiting" /\ x.policy = r.policy
    BY <2>2 DEF Fields
  <2>4. SUFFICES ASSUME x # None PROVE Honest(u, x, seen'[u], table', case'.creator)
    BY <2>1, <2>3, OwnStep
  <2>5. Honest(u, r, seen'[u], table', case'.creator)
    BY <1>1, <2>2, <2>3, <2>4, Carried
  <2>6. PastDocument(x) => PastDocument(r)
    BY <1>1, <2>3 DEF PastDocument
  <2> QED
    BY <1>1, <2>3, <2>5, <2>6 DEF Honest, Authorizing, Granting
<1> QED
  BY <1>2, <1>3

LEMMA LoadStep == ASSUME Framed, LoadDone \/ LoadFails PROVE IInv'
<1>1. ResumeRequests(cache'.version)
  <2>1. CASE LoadDone
    BY <2>1 DEF LoadDone, Resume
  <2>2. CASE LoadFails
    <3>1. cache'.version = cache.version
      BY <2>2 DEF LoadFails, Framed, IInv, PolicyInv
    <3> QED
      BY <2>2, <3>1 DEF LoadFails, Resume
  <2> QED
    BY <2>1, <2>2
<1>2. /\ DOMAIN req' = Users
      /\ \A u \in Users : req'[u] = IF ~Working(u, "awaiting") THEN req[u]
                                    ELSE [req[u] EXCEPT !.pc = req[u].next, !.policy = cache'.version]
  BY <1>1 DEF ResumeRequests
<1>3. ASSUME NEW u \in Users, req'[u] # None
      PROVE  DOMAIN req'[u] = Fields /\ Honest(u, req'[u], seen'[u], table', case'.creator)
  <2>1. CASE ~Working(u, "awaiting")
    BY <1>2, <1>3, <2>1, Carried
  <2>2. CASE Working(u, "awaiting")
    BY <1>2, <1>3, <2>2, WithPolicy DEF Working
  <2> QED
    BY <2>1, <2>2
<1> QED
  BY <1>2, <1>3, Glue

(***************************************************************************)
(* authorize(): what a request u has read so far, r, and what is there now *)
(* make the next answer a settled one.                                     *)
(***************************************************************************)

\* The request as Pass leaves it.
Passed(r) == [r EXCEPT !.pc = "service", !.policy = 0, !.row = None]

LEMMA PassHonest ==
  ASSUME NEW u, NEW r, NEW s, NEW tbl, NEW creator, DOMAIN r = Fields,
         Honest(u, r, s, tbl, creator), Settled(u, r.op, s, tbl, creator)
  PROVE  DOMAIN Passed(r) = Fields /\ Honest(u, Passed(r), s, tbl, creator)
<1>1. /\ DOMAIN Passed(r) = Fields /\ Passed(r).op = r.op /\ Passed(r).target = r.target
      /\ Passed(r).next = r.next /\ Passed(r).pc = "service"
  BY DEF Passed, Fields
<1> QED
  BY <1>1 DEF Honest, Authorizing, Granting, PastDocument

\* The request as Goto leaves it.
Gone(r, pc) == [r EXCEPT !.pc = pc]

LEMMA GoneFields ==
  ASSUME NEW r, NEW pc, DOMAIN r = Fields
  PROVE  /\ DOMAIN Gone(r, pc) = Fields /\ Gone(r, pc).op = r.op /\ Gone(r, pc).target = r.target
         /\ Gone(r, pc).role = r.role /\ Gone(r, pc).next = r.next /\ Gone(r, pc).row = r.row
         /\ Gone(r, pc).level = r.level /\ Gone(r, pc).policy = r.policy /\ Gone(r, pc).pc = pc
BY DEF Gone, Fields

\* requirePermission(): the row is read and the permission decided on it; nothing but
\* the request itself changes.
LEMMA FindUserStep == ASSUME Framed, NEW u \in Users, FindUser(u) PROVE IInv'
<1> DEFINE r == req[u]
           s2 == seen'[u]
           row == users[u]
           c == [r EXCEPT !.pc = "case", !.row = row]
<1>a. /\ r # None /\ r.pc = "user" /\ DOMAIN r = Fields /\ UNCHANGED <<users, case, cache>>
      /\ RoleOf(u) = row.role
  BY DEF FindUser, Working, Framed, IInv, RequestInv, RoleOf, rows, policyVars
<1>b. [users[u] EXCEPT !.role = RoleOf(u)] = row
  <2>1. users[u] \in Rows /\ RoleOf(u) = users[u].role
    BY <1>a DEF Framed, IInv, RowsInv
  <2> QED
    BY <2>1, AccessConstants
<1>1. /\ r # None /\ r.pc = "user" /\ DOMAIN r = Fields /\ UNCHANGED <<users, case, cache>>
      /\ [users[u] EXCEPT !.role = RoleOf(u)] = row
  BY <1>a, <1>b
<1>2. PICK x : Put(u, x) /\
        \/ x = None
        \/ /\ row.active
           /\ HasPermission(row.role, Ops[r.op].action, AsOf(table, cache.version).may,
                            AsOf(table, r.policy).aliases)
           /\ \/ Ops[r.op].on = "nothing" /\ x = Passed(r)
              \/ Ops[r.op].on # "nothing" /\ x = c
  BY <1>1, PolicyIsAsOf DEF FindUser, Refuse, Pass, Passed
<1>3. SUFFICES ASSUME x # None PROVE DOMAIN x = Fields /\ Honest(u, x, s2, table', case'.creator)
  BY <1>2, OwnStep
<1>4. /\ req'[u] = x /\ x.target = r.target
      /\ x = c => /\ DOMAIN x = Fields /\ x.op = r.op /\ x.role = r.role /\ x.next = r.next
                  /\ x.level = r.level /\ x.policy = r.policy /\ x.pc = "case" /\ x.row = row
  BY <1>1, <1>2, <1>3 DEF Put, Passed, Fields, Framed, IInv, RowsInv
<1>5. Present(u)' /\ Honest(u, r, s2, table', case'.creator)
  BY <1>1, <1>3, <1>4, Carried
<1>6. /\ row \in s2.rows /\ case.level \in s2.levels /\ cache.version \in s2.policies
      /\ r.policy \in s2.policies
  BY <1>1, <1>5 DEF Present, Honest, Authorizing
<1>7. row.active /\ Permits(row.role, r.op, r.policy, s2, table')
  <2>1. table' = table
    BY DEF FindUser, policyVars
  <2> QED
    BY <1>2, <1>3, <1>6, <2>1 DEF Permits
<1>8. CASE Ops[r.op].on = "nothing"
  <2>1. Settled(u, r.op, s2, table', case'.creator)
    BY <1>6, <1>7, <1>8 DEF Settled
  <2> QED
    BY <1>1, <1>2, <1>3, <1>5, <1>8, <2>1, PassHonest
<1>9. CASE Ops[r.op].on # "nothing"
  <2>1. x = c
    BY <1>2, <1>3, <1>9
  <2>2. UserRead(x, s2, table')
    BY <1>4, <1>6, <1>7, <2>1 DEF UserRead
  <2>3. Authorizing(u, x, s2, table', case'.creator)
    BY <1>4, <1>5, <1>6, <2>1, <2>2 DEF Authorizing, Honest
  <2>4. Granting(u, x, s2, table', case'.creator)
    BY <1>4, <1>5, <2>1 DEF Granting, Honest, PastDocument
  <2> QED
    BY <1>4, <2>1, <2>3, <2>4 DEF Honest
<1> QED
  BY <1>8, <1>9

(***************************************************************************)
(* The three steps after it end with a settled request, go on to one of    *)
(* their own, or refuse.                                                   *)
(***************************************************************************)
LEMMA CaseStep ==
  ASSUME Framed, NEW u \in Users, ResolveCase(u) \/ ListOfficers(u) \/ HasActiveAccessGrant(u)
  PROVE  IInv'
<1> DEFINE r == req[u]
           s2 == seen'[u]
           p == AsOf(table, r.policy)
<1>1. /\ r # None /\ r.pc \in {"case", "officers", "grant"} /\ DOMAIN r = Fields
      /\ UNCHANGED <<users, case, grants, table>>
  BY DEF ResolveCase, ListOfficers, HasActiveAccessGrant, Working, Framed, IInv, RequestInv,
         rows, policyVars
<1> DEFINE MayPass ==
             \/ /\ r.pc = "case" /\ Cleared(r.row, case.level, p)
                /\ \/ r.row.role \in p.cross
                   \/ r.row.here /\ (r.row.role \in p.elevated \/ case.creator = u)
             \/ r.pc = "officers" /\ u \in case.officers
             \/ r.pc = "grant" /\ Live(grants[u])
           MayAskOfficers == Cleared(r.row, case.level, p) /\ r.row.here
           MayAskGrant == GrantEligible(r.op) /\ (Cleared(r.row, case.level, p) \/ r.pc = "officers")
<1>2. PICK x : Put(u, x) /\
        \/ x = None
        \/ x = Passed(r) /\ MayPass
        \/ x = Gone(r, "officers") /\ MayAskOfficers
        \/ x = Gone(r, "grant") /\ MayAskGrant
  <2>1. CASE ResolveCase(u)
    <3>1. r.pc = "case" /\ PolicyOf(r.policy) = p
      BY <2>1, PolicyIsAsOf DEF ResolveCase, Working
    <3> QED
      BY <2>1, <3>1 DEF ResolveCase, Pass, Passed, Goto, Gone, Refuse, LastResort
  <2>2. CASE ListOfficers(u)
    <3>1. r.pc = "officers"
      BY <2>2 DEF ListOfficers, Working
    <3> QED
      BY <2>2, <3>1 DEF ListOfficers, Pass, Passed, Goto, Gone, Refuse, LastResort
  <2>3. CASE HasActiveAccessGrant(u)
    <3>1. r.pc = "grant"
      BY <2>3 DEF HasActiveAccessGrant, Working
    <3> QED
      BY <2>3, <3>1 DEF HasActiveAccessGrant, Pass, Passed, Refuse
  <2> QED
    BY <2>1, <2>2, <2>3
<1>3. SUFFICES ASSUME x # None PROVE DOMAIN x = Fields /\ Honest(u, x, s2, table', case'.creator)
  BY <1>2, OwnStep
<1>4. req'[u] = x /\ x.target = r.target
  BY <1>1, <1>2, <1>3 DEF Put, Passed, Gone, Fields, Framed, IInv, RowsInv
<1>5. Present(u)' /\ Honest(u, r, s2, table', case'.creator)
  BY <1>1, <1>3, <1>4, Carried
<1>6. /\ r.policy \in s2.policies /\ r.next \in {"user", "scope"} /\ case.level \in s2.levels
      /\ r.row \in s2.rows /\ r.row.active /\ Permits(r.row.role, r.op, r.policy, s2, table)
  BY <1>1, <1>5 DEF Present, Honest, Authorizing, UserRead
<1>7. r.pc \in {"officers", "grant"} => \E level \in s2.levels : Cleared(r.row, level, p)
  BY <1>1, <1>5 DEF Honest, Authorizing
<1>8. CASE x = Passed(r) /\ MayPass
  <2>1. \E level \in s2.levels :
          Cleared(r.row, level, p) /\ Reaches(u, r.op, r.row, r.policy, s2, table, case.creator)
    <3>1. CASE r.pc = "case"
      BY <1>6, <1>8, <3>1 DEF Reaches
    <3>2. CASE r.pc = "officers"
      <4>1. r.row.here /\ s2.officer
        BY <1>1, <1>5, <1>8, <3>2 DEF Honest, Authorizing, Present
      <4> QED
        BY <1>7, <3>2, <4>1 DEF Reaches
    <3>3. CASE r.pc = "grant"
      <4>1. GrantEligible(r.op) /\ s2.live
        BY <1>1, <1>5, <1>8, <3>3 DEF Honest, Authorizing, Present, Live
      <4> QED
        BY <1>7, <3>3, <4>1 DEF Reaches
    <3> QED
      BY <1>1, <3>1, <3>2, <3>3
  <2>2. Settled(u, r.op, s2, table', case'.creator)
    BY <1>1, <1>6, <2>1 DEF Settled
  <2> QED
    BY <1>1, <1>5, <1>8, <2>2, PassHonest
<1>9. ASSUME NEW pc \in {"officers", "grant"}, x = Gone(r, pc),
             pc = "officers" => MayAskOfficers, pc = "grant" => MayAskGrant
      PROVE  DOMAIN x = Fields /\ Honest(u, x, s2, table', case'.creator)
  <2>2. /\ DOMAIN x = Fields /\ x.op = r.op /\ x.target = r.target /\ x.role = r.role
        /\ x.next = r.next /\ x.row = r.row /\ x.level = r.level /\ x.policy = r.policy /\ x.pc = pc
    BY <1>1, <1>9, GoneFields
  <2>3. UserRead(x, s2, table')
    BY <1>1, <1>6, <2>2 DEF UserRead
  <2>4. /\ \E level \in s2.levels : Cleared(x.row, level, AsOf(table', x.policy))
        /\ x.pc = "officers" => x.row.here
        /\ x.pc = "grant" => GrantEligible(x.op)
    BY <1>1, <1>6, <1>7, <1>9, <2>2
  <2>5. Authorizing(u, x, s2, table', case'.creator)
    BY <1>6, <2>2, <2>3, <2>4 DEF Authorizing
  <2>6. Granting(u, x, s2, table', case'.creator)
    BY <1>5, <2>2 DEF Granting, Honest, PastDocument
  <2> QED
    BY <2>2, <2>5, <2>6 DEF Honest
<1> QED
  BY <1>2, <1>3, <1>8, <1>9

-----------------------------------------------------------------------------
(* The services.                                                           *)

LEMMA EndStep ==
  ASSUME Framed, NEW u \in Users,
         \/ Answer(u) \/ SealDocument(u) \/ UpdateCase(u) \/ AssignOfficer(u) \/ RemoveOfficer(u)
         \/ UpsertAccessGrant(u) \/ RevokeAccessGrant(u)
  PROVE  IInv'
<1>1. Put(u, None)
  BY DEF Answer, SealDocument, UpdateCase, AssignOfficer, RemoveOfficer, UpsertAccessGrant,
         RevokeAccessGrant
<1> QED
  BY <1>1, OwnStep

\* Steps of the other services: they leave authorize()'s states, and are no grant.
LEMMA OtherServiceStep ==
  ASSUME Framed, NEW u \in Users, FindOfficer(u) \/ RevokeAccess(u) \/ RevokeScope(u)
  PROVE  IInv'
<1> DEFINE r == req[u]
           s2 == seen'[u]
<1>1. r # None /\ r.op \in {"assign", "revoke"} /\ DOMAIN r = Fields
  BY DEF FindOfficer, RevokeAccess, RevokeScope, Serving, Working, Framed, IInv, RequestInv
<1>2. PICK x : Put(u, x) /\ x \in {None, Gone(r, "commit"), [r EXCEPT !.pc = "policy", !.next = "scope"]}
  BY DEF FindOfficer, RevokeAccess, RevokeScope, Goto, Gone, Refuse
<1>3. SUFFICES ASSUME x # None PROVE DOMAIN x = Fields /\ Honest(u, x, s2, table', case'.creator)
  BY <1>2, OwnStep
<1>4. /\ DOMAIN x = Fields /\ x.op = r.op /\ x.target = r.target /\ x.pc \in {"commit", "policy"}
      /\ x.next \in {r.next, "scope"}
  BY <1>1, <1>2, <1>3 DEF Gone, Fields
<1>5. req'[u] = x
  BY <1>2 DEF Put, Framed, IInv, RowsInv
<1>6. Honest(u, r, s2, table', case'.creator)
  BY <1>1, <1>3, <1>4, <1>5, Carried
<1> QED
  BY <1>1, <1>4, <1>6 DEF Honest, Authorizing, Granting

(***************************************************************************)
(* grantAccess, from the document to the last check before the write.      *)
(***************************************************************************)
LEMMA GrantStep ==
  ASSUME Framed, NEW u \in Users, GrantAccess(u) \/ FindGrantee(u) \/ GrantScope(u)
  PROVE  IInv'
<1> DEFINE r == req[u]
           s2 == seen'[u]
           toGrantee == [r EXCEPT !.pc = "grantee", !.level = case.level]
           toScope == [r EXCEPT !.pc = "policy", !.next = "scope", !.row = users[r.target]]
<1>1. /\ r # None /\ DOMAIN r = Fields /\ UNCHANGED <<users, case, sealed, table>>
  BY DEF GrantAccess, FindGrantee, GrantScope, Serving, Working, Framed, IInv, RequestInv,
         rows, policyVars
<1>2. CASE GrantAccess(u)
  <2>1. PICK x : Put(u, x) /\ (x = None \/ (~sealed /\ r.target # u /\ x = toGrantee))
    BY <1>2 DEF GrantAccess, Frozen, Refuse
  <2>2. SUFFICES ASSUME x # None PROVE DOMAIN x = Fields /\ Honest(u, x, s2, table', case'.creator)
    BY <2>1, OwnStep
  <2>3. /\ DOMAIN x = Fields /\ x.op = r.op /\ x.target = r.target /\ x.pc = "grantee"
        /\ x.next = r.next /\ x.level = case.level /\ req'[u] = x
    BY <1>1, <2>1, <2>2 DEF Put, Fields, Framed, IInv, RowsInv
  <2>4. Present(u)' /\ Honest(u, r, s2, table', case'.creator)
    BY <1>1, <2>2, <2>3, Carried
  <2>5. s2.open /\ case.level \in s2.levels
    BY <1>1, <2>1, <2>2, <2>4 DEF Present
  <2> QED
    BY <2>1, <2>2, <2>3, <2>4, <2>5 DEF Honest, Authorizing, Granting
<1>3. CASE FindGrantee(u)
  <2>1. PICK x : Put(u, x) /\ (x = None \/ (users[r.target].active /\ x = toScope))
    BY <1>3 DEF FindGrantee, Refuse
  <2>2. SUFFICES ASSUME x # None PROVE DOMAIN x = Fields /\ Honest(u, x, s2, table', case'.creator)
    BY <2>1, OwnStep
  <2>3. /\ DOMAIN x = Fields /\ x.op = r.op /\ x.target = r.target /\ x.pc = "policy"
        /\ x.next = "scope" /\ x.level = r.level /\ x.row = users[r.target] /\ req'[u] = x
    BY <1>1, <2>1, <2>2 DEF Put, Fields, Framed, IInv, RowsInv
  <2>4. Present(u)' /\ Honest(u, r, s2, table', case'.creator)
    BY <1>1, <2>2, <2>3, Carried
  <2>5. r.pc = "grantee"
    BY <1>3 DEF FindGrantee, Working
  <2>6. r.target # None => users[r.target] \in s2.targets
    BY <1>1, <2>3, <2>4 DEF Present
  <2>7. Granting(u, x, s2, table', case'.creator)
    BY <2>1, <2>2, <2>3, <2>4, <2>5, <2>6 DEF Honest, Granting, PastDocument
  <2> QED
    BY <2>3, <2>7 DEF Honest, Authorizing
<1>4. CASE GrantScope(u)
  <2> DEFINE x == Gone(r, "commit")
             p == AsOf(table, r.policy)
  <2>1. r.pc = "scope" /\ r.op = "grant" /\ PolicyOf(r.policy) = p
    BY <1>4, PolicyIsAsOf DEF GrantScope, Working
  <2>2. \/ Put(u, None)
        \/ /\ Put(u, x) /\ Cleared(r.row, r.level, p)
           /\ IF r.row.here THEN r.role \in p.elevated \/ case.creator = u \/ u \in case.officers
                            ELSE r.role \in OrgTierRoles
    BY <1>4, <2>1 DEF GrantScope, Goto, Gone, Refuse, HasStandingCaseAccess
  <2>3. CASE Put(u, None)
    BY <2>3, OwnStep
  <2>4. CASE /\ Put(u, x) /\ Cleared(r.row, r.level, p)
             /\ IF r.row.here THEN r.role \in p.elevated \/ case.creator = u \/ u \in case.officers
                              ELSE r.role \in OrgTierRoles
    <3>1. SUFFICES ASSUME x # None PROVE DOMAIN x = Fields /\ Honest(u, x, s2, table', case'.creator)
      BY <2>4, OwnStep
    <3>2. /\ DOMAIN x = Fields /\ x.op = r.op /\ x.target = r.target /\ x.role = r.role
          /\ x.next = r.next /\ x.row = r.row /\ x.level = r.level /\ x.policy = r.policy /\ x.pc = "commit"
      BY <1>1, GoneFields
    <3>3. req'[u] = x
      BY <2>4 DEF Put, Framed, IInv, RowsInv
    <3>4. Present(u)' /\ Honest(u, r, s2, table', case'.creator)
      BY <1>1, <3>1, <3>2, <3>3, Carried
    <3>5. /\ r.target # None /\ s2.open /\ r.target # u /\ r.level \in s2.levels
          /\ r.row \in s2.targets /\ r.row.active /\ r.policy \in s2.policies
          /\ r.next \in {"user", "scope"}
          /\ u \in case.officers => s2.officer
      BY <1>1, <2>1, <3>4 DEF Present, Honest, Authorizing, Granting, PastDocument
    <3>6. Due(u, x, s2, table, case.creator)
      BY <2>4, <3>2, <3>5 DEF Due
    <3>7. Granting(u, x, s2, table', case'.creator)
      BY <1>1, <3>2, <3>5, <3>6 DEF Granting
    <3>8. Authorizing(u, x, s2, table', case'.creator)
      BY <3>2, <3>5 DEF Authorizing
    <3> QED
      BY <3>2, <3>7, <3>8 DEF Honest
  <2> QED
    BY <2>2, <2>3, <2>4
<1> QED
  BY <1>2, <1>3, <1>4

-----------------------------------------------------------------------------
(* What surrounds the requests.                                            *)

EnvironmentStep ==
  \/ \E u \in Users : ChangeUser(u) \/ SignAccessToken(u) \/ ExpireGrant(u)
  \/ LoadRead \/ TtlElapses \/ WritePolicyVersion \/ InvalidatePolicyCache

LEMMA PoliciesKept == ASSUME PolicyInv, Step PROVE PolicyKept
<1>1. ASSUME NEW u \in Users, Send(u) \/ FindUser(u) \/ ResolveCase(u) \/ ListOfficers(u)
                                \/ HasActiveAccessGrant(u)
      PROVE  UNCHANGED policyVars
  BY <1>1 DEF Send, FindUser, ResolveCase, ListOfficers, HasActiveAccessGrant
<1>2. ASSUME NEW u \in Users, Serve(u) PROVE UNCHANGED policyVars
  BY <1>2 DEF Serve, Answer, SealDocument, UpdateCase, FindOfficer, AssignOfficer, RemoveOfficer,
              GrantAccess, FindGrantee, GrantScope, UpsertAccessGrant, RevokeAccess, RevokeScope,
              RevokeAccessGrant
<1>3. ASSUME NEW u \in Users, ChangeUser(u) \/ SignAccessToken(u) \/ ExpireGrant(u)
      PROVE  UNCHANGED policyVars
  BY <1>3 DEF ChangeUser, SignAccessToken, ExpireGrant
<1> QED
  BY <1>1, <1>2, <1>3, PolicyUnchanged, PolicySteps DEF Step, Authorize

LEMMA RowsAreKept == ASSUME RowsInv, Step PROVE RowsKept
<1> USE DEF RowsInv, RowsKept
<1>1. ASSUME NEW u \in Users, Send(u) \/ Authorize(u) PROVE RowsKept
  BY <1>1 DEF Send, Authorize, GetActivePolicy, FindUser, ResolveCase, ListOfficers,
              HasActiveAccessGrant, rows
<1>2. ASSUME NEW u \in Users, UpdateCase(u) \/ AssignOfficer(u) \/ RemoveOfficer(u) PROVE RowsKept
  BY <1>2 DEF UpdateCase, AssignOfficer, RemoveOfficer
<1>3. ASSUME NEW u \in Users,
             \/ Answer(u) \/ SealDocument(u) \/ FindOfficer(u) \/ GrantAccess(u) \/ FindGrantee(u)
             \/ GrantScope(u) \/ UpsertAccessGrant(u) \/ RevokeAccess(u) \/ RevokeScope(u)
             \/ RevokeAccessGrant(u)
      PROVE  RowsKept
  BY <1>3 DEF Answer, SealDocument, FindOfficer, GrantAccess, FindGrantee, GrantScope,
              UpsertAccessGrant, RevokeAccess, RevokeScope, RevokeAccessGrant, rows
<1>4. ASSUME NEW u \in Users, ChangeUser(u) \/ SignAccessToken(u) \/ ExpireGrant(u) PROVE RowsKept
  BY <1>4 DEF ChangeUser, SignAccessToken, ExpireGrant
<1>5. ASSUME LoadRead \/ LoadDone \/ LoadFails \/ TtlElapses \/ WritePolicyVersion \/ InvalidatePolicyCache
      PROVE  RowsKept
  BY <1>5 DEF LoadRead, LoadDone, LoadFails, TtlElapses, WritePolicyVersion,
              InvalidatePolicyCache, rows
<1> QED
  BY <1>1, <1>2, <1>3, <1>4, <1>5 DEF Step, Serve

LEMMA InitIInv == Init => IInv
<1> SUFFICES ASSUME Init PROVE IInv
  OBVIOUS
<1>1. PolicyInv
  BY DEF Init, PolicyInv, Loaded
<1>2. RowsInv
  BY DEF Init, RowsInv
<1>3. \A u \in Users : RequestInv(u)
  BY DEF Init, RequestInv
<1> QED
  BY <1>1, <1>2, <1>3 DEF IInv

LEMMA NextIInv == IInv /\ [Next]_vars => IInv' /\ [Forward]_vars
<1> SUFFICES ASSUME IInv, [Next]_vars PROVE IInv' /\ [Forward]_vars
  OBVIOUS
<1>1. CASE UNCHANGED vars
  BY <1>1 DEF vars, rows, policyVars, IInv, PolicyInv, Loaded, RowsInv, RequestInv, Present, Live
<1>2. CASE Next
  <2>1. Step /\ Watch /\ PolicyKept /\ RowsKept
    BY <1>2, PoliciesKept, RowsAreKept DEF Next, IInv
  <2>2. Framed
    BY <2>1 DEF Framed
  <2>3. CASE EnvironmentStep
    <3>1. UNCHANGED req
      BY <2>3 DEF EnvironmentStep, ChangeUser, SignAccessToken, ExpireGrant, LoadRead, TtlElapses,
                  WritePolicyVersion, InvalidatePolicyCache
    <3> QED
      BY <2>1, <2>2, <3>1, NoOnesStep DEF PolicyKept
  <2>4. CASE LoadDone \/ LoadFails
    BY <2>1, <2>2, <2>4, LoadStep DEF PolicyKept
  <2>5. ASSUME NEW u \in Users, Send(u) \/ Authorize(u) PROVE IInv'
    BY <2>2, <2>5, SendStep, PolicyStep, FindUserStep, CaseStep DEF Authorize
  <2>6. ASSUME NEW u \in Users, Serve(u) PROVE IInv'
    BY <2>2, <2>6, EndStep, OtherServiceStep, GrantStep DEF Serve
  <2> QED
    BY <2>1, <2>3, <2>4, <2>5, <2>6 DEF Step, EnvironmentStep, PolicyKept
<1> QED
  BY <1>1, <1>2

-----------------------------------------------------------------------------
(***************************************************************************)
(* The types.  A grant goes to somebody else than its granter, because     *)
(* grantAccess refuses the granter before it reads anything; a revocation  *)
(* that has passed its check has a grant to revoke.                        *)
(***************************************************************************)
Targeted == {"grant", "revoke", "assign", "remove"}

Granted(u, grant) ==
  /\ DOMAIN grant = {"by", "cross", "status"}
  /\ grant.by \in Users \ {u} /\ grant.cross \in BOOLEAN
  /\ grant.status \in {"live", "expired", "revoked"}

Orderly(r, g) ==
  /\ r.op \in Targeted => r.target \in Users
  /\ r.op = "revoke" => /\ r.pc # "grantee"
                        /\ r.pc \in {"scope", "commit"} => Granted(r.target, g[r.target])
                        /\ r.next = "scope" => Granted(r.target, g[r.target])

AllOrderly == \A u \in Users : req[u] # None => Orderly(req[u], grants)

RowsTyped ==
  /\ token \in [Users -> Roles] /\ sealed \in BOOLEAN
  /\ case.level \in Levels /\ case.creator \in Users \cup {None} /\ case.officers \subseteq Users
  /\ DOMAIN grants = Users /\ \A u \in Users : grants[u] # None => Granted(u, grants[u])

\* Whoever awaits a load has one to await.
Awaited ==
  /\ \A u \in Users : Working(u, "awaiting") => cache.load # None
  /\ (decree # None /\ decree.pc = "awaiting") => cache.load # None

\* Grants change, and do not go away.
GrantsKept == \A u \in Users : Granted(u, grants[u]) => Granted(u, grants'[u])

LEMMA RowsStayTyped == ASSUME IInv, RowsTyped, AllOrderly, Step PROVE RowsTyped' /\ GrantsKept
<1> USE DEF RowsTyped, GrantsKept
<1>1. CASE UNCHANGED <<token, case, sealed, grants>>
  BY <1>1
<1>2. ASSUME NEW u \in Users, Send(u) \/ Authorize(u) PROVE UNCHANGED <<token, case, sealed, grants>>
  BY <1>2 DEF Send, Authorize, GetActivePolicy, FindUser, ResolveCase, ListOfficers,
              HasActiveAccessGrant, rows
<1>3. ASSUME NEW u \in Users, \/ Answer(u) \/ FindOfficer(u) \/ GrantAccess(u) \/ FindGrantee(u)
                              \/ GrantScope(u) \/ RevokeAccess(u) \/ RevokeScope(u) \/ ChangeUser(u)
      PROVE  UNCHANGED <<token, case, sealed, grants>>
  BY <1>3 DEF Answer, FindOfficer, GrantAccess, FindGrantee, GrantScope, RevokeAccess, RevokeScope,
              ChangeUser, rows
<1>4. ASSUME LoadRead \/ LoadDone \/ LoadFails \/ TtlElapses \/ WritePolicyVersion \/ InvalidatePolicyCache
      PROVE  UNCHANGED <<token, case, sealed, grants>>
  BY <1>4 DEF LoadRead, LoadDone, LoadFails, TtlElapses, WritePolicyVersion,
              InvalidatePolicyCache, rows
<1>5. ASSUME NEW u \in Users, SealDocument(u) PROVE RowsTyped' /\ GrantsKept
  BY <1>5 DEF SealDocument
<1>6. ASSUME NEW u \in Users, SignAccessToken(u) PROVE RowsTyped' /\ GrantsKept
  <2>1. users[u].role \in Roles
    BY AccessConstants DEF IInv, RowsInv
  <2> QED
    BY <1>6, <2>1 DEF SignAccessToken
<1>7. ASSUME NEW u \in Users, UpdateCase(u) \/ AssignOfficer(u) \/ RemoveOfficer(u)
      PROVE  RowsTyped' /\ GrantsKept
  <2>1. /\ UNCHANGED <<token, sealed, grants>> /\ DOMAIN case = {"level", "creator", "officers"}
        /\ \/ \E level \in Levels : case' = [case EXCEPT !.level = level]
           \/ req[u].target \in Users /\ case' = [case EXCEPT !.officers = @ \cup {req[u].target}]
           \/ case' = [case EXCEPT !.officers = @ \ {req[u].target}]
    BY <1>7 DEF UpdateCase, AssignOfficer, RemoveOfficer, IInv, RowsInv, AllOrderly, Orderly, Targeted,
                Working
  <2>2. case'.level \in Levels /\ case'.creator = case.creator /\ case'.officers \subseteq Users
    BY <2>1
  <2> QED
    BY <2>1, <2>2
<1>8. ASSUME NEW u \in Users, UpsertAccessGrant(u) PROVE RowsTyped' /\ GrantsKept
  <2> DEFINE v == req[u].target
             g == [by |-> u, cross |-> ~req[u].row.here, status |-> "live"]
  <2>1. /\ req[u] # None /\ req[u].pc = "commit" /\ req[u].op = "grant"
        /\ grants' = [grants EXCEPT ![v] = g] /\ UNCHANGED <<token, case, sealed>>
    BY <1>8 DEF UpsertAccessGrant, Working
  <2>2. v \in Users /\ v # u
    BY <2>1 DEF IInv, RequestInv, Honest, Granting, PastDocument, AllOrderly, Orderly, Targeted
  <2>3. Granted(v, g)
    BY <2>2 DEF Granted
  <2> HIDE DEF g, v
  <2> QED
    BY <2>1, <2>2, <2>3
<1>9. ASSUME NEW u \in Users, NEW v \in Users, NEW status \in {"expired", "revoked"},
             Granted(v, grants[v]), grants' = [grants EXCEPT ![v].status = status],
             UNCHANGED <<token, case, sealed>>
      PROVE  RowsTyped' /\ GrantsKept
  <2>1. grants'[v] = [grants[v] EXCEPT !.status = status]
    BY <1>9
  <2>2. /\ DOMAIN grants'[v] = DOMAIN grants[v] /\ grants'[v].by = grants[v].by
        /\ grants'[v].cross = grants[v].cross /\ grants'[v].status = status
    BY <1>9, <2>1 DEF Granted
  <2>3. Granted(v, grants'[v])
    BY <1>9, <2>2 DEF Granted
  <2>4. DOMAIN grants' = Users /\ \A w \in Users \ {v} : grants'[w] = grants[w]
    BY <1>9
  <2> QED
    BY <1>9, <2>3, <2>4
<1>10. ASSUME NEW u \in Users, RevokeAccessGrant(u) PROVE RowsTyped' /\ GrantsKept
  <2>1. /\ req[u].target \in Users /\ Granted(req[u].target, grants[req[u].target])
        /\ grants' = [grants EXCEPT ![req[u].target].status = "revoked"]
        /\ UNCHANGED <<token, case, sealed>>
    BY <1>10 DEF RevokeAccessGrant, Working, AllOrderly, Orderly, Targeted
  <2> QED
    BY <1>9, <2>1
<1>11. ASSUME NEW u \in Users, ExpireGrant(u) PROVE RowsTyped' /\ GrantsKept
  <2>1. /\ Granted(u, grants[u]) /\ grants' = [grants EXCEPT ![u].status = "expired"]
        /\ UNCHANGED <<token, case, sealed>>
    BY <1>11 DEF ExpireGrant, Live
  <2> QED
    BY <1>9, <2>1
<1> QED
  BY <1>1, <1>2, <1>3, <1>4, <1>5, <1>6, <1>7, <1>8, <1>10, <1>11 DEF Step, Serve

(***************************************************************************)
(* The requests.                                                           *)
(***************************************************************************)
\* Nobody comes to await the policy.
NoneAwaits == \A u \in Users : Working(u, "awaiting")' => Working(u, "awaiting")

LEMMA PutOrderly ==
  ASSUME IInv, AllOrderly, GrantsKept, NEW u \in Users, NEW x, Put(u, x), x # None => Orderly(x, grants)
  PROVE  AllOrderly' /\ ((x # None => x.pc # "awaiting") => NoneAwaits)
<1>1. req'[u] = x /\ \A w \in Users \ {u} : req'[w] = req[w]
  BY DEF Put, IInv, RowsInv
<1>2. \A r : Orderly(r, grants) => Orderly(r, grants')
  BY DEF Orderly, GrantsKept, Targeted
<1>3. ASSUME NEW w \in Users, req'[w] # None PROVE Orderly(req'[w], grants')
  BY <1>1, <1>2, <1>3 DEF AllOrderly
<1>4. (x # None => x.pc # "awaiting") => NoneAwaits
  BY <1>1 DEF NoneAwaits, Working
<1> QED
  BY <1>3, <1>4 DEF AllOrderly

\* A request that only goes on.
GoesOn(r, x) ==
  /\ x.op = r.op /\ x.target = r.target /\ x.next = r.next
  /\ x.pc \in {"user", "case", "officers", "grant", "service"}
     \/ (x.pc \in {"scope", "commit"} /\ (r.pc = "scope" \/ r.next = "scope"))

LEMMA GoingOn ==
  ASSUME NEW r, NEW x, NEW g, Orderly(r, g), GoesOn(r, x)
  PROVE  Orderly(x, g) /\ x.pc # "awaiting"
BY DEF Orderly, GoesOn

LEMMA RequestsStayOrderly ==
  ASSUME IInv, RowsTyped, AllOrderly, GrantsKept, NEW u \in Users, Send(u) \/ Authorize(u) \/ Serve(u)
  PROVE  AllOrderly' /\ (NoneAwaits \/ (GetActivePolicy(u) /\ ~cache.fresh))
<1> DEFINE r == req[u]
           s == [r EXCEPT !.pc = "service", !.policy = 0, !.row = None]
           Scoped == [r EXCEPT !.pc = "policy", !.next = "scope"]
<1>1. r # None => DOMAIN r = Fields /\ Orderly(r, grants) /\ r.next \in {"user", "scope"}
  BY DEF IInv, RequestInv, Honest, Authorizing, AllOrderly
<1>2. CASE Send(u)
  <2>1. PICK op \in Asked, target \in Users \cup {None} :
          /\ (target # None) <=> op \in Targeted
          /\ Put(u, Request(u, op, target))
    BY <1>2 DEF Send, Targeted
  <2>2. Orderly(Request(u, op, target), grants) /\ Request(u, op, target).pc # "awaiting"
    BY <2>1 DEF Request, Orderly
  <2> QED
    BY <2>1, <2>2, PutOrderly
<1>3. ASSUME r # None, Put(u, None) \/ \E x : Put(u, x) /\ GoesOn(r, x)
      PROVE  AllOrderly' /\ NoneAwaits
  BY <1>1, <1>3, GoingOn, PutOrderly
<1>4. ASSUME r # None, NEW pc \in {"case", "officers", "grant", "service"}
      PROVE  GoesOn(r, Gone(r, pc)) /\ GoesOn(r, s)
  BY <1>1, <1>4 DEF GoesOn, Gone, Fields
<1>5. CASE GetActivePolicy(u)
  <2> DEFINE x == [r EXCEPT !.pc = r.next, !.policy = cache.version]
             y == Gone(r, "awaiting")
  <2>1. r # None /\ (IF cache.fresh THEN Put(u, x) ELSE Put(u, y))
    BY <1>5 DEF GetActivePolicy, Working, Goto, Gone
  <2>2. GoesOn(r, x)
    BY <1>1, <2>1 DEF GoesOn, Fields
  <2>3. y.op = r.op /\ y.target = r.target /\ y.next = r.next /\ y.pc = "awaiting"
    BY <1>1, <2>1 DEF Gone, Fields
  <2>4. Orderly(y, grants)
    BY <1>1, <2>1, <2>3 DEF Orderly
  <2> QED
    BY <1>3, <1>5, <2>1, <2>2, <2>4, PutOrderly
<1>6. CASE FindUser(u)
  <2>1. PICK row : r # None /\ (Put(u, None) \/ Put(u, s) \/ Put(u, [r EXCEPT !.pc = "case", !.row = row]))
    BY <1>6 DEF FindUser, Working, Refuse, Pass
  <2>2. GoesOn(r, [r EXCEPT !.pc = "case", !.row = row])
    BY <1>1, <2>1 DEF GoesOn, Fields
  <2> QED
    BY <1>3, <1>4, <2>1, <2>2
<1>7. CASE ResolveCase(u) \/ ListOfficers(u) \/ HasActiveAccessGrant(u)
  <2>1. r # None /\ (\/ Put(u, None) \/ Put(u, s) \/ Put(u, Gone(r, "grant"))
                     \/ Put(u, Gone(r, "officers")))
    BY <1>7 DEF ResolveCase, ListOfficers, HasActiveAccessGrant, Working, LastResort, Refuse, Pass,
                Goto, Gone
  <2> QED
    BY <1>3, <1>4, <2>1
<1>8. CASE \/ Answer(u) \/ SealDocument(u) \/ UpdateCase(u) \/ AssignOfficer(u) \/ RemoveOfficer(u)
           \/ UpsertAccessGrant(u) \/ RevokeAccessGrant(u)
  <2>1. Put(u, None)
    BY <1>8 DEF Answer, SealDocument, UpdateCase, AssignOfficer, RemoveOfficer, UpsertAccessGrant,
                RevokeAccessGrant
  <2> QED
    BY <2>1, PutOrderly
<1>9. CASE FindOfficer(u) \/ GrantAccess(u) \/ FindGrantee(u) \/ GrantScope(u)
  <2>1. r # None /\ r.op # "revoke"
    BY <1>1, <1>9 DEF FindOfficer, GrantAccess, FindGrantee, GrantScope, Serving, Working, Orderly
  <2>2. PICK x : /\ Put(u, x)
                 /\ \/ x = None \/ x = Gone(r, "commit")
                    \/ \E level : x = [r EXCEPT !.pc = "grantee", !.level = level]
                    \/ \E row : x = [r EXCEPT !.pc = "policy", !.next = "scope", !.row = row]
    BY <1>9 DEF FindOfficer, GrantAccess, FindGrantee, GrantScope, Goto, Gone, Refuse
  <2>3. x # None => x.op = r.op /\ x.target = r.target /\ x.pc # "awaiting"
    BY <1>1, <2>1, <2>2 DEF Gone, Fields
  <2>4. x # None => Orderly(x, grants)
    BY <1>1, <2>1, <2>3 DEF Orderly
  <2> QED
    BY <2>2, <2>3, <2>4, PutOrderly
<1>10. CASE RevokeAccess(u)
  <2>1. r # None /\ r.op = "revoke" /\ r.target \in Users
    BY <1>1, <1>10 DEF RevokeAccess, Serving, Working, Orderly, Targeted
  <2>2. PICK x : /\ Put(u, x)
                 /\ x = None \/ (grants[r.target] # None /\ (x = Gone(r, "commit") \/ x = Scoped))
    BY <1>10 DEF RevokeAccess, Goto, Gone, Refuse
  <2>3. x # None => Granted(r.target, grants[r.target])
    BY <2>1, <2>2 DEF RowsTyped
  <2>4. x # None => x.op = r.op /\ x.target = r.target /\ x.pc \in {"commit", "policy"}
    BY <1>1, <2>1, <2>2 DEF Gone, Fields
  <2>5. x # None => Orderly(x, grants)
    BY <2>1, <2>3, <2>4 DEF Orderly
  <2> QED
    BY <2>2, <2>4, <2>5, PutOrderly
<1>11. CASE RevokeScope(u)
  <2>1. r # None /\ r.pc = "scope" /\ (Put(u, None) \/ Put(u, Gone(r, "commit")))
    BY <1>11 DEF RevokeScope, Working, Goto, Gone, Refuse
  <2>2. GoesOn(r, Gone(r, "commit"))
    BY <1>1, <2>1 DEF GoesOn, Gone, Fields
  <2> QED
    BY <1>3, <2>1, <2>2
<1> QED
  BY <1>2, <1>5, <1>6, <1>7, <1>8, <1>9, <1>10, <1>11 DEF Authorize, Serve

LEMMA ResumedOrderly ==
  ASSUME IInv, AllOrderly, GrantsKept, NEW version, ResumeRequests(version)
  PROVE  AllOrderly' /\ \A u \in Users : ~Working(u, "awaiting")'
<1>1. ASSUME NEW u \in Users, req'[u] # None
      PROVE  Orderly(req'[u], grants') /\ req'[u].pc # "awaiting"
  <2>1. req'[u] = IF ~Working(u, "awaiting") THEN req[u]
                  ELSE [req[u] EXCEPT !.pc = req[u].next, !.policy = version]
    BY DEF ResumeRequests
  <2>2. \A x : Orderly(x, grants) => Orderly(x, grants')
    BY DEF Orderly, GrantsKept, Targeted
  <2>3. CASE ~Working(u, "awaiting")
    BY <1>1, <2>1, <2>2, <2>3 DEF AllOrderly, Working
  <2>4. CASE Working(u, "awaiting")
    <3>1. PICK r, x : r = req[u] /\ x = req'[u]
      OBVIOUS
    <3>2. DOMAIN r = Fields /\ Orderly(r, grants) /\ r.next \in {"user", "scope"}
      BY <2>4, <3>1 DEF Working, IInv, RequestInv, Honest, Authorizing, AllOrderly
    <3>3. /\ x.op = r.op /\ x.target = r.target /\ x.next = r.next /\ x.pc = r.next
      BY <2>1, <2>4, <3>1, <3>2 DEF Fields
    <3>4. GoesOn(r, x)
      BY <3>2, <3>3 DEF GoesOn
    <3> QED
      BY <2>2, <3>1, <3>2, <3>3, <3>4, GoingOn
  <2> QED
    BY <2>3, <2>4
<1> QED
  BY <1>1 DEF AllOrderly, Working

(***************************************************************************)
(* The loads.                                                              *)
(***************************************************************************)
LEMMA AwaitedStays ==
  ASSUME IInv, RowsTyped, AllOrderly, GrantsKept, Awaited, Step
  PROVE  Awaited'
<1> USE DEF Awaited
<1>1. /\ DOMAIN cache = {"version", "fresh", "load"}
      /\ cache.load # None => DOMAIN cache.load = {"read"}
      /\ Len(table) \in Nat
  BY DEF IInv, PolicyInv
<1>2. None # NewLoad /\ \A v \in Nat : None # [read |-> v]
  <2>1. \A v \in Nat \cup {None} : [read |-> v] \in [read : Nat \cup {None}]
    OBVIOUS
  <2> QED
    BY <2>1, AccessConstants DEF NewLoad
<1>3. ASSUME NEW u \in Users, GetActivePolicy(u) /\ ~cache.fresh PROVE Awaited'
  <2>1. cache' = [cache EXCEPT !.load = IF @ = None THEN NewLoad ELSE @]
    BY <1>3 DEF GetActivePolicy
  <2>2. cache'.load # None
    BY <1>1, <1>2, <2>1
  <2> QED
    BY <2>2
<1>4. ASSUME cache'.load = cache.load, UNCHANGED decree, NoneAwaits PROVE Awaited'
  BY <1>4 DEF NoneAwaits
<1>5. ASSUME NEW u \in Users, Send(u) \/ Authorize(u) \/ Serve(u), ~(GetActivePolicy(u) /\ ~cache.fresh)
      PROVE  Awaited'
  <2>1. NoneAwaits
    BY <1>5, RequestsStayOrderly
  <2>2. UNCHANGED <<cache, decree>>
    BY <1>5 DEF Send, Authorize, GetActivePolicy, FindUser, ResolveCase, ListOfficers,
                HasActiveAccessGrant, Serve, Answer, SealDocument, UpdateCase, FindOfficer,
                AssignOfficer, RemoveOfficer, GrantAccess, FindGrantee, GrantScope,
                UpsertAccessGrant, RevokeAccess, RevokeScope, RevokeAccessGrant, policyVars
  <2> QED
    BY <1>4, <2>1, <2>2
<1>6. ASSUME NEW u \in Users, ChangeUser(u) \/ SignAccessToken(u) \/ ExpireGrant(u) PROVE Awaited'
  BY <1>4, <1>6 DEF ChangeUser, SignAccessToken, ExpireGrant, policyVars, NoneAwaits, Working
<1>7. CASE LoadRead
  <2>1. /\ UNCHANGED <<decree, req>> /\ cache.load # None
        /\ cache' = [cache EXCEPT !.load.read = Len(table)]
    BY <1>7 DEF LoadRead, Latest
  <2>2. cache'.load = [cache.load EXCEPT !.read = Len(table)]
    BY <1>1, <2>1
  <2>3. cache'.load = [read |-> Len(table)]
    BY <1>1, <2>1, <2>2
  <2> QED
    BY <1>1, <1>2, <2>3
<1>8. CASE LoadDone \/ LoadFails
  <2>1. /\ \E version : ResumeRequests(version)
        /\ decree' = IF decree # None /\ decree.pc = "awaiting" THEN None ELSE decree
    BY <1>8 DEF LoadDone, LoadFails, Resume
  <2>2. \A u \in Users : ~Working(u, "awaiting")'
    BY <2>1, ResumedOrderly
  <2> QED
    BY <2>1, <2>2
<1>9. CASE TtlElapses
  <2>1. cache' = [cache EXCEPT !.fresh = FALSE] /\ UNCHANGED <<decree, req>>
    BY <1>9 DEF TtlElapses
  <2>2. cache'.load = cache.load
    BY <1>1, <2>1
  <2> QED
    BY <1>4, <2>1, <2>2 DEF NoneAwaits, Working
<1>10. CASE WritePolicyVersion
  <2>1. /\ UNCHANGED <<cache, req>>
        /\ UNCHANGED decree \/ decree' = [version |-> Len(table'), pc |-> "committed", joined |-> FALSE]
    BY <1>10 DEF WritePolicyVersion
  <2> QED
    BY <2>1 DEF Working
<1>11. CASE InvalidatePolicyCache
  <2>1. cache' = [cache EXCEPT !.fresh = FALSE, !.load = IF @ = None THEN NewLoad ELSE @]
    BY <1>11 DEF InvalidatePolicyCache
  <2>2. cache'.load # None
    BY <1>1, <1>2, <2>1
  <2> QED
    BY <2>2
<1> QED
  BY <1>3, <1>5, <1>6, <1>7, <1>8, <1>9, <1>10, <1>11 DEF Step

(***************************************************************************)
(* Together.                                                               *)
(***************************************************************************)
TInv == RowsTyped /\ AllOrderly /\ Awaited

LEMMA InitTInv == Init => TInv
<1> SUFFICES ASSUME Init PROVE TInv
  OBVIOUS
<1>1. token \in [Users -> Roles]
  BY AccessConstants DEF Init
<1>2. /\ case.level \in Levels /\ case.creator \in Users \cup {None} /\ case.officers \subseteq Users
      /\ sealed \in BOOLEAN
  <2>1. PICK creator \in Users \cup {None}, officers \in SUBSET Users :
          case = [level |-> "RESTRICTED", creator |-> creator, officers |-> officers]
    BY DEF Init
  <2>2. case.level = "RESTRICTED" /\ case.creator = creator /\ case.officers = officers
    BY <2>1
  <2> QED
    BY <2>2 DEF Init, Levels
<1>3. \A u \in Users : req[u] = None /\ grants[u] = None
  BY DEF Init
<1>4. DOMAIN grants = Users /\ decree = None
  BY DEF Init
<1> QED
  BY <1>1, <1>2, <1>3, <1>4 DEF TInv, RowsTyped, AllOrderly, Awaited, Working

LEMMA NextTInv == IInv /\ TInv /\ [Next]_vars => TInv'
<1> SUFFICES ASSUME IInv, TInv, [Next]_vars PROVE TInv'
  OBVIOUS
<1>1. CASE UNCHANGED vars
  BY <1>1 DEF vars, rows, policyVars, TInv, RowsTyped, AllOrderly, Awaited, Working
<1>2. CASE Next
  <2>1. Step /\ RowsTyped' /\ GrantsKept
    BY <1>2, RowsStayTyped DEF Next, TInv
  <2>2. Awaited'
    BY <2>1, AwaitedStays DEF TInv
  <2>3. ASSUME UNCHANGED req PROVE AllOrderly'
    BY <2>1, <2>3 DEF TInv, AllOrderly, Orderly, GrantsKept, Targeted
  <2>4. ASSUME LoadDone \/ LoadFails PROVE AllOrderly'
    <3>1. \E version : ResumeRequests(version)
      BY <2>4 DEF LoadDone, LoadFails, Resume
    <3> QED
      BY <2>1, <3>1, ResumedOrderly DEF TInv
  <2>5. ASSUME NEW u \in Users, Send(u) \/ Authorize(u) \/ Serve(u) PROVE AllOrderly'
    BY <2>1, <2>5, RequestsStayOrderly DEF TInv
  <2>6. EnvironmentStep => UNCHANGED req
    BY DEF EnvironmentStep, ChangeUser, SignAccessToken, ExpireGrant, LoadRead, TtlElapses,
           WritePolicyVersion, InvalidatePolicyCache
  <2> QED
    BY <2>1, <2>2, <2>3, <2>4, <2>5, <2>6 DEF TInv, Step, EnvironmentStep
<1> QED
  BY <1>1, <1>2

-----------------------------------------------------------------------------
\* No step of a request, of the policy cache or of the world between them breaks the
\* inductive invariant.
THEOREM Invariance == Spec => []IInv
<1>1. IInv /\ [Next]_vars => IInv'
  BY NextIInv
<1> QED
  BY InitIInv, <1>1, PTL DEF Spec

\* A service runs only for a request that facts of its own time permitted, whatever
\* changes between the reads of authorize().
THEOREM DecisionsCurrent == Spec => []DecisionsAreCurrent
<1>1. IInv => DecisionsAreCurrent
  <2> SUFFICES ASSUME IInv, NEW u \in Users, Working(u, "service")
               PROVE  \E row \in seen[u].rows, level \in seen[u].levels, v, w \in seen[u].policies :
                         LET op == Ops[req[u].op] IN
                         /\ row.active
                         /\ HasPermission(row.role, op.action, PolicyOf(w).may, PolicyOf(v).aliases)
                         /\ op.on = "nothing" \/ MayReach(u, row, level, PolicyOf(v))
    BY DEF DecisionsAreCurrent
  <2>1. Settled(u, req[u].op, seen[u], table, case.creator)
    BY DEF IInv, RequestInv, Honest, Authorizing, Working
  <2> QED
    BY <2>1, PolicyIsAsOf DEF Settled, Permits, Reaches, MayReach
<1> QED
  BY Invariance, <1>1, PTL

\* Every grant was due at some moment of the request that wrote it.
THEOREM GrantsDue == Spec => GrantsWereDue
<1> DEFINE WasDue == \A u \in Users : UpsertAccessGrant(u) =>
          /\ seen[u].open /\ req[u].target # u
          /\ \E row \in seen[u].targets, level \in seen[u].levels, v \in seen[u].policies :
                /\ row.active /\ Cleared(row, level, PolicyOf(v))
                /\ IF row.here
                   THEN req[u].role \in PolicyOf(v).elevated \/ case.creator = u \/ seen[u].officer
                   ELSE req[u].role \in OrgTierRoles
<1>1. IInv => WasDue
  <2> SUFFICES ASSUME IInv, NEW u \in Users, UpsertAccessGrant(u)
               PROVE  /\ seen[u].open /\ req[u].target # u
                      /\ \E row \in seen[u].targets, level \in seen[u].levels, v \in seen[u].policies :
                            /\ row.active /\ Cleared(row, level, PolicyOf(v))
                            /\ IF row.here
                               THEN \/ req[u].role \in PolicyOf(v).elevated
                                    \/ case.creator = u \/ seen[u].officer
                               ELSE req[u].role \in OrgTierRoles
    OBVIOUS
  <2>1. req[u] # None /\ req[u].pc = "commit" /\ req[u].op = "grant"
    BY DEF UpsertAccessGrant, Working
  <2>2. Granting(u, req[u], seen[u], table, case.creator)
    BY <2>1 DEF IInv, RequestInv, Honest
  <2>3. /\ seen[u].open /\ req[u].target # u
        /\ Due(u, req[u], seen[u], table, case.creator)
    BY <2>1, <2>2 DEF Granting, PastDocument
  <2> QED
    BY <2>3, PolicyIsAsOf DEF Due
<1>2. IInv /\ [Next]_vars => [WasDue]_vars
  BY <1>1
<1>3. [][WasDue]_vars => GrantsWereDue
  BY DEF GrantsWereDue
<1> QED
  BY Invariance, <1>2, <1>3, PTL DEF Spec

\* The cached policy never goes back, and a decree that refreshed the cache by a
\* load of its own finds its version there.
THEOREM PolicyForward == Spec => PolicyMovesForward
<1>1. IInv /\ [Next]_vars => [Forward]_vars
  BY NextIInv
<1>2. [][Forward]_vars => PolicyMovesForward
  BY DEF Forward, PolicyMovesForward
<1> QED
  BY Invariance, <1>1, <1>2, PTL DEF Spec

\* Every variable holds a value of its kind: a grant has a granter who is not its
\* grantee, a cached version was read from the table, and whoever awaits a load of the
\* policy has one to await.
THEOREM TypeCorrect == Spec => []TypeOK
<1>1. IInv /\ TInv /\ [Next]_vars => (IInv /\ TInv)'
  BY NextIInv, NextTInv
<1>2. IInv /\ TInv => TypeOK
  BY DEF IInv, PolicyInv, RowsInv, Loaded, TInv, RowsTyped, Granted, Awaited, TypeOK
<1> QED
  BY InitIInv, InitTInv, <1>1, <1>2, PTL DEF Spec
=============================================================================
