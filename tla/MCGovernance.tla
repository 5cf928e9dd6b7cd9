---------------------------- MODULE MCGovernance ----------------------------
(***************************************************************************)
(* Small instances of Governance: two System Admins, two Security Admins   *)
(* and an auditor, one organisation.                                       *)
(***************************************************************************)
EXTENDS Governance, TLC

CONSTANTS sys1, sys2, sec1, sec2, aud, org, executor1, executor2, p1, p2

People == {sys1, sys2, sec1, sec2, aud}
MCRole ==
  [u \in People |->
     CASE u \in {sys1, sys2} -> "SYSTEM_ADMIN"
       [] u \in {sec1, sec2} -> "SECURITY_ADMIN"
       [] u = aud -> "AUDITOR"]

Ask(action, pool, user, roster, k) ==
  [action |-> action, pool |-> pool, user |-> user, members |-> roster, k |-> k]

Pool(x, roster) == x :> [members |-> roster, k |-> Omitted]
Pair == Pool("SYSTEM_ADMIN", {sys1, sys2}) @@ Pool("SECURITY_ADMIN", {sec1, sec2})
Trio == Pool("SYSTEM_ADMIN", {sys1, sys2, sec1}) @@ Pool("SECURITY_ADMIN", {sec1, sec2})
PairGenesis == {Pair, Pool("SYSTEM_ADMIN", {sys1, sys2})}
TrioGenesis == {Trio}

\* A regenesis whose roster names sys1 twice.
RepeatedAddress ==
  {"SYSTEM_ADMIN" :> [members |-> {sys1, sec1}, size |-> 3, k |-> Omitted]}

\* What changes the top pool: grow it, shrink it, raise k (legally only once it
\* has grown).
TopPoolDecrees ==
  {Ask("APPOINT_SYSTEM_ADMIN", "SYSTEM_ADMIN", sec1, {}, Omitted),
   Ask("REMOVE_SYSTEM_ADMIN", "SYSTEM_ADMIN", sys2, {}, Omitted),
   Ask("CHANGE_POOL_THRESHOLD", "SYSTEM_ADMIN", sec1, {}, 3)}

\* What reaches other pools: found an organisation's pool, reinstate or found the
\* Security Admins with another roster, appoint into it; and the policy change.
OtherDecrees ==
  {Ask("ONBOARD_ORG", org, sec1, {sys1, sec1}, Omitted),
   Ask("APPOINT_ORG_ADMIN", org, sec2, {}, Omitted),
   Ask("POOL_REINSTATEMENT", "SECURITY_ADMIN", sec1, {sec1, sys2}, 2),
   Ask("CHANGE_ABAC_POLICY", "SYSTEM_ADMIN", sec1, {}, Omitted)}

AllDecrees == TopPoolDecrees \cup OtherDecrees

TwoRemovals ==
  {Ask("REMOVE_SYSTEM_ADMIN", "SYSTEM_ADMIN", sys2, {}, Omitted),
   Ask("REMOVE_SYSTEM_ADMIN", "SYSTEM_ADMIN", sys1, {}, Omitted)}

TwoExecutors == {executor1, executor2}
TwoProposals == {p1, p2}
Symmetry == Permutations(TwoExecutors) \cup Permutations(TwoProposals)
=============================================================================
