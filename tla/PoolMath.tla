------------------------------ MODULE PoolMath ------------------------------
(***************************************************************************)
(* The quorum arithmetic of an admin pool: k approvals out of m members.   *)
(* The code writes an omitted k as undefined or null; here it is Omitted.  *)
(***************************************************************************)
EXTENDS Integers

MinK == 2
MinM == 2
Omitted == 0

DefaultK(m) == (m \div 2) + 1

EffectiveK(k, m) == IF k = Omitted THEN DefaultK(m) ELSE k

\* The form of ValidThreshold that forgets the upper bound on k.
ValidThresholdNoCeiling(k, m) == m >= MinM /\ k >= MinK

ValidThreshold(k, m) == m >= MinM /\ k >= MinK /\ k <= m
=============================================================================
