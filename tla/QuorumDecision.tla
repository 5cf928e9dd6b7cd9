--------------------------- MODULE QuorumDecision ---------------------------
(***************************************************************************)
(* What the governance subsystem promises, with pools, roles and payloads  *)
(* left out.  A proposal is decided at most once.  Votes are cast while it *)
(* is pending, one per person.  Nothing happens to the distribution of     *)
(* power (who sits in which pool, the thresholds, the policy) except by a  *)
(* decision that a quorum voted for, or by a ceremony outside the proposal *)
(* procedure.  Each of these acts leaves one entry in the record.          *)
(***************************************************************************)
EXTENDS Integers

CONSTANTS People, Questions,
          Quorums    \* the sets of people who can decide

VARIABLES stage,    \* [Questions -> {"UNFILED", "PENDING", "OBJECTED", "EXECUTED"}]
          voters,   \* [Questions -> SUBSET People]
          powers,   \* the distribution of power, an arbitrary value
          record    \* how many acts are on record

vars == <<stage, voters, powers, record>>

Init ==
  /\ stage = [q \in Questions |-> "UNFILED"]
  /\ voters = [q \in Questions |-> {}]
  /\ record = 0

Propose(q) ==
  /\ stage[q] = "UNFILED"
  /\ stage' = [stage EXCEPT ![q] = "PENDING"]
  /\ UNCHANGED <<voters, powers>>

Vote(q, person) ==
  /\ stage[q] = "PENDING"
  /\ person \notin voters[q]
  /\ voters' = [voters EXCEPT ![q] = @ \cup {person}]
  /\ UNCHANGED <<stage, powers>>

Object(q) ==
  /\ stage[q] = "PENDING"
  /\ \E next \in {"PENDING", "OBJECTED"} : stage' = [stage EXCEPT ![q] = next]
  /\ UNCHANGED <<voters, powers>>

Enact(q) ==
  /\ stage[q] = "PENDING"
  /\ voters[q] \in Quorums
  /\ stage' = [stage EXCEPT ![q] = "EXECUTED"]
  /\ UNCHANGED voters

Ceremony == UNCHANGED <<stage, voters>>

Act ==
  \/ \E q \in Questions :
       \/ Propose(q)
       \/ Object(q)
       \/ Enact(q)
       \/ \E person \in People : Vote(q, person)
  \/ Ceremony

Next == Act /\ record' = record + 1

Spec == Init /\ [][Next]_vars
=============================================================================
