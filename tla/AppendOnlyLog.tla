--------------------------- MODULE AppendOnlyLog ---------------------------
(***************************************************************************)
(* What the audit log promises: one history, to which every act that takes *)
(* effect is added at the end, once, as it takes effect.                   *)
(***************************************************************************)
EXTENDS Sequences

CONSTANT Acts

VARIABLES
  history,   \* the acts recorded, in order
  made       \* the acts that have taken effect

vars == <<history, made>>

Init == history = <<>> /\ made = {}

Make(a) ==
  /\ a \in Acts \ made
  /\ made' = made \cup {a}
  /\ history' = Append(history, a)

Next == \E a \in Acts : Make(a)

Spec == Init /\ [][Next]_vars
=============================================================================
