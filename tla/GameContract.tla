---------------------------- MODULE GameContract ----------------------------
(***************************************************************************)
(* What a player promises the game manager, seen at the socket alone: it   *)
(* sends one move per time limit, only after the limit, and a legal one in *)
(* the position the limit was for; and it does answer.                     *)
(***************************************************************************)
EXTENDS GameRules

CONSTANT NoMove

VARIABLES
  pos,     \* the game manager's position
  phase,   \* "watching" the others, "asked" by a limit, "answered"
  answer   \* the move on the wire while "answered"

contractVars == <<pos, phase, answer>>

Init ==
  /\ pos = InitPos
  /\ phase = "watching"
  /\ answer = NoMove

Ask ==
  /\ phase = "watching"
  /\ Status[pos] = "own_turn"
  /\ phase' = "asked"
  /\ UNCHANGED <<pos, answer>>

Answer ==
  /\ phase = "asked"
  /\ \E m \in Legal[pos] : answer' = m
  /\ phase' = "answered"
  /\ UNCHANGED pos

Accept ==
  /\ phase = "answered"
  /\ pos' = Settle(After[pos][answer])
  /\ phase' = "watching"
  /\ answer' = NoMove

Watch ==
  /\ phase = "watching"
  /\ Status[pos] = "opponent_turn"
  /\ \E m \in Legal[pos] : pos' = Settle(After[pos][m])
  /\ UNCHANGED <<phase, answer>>

Next == Ask \/ Answer \/ Accept \/ Watch

SafeSpec == Init /\ [][Next]_contractVars
Spec == SafeSpec /\ WF_contractVars(Answer)
=============================================================================
