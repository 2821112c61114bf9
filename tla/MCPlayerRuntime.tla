--------------------------- MODULE MCPlayerRuntime ---------------------------
(* Small games for PlayerRuntime.  Both have turns of ours that lead to    *)
(* turns of ours and of opponents, consecutive turns of opponents, and     *)
(* games that end after a move of either side.                             *)
EXTENDS PlayerRuntime

CONSTANTS p0, p1, p2, p3, over, a, b

MCMove == {a, b}
MCPosition == {p0, p1, p2, p3, over}

Turns(own, opponents) ==
  [p \in MCPosition |->
     IF p \in own THEN "own_turn"
     ELSE IF p \in opponents THEN "opponent_turn" ELSE "end_game"]

(* Where a and b lead; a pair (p, m) that is absent is an illegal move. *)
Edges ==
  {<<p0, a, p1>>, <<p0, b, p3>>, <<p1, a, p2>>, <<p1, b, over>>,
   <<p2, a, p3>>, <<p3, a, over>>, <<p3, b, p1>>}

MCLegal == [p \in MCPosition |-> {m \in MCMove : \E q \in MCPosition : <<p, m, q>> \in Edges}]
MCAfter ==
  [p \in MCPosition |-> [m \in MCMove |->
     IF m \in MCLegal[p] THEN CHOOSE q \in MCPosition : <<p, m, q>> \in Edges ELSE p]]

(* We move first, and twice in a row after b. *)
FirstStatus == Turns({p0, p3}, {p1, p2})
(* Opponents move first, and may finish a game we only watch. *)
SecondStatus == Turns({p2}, {p0, p1, p3})
=============================================================================
