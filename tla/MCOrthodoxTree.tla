--------------------------- MODULE MCOrthodoxTree ---------------------------
(* A game for OrthodoxTree: three moves at the start, a position two paths *)
(* lead to, one where a player is stuck, one the keeper has ended.         *)
EXTENDS OrthodoxTree

CONSTANTS start, reply, last, stuck, over, m1, m2, m3, us, them

MCPosition == {start, reply, last, stuck, over}
MCMove == {m1, m2, m3}
Edges ==
  {<<start, m1, reply>>, <<start, m2, last>>, <<start, m3, stuck>>,
   <<reply, m1, last>>, <<reply, m2, over>>,
   <<last, m1, over>>, <<last, m3, stuck>>}

MCLegal == [p \in MCPosition |-> {m \in MCMove : \E q \in MCPosition : <<p, m, q>> \in Edges}]
MCAfter ==
  [p \in MCPosition |-> [m \in MCMove |->
     IF m \in MCLegal[p] THEN CHOOSE q \in MCPosition : <<p, m, q>> \in Edges ELSE p]]

MCMover == [p \in MCPosition |-> IF p = over THEN KEEPER ELSE IF p \in {reply, stuck} THEN them ELSE us]
MCStatus ==
  [p \in MCPosition |->
     IF MCLegal[p] = {} THEN "end_game" ELSE IF MCMover[p] = us THEN "own_turn" ELSE "opponent_turn"]
MCOutcome == [p \in MCPosition |-> [q \in {us, them} |-> IF (p = stuck) = (q = us) THEN 1 ELSE 0]]
=============================================================================
