---------------------------- MODULE MCRollupTree ----------------------------
(* A game for RollupTree: semimoves of one and of two actions, with split  *)
(* points behind both, first in the turn and one after another, and dead   *)
(* ends.                                                                   *)
EXTENDS RollupTree

CONSTANTS
  start, mid, split, deep, dead, reply, last, end, over,
  a1, a2, a3, a4, d1, d2, me, them

MCAction == {a1, a2, a3, a4, d1, d2}
MCEdges ==
  {<<start, <<a1, d2>>, mid>>, <<start, <<d1>>, split>>,
   <<mid, <<a2>>, reply>>, <<mid, <<a3, d1>>, deep>>,
   <<deep, <<a4>>, last>>,
   <<split, <<a2>>, reply>>, <<split, <<a3, a1>>, last>>, <<split, <<a4>>, dead>>,
   <<reply, <<a1>>, over>>, <<reply, <<d1>>, dead>>,
   <<last, <<a1>>, over>>, <<last, <<a2>>, end>>, <<end, <<a2>>, over>>, <<end, <<a3>>, over>>}

MCState == {start, mid, split, deep, dead, reply, last, end, over}
MCNodal == {start, reply, last, end, over}
MCSemimoves ==
  [s \in MCState |-> {edge[2] : edge \in {x \in MCEdges : x[1] = s}}]
MCSuccessor ==
  [s \in MCState |-> [e \in MCSemimoves[s] |-> CHOOSE t \in MCState : <<s, e, t>> \in MCEdges]]
MCDepth ==
  [s \in MCState |-> IF s \in MCNodal THEN 3 ELSE IF s = mid THEN 2 ELSE IF s = dead THEN 0 ELSE 1]
MCMover == [s \in MCState |-> IF s = over THEN KEEPER ELSE IF s = reply THEN them ELSE me]

(* The search for a move played never fails here. *)
ASSUME MCTelling == Telling
=============================================================================
