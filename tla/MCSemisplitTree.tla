--------------------------- MODULE MCSemisplitTree ---------------------------
(* A game for SemisplitTree: our first turn goes through split points, one *)
(* of them on the very first place, and through dead ends; the answer ends *)
(* the game, or leaves us to move or stuck among dead ends only.           *)
EXTENDS SemisplitTree

CONSTANTS
  start, mid, split, deep, dead, reply, last, end, stuck, over,
  a1, a2, a3, a4, d1, d2, me, them

MCAction == {a1, a2, a3, a4, d1, d2}
MCEdges ==
  {<<start, <<a1>>, mid>>, <<start, <<d1>>, split>>, <<start, <<a4>>, dead>>,
   <<mid, <<a2>>, reply>>, <<mid, <<a3>>, dead>>, <<mid, <<d2>>, deep>>,
   <<deep, <<a4>>, last>>,
   <<split, <<a2>>, reply>>, <<split, <<a3>>, last>>,
   <<reply, <<a1>>, over>>, <<reply, <<a2>>, stuck>>,
   <<stuck, <<a1>>, dead>>, <<last, <<a1>>, over>>, <<last, <<d1>>, end>>, <<end, <<a2>>, over>>}

MCState == {start, mid, split, deep, dead, reply, last, end, stuck, over}
MCNodal == {start, reply, last, stuck, over}
MCSemimoves == [s \in MCState |-> {e \in {<<a>> : a \in MCAction} : \E t \in MCState : <<s, e, t>> \in MCEdges}]
MCSuccessor ==
  [s \in MCState |-> [e \in MCSemimoves[s] |-> CHOOSE t \in MCState : <<s, e, t>> \in MCEdges]]
MCDepth ==
  [s \in MCState |-> IF s \in MCNodal THEN 3 ELSE IF s = mid THEN 2 ELSE IF s = dead THEN 0 ELSE 1]
MCMover == [s \in MCState |-> IF s = over THEN KEEPER ELSE IF s = reply THEN them ELSE me]
=============================================================================
