-------------------------- MODULE MCContextPlayout --------------------------
(* A game for ContextPlayout: actions that occur after different others,   *)
(* split points at the beginning and later, dead ends after one and after  *)
(* two actions, and a turn that cannot be completed at all.                *)
EXTENDS ContextPlayout

CONSTANTS
  start, mid1, mid2, split, far1, far2, dead, stuck, reply, answer, last, over,
  a1, a2, a3, b1, b2, c1, c2, d1, w1, w2, w3, me, them

MCAction == {a1, a2, a3, b1, b2, c1, c2, d1, w1, w2, w3}
MCEdges ==
  {<<start, a1, mid1>>, <<start, a2, mid2>>, <<start, d1, split>>,
   <<mid1, b1, dead>>, <<mid1, b2, far1>>, <<mid1, w1, reply>>,
   <<mid2, b1, far2>>, <<mid2, b2, dead>>,
   <<split, a3, far2>>, <<far1, w2, over>>, <<far2, d1, far1>>, <<far2, w1, reply>>,
   <<reply, c1, answer>>, <<reply, w3, over>>,
   <<answer, c2, stuck>>, <<answer, w2, last>>,
   <<last, a1, dead>>, <<last, a2, dead>>}

MCState == {start, mid1, mid2, split, far1, far2, dead, stuck, reply, answer, last, over}
MCNodal == {start, reply, last, over}
MCSemimoves == [s \in MCState |-> {<<x[2]>> : x \in {y \in MCEdges : y[1] = s}}]
MCSuccessor == [s \in MCState |-> [e \in MCSemimoves[s] |-> CHOOSE t \in MCState : <<s, e[1], t>> \in MCEdges]]
MCDepth ==
  [s \in MCState |-> IF s \in MCNodal THEN 3 ELSE IF s \in {mid1, mid2, split, answer} THEN 2
                     ELSE IF s = far2 THEN 1 ELSE 0]
MCMover == [s \in MCState |-> IF s = over THEN KEEPER ELSE IF s \in {reply, answer, stuck} THEN them ELSE me]
MCPrimes == <<3, 7, 13, 29, 53>>
MCCode == [a \in MCAction |-> CASE a = a1 -> 18 [] a = a2 -> 19 [] a = a3 -> 20 [] a = b1 -> 36 [] a = b2 -> 37
                          [] a \in {c1, w1} -> 53 [] a \in {c2, w2} -> 70 [] a = w3 -> 90 [] a = d1 -> 0]
=============================================================================
