----------------------------- MODULE SearchTree -----------------------------
(***************************************************************************)
(* What every tree of the player (orthodox, semisplit, rollup) promises to *)
(* the tree worker: the position at its root and how many simulations the  *)
(* children of the root remember.  Nothing else of the tree decides what   *)
(* the worker does.                                                        *)
(***************************************************************************)
EXTENDS Naturals, GameRules

CONSTANT MaxVisits  \* counts of MaxVisits and above are not told apart

ASSUME VisitsAssumption == MaxVisits \in Nat \ {0}

VARIABLES rootPos, rootVisits

treeVars == <<rootPos, rootVisits>>

TreeTypeOK ==
  /\ rootPos \in Position
  /\ rootVisits \in 0..MaxVisits

Saturate(n) == IF n > MaxVisits THEN MaxVisits ELSE n

(* A child of the root with v visits spent one of them on its own playout, *)
(* so that re-rooting keeps less than was there (unless v was cut off).    *)
Kept(visits) ==
  IF visits = MaxVisits THEN 0..MaxVisits
  ELSE {n \in 0..MaxVisits : n < visits \/ n = 0}

Create ==
  /\ rootPos = InitPos
  /\ rootVisits = 0

(* A simulation from a live root ends in exactly one of its children; from *)
(* a terminal root it only reads the scores.                               *)
Simulate ==
  /\ rootVisits' = IF Legal[rootPos] = {} THEN rootVisits
                   ELSE Saturate(rootVisits + 1)
  /\ UNCHANGED rootPos

Reparent(m) ==
  /\ rootPos' = After[rootPos][m]
  /\ rootVisits' \in Kept(rootVisits)

Rebuild ==
  /\ rootPos' = InitPos
  /\ rootVisits' = 0

TreeNext ==
  \/ Simulate
  \/ \E m \in Move : m \in Legal[rootPos] /\ Reparent(m)
  \/ Rebuild

TreeSpec == Create /\ [][TreeNext]_treeVars
=============================================================================
