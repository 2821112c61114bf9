------------------------------ MODULE SplitGame ------------------------------
(***************************************************************************)
(* The game as the trees between whole moves see it (external: the         *)
(* reasoner is generated).  A move is made of semimoves, short sequences   *)
(* of actions; a state in which a turn begins is nodal.  A dot (an action  *)
(* whose index is not positive) marks a split point: it is no part of the  *)
(* text of a move, and the reasoner takes moves with or without it.        *)
(* Where a move ends the keeper has made its turns (complete_turn).        *)
(***************************************************************************)
EXTENDS Integers, Sequences, SequencesExt

CONSTANTS
  State, Nodal, InitState, Action, Dot,
  Semimoves,  \* Semimoves[s]: what get_all_semimoves lists in s
  Successor,  \* Successor[s][e]: the state apply(e) makes of s
  Depth,      \* Depth[s]: so many more semimoves a turn may take in s
  Player, KEEPER,
  Mover       \* Mover[s]: get_current_player

-----------------------------------------------------------------------------
Written(actions) == FlattenSeq([i \in DOMAIN actions |-> IF actions[i] \in Dot THEN <<>> ELSE <<actions[i]>>])

(* Everything some semimoves lead to within a turn: actions is how a       *)
(* roll-up would write them, without dots but for one at the end.          *)
Reachable ==
  LET from[s \in State] == UNION {LET t == Successor[s][e]
                                  IN {[actions |-> e, path |-> <<e>>, state |-> t]} \union
                                     (IF t \in Nodal THEN {} ELSE
                                        {[actions |-> Written(e) \o r.actions,
                                          path |-> <<e>> \o r.path,
                                          state |-> r.state] : r \in from[t]}) :
                                    e \in Semimoves[s]}
  IN from

(* apply(e), e being one semimove or several rolled up. *)
apply(s, e) == (CHOOSE r \in Reachable[s] : r.actions = e).state

(* The paths save_path_to_nodal_state and random_walk_to_nodal may find.   *)
PathsToNodal(s) ==
  IF s \in Nodal THEN {<<>>} ELSE {r.path : r \in {q \in Reachable[s] : q.state \in Nodal}}

AfterPath(s, path) ==
  LET at[k \in 0..Len(path)] == IF k = 0 THEN s ELSE Successor[at[k - 1]][path[k]]
  IN at[Len(path)]

Text(path) == Written(FlattenSeq(path))

(* The legal moves of a turn, as they are sent. *)
Moves(s) == {Written(r.actions) : r \in {q \in Reachable[s] : q.state \in Nodal}}

AfterMove(s, m) ==
  (CHOOSE r \in Reachable[s] : r.state \in Nodal /\ Written(r.actions) = m).state

(* apply(t) for a text t, which holds no dots and stops before one. *)
StateAfterText(s, t) ==
  IF t = <<>> THEN s
  ELSE (CHOOSE r \in Reachable[s] : Written(r.actions) = t /\ Last(r.actions) \notin Dot).state

has_nodal_successor(s) == Mover[s] # KEEPER /\ Moves(s) # {}

(***************************************************************************)
(* A dot is the last action of a semimove or none, never the last of a     *)
(* move; turns end; actions tell moves apart; no move is the beginning of  *)
(* another.                                                                *)
(***************************************************************************)
ASSUME SplitGameAssumption ==
  /\ InitState \in Nodal
  /\ Nodal \subseteq State
  /\ Dot \subseteq Action
  /\ Mover \in [State -> Player \union {KEEPER}]
  /\ Depth \in [State -> Nat]
  /\ \A s \in State : IsFiniteSet(Semimoves[s])
  /\ \A s \in State : \A e \in Semimoves[s] :
       /\ e \in Seq(Action) \ {<<>>}
       /\ Successor[s][e] \in State
       /\ ToSet(Front(e)) \intersect Dot = {}
       /\ Successor[s][e] \in Nodal => Last(e) \notin Dot
       /\ Successor[s][e] \notin Nodal => Depth[Successor[s][e]] < Depth[s]
       /\ Mover[s] # KEEPER
  /\ \A s \in State : \A r, q \in Reachable[s] :
       /\ r.actions \in Seq(Action) \ {<<>>}
       /\ r.actions = q.actions => r = q
       /\ r.state \in Nodal => ~IsStrictPrefix(Written(r.actions), Written(q.actions))
=============================================================================
