----------------------------- MODULE RollupTree -----------------------------
(***************************************************************************)
(* The roll-up tree (rollup_mcts): the semisplit tree, with semimoves for  *)
(* edges, in which a node in the middle of a turn that was simulated often *)
(* enough is dissolved, its children moving up to those of its parent.     *)
(* Nodes and blocks left behind stay in the vectors until the next         *)
(* re-rooting.  That scores differ enough (MIN_SCORE_DIFF) is left open.   *)
(***************************************************************************)
EXTENDS SemisplitTree

CONSTANT MIN_SIMULATIONS_FACTOR  \* simulations each child is worth

ASSUME RollupAssumption == MIN_SIMULATIONS_FACTOR \in Nat

-----------------------------------------------------------------------------
(* What choose_children_for_rolling_up may choose from. *)
RipeChildren(n) ==
  {i \in ChildIndices(Node(n)) :
     LET next == Child(i).index
     IN /\ next # 0
        /\ ~Node(next).is_nodal
        /\ is_node_fully_expanded(next)
        /\ Child(i).sim_count >= ChildCount(next) * MIN_SIMULATIONS_FACTOR}

(* Mutant of Raised: what moves up is a new child. *)
RaisedForgotten(prefix, child) ==
  [semimove |-> (IF Last(prefix) \in Dot THEN Front(prefix) ELSE prefix) \o child.semimove,
   index |-> 0, sim_count |-> 0]

(* A child moving up has the semimove above it put in front of its own,    *)
(* the split point between them gone.                                      *)
Raised(prefix, child) ==
  [child EXCEPT !.semimove = (IF Last(prefix) \in Dot THEN Front(prefix) ELSE prefix) \o @]

(* The new block of node n: its children in order, the chosen ones         *)
(* replaced by their node's children.                                      *)
RolledUp(n, chosen) ==
  FlattenSeq([k \in 1..ChildCount(n) |->
     LET i == Node(n).first + k - 1
         below == Block(Child(i).index)
     IN IF i \notin chosen THEN <<Child(i)>>
        ELSE [c \in DOMAIN below |-> Raised(Child(i).semimove, below[c])]])

(* One turn of the loop of perform_simulation over children_stack from     *)
(* behind, the last of them for the root.  play.py gives every roll-up     *)
(* tree semimoves for edges: a rolled-up one is no single action.          *)
RollUp ==
  /\ GETTER = "S"
  /\ pc = "return"
  /\ children_stack # <<>>
  /\ children_stack' = Front(children_stack)
  /\ LET n == IF Len(children_stack) = 1 THEN 0 ELSE Child(Last(Front(children_stack))).index
     IN \E chosen \in SUBSET RipeChildren(n) :
          IF chosen = {} THEN UNCHANGED vectors
          ELSE /\ children' = children \o RolledUp(n, chosen)
               /\ nodes' = [nodes EXCEPT ![n + 1].first = Len(children),
                                         ![n + 1].second = Len(children) + Len(RolledUp(n, chosen))]
  /\ UNCHANGED <<root_sim_count, root_state, state, node_index, node_sim_count, pc>>

FinishRollup == children_stack = <<>> /\ FinishSimulation

RollupNext ==
  \/ SimulationStep \/ RollUp \/ FinishRollup
  \/ OpponentMove \/ ChooseBestMove \/ ResetTree

RollupSpec == Init /\ [][RollupNext]_vars
-----------------------------------------------------------------------------
(* Everything the tree knows about whole turns: the text of a path, the    *)
(* simulations of its end, and what is below it.                           *)
Turns ==
  LET turns[n \in Nodes] ==
        UNION {LET next == Child(k).index
                   text == Written(Child(k).semimove)
               IN IF Node(next).is_nodal THEN {<<text, Child(k).sim_count, turns[next]>>}
                  ELSE {<<text \o x[1], x[2], x[3]>> : x \in turns[next]} : k \in Visited(n)}
  IN turns

(* A roll-up changes how turns are cut into semimoves and nothing that was *)
(* learnt about them, at any depth: none is lost, renamed or counted anew. *)
RollUpKeepsTurns ==
  [][pc = "return" => Turns[0]' = Turns[0]]_vars
=============================================================================
