---------------------------- MODULE OrthodoxTree ----------------------------
(***************************************************************************)
(* The tree of the orthodox player (orthodox_mcts/src/tree.cpp and         *)
(* mcts_common/src/mcts_tree.cpp), without the MAST and RAVE heuristics.   *)
(* Nodes and children live in two vectors and refer to each other by       *)
(* index; a child whose index is 0 has never been visited, the root being  *)
(* nobody's child.                                                         *)
(*                                                                         *)
(* Which child has the best UCT priority, and how a playout ends, is left  *)
(* open: floating-point weights and the game decide it.                    *)
(***************************************************************************)
EXTENDS MctsTree, GameRules

CONSTANTS
  Player, KEEPER,
  Mover,     \* Mover[p]: whose turn it is in p, KEEPER's once play is over
  Score,     \* what a player can get at the end of a game
  Outcome,   \* Outcome[p]: the scores of all players where play ends
  MaxSims    \* simulations on one root: bounds the size of the tree

ASSUME TreeAssumption ==
  /\ KEEPER \notin Player
  /\ Mover \in [Position -> Player \union {KEEPER}]
  /\ \A p \in Position : Mover[p] = KEEPER => Legal[p] = {}
  /\ \A p \in Position : IsFiniteSet(Legal[p])
  /\ Score \subseteq Nat
  /\ Outcome \in [Position -> [Player -> Score]]
  /\ MaxSims \in Nat

VARIABLES
  root_sim_count,
  rootPos,         \* root_state
  children_stack,  \* the path of the running simulation
  state,           \* its position,
  node_index,      \* its node,
  node_sim_count,  \* and how often that node was simulated
  pc               \* "idle", or "descend" inside perform_simulation

path == <<children_stack, state, node_index, node_sim_count>>
vars == <<vectors, root_sim_count, rootPos, path, pc>>

-----------------------------------------------------------------------------
(* Nodes and children.                                                     *)

KeeperNode == [first |-> 0, second |-> 0]
is_terminal(node) == node.second = node.first

create_node(p) == IF Mover[p] = KEEPER THEN KeeperNode ELSE Unexpanded

(* Mutant of new_child: a child counts before it is ever visited. *)
new_child_counted(m) == [move |-> m, index |-> 0, sim_count |-> 1, total_score |-> 0]

new_child(m) == [move |-> m, index |-> 0, sim_count |-> 0, total_score |-> 0]
new_children(p) == LET moves == SetToSeq(Legal[p])
                   IN [k \in 1..Len(moves) |-> new_child(moves[k])]

(* create_children(i, p) on the vectors ns and cs. *)
ExpandNode(ns, cs, i, p) ==
  [ns EXCEPT ![i + 1] = [first |-> Len(cs), second |-> Len(cs) + Len(new_children(p))]]
ExpandChildren(cs, p) == cs \o new_children(p)

(* Mutant of Backpropagate: the loop stops before the child of the root. *)
BackpropagateBelowRoot(cs, stack, results) ==
  [k \in DOMAIN cs |->
     LET on == {e \in ToSet(stack) : e.child = k - 1 /\ e.node # 0}
     IN IF on = {} THEN cs[k]
        ELSE [cs[k] EXCEPT !.sim_count = @ + 1,
                           !.total_score = @ + results[(CHOOSE e \in on : TRUE).player]]]

(* The loop over children_stack at the end of perform_simulation. *)
Backpropagate(cs, stack, results) ==
  [k \in DOMAIN cs |->
     LET on == {e \in ToSet(stack) : e.child = k - 1}
     IN IF on = {} THEN cs[k]
        ELSE [cs[k] EXCEPT !.sim_count = @ + 1,
                           !.total_score = @ + results[(CHOOSE e \in on : TRUE).player]]]

-----------------------------------------------------------------------------
(* Mutant of FreshRoot: the count of the old root stays. *)
FreshRootStaleCount(p) ==
  /\ nodes' = ExpandNode(<<create_node(p)>>, <<>>, 0, p)
  /\ children' = new_children(p)
  /\ UNCHANGED root_sim_count

FreshRoot(p) ==
  /\ nodes' = ExpandNode(<<create_node(p)>>, <<>>, 0, p)
  /\ children' = new_children(p)
  /\ root_sim_count' = 0

Init ==
  /\ rootPos = InitPos
  /\ nodes = ExpandNode(<<create_node(InitPos)>>, <<>>, 0, InitPos)
  /\ children = new_children(InitPos)
  /\ root_sim_count = 0
  /\ children_stack = <<>>
  /\ state = InitPos
  /\ node_index = 0
  /\ node_sim_count = 0
  /\ pc = "idle"

(* perform_simulation, up to its loop.  The tree worker asks for none where*)
(* play has ended (TurnDiscipline of PlayerRuntime).                       *)
BeginSimulation ==
  /\ pc = "idle"
  /\ root_sim_count < MaxSims
  /\ Status[rootPos] # "end_game"
  /\ node_index' = 0
  /\ node_sim_count' = root_sim_count
  /\ state' = rootPos
  /\ pc' = "descend"
  /\ UNCHANGED <<vectors, root_sim_count, rootPos, children_stack>>

(* One turn of its loop. *)
Descend ==
  /\ pc = "descend"
  /\ ~is_terminal(Node(node_index))
  /\ is_node_fully_expanded(node_index)
  /\ \E i \in ChildIndices(Node(node_index)) :
       /\ children_stack' = Append(children_stack,
            [node |-> node_index, child |-> i, player |-> Mover[state]])
       /\ state' = After[state][Child(i).move]
       /\ node_index' = Child(i).index
       /\ node_sim_count' = Child(i).sim_count
  /\ UNCHANGED <<vectors, root_sim_count, rootPos, pc>>

ReturnFromSimulation ==
  /\ root_sim_count' = root_sim_count + 1
  /\ children_stack' = <<>>
  /\ node_index' = 0
  /\ node_sim_count' = 0
  /\ state' = rootPos
  /\ pc' = "idle"
  /\ UNCHANGED rootPos

(* Its end at a node where play is over. *)
ScoreTerminal ==
  /\ pc = "descend"
  /\ Legal[state] = {}
  /\ nodes' = IF is_expanded(Node(node_index)) THEN nodes
              ELSE ExpandNode(nodes, children, node_index, state)
  /\ children' = Backpropagate(children, children_stack, Outcome[state])
  /\ ReturnFromSimulation

(* Its end at a node with children still to visit: one of them, drawn from *)
(* the unvisited and swapped to the front of these, gets a node and a      *)
(* playout.                                                                *)
VisitChild ==
  /\ pc = "descend"
  /\ Legal[state] # {}
  /\ is_expanded(Node(node_index)) => ~is_node_fully_expanded(node_index)
  /\ LET fresh == ~is_expanded(Node(node_index))
         ns == IF fresh THEN ExpandNode(nodes, children, node_index, state) ELSE nodes
         cs == IF fresh THEN ExpandChildren(children, state) ELSE children
         node == ns[node_index + 1]
         lower == FirstUnvisited(cs, node, node_sim_count)
     IN \E i \in lower..(node.second - 1), results \in [Player -> Score] :
          LET swapped == Swap(cs, i, lower)
              next == After[state][swapped[lower + 1].move]
              stack == Append(children_stack,
                         [node |-> node_index, child |-> lower, player |-> Mover[state]])
          IN /\ nodes' = Append(ns, create_node(next))
             /\ children' = Backpropagate([swapped EXCEPT ![lower + 1].index = Len(ns)],
                                          stack, results)
  /\ ReturnFromSimulation

(* reparent_along_move. *)
ReparentAlongMove(m) ==
  /\ m \in Legal[rootPos]
  /\ rootPos' = After[rootPos][m]
  /\ state' = After[rootPos][m]
  /\ \E i \in ChildIndices(Node(0)) :
       /\ Child(i).move = m
       /\ \/ Child(i).index = 0 /\ FreshRoot(After[rootPos][m])
          \/ /\ Child(i).index # 0
             /\ LET order == Preorder(Child(i).index)
                    ns == FixedNodes(order)
                    cs == FixedChildren(order)
                IN IF is_expanded(ns[1])
                   THEN nodes' = ns /\ children' = cs
                   ELSE /\ nodes' = ExpandNode(ns, cs, 0, After[rootPos][m])
                        /\ children' = ExpandChildren(cs, After[rootPos][m])
             /\ root_sim_count' = Child(i).sim_count
  /\ UNCHANGED <<children_stack, node_index, node_sim_count, pc>>

OpponentMove ==
  /\ pc = "idle"
  /\ Status[rootPos] = "opponent_turn"
  /\ \E m \in Legal[rootPos] : ReparentAlongMove(m)

(* choose_best_move, asked for after a simulation at least, and the move   *)
(* tree_handler makes of it.                                               *)
ChooseBestMove ==
  /\ pc = "idle"
  /\ Status[rootPos] = "own_turn"
  /\ \E i \in TopRanked(Node(0)) : ReparentAlongMove(Child(i).move)

ResetTree ==
  /\ pc = "idle"
  /\ Status[rootPos] = "end_game"
  /\ rootPos' = InitPos
  /\ state' = InitPos
  /\ FreshRoot(InitPos)
  /\ UNCHANGED <<children_stack, node_index, node_sim_count, pc>>

Next ==
  \/ BeginSimulation \/ Descend \/ ScoreTerminal \/ VisitChild
  \/ OpponentMove \/ ChooseBestMove \/ ResetTree

Spec == Init /\ [][Next]_vars
-----------------------------------------------------------------------------
Count == 0..(MaxSims + 1)

(* Types of every variable, and ranges that lie inside the vector. *)
TypeOK ==
  /\ nodes \in Seq([first : Nat, second : Nat])
  /\ \A n \in Nodes : is_expanded(Node(n)) => Node(n).second <= Len(children)
  /\ children \in Seq([move : Move, index : Nodes, sim_count : Nat, total_score : Nat])
  /\ root_sim_count \in Count
  /\ rootPos \in Position
  /\ children_stack \in Seq([node : Nodes, child : Children, player : Player])
  /\ state \in Position
  /\ node_index \in Nodes
  /\ node_sim_count \in Count
  /\ pc \in {"idle", "descend"}

(* The vectors hold one tree and nothing else: every child belongs to one  *)
(* expanded node, every node but the root to one child, and a walk from    *)
(* the root meets every node once.  root_at_index leaves no garbage.       *)
TreeShape ==
  /\ \A n \in Nodes \ {0} : Cardinality({i \in Children : Child(i).index = n}) = 1
  /\ \A i \in Children :
       Cardinality({n \in Nodes : is_expanded(Node(n)) /\ i \in ChildIndices(Node(n))}) = 1
  /\ Len(Preorder(0)) = Len(nodes)
  /\ ToSet(Preorder(0)) = Nodes

ParentEdge(n) == CHOOSE i \in Children : Child(i).index = n
Parent(n) ==
  CHOOSE p \in Nodes : is_expanded(Node(p)) /\ ParentEdge(n) \in ChildIndices(Node(p))

(* Simulations of a node: perform_simulation's node_sim_count there. *)
Sims(n) == IF n = 0 THEN root_sim_count ELSE Child(ParentEdge(n)).sim_count

(* The position every node stands for. *)
Positions ==
  LET at[n \in Nodes] ==
        IF n = 0 THEN rootPos ELSE After[at[Parent(n)]][Child(ParentEdge(n)).move]
  IN at

(* The children of an expanded node are the legal moves of its position,   *)
(* each once, whatever swaps and copies they went through: otherwise the   *)
(* reasoner would be given moves that are illegal where they are applied.  *)
EdgesAreMoves ==
  \A n \in Nodes : is_expanded(Node(n)) =>
    /\ ChildCount(n) = Cardinality(Legal[Positions[n]])
    /\ {Child(i).move : i \in ChildIndices(Node(n))} = Legal[Positions[n]]

(* The asserts of get_unvisited_child_index and is_node_fully_expanded:    *)
(* the visited children of a node come first, and the guess from its       *)
(* simulation count finds the first one that is not visited.               *)
VisitedFirst ==
  \A n \in Nodes : is_expanded(Node(n)) /\ ~is_terminal(Node(n)) =>
    LET node == Node(n)
        unvisited == {i \in ChildIndices(node) : Child(i).index = 0}
    IN /\ \A i \in unvisited : \A j \in i..(node.second - 1) : Child(j).index = 0
       /\ unvisited # {} => FirstUnvisited(children, node, Sims(n)) = Min(unvisited)

(* No simulation is lost or counted twice: a child was simulated once on   *)
(* its own and otherwise through its children; so was the root, unless it  *)
(* began as one.                                                           *)
VisitsConserved ==
  /\ \A n \in Nodes \ {0} :
       is_expanded(Node(n)) /\ ~is_terminal(Node(n)) => Sims(n) = ChildSims(n) + 1
  /\ \A i \in Children : Child(i).index = 0 <=> Child(i).sim_count = 0
  /\ ~is_terminal(Node(0)) => root_sim_count - ChildSims(0) \in {0, 1}

(* The move played is one of the best: none has a higher average, none of  *)
(* the same average more simulations.                                      *)
RankingOptimal ==
  LET visited == {i \in ChildIndices(Node(0)) : Child(i).sim_count > 0}
      better(i, j) ==
        LET x == Child(i).total_score * Child(j).sim_count
            y == Child(j).total_score * Child(i).sim_count
        IN x > y \/ (x = y /\ Child(i).sim_count > Child(j).sim_count)
  IN TopRanked(Node(0)) = {i \in visited : \A j \in visited : ~better(j, i)}

(* What the tree knows below a node, whatever the indices. *)
Knowledge ==
  LET below[n \in Nodes] ==
        IF ~is_expanded(Node(n)) THEN {}
        ELSE {<<Child(i).move, Child(i).sim_count, Child(i).total_score, below[Child(i).index]>> :
                i \in {j \in ChildIndices(Node(n)) : Child(j).index # 0}}
  IN below

(* A turn is played by re-rooting along a legal move; and for every such   *)
(* move, re-rooting keeps all that was known below it, counts and scores   *)
(* included, and nothing else.                                             *)
KeepsSubtree ==
  [][/\ rootPos' # rootPos /\ Status[rootPos] # "end_game" =>
          \E m \in Legal[rootPos] : ReparentAlongMove(m)
     /\ \A m \in Legal[rootPos] : pc = "idle" /\ ReparentAlongMove(m) =>
          \E i \in ChildIndices(Node(0)) :
            /\ Child(i).move = m
            /\ rootPos' = After[rootPos][m]
            /\ root_sim_count' = Child(i).sim_count
            /\ Knowledge[0]' = IF Child(i).index = 0 THEN {} ELSE Knowledge[Child(i).index]]_vars

Search == INSTANCE SearchTree WITH
  rootVisits <- ChildSims(0), MaxVisits <- MaxSims + 1

(* The vectors keep the promise of SearchTree: a simulation adds one visit *)
(* to the root's children, re-rooting keeps fewer than there were.         *)
ImplementsSearchTree == Search!TreeSpec
=============================================================================
