------------------------------ MODULE MctsTree ------------------------------
(***************************************************************************)
(* What the trees share (mcts_common, and the search for an unvisited child*)
(* in the move choosers): two vectors of nodes and children that refer to  *)
(* each other by index.  A child whose index is 0 has never been visited,  *)
(* the root being nobody's child.  Nodes have a range of children, first   *)
(* to second, children an index and a sim_count; what else they hold is up *)
(* to the tree.                                                            *)
(***************************************************************************)
EXTENDS Integers, Sequences, SequencesExt, FiniteSetsExt

VARIABLES
  nodes,    \* nodes[i + 1] is node i
  children  \* children[i + 1] is child i

vectors == <<nodes, children>>

Node(i) == nodes[i + 1]
Child(i) == children[i + 1]

Unexpanded == [first |-> 1, second |-> 0]
is_expanded(node) == node.first <= node.second
ChildIndices(node) == node.first..(node.second - 1)

is_node_fully_expanded(i) ==
  is_expanded(Node(i)) /\ Child(Node(i).second - 1).index # 0

(* Mutant of FirstUnvisited: the loop that corrects the guess is gone. *)
FirstUnvisitedGuess(cs, node, sims) ==
  Min({node.first + sims, node.second - 1})

(* Where the loop of get_unvisited_child_index stops, which all move       *)
(* choosers have (move_chooser.hpp, mast_chooser.hpp): at most as many     *)
(* children were visited as there were simulations of their parent.        *)
FirstUnvisited(cs, node, sims) ==
  Max({i \in node.first..(node.second - 1) :
         /\ i <= node.first + sims
         /\ i = node.first \/ cs[i].index # 0})

(* Mutant of Swap: one of the two is lost. *)
Overwrite(cs, i, j) == [cs EXCEPT ![j + 1] = cs[i + 1]]

(* The child drawn changes places with the first unvisited one. *)
Swap(cs, i, j) == [cs EXCEPT ![i + 1] = cs[j + 1], ![j + 1] = cs[i + 1]]

-----------------------------------------------------------------------------
(* fix_tree: the subtree of a node, copied in preorder, the children of a  *)
(* node in one block, the blocks in the order of their nodes.              *)

Preorder(root) ==
  LET below[i \in 0..(Len(nodes) - 1)] ==
        IF ~is_expanded(Node(i)) THEN <<i>>
        ELSE <<i>> \o FlattenSeq([k \in 1..Cardinality(ChildIndices(Node(i))) |->
               LET next == Child(Node(i).first + k - 1).index
               IN IF next = 0 THEN <<>> ELSE below[next]])
  IN below[root]

ChildCount(i) == IF is_expanded(Node(i)) THEN Node(i).second - Node(i).first ELSE 0
Block(i) == [k \in 1..ChildCount(i) |-> Child(Node(i).first + k - 1)]

(* children_tmp after the nodes of order have been copied. *)
CopiedBlocks(order) == FlattenSeq([k \in 1..Len(order) |-> Block(order[k])])

(* Mutant of FixedNodes: the block of a node starts where the last one did. *)
FixedNodesOverlapping(order) ==
  [k \in 1..Len(order) |->
     LET i == order[k]
         before == Len(CopiedBlocks(SubSeq(order, 1, k - 2)))
     IN IF is_expanded(Node(i))
        THEN [Node(i) EXCEPT !.first = before, !.second = before + ChildCount(i)]
        ELSE Node(i)]

FixedNodes(order) ==
  [k \in 1..Len(order) |->
     LET i == order[k]
         before == Len(CopiedBlocks(SubSeq(order, 1, k - 1)))
     IN IF is_expanded(Node(i))
        THEN [Node(i) EXCEPT !.first = before, !.second = before + ChildCount(i)]
        ELSE Node(i)]

(* Mutant of FixedChildren: children keep the old indices of their nodes. *)
FixedChildrenStale(order) == CopiedBlocks(order)

FixedChildren(order) ==
  LET new_index(i) == IF i = 0 THEN 0 ELSE CHOOSE k \in 0..(Len(order) - 1) : order[k + 1] = i
      blocks == CopiedBlocks(order)
  IN [k \in DOMAIN blocks |-> [blocks[k] EXCEPT !.index = new_index(@)]]

-----------------------------------------------------------------------------
(* get_top_ranked_child_index: the loop and its comparisons, the quotients *)
(* compared by cross-multiplication.  best.sims is 0 before the first      *)
(* visited child, as max_sim is, and max_score is then below every score.  *)

(* Mutant of Rank: among equal averages the later child wins. *)
RankByScore(best, i) ==
  LET c == Child(i)
  IN IF c.sim_count = 0 \/ c.total_score * best.sims < best.score * c.sim_count THEN best
     ELSE [score |-> c.total_score, sims |-> c.sim_count, indices |-> {i}]

Rank(best, i) ==
  LET c == Child(i)
      here == c.total_score * best.sims
      there == best.score * c.sim_count
      first == best.sims = 0
  IN IF c.sim_count = 0 THEN best
     ELSE IF first \/ here > there \/ (here = there /\ c.sim_count > best.sims)
     THEN [score |-> c.total_score, sims |-> c.sim_count, indices |-> {i}]
     ELSE IF here = there /\ c.sim_count = best.sims
     THEN [best EXCEPT !.indices = @ \union {i}]
     ELSE best

TopRanked(node) ==
  FoldLeft(Rank, [score |-> 0, sims |-> 0, indices |-> {}],
           [k \in 1..(node.second - node.first) |-> node.first + k - 1]).indices

-----------------------------------------------------------------------------
Nodes == 0..(Len(nodes) - 1)
Children == 0..(Len(children) - 1)
ChildSims(n) == MapThenSumSet(LAMBDA i : Child(i).sim_count, ChildIndices(Node(n)))
=============================================================================
