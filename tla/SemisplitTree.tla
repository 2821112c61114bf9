---------------------------- MODULE SemisplitTree ----------------------------
(***************************************************************************)
(* The tree between whole moves (semisplit_mcts_common): its edges are     *)
(* semimoves, and only nodal nodes, where a turn begins, have a status of  *)
(* their own.  A simulation ends in a child from which the turn can still  *)
(* be completed; children that turn out to be dead ends are removed on the *)
(* way.  With IS_NODAL the whole rest of the turn is added to the tree.    *)
(*                                                                         *)
(* Scores are abstracted: which child has the best UCT priority or average *)
(* is open, so that the two ways to save a path (choose_best_greedy_move,  *)
(* choose_best_rolledup_move) choose among the same paths.                 *)
(***************************************************************************)
EXTENDS MctsTree, SplitGame

CONSTANTS
  us,        \* our player
  IS_NODAL,  \* new nodes are nodal
  GETTER,    \* "A": edges are actions, "S": edges are semimoves
  MaxSims    \* simulations on one root: bounds the size of the tree

ASSUME SemisplitAssumption ==
  /\ us \in Player
  /\ KEEPER \notin Player
  /\ IS_NODAL \in BOOLEAN
  /\ GETTER \in {"A", "S"}
  /\ GETTER = "A" => \A s \in State : \A e \in Semimoves[s] : Len(e) = 1
  /\ MaxSims \in Nat

VARIABLES
  root_sim_count, root_state,
  children_stack,  \* the children on the path of the running simulation
  state,           \* its state,
  node_index,      \* its node,
  node_sim_count,  \* and how often that node was simulated
  pc               \* "idle", or "descend" and "return" in perform_simulation

vars == <<vectors, root_sim_count, root_state,
          children_stack, state, node_index, node_sim_count, pc>>

-----------------------------------------------------------------------------
(* Nodes and children, on a record t of both vectors.                      *)

tree == [nodes |-> nodes, children |-> children]

is_terminal(node) == node.status = "terminal"
Terminated(node) == [node EXCEPT !.first = 0, !.second = 0, !.status = "terminal"]

new_node(is_nodal, status) ==
  [first |-> 1, second |-> 0, is_nodal |-> is_nodal, status |-> status]

create_node(s) ==
  IF has_nodal_successor(s) THEN new_node(s \in Nodal, "nonterminal")
  ELSE Terminated(new_node(TRUE, "unknown"))

(* Mutant of create_children: a child counts before it is ever visited. *)
create_children_counted(t, n, actions) ==
  LET block == [k \in DOMAIN actions |-> [semimove |-> actions[k], index |-> 0, sim_count |-> 1]]
  IN IF actions = <<>> \/ is_terminal(t.nodes[n + 1])
     THEN [t EXCEPT !.nodes[n + 1] = Terminated(@)]
     ELSE [t EXCEPT !.nodes[n + 1] = [@ EXCEPT !.first = Len(t.children),
                                               !.second = Len(t.children) + Len(actions)],
                    !.children = @ \o block]

create_children(t, n, actions) ==
  LET block == [k \in DOMAIN actions |-> [semimove |-> actions[k], index |-> 0, sim_count |-> 0]]
  IN IF actions = <<>> \/ is_terminal(t.nodes[n + 1])
     THEN [t EXCEPT !.nodes[n + 1] = Terminated(@)]
     ELSE [t EXCEPT !.nodes[n + 1] = [@ EXCEPT !.first = Len(t.children),
                                               !.second = Len(t.children) + Len(actions)],
                    !.children = @ \o block]

FreshTree(s) ==
  create_children([nodes |-> <<create_node(s)>>, children |-> <<>>], 0, SetToSeq(Semimoves[s]))

(* The semimoves next to a path from which the turn cannot be completed. *)
DeadEndsAlong(s, way) ==
  UNION {LET at == AfterPath(s, SubSeq(way, 1, k - 1))
         IN {k} \X {e \in Semimoves[at] : PathsToNodal(Successor[at][e]) = {}} : k \in DOMAIN way}

(* What save_path_to_nodal_state leaves in legal_actions: the semimove of  *)
(* the path in front of those not found to be dead ends before it.         *)
LegalActions(s, way, tried) ==
  [k \in DOMAIN way |->
     LET at == AfterPath(s, SubSeq(way, 1, k - 1))
     IN <<way[k]>> \o SetToSeq({e \in Semimoves[at] \ {way[k]} : <<k, e>> \notin tried})]

(* Mutant of Chain: the nodes between the two ends count as nodal. *)
ChainAllNodal(t, lists, k) ==
  LET grown == create_children(t, Len(t.nodes) - 1, lists[k])
      first == Len(t.children)
  IN [grown EXCEPT
        !.nodes = Append(@, new_node(TRUE, "unknown")),
        !.children[first + 1].index = Len(t.nodes),
        !.stack = Append(@, first)]

(* One turn of the loop that adds the rest of the turn to the tree. *)
Chain(t, lists, k) ==
  LET grown == create_children(t, Len(t.nodes) - 1, lists[k])
      first == Len(t.children)
      ends == k = Len(lists)
  IN [grown EXCEPT
        !.nodes = Append(@, new_node(ends, IF ends THEN "unknown" ELSE "nonterminal")),
        !.children[first + 1].index = Len(t.nodes),
        !.stack = Append(@, first)]

(* What a playout from s tells of the last node; without IS_NODAL a node   *)
(* in the middle of a turn stays as it is.                                 *)
AfterPlayout(node, s) ==
  IF has_nodal_successor(s) THEN [node EXCEPT !.status = "nonterminal"]
  ELSE IF IS_NODAL \/ node.is_nodal THEN Terminated(node)
  ELSE [node EXCEPT !.status = "nonterminal"]

(* The new node of child i, reached in s and completed along way. *)
Visit(t, i, s, way, tried) ==
  LET lists == LegalActions(s, way, tried)
      one == [nodes |-> Append(t.nodes, new_node(way = <<>>, IF way = <<>> THEN "unknown" ELSE "nonterminal")),
              children |-> [t.children EXCEPT ![i + 1].index = Len(t.nodes)],
              stack |-> Append(children_stack, i)]
      chained[k \in 0..Len(way)] == IF k = 0 THEN one ELSE Chain(chained[k - 1], lists, k)
      grown == IF IS_NODAL THEN chained[Len(way)] ELSE one
  IN [grown EXCEPT !.nodes[Len(grown.nodes)] = AfterPlayout(@, AfterPath(s, way))]

(* Mutant of Backpropagate: only the last child of the stack counts. *)
BackpropagateLast(cs, stack) ==
  IF stack = <<>> THEN cs ELSE [cs EXCEPT ![Last(stack) + 1].sim_count = @ + 1]

(* The loop over children_stack at the end of perform_simulation. *)
Backpropagate(cs, stack) ==
  [k \in DOMAIN cs |-> IF k - 1 \in ToSet(stack) THEN [cs[k] EXCEPT !.sim_count = @ + 1] ELSE cs[k]]

-----------------------------------------------------------------------------
Init ==
  /\ root_state = InitState
  /\ nodes = FreshTree(InitState).nodes
  /\ children = FreshTree(InitState).children
  /\ root_sim_count = 0
  /\ children_stack = <<>>
  /\ state = InitState
  /\ node_index = 0
  /\ node_sim_count = 0
  /\ pc = "idle"

(* perform_simulation, up to its loop.  The tree worker asks for none where*)
(* play has ended (TurnDiscipline of PlayerRuntime).                       *)
BeginSimulation ==
  /\ pc = "idle"
  /\ root_sim_count < MaxSims
  /\ ~is_terminal(Node(0))
  /\ node_index' = 0
  /\ node_sim_count' = root_sim_count
  /\ state' = root_state
  /\ pc' = "descend"
  /\ UNCHANGED <<vectors, root_sim_count, root_state, children_stack>>

(* One turn of its loop, or of the loop after dead ends were removed. *)
Descend ==
  /\ pc = "descend"
  /\ ~is_terminal(Node(node_index))
  /\ is_node_fully_expanded(node_index)
  /\ \E i \in ChildIndices(Node(node_index)) :
       /\ children_stack' = Append(children_stack, i)
       /\ state' = apply(state, Child(i).semimove)
       /\ node_index' = Child(i).index
       /\ node_sim_count' = Child(i).sim_count
  /\ UNCHANGED <<vectors, root_sim_count, root_state, pc>>

Expand ==
  /\ pc = "descend"
  /\ ~is_expanded(Node(node_index))
  /\ LET t == create_children(tree, node_index, SetToSeq(Semimoves[state]))
     IN nodes' = t.nodes /\ children' = t.children
  /\ UNCHANGED <<root_sim_count, root_state, children_stack, state, node_index, node_sim_count, pc>>

EndSimulation ==
  /\ root_sim_count' = root_sim_count + 1
  /\ state' = root_state
  /\ node_index' = 0
  /\ node_sim_count' = 0
  /\ pc' = "return"
  /\ UNCHANGED root_state

ScoreTerminal ==
  /\ pc = "descend"
  /\ is_terminal(Node(node_index))
  /\ children' = Backpropagate(children, children_stack)
  /\ EndSimulation
  /\ UNCHANGED <<nodes, children_stack>>

AtUnvisited ==
  /\ pc = "descend"
  /\ is_expanded(Node(node_index))
  /\ ~is_terminal(Node(node_index))
  /\ ~is_node_fully_expanded(node_index)

Lower == FirstUnvisited(children, Node(node_index), node_sim_count)
Unvisited == Lower..(Node(node_index).second - 1)

(* save_path_to_nodal_state fails: the child becomes the last one of its   *)
(* node and is cut off.  A node that loses all is terminal after all.      *)
RemoveDeadEnd ==
  /\ AtUnvisited
  /\ \E i \in Unvisited :
       LET node == [Node(node_index) EXCEPT !.second = @ - 1]
       IN /\ PathsToNodal(apply(state, Child(i).semimove)) = {}
          /\ children' = Swap(Swap(children, i, Lower), Lower, node.second)
          /\ nodes' = [nodes EXCEPT ![node_index + 1] =
                         IF node.first = node.second THEN Terminated(node) ELSE node]
  /\ UNCHANGED <<root_sim_count, root_state, children_stack, state, node_index, node_sim_count, pc>>

(* It succeeds along way, having tried some dead ends on it, and the child *)
(* gets a node and a playout.                                              *)
VisitChild ==
  /\ AtUnvisited
  /\ \E i \in Unvisited :
       LET reached == apply(state, Child(i).semimove)
           front == [tree EXCEPT !.children = Swap(@, i, Lower)]
       IN \E way \in PathsToNodal(reached) :
            \E tried \in SUBSET DeadEndsAlong(reached, way) :
              LET t == Visit(front, Lower, reached, way, tried)
              IN /\ nodes' = t.nodes
                 /\ children' = Backpropagate(t.children, t.stack)
                 /\ children_stack' = t.stack
  /\ EndSimulation

(* perform_simulation returns; a roll-up tree first reads the stack. *)
FinishSimulation ==
  /\ pc = "return"
  /\ children_stack' = <<>>
  /\ pc' = "idle"
  /\ UNCHANGED <<vectors, root_sim_count, root_state, state, node_index, node_sim_count>>

-----------------------------------------------------------------------------
(* reparent_along_move.                                                    *)

NoChild == -1
NodeBelow(k) == IF k = NoChild THEN 0 ELSE Child(k).index

IsDot(e) == Len(e) = 1 /\ e[1] \in Dot

(* One turn of the loop that looks for the child below which the move m    *)
(* ends: w.i is the next action of m, w.child the child reached, w.first   *)
(* the child its node is searched from.  Dots are passed on trial and      *)
(* remembered in w.trials; a match is never taken back, and an unexpanded  *)
(* node ends the search.                                                   *)

GivenUp(m) == [i |-> Len(m) + 1, child |-> NoChild, first |-> 0, trials |-> <<>>]

Hits(m, w) ==
  {c \in ChildIndices(Node(NodeBelow(w.child))) :
     /\ c >= w.first
     /\ IsDot(Child(c).semimove) \/ IsPrefix(Child(c).semimove, SubSeq(m, w.i, Len(m)))}

(* Mutant of WalkTurn: a dot is followed like a match, with no way back. *)
WalkTurnNoReturn(m, w) ==
  LET c == Min(Hits(m, w))
  IN IF w.i > Len(m) THEN w
     ELSE IF ~is_expanded(Node(NodeBelow(w.child))) \/ Hits(m, w) = {} \/ Child(c).index = 0 THEN GivenUp(m)
     ELSE [i |-> IF IsDot(Child(c).semimove) THEN w.i ELSE w.i + Len(Child(c).semimove), child |-> c,
           first |-> Node(Child(c).index).first, trials |-> w.trials]

(* Mutant of WalkTurn: a semimove matched counts as one action. *)
WalkTurnByOne(m, w) ==
  LET c == Min(Hits(m, w))
      dot == IsDot(Child(c).semimove)
      trials == IF Hits(m, w) = {} THEN w.trials
                ELSE IF dot THEN Append(w.trials, [child |-> w.child, tried |-> c]) ELSE <<>>
      j == IF Hits(m, w) = {} \/ dot THEN w.i ELSE w.i + 1
  IN IF w.i > Len(m) THEN w
     ELSE IF ~is_expanded(Node(NodeBelow(w.child))) THEN GivenUp(m)
     ELSE IF Hits(m, w) # {} /\ Child(c).index # 0
          THEN [i |-> j, child |-> c, first |-> Node(Child(c).index).first, trials |-> trials]
     ELSE IF trials # <<>>
          THEN [i |-> j, child |-> Last(trials).child, first |-> Last(trials).tried + 1,
                trials |-> Front(trials)]
     ELSE GivenUp(m)

WalkTurn(m, w) ==
  LET c == Min(Hits(m, w))
      dot == IsDot(Child(c).semimove)
      trials == IF Hits(m, w) = {} THEN w.trials
                ELSE IF dot THEN Append(w.trials, [child |-> w.child, tried |-> c]) ELSE <<>>
      j == IF Hits(m, w) = {} \/ dot THEN w.i ELSE w.i + Len(Child(c).semimove)
  IN IF w.i > Len(m) THEN w
     ELSE IF ~is_expanded(Node(NodeBelow(w.child))) THEN GivenUp(m)
     ELSE IF Hits(m, w) # {} /\ Child(c).index # 0
          THEN [i |-> j, child |-> c, first |-> Node(Child(c).index).first, trials |-> trials]
     ELSE IF trials # <<>>
          THEN [i |-> j, child |-> Last(trials).child, first |-> Last(trials).tried + 1,
                trials |-> Front(trials)]
     ELSE GivenUp(m)

(* The loop: it enters and leaves every child at most once. *)
Walk(m) ==
  LET turn[n \in 0..(2 * Len(children) + 1)] ==
        IF n = 0 THEN [i |-> 1, child |-> NoChild, first |-> Node(0).first, trials |-> <<>>]
        ELSE WalkTurn(m, turn[n - 1])
      done == turn[2 * Len(children) + 1]
  IN IF done.i > Len(m) THEN done.child ELSE NoChild

(* root_at_index, and what follows it. *)
Rerooted(k, s) ==
  LET order == Preorder(Child(k).index)
      fixed == FixedNodes(order)
      root == IF Head(fixed).status # "unknown" THEN Head(fixed)
              ELSE IF has_nodal_successor(s) THEN [Head(fixed) EXCEPT !.status = "nonterminal"]
              ELSE Terminated(Head(fixed))
      t == [nodes |-> <<root>> \o Tail(fixed), children |-> FixedChildren(order)]
  IN IF is_expanded(root) THEN t ELSE create_children(t, 0, SetToSeq(Semimoves[s]))

StateAfter(m) == IF m = <<>> THEN root_state ELSE AfterMove(root_state, m)

ReparentAlongMove(m) ==
  LET k == Walk(m)
      t == IF NodeBelow(k) = 0 THEN FreshTree(StateAfter(m)) ELSE Rerooted(k, StateAfter(m))
  IN /\ root_state' = StateAfter(m)
     /\ state' = StateAfter(m)
     /\ root_sim_count' = IF NodeBelow(k) = 0 THEN 0 ELSE Child(k).sim_count
     /\ nodes' = t.nodes
     /\ children' = t.children
     /\ UNCHANGED <<children_stack, node_index, node_sim_count, pc>>

-----------------------------------------------------------------------------
(* choose_best_move.                                                       *)

(* The paths that may be saved: visited children down to a node that is    *)
(* nodal or not expanded.                                                  *)
SavedPaths ==
  LET below[n \in Nodes] ==
        UNION {LET next == Child(k).index
               IN {<<k>> \o p : p \in IF Node(next).is_nodal \/ ~is_expanded(Node(next))
                                      THEN {<<>>} ELSE below[next]} :
                 k \in {c \in ChildIndices(Node(n)) : Child(c).sim_count > 0}}
  IN below[0]

Edges(saved) == [k \in DOMAIN saved |-> Child(saved[k]).semimove]

AfterEdges(s, edges) ==
  LET at[k \in 0..Len(edges)] == IF k = 0 THEN s ELSE apply(at[k - 1], edges[k])
  IN at[Len(edges)]

(* Mutant of MovesFromPath: no random suffix. *)
MovesFromPathBare(saved) == {Text(Edges(saved))}

(* get_move_from_saved_path_with_random_suffix.  Of actions all dots are   *)
(* left out before the move is applied, of semimoves all but the last.     *)
MovesFromPath(saved) ==
  LET text == Text(Edges(saved))
      reached == IF GETTER = "S" THEN AfterEdges(root_state, Edges(saved))
                 ELSE StateAfterText(root_state, text)
  IN IF reached \in Nodal THEN {text}
     ELSE {text \o Text(way) : way \in PathsToNodal(reached)}

OpponentMove ==
  /\ pc = "idle"
  /\ ~is_terminal(Node(0))
  /\ Mover[root_state] # us
  /\ \E m \in Moves(root_state) : ReparentAlongMove(m)

(* choose_best_move, asked for after a simulation at least, and the move   *)
(* tree_handler makes of it.                                               *)
ChooseBestMove ==
  /\ pc = "idle"
  /\ ~is_terminal(Node(0))
  /\ Mover[root_state] = us
  /\ \E saved \in SavedPaths : \E m \in MovesFromPath(saved) : ReparentAlongMove(m)

ResetTree ==
  /\ pc = "idle"
  /\ is_terminal(Node(0))
  /\ root_state' = InitState
  /\ state' = InitState
  /\ root_sim_count' = 0
  /\ nodes' = FreshTree(InitState).nodes
  /\ children' = FreshTree(InitState).children
  /\ UNCHANGED <<children_stack, node_index, node_sim_count, pc>>

SimulationStep ==
  \/ BeginSimulation \/ Descend \/ Expand
  \/ ScoreTerminal \/ RemoveDeadEnd \/ VisitChild

Next ==
  \/ SimulationStep \/ FinishSimulation
  \/ OpponentMove \/ ChooseBestMove \/ ResetTree

Spec == Init /\ [][Next]_vars
-----------------------------------------------------------------------------
Count == 0..(MaxSims + 1)

(* Types of every variable, and ranges that lie inside the vector. *)
TypeOK ==
  /\ nodes \in Seq([first : Nat, second : Nat, is_nodal : BOOLEAN,
                    status : {"terminal", "nonterminal", "unknown"}])
  /\ \A n \in Nodes : is_expanded(Node(n)) => Node(n).second <= Len(children)
  /\ children \in Seq([semimove : Seq(Action), index : Nodes, sim_count : Nat])
  /\ root_sim_count \in Count
  /\ root_state \in Nodal
  /\ children_stack \in Seq(Children)
  /\ state \in State
  /\ node_index \in Nodes
  /\ node_sim_count \in Count
  /\ pc \in {"idle", "descend", "return"}

Visited(n) == {k \in ChildIndices(Node(n)) : Child(k).index # 0}

(* The nodes of the tree with their states and simulation counts, level by *)
(* level.                                                                  *)
Live ==
  LET level[d \in Nodes] ==
        IF d = 0 THEN {[node |-> 0, state |-> root_state, sims |-> root_sim_count]}
        ELSE UNION {{[node |-> Child(k).index, state |-> apply(x.state, Child(k).semimove),
                      sims |-> Child(k).sim_count] : k \in Visited(x.node)} : x \in level[d - 1]}
  IN UNION {level[d] : d \in Nodes}

(* How a turn may go on from s. *)
Rests(s) == IF s \in Nodal THEN {<<>>} ELSE Moves(s)

(* The moves that pass through the children of a node are the legal moves  *)
(* of its state, each once, whatever removals, swaps, chains, roll-ups and *)
(* copies the children went through.                                       *)
EdgesCoverMoves ==
  \A x \in Live : is_expanded(Node(x.node)) =>
    LET through(k) == {Written(Child(k).semimove) \o r : r \in Rests(apply(x.state, Child(k).semimove))}
    IN /\ UNION {through(k) : k \in ChildIndices(Node(x.node))} = Moves(x.state)
       /\ \A j, k \in ChildIndices(Node(x.node)) : j # k => through(j) \intersect through(k) = {}

(* The asserts on statuses: between simulations none is unknown, a node is *)
(* terminal exactly where the game is over, nodal exactly where a turn     *)
(* begins.  The status decides whether get_status calls the game finished. *)
StatusesTrue ==
  pc = "idle" => \A x \in Live :
    /\ Node(x.node).is_nodal <=> x.state \in Nodal
    /\ Node(x.node).status =
         IF x.state \in Nodal /\ ~has_nodal_successor(x.state) THEN "terminal" ELSE "nonterminal"

(* The asserts of get_unvisited_child_index and is_node_fully_expanded     *)
(* survive the removal of dead ends: visited children come first, and the  *)
(* guess from the simulation count finds the first one that is not.        *)
VisitedFirst ==
  \A x \in Live : is_expanded(Node(x.node)) /\ ~is_terminal(Node(x.node)) =>
    LET node == Node(x.node)
        open == {k \in ChildIndices(node) : Child(k).index = 0}
    IN /\ \A k \in open : \A j \in k..(node.second - 1) : Child(j).index = 0
       /\ open # {} => FirstUnvisited(children, node, x.sims) = Min(open)

(* No simulation is lost or counted twice: a node was simulated once on    *)
(* its own, unless it was added with a child of its own, and otherwise     *)
(* through its children.                                                   *)
VisitsConserved ==
  /\ \A k \in Children : Child(k).index = 0 <=> Child(k).sim_count = 0
  /\ \A x \in Live : is_expanded(Node(x.node)) /\ ~is_terminal(Node(x.node)) =>
       IF x.node = 0 THEN x.sims - ChildSims(0) \in {0, 1}
       ELSE x.sims = ChildSims(x.node) + (IF IS_NODAL /\ ~Node(x.node).is_nodal THEN 0 ELSE 1)

(* Whatever path is saved, the text sent is a legal move; and no path gets *)
(* to an expanded node without a visited child, against the assert of      *)
(* get_top_ranked_child_index.                                             *)
ChosenMoveLegal ==
  pc = "idle" /\ Mover[root_state] = us /\ ~is_terminal(Node(0)) =>
    /\ \A x \in Live : x.state \notin Nodal /\ is_expanded(Node(x.node)) => ChildSims(x.node) > 0
    /\ \A saved \in SavedPaths :
         /\ MovesFromPath(saved) # {}
         /\ MovesFromPath(saved) \subseteq Moves(root_state)

(* What the tree knows below a node, whatever the indices. *)
Knowledge ==
  LET below[n \in Nodes] ==
        {<<Child(k).semimove, Child(k).sim_count, below[Child(k).index]>> : k \in Visited(n)}
  IN below

(* The children below which a turn goes to its end, with the text from the *)
(* node on; hidden if a semimove on the way ends in a split point, which   *)
(* no text shows.                                                          *)
TurnEnds ==
  LET ends[n \in Nodes] ==
        UNION {LET e == Child(k).semimove
                   next == Child(k).index
                   hides == Len(e) > 1 /\ Last(e) \in Dot
               IN IF Node(next).is_nodal THEN {[text |-> Written(e), child |-> k, hidden |-> hides]}
                  ELSE {[text |-> Written(e) \o x.text, child |-> x.child, hidden |-> hides \/ x.hidden] :
                          x \in ends[next]} : k \in Visited(n)}
  IN ends

(* Where the search for a move may give up. *)
Unfinished == \E x \in Live : x.state \notin Nodal /\ ~is_expanded(Node(x.node))

(* What the search has read of a move tells the state it was read to: no   *)
(* other way through the turn begins like the move and goes on otherwise.  *)
Telling ==
  \A s \in Nodal : \A r \in Reachable[s] : \A m \in Moves(s) :
    IsPrefix(r.actions, m) => \E z \in Rests(r.state) : m = r.actions \o z

(* A turn is played by re-rooting along a legal move; and for every such   *)
(* move, re-rooting finds it through any number of dots and keeps all that *)
(* was known below it, and nothing else.  It forgets everything where      *)
(* nothing was known of this move, and at worst where the move hides       *)
(* behind the split point of a longer semimove or a turn of the tree is    *)
(* unfinished.                                                             *)
KeepsSubtree ==
  [][/\ root_state' # root_state /\ ~is_terminal(Node(0)) =>
          \E m \in Moves(root_state) : ReparentAlongMove(m)
     /\ \A m \in Moves(root_state) : pc = "idle" /\ ReparentAlongMove(m) =>
          LET ends == {e \in TurnEnds[0] : e.text = m}
          IN /\ root_state' = AfterMove(root_state, m)
             /\ \/ \E e \in ends : /\ root_sim_count' = Child(e.child).sim_count
                                   /\ Knowledge[0]' = Knowledge[Child(e.child).index]
                \/ /\ Unfinished \/ \A e \in ends : e.hidden
                   /\ root_sim_count' = 0
                   /\ Knowledge[0]' = {}]_vars

AllMoves == UNION {Moves(s) : s \in Nodal}
RootStatus ==
  [s \in Nodal |-> IF ~has_nodal_successor(s) THEN "end_game"
                   ELSE IF Mover[s] = us THEN "own_turn" ELSE "opponent_turn"]

Search == INSTANCE SearchTree WITH
  Position <- Nodal, InitPos <- InitState, Move <- AllMoves, Status <- RootStatus,
  Legal <- [s \in Nodal |-> Moves(s)],
  After <- [s \in Nodal |-> [m \in AllMoves |-> IF m \in Moves(s) THEN AfterMove(s, m) ELSE s]],
  rootPos <- root_state, rootVisits <- ChildSims(0), MaxVisits <- MaxSims + 1

(* This tree, too, keeps the promise of SearchTree: however many semimoves *)
(* a turn has, the worker sees whole moves, a simulation adds one visit,   *)
(* re-rooting keeps fewer than there were.                                 *)
ImplementsSearchTree == Search!TreeSpec
=============================================================================
