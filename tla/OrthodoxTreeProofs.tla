------------------------- MODULE OrthodoxTreeProofs -------------------------
(***************************************************************************)
(* The orthodox player's tree keeps its shape, its moves and its counts    *)
(* through every simulation and every re-rooting, for every game and any   *)
(* number of simulations, and so keeps the promise of SearchTree.          *)
(***************************************************************************)
EXTENDS OrthodoxTree, MctsTreeProofs

(* Indices of a vector, the nodes with children, the children of a node.   *)
Indices(v) == 0..(Len(v) - 1)
Expanded(ns) == {n \in Indices(ns) : is_expanded(ns[n + 1])}
BlockOf(ns, n) == ChildIndices(ns[n + 1])

NodeRecord == [first : Nat, second : Nat]
ChildRecord == [move : Move, index : Nat, sim_count : Nat, total_score : Nat]

Vectors(ns, cs) ==
  /\ ns \in Seq(NodeRecord)
  /\ cs \in Seq(ChildRecord)
  /\ 0 \in Indices(ns)
  /\ \A n \in Expanded(ns) : ns[n + 1].second <= Len(cs)

(* One tree: every child belongs to one node, every node but the root to   *)
(* one child, of an older node.                                            *)
Links(ns, cs) ==
  /\ \A n \in Expanded(ns) : \A i \in BlockOf(ns, n) :
       cs[i + 1].index # 0 => n < cs[i + 1].index /\ cs[i + 1].index < Len(ns)
  /\ \A i, j \in Indices(cs) : cs[i + 1].index = cs[j + 1].index /\ cs[i + 1].index # 0 => i = j
  /\ \A n \in Indices(ns) \ {0} : \E i \in Indices(cs) : cs[i + 1].index = n
  /\ \A i \in Indices(cs) : \E n \in Expanded(ns) : i \in BlockOf(ns, n)
  /\ \A n, m \in Expanded(ns) : \A i \in BlockOf(ns, n) : i \in BlockOf(ns, m) => n = m

(* Node n stands for position pos[n], and its children for the moves of    *)
(* that position.                                                          *)
Placement(ns, cs, root, pos) ==
  /\ pos \in [Indices(ns) -> Position]
  /\ pos[0] = root
  /\ \A n \in Expanded(ns) : \A i \in BlockOf(ns, n) :
       cs[i + 1].index # 0 => pos[cs[i + 1].index] = After[pos[n]][cs[i + 1].move]

Moves(ns, cs, pos) ==
  \A n \in Expanded(ns) :
    /\ \A i \in BlockOf(ns, n) : cs[i + 1].move \in Legal[pos[n]]
    /\ \A m \in Legal[pos[n]] : \E i \in BlockOf(ns, n) : cs[i + 1].move = m
    /\ \A i, j \in BlockOf(ns, n) : cs[i + 1].move = cs[j + 1].move => i = j

VisitedOrder(ns, cs) ==
  \A n \in Expanded(ns) : \A i, j \in BlockOf(ns, n) :
    i < j /\ cs[j + 1].index # 0 => cs[i + 1].index # 0

(* A node simulated s times: once by itself, then through its children.    *)
Balanced(ns, cs, n, s) ==
  /\ n \notin Expanded(ns) => s = 1
  /\ n \in Expanded(ns) /\ ~is_terminal(ns[n + 1]) => s = BlockSims(cs, ns[n + 1]) + 1

RootBalanced(ns, cs, total) ==
  \/ Balanced(ns, cs, 0, total)
  \/ 0 \in Expanded(ns) /\ total = BlockSims(cs, ns[1])

Counted(ns, cs, total) ==
  /\ \A i \in Indices(cs) :
       /\ cs[i + 1].sim_count <= total
       /\ cs[i + 1].index = 0 <=> cs[i + 1].sim_count = 0
       /\ cs[i + 1].index # 0 => Balanced(ns, cs, cs[i + 1].index, cs[i + 1].sim_count)
  /\ RootBalanced(ns, cs, total)

Tree(ns, cs, root, pos) ==
  /\ Vectors(ns, cs)
  /\ Links(ns, cs)
  /\ Placement(ns, cs, root, pos)
  /\ Moves(ns, cs, pos)
  /\ VisitedOrder(ns, cs)

(* The children in on lead from the root to node e.                        *)
Way(ns, cs, on, e) ==
  /\ on \subseteq Indices(cs)
  /\ \A i \in on : cs[i + 1].index # 0
  /\ \A n \in Expanded(ns) : \A i, j \in on \cap BlockOf(ns, n) : i = j
  /\ e = 0 \/ \E i \in on : cs[i + 1].index = e
  /\ e \in Expanded(ns) => on \cap BlockOf(ns, e) = {}
  /\ e # 0 => 0 \in Expanded(ns) /\ on \cap BlockOf(ns, 0) # {}
  /\ \A i \in on : cs[i + 1].index # e =>
       cs[i + 1].index \in Expanded(ns) /\ on \cap BlockOf(ns, cs[i + 1].index) # {}
  /\ \A n \in Expanded(ns) : on \cap BlockOf(ns, n) # {} =>
       n = 0 \/ \E i \in on : cs[i + 1].index = n

OnWay(stack) == {e.child : e \in ToSet(stack)}

-----------------------------------------------------------------------------
(* The children create_children adds for position p.                       *)
ListsMoves(p, new) ==
  /\ new \in Seq(ChildRecord)
  /\ \A k \in 1..Len(new) :
       /\ new[k].move \in Legal[p]
       /\ new[k].index = 0
       /\ new[k].sim_count = 0
  /\ \A m \in Legal[p] : \E k \in 1..Len(new) : new[k].move = m
  /\ \A k, l \in 1..Len(new) : new[k].move = new[l].move => k = l

(* create_children adds every legal move once, unvisited. *)
LEMMA NewChildrenList ==
  ASSUME NEW p \in Position
  PROVE  ListsMoves(p, new_children(p))
<1> DEFINE moves == SetToSeq(Legal[p])
           new == new_children(p)
<1>1. IsFiniteSet(Legal[p]) /\ Legal[p] \subseteq Move
  BY TreeAssumption, GameAssumption
<1>2. /\ moves \in Seq(Legal[p])
      /\ Len(moves) \in Nat
      /\ \A i, j \in 1..Len(moves) : moves[i] = moves[j] => i = j
      /\ \A m \in Legal[p] : \E i \in 1..Len(moves) : moves[i] = m
  BY <1>1, SetToSeqLists
<1>3. new = [k \in 1..Len(moves) |-> new_child(moves[k])]
  BY DEF new_children
<1> HIDE DEF moves, new
<1>4. Len(new) = Len(moves) /\ \A k \in 1..Len(moves) : new[k] = new_child(moves[k])
  BY <1>2, <1>3
<1>5. \A k \in 1..Len(moves) : moves[k] \in Legal[p]
  BY <1>2
<1>6. new \in Seq(ChildRecord)
  <2>1. \A k \in 1..Len(moves) : new_child(moves[k]) \in ChildRecord
    BY <1>1, <1>5 DEF new_child, ChildRecord
  <2> QED
    BY <1>2, <1>3, <2>1
<1>7. \A k \in 1..Len(moves) : new[k].move = moves[k] /\ new[k].index = 0 /\ new[k].sim_count = 0
  <2> TAKE k \in 1..Len(moves)
  <2>1. new[k] = [move |-> moves[k], index |-> 0, sim_count |-> 0, total_score |-> 0]
    BY <1>4 DEF new_child
  <2> QED
    BY <2>1
<1>8. ListsMoves(p, new)
  BY <1>2, <1>4, <1>5, <1>6, <1>7 DEF ListsMoves
<1> QED
  BY <1>8 DEF new

-----------------------------------------------------------------------------
(* Facts about any tree.                                                   *)

(* Types and ranges of what the vectors hold. *)
LEMMA VectorFacts ==
  ASSUME NEW ns, NEW cs, Vectors(ns, cs)
  PROVE  /\ Len(ns) \in Nat \ {0}
         /\ Len(cs) \in Nat
         /\ \A n \in Indices(ns) :
              n \in Nat /\ n < Len(ns) /\ ns[n + 1] \in NodeRecord
              /\ ns[n + 1].first \in Nat /\ ns[n + 1].second \in Nat
         /\ \A i \in Indices(cs) :
              /\ i \in Nat /\ i < Len(cs) /\ cs[i + 1] \in ChildRecord
              /\ cs[i + 1].index \in Nat /\ cs[i + 1].sim_count \in Nat /\ cs[i + 1].move \in Move
         /\ \A n \in Expanded(ns) :
              /\ n \in Indices(ns)
              /\ ns[n + 1].first <= ns[n + 1].second
              /\ ns[n + 1].second <= Len(cs)
              /\ BlockOf(ns, n) \subseteq Indices(cs)
<1>1. Len(ns) \in Nat /\ Len(cs) \in Nat /\ 0 \in 0..(Len(ns) - 1)
  BY DEF Vectors, Indices
<1>2. \A n \in Indices(ns) : n \in Nat /\ n < Len(ns) /\ n + 1 \in 1..Len(ns)
  BY <1>1 DEF Indices
<1>3. \A i \in Indices(cs) : i \in Nat /\ i < Len(cs) /\ i + 1 \in 1..Len(cs)
  BY <1>1 DEF Indices
<1>4. \A n \in Indices(ns) : ns[n + 1] \in NodeRecord
  BY <1>2 DEF Vectors
<1>5. \A i \in Indices(cs) : cs[i + 1] \in ChildRecord
  BY <1>3 DEF Vectors
<1>6. \A r \in NodeRecord : r.first \in Nat /\ r.second \in Nat
  BY DEF NodeRecord
<1>7. \A r \in ChildRecord : r.index \in Nat /\ r.sim_count \in Nat /\ r.move \in Move
  BY DEF ChildRecord
<1>8. ASSUME NEW n \in Expanded(ns)
      PROVE  /\ n \in Indices(ns)
             /\ ns[n + 1].first <= ns[n + 1].second
             /\ ns[n + 1].second <= Len(cs)
             /\ BlockOf(ns, n) \subseteq Indices(cs)
  <2>1. n \in Indices(ns) /\ ns[n + 1].first <= ns[n + 1].second
    BY DEF Expanded, is_expanded
  <2>2. ns[n + 1].second <= Len(cs)
    BY DEF Vectors
  <2>3. ns[n + 1].first \in Nat /\ ns[n + 1].second \in Nat
    BY <1>4, <1>6, <2>1
  <2>4. BlockOf(ns, n) \subseteq Indices(cs)
    BY <1>1, <2>2, <2>3 DEF BlockOf, ChildIndices, Indices
  <2> QED
    BY <2>1, <2>2, <2>4
<1> QED
  BY <1>1, <1>2, <1>3, <1>4, <1>5, <1>6, <1>7, <1>8

(* The simulations of a block are at least those of each of its children. *)
LEMMA BlockSimsNat ==
  ASSUME NEW ns, NEW cs, Vectors(ns, cs), NEW n \in Expanded(ns)
  PROVE  /\ BlockSims(cs, ns[n + 1]) \in Nat
         /\ \A i \in BlockOf(ns, n) : cs[i + 1].sim_count <= BlockSims(cs, ns[n + 1])
<1> DEFINE a == ns[n + 1].first
           b == ns[n + 1].second
           m == b - a
           f == SimCounts(cs)
<1>1. a \in Nat /\ b \in Nat /\ m \in Nat /\ b = a + m /\ b <= Len(cs) /\ Len(cs) \in Nat
  BY VectorFacts
<1>2. BlockOf(ns, n) = a..(b - 1) /\ ChildIndices(ns[n + 1]) = a..(b - 1)
  BY DEF BlockOf, ChildIndices
<1> HIDE DEF a, b, m
<1>3. \A i \in a..(b - 1) : f[i] = cs[i + 1].sim_count /\ f[i] \in Nat
  <2> TAKE i \in a..(b - 1)
  <2>1. i \in Indices(cs)
    BY <1>1 DEF Indices
  <2>2. f[i] = cs[i + 1].sim_count
    BY <2>1 DEF SimCounts, Indices
  <2> HIDE DEF f
  <2> QED
    BY <2>1, <2>2, VectorFacts
<1> HIDE DEF f
<1>4. \A k \in 0..(m - 1) : f[a + k] \in Nat
  BY <1>1, <1>3
<1>9. a \in Int /\ b \in Int /\ m \in Nat
  BY <1>1
<1>5. /\ SumOver(f, a..((a + m) - 1)) >= 0
      /\ \A k \in 0..(m - 1) : f[a + k] <= SumOver(f, a..((a + m) - 1))
  <2>1. 0 \in 0..m /\ \A k \in 0..(0 - 1) : f[a + k] > 0
    BY <1>1
  <2> QED
    BY <1>4, <1>9, <2>1, RangeSumBounds
<1>6. SumOver(f, a..(b - 1)) \in Nat
  BY <1>3, <1>9, RangeSumNat
<1>7. SumOver(f, a..(b - 1)) = BlockSims(cs, ns[n + 1])
  BY <1>2 DEF BlockSims, f
<1>8. ASSUME NEW i \in a..(b - 1)
      PROVE  f[i] <= SumOver(f, a..(b - 1))
  <2>1. i - a \in 0..(m - 1) /\ a + (i - a) = i
    BY <1>1
  <2>2. f[a + (i - a)] <= SumOver(f, a..((a + m) - 1))
    BY <1>5, <2>1
  <2> QED
    BY <1>1, <2>1, <2>2
<1> QED
  BY <1>2, <1>3, <1>6, <1>7, <1>8

(* The way goes on from its end. *)
LEMMA WayGoesOn ==
  ASSUME NEW ns, NEW cs, Vectors(ns, cs), Links(ns, cs), NEW on, NEW e, Way(ns, cs, on, e),
         e \in Expanded(ns), NEW i \in BlockOf(ns, e), cs[i + 1].index # 0
  PROVE  Way(ns, cs, on \cup {i}, cs[i + 1].index)
<1> DEFINE c == cs[i + 1].index
           up == on \cup {i}
<1>1. i \in Indices(cs) /\ e < c /\ e \in Nat /\ c \in Nat \ {0}
  BY VectorFacts DEF Links
<1>2. on \cap BlockOf(ns, e) = {} /\ i \notin on
  BY DEF Way
<1>3. \A n \in Expanded(ns) : i \in BlockOf(ns, n) => n = e
  BY DEF Links
<1>4. \A j \in on : cs[j + 1].index # c
  BY <1>1, <1>2 DEF Links, Way
<1> HIDE DEF c
<1>5. up \subseteq Indices(cs) /\ \A j \in up : cs[j + 1].index # 0
  BY <1>1 DEF Way, c
<1>6. \A n \in Expanded(ns) : \A j, k \in up \cap BlockOf(ns, n) : j = k
  <2> TAKE n \in Expanded(ns)
  <2>1. CASE n = e
    BY <1>2, <2>1
  <2>2. CASE n # e
    BY <1>3, <2>2 DEF Way
  <2> QED
    BY <2>1, <2>2
<1>7. c = 0 \/ \E j \in up : cs[j + 1].index = c
  BY DEF c
<1>8. c \in Expanded(ns) => up \cap BlockOf(ns, c) = {}
  <2> SUFFICES ASSUME c \in Expanded(ns), NEW j \in up, j \in BlockOf(ns, c) PROVE FALSE
    OBVIOUS
  <2>1. j # i
    BY <1>1, <1>3
  <2>2. \E k \in on : cs[k + 1].index = c
    BY <1>1, <2>1 DEF Way
  <2> QED
    BY <1>4, <2>2
<1>9. 0 \in Expanded(ns) /\ up \cap BlockOf(ns, 0) # {}
  BY DEF Way
<1>10. \A j \in up : cs[j + 1].index # c =>
         cs[j + 1].index \in Expanded(ns) /\ up \cap BlockOf(ns, cs[j + 1].index) # {}
  <2> TAKE j \in up
  <2> HAVE cs[j + 1].index # c
  <2>1. j \in on
    BY DEF c
  <2>2. CASE cs[j + 1].index = e
    BY <2>2
  <2>3. CASE cs[j + 1].index # e
    BY <2>1, <2>3 DEF Way
  <2> QED
    BY <2>2, <2>3
<1>11. \A n \in Expanded(ns) : up \cap BlockOf(ns, n) # {} =>
         n = 0 \/ \E j \in up : cs[j + 1].index = n
  <2> TAKE n \in Expanded(ns)
  <2> HAVE up \cap BlockOf(ns, n) # {}
  <2>1. CASE n = e
    BY <2>1 DEF Way
  <2>2. CASE n # e
    BY <1>3, <2>2 DEF Way
  <2> QED
    BY <2>1, <2>2
<1> HIDE DEF up
<1>12. Way(ns, cs, up, c)
  BY <1>5, <1>6, <1>7, <1>8, <1>9, <1>10, <1>11 DEF Way
<1> QED
  BY <1>12 DEF up, c

-----------------------------------------------------------------------------
(* create_children: the node becomes the parent of a new block at the end. *)

Widened(ns, cs, n, new) ==
  [ns EXCEPT ![n + 1] = [first |-> Len(cs), second |-> Len(cs) + Len(new)]]

(* What the new block changes: the node, and nothing that was there. *)
Widens(ns, cs, n, new, ms, ds) ==
  /\ ms \in Seq(NodeRecord) /\ ds \in Seq(ChildRecord)
  /\ Len(ms) = Len(ns) /\ Len(ds) = Len(cs) + Len(new)
  /\ Expanded(ms) = Expanded(ns) \cup {n}
  /\ \A m \in Indices(ns) \ {n} : ms[m + 1] = ns[m + 1]
  /\ ms[n + 1] = [first |-> Len(cs), second |-> Len(cs) + Len(new)]
  /\ \A i \in Indices(cs) : ds[i + 1] = cs[i + 1] /\ i \in Indices(ds) /\ i \notin BlockOf(ms, n)
  /\ \A i \in BlockOf(ms, n) :
       i \in Indices(ds) /\ i - Len(cs) + 1 \in 1..Len(new) /\ ds[i + 1] = new[i - Len(cs) + 1]
  /\ \A k \in 1..Len(new) :
       Len(cs) + k - 1 \in BlockOf(ms, n) /\ ds[Len(cs) + k - 1 + 1] = new[k]
  /\ \A i \in Indices(ds) : i \in Indices(cs) \/ i \in BlockOf(ms, n)

(* Listing the children of a node leaves the rest of the vectors alone. *)
LEMMA WidensFacts ==
  ASSUME NEW ns, NEW cs, Vectors(ns, cs), NEW n \in Indices(ns), NEW new \in Seq(ChildRecord)
  PROVE  Widens(ns, cs, n, new, Widened(ns, cs, n, new), cs \o new)
<1> DEFINE ms == Widened(ns, cs, n, new)
           ds == cs \o new
           a == Len(cs)
           l == Len(new)
<1>1. a \in Nat /\ l \in Nat /\ Len(ns) \in Nat /\ n \in Nat /\ n + 1 \in 1..Len(ns)
  BY VectorFacts DEF Indices
<1>2. /\ ns \in Seq(NodeRecord) /\ cs \in Seq(ChildRecord)
  BY DEF Vectors
<1>3. ds \in Seq(ChildRecord) /\ Len(ds) = a + l
  BY <1>2
<1>4. /\ \A i \in 1..a : ds[i] = cs[i]
      /\ \A i \in (a + 1)..(a + l) : ds[i] = new[i - a]
  BY <1>2
<1> HIDE DEF ds
<1>5. [first |-> a, second |-> a + l] \in NodeRecord
  BY <1>1 DEF NodeRecord
<1>6. /\ ms \in Seq(NodeRecord) /\ Len(ms) = Len(ns)
      /\ \A k \in 1..Len(ns) : k # n + 1 => ms[k] = ns[k]
      /\ ms[n + 1] = [first |-> a, second |-> a + l]
  BY <1>1, <1>2, <1>5 DEF Widened
<1> HIDE DEF a, l, ms
<1>7. \A m \in Indices(ns) \ {n} : ms[m + 1] = ns[m + 1]
  <2> TAKE m \in Indices(ns) \ {n}
  <2>1. m + 1 \in 1..Len(ns) /\ m + 1 # n + 1
    BY <1>1 DEF Indices
  <2> QED
    BY <1>6, <2>1
<1>8. Expanded(ms) = Expanded(ns) \cup {n}
  <2>1. Indices(ms) = Indices(ns)
    BY <1>6 DEF Indices
  <2>2. is_expanded(ms[n + 1])
    BY <1>1, <1>6 DEF is_expanded
  <2> QED
    BY <1>7, <2>1, <2>2 DEF Expanded
<1>9. BlockOf(ms, n) = a..((a + l) - 1)
  BY <1>6 DEF BlockOf, ChildIndices
<1>10. Indices(cs) = 0..(a - 1) /\ Indices(ds) = 0..((a + l) - 1)
  BY <1>3 DEF Indices, a
<1>11. \A i \in Indices(cs) : ds[i + 1] = cs[i + 1] /\ i \in Indices(ds) /\ i \notin BlockOf(ms, n)
  <2> TAKE i \in Indices(cs)
  <2>1. i + 1 \in 1..a
    BY <1>1, <1>10
  <2> QED
    BY <1>1, <1>4, <1>9, <1>10, <2>1
<1>12. \A i \in BlockOf(ms, n) :
         i \in Indices(ds) /\ i - a + 1 \in 1..l /\ ds[i + 1] = new[i - a + 1]
  <2> TAKE i \in BlockOf(ms, n)
  <2>1. i + 1 \in (a + 1)..(a + l) /\ (i + 1) - a = i - a + 1
    BY <1>1, <1>9
  <2> QED
    BY <1>1, <1>4, <1>9, <1>10, <2>1
<1>13. \A k \in 1..l : a + k - 1 \in BlockOf(ms, n) /\ ds[a + k - 1 + 1] = new[k]
  <2> TAKE k \in 1..l
  <2>1. a + k - 1 + 1 \in (a + 1)..(a + l) /\ (a + k - 1 + 1) - a = k
    BY <1>1
  <2> QED
    BY <1>1, <1>4, <1>9, <2>1
<1>14. \A i \in Indices(ds) : i \in Indices(cs) \/ i \in BlockOf(ms, n)
  BY <1>1, <1>9, <1>10
<1>15. Widens(ns, cs, n, new, ms, ds)
  BY <1>3, <1>6, <1>7, <1>8, <1>11, <1>12, <1>13, <1>14 DEF Widens, a, l
<1> QED
  BY <1>15 DEF ms, ds

(* A node that gets its children leaves a tree a tree, *)
LEMMA ExpandKeepsTree ==
  ASSUME NEW ns, NEW cs, NEW root, NEW pos, Tree(ns, cs, root, pos),
         NEW n \in Indices(ns), n \notin Expanded(ns),
         NEW new, ListsMoves(pos[n], new),
         NEW ms, NEW ds, Widens(ns, cs, n, new, ms, ds)
  PROVE  /\ Tree(ms, ds, root, pos)
         /\ \A m \in Expanded(ns) : BlockOf(ms, m) = BlockOf(ns, m)
<1>1. Vectors(ns, cs) /\ Links(ns, cs)
  BY DEF Tree
<1>2. /\ Expanded(ms) = Expanded(ns) \cup {n}
      /\ Indices(ms) = Indices(ns)
      /\ \A i \in Indices(cs) : ds[i + 1] = cs[i + 1] /\ i \in Indices(ds) /\ i \notin BlockOf(ms, n)
      /\ \A i \in Indices(ds) : i \in Indices(cs) \/ i \in BlockOf(ms, n)
  BY DEF Widens, Indices
<1>3. \A i \in BlockOf(ms, n) :
        /\ i - Len(cs) + 1 \in 1..Len(new)
        /\ ds[i + 1] = new[i - Len(cs) + 1]
        /\ ds[i + 1].index = 0
        /\ ds[i + 1].move \in Legal[pos[n]]
  <2> TAKE i \in BlockOf(ms, n)
  <2> DEFINE k == i - Len(cs) + 1
  <2>1. k \in 1..Len(new) /\ ds[i + 1] = new[k]
    BY DEF Widens
  <2> HIDE DEF k
  <2>2. new[k].index = 0 /\ new[k].move \in Legal[pos[n]]
    BY <2>1 DEF ListsMoves
  <2> QED
    BY <2>1, <2>2 DEF k
<1>4. \A m \in Expanded(ns) : /\ BlockOf(ms, m) = BlockOf(ns, m)
                              /\ m \in Indices(ns) /\ m # n
                              /\ ms[m + 1] = ns[m + 1]
                              /\ BlockOf(ns, m) \subseteq Indices(cs)
  <2> TAKE m \in Expanded(ns)
  <2>1. m \in Indices(ns) \ {n} /\ BlockOf(ns, m) \subseteq Indices(cs)
    BY <1>1, VectorFacts
  <2>2. ms[m + 1] = ns[m + 1]
    BY <2>1 DEF Widens
  <2> QED
    BY <2>1, <2>2 DEF BlockOf
<1>5. Vectors(ms, ds)
  <2>1. Len(cs) \in Nat /\ Len(ds) = Len(cs) + Len(new) /\ Len(new) \in Nat
    BY <1>1, VectorFacts DEF Widens, ListsMoves
  <2>2. ms[n + 1].second = Len(ds)
    BY <2>1 DEF Widens
  <2>3. \A m \in Expanded(ms) : ms[m + 1].second <= Len(ds)
    <3> TAKE m \in Expanded(ms)
    <3>1. CASE m = n
      BY <2>1, <2>2, <3>1
    <3>2. CASE m # n
      <4>1. m \in Expanded(ns)
        BY <1>2, <3>2
      <4>2. ns[m + 1].second \in Nat /\ ns[m + 1].second <= Len(cs)
        BY <1>1, <4>1, VectorFacts
      <4>3. ms[m + 1] = ns[m + 1]
        BY <1>4, <4>1
      <4> QED
        BY <2>1, <4>2, <4>3
    <3> QED
      BY <3>1, <3>2
  <2>4. 0 \in Indices(ms)
    BY <1>1, <1>2 DEF Vectors
  <2> QED
    BY <2>3, <2>4 DEF Vectors, Widens
<1>6. Links(ms, ds)
  <2>1. \A m \in Expanded(ms) : \A i \in BlockOf(ms, m) :
          ds[i + 1].index # 0 => m < ds[i + 1].index /\ ds[i + 1].index < Len(ms)
    <3> TAKE m \in Expanded(ms)
    <3> TAKE i \in BlockOf(ms, m)
    <3> HAVE ds[i + 1].index # 0
    <3>1. m \in Expanded(ns) /\ i \in BlockOf(ns, m) /\ ds[i + 1] = cs[i + 1]
      BY <1>2, <1>3, <1>4
    <3>2. Len(ms) = Len(ns)
      BY DEF Widens
    <3> QED
      BY <1>1, <3>1, <3>2 DEF Links
  <2>2. \A i, j \in Indices(ds) : ds[i + 1].index = ds[j + 1].index /\ ds[i + 1].index # 0 => i = j
    BY <1>1, <1>2, <1>3 DEF Links
  <2>3. \A m \in Indices(ms) \ {0} : \E i \in Indices(ds) : ds[i + 1].index = m
    BY <1>1, <1>2 DEF Links
  <2>4. \A i \in Indices(ds) : \E m \in Expanded(ms) : i \in BlockOf(ms, m)
    <3> TAKE i \in Indices(ds)
    <3>1. CASE i \in BlockOf(ms, n)
      BY <1>2, <3>1
    <3>2. CASE i \notin BlockOf(ms, n)
      <4>1. PICK m \in Expanded(ns) : i \in BlockOf(ns, m)
        BY <1>1, <1>2, <3>2 DEF Links
      <4> QED
        BY <1>2, <1>4, <4>1
    <3> QED
      BY <3>1, <3>2
  <2>5. \A m, k \in Expanded(ms) : \A i \in BlockOf(ms, m) : i \in BlockOf(ms, k) => m = k
    <3> TAKE m, k \in Expanded(ms)
    <3> TAKE i \in BlockOf(ms, m)
    <3> HAVE i \in BlockOf(ms, k)
    <3>1. CASE m = n
      BY <1>2, <1>4, <3>1
    <3>2. CASE k = n
      BY <1>2, <1>4, <3>2
    <3>3. CASE m # n /\ k # n
      BY <1>1, <1>2, <1>4, <3>3 DEF Links
    <3> QED
      BY <3>1, <3>2, <3>3
  <2> QED
    BY <2>1, <2>2, <2>3, <2>4, <2>5 DEF Links
<1>7. Placement(ms, ds, root, pos)
  <2>1. pos \in [Indices(ms) -> Position] /\ pos[0] = root
    BY <1>2 DEF Tree, Placement
  <2>2. \A m \in Expanded(ms) : \A i \in BlockOf(ms, m) :
          ds[i + 1].index # 0 => pos[ds[i + 1].index] = After[pos[m]][ds[i + 1].move]
    <3> TAKE m \in Expanded(ms)
    <3> TAKE i \in BlockOf(ms, m)
    <3> HAVE ds[i + 1].index # 0
    <3>1. m \in Expanded(ns) /\ i \in BlockOf(ns, m) /\ ds[i + 1] = cs[i + 1]
      BY <1>2, <1>3, <1>4
    <3> QED
      BY <3>1 DEF Tree, Placement
  <2> QED
    BY <2>1, <2>2 DEF Placement
<1>8. Moves(ms, ds, pos)
  <2> SUFFICES ASSUME NEW m \in Expanded(ms)
               PROVE  /\ \A i \in BlockOf(ms, m) : ds[i + 1].move \in Legal[pos[m]]
                      /\ \A x \in Legal[pos[m]] : \E i \in BlockOf(ms, m) : ds[i + 1].move = x
                      /\ \A i, j \in BlockOf(ms, m) : ds[i + 1].move = ds[j + 1].move => i = j
    BY DEF Moves
  <2>1. CASE m = n
    <3>1. \A x \in Legal[pos[n]] : \E i \in BlockOf(ms, n) : ds[i + 1].move = x
      <4> TAKE x \in Legal[pos[n]]
      <4>1. PICK k \in 1..Len(new) : new[k].move = x
        BY DEF ListsMoves
      <4>2. Len(cs) + k - 1 \in BlockOf(ms, n) /\ ds[Len(cs) + k - 1 + 1] = new[k]
        BY DEF Widens
      <4> QED
        BY <4>1, <4>2
    <3>2. \A i, j \in BlockOf(ms, n) : ds[i + 1].move = ds[j + 1].move => i = j
      <4> TAKE i, j \in BlockOf(ms, n)
      <4> HAVE ds[i + 1].move = ds[j + 1].move
      <4>1. i - Len(cs) + 1 = j - Len(cs) + 1
        BY <1>3 DEF ListsMoves
      <4>2. i \in Int /\ j \in Int /\ Len(cs) \in Int
        <5>1. Len(cs) \in Nat /\ Len(ds) \in Nat
          BY <1>1, <1>5, VectorFacts
        <5>2. i \in Indices(ds) /\ j \in Indices(ds)
          BY DEF Widens
        <5> QED
          BY <5>1, <5>2 DEF Indices
      <4> QED
        BY <4>1, <4>2
    <3> QED
      BY <1>3, <2>1, <3>1, <3>2
  <2>2. CASE m # n
    <3>1. m \in Expanded(ns) /\ BlockOf(ms, m) = BlockOf(ns, m)
          /\ \A i \in BlockOf(ns, m) : ds[i + 1] = cs[i + 1]
      BY <1>2, <1>4, <2>2
    <3> QED
      BY <3>1 DEF Tree, Moves
  <2> QED
    BY <2>1, <2>2
<1>9. VisitedOrder(ms, ds)
  <2> SUFFICES ASSUME NEW m \in Expanded(ms), NEW i \in BlockOf(ms, m), NEW j \in BlockOf(ms, m),
                      i < j, ds[j + 1].index # 0
               PROVE  ds[i + 1].index # 0
    BY DEF VisitedOrder
  <2>1. m \in Expanded(ns) /\ i \in BlockOf(ns, m) /\ j \in BlockOf(ns, m)
        /\ ds[i + 1] = cs[i + 1] /\ ds[j + 1] = cs[j + 1]
    BY <1>2, <1>3, <1>4
  <2> QED
    BY <2>1 DEF Tree, VisitedOrder
<1> QED
  BY <1>4, <1>5, <1>6, <1>7, <1>8, <1>9 DEF Tree

(* Of a block that is new no child was simulated. *)
LEMMA NewBlockSims ==
  ASSUME NEW ns, NEW cs, Vectors(ns, cs), NEW n \in Indices(ns),
         NEW p, NEW new, ListsMoves(p, new),
         NEW ms, NEW ds, Widens(ns, cs, n, new, ms, ds)
  PROVE  BlockSims(ds, ms[n + 1]) = 0
<1> DEFINE f == SimCounts(ds)
           a == Len(cs)
           l == Len(new)
<1>1. a \in Nat /\ l \in Nat /\ Len(ds) = a + l
  BY VectorFacts DEF ListsMoves, Widens
<1>2. ChildIndices(ms[n + 1]) = a..((a + l) - 1)
  BY DEF Widens, ChildIndices
<1>3. \A k \in 0..(l - 1) : f[a + k] = 0
  <2> TAKE k \in 0..(l - 1)
  <2>1. k + 1 \in 1..l /\ a + (k + 1) - 1 + 1 = (a + k) + 1 /\ a + k \in 0..(Len(ds) - 1)
    BY <1>1
  <2>2. ds[(a + k) + 1] = new[k + 1]
    BY <2>1 DEF Widens
  <2>3. f[a + k] = ds[(a + k) + 1].sim_count
    BY <2>1 DEF SimCounts
  <2> QED
    BY <2>1, <2>2, <2>3 DEF ListsMoves
<1> HIDE DEF f, a, l
<1>4. SumOver(f, a..((a + l) - 1)) = 0
  <2>1. a \in Int
    BY <1>1
  <2> QED
    BY <1>1, <1>3, <2>1, RangeSumZero
<1> QED
  BY <1>2, <1>4 DEF BlockSims, f

(* keeps its counts, the new children being unvisited, *)
LEMMA ExpandKeepsCounts ==
  ASSUME NEW ns, NEW cs, NEW root, NEW pos, Tree(ns, cs, root, pos),
         NEW n \in Indices(ns), n \notin Expanded(ns),
         NEW new, ListsMoves(pos[n], new),
         NEW ms, NEW ds, Widens(ns, cs, n, new, ms, ds),
         NEW total \in Nat, Counted(ns, cs, total)
  PROVE  /\ Counted(ms, ds, total)
         /\ \A m \in Expanded(ns) : BlockSims(ds, ms[m + 1]) = BlockSims(cs, ns[m + 1])
<1>1. Vectors(ns, cs) /\ Vectors(ms, ds)
  BY ExpandKeepsTree DEF Tree
<1>2. \A m \in Expanded(ns) : m # n /\ m \in Indices(ns) /\ ms[m + 1] = ns[m + 1]
  BY <1>1, VectorFacts DEF Widens
<1>3. /\ Expanded(ms) = Expanded(ns) \cup {n}
      /\ \A i \in Indices(cs) : ds[i + 1] = cs[i + 1] /\ i \in Indices(ds)
      /\ \A i \in Indices(ds) : i \in Indices(cs) \/ (ds[i + 1].index = 0 /\ ds[i + 1].sim_count = 0)
  <2>1. \A i \in BlockOf(ms, n) : ds[i + 1].index = 0 /\ ds[i + 1].sim_count = 0
    <3> TAKE i \in BlockOf(ms, n)
    <3> DEFINE k == i - Len(cs) + 1
    <3>1. k \in 1..Len(new) /\ ds[i + 1] = new[k]
      BY DEF Widens
    <3> HIDE DEF k
    <3> QED
      BY <3>1 DEF ListsMoves
  <2>2. \A i \in Indices(ds) : i \in Indices(cs) \/ i \in BlockOf(ms, n)
    BY DEF Widens
  <2>3. Expanded(ms) = Expanded(ns) \cup {n}
    BY DEF Widens
  <2>4. \A i \in Indices(cs) : ds[i + 1] = cs[i + 1] /\ i \in Indices(ds)
    BY DEF Widens
  <2> QED
    BY <2>1, <2>2, <2>3, <2>4
<1>4. ASSUME NEW m \in Expanded(ns)
      PROVE  BlockSims(ds, ms[m + 1]) = BlockSims(cs, ns[m + 1])
  <2> DEFINE node == ns[m + 1]
  <2>1. /\ node.first \in Nat /\ node.second \in Nat /\ node.first <= node.second
        /\ Len(cs) \in Nat /\ node.second <= Len(cs) /\ Len(ds) \in Nat
        /\ ChildIndices(node) \subseteq Indices(cs)
    BY <1>1, VectorFacts DEF BlockOf
  <2>2. node.second <= Len(ds)
    <3>1. ms[m + 1].second <= Len(ds)
      BY <1>1, <1>3, VectorFacts
    <3> QED
      BY <1>2, <3>1
  <2>3. \A i \in ChildIndices(node) :
          cs[i + 1].sim_count \in Nat /\ ds[i + 1].sim_count = cs[i + 1].sim_count
    BY <1>1, <1>3, <2>1, VectorFacts
  <2> HIDE DEF node
  <2>4. BlockSims(ds, node) = BlockSims(cs, node)
    BY <2>1, <2>2, <2>3, BlockSimsKept
  <2> QED
    BY <1>2, <2>4 DEF node
<1>5. ASSUME NEW m, NEW s, Balanced(ns, cs, m, s)
      PROVE  Balanced(ms, ds, m, s)
  <2>1. CASE m \in Expanded(ns)
    BY <1>2, <1>3, <1>4, <1>5, <2>1 DEF Balanced
  <2>2. CASE m = n
    <3>1. s = 1
      BY <1>5, <2>2 DEF Balanced
    <3>2. BlockSims(ds, ms[n + 1]) = 0
      BY <1>1, NewBlockSims
    <3> QED
      BY <1>3, <2>2, <3>1, <3>2 DEF Balanced
  <2>3. CASE m \notin Expanded(ms)
    BY <1>3, <1>5, <2>3 DEF Balanced
  <2> QED
    BY <1>3, <2>1, <2>2, <2>3
<1>6. ASSUME NEW i \in Indices(ds)
      PROVE  /\ ds[i + 1].sim_count <= total
             /\ ds[i + 1].index = 0 <=> ds[i + 1].sim_count = 0
             /\ ds[i + 1].index # 0 => Balanced(ms, ds, ds[i + 1].index, ds[i + 1].sim_count)
  <2>1. CASE i \in Indices(cs)
    BY <1>3, <1>5, <2>1 DEF Counted
  <2>2. CASE i \notin Indices(cs)
    BY <1>3, <2>2
  <2> QED
    BY <2>1, <2>2
<1>7. RootBalanced(ms, ds, total)
  <2>1. CASE Balanced(ns, cs, 0, total)
    BY <1>5, <2>1 DEF RootBalanced
  <2>2. CASE 0 \in Expanded(ns) /\ total = BlockSims(cs, ns[1])
    <3>1. BlockSims(ds, ms[0 + 1]) = BlockSims(cs, ns[0 + 1])
      BY <1>4, <2>2
    <3> QED
      BY <1>3, <2>2, <3>1 DEF RootBalanced
  <2> QED
    BY <2>1, <2>2 DEF Counted, RootBalanced
<1> QED
  BY <1>4, <1>6, <1>7 DEF Counted

(* and keeps the way that led to it. *)
LEMMA ExpandKeepsWay ==
  ASSUME NEW ns, NEW cs, NEW root, NEW pos, Tree(ns, cs, root, pos),
         NEW n \in Indices(ns), n \notin Expanded(ns),
         NEW new, ListsMoves(pos[n], new),
         NEW ms, NEW ds, Widens(ns, cs, n, new, ms, ds),
         NEW on, Way(ns, cs, on, n)
  PROVE  Way(ms, ds, on, n)
<1>1. /\ Expanded(ms) = Expanded(ns) \cup {n}
      /\ \A m \in Expanded(ns) : BlockOf(ms, m) = BlockOf(ns, m)
      /\ \A i \in Indices(cs) : ds[i + 1] = cs[i + 1] /\ i \in Indices(ds) /\ i \notin BlockOf(ms, n)
  <2>1. \A m \in Expanded(ns) : BlockOf(ms, m) = BlockOf(ns, m)
    BY ExpandKeepsTree
  <2> QED
    BY <2>1 DEF Widens
<1>2. on \subseteq Indices(cs)
  BY DEF Way
<1>3. on \cap BlockOf(ms, n) = {} /\ \A i \in on : ds[i + 1] = cs[i + 1] /\ i \in Indices(ds)
  BY <1>1, <1>2
<1>4. \A m \in Expanded(ms) : \A i, j \in on \cap BlockOf(ms, m) : i = j
  BY <1>1, <1>3 DEF Way
<1>5. n # 0 => 0 \in Expanded(ms) /\ on \cap BlockOf(ms, 0) # {}
  BY <1>1 DEF Way
<1>6. \A i \in on : ds[i + 1].index # n =>
        ds[i + 1].index \in Expanded(ms) /\ on \cap BlockOf(ms, ds[i + 1].index) # {}
  BY <1>1, <1>3 DEF Way
<1>7. \A m \in Expanded(ms) : on \cap BlockOf(ms, m) # {} =>
        m = 0 \/ \E i \in on : ds[i + 1].index = m
  BY <1>1, <1>3 DEF Way
<1>8. on \subseteq Indices(ds) /\ \A i \in on : ds[i + 1].index # 0
  BY <1>3 DEF Way
<1>9. n = 0 \/ \E i \in on : ds[i + 1].index = n
  BY <1>3 DEF Way
<1> QED
  BY <1>3, <1>4, <1>5, <1>6, <1>7, <1>8, <1>9 DEF Way

-----------------------------------------------------------------------------
(* The swap that brings the child drawn to the front of the unvisited ones.*)

SameIndices(cs, ds) ==
  /\ ds \in Seq(ChildRecord)
  /\ Len(ds) = Len(cs)
  /\ \A i \in Indices(cs) : ds[i + 1].index = cs[i + 1].index

SameCounts(cs, ds) ==
  \A i \in Indices(cs) : ds[i + 1].sim_count = cs[i + 1].sim_count

(* Links, order and ways depend on the indices of the children only. *)
LEMMA SameIndicesKeep ==
  ASSUME NEW ns, NEW cs, Vectors(ns, cs), Links(ns, cs), VisitedOrder(ns, cs),
         NEW ds, SameIndices(cs, ds)
  PROVE  /\ Vectors(ns, ds) /\ Links(ns, ds) /\ VisitedOrder(ns, ds)
         /\ Indices(ds) = Indices(cs)
         /\ \A on, e : Way(ns, cs, on, e) => Way(ns, ds, on, e)
<1>1. Indices(ds) = Indices(cs) /\ \A i \in Indices(cs) : ds[i + 1].index = cs[i + 1].index
  BY DEF SameIndices, Indices
<1>2. \A n \in Expanded(ns) : BlockOf(ns, n) \subseteq Indices(cs)
  BY VectorFacts
<1>3. Vectors(ns, ds)
  BY DEF Vectors, SameIndices
<1>4. Links(ns, ds)
  <2>1. \A n \in Expanded(ns) : \A i \in BlockOf(ns, n) :
          ds[i + 1].index # 0 => n < ds[i + 1].index /\ ds[i + 1].index < Len(ns)
    BY <1>1, <1>2 DEF Links
  <2>2. \A i, j \in Indices(ds) : ds[i + 1].index = ds[j + 1].index /\ ds[i + 1].index # 0 => i = j
    BY <1>1 DEF Links
  <2>3. \A n \in Indices(ns) \ {0} : \E i \in Indices(ds) : ds[i + 1].index = n
    BY <1>1 DEF Links
  <2> QED
    BY <1>1, <2>1, <2>2, <2>3 DEF Links
<1>5. VisitedOrder(ns, ds)
  BY <1>1, <1>2 DEF VisitedOrder
<1>6. ASSUME NEW on, NEW e, Way(ns, cs, on, e)
      PROVE  Way(ns, ds, on, e)
  <2>1. on \subseteq Indices(cs) /\ \A i \in on : ds[i + 1].index = cs[i + 1].index
    BY <1>1, <1>6 DEF Way
  <2>2. \A i \in on : ds[i + 1].index # 0
    BY <1>6, <2>1 DEF Way
  <2>3. e = 0 \/ \E i \in on : ds[i + 1].index = e
    BY <1>6, <2>1 DEF Way
  <2>4. \A i \in on : ds[i + 1].index # e =>
          ds[i + 1].index \in Expanded(ns) /\ on \cap BlockOf(ns, ds[i + 1].index) # {}
    BY <1>6, <2>1 DEF Way
  <2>5. \A n \in Expanded(ns) : on \cap BlockOf(ns, n) # {} =>
          n = 0 \/ \E i \in on : ds[i + 1].index = n
    BY <1>6, <2>1 DEF Way
  <2> QED
    BY <1>1, <1>6, <2>1, <2>2, <2>3, <2>4, <2>5 DEF Way
<1> QED
  BY <1>1, <1>3, <1>4, <1>5, <1>6

(* The counts depend on indices and counts only. *)
LEMMA SameCountsKeep ==
  ASSUME NEW ns, NEW cs, Vectors(ns, cs), NEW ds, SameIndices(cs, ds), SameCounts(cs, ds),
         NEW total, Counted(ns, cs, total)
  PROVE  /\ Counted(ns, ds, total)
         /\ \A n \in Expanded(ns) : BlockSims(ds, ns[n + 1]) = BlockSims(cs, ns[n + 1])
<1>1. /\ Indices(ds) = Indices(cs) /\ Len(ds) = Len(cs)
      /\ \A i \in Indices(cs) :
           ds[i + 1].index = cs[i + 1].index /\ ds[i + 1].sim_count = cs[i + 1].sim_count
  BY DEF SameIndices, SameCounts, Indices
<1>2. SimCounts(ds) = SimCounts(cs)
  BY <1>1 DEF SimCounts, Indices
<1>3. \A n : BlockSims(ds, ns[n + 1]) = BlockSims(cs, ns[n + 1]) /\ BlockSims(ds, ns[1]) = BlockSims(cs, ns[1])
  BY <1>2 DEF BlockSims
<1>4. \A n, s : Balanced(ns, cs, n, s) => Balanced(ns, ds, n, s)
  BY <1>3 DEF Balanced
<1>5. RootBalanced(ns, ds, total)
  BY <1>3, <1>4 DEF Counted, RootBalanced
<1>6. \A i \in Indices(ds) :
        /\ ds[i + 1].sim_count <= total
        /\ ds[i + 1].index = 0 <=> ds[i + 1].sim_count = 0
        /\ ds[i + 1].index # 0 => Balanced(ns, ds, ds[i + 1].index, ds[i + 1].sim_count)
  BY <1>1, <1>4 DEF Counted
<1> QED
  BY <1>3, <1>5, <1>6 DEF Counted

(* Two unvisited children of one node may change places. *)
LEMMA SwapKeepsTree ==
  ASSUME NEW ns, NEW cs, NEW root, NEW pos, Tree(ns, cs, root, pos),
         NEW n \in Expanded(ns), NEW i \in BlockOf(ns, n), NEW j \in BlockOf(ns, n),
         cs[i + 1].index = 0, cs[j + 1].index = 0,
         cs[i + 1].sim_count = 0, cs[j + 1].sim_count = 0
  PROVE  /\ Tree(ns, Swap(cs, i, j), root, pos)
         /\ SameIndices(cs, Swap(cs, i, j))
         /\ SameCounts(cs, Swap(cs, i, j))
<1> DEFINE ds == Swap(cs, i, j)
<1>1. /\ Vectors(ns, cs) /\ Links(ns, cs) /\ VisitedOrder(ns, cs)
      /\ Placement(ns, cs, root, pos) /\ Moves(ns, cs, pos)
  BY DEF Tree
<1>2. /\ i \in Indices(cs) /\ j \in Indices(cs) /\ Len(cs) \in Nat /\ cs \in Seq(ChildRecord)
      /\ \A m \in Expanded(ns) : BlockOf(ns, m) \subseteq Indices(cs)
  BY <1>1, VectorFacts DEF Vectors
<1>3. i + 1 \in 1..Len(cs) /\ j + 1 \in 1..Len(cs) /\ i \in Nat /\ j \in Nat
  BY <1>2 DEF Indices
<1>4. /\ ds \in Seq(ChildRecord) /\ Len(ds) = Len(cs)
      /\ \A k \in 1..Len(cs) :
           ds[k] = IF k = j + 1 THEN cs[i + 1] ELSE IF k = i + 1 THEN cs[j + 1] ELSE cs[k]
  BY <1>2, <1>3 DEF Swap
<1> HIDE DEF ds
<1>5. \A k \in Indices(cs) :
        ds[k + 1] = IF k = j THEN cs[i + 1] ELSE IF k = i THEN cs[j + 1] ELSE cs[k + 1]
  <2> TAKE k \in Indices(cs)
  <2>1. k + 1 \in 1..Len(cs) /\ (k + 1 = j + 1 <=> k = j) /\ (k + 1 = i + 1 <=> k = i)
    BY <1>2, <1>3 DEF Indices
  <2> QED
    BY <1>4, <2>1
<1>6. SameIndices(cs, ds) /\ SameCounts(cs, ds)
  <2>1. \A k \in Indices(cs) :
          ds[k + 1].index = cs[k + 1].index /\ ds[k + 1].sim_count = cs[k + 1].sim_count
    <3> TAKE k \in Indices(cs)
    <3>1. CASE k = j
      BY <1>5, <3>1
    <3>2. CASE k # j /\ k = i
      BY <1>5, <3>2
    <3>3. CASE k # j /\ k # i
      BY <1>5, <3>3
    <3> QED
      BY <3>1, <3>2, <3>3
  <2> QED
    BY <1>4, <2>1 DEF SameIndices, SameCounts
<1>7. Vectors(ns, ds) /\ Links(ns, ds) /\ VisitedOrder(ns, ds)
  BY <1>1, <1>6, SameIndicesKeep
<1>8. Placement(ns, ds, root, pos)
  <2>1. ASSUME NEW m \in Expanded(ns), NEW k \in BlockOf(ns, m), ds[k + 1].index # 0
        PROVE  pos[ds[k + 1].index] = After[pos[m]][ds[k + 1].move]
    <3>1. k # i /\ k # j /\ k \in Indices(cs)
      BY <1>2, <1>5, <2>1
    <3>2. ds[k + 1] = cs[k + 1]
      BY <1>5, <3>1
    <3> QED
      BY <1>1, <2>1, <3>2 DEF Placement
  <2> QED
    BY <1>1, <2>1 DEF Placement
<1>9. Moves(ns, ds, pos)
  <2> SUFFICES ASSUME NEW m \in Expanded(ns)
               PROVE  /\ \A k \in BlockOf(ns, m) : ds[k + 1].move \in Legal[pos[m]]
                      /\ \A x \in Legal[pos[m]] : \E k \in BlockOf(ns, m) : ds[k + 1].move = x
                      /\ \A k, l \in BlockOf(ns, m) : ds[k + 1].move = ds[l + 1].move => k = l
    BY DEF Moves
  <2>1. /\ \A k \in BlockOf(ns, m) : cs[k + 1].move \in Legal[pos[m]] /\ k \in Indices(cs)
        /\ \A x \in Legal[pos[m]] : \E k \in BlockOf(ns, m) : cs[k + 1].move = x
        /\ \A k, l \in BlockOf(ns, m) : cs[k + 1].move = cs[l + 1].move => k = l
    BY <1>1, <1>2 DEF Moves
  <2>2. i \in BlockOf(ns, m) <=> j \in BlockOf(ns, m)
    BY <1>1 DEF Links
  <2>3. \A k \in BlockOf(ns, m) : ds[k + 1].move \in Legal[pos[m]]
    BY <1>5, <2>1, <2>2
  <2>4. \A k, l \in BlockOf(ns, m) : ds[k + 1].move = ds[l + 1].move => k = l
    <3> TAKE k, l \in BlockOf(ns, m)
    <3> HAVE ds[k + 1].move = ds[l + 1].move
    <3> DEFINE turn(x) == IF x = j THEN i ELSE IF x = i THEN j ELSE x
    <3>1. turn(k) \in BlockOf(ns, m) /\ turn(l) \in BlockOf(ns, m)
      BY <2>2
    <3>2. ds[k + 1] = cs[turn(k) + 1] /\ ds[l + 1] = cs[turn(l) + 1]
      BY <1>5, <2>1
    <3>3. turn(k) = turn(l)
      BY <2>1, <3>1, <3>2
    <3> QED
      BY <3>3
  <2>5. \A x \in Legal[pos[m]] : \E k \in BlockOf(ns, m) : ds[k + 1].move = x
    <3> TAKE x \in Legal[pos[m]]
    <3>1. PICK k \in BlockOf(ns, m) : cs[k + 1].move = x
      BY <2>1
    <3>2. CASE k = i
      BY <1>5, <2>1, <2>2, <3>1, <3>2
    <3>3. CASE k # i /\ k = j
      BY <1>5, <2>1, <2>2, <3>1, <3>3
    <3>4. CASE k # i /\ k # j
      BY <1>5, <2>1, <3>1, <3>4
    <3> QED
      BY <3>2, <3>3, <3>4
  <2> QED
    BY <2>3, <2>4, <2>5
<1>10. Tree(ns, ds, root, pos)
  BY <1>7, <1>8, <1>9 DEF Tree
<1> QED
  BY <1>6, <1>10 DEF ds

-----------------------------------------------------------------------------
(* The first unvisited child gets a node: the last one.                    *)

Grown(pos, ns, next) == [x \in 0..Len(ns) |-> IF x = Len(ns) THEN next ELSE pos[x]]

(* Child l of node n is the first one without a node. *)
FirstOpen(ns, cs, n, l) ==
  /\ l \in BlockOf(ns, n)
  /\ cs[l + 1].index = 0
  /\ \A i \in BlockOf(ns, n) : cs[i + 1].index = 0 <=> l <= i

(* What becomes of ns and cs when child l of node n gets one. *)
Grows(ns, cs, n, l, ms, ds) ==
  /\ Indices(ns) \subseteq Indices(ms)
  /\ Indices(ds) = Indices(cs) /\ Len(ds) = Len(cs)
  /\ Expanded(ns) \subseteq Expanded(ms)
  /\ \A m \in Expanded(ms) : m \in Expanded(ns) \/ (m = Len(ns) /\ is_terminal(ms[m + 1]))
  /\ \A m \in Indices(ns) : ms[m + 1] = ns[m + 1]
  /\ \A i \in Indices(cs) : /\ i # l => ds[i + 1].index = cs[i + 1].index
                            /\ ds[i + 1].sim_count = cs[i + 1].sim_count
  /\ ds[l + 1].index = Len(ns)
  /\ \A on : Way(ns, cs, on, n) => Way(ms, ds, on \cup {l}, Len(ns))

GrownNodes(ns, next) == Append(ns, create_node(next))
GrownChildren(ns, cs, l) == [cs EXCEPT ![l + 1].index = Len(ns)]

(* The first unvisited child of a node on the way may get a node. *)
LEMMA GrowKeepsTree ==
  ASSUME NEW ns, NEW cs, NEW root, NEW pos, Tree(ns, cs, root, pos),
         NEW n \in Expanded(ns), NEW l, FirstOpen(ns, cs, n, l),
         NEW next \in Position, next = After[pos[n]][cs[l + 1].move]
  PROVE  /\ Tree(GrownNodes(ns, next), GrownChildren(ns, cs, l), root, Grown(pos, ns, next))
         /\ Grows(ns, cs, n, l, GrownNodes(ns, next), GrownChildren(ns, cs, l))
<1> DEFINE L == Len(ns)
           new == create_node(next)
           ms == Append(ns, new)
           ds == [cs EXCEPT ![l + 1].index = L]
           qos == Grown(pos, ns, next)
<1>0. l \in BlockOf(ns, n) /\ cs[l + 1].index = 0
  BY DEF FirstOpen
<1>1. /\ Vectors(ns, cs) /\ Links(ns, cs) /\ VisitedOrder(ns, cs)
      /\ Placement(ns, cs, root, pos) /\ Moves(ns, cs, pos)
  BY DEF Tree
<1>2. /\ L \in Nat \ {0} /\ Len(cs) \in Nat
      /\ ns \in Seq(NodeRecord) /\ cs \in Seq(ChildRecord)
      /\ l \in Indices(cs) /\ l \in Nat /\ l + 1 \in 1..Len(cs)
      /\ Indices(ns) = 0..(L - 1)
  <2>1. l \in Indices(cs) /\ L \in Nat \ {0} /\ Len(cs) \in Nat
    BY <1>0, <1>1, VectorFacts
  <2> QED
    BY <1>1, <2>1 DEF Indices, Vectors
<1>3. new \in NodeRecord /\ (is_expanded(new) => new.first = 0 /\ new.second = 0 /\ Legal[next] = {})
  <2>1. CASE Mover[next] = KEEPER
    <3>1. new = [first |-> 0, second |-> 0]
      BY <2>1 DEF create_node, KeeperNode
    <3>2. Legal[next] = {}
      BY <2>1, TreeAssumption
    <3> QED
      BY <3>1, <3>2 DEF NodeRecord
  <2>2. CASE Mover[next] # KEEPER
    <3>1. new = [first |-> 1, second |-> 0]
      BY <2>2 DEF create_node, Unexpanded
    <3> QED
      BY <3>1 DEF NodeRecord, is_expanded
  <2> QED
    BY <2>1, <2>2
<1>4. /\ ms \in Seq(NodeRecord) /\ Len(ms) = L + 1
      /\ \A k \in 1..L : ms[k] = ns[k]
      /\ ms[L + 1] = new
  BY <1>2, <1>3
<1>5. /\ ds \in Seq(ChildRecord) /\ Len(ds) = Len(cs)
      /\ \A k \in 1..Len(cs) : k # l + 1 => ds[k] = cs[k]
      /\ ds[l + 1] = [cs[l + 1] EXCEPT !.index = L]
  <2>1. [cs[l + 1] EXCEPT !.index = L] \in ChildRecord
    <3>1. cs[l + 1] \in ChildRecord /\ L \in Nat
      BY <1>2
    <3> HIDE DEF L
    <3> DEFINE r == cs[l + 1]
    <3>2. r \in ChildRecord
      BY <3>1
    <3> HIDE DEF r
    <3>3. [r EXCEPT !.index = L] \in ChildRecord
      BY <3>1, <3>2 DEF ChildRecord
    <3> QED
      BY <3>3 DEF r
  <2> QED
    BY <1>2, <2>1
<1>6. cs[l + 1] \in ChildRecord
  BY <1>2
<1>7. /\ ds[l + 1].index = L
      /\ ds[l + 1].move = cs[l + 1].move
      /\ ds[l + 1].sim_count = cs[l + 1].sim_count
  BY <1>5, <1>6 DEF ChildRecord
<1> HIDE DEF L, ms, ds, new
<1>8. /\ Indices(ms) = 0..L /\ Indices(ds) = Indices(cs)
      /\ L \in Indices(ms) /\ L \notin Indices(ns)
      /\ \A m \in Indices(ms) : m # L => m \in Indices(ns)
      /\ Indices(ns) \subseteq Indices(ms)
  BY <1>2, <1>4, <1>5 DEF Indices
<1>9. \A m \in Indices(ns) : ms[m + 1] = ns[m + 1]
  <2> TAKE m \in Indices(ns)
  <2>1. m + 1 \in 1..L
    BY <1>2
  <2> QED
    BY <1>4, <2>1
<1>10. \A i \in Indices(cs) : i # l => ds[i + 1] = cs[i + 1]
  <2> TAKE i \in Indices(cs)
  <2> HAVE i # l
  <2>1. i + 1 \in 1..Len(cs) /\ i + 1 # l + 1
    BY <1>2 DEF Indices
  <2> QED
    BY <1>5, <2>1
<1>11. \A m \in Expanded(ns) :
         /\ m \in Indices(ns) /\ m \in Expanded(ms) /\ m # L
         /\ BlockOf(ms, m) = BlockOf(ns, m) /\ BlockOf(ns, m) \subseteq Indices(cs)
  <2> TAKE m \in Expanded(ns)
  <2>1. m \in Indices(ns) /\ BlockOf(ns, m) \subseteq Indices(cs) /\ is_expanded(ns[m + 1])
    BY <1>1, VectorFacts DEF Expanded
  <2>2. ms[m + 1] = ns[m + 1] /\ m \in Indices(ms) /\ m # L
    BY <1>8, <1>9, <2>1
  <2> QED
    BY <2>1, <2>2 DEF Expanded, BlockOf
<1>12. \A m \in Expanded(ms) :
         \/ m \in Expanded(ns)
         \/ /\ m = L /\ ms[m + 1].first = 0 /\ ms[m + 1].second = 0
            /\ BlockOf(ms, m) = {} /\ is_terminal(ms[m + 1]) /\ Legal[next] = {}
  <2> TAKE m \in Expanded(ms)
  <2>1. m \in Indices(ms) /\ is_expanded(ms[m + 1])
    BY DEF Expanded
  <2>2. CASE m = L
    <3>1. ms[m + 1].first = 0 /\ ms[m + 1].second = 0 /\ Legal[next] = {}
      BY <1>3, <1>4, <2>1, <2>2
    <3>2. BlockOf(ms, m) = {}
      BY <3>1 DEF BlockOf, ChildIndices
    <3> QED
      BY <2>2, <3>1, <3>2 DEF is_terminal
  <2>3. CASE m # L
    BY <1>8, <1>9, <2>1, <2>3 DEF Expanded
  <2> QED
    BY <2>2, <2>3
<1>13. Vectors(ms, ds)
  <2>1. \A m \in Expanded(ms) : ms[m + 1].second <= Len(ds)
    <3> TAKE m \in Expanded(ms)
    <3>1. CASE m \in Expanded(ns)
      BY <1>1, <1>5, <1>9, <1>11, <3>1 DEF Vectors
    <3>2. CASE m \notin Expanded(ns)
      BY <1>2, <1>5, <1>12, <3>2
    <3> QED
      BY <3>1, <3>2
  <2>2. 0 \in Indices(ms)
    BY <1>2, <1>8
  <2> QED
    BY <1>4, <1>5, <2>1, <2>2 DEF Vectors
<1>14. \A i \in Indices(cs) : cs[i + 1].index \in Nat /\ cs[i + 1].index < L
  <2> TAKE i \in Indices(cs)
  <2>1. cs[i + 1].index \in Nat
    BY <1>1, VectorFacts
  <2>2. PICK m \in Expanded(ns) : i \in BlockOf(ns, m)
    BY <1>1 DEF Links
  <2>3. cs[i + 1].index # 0 => cs[i + 1].index < L
    BY <1>1, <2>2 DEF Links, L
  <2> QED
    BY <1>2, <2>1, <2>3
<1>15. \A i \in Indices(cs) : /\ i # l => ds[i + 1].index = cs[i + 1].index
                              /\ ds[i + 1].sim_count = cs[i + 1].sim_count
                              /\ ds[i + 1].move = cs[i + 1].move
                              /\ ds[i + 1].index # 0 <=> (i = l \/ cs[i + 1].index # 0)
  BY <1>2, <1>7, <1>10
<1>16. Links(ms, ds)
  <2>1. ASSUME NEW m \in Expanded(ms), NEW i \in BlockOf(ms, m), ds[i + 1].index # 0
        PROVE  m < ds[i + 1].index /\ ds[i + 1].index < Len(ms)
    <3>1. m \in Expanded(ns) /\ i \in BlockOf(ns, m) /\ i \in Indices(cs)
      BY <1>11, <1>12
    <3>2. CASE i = l
      <4>1. m \in 0..(L - 1)
        BY <1>2, <1>11, <3>1
      <4> QED
        BY <1>2, <1>4, <1>7, <3>2, <4>1
    <3>3. CASE i # l
      <4>1. ds[i + 1].index = cs[i + 1].index
        BY <1>15, <3>1, <3>3
      <4>2. m < cs[i + 1].index
        BY <1>1, <2>1, <3>1, <4>1 DEF Links
      <4>3. cs[i + 1].index \in Nat /\ cs[i + 1].index < L
        BY <1>14, <3>1
      <4> QED
        BY <1>2, <1>4, <4>1, <4>2, <4>3
    <3> QED
      BY <3>2, <3>3
  <2>2. \A i, j \in Indices(ds) : ds[i + 1].index = ds[j + 1].index /\ ds[i + 1].index # 0 => i = j
    <3> TAKE i, j \in Indices(ds)
    <3> HAVE ds[i + 1].index = ds[j + 1].index /\ ds[i + 1].index # 0
    <3>1. \A k \in Indices(cs) : k # l => ds[k + 1].index # L
      BY <1>2, <1>14, <1>15
    <3>2. CASE i = l \/ j = l
      BY <1>7, <1>8, <3>1, <3>2
    <3>3. CASE i # l /\ j # l
      BY <1>1, <1>8, <1>15, <3>3 DEF Links
    <3> QED
      BY <3>2, <3>3
  <2>3. \A m \in Indices(ms) \ {0} : \E i \in Indices(ds) : ds[i + 1].index = m
    <3> TAKE m \in Indices(ms) \ {0}
    <3>1. CASE m = L
      BY <1>2, <1>7, <1>8, <3>1
    <3>2. CASE m # L
      <4>1. PICK i \in Indices(cs) : cs[i + 1].index = m
        BY <1>1, <1>8, <3>2 DEF Links
      <4>2. i # l
        BY <1>0, <4>1
      <4> QED
        BY <1>8, <1>15, <4>1, <4>2
    <3> QED
      BY <3>1, <3>2
  <2>4. \A i \in Indices(ds) : \E m \in Expanded(ms) : i \in BlockOf(ms, m)
    BY <1>1, <1>8, <1>11 DEF Links
  <2>5. \A m, k \in Expanded(ms) : \A i \in BlockOf(ms, m) : i \in BlockOf(ms, k) => m = k
    BY <1>1, <1>11, <1>12 DEF Links
  <2> QED
    BY <2>1, <2>2, <2>3, <2>4, <2>5 DEF Links
<1>17. /\ \A m \in Indices(ns) : qos[m] = pos[m]
       /\ qos[L] = next
       /\ qos \in [Indices(ms) -> Position]
       /\ qos[0] = root
  <2>1. qos = [x \in 0..L |-> IF x = L THEN next ELSE pos[x]]
    BY DEF Grown, L
  <2> HIDE DEF qos
  <2>2. \A m \in Indices(ns) : qos[m] = pos[m]
    BY <1>2, <1>8, <2>1
  <2>3. qos[L] = next
    BY <1>2, <2>1
  <2>4. \A m \in Indices(ns) : pos[m] \in Position
    BY <1>1 DEF Placement
  <2>6. qos \in [Indices(ms) -> Position]
    BY <1>8, <2>1, <2>4
  <2>7. qos[0] = root
    BY <1>1, <1>2, <2>2 DEF Placement
  <2> QED
    BY <2>2, <2>3, <2>6, <2>7
<1> HIDE DEF qos
<1>18. Placement(ms, ds, root, qos)
  <2>1. ASSUME NEW m \in Expanded(ms), NEW i \in BlockOf(ms, m), ds[i + 1].index # 0
        PROVE  qos[ds[i + 1].index] = After[qos[m]][ds[i + 1].move]
    <3>1. m \in Expanded(ns) /\ i \in BlockOf(ns, m) /\ i \in Indices(cs) /\ m \in Indices(ns)
      BY <1>11, <1>12
    <3>2. CASE i = l
      <4>1. m = n
        BY <1>0, <1>1, <3>1, <3>2 DEF Links
      <4> QED
        BY <1>7, <1>17, <3>1, <3>2, <4>1
    <3>3. CASE i # l
      <4>1. ds[i + 1].index = cs[i + 1].index /\ ds[i + 1].move = cs[i + 1].move
        BY <1>15, <3>1, <3>3
      <4>2. pos[cs[i + 1].index] = After[pos[m]][cs[i + 1].move]
        BY <1>1, <2>1, <3>1, <4>1 DEF Placement
      <4>3. cs[i + 1].index \in Indices(ns)
        BY <1>2, <1>14, <3>1
      <4> QED
        BY <1>17, <3>1, <4>1, <4>2, <4>3
    <3> QED
      BY <3>2, <3>3
  <2> QED
    BY <1>17, <2>1 DEF Placement
<1>19. Moves(ms, ds, qos)
  <2> SUFFICES ASSUME NEW m \in Expanded(ms)
               PROVE  /\ \A k \in BlockOf(ms, m) : ds[k + 1].move \in Legal[qos[m]]
                      /\ \A x \in Legal[qos[m]] : \E k \in BlockOf(ms, m) : ds[k + 1].move = x
                      /\ \A k, j \in BlockOf(ms, m) : ds[k + 1].move = ds[j + 1].move => k = j
    BY DEF Moves
  <2>1. CASE m \in Expanded(ns)
    <3>1. /\ m \in Indices(ns) /\ BlockOf(ms, m) = BlockOf(ns, m)
          /\ \A k \in BlockOf(ns, m) : ds[k + 1].move = cs[k + 1].move
          /\ qos[m] = pos[m]
      BY <1>11, <1>15, <1>17, <2>1
    <3> QED
      BY <1>1, <2>1, <3>1 DEF Moves
  <2>2. CASE m \notin Expanded(ns)
    BY <1>12, <1>17, <2>2
  <2> QED
    BY <2>1, <2>2
<1>20. VisitedOrder(ms, ds)
  <2> SUFFICES ASSUME NEW m \in Expanded(ms), NEW i \in BlockOf(ms, m), NEW j \in BlockOf(ms, m),
                      i < j, ds[j + 1].index # 0
               PROVE  ds[i + 1].index # 0
    BY DEF VisitedOrder
  <2>1. m \in Expanded(ns) /\ i \in BlockOf(ns, m) /\ j \in BlockOf(ns, m)
        /\ i \in Indices(cs) /\ j \in Indices(cs)
    BY <1>11, <1>12
  <2>2. CASE j = l
    <3>1. m = n
      BY <1>0, <1>1, <2>1, <2>2 DEF Links
    <3>2. i \in Nat
      BY <1>1, <2>1, VectorFacts
    <3>3. ~(l <= i)
      BY <1>2, <2>2, <3>2
    <3>4. cs[i + 1].index # 0
      BY <2>1, <3>1, <3>3 DEF FirstOpen
    <3> QED
      BY <1>15, <2>1, <3>4
  <2>3. CASE j # l
    <3>1. cs[j + 1].index # 0
      BY <1>15, <2>1, <2>3
    <3>2. cs[i + 1].index # 0
      BY <1>1, <2>1, <3>1 DEF VisitedOrder
    <3> QED
      BY <1>15, <2>1, <3>2
  <2> QED
    BY <2>2, <2>3
<1>21. ASSUME NEW on, Way(ns, cs, on, n)
       PROVE  Way(ms, ds, on \cup {l}, L)
  <2>1. on \subseteq Indices(cs) /\ l \notin on /\ \A i \in on : ds[i + 1].index = cs[i + 1].index
    BY <1>0, <1>15, <1>21 DEF Way
  <2>2. on \subseteq Indices(ds) /\ \A i \in on : ds[i + 1].index # 0
    BY <1>8, <1>21, <2>1 DEF Way
  <2>3. \A m \in Expanded(ms) : \A i, j \in on \cap BlockOf(ms, m) : i = j
    BY <1>11, <1>12, <1>21 DEF Way
  <2>4. n = 0 \/ \E i \in on : ds[i + 1].index = n
    BY <1>21, <2>1 DEF Way
  <2>5. on \cap BlockOf(ms, n) = {} /\ (n # 0 => 0 \in Expanded(ms) /\ on \cap BlockOf(ms, 0) # {})
    BY <1>11, <1>21 DEF Way
  <2>6. \A i \in on : ds[i + 1].index # n =>
          ds[i + 1].index \in Expanded(ms) /\ on \cap BlockOf(ms, ds[i + 1].index) # {}
    BY <1>11, <1>21, <2>1 DEF Way
  <2>7. \A m \in Expanded(ms) : on \cap BlockOf(ms, m) # {} =>
          m = 0 \/ \E i \in on : ds[i + 1].index = m
    BY <1>11, <1>12, <1>21, <2>1 DEF Way
  <2>8. Way(ms, ds, on, n)
    BY <2>2, <2>3, <2>4, <2>5, <2>6, <2>7 DEF Way
  <2>9. n \in Expanded(ms) /\ l \in BlockOf(ms, n) /\ ds[l + 1].index # 0 /\ ds[l + 1].index = L
    BY <1>0, <1>2, <1>7, <1>11
  <2> QED
    BY <1>13, <1>16, <2>8, <2>9, WayGoesOn
<1>22. Tree(ms, ds, root, qos)
  BY <1>13, <1>16, <1>18, <1>19, <1>20 DEF Tree
<1>23. \A m \in Expanded(ms) : m \in Expanded(ns) \/ (m = L /\ is_terminal(ms[m + 1]))
  BY <1>12
<1>24. Expanded(ns) \subseteq Expanded(ms)
  BY <1>11
<1>25. Grows(ns, cs, n, l, ms, ds)
  BY <1>5, <1>7, <1>8, <1>9, <1>15, <1>21, <1>23, <1>24 DEF Grows, L
<1>26. ms = GrownNodes(ns, next) /\ ds = GrownChildren(ns, cs, l)
  BY DEF ms, ds, L, new, GrownNodes, GrownChildren
<1> QED
  BY <1>22, <1>25, <1>26 DEF qos

(* What is left of the counts until they are updated: node e was simulated *)
(* once more than they say, and so was every node above it.                *)
Pending(ns, cs, e, total) ==
  /\ \A i \in Indices(cs) :
       /\ cs[i + 1].sim_count <= total
       /\ cs[i + 1].index = 0 => cs[i + 1].sim_count = 0
       /\ cs[i + 1].index # 0 /\ cs[i + 1].index # e =>
            cs[i + 1].sim_count # 0 /\ Balanced(ns, cs, cs[i + 1].index, cs[i + 1].sim_count)
  /\ RootBalanced(ns, cs, total)

(* The counts are then right everywhere but on the way to it. *)
LEMMA GrowKeepsCounts ==
  ASSUME NEW ns, NEW cs, Vectors(ns, cs), Links(ns, cs),
         NEW total, Counted(ns, cs, total),
         NEW l \in Indices(cs), cs[l + 1].index = 0,
         NEW n, NEW ms, NEW ds, Vectors(ms, ds), Grows(ns, cs, n, l, ms, ds)
  PROVE  /\ Pending(ms, ds, Len(ns), total)
         /\ \A m \in Expanded(ns) : BlockSims(ds, ms[m + 1]) = BlockSims(cs, ns[m + 1])
<1>0. /\ Indices(ds) = Indices(cs) /\ Len(ds) = Len(cs)
      /\ Expanded(ns) \subseteq Expanded(ms)
      /\ \A m \in Expanded(ms) : m \in Expanded(ns) \/ (m = Len(ns) /\ is_terminal(ms[m + 1]))
      /\ \A m \in Indices(ns) : ms[m + 1] = ns[m + 1]
      /\ \A i \in Indices(cs) : /\ i # l => ds[i + 1].index = cs[i + 1].index
                                /\ ds[i + 1].sim_count = cs[i + 1].sim_count
      /\ ds[l + 1].index = Len(ns)
  BY DEF Grows
<1> USE <1>0
<1>1. SimCounts(ds) = SimCounts(cs)
  BY DEF SimCounts, Indices
<1>2. \A m \in Expanded(ns) : BlockSims(ds, ms[m + 1]) = BlockSims(cs, ns[m + 1])
  <2> TAKE m \in Expanded(ns)
  <2>1. m \in Indices(ns)
    BY VectorFacts
  <2>2. ms[m + 1] = ns[m + 1]
    BY <2>1
  <2> QED
    BY <1>1, <2>2 DEF BlockSims
<1>3. ASSUME NEW m \in Indices(ns), NEW s, Balanced(ns, cs, m, s)
      PROVE  Balanced(ms, ds, m, s)
  <2>1. m # Len(ns) /\ ms[m + 1] = ns[m + 1]
    BY VectorFacts
  <2>2. m \in Expanded(ms) <=> m \in Expanded(ns)
    BY <2>1
  <2> QED
    BY <1>2, <1>3, <2>1, <2>2 DEF Balanced
<1>4. 0 \in Indices(ns)
  BY DEF Vectors
<1>5. RootBalanced(ms, ds, total)
  <2>1. CASE Balanced(ns, cs, 0, total)
    BY <1>3, <1>4, <2>1 DEF RootBalanced
  <2>2. CASE 0 \in Expanded(ns) /\ total = BlockSims(cs, ns[1])
    <3>1. BlockSims(ds, ms[0 + 1]) = BlockSims(cs, ns[0 + 1])
      BY <1>2, <2>2
    <3> QED
      BY <2>2, <3>1 DEF RootBalanced
  <2> QED
    BY <2>1, <2>2 DEF Counted, RootBalanced
<1>6. \A i \in Indices(cs) : cs[i + 1].index \in Indices(ns)
  <2> TAKE i \in Indices(cs)
  <2>1. PICK m \in Expanded(ns) : i \in BlockOf(ns, m)
    BY DEF Links
  <2>2. cs[i + 1].index \in Nat /\ (cs[i + 1].index # 0 => cs[i + 1].index < Len(ns))
    BY <2>1, VectorFacts DEF Links
  <2>3. Len(ns) \in Nat \ {0}
    BY VectorFacts
  <2> QED
    BY <2>2, <2>3 DEF Indices
<1>7. ASSUME NEW i \in Indices(ds)
      PROVE  /\ ds[i + 1].sim_count <= total
             /\ ds[i + 1].index = 0 => ds[i + 1].sim_count = 0
             /\ ds[i + 1].index # 0 /\ ds[i + 1].index # Len(ns) =>
                  ds[i + 1].sim_count # 0 /\ Balanced(ms, ds, ds[i + 1].index, ds[i + 1].sim_count)
  <2>1. CASE i = l
    BY <2>1 DEF Counted
  <2>2. CASE i # l
    BY <1>3, <1>6, <2>2 DEF Counted
  <2> QED
    BY <2>1, <2>2
<1> QED
  BY <1>2, <1>5, <1>7 DEF Pending

-----------------------------------------------------------------------------
(* The update of the counts along the way.                                 *)

(* Backpropagate counts one simulation for the children on the stack, and  *)
(* changes no index and no move.                                           *)
LEMMA BackpropagateFacts ==
  ASSUME NEW cs \in Seq(ChildRecord), NEW stack, \A e \in ToSet(stack) : e.player \in Player,
         NEW results \in [Player -> Score]
  PROVE  LET ds == Backpropagate(cs, stack, results)
         IN /\ SameIndices(cs, ds)
            /\ \A i \in Indices(cs) : ds[i + 1].move = cs[i + 1].move
            /\ \A i \in OnWay(stack) \cap Indices(cs) : ds[i + 1].sim_count = cs[i + 1].sim_count + 1
            /\ \A i \in Indices(cs) \ OnWay(stack) : ds[i + 1].sim_count = cs[i + 1].sim_count
<1> DEFINE ds == Backpropagate(cs, stack, results)
           On(k) == {e \in ToSet(stack) : e.child = k - 1}
           Who(k) == CHOOSE e \in On(k) : TRUE
           New(k) == IF On(k) = {} THEN cs[k]
                     ELSE [cs[k] EXCEPT !.sim_count = @ + 1, !.total_score = @ + results[Who(k).player]]
<1>1. ds = [k \in 1..Len(cs) |-> New(k)]
  BY DEF Backpropagate
<1>2. ASSUME NEW k \in 1..Len(cs)
      PROVE  /\ New(k) \in ChildRecord
             /\ New(k).index = cs[k].index /\ New(k).move = cs[k].move
             /\ On(k) = {} => New(k).sim_count = cs[k].sim_count
             /\ On(k) # {} => New(k).sim_count = cs[k].sim_count + 1
  <2> DEFINE r == cs[k]
             won == results[Who(k).player]
  <2>1. r \in ChildRecord
    OBVIOUS
  <2>2. CASE On(k) = {}
    BY <2>1, <2>2
  <2>3. CASE On(k) # {}
    <3>1. Who(k) \in On(k)
      BY <2>3
    <3>2. won \in Nat
      BY <3>1, TreeAssumption
    <3>3. New(k) = [r EXCEPT !.sim_count = @ + 1, !.total_score = @ + won]
      BY <2>3
    <3> HIDE DEF r, won, New, On, Who
    <3>4. /\ New(k) \in ChildRecord
          /\ New(k).index = r.index /\ New(k).move = r.move
          /\ New(k).sim_count = r.sim_count + 1
      <4> DEFINE c == [r EXCEPT !.sim_count = @ + 1, !.total_score = @ + won]
      <4>1. c \in ChildRecord /\ c.index = r.index /\ c.move = r.move /\ c.sim_count = r.sim_count + 1
        <5> DEFINE v == r.sim_count + 1
                   w == r.total_score + won
        <5>1. r.sim_count \in Nat /\ r.total_score \in Nat
          BY <2>1 DEF ChildRecord
        <5>2. v \in Nat /\ w \in Nat /\ c = [r EXCEPT !.sim_count = v, !.total_score = w]
          BY <3>2, <5>1
        <5> HIDE DEF c, v, w
        <5>3. c \in ChildRecord /\ c.index = r.index /\ c.move = r.move /\ c.sim_count = v
          BY <2>1, <5>2 DEF ChildRecord
        <5> QED
          BY <5>3 DEF v
      <4>2. New(k) = c
        BY <3>3
      <4> QED
        BY <4>1, <4>2
    <3> QED
      BY <2>3, <3>4 DEF r
  <2> QED
    BY <2>2, <2>3
<1>3. ASSUME NEW i \in Indices(cs)
      PROVE  /\ i + 1 \in 1..Len(cs)
             /\ i \in OnWay(stack) <=> On(i + 1) # {}
  <2>1. i + 1 \in 1..Len(cs) /\ (i + 1) - 1 = i
    BY DEF Indices
  <2> QED
    BY <2>1 DEF OnWay
<1> HIDE DEF New, On, ds
<1>4. ds \in Seq(ChildRecord) /\ Len(ds) = Len(cs) /\ \A k \in 1..Len(cs) : ds[k] = New(k)
  BY <1>1, <1>2
<1>5. SameIndices(cs, ds)
  BY <1>2, <1>3, <1>4 DEF SameIndices
<1>6. /\ \A i \in Indices(cs) : ds[i + 1].move = cs[i + 1].move
      /\ \A i \in OnWay(stack) \cap Indices(cs) : ds[i + 1].sim_count = cs[i + 1].sim_count + 1
      /\ \A i \in Indices(cs) \ OnWay(stack) : ds[i + 1].sim_count = cs[i + 1].sim_count
  BY <1>2, <1>3, <1>4
<1> QED
  BY <1>5, <1>6 DEF ds

(* The same tree, with other counts. *)
LEMMA SameMovesKeep ==
  ASSUME NEW ns, NEW cs, NEW root, NEW pos, Tree(ns, cs, root, pos),
         NEW ds, SameIndices(cs, ds), \A i \in Indices(cs) : ds[i + 1].move = cs[i + 1].move
  PROVE  Tree(ns, ds, root, pos)
<1>1. /\ Vectors(ns, cs) /\ Links(ns, cs) /\ VisitedOrder(ns, cs)
      /\ Placement(ns, cs, root, pos) /\ Moves(ns, cs, pos)
  BY DEF Tree
<1>2. Vectors(ns, ds) /\ Links(ns, ds) /\ VisitedOrder(ns, ds)
  BY <1>1, SameIndicesKeep
<1>3. \A n \in Expanded(ns) : \A i \in BlockOf(ns, n) :
        ds[i + 1].index = cs[i + 1].index /\ ds[i + 1].move = cs[i + 1].move
  BY <1>1, VectorFacts DEF SameIndices
<1>4. Placement(ns, ds, root, pos)
  BY <1>1, <1>3 DEF Placement
<1>5. Moves(ns, ds, pos)
  <2> SUFFICES ASSUME NEW m \in Expanded(ns)
               PROVE  /\ \A k \in BlockOf(ns, m) : ds[k + 1].move \in Legal[pos[m]]
                      /\ \A x \in Legal[pos[m]] : \E k \in BlockOf(ns, m) : ds[k + 1].move = x
                      /\ \A k, l \in BlockOf(ns, m) : ds[k + 1].move = ds[l + 1].move => k = l
    BY DEF Moves
  <2>1. \A k \in BlockOf(ns, m) : ds[k + 1].move = cs[k + 1].move
    BY <1>3
  <2> QED
    BY <1>1, <2>1 DEF Moves
<1> QED
  BY <1>2, <1>4, <1>5 DEF Tree

OneMoreOn(cs, ds, on) ==
  /\ \A i \in on : ds[i + 1].sim_count = cs[i + 1].sim_count + 1
  /\ \A i \in Indices(cs) \ on : ds[i + 1].sim_count = cs[i + 1].sim_count

(* A block has one child on the way at most, and gains what that child     *)
(* gains.                                                                  *)
LEMMA BlockSimsOnWay ==
  ASSUME NEW ns, NEW cs, Vectors(ns, cs), NEW ds, SameIndices(cs, ds),
         NEW on, OneMoreOn(cs, ds, on),
         NEW n \in Expanded(ns), \A i, j \in on \cap BlockOf(ns, n) : i = j
  PROVE  BlockSims(ds, ns[n + 1]) =
           BlockSims(cs, ns[n + 1]) + IF on \cap BlockOf(ns, n) = {} THEN 0 ELSE 1
<1> DEFINE node == ns[n + 1]
           a == node.first
           m == node.second - a
           f == SimCounts(cs)
           g == SimCounts(ds)
<1>1. /\ a \in Nat /\ node.second \in Nat /\ a <= node.second /\ m \in Nat
      /\ Len(cs) \in Nat /\ node.second <= Len(cs) /\ Len(ds) = Len(cs) /\ node.second = a + m
  BY VectorFacts DEF SameIndices
<1>2. BlockOf(ns, n) = a..((a + m) - 1) /\ ChildIndices(node) = a..((a + m) - 1)
  BY <1>1 DEF BlockOf, ChildIndices
<1>3. \A i \in BlockOf(ns, n) : i \in Indices(cs) /\ cs[i + 1].sim_count \in Nat
  BY VectorFacts
<1>4. \A i \in BlockOf(ns, n) : f[i] = cs[i + 1].sim_count /\ g[i] = ds[i + 1].sim_count
  BY <1>1, <1>3 DEF SimCounts, Indices
<1> HIDE DEF f, g, m, a
<1>5. CASE on \cap BlockOf(ns, n) = {}
  <2>1. \A i \in ChildIndices(node) :
          cs[i + 1].sim_count \in Nat /\ ds[i + 1].sim_count = cs[i + 1].sim_count
    BY <1>2, <1>3, <1>5 DEF OneMoreOn
  <2>2. BlockSims(ds, node) = BlockSims(cs, node)
    <3>1. /\ node.first \in Nat /\ node.second \in Nat /\ node.first <= node.second
          /\ Len(cs) \in Nat /\ node.second <= Len(cs) /\ Len(ds) \in Nat /\ node.second <= Len(ds)
      BY <1>1 DEF a
    <3> HIDE DEF node
    <3> QED
      BY <2>1, <3>1, BlockSimsKept
  <2>3. BlockSims(cs, node) \in Nat
    BY BlockSimsNat
  <2> QED
    BY <1>5, <2>2, <2>3
<1>6. ASSUME NEW i \in on, i \in BlockOf(ns, n)
      PROVE  BlockSims(ds, node) = BlockSims(cs, node) + 1
  <2> DEFINE j == i - a
  <2>1. j \in 0..(m - 1) /\ a + j = i
    BY <1>1, <1>2, <1>6
  <2>2. ASSUME NEW k \in 0..(m - 1)
        PROVE  f[a + k] \in Nat /\ g[a + k] = IF k = j THEN f[a + k] + 1 ELSE f[a + k]
    <3>1. a + k \in BlockOf(ns, n) /\ (k = j <=> a + k = i)
      <4>1. a \in Nat /\ m \in Nat /\ k \in 0..(m - 1) /\ j \in 0..(m - 1) /\ a + j = i
        BY <1>1, <2>1
      <4>2. a + k \in a..((a + m) - 1) /\ (k = j <=> a + k = a + j)
        BY <4>1
      <4> QED
        BY <1>2, <4>1, <4>2
    <3>2. a + k # i => a + k \notin on
      BY <1>6, <3>1
    <3>3. f[a + k] = cs[a + k + 1].sim_count /\ g[a + k] = ds[a + k + 1].sim_count
      BY <1>4, <3>1
    <3>4. a + k \in Indices(cs) /\ cs[a + k + 1].sim_count \in Nat
      BY <1>3, <3>1
    <3>5. CASE k = j
      <4>1. ds[i + 1].sim_count = cs[i + 1].sim_count + 1
        BY DEF OneMoreOn
      <4> QED
        BY <3>1, <3>3, <3>4, <3>5, <4>1
    <3>6. CASE k # j
      <4>1. ds[a + k + 1].sim_count = cs[a + k + 1].sim_count
        BY <3>1, <3>2, <3>4, <3>6 DEF OneMoreOn
      <4> QED
        BY <3>3, <3>4, <3>6, <4>1
    <3> QED
      BY <3>5, <3>6
  <2> HIDE DEF j
  <2>3. OneMoreAt(j, f, g, a, m)
    BY <2>2 DEF OneMoreAt
  <2>4. RangeSum(g, a, m) = RangeSum(f, a, m) + 1
    BY <1>1, <2>1, <2>3, RangeSumPlusOne
  <2> QED
    BY <1>2, <2>4 DEF RangeSum, BlockSims, f, g
<1> QED
  BY <1>5, <1>6

(* The children of node e are counted right once the way to e has been updated. *)
Settled(ns, cs, ds, e) ==
  \A i \in Indices(cs) : cs[i + 1].index = e => Balanced(ns, ds, e, cs[i + 1].sim_count + 1)

(* One more simulation on the way makes the counts right everywhere. *)
LEMMA CountsAfter ==
  ASSUME NEW ns, NEW cs, Vectors(ns, cs), Links(ns, cs),
         NEW on, NEW e, e # 0, Way(ns, cs, on, e),
         NEW total \in Nat, Pending(ns, cs, e, total),
         NEW ds, SameIndices(cs, ds), OneMoreOn(cs, ds, on), Settled(ns, cs, ds, e)
  PROVE  /\ Counted(ns, ds, total + 1)
         /\ BlockSims(ds, ns[1]) = BlockSims(cs, ns[1]) + 1
<1>1. /\ Indices(ds) = Indices(cs)
      /\ \A i \in Indices(cs) : ds[i + 1].index = cs[i + 1].index /\ cs[i + 1].sim_count \in Nat
  BY VectorFacts DEF SameIndices, Indices
<1>2. on \subseteq Indices(cs)
  BY DEF Way
<1>3. ASSUME NEW n \in Expanded(ns)
      PROVE  /\ on \cap BlockOf(ns, n) = {} => BlockSims(ds, ns[n + 1]) = BlockSims(cs, ns[n + 1])
             /\ on \cap BlockOf(ns, n) # {} =>
                  /\ BlockSims(ds, ns[n + 1]) = BlockSims(cs, ns[n + 1]) + 1
                  /\ ~is_terminal(ns[n + 1])
             /\ BlockSims(cs, ns[n + 1]) \in Nat
  <2>1. \A i, j \in on \cap BlockOf(ns, n) : i = j
    BY DEF Way
  <2>2. BlockSims(ds, ns[n + 1]) =
           BlockSims(cs, ns[n + 1]) + IF on \cap BlockOf(ns, n) = {} THEN 0 ELSE 1
    BY <2>1, BlockSimsOnWay
  <2>3. BlockSims(cs, ns[n + 1]) \in Nat
    BY BlockSimsNat
  <2>4. on \cap BlockOf(ns, n) # {} => ~is_terminal(ns[n + 1])
    <3>1. ns[n + 1].first \in Nat /\ ns[n + 1].second \in Nat
      BY VectorFacts
    <3> QED
      BY <3>1 DEF BlockOf, ChildIndices, is_terminal
  <2> QED
    BY <2>2, <2>3, <2>4
<1>4. 0 \in Expanded(ns) /\ on \cap BlockOf(ns, 0) # {}
  BY DEF Way
<1>5. /\ BlockSims(ds, ns[1]) = BlockSims(cs, ns[1]) + 1
      /\ BlockSims(cs, ns[1]) \in Nat /\ ~is_terminal(ns[1])
  <2>1. /\ BlockSims(ds, ns[0 + 1]) = BlockSims(cs, ns[0 + 1]) + 1
        /\ BlockSims(cs, ns[0 + 1]) \in Nat /\ ~is_terminal(ns[0 + 1])
    BY <1>3, <1>4
  <2> QED
    BY <2>1
<1>6. RootBalanced(ns, ds, total + 1)
  <2>1. RootBalanced(ns, cs, total)
    BY DEF Pending
  <2>2. CASE Balanced(ns, cs, 0, total)
    <3>1. total = BlockSims(cs, ns[0 + 1]) + 1
      BY <1>4, <1>5, <2>2 DEF Balanced
    <3>2. total + 1 = BlockSims(ds, ns[0 + 1]) + 1
      BY <1>5, <3>1
    <3> QED
      BY <1>4, <3>2 DEF RootBalanced, Balanced
  <2>3. CASE 0 \in Expanded(ns) /\ total = BlockSims(cs, ns[1])
    BY <1>5, <2>3 DEF RootBalanced
  <2> QED
    BY <2>1, <2>2, <2>3 DEF RootBalanced
<1>7. ASSUME NEW i \in on
      PROVE  /\ ds[i + 1].sim_count <= total + 1
             /\ ds[i + 1].sim_count # 0 /\ ds[i + 1].index # 0
             /\ Balanced(ns, ds, ds[i + 1].index, ds[i + 1].sim_count)
  <2> DEFINE c == cs[i + 1].index
             s == cs[i + 1].sim_count
  <2>1. i \in Indices(cs) /\ s \in Nat /\ ds[i + 1].index = c /\ c # 0
    BY <1>1, <1>2 DEF Way
  <2>2. ds[i + 1].sim_count = s + 1 /\ s <= total
    BY <2>1 DEF OneMoreOn, Pending
  <2>3. Balanced(ns, ds, c, s + 1)
    <3>1. CASE c = e
      BY <2>1, <3>1 DEF Settled
    <3>2. CASE c # e
      <4>1. c \in Expanded(ns) /\ on \cap BlockOf(ns, c) # {}
        BY <3>2 DEF Way
      <4>2. Balanced(ns, cs, c, s)
        BY <2>1, <3>2 DEF Pending
      <4>3. BlockSims(ds, ns[c + 1]) = BlockSims(cs, ns[c + 1]) + 1 /\ ~is_terminal(ns[c + 1])
            /\ BlockSims(cs, ns[c + 1]) \in Nat
        BY <1>3, <4>1
      <4>4. s = BlockSims(cs, ns[c + 1]) + 1
        BY <4>1, <4>2, <4>3 DEF Balanced
      <4> QED
        BY <4>1, <4>3, <4>4 DEF Balanced
    <3> QED
      BY <3>1, <3>2
  <2> QED
    BY <2>1, <2>2, <2>3
<1>8. ASSUME NEW i \in Indices(cs), i \notin on
      PROVE  /\ ds[i + 1].sim_count <= total + 1
             /\ ds[i + 1].index = 0 <=> ds[i + 1].sim_count = 0
             /\ ds[i + 1].index # 0 => Balanced(ns, ds, ds[i + 1].index, ds[i + 1].sim_count)
  <2> DEFINE c == cs[i + 1].index
             s == cs[i + 1].sim_count
  <2>1. s \in Nat /\ ds[i + 1].index = c /\ ds[i + 1].sim_count = s /\ s <= total
        /\ (c = 0 => s = 0)
    BY <1>1, <1>8 DEF OneMoreOn, Pending
  <2>2. ASSUME c # 0
        PROVE  s # 0 /\ Balanced(ns, ds, c, s)
    <3>1. \A j \in on : cs[j + 1].index # c
      BY <1>2, <1>8, <2>2 DEF Links
    <3>2. c # e
      BY <3>1 DEF Way
    <3>3. s # 0 /\ Balanced(ns, cs, c, s)
      BY <2>2, <3>2 DEF Pending
    <3>4. c \in Expanded(ns) => on \cap BlockOf(ns, c) = {}
      BY <2>2, <3>1 DEF Way
    <3>5. c \in Expanded(ns) => BlockSims(ds, ns[c + 1]) = BlockSims(cs, ns[c + 1])
      BY <1>3, <3>4
    <3> QED
      BY <3>3, <3>5 DEF Balanced
  <2> QED
    BY <2>1, <2>2
<1>9. \A i \in Indices(ds) :
        /\ ds[i + 1].sim_count <= total + 1
        /\ ds[i + 1].index = 0 <=> ds[i + 1].sim_count = 0
        /\ ds[i + 1].index # 0 => Balanced(ns, ds, ds[i + 1].index, ds[i + 1].sim_count)
  BY <1>1, <1>7, <1>8
<1> QED
  BY <1>5, <1>6, <1>9 DEF Counted

-----------------------------------------------------------------------------
(* The child a visit begins with.                                          *)
Unvisited(ns, cs, n) == {i \in BlockOf(ns, n) : cs[i + 1].index = 0}

(* get_unvisited_child_index finds the first child without a node. *)
LEMMA FirstUnvisitedIs ==
  ASSUME NEW ns, NEW cs, Vectors(ns, cs), VisitedOrder(ns, cs),
         NEW n \in Expanded(ns), NEW s \in Nat, BlockSims(cs, ns[n + 1]) <= s,
         NEW total, Counted(ns, cs, total), Unvisited(ns, cs, n) # {}
  PROVE  /\ FirstOpen(ns, cs, n, FirstUnvisited(cs, ns[n + 1], s))
         /\ FirstUnvisited(cs, ns[n + 1], s) = Min(Unvisited(ns, cs, n))
<1> DEFINE node == ns[n + 1]
           a == node.first
           m == node.second - a
           f == SimCounts(cs)
           U == {i \in BlockOf(ns, n) : cs[i + 1].index = 0}
<1>0. /\ \A i \in BlockOf(ns, n) : cs[i + 1].index = 0 <=> cs[i + 1].sim_count = 0
      /\ U # {} /\ U = Unvisited(ns, cs, n)
  BY VectorFacts DEF Counted, Unvisited
<1>1. /\ a \in Nat /\ node.second \in Nat /\ m \in Nat /\ node.second = a + m
      /\ node.second <= Len(cs) /\ Len(cs) \in Nat
  BY VectorFacts
<1>2. BlockOf(ns, n) = a..((a + m) - 1) /\ ChildIndices(node) = a..((a + m) - 1)
  BY <1>1 DEF BlockOf, ChildIndices
<1>3. \A i \in BlockOf(ns, n) : /\ i \in Indices(cs) /\ i \in Nat
                                /\ cs[i + 1].sim_count \in Nat
                                /\ f[i] = cs[i + 1].sim_count
  BY VectorFacts DEF SimCounts, Indices
<1>4. PICK l \in U : \A i \in U : l <= i
  <2>1. U \subseteq Nat /\ U # {}
    BY <1>0, <1>3
  <2> HIDE DEF U
  <2> QED
    BY <2>1, LeastNat
<1>5. \A i \in BlockOf(ns, n) : cs[i + 1].index = 0 <=> l <= i
  <2> TAKE i \in BlockOf(ns, n)
  <2>1. cs[i + 1].index = 0 => l <= i
    BY <1>4
  <2>2. ASSUME l <= i, cs[i + 1].index # 0
        PROVE  FALSE
    <3>1. l # i /\ l \in Nat /\ i \in Nat /\ l \in BlockOf(ns, n)
      BY <1>3, <1>4, <2>2
    <3>2. l < i
      BY <2>2, <3>1
    <3>3. cs[l + 1].index # 0
      BY <2>2, <3>1, <3>2 DEF VisitedOrder
    <3> QED
      BY <1>4, <3>3
  <2> QED
    BY <2>1, <2>2
<1> DEFINE v == l - a
<1> HIDE DEF a, m
<1>6. l \in a..((a + m) - 1) /\ v \in Nat /\ v \in 0..m /\ a + v = l /\ a + v < node.second
  <2>1. l \in a..((a + m) - 1)
    BY <1>2, <1>4
  <2> QED
    BY <1>1, <2>1
<1> HIDE DEF f, v
<1>7. v <= s
  <2>1. \A k \in 0..(m - 1) : f[a + k] \in Nat
    <3> TAKE k \in 0..(m - 1)
    <3>1. a + k \in a..((a + m) - 1)
      BY <1>1
    <3> QED
      BY <1>2, <1>3, <3>1
  <2>2. \A k \in 0..(v - 1) : f[a + k] > 0
    <3> TAKE k \in 0..(v - 1)
    <3>1. a + k \in a..((a + m) - 1) /\ ~(l <= a + k)
      BY <1>1, <1>6
    <3>2. cs[a + k + 1].sim_count # 0 /\ f[a + k] = cs[a + k + 1].sim_count
          /\ cs[a + k + 1].sim_count \in Nat
      BY <1>0, <1>2, <1>3, <1>5, <3>1
    <3> QED
      BY <3>2
  <2>3. SumOver(f, a..((a + m) - 1)) >= v
    <3>1. m \in Nat /\ a \in Int /\ v \in 0..m
      BY <1>1, <1>6
    <3> QED
      BY <2>1, <2>2, <3>1, RangeSumBounds
  <2>4. BlockSims(cs, node) = SumOver(f, a..((a + m) - 1)) /\ BlockSims(cs, node) \in Nat
    BY <1>2, BlockSimsNat DEF BlockSims, f
  <2> QED
    BY <1>6, <2>3, <2>4
<1>8. \A i \in ChildIndices(node) : cs[i + 1].index = 0 <=> node.first + v <= i
  BY <1>2, <1>5, <1>6 DEF a
<1>9. /\ FirstUnvisited(cs, node, s) = node.first + v
      /\ Min({i \in ChildIndices(node) : cs[i + 1].index = 0}) = node.first + v
  <2>1. node.first \in Nat /\ node.second \in Nat /\ node.first + v < node.second
    BY <1>1, <1>6 DEF a
  <2> HIDE DEF node
  <2> QED
    BY <1>6, <1>7, <1>8, <2>1, FirstUnvisitedFound
<1>10. FirstUnvisited(cs, node, s) = l /\ Min(U) = l
  BY <1>2, <1>6, <1>9 DEF a
<1>11. l \in BlockOf(ns, n) /\ cs[l + 1].index = 0
  BY <1>4
<1>12. FirstOpen(ns, cs, n, l)
  BY <1>5, <1>11 DEF FirstOpen
<1> QED
  BY <1>0, <1>10, <1>12

-----------------------------------------------------------------------------
(* A copy of a part of a tree: node m of the copy was old[m], its child i  *)
(* was from[i].                                                            *)
IsCopy(ns, cs, ms, ds, old, from) ==
  /\ ms \in Seq(NodeRecord)
  /\ ds \in Seq(ChildRecord)
  /\ 0 \in Indices(ms)
  /\ old \in [Indices(ms) -> Indices(ns)]
  /\ \A m, k \in Indices(ms) : old[m] = old[k] => m = k
  /\ from \in [Indices(ds) -> Indices(cs)]
  /\ \A m \in Indices(ms) : m \in Expanded(ms) <=> old[m] \in Expanded(ns)
  /\ \A m \in Expanded(ms) :
       /\ ms[m + 1].second <= Len(ds)
       /\ ms[m + 1].second - ms[m + 1].first = ns[old[m] + 1].second - ns[old[m] + 1].first
       /\ \A i \in BlockOf(ms, m) : from[i] = ns[old[m] + 1].first + (i - ms[m + 1].first)
       /\ \A i \in BlockOf(ms, m) : ds[i + 1].index # 0 => m < ds[i + 1].index
  /\ \A i \in Indices(ds) :
       /\ ds[i + 1].move = cs[from[i] + 1].move
       /\ ds[i + 1].sim_count = cs[from[i] + 1].sim_count
       /\ ds[i + 1].total_score = cs[from[i] + 1].total_score
       /\ ds[i + 1].index = 0 <=> cs[from[i] + 1].index = 0
       /\ ds[i + 1].index # 0 =>
            ds[i + 1].index \in Indices(ms) /\ old[ds[i + 1].index] = cs[from[i] + 1].index
  /\ \A i \in Indices(ds) : \E m \in Expanded(ms) : i \in BlockOf(ms, m)
  /\ \A m, k \in Expanded(ms) : \A i \in BlockOf(ms, m) : i \in BlockOf(ms, k) => m = k
  /\ \A m \in Indices(ms) \ {0} : \E i \in Indices(ds) : ds[i + 1].index = m

(* The blocks of a copy are those of the original, in the same order. *)
LEMMA CopyKeepsBlocks ==
  ASSUME NEW ns, NEW cs, Vectors(ns, cs), NEW ms, NEW ds, NEW old, NEW from,
         IsCopy(ns, cs, ms, ds, old, from)
  PROVE  /\ Vectors(ms, ds)
         /\ \A m \in Expanded(ms) :
              /\ m \in Indices(ms) /\ old[m] \in Expanded(ns)
              /\ \A i \in BlockOf(ms, m) : i \in Indices(ds) /\ from[i] \in BlockOf(ns, old[m])
              /\ \A j \in BlockOf(ns, old[m]) : \E i \in BlockOf(ms, m) : from[i] = j
              /\ \A i, j \in BlockOf(ms, m) : (i < j <=> from[i] < from[j]) /\ (from[i] = from[j] => i = j)
              /\ BlockSims(ds, ms[m + 1]) = BlockSims(cs, ns[old[m] + 1])
              /\ is_terminal(ms[m + 1]) <=> is_terminal(ns[old[m] + 1])
<1>1. Vectors(ms, ds)
  BY DEF Vectors, IsCopy
<1> SUFFICES ASSUME NEW m \in Expanded(ms)
             PROVE  /\ m \in Indices(ms) /\ old[m] \in Expanded(ns)
                    /\ \A i \in BlockOf(ms, m) : i \in Indices(ds) /\ from[i] \in BlockOf(ns, old[m])
                    /\ \A j \in BlockOf(ns, old[m]) : \E i \in BlockOf(ms, m) : from[i] = j
                    /\ \A i, j \in BlockOf(ms, m) :
                         (i < j <=> from[i] < from[j]) /\ (from[i] = from[j] => i = j)
                    /\ BlockSims(ds, ms[m + 1]) = BlockSims(cs, ns[old[m] + 1])
                    /\ is_terminal(ms[m + 1]) <=> is_terminal(ns[old[m] + 1])
  BY <1>1
<1> DEFINE a == ms[m + 1].first
           b == ms[m + 1].second
           c == ns[old[m] + 1].first
           d == ns[old[m] + 1].second
<1>2. m \in Indices(ms) /\ old[m] \in Expanded(ns)
  <2>1. m \in Indices(ms)
    BY <1>1, VectorFacts
  <2> QED
    BY <2>1 DEF IsCopy
<1>3. /\ a \in Nat /\ b \in Nat /\ c \in Nat /\ d \in Nat /\ a <= b /\ c <= d
      /\ b <= Len(ds) /\ d <= Len(cs) /\ Len(ds) \in Nat /\ Len(cs) \in Nat
      /\ BlockOf(ms, m) \subseteq Indices(ds)
  BY <1>1, <1>2, VectorFacts
<1>4. b - a = d - c
  BY DEF IsCopy
<1>5. BlockOf(ms, m) = a..(b - 1) /\ BlockOf(ns, old[m]) = c..(d - 1)
  BY DEF BlockOf, ChildIndices
<1>6. \A i \in BlockOf(ms, m) : from[i] = c + (i - a)
  BY DEF IsCopy
<1>7. \A i \in BlockOf(ms, m) : ds[i + 1].sim_count = cs[from[i] + 1].sim_count
  BY <1>3 DEF IsCopy
<1> HIDE DEF a, b, c, d
<1>8. \A i \in BlockOf(ms, m) : from[i] \in BlockOf(ns, old[m])
  BY <1>3, <1>4, <1>5, <1>6
<1>9. \A j \in BlockOf(ns, old[m]) : \E i \in BlockOf(ms, m) : from[i] = j
  <2> TAKE j \in BlockOf(ns, old[m])
  <2> DEFINE i == a + (j - c)
  <2>1. i \in a..(b - 1) /\ c + (i - a) = j
    BY <1>3, <1>4, <1>5
  <2> HIDE DEF i
  <2> QED
    BY <1>5, <1>6, <2>1
<1>10. \A i, j \in BlockOf(ms, m) : (i < j <=> from[i] < from[j]) /\ (from[i] = from[j] => i = j)
  BY <1>3, <1>5, <1>6
<1>11. BlockSims(ds, ms[m + 1]) = BlockSims(cs, ns[old[m] + 1])
  <2>1. \A k \in 0..((d - c) - 1) :
          cs[c + k + 1].sim_count \in Nat /\ ds[a + k + 1].sim_count = cs[c + k + 1].sim_count
    <3> TAKE k \in 0..((d - c) - 1)
    <3>1. a + k \in a..(b - 1) /\ c + ((a + k) - a) = c + k /\ c + k \in Indices(cs)
      BY <1>3, <1>4 DEF Indices
    <3>2. from[a + k] = c + k
      BY <1>5, <1>6, <3>1
    <3>3. ds[a + k + 1].sim_count = cs[c + k + 1].sim_count
      BY <1>5, <1>7, <3>1, <3>2
    <3>4. cs[c + k + 1].sim_count \in Nat
      BY <3>1, VectorFacts
    <3> QED
      BY <3>3, <3>4
  <2> DEFINE other == ms[m + 1]
             node == ns[old[m] + 1]
  <2>2. other.first = a /\ other.second = b /\ node.first = c /\ node.second = d
    BY DEF a, b, c, d
  <2> HIDE DEF other, node
  <2>3. BlockSims(ds, other) = BlockSims(cs, node)
    BY <1>3, <1>4, <2>1, <2>2, BlockSimsSame
  <2> QED
    BY <2>3 DEF other, node
<1>12. is_terminal(ms[m + 1]) <=> is_terminal(ns[old[m] + 1])
  BY <1>3, <1>4 DEF is_terminal, a, b, c, d
<1> QED
  BY <1>2, <1>3, <1>8, <1>9, <1>10, <1>11, <1>12

(* A copy of a part of a tree is a tree. *)
LEMMA CopyKeepsTree ==
  ASSUME NEW ns, NEW cs, NEW root, NEW pos, Tree(ns, cs, root, pos),
         NEW ms, NEW ds, NEW old, NEW from, IsCopy(ns, cs, ms, ds, old, from)
  PROVE  Tree(ms, ds, pos[old[0]], [m \in Indices(ms) |-> pos[old[m]]])
<1> DEFINE qos == [m \in Indices(ms) |-> pos[old[m]]]
<1>1. /\ Vectors(ns, cs) /\ Links(ns, cs) /\ VisitedOrder(ns, cs)
      /\ Placement(ns, cs, root, pos) /\ Moves(ns, cs, pos)
  BY DEF Tree
<1>2. /\ Vectors(ms, ds)
      /\ \A m \in Expanded(ms) :
           /\ m \in Indices(ms) /\ old[m] \in Expanded(ns)
           /\ \A i \in BlockOf(ms, m) : i \in Indices(ds) /\ from[i] \in BlockOf(ns, old[m])
           /\ \A j \in BlockOf(ns, old[m]) : \E i \in BlockOf(ms, m) : from[i] = j
           /\ \A i, j \in BlockOf(ms, m) : (i < j <=> from[i] < from[j]) /\ (from[i] = from[j] => i = j)
  BY <1>1, CopyKeepsBlocks
<1>3. \A i \in Indices(ds) :
       /\ from[i] \in Indices(cs)
       /\ ds[i + 1].move = cs[from[i] + 1].move
       /\ ds[i + 1].index = 0 <=> cs[from[i] + 1].index = 0
       /\ ds[i + 1].index # 0 =>
            ds[i + 1].index \in Indices(ms) /\ old[ds[i + 1].index] = cs[from[i] + 1].index
  BY DEF IsCopy
<1>4. /\ old \in [Indices(ms) -> Indices(ns)] /\ 0 \in Indices(ms)
      /\ \A m, k \in Indices(ms) : old[m] = old[k] => m = k
      /\ \A i \in Indices(ds) : \E m \in Expanded(ms) : i \in BlockOf(ms, m)
      /\ \A m, k \in Expanded(ms) : \A i \in BlockOf(ms, m) : i \in BlockOf(ms, k) => m = k
      /\ \A m \in Indices(ms) \ {0} : \E i \in Indices(ds) : ds[i + 1].index = m
  BY DEF IsCopy
<1>5. Links(ms, ds)
  <2>1. \A m \in Expanded(ms) : \A i \in BlockOf(ms, m) :
          ds[i + 1].index # 0 => m < ds[i + 1].index /\ ds[i + 1].index < Len(ms)
    <3> TAKE m \in Expanded(ms)
    <3> TAKE i \in BlockOf(ms, m)
    <3> HAVE ds[i + 1].index # 0
    <3>1. ds[i + 1].index \in Indices(ms)
      BY <1>2, <1>3
    <3>2. ds[i + 1].index < Len(ms)
      BY <1>2, <3>1, VectorFacts
    <3>3. m < ds[i + 1].index
      BY DEF IsCopy
    <3> QED
      BY <3>2, <3>3
  <2>2. ASSUME NEW i \in Indices(ds), NEW j \in Indices(ds),
               ds[i + 1].index = ds[j + 1].index, ds[i + 1].index # 0
        PROVE  i = j
    <3>1. from[i] = from[j]
      <4>1. cs[from[i] + 1].index = cs[from[j] + 1].index /\ cs[from[i] + 1].index # 0
        BY <1>3, <2>2
      <4> QED
        BY <1>1, <1>3, <4>1 DEF Links
    <3>2. PICK m \in Expanded(ms) : i \in BlockOf(ms, m)
      BY <1>4
    <3>3. PICK k \in Expanded(ms) : j \in BlockOf(ms, k)
      BY <1>4
    <3>4. old[m] = old[k]
      BY <1>1, <1>2, <3>1, <3>2, <3>3 DEF Links
    <3>5. m = k
      BY <1>2, <1>4, <3>4
    <3> QED
      BY <1>2, <3>1, <3>2, <3>3, <3>5
  <2> QED
    BY <1>4, <2>1, <2>2 DEF Links
<1>6. /\ qos \in [Indices(ms) -> Position]
      /\ \A m \in Indices(ms) : qos[m] = pos[old[m]]
  BY <1>1, <1>4 DEF Placement
<1> HIDE DEF qos
<1>7. Placement(ms, ds, pos[old[0]], qos)
  <2>1. ASSUME NEW m \in Expanded(ms), NEW i \in BlockOf(ms, m), ds[i + 1].index # 0
        PROVE  qos[ds[i + 1].index] = After[qos[m]][ds[i + 1].move]
    <3>1. /\ m \in Indices(ms) /\ old[m] \in Expanded(ns)
          /\ i \in Indices(ds) /\ from[i] \in BlockOf(ns, old[m])
      BY <1>2
    <3>2. /\ cs[from[i] + 1].index # 0 /\ ds[i + 1].move = cs[from[i] + 1].move
          /\ ds[i + 1].index \in Indices(ms) /\ old[ds[i + 1].index] = cs[from[i] + 1].index
      BY <1>3, <2>1, <3>1
    <3>3. pos[cs[from[i] + 1].index] = After[pos[old[m]]][cs[from[i] + 1].move]
      BY <1>1, <3>1, <3>2 DEF Placement
    <3> QED
      BY <1>6, <3>1, <3>2, <3>3
  <2> QED
    BY <1>4, <1>6, <2>1 DEF Placement
<1>8. Moves(ms, ds, qos)
  <2> SUFFICES ASSUME NEW m \in Expanded(ms)
               PROVE  /\ \A k \in BlockOf(ms, m) : ds[k + 1].move \in Legal[qos[m]]
                      /\ \A x \in Legal[qos[m]] : \E k \in BlockOf(ms, m) : ds[k + 1].move = x
                      /\ \A k, l \in BlockOf(ms, m) : ds[k + 1].move = ds[l + 1].move => k = l
    BY DEF Moves
  <2>1. qos[m] = pos[old[m]] /\ old[m] \in Expanded(ns)
    BY <1>2, <1>6
  <2>2. /\ \A k \in BlockOf(ns, old[m]) : cs[k + 1].move \in Legal[qos[m]]
        /\ \A x \in Legal[qos[m]] : \E k \in BlockOf(ns, old[m]) : cs[k + 1].move = x
        /\ \A k, l \in BlockOf(ns, old[m]) : cs[k + 1].move = cs[l + 1].move => k = l
    BY <1>1, <2>1 DEF Moves
  <2>3. \A k \in BlockOf(ms, m) : ds[k + 1].move = cs[from[k] + 1].move /\ from[k] \in BlockOf(ns, old[m])
    BY <1>2, <1>3
  <2>4. \A x \in Legal[qos[m]] : \E k \in BlockOf(ms, m) : ds[k + 1].move = x
    <3> TAKE x \in Legal[qos[m]]
    <3>1. PICK j \in BlockOf(ns, old[m]) : cs[j + 1].move = x
      BY <2>2
    <3>2. PICK k \in BlockOf(ms, m) : from[k] = j
      BY <1>2
    <3> QED
      BY <2>3, <3>1, <3>2
  <2>5. \A k, l \in BlockOf(ms, m) : ds[k + 1].move = ds[l + 1].move => k = l
    BY <1>2, <2>2, <2>3
  <2> QED
    BY <2>2, <2>3, <2>4, <2>5
<1>9. VisitedOrder(ms, ds)
  <2> SUFFICES ASSUME NEW m \in Expanded(ms), NEW i \in BlockOf(ms, m), NEW j \in BlockOf(ms, m),
                      i < j, ds[j + 1].index # 0
               PROVE  ds[i + 1].index # 0
    BY DEF VisitedOrder
  <2>1. /\ old[m] \in Expanded(ns) /\ from[i] < from[j]
        /\ from[i] \in BlockOf(ns, old[m]) /\ from[j] \in BlockOf(ns, old[m])
        /\ i \in Indices(ds) /\ j \in Indices(ds)
    BY <1>2
  <2>2. cs[from[j] + 1].index # 0
    BY <1>3, <2>1
  <2>3. cs[from[i] + 1].index # 0
    BY <1>1, <2>1, <2>2 DEF VisitedOrder
  <2> QED
    BY <1>3, <2>1, <2>3
<1>10. Tree(ms, ds, pos[old[0]], qos)
  BY <1>2, <1>5, <1>7, <1>8, <1>9 DEF Tree
<1> QED
  BY <1>10 DEF qos

(* Counts never grow on the way down, so what the new root was simulated   *)
(* bounds all others.                                                      *)
LEMMA CopyKeepsCounts ==
  ASSUME NEW ns, NEW cs, NEW root, NEW pos, Tree(ns, cs, root, pos),
         NEW all, Counted(ns, cs, all),
         NEW ms, NEW ds, NEW old, NEW from, IsCopy(ns, cs, ms, ds, old, from),
         NEW total \in Nat, Balanced(ns, cs, old[0], total)
  PROVE  /\ Counted(ms, ds, total)
         /\ Balanced(ms, ds, 0, total)
<1>1. Vectors(ns, cs) /\ Links(ns, cs)
  BY DEF Tree
<1>2. /\ Vectors(ms, ds)
      /\ \A m \in Expanded(ms) :
           /\ m \in Indices(ms) /\ old[m] \in Expanded(ns)
           /\ \A i \in BlockOf(ms, m) : i \in Indices(ds)
           /\ BlockSims(ds, ms[m + 1]) = BlockSims(cs, ns[old[m] + 1])
           /\ is_terminal(ms[m + 1]) <=> is_terminal(ns[old[m] + 1])
  BY <1>1, CopyKeepsBlocks
<1>3. Links(ms, ds)
  BY CopyKeepsTree DEF Tree
<1>4. \A i \in Indices(ds) :
       /\ from[i] \in Indices(cs)
       /\ ds[i + 1].sim_count = cs[from[i] + 1].sim_count
       /\ ds[i + 1].index = 0 <=> cs[from[i] + 1].index = 0
       /\ ds[i + 1].index # 0 =>
            ds[i + 1].index \in Indices(ms) /\ old[ds[i + 1].index] = cs[from[i] + 1].index
  BY DEF IsCopy
<1>5. 0 \in Indices(ms) /\ \A m \in Indices(ms) : m \in Expanded(ms) <=> old[m] \in Expanded(ns)
  BY DEF IsCopy
<1>6. \A m \in Indices(ms) : \A s : Balanced(ns, cs, old[m], s) => Balanced(ms, ds, m, s)
  BY <1>2, <1>5 DEF Balanced
<1>7. Balanced(ms, ds, 0, total)
  BY <1>5, <1>6
<1>8. ASSUME NEW i \in Indices(ds)
      PROVE  /\ ds[i + 1].index = 0 <=> ds[i + 1].sim_count = 0
             /\ ds[i + 1].index # 0 => Balanced(ms, ds, ds[i + 1].index, ds[i + 1].sim_count)
  <2>1. /\ from[i] \in Indices(cs)
        /\ ds[i + 1].sim_count = cs[from[i] + 1].sim_count
        /\ ds[i + 1].index = 0 <=> cs[from[i] + 1].index = 0
    BY <1>4
  <2>2. /\ cs[from[i] + 1].index = 0 <=> cs[from[i] + 1].sim_count = 0
        /\ cs[from[i] + 1].index # 0 =>
             Balanced(ns, cs, cs[from[i] + 1].index, cs[from[i] + 1].sim_count)
    BY <2>1 DEF Counted
  <2> QED
    BY <1>4, <1>6, <2>1, <2>2
<1> DEFINE T == {m \in Nat : m \in Expanded(ms) =>
                   \A i \in BlockOf(ms, m) : ds[i + 1].sim_count <= total}
<1>9. ASSUME NEW m \in Nat, \A k \in 0..(m - 1) : k \in T
      PROVE  m \in T
  <2> SUFFICES ASSUME m \in Expanded(ms), NEW i \in BlockOf(ms, m)
               PROVE  ds[i + 1].sim_count <= total
    OBVIOUS
  <2>1. PICK s \in Nat : s <= total /\ Balanced(ms, ds, m, s)
    <3>1. CASE m = 0
      BY <1>7, <3>1
    <3>2. CASE m # 0
      <4>1. PICK j \in Indices(ds) : ds[j + 1].index = m
        BY <1>2, <1>3, <3>2 DEF Links
      <4>2. PICK k \in Expanded(ms) : j \in BlockOf(ms, k)
        BY <1>3 DEF Links
      <4>3. k < m /\ k \in Nat
        <5>1. k < ds[j + 1].index
          BY <1>3, <3>2, <4>1, <4>2 DEF Links
        <5>2. k \in Nat
          BY <1>2, <4>2, VectorFacts
        <5> QED
          BY <4>1, <5>1, <5>2
      <4>4. k \in T
        BY <1>9, <4>3
      <4>5. ds[j + 1].sim_count <= total /\ ds[j + 1].sim_count \in Nat
        BY <1>2, <4>2, <4>4, VectorFacts
      <4> QED
        BY <1>8, <3>2, <4>1, <4>5
    <3> QED
      BY <3>1, <3>2
  <2>2. BlockSims(ds, ms[m + 1]) \in Nat /\ ds[i + 1].sim_count <= BlockSims(ds, ms[m + 1])
    BY <1>2, BlockSimsNat
  <2>3. ~is_terminal(ms[m + 1])
    <3>1. ms[m + 1].first \in Nat /\ ms[m + 1].second \in Nat
      BY <1>2, VectorFacts
    <3> QED
      BY <3>1 DEF BlockOf, ChildIndices, is_terminal
  <2>4. s = BlockSims(ds, ms[m + 1]) + 1
    BY <2>1, <2>3 DEF Balanced
  <2>5. i \in Indices(ds) /\ ds[i + 1].sim_count \in Nat
    BY <1>2, VectorFacts
  <2> QED
    BY <2>1, <2>2, <2>4, <2>5
<1> HIDE DEF T
<1>10. \A m \in Nat : m \in T
  BY <1>9, StrongInduction
<1>11. \A i \in Indices(ds) : ds[i + 1].sim_count <= total
  <2> TAKE i \in Indices(ds)
  <2>1. PICK m \in Expanded(ms) : i \in BlockOf(ms, m)
    BY <1>3 DEF Links
  <2>2. m \in Nat
    BY <1>2, VectorFacts
  <2> QED
    BY <1>10, <2>1, <2>2 DEF T
<1> QED
  BY <1>7, <1>8, <1>11 DEF Counted, RootBalanced

-----------------------------------------------------------------------------
(* fix_tree makes a copy.                                                  *)

(* The tree of this module is one fix_tree can copy. *)
LEMMA TreeIsLinked ==
  ASSUME Vectors(nodes, children), Links(nodes, children)
  PROVE  /\ Linked /\ Joined(Nodes) /\ InVector
         /\ Nodes = Indices(nodes) /\ Children = Indices(children)
         /\ \A n \in Nodes : is_expanded(Node(n)) <=> n \in Expanded(nodes)
         /\ \A n \in Nodes : ChildIndices(Node(n)) = BlockOf(nodes, n)
<1>1. Nodes = Indices(nodes) /\ Children = Indices(children)
  BY DEF Nodes, Children, Indices
<1>2. \A n \in Nodes : is_expanded(Node(n)) <=> n \in Expanded(nodes)
  BY <1>1 DEF Expanded, Node
<1>3. \A n \in Nodes : ChildIndices(Node(n)) = BlockOf(nodes, n)
  BY DEF BlockOf, Node
<1>4. InVector
  BY <1>2 DEF Vectors, InVector, Node
<1>5. Linked
  <2>1. Len(nodes) \in Nat
    BY VectorFacts
  <2>2. \A n \in Nodes : Node(n).first \in Nat /\ Node(n).second \in Nat
    BY <1>1, VectorFacts DEF Node
  <2>3. ASSUME NEW n \in Nodes, is_expanded(Node(n)), NEW i \in ChildIndices(Node(n))
        PROVE  /\ Child(i).index \in Nat
               /\ Child(i).index # 0 => n < Child(i).index /\ Child(i).index < Len(nodes)
    <3>1. n \in Expanded(nodes) /\ i \in BlockOf(nodes, n) /\ i \in Indices(children)
      BY <1>2, <1>3, <2>3, VectorFacts
    <3> QED
      BY <3>1, VectorFacts DEF Links, Child
  <2> QED
    BY <2>1, <2>2, <2>3 DEF Linked
<1>6. Joined(Nodes)
  <2>1. \A n \in Nodes : is_expanded(Node(n)) =>
          \A i \in ChildIndices(Node(n)) : Child(i).index # 0 => Child(i).index \in Nodes
    <3>1. Nodes = {n \in Nat : n < Len(nodes)} /\ Len(nodes) \in Nat
      BY <1>5 DEF Linked, Nodes
    <3> QED
      BY <1>5, <3>1 DEF Linked
  <2>2. ASSUME NEW p \in Nodes, NEW q \in Nodes, is_expanded(Node(p)), is_expanded(Node(q)),
               NEW i \in ChildIndices(Node(p)), NEW j \in ChildIndices(Node(q)),
               Child(i).index = Child(j).index, Child(i).index # 0
        PROVE  p = q /\ i = j
    <3>1. p \in Expanded(nodes) /\ q \in Expanded(nodes)
          /\ i \in BlockOf(nodes, p) /\ j \in BlockOf(nodes, q)
      BY <1>2, <1>3, <2>2
    <3>2. i \in Indices(children) /\ j \in Indices(children)
      BY <3>1, VectorFacts
    <3>3. i = j
      BY <2>2, <3>2 DEF Links, Child
    <3> QED
      BY <3>1, <3>3 DEF Links
  <2> QED
    BY <2>1, <2>2 DEF Joined
<1> QED
  BY <1>1, <1>2, <1>3, <1>4, <1>5, <1>6

(* FixedNodes and FixedChildren copy the nodes of a listing. *)
LEMMA FixedIsCopy ==
  ASSUME Vectors(nodes, children), Links(nodes, children),
         NEW r \in Nodes, NEW order, Listing(Nodes, r, order)
  PROVE  \E old, from :
           /\ IsCopy(nodes, children, FixedNodes(order), FixedChildren(order), old, from)
           /\ old[0] = r
<1> DEFINE m == Len(order)
           o(k) == CopyOffset(order, k)
           count(k) == ChildCount(order[k])
           first(k) == Node(order[k]).first
           blocks == CopiedBlocks(order)
           ms == FixedNodes(order)
           ds == FixedChildren(order)
           NewIndex(c) == IF c = 0 THEN 0 ELSE CHOOSE k \in 0..(m - 1) : order[k + 1] = c
           Open(k) == is_expanded(Node(order[k]))
           Origin(p, j) == \E k \in 1..m : \E t \in 1..count(k) :
                             p + 1 = o(k - 1) + t /\ j = first(k) + t - 1
           old == [k \in 0..(m - 1) |-> order[k + 1]]
           from == [p \in 0..(Len(blocks) - 1) |-> CHOOSE j \in Children : Origin(p, j)]
<1>1. /\ Linked /\ Joined(Nodes) /\ InVector
      /\ Nodes = Indices(nodes) /\ Children = Indices(children)
      /\ children \in Seq(ChildRecord) /\ nodes \in Seq(NodeRecord)
  BY TreeIsLinked DEF Vectors
<1>2. /\ order \in Seq(Nodes) /\ m \in Nat \ {0} /\ order[1] = r
      /\ \A k \in 1..m : order[k] \in Nodes
      /\ \A k, l \in 1..m : order[k] = order[l] => k = l
  <2>1. order \in Seq(Nodes) /\ m \in Nat \ {0}
    BY DEF Listing
  <2> QED
    BY <2>1 DEF Listing
<1>3. /\ o(0) = 0
      /\ \A k \in 0..m : o(k) \in Nat
      /\ \A k \in 1..m : count(k) \in Nat /\ o(k) = o(k - 1) + count(k)
      /\ blocks \in Seq(ChildRecord)
      /\ Len(blocks) = o(m)
      /\ \A k \in 1..m : \A t \in 1..count(k) :
           o(k - 1) + t \in 1..Len(blocks) /\ blocks[o(k - 1) + t] = Child(first(k) + t - 1)
      /\ \A p \in 1..Len(blocks) : \E k \in 1..m : \E t \in 1..count(k) : p = o(k - 1) + t
  BY <1>1, <1>2, CopyBlocks
<1>4. \A k, l \in 0..m : k <= l => o(k) <= o(l)
  BY <1>1, <1>2, OffsetsGrow
<1>5. \A k \in 1..m : /\ Node(order[k]) \in NodeRecord /\ first(k) \in Nat
                      /\ Open(k) => count(k) = Node(order[k]).second - first(k)
                                    /\ Node(order[k]).second <= Len(children)
                      /\ ~Open(k) => count(k) = 0
  <2> TAKE k \in 1..m
  <2>1. order[k] \in Indices(nodes)
    BY <1>1, <1>2
  <2>2. Node(order[k]) \in NodeRecord /\ first(k) \in Nat
    BY <2>1, VectorFacts DEF Node
  <2>3. Open(k) => Node(order[k]).second <= Len(children)
    BY <1>1, <1>2 DEF InVector
  <2> QED
    BY <2>2, <2>3 DEF ChildCount
<1>6. ms = [k \in 1..m |-> IF Open(k)
                           THEN [Node(order[k]) EXCEPT !.first = o(k - 1), !.second = o(k - 1) + count(k)]
                           ELSE Node(order[k])]
  BY DEF FixedNodes, CopyOffset
<1>7. ds = [p \in DOMAIN blocks |-> [blocks[p] EXCEPT !.index = NewIndex(@)]]
  BY DEF FixedChildren
<1> HIDE DEF m, o, count, blocks, ms, ds, NewIndex
<1>8. \A k \in 1..m : k - 1 \in 0..m /\ k \in 0..m
  BY <1>2
<1>9. ASSUME NEW k \in 1..m
      PROVE  /\ ms[k] \in NodeRecord
             /\ is_expanded(ms[k]) <=> Open(k)
             /\ Open(k) => ms[k].first = o(k - 1) /\ ms[k].second = o(k)
  <2> DEFINE x == Node(order[k])
             lo == o(k - 1)
             hi == o(k - 1) + count(k)
  <2>1. lo \in Nat /\ hi \in Nat /\ lo <= hi /\ hi = o(k)
    BY <1>3, <1>8
  <2>2. x \in NodeRecord
    BY <1>5
  <2>3. ms[k] = IF Open(k) THEN [x EXCEPT !.first = lo, !.second = hi] ELSE x
    BY <1>6
  <2> HIDE DEF lo, hi, x
  <2>4. CASE Open(k)
    <3>1. ms[k] = [x EXCEPT !.first = lo, !.second = hi]
      BY <2>3, <2>4
    <3>2. ms[k] \in NodeRecord /\ ms[k].first = lo /\ ms[k].second = hi
      BY <2>1, <2>2, <3>1 DEF NodeRecord
    <3> QED
      BY <2>1, <2>4, <3>2 DEF is_expanded, lo
  <2>5. CASE ~Open(k)
    BY <2>2, <2>3, <2>5 DEF x
  <2> QED
    BY <2>4, <2>5
<1> HIDE DEF Open
<1>10. ms \in Seq(NodeRecord) /\ Len(ms) = m /\ Indices(ms) = 0..(m - 1)
  <2>1. ms \in Seq(NodeRecord) /\ Len(ms) = m
    <3>1. ms = [k \in 1..m |-> ms[k]]
      BY <1>6
    <3>2. \A k \in 1..m : ms[k] \in NodeRecord
      BY <1>9
    <3> QED
      BY <1>2, <3>1, <3>2
  <2> QED
    BY <2>1 DEF Indices
<1>11. ASSUME NEW n \in 0..(m - 1)
       PROVE  /\ n + 1 \in 1..m /\ (n + 1) - 1 = n
              /\ old[n] = order[n + 1]
              /\ n \in Expanded(ms) <=> Open(n + 1)
              /\ order[n + 1] \in Expanded(nodes) <=> Open(n + 1)
              /\ Open(n + 1) => BlockOf(ms, n) = o(n)..(o(n + 1) - 1)
  <2>1. n + 1 \in 1..m /\ (n + 1) - 1 = n
    BY <1>2
  <2>2. n \in Expanded(ms) <=> Open(n + 1)
    BY <1>9, <1>10, <2>1 DEF Expanded
  <2>3. order[n + 1] \in Expanded(nodes) <=> Open(n + 1)
    BY <1>1, <1>2, <2>1 DEF Expanded, Open, Node
  <2>4. Open(n + 1) => ms[n + 1].first = o(n) /\ ms[n + 1].second = o(n + 1)
    BY <1>9, <2>1
  <2> QED
    BY <2>1, <2>2, <2>3, <2>4 DEF BlockOf, ChildIndices
<1>12. \A c : c = 0 => NewIndex(c) = 0
  BY DEF NewIndex
<1>13. ASSUME NEW y \in 1..m, order[y] # 0
       PROVE  NewIndex(order[y]) = y - 1
  <2> DEFINE c == order[y]
             k == CHOOSE x \in 0..(m - 1) : order[x + 1] = c
  <2>1. NewIndex(c) = k
    BY <1>13 DEF NewIndex
  <2>2. y - 1 \in 0..(m - 1) /\ (y - 1) + 1 = y
    BY <1>2
  <2>3. k \in 0..(m - 1) /\ order[k + 1] = c
    BY <2>2
  <2> HIDE DEF k
  <2>4. k + 1 \in 1..m
    BY <1>2, <2>3
  <2>5. k + 1 = y
    BY <1>2, <2>3, <2>4
  <2>6. k = y - 1
    BY <2>2, <2>3, <2>5
  <2> QED
    BY <2>1, <2>6
<1>14. ASSUME NEW k \in 1..m, NEW t \in 1..count(k)
       PROVE  /\ Open(k) /\ first(k) + t - 1 \in BlockOf(nodes, order[k])
              /\ first(k) + t - 1 \in Indices(children)
              /\ LET c == Child(first(k) + t - 1).index
                 IN c # 0 => \E y \in (k + 1)..m : order[y] = c
  <2>1. Open(k)
    BY <1>5, <1>14
  <2>2. is_expanded(Node(order[k])) /\ order[k] \in Nodes
    BY <1>2, <2>1 DEF Open
  <2>3. first(k) + t - 1 \in ChildIndices(Node(order[k]))
    BY <1>1, <2>2, ChildCountIs DEF count
  <2>4. BlockOf(nodes, order[k]) = ChildIndices(Node(order[k]))
    BY DEF BlockOf, Node
  <2>5. order[k] \in Expanded(nodes)
    BY <1>1, <2>2 DEF Expanded, Node
  <2> DEFINE j == first(k) + t - 1
             c == Child(j).index
  <2>6. j \in Indices(children)
    BY <2>3, <2>4, <2>5, VectorFacts
  <2> HIDE DEF j
  <2>7. c # 0 => \E y \in (k + 1)..m : order[y] = c
    <3> HAVE c # 0
    <3>1. c \in Nat \ {0}
      BY <2>6, VectorFacts DEF Child
    <3>2. EdgeTo(Nodes, order[k], c)
      BY <2>2, <2>3 DEF EdgeTo, j
    <3> HIDE DEF c
    <3> QED
      BY <3>1, <3>2 DEF Listing, m
  <2> QED
    BY <2>1, <2>3, <2>4, <2>6, <2>7 DEF j
<1>15. ASSUME NEW k \in 1..m, NEW t \in 1..count(k), NEW l \in 1..m, NEW u \in 1..count(l),
              o(k - 1) + t = o(l - 1) + u
       PROVE  k = l /\ t = u
  <2>1. /\ o(k - 1) \in Nat /\ o(l - 1) \in Nat /\ o(k) \in Nat /\ o(l) \in Nat
        /\ count(k) \in Nat /\ count(l) \in Nat
        /\ o(k) = o(k - 1) + count(k) /\ o(l) = o(l - 1) + count(l)
    BY <1>3, <1>8
  <2>2. k < l => o(k) <= o(l - 1)
    BY <1>2, <1>4, <1>8
  <2>3. l < k => o(l) <= o(k - 1)
    BY <1>2, <1>4, <1>8
  <2>4. k = l
    BY <1>15, <2>1, <2>2, <2>3
  <2> QED
    BY <1>15, <2>1, <2>4
<1>16. ASSUME NEW k \in 1..m, NEW t \in 1..count(k), NEW p, p + 1 = o(k - 1) + t, p \in Nat
       PROVE  /\ p \in 0..(Len(blocks) - 1)
              /\ from[p] = first(k) + t - 1
              /\ blocks[p + 1] = Child(from[p])
  <2> DEFINE j == first(k) + t - 1
  <2>1. p + 1 \in 1..Len(blocks) /\ blocks[p + 1] = Child(j)
    BY <1>3, <1>16
  <2>2. p \in 0..(Len(blocks) - 1)
    BY <1>3, <1>16, <2>1
  <2>3. Origin(p, j) /\ j \in Children
    BY <1>1, <1>14, <1>16
  <2>4. ASSUME NEW i, Origin(p, i)
        PROVE  i = j
    <3>1. PICK l \in 1..m : \E u \in 1..count(l) : p + 1 = o(l - 1) + u /\ i = first(l) + u - 1
      BY <2>4
    <3>2. PICK u \in 1..count(l) : p + 1 = o(l - 1) + u /\ i = first(l) + u - 1
      BY <3>1
    <3>3. k = l /\ t = u
      BY <1>15, <1>16, <3>2
    <3> QED
      BY <3>2, <3>3
  <2> HIDE DEF Origin, j
  <2>5. from[p] = j
    BY <2>2, <2>3, <2>4
  <2> QED
    BY <2>1, <2>2, <2>5 DEF j
<1> HIDE DEF Origin, from
<1>17. /\ ds \in Seq(ChildRecord) /\ Len(ds) = Len(blocks) /\ Indices(ds) = 0..(Len(blocks) - 1)
       /\ \A p \in 0..(Len(blocks) - 1) :
            /\ p \in Nat /\ p + 1 \in 1..Len(blocks)
            /\ ds[p + 1].move = blocks[p + 1].move
            /\ ds[p + 1].sim_count = blocks[p + 1].sim_count
            /\ ds[p + 1].total_score = blocks[p + 1].total_score
            /\ ds[p + 1].index = NewIndex(blocks[p + 1].index)
  <2>1. Len(blocks) \in Nat /\ DOMAIN blocks = 1..Len(blocks)
    BY <1>3
  <2>2. ASSUME NEW p \in 1..Len(blocks)
        PROVE  /\ NewIndex(blocks[p].index) \in Nat
               /\ blocks[p] \in ChildRecord
    <3>1. PICK k \in 1..m : \E t \in 1..count(k) : p = o(k - 1) + t
      BY <1>3
    <3>2. PICK t \in 1..count(k) : p = o(k - 1) + t
      BY <3>1
    <3> DEFINE c == Child(first(k) + t - 1).index
    <3>3. blocks[p].index = c
      BY <1>3, <3>2
    <3>4. c # 0 => \E y \in (k + 1)..m : order[y] = c
      BY <1>14
    <3> HIDE DEF c
    <3>5. NewIndex(c) \in Nat
      <4>1. CASE c = 0
        BY <1>12, <4>1
      <4>2. CASE c # 0
        <5>1. PICK y \in (k + 1)..m : order[y] = c
          BY <3>4, <4>2
        <5>2. y \in 1..m
          BY <1>2
        <5>3. NewIndex(c) = y - 1
          BY <1>13, <4>2, <5>1, <5>2
        <5> QED
          BY <5>2, <5>3
      <4> QED
        BY <4>1, <4>2
    <3> QED
      BY <1>3, <3>3, <3>5
  <2>3. ASSUME NEW p \in 1..Len(blocks)
        PROVE  /\ ds[p] \in ChildRecord
               /\ ds[p].move = blocks[p].move
               /\ ds[p].sim_count = blocks[p].sim_count
               /\ ds[p].total_score = blocks[p].total_score
               /\ ds[p].index = NewIndex(blocks[p].index)
    <3> DEFINE x == blocks[p]
               c == NewIndex(x.index)
    <3>1. x \in ChildRecord /\ c \in Nat
      BY <2>2
    <3>2. ds[p] = [x EXCEPT !.index = c]
      BY <1>7, <2>1
    <3> HIDE DEF x, c
    <3>3. /\ ds[p] \in ChildRecord /\ ds[p].move = x.move /\ ds[p].index = c
          /\ ds[p].sim_count = x.sim_count /\ ds[p].total_score = x.total_score
      BY <3>1, <3>2 DEF ChildRecord
    <3> QED
      BY <3>3 DEF x, c
  <2>4. ds \in Seq(ChildRecord) /\ Len(ds) = Len(blocks)
    BY <1>7, <2>1, <2>3
  <2>5. \A p \in 0..(Len(blocks) - 1) : p \in Nat /\ p + 1 \in 1..Len(blocks)
    BY <2>1
  <2> QED
    BY <2>3, <2>4, <2>5 DEF Indices
<1>18. ASSUME NEW n \in 0..(m - 1), Open(n + 1), NEW p \in BlockOf(ms, n)
       PROVE  LET k == n + 1
                  t == p - o(n) + 1
              IN t \in 1..count(k) /\ p + 1 = o(k - 1) + t /\ p \in Nat
  <2>1. p \in o(n)..(o(n + 1) - 1)
    BY <1>11, <1>18
  <2>2. o(n) \in Nat /\ o(n + 1) \in Nat /\ o(n + 1) = o(n) + count(n + 1) /\ count(n + 1) \in Nat
    BY <1>3, <1>8, <1>11
  <2> QED
    BY <1>11, <2>1, <2>2
<1>19. ASSUME NEW p \in Indices(ds)
       PROVE  \E k \in 1..m : \E t \in 1..count(k) :
                p + 1 = o(k - 1) + t /\ k - 1 \in 0..(m - 1) /\ Open(k) /\ p \in BlockOf(ms, k - 1)
  <2>1. p \in Nat /\ p + 1 \in 1..Len(blocks)
    BY <1>17
  <2>2. PICK k \in 1..m : \E t \in 1..count(k) : p + 1 = o(k - 1) + t
    BY <1>3, <2>1
  <2>3. PICK t \in 1..count(k) : p + 1 = o(k - 1) + t
    BY <2>2
  <2>4. Open(k) /\ k - 1 \in 0..(m - 1) /\ (k - 1) + 1 = k
    BY <1>2, <1>14
  <2>5. BlockOf(ms, k - 1) = o(k - 1)..(o(k) - 1)
    BY <1>11, <2>4
  <2>6. o(k - 1) \in Nat /\ count(k) \in Nat /\ o(k) = o(k - 1) + count(k)
    BY <1>3, <1>8
  <2>7. p \in BlockOf(ms, k - 1)
    BY <2>1, <2>3, <2>5, <2>6
  <2> QED
    BY <2>3, <2>4, <2>7
<1>20. old \in [Indices(ms) -> Indices(nodes)] /\ \A n, k \in Indices(ms) : old[n] = old[k] => n = k
  <2>1. \A n \in 0..(m - 1) : order[n + 1] \in Indices(nodes)
    BY <1>1, <1>2, <1>11
  <2>2. \A n, k \in 0..(m - 1) : order[n + 1] = order[k + 1] => n = k
    <3> TAKE n, k \in 0..(m - 1)
    <3> HAVE order[n + 1] = order[k + 1]
    <3>1. n + 1 = k + 1 /\ n \in Int /\ k \in Int
      BY <1>2, <1>11
    <3> QED
      BY <3>1
  <2> QED
    BY <1>10, <2>1, <2>2
<1>21. ASSUME NEW p \in Indices(ds)
       PROVE  /\ from[p] \in Indices(children)
              /\ ds[p + 1].move = children[from[p] + 1].move
              /\ ds[p + 1].sim_count = children[from[p] + 1].sim_count
              /\ ds[p + 1].total_score = children[from[p] + 1].total_score
              /\ ds[p + 1].index = 0 <=> children[from[p] + 1].index = 0
              /\ ds[p + 1].index # 0 =>
                   ds[p + 1].index \in Indices(ms) /\ old[ds[p + 1].index] = children[from[p] + 1].index
              /\ \A n \in 0..(m - 1) : Open(n + 1) /\ p \in BlockOf(ms, n) /\ ds[p + 1].index # 0 =>
                   n < ds[p + 1].index
  <2>1. PICK k \in 1..m : \E t \in 1..count(k) :
          p + 1 = o(k - 1) + t /\ k - 1 \in 0..(m - 1) /\ Open(k) /\ p \in BlockOf(ms, k - 1)
    BY <1>19
  <2>2. PICK t \in 1..count(k) :
          p + 1 = o(k - 1) + t /\ k - 1 \in 0..(m - 1) /\ Open(k) /\ p \in BlockOf(ms, k - 1)
    BY <2>1
  <2>3. p \in Nat
    BY <1>17
  <2>4. from[p] = first(k) + t - 1 /\ blocks[p + 1] = Child(from[p])
    BY <1>16, <2>2, <2>3
  <2>5. from[p] \in Indices(children)
    BY <1>14, <2>4
  <2> DEFINE c == Child(from[p]).index
             y == ds[p + 1].index
  <2>6. y = NewIndex(c) /\ ds[p + 1].move = Child(from[p]).move
        /\ ds[p + 1].sim_count = Child(from[p]).sim_count
        /\ ds[p + 1].total_score = Child(from[p]).total_score
    BY <1>17, <2>4
  <2>7. c # 0 => \E z \in (k + 1)..m : order[z] = c
    BY <1>14, <2>4
  <2> HIDE DEF c, y
  <2>8. CASE c = 0
    <3>1. y = 0
      BY <1>12, <2>6, <2>8
    <3> QED
      BY <2>5, <2>6, <2>8, <3>1 DEF c, y, Child
  <2>9. CASE c # 0
    <3>1. PICK z \in (k + 1)..m : order[z] = c
      BY <2>7, <2>9
    <3>2. z \in 1..m /\ z - 1 \in 0..(m - 1) /\ z - 1 # 0 /\ (z - 1) + 1 = z /\ k <= z - 1
      BY <1>2
    <3>3. y = z - 1
      BY <1>13, <2>6, <2>9, <3>1, <3>2
    <3>4. old[z - 1] = order[(z - 1) + 1]
      BY <1>11, <3>2
    <3>5. old[y] = c /\ y \in Indices(ms) /\ y # 0
      BY <1>10, <3>1, <3>2, <3>3, <3>4
    <3>6. ASSUME NEW n \in 0..(m - 1), Open(n + 1), p \in BlockOf(ms, n)
          PROVE  n < y
      <4>1. /\ p - o(n) + 1 \in 1..count(n + 1)
            /\ p + 1 = o((n + 1) - 1) + (p - o(n) + 1)
            /\ n + 1 \in 1..m
        BY <1>11, <1>18, <3>6
      <4>2. n + 1 = k
        BY <1>15, <2>2, <4>1
      <4> QED
        BY <3>2, <3>3, <4>2
    <3> QED
      BY <2>5, <2>6, <2>9, <3>5, <3>6 DEF c, y, Child
  <2> QED
    BY <2>8, <2>9
<1>22. ASSUME NEW n \in Expanded(ms)
       PROVE  /\ n \in 0..(m - 1) /\ Open(n + 1)
              /\ ms[n + 1].second <= Len(ds)
              /\ ms[n + 1].second - ms[n + 1].first = nodes[old[n] + 1].second - nodes[old[n] + 1].first
              /\ \A i \in BlockOf(ms, n) : from[i] = nodes[old[n] + 1].first + (i - ms[n + 1].first)
              /\ \A i \in BlockOf(ms, n) : i \in Indices(ds)
  <2>1. n \in 0..(m - 1) /\ Open(n + 1) /\ n + 1 \in 1..m /\ (n + 1) - 1 = n
    <3>1. n \in 0..(m - 1)
      BY <1>10 DEF Expanded
    <3> QED
      BY <1>11, <3>1
  <2>2. ms[n + 1].first = o(n) /\ ms[n + 1].second = o(n + 1)
    BY <1>9, <2>1
  <2>3. /\ o(n) \in Nat /\ o(n + 1) \in Nat /\ count(n + 1) \in Nat
        /\ o(n + 1) = o(n) + count(n + 1)
        /\ o(n + 1) <= o(m) /\ Len(ds) = o(m)
    <3>1. Len(ds) = o(m)
      BY <1>3, <1>17
    <3>2. n \in 0..m /\ n + 1 \in 0..m /\ m \in 0..m /\ n + 1 <= m
      BY <1>2, <1>8, <2>1
    <3>3. /\ o(n) \in Nat /\ o(n + 1) \in Nat /\ count(n + 1) \in Nat
          /\ o(n + 1) = o(n) + count(n + 1)
      BY <1>3, <2>1, <3>2
    <3>4. o(n + 1) <= o(m)
      BY <1>4, <3>2
    <3> QED
      BY <3>1, <3>3, <3>4
  <2>4. nodes[old[n] + 1] = Node(order[n + 1])
    BY <1>11, <2>1 DEF Node
  <2>5. count(n + 1) = Node(order[n + 1]).second - first(n + 1) /\ first(n + 1) \in Nat
    BY <1>5, <2>1
  <2>6. ASSUME NEW i \in BlockOf(ms, n)
        PROVE  /\ from[i] = nodes[old[n] + 1].first + (i - ms[n + 1].first)
               /\ i \in Indices(ds)
    <3> DEFINE t == i - o(n) + 1
    <3>1. t \in 1..count(n + 1) /\ i + 1 = o((n + 1) - 1) + t /\ i \in Nat
      BY <1>18, <2>1, <2>6
    <3> HIDE DEF t
    <3>2. from[i] = first(n + 1) + t - 1 /\ i \in 0..(Len(blocks) - 1)
      BY <1>16, <2>1, <3>1
    <3>3. t = i - o(n) + 1
      BY DEF t
    <3>4. first(n + 1) + t - 1 = first(n + 1) + (i - o(n))
      BY <2>3, <2>5, <3>1, <3>3
    <3> QED
      BY <1>17, <2>2, <2>4, <3>2, <3>4
  <2> QED
    BY <2>1, <2>2, <2>3, <2>4, <2>5, <2>6
<1>23. \A n \in Indices(ms) : n \in Expanded(ms) <=> old[n] \in Expanded(nodes)
  BY <1>10, <1>11
<1>24. \A p \in Indices(ds) : \E n \in Expanded(ms) : p \in BlockOf(ms, n)
  <2> TAKE p \in Indices(ds)
  <2>1. PICK k \in 1..m : \E t \in 1..count(k) :
          p + 1 = o(k - 1) + t /\ k - 1 \in 0..(m - 1) /\ Open(k) /\ p \in BlockOf(ms, k - 1)
    BY <1>19
  <2>2. k - 1 \in 0..(m - 1) /\ Open(k) /\ p \in BlockOf(ms, k - 1) /\ (k - 1) + 1 = k
    BY <1>2, <2>1
  <2>3. k - 1 \in Expanded(ms)
    BY <1>11, <2>2
  <2> QED
    BY <2>2, <2>3
<1>25. \A n, l \in Expanded(ms) : \A i \in BlockOf(ms, n) : i \in BlockOf(ms, l) => n = l
  <2> TAKE n, l \in Expanded(ms)
  <2> TAKE i \in BlockOf(ms, n)
  <2> HAVE i \in BlockOf(ms, l)
  <2>1. n \in 0..(m - 1) /\ Open(n + 1) /\ n + 1 \in 1..m /\ l \in 0..(m - 1) /\ Open(l + 1) /\ l + 1 \in 1..m
    BY <1>11, <1>22
  <2>2. /\ i - o(n) + 1 \in 1..count(n + 1) /\ i + 1 = o((n + 1) - 1) + (i - o(n) + 1)
        /\ i - o(l) + 1 \in 1..count(l + 1) /\ i + 1 = o((l + 1) - 1) + (i - o(l) + 1)
    BY <1>18, <2>1
  <2>3. n + 1 = l + 1
    BY <1>15, <2>1, <2>2
  <2> QED
    BY <2>1, <2>3
<1>26. \A n \in Indices(ms) \ {0} : \E i \in Indices(ds) : ds[i + 1].index = n
  <2> TAKE n \in Indices(ms) \ {0}
  <2>1. n \in 0..(m - 1) /\ n + 1 \in 2..m /\ (n + 1) - 1 = n /\ n + 1 \in 1..m
    BY <1>2, <1>10
  <2>2. PICK k \in 1..n : EdgeTo(Nodes, order[k], order[n + 1])
    <3>1. \E k \in 1..((n + 1) - 1) : EdgeTo(Nodes, order[k], order[n + 1])
      BY <2>1 DEF Listing, m
    <3> QED
      BY <2>1, <3>1
  <2>3. k \in 1..m /\ is_expanded(Node(order[k])) /\ order[k] \in Nodes
    <3>1. k \in 1..m
      BY <1>2, <2>1
    <3> QED
      BY <2>2, <3>1 DEF EdgeTo
  <2>4. PICK j \in ChildIndices(Node(order[k])) : Child(j).index = order[n + 1]
    BY <2>2 DEF EdgeTo
  <2> DEFINE t == j - first(k) + 1
             p == o(k - 1) + t - 1
  <2>5. t \in 1..count(k) /\ first(k) + t - 1 = j
    BY <1>1, <2>3, ChildCountIs DEF count
  <2> HIDE DEF t
  <2>6. p \in Nat /\ p + 1 = o(k - 1) + t
    <3>1. o(k - 1) \in Nat /\ count(k) \in Nat
      BY <1>3, <1>8, <2>3
    <3>2. t \in Nat \ {0}
      BY <2>5, <3>1
    <3> QED
      BY <3>1, <3>2
  <2> HIDE DEF p
  <2>7. p \in 0..(Len(blocks) - 1) /\ blocks[p + 1] = Child(j)
    <3>1. p \in 0..(Len(blocks) - 1) /\ from[p] = first(k) + t - 1 /\ blocks[p + 1] = Child(from[p])
      BY <1>16, <2>3, <2>5, <2>6
    <3>2. from[p] = j
      BY <2>5, <3>1
    <3> QED
      BY <3>1, <3>2
  <2>8. order[n + 1] # 0
    <3>1. order[n + 1] # r /\ r <= order[n + 1]
      BY <1>2, <2>1 DEF Listing, m
    <3>2. r \in Nat /\ order[n + 1] \in Nat
      <4>1. r \in Indices(nodes) /\ order[n + 1] \in Indices(nodes)
        BY <1>1, <1>2, <2>1
      <4> QED
        BY <4>1, VectorFacts
    <3> QED
      BY <3>1, <3>2
  <2>9. ds[p + 1].index = n
    BY <1>13, <1>17, <2>1, <2>4, <2>7, <2>8
  <2> QED
    BY <1>17, <2>7, <2>9
<1>27. from \in [Indices(ds) -> Indices(children)]
  <2>1. from = [p \in Indices(ds) |-> from[p]]
    BY <1>17 DEF from
  <2> QED
    BY <1>21, <2>1
<1>28. 0 \in Indices(ms) /\ old[0] = r
  BY <1>2, <1>10, <1>11
<1> HIDE DEF old
<1>29. \A n \in Expanded(ms) : \A i \in BlockOf(ms, n) : ds[i + 1].index # 0 => n < ds[i + 1].index
  BY <1>21, <1>22
<1>30. IsCopy(nodes, children, ms, ds, old, from)
  BY <1>10, <1>17, <1>20, <1>21, <1>22, <1>23, <1>24, <1>25, <1>26, <1>27, <1>28, <1>29 DEF IsCopy
<1> QED
  BY <1>28, <1>30 DEF ms, ds

-----------------------------------------------------------------------------
(* A tree of one node, before and after it gets its children.              *)
LEMMA FreshTree ==
  ASSUME NEW p \in Position
  PROVE  LET ns == ExpandNode(<<create_node(p)>>, <<>>, 0, p)
             cs == new_children(p)
         IN /\ \E pos : Tree(ns, cs, p, pos)
            /\ Counted(ns, cs, 0)
            /\ 0 \in Expanded(ns)
            /\ BlockSims(cs, ns[1]) = 0
<1> DEFINE new == new_children(p)
           ns == <<Unexpanded>>
           none == <<>>
           pos == [n \in {0} |-> p]
           ms == ExpandNode(<<create_node(p)>>, none, 0, p)
<1>1. ListsMoves(p, new)
  BY NewChildrenList
<1> HIDE DEF new
<1>2. new \in Seq(ChildRecord) /\ none \o new = new
  BY <1>1 DEF ListsMoves
<1>3. ns \in Seq(NodeRecord) /\ Len(ns) = 1 /\ ns[1] = [first |-> 1, second |-> 0]
  BY DEF Unexpanded, NodeRecord
<1>4. none \in Seq(ChildRecord) /\ Len(none) = 0 /\ Indices(none) = {}
  BY DEF Indices
<1>5. ms = Widened(ns, none, 0, new)
  <2>1. ms = [<<create_node(p)>> EXCEPT ![0 + 1] =
                [first |-> Len(none), second |-> Len(none) + Len(new)]]
    BY DEF ExpandNode, new
  <2>2. [<<create_node(p)>> EXCEPT ![0 + 1] = [first |-> Len(none), second |-> Len(none) + Len(new)]]
        = <<[first |-> Len(none), second |-> Len(none) + Len(new)]>>
    OBVIOUS
  <2>3. [ns EXCEPT ![0 + 1] = [first |-> Len(none), second |-> Len(none) + Len(new)]]
        = <<[first |-> Len(none), second |-> Len(none) + Len(new)]>>
    BY <1>3
  <2> QED
    BY <2>1, <2>2, <2>3 DEF Widened
<1> HIDE DEF ms, ns
<1>6. Indices(ns) = {0} /\ 0 \in Indices(ns)
  BY <1>3 DEF Indices
<1>7. Expanded(ns) = {}
  <2>1. ~is_expanded(ns[0 + 1])
    BY <1>3 DEF is_expanded
  <2> QED
    BY <1>6, <2>1 DEF Expanded
<1> HIDE DEF none
<1>8. Tree(ns, none, p, pos)
  <2>1. Vectors(ns, none)
    BY <1>3, <1>4, <1>6, <1>7 DEF Vectors
  <2>2. Links(ns, none)
    BY <1>4, <1>6, <1>7 DEF Links
  <2>3. Placement(ns, none, p, pos)
    BY <1>6, <1>7 DEF Placement
  <2>4. Moves(ns, none, pos) /\ VisitedOrder(ns, none)
    BY <1>7 DEF Moves, VisitedOrder
  <2> QED
    BY <2>1, <2>2, <2>3, <2>4 DEF Tree
<1>9. pos[0] = p
  OBVIOUS
<1> HIDE DEF pos
<1>10. Vectors(ns, none)
  BY <1>8 DEF Tree
<1>11. Widens(ns, none, 0, new, ms, new)
  <2>1. Widens(ns, none, 0, new, Widened(ns, none, 0, new), none \o new)
    BY <1>2, <1>6, <1>10, WidensFacts
  <2> QED
    BY <1>2, <1>5, <2>1
<1>12. Tree(ms, new, p, pos)
  BY <1>1, <1>6, <1>7, <1>8, <1>9, <1>11, ExpandKeepsTree
<1>13. 0 \in Expanded(ms)
  BY <1>11 DEF Widens
<1>14. BlockSims(new, ms[0 + 1]) = 0
  BY <1>1, <1>6, <1>10, <1>11, NewBlockSims
<1>15. Counted(ms, new, 0)
  <2>1. ASSUME NEW i \in Indices(new)
        PROVE  new[i + 1].index = 0 /\ new[i + 1].sim_count = 0
    <3>1. i + 1 \in 1..Len(new)
      BY <1>2 DEF Indices
    <3> QED
      BY <1>1, <3>1 DEF ListsMoves
  <2>2. RootBalanced(ms, new, 0)
    BY <1>13, <1>14 DEF RootBalanced
  <2> QED
    BY <2>1, <2>2 DEF Counted
<1> QED
  BY <1>12, <1>13, <1>14, <1>15 DEF ms, new, none

(* create_children on a node of a tree that has none. *)
LEMMA ExpandAnyNode ==
  ASSUME NEW ns, NEW cs, NEW root, NEW pos, Tree(ns, cs, root, pos),
         NEW total \in Nat, Counted(ns, cs, total),
         NEW n \in Indices(ns), n \notin Expanded(ns)
  PROVE  LET ms == ExpandNode(ns, cs, n, pos[n])
             ds == ExpandChildren(cs, pos[n])
         IN /\ Tree(ms, ds, root, pos)
            /\ Counted(ms, ds, total)
            /\ Expanded(ms) = Expanded(ns) \cup {n}
            /\ BlockSims(ds, ms[n + 1]) = 0
            /\ \A m \in Expanded(ns) : BlockSims(ds, ms[m + 1]) = BlockSims(cs, ns[m + 1])
            /\ \A on : Way(ns, cs, on, n) => Way(ms, ds, on, n)
            /\ \A i \in Indices(cs) : ds[i + 1] = cs[i + 1] /\ i \in Indices(ds)
            /\ \A i \in BlockOf(ms, n) : ds[i + 1].index = 0
            /\ Legal[pos[n]] = {} => ds = cs
            /\ Indices(ms) = Indices(ns)
<1> DEFINE new == new_children(pos[n])
           ms == ExpandNode(ns, cs, n, pos[n])
           ds == ExpandChildren(cs, pos[n])
<1>1. pos[n] \in Position /\ Vectors(ns, cs)
  BY DEF Tree, Placement
<1>2. ListsMoves(pos[n], new)
  BY <1>1, NewChildrenList
<1>3. ms = Widened(ns, cs, n, new) /\ ds = cs \o new
  BY DEF ExpandNode, Widened, ExpandChildren
<1> HIDE DEF new, ms, ds
<1>4. Widens(ns, cs, n, new, ms, ds)
  BY <1>1, <1>2, <1>3, WidensFacts DEF ListsMoves
<1>5. Tree(ms, ds, root, pos)
  BY <1>2, <1>4, ExpandKeepsTree
<1>6. Counted(ms, ds, total) /\ \A m \in Expanded(ns) : BlockSims(ds, ms[m + 1]) = BlockSims(cs, ns[m + 1])
  BY <1>2, <1>4, ExpandKeepsCounts
<1>7. BlockSims(ds, ms[n + 1]) = 0
  BY <1>1, <1>2, <1>4, NewBlockSims
<1>8. \A on : Way(ns, cs, on, n) => Way(ms, ds, on, n)
  BY <1>2, <1>4, ExpandKeepsWay
<1>9. \A i \in BlockOf(ms, n) : ds[i + 1].index = 0
  <2> TAKE i \in BlockOf(ms, n)
  <2> DEFINE k == i - Len(cs) + 1
  <2>1. k \in 1..Len(new) /\ ds[i + 1] = new[k]
    BY <1>4 DEF Widens
  <2> HIDE DEF k
  <2> QED
    BY <1>2, <2>1 DEF ListsMoves
<1>10. Legal[pos[n]] = {} => ds = cs
  <2> HAVE Legal[pos[n]] = {}
  <2>1. new \in Seq(ChildRecord) /\ ~ \E k \in 1..Len(new) : TRUE
    BY <1>2 DEF ListsMoves
  <2>2. new = <<>>
    BY <2>1
  <2>3. cs \in Seq(ChildRecord)
    BY <1>1 DEF Vectors
  <2> QED
    BY <1>3, <2>2, <2>3
<1>11. Expanded(ms) = Expanded(ns) \cup {n} /\ \A i \in Indices(cs) : ds[i + 1] = cs[i + 1] /\ i \in Indices(ds)
  BY <1>4 DEF Widens
<1>12. Indices(ms) = Indices(ns)
  BY <1>4 DEF Widens, Indices
<1> QED
  BY <1>5, <1>6, <1>7, <1>8, <1>9, <1>10, <1>11, <1>12 DEF ms, ds

(* A node was simulated as often as its children, or once more. *)
SimulatedTimes(cs, n, total, s) ==
  \/ n = 0 /\ s = total
  \/ n # 0 /\ \E i \in Indices(cs) : cs[i + 1].index = n /\ s = cs[i + 1].sim_count

(* The simulations of a node in terms of those of its children. *)
LEMMA NodeSims ==
  ASSUME NEW ns, NEW cs, Vectors(ns, cs), NEW total \in Nat, Counted(ns, cs, total),
         NEW n \in Expanded(ns), ~is_terminal(ns[n + 1]), NEW s, SimulatedTimes(cs, n, total, s)
  PROVE  /\ s \in Nat /\ BlockSims(cs, ns[n + 1]) \in Nat
         /\ n # 0 => s = BlockSims(cs, ns[n + 1]) + 1
         /\ n = 0 => s - BlockSims(cs, ns[n + 1]) \in {0, 1}
         /\ BlockSims(cs, ns[n + 1]) <= s
<1>1. BlockSims(cs, ns[n + 1]) \in Nat
  BY BlockSimsNat
<1>2. CASE n = 0
  <2>1. s = total /\ RootBalanced(ns, cs, s)
    BY <1>2 DEF SimulatedTimes, Counted
  <2>2. s = BlockSims(cs, ns[0 + 1]) + 1 \/ s = BlockSims(cs, ns[0 + 1])
    BY <1>2, <2>1 DEF RootBalanced, Balanced
  <2> QED
    BY <1>1, <1>2, <2>1, <2>2
<1>3. CASE n # 0
  <2>1. PICK i \in Indices(cs) : cs[i + 1].index = n /\ s = cs[i + 1].sim_count
    BY <1>3 DEF SimulatedTimes
  <2>2. Balanced(ns, cs, n, s) /\ s \in Nat
    BY <1>3, <2>1, VectorFacts DEF Counted
  <2>3. s = BlockSims(cs, ns[n + 1]) + 1
    BY <2>2 DEF Balanced
  <2> QED
    BY <1>1, <1>3, <2>2, <2>3
<1> QED
  BY <1>2, <1>3

(* The stack grows by one child. *)
LEMMA OnWayGrows ==
  ASSUME NEW S, NEW stack \in Seq(S), NEW e
  PROVE  OnWay(Append(stack, e)) = OnWay(stack) \cup {e.child}
<1> DEFINE T == S \cup {e}
           more == Append(stack, e)
<1>1. stack \in Seq(T) /\ e \in T /\ Len(stack) \in Nat
  OBVIOUS
<1>2. /\ Len(more) = Len(stack) + 1 /\ DOMAIN more = 1..Len(more) /\ DOMAIN stack = 1..Len(stack)
      /\ \A k \in 1..Len(stack) : more[k] = stack[k]
      /\ more[Len(stack) + 1] = e
  BY <1>1
<1> HIDE DEF more
<1>3. ToSet(more) = ToSet(stack) \cup {e}
  BY <1>1, <1>2 DEF ToSet
<1> QED
  BY <1>3 DEF OnWay, more

(* The end of a simulation that visits a child. *)
VisitedNodes(ns, cs, n, s, p, i) ==
  LET l == FirstUnvisited(cs, ns[n + 1], s)
  IN GrownNodes(ns, After[p][Swap(cs, i, l)[l + 1].move])
VisitedChildren(ns, cs, n, s, p, i, stack, results) ==
  LET l == FirstUnvisited(cs, ns[n + 1], s)
  IN Backpropagate(GrownChildren(ns, Swap(cs, i, l), l),
                   Append(stack, [node |-> n, child |-> l, player |-> Mover[p]]), results)

(* It leaves a tree whose counts are right, with one visit more below the  *)
(* root.                                                                   *)
LEMMA VisitKeepsTree ==
  ASSUME NEW ns, NEW cs, NEW root, NEW pos, Tree(ns, cs, root, pos),
         NEW total \in Nat, Counted(ns, cs, total),
         NEW n \in Expanded(ns), NEW s, SimulatedTimes(cs, n, total, s),
         Unvisited(ns, cs, n) # {},
         NEW S, NEW stack \in Seq(S), \A e \in ToSet(stack) : e.player \in Player,
         Way(ns, cs, OnWay(stack), n), Mover[pos[n]] \in Player,
         NEW i \in FirstUnvisited(cs, ns[n + 1], s)..(ns[n + 1].second - 1),
         NEW results \in [Player -> Score],
         NEW ms, ms = VisitedNodes(ns, cs, n, s, pos[n], i),
         NEW ds, ds = VisitedChildren(ns, cs, n, s, pos[n], i, stack, results)
  PROVE  /\ \E qos : Tree(ms, ds, root, qos)
         /\ Counted(ms, ds, total + 1)
         /\ Expanded(ns) \subseteq Expanded(ms)
         /\ BlockSims(ds, ms[1]) = BlockSims(cs, ns[1]) + 1
<1> DEFINE l == FirstUnvisited(cs, ns[n + 1], s)
           swapped == Swap(cs, i, l)
           next == After[pos[n]][swapped[l + 1].move]
           given == GrownChildren(ns, swapped, l)
           edge == [node |-> n, child |-> l, player |-> Mover[pos[n]]]
           more == Append(stack, edge)
           qos == Grown(pos, ns, next)
<1>a. ms = GrownNodes(ns, next) /\ ds = Backpropagate(given, more, results)
  BY DEF VisitedNodes, VisitedChildren
<1>b. edge.child = l /\ edge.player \in Player
  OBVIOUS
<1> HIDE DEF edge, given, swapped, next, qos
<1>1. /\ Vectors(ns, cs) /\ Links(ns, cs) /\ VisitedOrder(ns, cs)
      /\ Placement(ns, cs, root, pos) /\ Moves(ns, cs, pos)
  BY DEF Tree
<1>2. n \in Indices(ns) /\ BlockOf(ns, n) \subseteq Indices(cs)
      /\ ns[n + 1].first \in Nat /\ ns[n + 1].second \in Nat
  BY <1>1, VectorFacts
<1>3. ~is_terminal(ns[n + 1])
  BY <1>2 DEF BlockOf, ChildIndices, is_terminal, Unvisited
<1>4. s \in Nat /\ BlockSims(cs, ns[n + 1]) <= s
  BY <1>1, <1>3, NodeSims
<1>5. \A k \in BlockOf(ns, n) : cs[k + 1].index = 0 <=> cs[k + 1].sim_count = 0
  BY <1>2 DEF Counted
<1>6. FirstOpen(ns, cs, n, l)
  BY <1>1, <1>4, FirstUnvisitedIs
<1>c. i \in l..(ns[n + 1].second - 1)
  OBVIOUS
<1> HIDE DEF l
<1>7. /\ i \in BlockOf(ns, n) /\ cs[i + 1].index = 0
      /\ l \in BlockOf(ns, n) /\ cs[l + 1].index = 0
      /\ cs[i + 1].sim_count = 0 /\ cs[l + 1].sim_count = 0
  <2>1. i \in BlockOf(ns, n) /\ l <= i
    BY <1>2, <1>6, <1>c DEF BlockOf, ChildIndices, FirstOpen
  <2> QED
    BY <1>5, <1>6, <2>1 DEF FirstOpen
<1>8. /\ Tree(ns, swapped, root, pos) /\ SameIndices(cs, swapped) /\ SameCounts(cs, swapped)
  BY <1>7, SwapKeepsTree DEF swapped
<1>9. /\ Counted(ns, swapped, total)
      /\ \A m \in Expanded(ns) : BlockSims(swapped, ns[m + 1]) = BlockSims(cs, ns[m + 1])
  BY <1>1, <1>8, SameCountsKeep
<1>10. Way(ns, swapped, OnWay(stack), n) /\ Indices(swapped) = Indices(cs)
  BY <1>1, <1>8, SameIndicesKeep
<1>11. FirstOpen(ns, swapped, n, l) /\ swapped[l + 1].index = 0
  <2>1. \A k \in BlockOf(ns, n) : swapped[k + 1].index = cs[k + 1].index
    BY <1>2, <1>8 DEF SameIndices
  <2> QED
    BY <1>6, <2>1 DEF FirstOpen
<1>12. /\ Vectors(ns, swapped) /\ Links(ns, swapped) /\ l \in Indices(swapped)
       /\ swapped[l + 1].move \in Legal[pos[n]] /\ swapped[l + 1].move \in Move
       /\ pos[n] \in Position
  BY <1>2, <1>7, <1>8, <1>10, VectorFacts DEF Tree, Moves, Placement
<1>13. next \in Position /\ next = After[pos[n]][swapped[l + 1].move]
  BY <1>12, GameAssumption DEF next
<1>14. Tree(ms, given, root, qos) /\ Grows(ns, swapped, n, l, ms, given)
  BY <1>a, <1>8, <1>11, <1>13, GrowKeepsTree DEF given, qos
<1>15. Vectors(ms, given) /\ Links(ms, given) /\ given \in Seq(ChildRecord)
  BY <1>14 DEF Tree, Vectors
<1>16. /\ Pending(ms, given, Len(ns), total)
       /\ \A m \in Expanded(ns) : BlockSims(given, ms[m + 1]) = BlockSims(swapped, ns[m + 1])
  BY <1>9, <1>11, <1>12, <1>14, <1>15, GrowKeepsCounts
<1>17. OnWay(more) = OnWay(stack) \cup {l}
  BY <1>b, OnWayGrows
<1>18. Way(ms, given, OnWay(more), Len(ns))
  BY <1>10, <1>14, <1>17 DEF Grows
<1>19. \A e \in ToSet(more) : e.player \in Player
  <2>1. ToSet(more) = ToSet(stack) \cup {edge}
    <3> DEFINE T == S \cup {edge}
    <3>1. stack \in Seq(T) /\ edge \in T /\ Len(stack) \in Nat
      OBVIOUS
    <3>2. /\ DOMAIN more = 1..(Len(stack) + 1) /\ DOMAIN stack = 1..Len(stack)
          /\ \A k \in 1..Len(stack) : more[k] = stack[k]
          /\ more[Len(stack) + 1] = edge
      BY <3>1
    <3> HIDE DEF more
    <3> QED
      BY <3>1, <3>2 DEF ToSet
  <2> QED
    BY <1>b, <2>1
<1> HIDE DEF more
<1>20. /\ SameIndices(given, ds)
       /\ \A k \in Indices(given) : ds[k + 1].move = given[k + 1].move
       /\ \A k \in OnWay(more) \cap Indices(given) : ds[k + 1].sim_count = given[k + 1].sim_count + 1
       /\ \A k \in Indices(given) \ OnWay(more) : ds[k + 1].sim_count = given[k + 1].sim_count
  BY <1>a, <1>15, <1>19, BackpropagateFacts
<1>21. OneMoreOn(given, ds, OnWay(more))
  BY <1>18, <1>20 DEF OneMoreOn, Way
<1>22. Settled(ms, given, ds, Len(ns))
  <2> SUFFICES ASSUME NEW k \in Indices(given), given[k + 1].index = Len(ns)
               PROVE  Balanced(ms, ds, Len(ns), given[k + 1].sim_count + 1)
    BY DEF Settled
  <2>0. Len(ns) # 0 /\ l \in Indices(given) /\ given[l + 1].index = Len(ns)
    BY <1>1, <1>12, <1>14, VectorFacts DEF Grows
  <2>1. k = l
    BY <1>15, <2>0 DEF Links
  <2>2. given[k + 1].sim_count = 0
    BY <1>9, <1>11, <1>12, <1>14, <2>1 DEF Counted, Grows
  <2>3. Len(ns) \notin Expanded(ns)
    BY <1>1, VectorFacts DEF Expanded
  <2> QED
    BY <1>14, <2>2, <2>3 DEF Balanced, Grows
<1>23. Counted(ms, ds, total + 1) /\ BlockSims(ds, ms[1]) = BlockSims(given, ms[1]) + 1
  <2>1. Len(ns) # 0
    BY <1>1, VectorFacts
  <2> QED
    BY <1>15, <1>16, <1>18, <1>20, <1>21, <1>22, <2>1, CountsAfter
<1>24. Tree(ms, ds, root, qos)
  BY <1>14, <1>20, SameMovesKeep
<1>25. BlockSims(given, ms[1]) = BlockSims(cs, ns[1])
  <2>1. 0 \in Expanded(ns)
    BY <1>2, <1>1 DEF Way
  <2>2. BlockSims(given, ms[0 + 1]) = BlockSims(swapped, ns[0 + 1])
        /\ BlockSims(swapped, ns[0 + 1]) = BlockSims(cs, ns[0 + 1])
    BY <1>9, <1>16, <2>1
  <2> QED
    BY <2>2
<1> QED
  BY <1>14, <1>23, <1>24, <1>25 DEF Grows
-----------------------------------------------------------------------------
(* What a tree knows below a node: the function Knowledge is defined by.   *)

KnownBelow(ns, cs, b, n) ==
  IF n \notin Expanded(ns) THEN {}
  ELSE {<<cs[i + 1].move, cs[i + 1].sim_count, cs[i + 1].total_score, b[cs[i + 1].index]>> :
          i \in {j \in BlockOf(ns, n) : cs[j + 1].index # 0}}
KnowledgeStep(ns, cs, b) == b = [n \in Indices(ns) |-> KnownBelow(ns, cs, b, n)]
KnowledgeOf(ns, cs) == CHOOSE b : KnowledgeStep(ns, cs, b)

(* Knowledge is that function. *)
LEMMA KnowledgeIs ==
  Knowledge = KnowledgeOf(nodes, children)
<1> DEFINE below(b, n) ==
             IF ~is_expanded(Node(n)) THEN {}
             ELSE {<<Child(i).move, Child(i).sim_count, Child(i).total_score, b[Child(i).index]>> :
                     i \in {j \in ChildIndices(Node(n)) : Child(j).index # 0}}
           Step(b) == b = [n \in Nodes |-> below(b, n)]
<1>1. Knowledge = CHOOSE b : Step(b)
  BY DEF Knowledge
<1>2. ASSUME NEW b
      PROVE  Step(b) <=> KnowledgeStep(nodes, children, b)
  <2>1. Nodes = Indices(nodes)
    BY DEF Nodes, Indices
  <2>2. \A n \in Nodes : below(b, n) = KnownBelow(nodes, children, b, n)
    BY <2>1, Zenon DEF KnownBelow, Node, Child, BlockOf, Expanded
  <2> HIDE DEF below
  <2> QED
    BY <2>1, <2>2 DEF KnowledgeStep
<1> HIDE DEF Step
<1> QED
  BY <1>1, <1>2 DEF KnowledgeOf

(* What is known below a node depends on the younger ones only. *)
LEMMA KnownYounger ==
  ASSUME NEW ns, NEW cs, Links(ns, cs), Vectors(ns, cs), NEW n \in Indices(ns), NEW b, NEW c,
         \A m \in Indices(ns) : n < m => b[m] = c[m]
  PROVE  KnownBelow(ns, cs, b, n) = KnownBelow(ns, cs, c, n)
<1>1. CASE n \notin Expanded(ns)
  BY <1>1 DEF KnownBelow
<1>2. CASE n \in Expanded(ns)
  <2> DEFINE S == {j \in BlockOf(ns, n) : cs[j + 1].index # 0}
             edge(d, i) == <<cs[i + 1].move, cs[i + 1].sim_count, cs[i + 1].total_score, d[cs[i + 1].index]>>
  <2>1. \A i \in S : b[cs[i + 1].index] = c[cs[i + 1].index]
    <3> TAKE i \in S
    <3>1. i \in Indices(cs) /\ cs[i + 1].index \in Nat /\ Len(ns) \in Nat
      BY <1>2, VectorFacts
    <3>2. n < cs[i + 1].index /\ cs[i + 1].index < Len(ns)
      BY <1>2 DEF Links
    <3>3. cs[i + 1].index \in Indices(ns)
      BY <3>1, <3>2 DEF Indices
    <3> QED
      BY <3>2, <3>3
  <2>2. \A i \in S : edge(b, i) = edge(c, i)
    BY <2>1
  <2>3. KnownBelow(ns, cs, b, n) = {edge(b, i) : i \in S} /\ KnownBelow(ns, cs, c, n) = {edge(c, i) : i \in S}
    BY <1>2 DEF KnownBelow
  <2> HIDE DEF S, edge
  <2> QED
    BY <2>2, <2>3
<1> QED
  BY <1>1, <1>2

(* There is such a function. *)
LEMMA KnowledgeExists ==
  ASSUME NEW ns, NEW cs, Links(ns, cs), Vectors(ns, cs)
  PROVE  KnowledgeStep(ns, cs, KnowledgeOf(ns, cs))
<1> DEFINE L == Len(ns)
           I == Indices(ns)
           Young(m) == {i \in I : L <= i + m}
           T == {m \in Nat : \E b : b = [i \in Young(m) |-> KnownBelow(ns, cs, b, i)]}
<1>1. L \in Nat /\ I \subseteq Nat /\ \A i \in I : i < L
  BY VectorFacts
<1> HIDE DEF L, I
<1>2. 0 \in T
  <2>1. Young(0) = {}
    <3>1. \A i \in I : ~ (L <= i + 0)
      BY <1>1
    <3> QED
      BY <3>1
  <2> DEFINE b == [i \in {} |-> 0]
  <2>2. b = [i \in Young(0) |-> KnownBelow(ns, cs, b, i)]
    BY <2>1
  <2> HIDE DEF b, Young
  <2> QED
    BY <2>2
<1>3. ASSUME NEW m \in Nat, m \in T
      PROVE  m + 1 \in T
  <2>1. PICK b : b = [i \in Young(m) |-> KnownBelow(ns, cs, b, i)]
    BY <1>3
  <2> DEFINE c == [i \in Young(m + 1) |-> KnownBelow(ns, cs, b, i)]
  <2>2. \A i \in Young(m) : i \in Young(m + 1)
    BY <1>1
  <2>3. \A i \in Young(m + 1), n \in I : i < n => n \in Young(m)
    BY <1>1
  <2>4. \A i \in Young(m + 1) : i \in I
    OBVIOUS
  <2> HIDE DEF Young
  <2>5. \A n \in Young(m) : c[n] = b[n]
    BY <2>1, <2>2
  <2>6. \A i \in Young(m + 1) : KnownBelow(ns, cs, b, i) = KnownBelow(ns, cs, c, i)
    <3> TAKE i \in Young(m + 1)
    <3>1. \A n \in I : i < n => b[n] = c[n]
      BY <2>3, <2>5
    <3> HIDE DEF c
    <3> QED
      BY <2>4, <3>1, KnownYounger DEF I
  <2>7. c = [i \in Young(m + 1) |-> KnownBelow(ns, cs, c, i)]
    BY <2>6
  <2> HIDE DEF c
  <2> QED
    BY <2>7
<1> HIDE DEF T
<1>4. L \in T
  BY <1>1, <1>2, <1>3, SetInduction
<1>5. Young(L) = I
  <2>1. \A i \in I : L <= i + L
    BY <1>1
  <2> QED
    BY <2>1
<1>6. PICK b : b = [i \in Young(L) |-> KnownBelow(ns, cs, b, i)]
  BY <1>4 DEF T
<1>7. KnowledgeStep(ns, cs, b)
  <2> HIDE DEF Young
  <2> QED
    BY <1>5, <1>6 DEF KnowledgeStep, I
<1> QED
  BY <1>7 DEF KnowledgeOf

(* Where no child was visited nothing is known. *)
LEMMA NothingKnown ==
  ASSUME NEW ns, NEW cs, Links(ns, cs), Vectors(ns, cs), NEW n \in Indices(ns),
         n \in Expanded(ns) => \A i \in BlockOf(ns, n) : cs[i + 1].index = 0
  PROVE  KnowledgeOf(ns, cs)[n] = {}
<1> DEFINE b == KnowledgeOf(ns, cs)
<1>1. KnowledgeStep(ns, cs, b)
  BY KnowledgeExists
<1> HIDE DEF b
<1>2. b[n] = KnownBelow(ns, cs, b, n)
  BY <1>1 DEF KnowledgeStep
<1>3. KnownBelow(ns, cs, b, n) = {}
  BY DEF KnownBelow
<1> QED
  BY <1>2, <1>3 DEF b

(* A copy knows what the original knew. *)
LEMMA CopyKeepsKnowledge ==
  ASSUME NEW ns, NEW cs, Vectors(ns, cs), Links(ns, cs), NEW ms, NEW ds, NEW old, NEW from,
         IsCopy(ns, cs, ms, ds, old, from), Links(ms, ds)
  PROVE  \A m \in Indices(ms) : KnowledgeOf(ms, ds)[m] = KnowledgeOf(ns, cs)[old[m]]
<1> DEFINE b == KnowledgeOf(ns, cs)
           c == KnowledgeOf(ms, ds)
           L == Len(ms)
           T == {d \in Nat : \A m \in Indices(ms) : L <= m + d => c[m] = b[old[m]]}
<1>1. Vectors(ms, ds)
  BY CopyKeepsBlocks
<1>2. /\ L \in Nat /\ Indices(ms) \subseteq Nat /\ \A m \in Indices(ms) : m < L
      /\ \A m \in Indices(ms) : old[m] \in Indices(ns)
      /\ \A m \in Indices(ms) : m \in Expanded(ms) <=> old[m] \in Expanded(ns)
  BY <1>1, VectorFacts DEF IsCopy
<1>3. KnowledgeStep(ns, cs, b) /\ KnowledgeStep(ms, ds, c)
  BY <1>1, KnowledgeExists
<1> HIDE DEF b, c
<1>4. /\ \A n \in Indices(ns) : b[n] = KnownBelow(ns, cs, b, n)
      /\ \A m \in Indices(ms) : c[m] = KnownBelow(ms, ds, c, m)
  BY <1>3 DEF KnowledgeStep
<1> HIDE DEF L
<1>5. 0 \in T
  BY <1>2
<1>6. ASSUME NEW d \in Nat, d \in T
      PROVE  d + 1 \in T
  <2> SUFFICES ASSUME NEW m \in Indices(ms), L <= m + (d + 1)
               PROVE  c[m] = b[old[m]]
    OBVIOUS
  <2>1. CASE m \notin Expanded(ms)
    BY <1>2, <1>4, <2>1 DEF KnownBelow
  <2>2. CASE m \in Expanded(ms)
    <3> DEFINE R == {i \in BlockOf(ms, m) : ds[i + 1].index # 0}
               S == {j \in BlockOf(ns, old[m]) : cs[j + 1].index # 0}
               copied(i) == <<ds[i + 1].move, ds[i + 1].sim_count, ds[i + 1].total_score, c[ds[i + 1].index]>>
               edge(j) == <<cs[j + 1].move, cs[j + 1].sim_count, cs[j + 1].total_score, b[cs[j + 1].index]>>
    <3>1. /\ \A i \in BlockOf(ms, m) : i \in Indices(ds) /\ from[i] \in BlockOf(ns, old[m])
          /\ \A j \in BlockOf(ns, old[m]) : \E i \in BlockOf(ms, m) : from[i] = j
      BY <2>2, CopyKeepsBlocks
    <3>2. ASSUME NEW i \in BlockOf(ms, m)
          PROVE  /\ ds[i + 1].move = cs[from[i] + 1].move
                 /\ ds[i + 1].sim_count = cs[from[i] + 1].sim_count
                 /\ ds[i + 1].total_score = cs[from[i] + 1].total_score
                 /\ ds[i + 1].index = 0 <=> cs[from[i] + 1].index = 0
                 /\ ds[i + 1].index # 0 =>
                      ds[i + 1].index \in Indices(ms) /\ old[ds[i + 1].index] = cs[from[i] + 1].index
                 /\ ds[i + 1].index # 0 => m < ds[i + 1].index
      BY <2>2, <3>1 DEF IsCopy
    <3>3. \A i \in R : from[i] \in S /\ copied(i) = edge(from[i])
      <4> TAKE i \in R
      <4> DEFINE y == ds[i + 1].index
      <4>1. i \in BlockOf(ms, m) /\ y # 0
        OBVIOUS
      <4>2. y \in Indices(ms) /\ old[y] = cs[from[i] + 1].index /\ m < y
        BY <3>2, <4>1
      <4>3. from[i] \in S
        BY <3>1, <3>2, <4>1
      <4> HIDE DEF y
      <4>4. L <= y + d
        BY <1>2, <4>2
      <4>5. c[y] = b[old[y]]
        BY <1>6, <4>2, <4>4
      <4> QED
        BY <3>2, <4>1, <4>2, <4>3, <4>5 DEF y
    <3>4. \A j \in S : \E i \in R : from[i] = j
      BY <3>1, <3>2
    <3>5. c[m] = {copied(i) : i \in R} /\ b[old[m]] = {edge(j) : j \in S}
      BY <1>2, <1>4, <2>2 DEF KnownBelow
    <3> HIDE DEF R, S, copied, edge
    <3> QED
      BY <3>3, <3>4, <3>5
  <2> QED
    BY <2>1, <2>2
<1> HIDE DEF T
<1>7. L \in T
  BY <1>2, <1>5, <1>6, SetInduction
<1>8. \A m \in Indices(ms) : L <= m + L
  BY <1>2
<1> QED
  BY <1>7, <1>8 DEF T, b, c
-----------------------------------------------------------------------------

(* Between two simulations: the vectors hold a tree of position root, whose*)
(* nodes stand for the positions pos, and the counts add up to total.      *)
Sound(ns, cs, total, root, pos) ==
  /\ Tree(ns, cs, root, pos)
  /\ Counted(ns, cs, total)
  /\ 0 \in Expanded(ns)
  /\ total \in 0..MaxSims

(* Within one, stack leads from the root to node n.                        *)
Descending(ns, cs, total, root, pos, stack, p, n, s) ==
  /\ Way(ns, cs, OnWay(stack), n)
  /\ stack \in Seq([node : Indices(ns), child : Indices(cs), player : Player])
  /\ n \in Indices(ns)
  /\ p = pos[n]
  /\ SimulatedTimes(cs, n, total, s)
  /\ total < MaxSims
  /\ Status[root] # "end_game"

Idle ==
  /\ pc = "idle"
  /\ children_stack = <<>>
  /\ node_index = 0
  /\ node_sim_count = 0
  /\ state = rootPos

Inv(pos) ==
  /\ Sound(nodes, children, root_sim_count, rootPos, pos)
  /\ \/ Idle
     \/ pc = "descend" /\ Descending(nodes, children, root_sim_count, rootPos, pos,
                                     children_stack, state, node_index, node_sim_count)

(* The inductive invariant.                                                *)
IInv == \E pos \in [Nodes -> Position] : Inv(pos)
-----------------------------------------------------------------------------
(* Where a tree has its parts. *)
LEMMA SoundFacts ==
  ASSUME NEW ns, NEW cs, NEW total, NEW root, NEW pos, Sound(ns, cs, total, root, pos)
  PROVE  /\ Tree(ns, cs, root, pos) /\ Counted(ns, cs, total)
         /\ Vectors(ns, cs) /\ Links(ns, cs) /\ VisitedOrder(ns, cs) /\ Moves(ns, cs, pos)
         /\ Placement(ns, cs, root, pos)
         /\ total \in Nat /\ total \in 0..MaxSims
         /\ root \in Position /\ pos[0] = root
         /\ \A n \in Indices(ns) : pos[n] \in Position
         /\ 0 \in Expanded(ns) /\ 0 \in Indices(ns)
<1>1. /\ Tree(ns, cs, root, pos) /\ Counted(ns, cs, total)
      /\ Vectors(ns, cs) /\ Links(ns, cs) /\ VisitedOrder(ns, cs) /\ Moves(ns, cs, pos)
      /\ Placement(ns, cs, root, pos) /\ 0 \in Expanded(ns)
  BY DEF Sound, Tree
<1>2. total \in Nat /\ total \in 0..MaxSims
  BY TreeAssumption DEF Sound
<1>3. 0 \in Indices(ns)
  BY <1>1 DEF Vectors
<1>4. /\ pos[0] = root
      /\ \A n \in Indices(ns) : pos[n] \in Position
  BY <1>1 DEF Placement
<1> QED
  BY <1>1, <1>2, <1>3, <1>4

(* What the entries of a stack hold. *)
LEMMA StackPlayers ==
  ASSUME NEW I, NEW J, NEW stack \in Seq([node : I, child : J, player : Player])
  PROVE  \A e \in ToSet(stack) : e.player \in Player /\ e.node \in I /\ e.child \in J
<1> DEFINE E == [node : I, child : J, player : Player]
<1>1. \A e \in E : e.player \in Player /\ e.node \in I /\ e.child \in J
  OBVIOUS
<1>2. stack \in Seq(E)
  OBVIOUS
<1> HIDE DEF E
<1>3. \A k \in DOMAIN stack : stack[k] \in E
  BY <1>2
<1> QED
  BY <1>1, <1>3 DEF ToSet

(* One turn of the loop of perform_simulation. *)
LEMMA DescendKeeps ==
  ASSUME NEW ns, NEW cs, NEW total, NEW root, NEW pos, Sound(ns, cs, total, root, pos),
         NEW stack, NEW p, NEW n, NEW s, Descending(ns, cs, total, root, pos, stack, p, n, s),
         n \in Expanded(ns), NEW i \in BlockOf(ns, n), cs[i + 1].index # 0
  PROVE  Descending(ns, cs, total, root, pos,
                    Append(stack, [node |-> n, child |-> i, player |-> Mover[p]]),
                    After[p][cs[i + 1].move], cs[i + 1].index, cs[i + 1].sim_count)
<1> DEFINE c == cs[i + 1].index
           edge == [node |-> n, child |-> i, player |-> Mover[p]]
           E == [node : Indices(ns), child : Indices(cs), player : Player]
<1>1. /\ Vectors(ns, cs) /\ Links(ns, cs) /\ Moves(ns, cs, pos) /\ Placement(ns, cs, root, pos)
      /\ pos[n] \in Position /\ p = pos[n] /\ n \in Indices(ns) /\ stack \in Seq(E)
      /\ Way(ns, cs, OnWay(stack), n)
  BY SoundFacts DEF Descending
<1>2. /\ i \in Indices(cs) /\ c \in Nat /\ Len(ns) \in Nat
      /\ cs[i + 1].move \in Legal[p]
  BY <1>1, VectorFacts DEF Moves
<1>3. Mover[p] \in Player
  BY <1>1, <1>2, TreeAssumption
<1>4. c \in Indices(ns) /\ c # 0
  BY <1>1, <1>2 DEF Links, Indices
<1>5. After[p][cs[i + 1].move] = pos[c]
  BY <1>1 DEF Placement
<1>6. edge \in E /\ edge.child = i
  BY <1>1, <1>2, <1>3
<1> HIDE DEF edge, E
<1>7. Append(stack, edge) \in Seq(E)
  BY <1>1, <1>6
<1>8. OnWay(Append(stack, edge)) = OnWay(stack) \cup {i}
  BY <1>1, <1>6, OnWayGrows
<1>9. Way(ns, cs, OnWay(Append(stack, edge)), c)
  <2>1. Way(ns, cs, OnWay(stack) \cup {i}, c)
    BY <1>1, WayGoesOn
  <2> QED
    BY <1>8, <2>1
<1>10. SimulatedTimes(cs, c, total, cs[i + 1].sim_count)
  BY <1>2, <1>4 DEF SimulatedTimes
<1> QED
  BY <1>4, <1>5, <1>7, <1>9, <1>10 DEF Descending, edge, E

(* The end of a simulation where play is over. *)
LEMMA ScoreKeepsTree ==
  ASSUME NEW ns, NEW cs, NEW root, NEW pos, Tree(ns, cs, root, pos),
         NEW total \in Nat, Counted(ns, cs, total),
         NEW n \in Expanded(ns), n # 0, Legal[pos[n]] = {},
         NEW stack, \A e \in ToSet(stack) : e.player \in Player, Way(ns, cs, OnWay(stack), n),
         NEW results \in [Player -> Score],
         NEW ds, ds = Backpropagate(cs, stack, results)
  PROVE  /\ Tree(ns, ds, root, pos)
         /\ Counted(ns, ds, total + 1)
         /\ BlockSims(ds, ns[1]) = BlockSims(cs, ns[1]) + 1
<1>1. /\ Vectors(ns, cs) /\ Links(ns, cs) /\ Moves(ns, cs, pos) /\ cs \in Seq(ChildRecord)
  BY DEF Tree, Vectors
<1>2. is_terminal(ns[n + 1])
  <2>1. BlockOf(ns, n) = {}
    BY <1>1 DEF Moves
  <2>2. ns[n + 1].first \in Nat /\ ns[n + 1].second \in Nat /\ ns[n + 1].first <= ns[n + 1].second
    BY <1>1, VectorFacts
  <2>3. ns[n + 1].first \notin BlockOf(ns, n)
    BY <2>1
  <2> QED
    BY <2>2, <2>3 DEF BlockOf, ChildIndices, is_terminal
<1>3. /\ SameIndices(cs, ds)
      /\ \A k \in Indices(cs) : ds[k + 1].move = cs[k + 1].move
      /\ \A k \in OnWay(stack) \cap Indices(cs) : ds[k + 1].sim_count = cs[k + 1].sim_count + 1
      /\ \A k \in Indices(cs) \ OnWay(stack) : ds[k + 1].sim_count = cs[k + 1].sim_count
  BY <1>1, BackpropagateFacts
<1>4. Tree(ns, ds, root, pos)
  BY <1>3, SameMovesKeep
<1>5. OneMoreOn(cs, ds, OnWay(stack))
  BY <1>3 DEF OneMoreOn, Way
<1>6. Pending(ns, cs, n, total)
  BY DEF Pending, Counted
<1>7. Settled(ns, cs, ds, n)
  BY <1>2 DEF Settled, Balanced
<1> QED
  BY <1>1, <1>3, <1>4, <1>5, <1>6, <1>7, CountsAfter

ScoredNodes(ns, cs, n, p) == IF is_expanded(ns[n + 1]) THEN ns ELSE ExpandNode(ns, cs, n, p)

(* With the children of the node listed first, if they were not. *)
LEMMA TerminalKeeps ==
  ASSUME NEW ns, NEW cs, NEW total, NEW root, NEW pos, Sound(ns, cs, total, root, pos),
         NEW stack, NEW p, NEW n, NEW s, Descending(ns, cs, total, root, pos, stack, p, n, s),
         Legal[p] = {}
  PROVE  LET ms == ScoredNodes(ns, cs, n, p)
             ds == Backpropagate(cs, stack, Outcome[p])
         IN /\ Sound(ms, ds, total + 1, root, pos)
            /\ BlockSims(ds, ms[1]) = BlockSims(cs, ns[1]) + 1
<1> DEFINE ms == ScoredNodes(ns, cs, n, p)
           ds == Backpropagate(cs, stack, Outcome[p])
<1>1. /\ Tree(ns, cs, root, pos) /\ Counted(ns, cs, total) /\ total \in Nat
      /\ 0 \in Expanded(ns) /\ root \in Position /\ pos[0] = root
      /\ n \in Indices(ns) /\ p = pos[n] /\ p \in Position
      /\ Way(ns, cs, OnWay(stack), n)
  BY SoundFacts DEF Descending
<1>2. n # 0
  BY <1>1, GameAssumption DEF Descending
<1>3. Outcome[p] \in [Player -> Score]
  BY <1>1, TreeAssumption
<1>4. \A e \in ToSet(stack) : e.player \in Player
  BY StackPlayers DEF Descending
<1>5. /\ Tree(ms, cs, root, pos) /\ Counted(ms, cs, total) /\ n \in Expanded(ms) /\ 0 \in Expanded(ms)
      /\ Way(ms, cs, OnWay(stack), n) /\ BlockSims(cs, ms[1]) = BlockSims(cs, ns[1])
  <2>1. CASE n \in Expanded(ns)
    <3>1. ms = ns
      BY <2>1 DEF ScoredNodes, Expanded
    <3> QED
      BY <1>1, <2>1, <3>1
  <2>2. CASE n \notin Expanded(ns)
    <3>1. ms = ExpandNode(ns, cs, n, pos[n])
      BY <1>1, <2>2 DEF ScoredNodes, Expanded
    <3> DEFINE es == ExpandChildren(cs, pos[n])
    <3> HIDE DEF ms, es
    <3>2. /\ Tree(ms, es, root, pos) /\ Counted(ms, es, total)
          /\ Expanded(ms) = Expanded(ns) \cup {n}
          /\ \A m \in Expanded(ns) : BlockSims(es, ms[m + 1]) = BlockSims(cs, ns[m + 1])
          /\ \A on : Way(ns, cs, on, n) => Way(ms, es, on, n)
          /\ Legal[pos[n]] = {} => es = cs
      BY <1>1, <2>2, <3>1, ExpandAnyNode DEF es
    <3>3. es = cs
      BY <1>1, <3>2
    <3>4. BlockSims(cs, ms[0 + 1]) = BlockSims(cs, ns[0 + 1])
      BY <1>1, <3>2, <3>3
    <3> QED
      BY <1>1, <3>2, <3>3, <3>4
  <2> QED
    BY <2>1, <2>2
<1>6. total + 1 \in 0..MaxSims
  BY <1>1, TreeAssumption DEF Descending
<1> HIDE DEF ms, ds
<1>7. /\ Tree(ms, ds, root, pos) /\ Counted(ms, ds, total + 1)
      /\ BlockSims(ds, ms[1]) = BlockSims(cs, ms[1]) + 1
  BY <1>1, <1>2, <1>3, <1>4, <1>5, ScoreKeepsTree DEF ds
<1> QED
  BY <1>5, <1>6, <1>7 DEF Sound, ms, ds

(* A node without children has no simulations below it. *)
LEMMA TerminalSims ==
  ASSUME NEW ns, NEW cs, Vectors(ns, cs), NEW n \in Expanded(ns), is_terminal(ns[n + 1])
  PROVE  BlockSims(cs, ns[n + 1]) = 0
<1>1. ns[n + 1].first \in Nat /\ ns[n + 1].second \in Nat
  BY VectorFacts
<1>2. ChildIndices(ns[n + 1]) = {}
  BY <1>1 DEF ChildIndices, is_terminal
<1> QED
  BY <1>2, SumEmpty DEF BlockSims

(* ChildSims as a sum over a block of the tree. *)
LEMMA ChildSimsOf ==
  ASSUME Vectors(nodes, children), NEW n \in Expanded(nodes), Children = Indices(children)
  PROVE  ChildSims(n) = BlockSims(children, nodes[n + 1])
<1>1. nodes[n + 1].first \in Nat /\ nodes[n + 1].second \in Nat
      /\ BlockOf(nodes, n) \subseteq Indices(children)
  BY VectorFacts
<1>2. IsFiniteSet(ChildIndices(Node(n)))
  BY <1>1, RangeFinite DEF ChildIndices, Node
<1> QED
  BY <1>1, <1>2, ChildSimsIs DEF BlockOf, Node

(* Where a simulation visits a child: node n has its children by then.     *)
Opened(ns, cs, n, p, os, ps) ==
  \/ is_expanded(ns[n + 1]) /\ cs[ns[n + 1].second].index = 0 /\ os = ns /\ ps = cs
  \/ ~is_expanded(ns[n + 1]) /\ os = ExpandNode(ns, cs, n, p) /\ ps = ExpandChildren(cs, p)

(* Listing the children of the node a visit starts from keeps everything,  *)
(* and one of them is unvisited.                                           *)
LEMMA OpenedKeeps ==
  ASSUME NEW ns, NEW cs, NEW total, NEW root, NEW pos, Sound(ns, cs, total, root, pos),
         NEW stack, NEW p, NEW n, NEW s, Descending(ns, cs, total, root, pos, stack, p, n, s),
         Legal[p] # {}, NEW os, NEW ps, Opened(ns, cs, n, p, os, ps)
  PROVE  /\ Tree(os, ps, root, pos) /\ Counted(os, ps, total)
         /\ n \in Expanded(os) /\ 0 \in Expanded(os)
         /\ SimulatedTimes(ps, n, total, s)
         /\ Unvisited(os, ps, n) # {}
         /\ Way(os, ps, OnWay(stack), n)
         /\ BlockSims(ps, os[1]) = BlockSims(cs, ns[1])
<1>1. /\ Tree(ns, cs, root, pos) /\ Counted(ns, cs, total) /\ total \in Nat
      /\ 0 \in Expanded(ns) /\ n \in Indices(ns) /\ p = pos[n] /\ p \in Position
      /\ Way(ns, cs, OnWay(stack), n) /\ SimulatedTimes(cs, n, total, s)
      /\ Vectors(ns, cs) /\ Moves(ns, cs, pos)
  BY SoundFacts DEF Descending
<1>2. CASE n \in Expanded(ns)
  <2>1. os = ns /\ ps = cs /\ cs[ns[n + 1].second].index = 0
    BY <1>2 DEF Opened, Expanded
  <2>2. PICK i \in BlockOf(ns, n) : TRUE
    BY <1>1, <1>2 DEF Moves
  <2>3. ns[n + 1].first \in Nat /\ ns[n + 1].second \in Nat
    BY <1>1, VectorFacts
  <2> DEFINE last == ns[n + 1].second - 1
  <2>4. last \in BlockOf(ns, n) /\ last + 1 = ns[n + 1].second
    BY <2>2, <2>3 DEF BlockOf, ChildIndices
  <2>5. last \in Unvisited(ns, cs, n)
    BY <2>1, <2>4 DEF Unvisited
  <2> QED
    BY <1>1, <1>2, <2>1, <2>5
<1>3. CASE n \notin Expanded(ns)
  <2>1. os = ExpandNode(ns, cs, n, pos[n]) /\ ps = ExpandChildren(cs, pos[n])
    BY <1>1, <1>3 DEF Opened, Expanded
  <2>2. /\ Tree(os, ps, root, pos) /\ Counted(os, ps, total)
        /\ Expanded(os) = Expanded(ns) \cup {n}
        /\ \A m \in Expanded(ns) : BlockSims(ps, os[m + 1]) = BlockSims(cs, ns[m + 1])
        /\ \A on : Way(ns, cs, on, n) => Way(os, ps, on, n)
        /\ \A i \in Indices(cs) : ps[i + 1] = cs[i + 1] /\ i \in Indices(ps)
        /\ \A i \in BlockOf(os, n) : ps[i + 1].index = 0
    BY <1>1, <1>3, <2>1, ExpandAnyNode
  <2>3. BlockSims(ps, os[0 + 1]) = BlockSims(cs, ns[0 + 1])
    BY <1>1, <2>2
  <2>4. SimulatedTimes(ps, n, total, s)
    BY <1>1, <2>2 DEF SimulatedTimes
  <2>5. PICK i \in BlockOf(os, n) : TRUE
    BY <1>1, <2>2 DEF Tree, Moves
  <2>6. i \in Unvisited(os, ps, n)
    BY <2>2, <2>5 DEF Unvisited
  <2> QED
    BY <1>1, <2>2, <2>3, <2>4, <2>6
<1> QED
  BY <1>2, <1>3

(* A simulation that visits a child leaves a sound tree. *)
LEMMA VisitKeeps ==
  ASSUME NEW ns, NEW cs, NEW total, NEW root, NEW pos, Sound(ns, cs, total, root, pos),
         NEW stack, NEW p, NEW n, NEW s, Descending(ns, cs, total, root, pos, stack, p, n, s),
         Legal[p] # {}, NEW os, NEW ps, Opened(ns, cs, n, p, os, ps),
         NEW i \in FirstUnvisited(ps, os[n + 1], s)..(os[n + 1].second - 1),
         NEW results \in [Player -> Score],
         NEW ms, ms = VisitedNodes(os, ps, n, s, p, i),
         NEW ds, ds = VisitedChildren(os, ps, n, s, p, i, stack, results)
  PROVE  /\ \E qos : Sound(ms, ds, total + 1, root, qos)
         /\ BlockSims(ds, ms[1]) = BlockSims(cs, ns[1]) + 1
<1> DEFINE E == [node : Indices(ns), child : Indices(cs), player : Player]
<1>1. total \in Nat /\ p = pos[n] /\ p \in Position /\ stack \in Seq(E)
  BY SoundFacts DEF Descending
<1>2. Mover[pos[n]] \in Player
  BY <1>1, TreeAssumption
<1>3. \A e \in ToSet(stack) : e.player \in Player
  BY StackPlayers DEF Descending
<1>4. /\ Tree(os, ps, root, pos) /\ Counted(os, ps, total)
      /\ n \in Expanded(os) /\ 0 \in Expanded(os)
      /\ SimulatedTimes(ps, n, total, s)
      /\ Unvisited(os, ps, n) # {}
      /\ Way(os, ps, OnWay(stack), n)
      /\ BlockSims(ps, os[1]) = BlockSims(cs, ns[1])
  BY OpenedKeeps
<1> HIDE DEF E
<1>5. /\ \E qos : Tree(ms, ds, root, qos)
      /\ Counted(ms, ds, total + 1)
      /\ Expanded(os) \subseteq Expanded(ms)
      /\ BlockSims(ds, ms[1]) = BlockSims(ps, os[1]) + 1
  BY <1>1, <1>2, <1>3, <1>4, VisitKeepsTree
<1>6. total + 1 \in 0..MaxSims
  BY <1>1, TreeAssumption DEF Descending
<1> QED
  BY <1>4, <1>5, <1>6 DEF Sound

(* A tree of one node, made for a new game or for a move never tried. *)
LEMMA FreshIsSound ==
  ASSUME NEW p \in Position
  PROVE  LET ns == ExpandNode(<<create_node(p)>>, <<>>, 0, p)
             cs == new_children(p)
         IN /\ \E pos : Sound(ns, cs, 0, p, pos)
            /\ BlockSims(cs, ns[1]) = 0
<1> DEFINE ns == ExpandNode(<<create_node(p)>>, <<>>, 0, p)
           cs == new_children(p)
<1>1. /\ \E pos : Tree(ns, cs, p, pos)
      /\ Counted(ns, cs, 0)
      /\ 0 \in Expanded(ns)
      /\ BlockSims(cs, ns[1]) = 0
  BY FreshTree
<1>2. 0 \in 0..MaxSims
  BY TreeAssumption
<1> HIDE DEF ns, cs
<1> QED
  BY <1>1, <1>2 DEF Sound, ns, cs

(* Re-rooting at a node: its subtree is copied, and its children listed if *)
(* it has none yet.                                                        *)
LEMMA ReparentKeeps ==
  ASSUME NEW pos, Sound(nodes, children, root_sim_count, rootPos, pos),
         NEW i \in BlockOf(nodes, 0), Child(i).index # 0,
         NEW order, order = Preorder(Child(i).index),
         NEW p, p = After[rootPos][Child(i).move],
         NEW ms, NEW ds,
         IF is_expanded(FixedNodes(order)[1])
         THEN ms = FixedNodes(order) /\ ds = FixedChildren(order)
         ELSE /\ ms = ExpandNode(FixedNodes(order), FixedChildren(order), 0, p)
              /\ ds = ExpandChildren(FixedChildren(order), p)
  PROVE  /\ \E qos : Sound(ms, ds, Child(i).sim_count, p, qos)
         /\ BlockSims(ds, ms[1]) \in Nat
         /\ BlockSims(ds, ms[1]) < BlockSims(children, nodes[1])
         /\ KnowledgeOf(ms, ds)[0] = KnowledgeOf(nodes, children)[Child(i).index]
<1> DEFINE c == Child(i).index
           s == Child(i).sim_count
           ns == FixedNodes(order)
           cs == FixedChildren(order)
<1>1. /\ Tree(nodes, children, rootPos, pos) /\ Counted(nodes, children, root_sim_count)
      /\ Vectors(nodes, children) /\ Links(nodes, children)
      /\ Placement(nodes, children, rootPos, pos)
      /\ root_sim_count \in Nat /\ root_sim_count \in 0..MaxSims
      /\ pos[0] = rootPos /\ 0 \in Expanded(nodes)
  BY SoundFacts
<1>2. /\ i \in Indices(children) /\ c \in Nat /\ c # 0 /\ s \in Nat
      /\ c \in Indices(nodes) /\ c = children[i + 1].index /\ s = children[i + 1].sim_count
  <2>1. /\ i \in Indices(children) /\ c \in Nat /\ c # 0 /\ s \in Nat /\ Len(nodes) \in Nat
        /\ c = children[i + 1].index /\ s = children[i + 1].sim_count
    BY <1>1, VectorFacts DEF Child
  <2>2. c < Len(nodes)
    BY <1>1, <2>1 DEF Links
  <2> QED
    BY <2>1, <2>2 DEF Indices
<1>3. s <= root_sim_count /\ Balanced(nodes, children, c, s) /\ s # 0
  BY <1>1, <1>2 DEF Counted
<1>4. pos[c] = p
  BY <1>1, <1>2 DEF Placement, Child
<1>5. Linked /\ Joined(Nodes) /\ InVector /\ Nodes = Indices(nodes)
  BY <1>1, TreeIsLinked
<1> HIDE DEF c, s, ns, cs
<1>6. Listing(Nodes, c, order)
  BY <1>2, <1>5, PreorderLists DEF c
<1>7. PICK old, from : IsCopy(nodes, children, ns, cs, old, from) /\ old[0] = c
  <2>1. c \in Nodes
    BY <1>2, <1>5
  <2> QED
    BY <1>1, <1>6, <2>1, FixedIsCopy DEF ns, cs
<1>8. Tree(ns, cs, p, [m \in Indices(ns) |-> pos[old[m]]])
  BY <1>1, <1>4, <1>7, CopyKeepsTree
<1>9. Counted(ns, cs, s) /\ Balanced(ns, cs, 0, s)
  BY <1>1, <1>2, <1>3, <1>7, CopyKeepsCounts
<1> DEFINE qos == [m \in Indices(ns) |-> pos[old[m]]]
<1> HIDE DEF qos
<1>10. Tree(ns, cs, p, qos)
  BY <1>8 DEF qos
<1>11. /\ Tree(ms, ds, p, qos) /\ Counted(ms, ds, s) /\ 0 \in Expanded(ms)
       /\ BlockSims(ds, ms[1]) \in Nat /\ BlockSims(ds, ms[1]) < s
  <2>1. Vectors(ns, cs) /\ 0 \in Indices(ns) /\ qos[0] = p
    BY <1>10 DEF Tree, Vectors, Placement
  <2>2. CASE 0 \in Expanded(ns)
    <3>1. ms = ns /\ ds = cs
      BY <2>2 DEF Expanded, ns, cs
    <3>2. BlockSims(cs, ns[0 + 1]) \in Nat
      BY <2>1, <2>2, BlockSimsNat
    <3>3. BlockSims(cs, ns[0 + 1]) < s
      <4>1. CASE ~is_terminal(ns[0 + 1])
        <5>1. s = BlockSims(cs, ns[0 + 1]) + 1
          BY <1>9, <2>2, <4>1 DEF Balanced
        <5> QED
          BY <3>2, <5>1
      <4>2. CASE is_terminal(ns[0 + 1])
        <5>1. BlockSims(cs, ns[0 + 1]) = 0
          BY <2>1, <2>2, <4>2, TerminalSims
        <5> QED
          BY <1>2, <1>3, <5>1
      <4> QED
        BY <4>1, <4>2
    <3> QED
      BY <1>9, <1>10, <2>2, <3>1, <3>2, <3>3
  <2>3. CASE 0 \notin Expanded(ns)
    <3>1. ms = ExpandNode(ns, cs, 0, qos[0]) /\ ds = ExpandChildren(cs, qos[0])
      BY <2>1, <2>3 DEF Expanded, ns, cs
    <3>2. /\ Tree(ms, ds, p, qos) /\ Counted(ms, ds, s)
          /\ Expanded(ms) = Expanded(ns) \cup {0}
          /\ BlockSims(ds, ms[0 + 1]) = 0
      BY <1>2, <1>9, <1>10, <2>1, <2>3, <3>1, ExpandAnyNode
    <3> QED
      BY <1>2, <1>3, <3>2
  <2> QED
    BY <2>2, <2>3
<1>12. s <= BlockSims(children, nodes[1]) /\ BlockSims(children, nodes[1]) \in Nat
  <2>1. /\ BlockSims(children, nodes[0 + 1]) \in Nat
        /\ \A j \in BlockOf(nodes, 0) : children[j + 1].sim_count <= BlockSims(children, nodes[0 + 1])
    BY <1>1, BlockSimsNat
  <2> QED
    BY <1>2, <2>1
<1>13. s \in 0..MaxSims
  BY <1>1, <1>2, <1>3, TreeAssumption
<1>14. Sound(ms, ds, s, p, qos)
  BY <1>11, <1>13 DEF Sound
<1>15. BlockSims(ds, ms[1]) < BlockSims(children, nodes[1])
  BY <1>2, <1>11, <1>12
<1>16. KnowledgeOf(ms, ds)[0] = KnowledgeOf(nodes, children)[c]
  <2>1. /\ Links(ns, cs) /\ Vectors(ns, cs) /\ Links(ms, ds) /\ Vectors(ms, ds)
        /\ 0 \in Indices(ns) /\ qos[0] = p
    BY <1>10, <1>11 DEF Tree, Vectors, Placement
  <2>2. KnowledgeOf(ns, cs)[0] = KnowledgeOf(nodes, children)[c]
    BY <1>1, <1>7, <2>1, CopyKeepsKnowledge
  <2>3. CASE 0 \in Expanded(ns)
    BY <2>2, <2>3 DEF Expanded, ns, cs
  <2>4. CASE 0 \notin Expanded(ns)
    <3>1. ms = ExpandNode(ns, cs, 0, qos[0]) /\ ds = ExpandChildren(cs, qos[0])
      BY <2>1, <2>4 DEF Expanded, ns, cs
    <3>2. /\ \A j \in BlockOf(ms, 0) : ds[j + 1].index = 0
          /\ Indices(ms) = Indices(ns)
      BY <1>2, <1>9, <1>10, <2>1, <2>4, <3>1, ExpandAnyNode
    <3>3. KnowledgeOf(ms, ds)[0] = {}
      BY <2>1, <3>2, NothingKnown
    <3>4. KnowledgeOf(ns, cs)[0] = {}
      BY <2>1, <2>4, NothingKnown
    <3> QED
      BY <2>2, <3>3, <3>4
  <2> QED
    BY <2>3, <2>4
<1> QED
  BY <1>11, <1>14, <1>15, <1>16 DEF s, c

-----------------------------------------------------------------------------
(* The invariant holds at first, and every step keeps it.                  *)

(* A sound tree between two simulations satisfies the invariant. *)
LEMMA IdleAgain ==
  ASSUME \E pos : Sound(nodes', children', root_sim_count', rootPos', pos),
         Idle'
  PROVE  IInv'
<1>1. PICK pos : Sound(nodes', children', root_sim_count', rootPos', pos)
  OBVIOUS
<1>2. pos \in [Nodes' -> Position]
  BY <1>1 DEF Sound, Tree, Placement, Nodes, Indices
<1> QED
  BY <1>1, <1>2 DEF IInv, Inv

(* The constructor makes a tree of one node with its children. *)
LEMMA InitOK ==
  Init => IInv
<1> SUFFICES ASSUME Init
             PROVE  IInv
  OBVIOUS
<1>1. \E pos : Sound(nodes, children, root_sim_count, rootPos, pos)
  BY FreshIsSound, GameAssumption DEF Init
<1>2. PICK pos : Sound(nodes, children, root_sim_count, rootPos, pos)
  BY <1>1
<1>3. pos \in [Nodes -> Position]
  BY <1>2 DEF Sound, Tree, Placement, Nodes, Indices
<1>4. Idle
  BY DEF Init, Idle
<1> QED
  BY <1>2, <1>3, <1>4 DEF IInv, Inv

(* perform_simulation starts at the root, with nothing on the stack. *)
LEMMA BeginSimulationOK ==
  IInv /\ BeginSimulation => IInv'
<1> SUFFICES ASSUME IInv, BeginSimulation
             PROVE  IInv'
  OBVIOUS
<1>1. PICK pos \in [Nodes -> Position] : Inv(pos)
  BY DEF IInv
<1>2. /\ Sound(nodes, children, root_sim_count, rootPos, pos)
      /\ children_stack = <<>> /\ pc = "idle"
  BY <1>1 DEF Inv, Idle, BeginSimulation
<1>3. /\ nodes' = nodes /\ children' = children /\ root_sim_count' = root_sim_count
      /\ rootPos' = rootPos /\ children_stack' = <<>> /\ node_index' = 0
      /\ node_sim_count' = root_sim_count /\ state' = rootPos /\ pc' = "descend"
      /\ root_sim_count < MaxSims /\ Status[rootPos] # "end_game"
  BY <1>2 DEF BeginSimulation, vectors
<1>4. Descending(nodes, children, root_sim_count, rootPos, pos, <<>>, rootPos, 0, root_sim_count)
  <2>1. OnWay(<<>>) = {}
    BY DEF OnWay, ToSet
  <2>2. Way(nodes, children, OnWay(<<>>), 0)
    BY <2>1 DEF Way
  <2>3. 0 \in Indices(nodes) /\ pos[0] = rootPos
    BY <1>2, SoundFacts
  <2>4. SimulatedTimes(children, 0, root_sim_count, root_sim_count)
    BY DEF SimulatedTimes
  <2> QED
    BY <1>3, <2>2, <2>3, <2>4 DEF Descending
<1>5. Nodes' = Nodes
  BY <1>3 DEF Nodes
<1> QED
  BY <1>1, <1>2, <1>3, <1>4, <1>5 DEF IInv, Inv

(* It goes on only where every child was visited, so that the child it     *)
(* takes has a node.                                                       *)
LEMMA DescendOK ==
  IInv /\ Descend => IInv'
<1> SUFFICES ASSUME IInv, Descend
             PROVE  IInv'
  OBVIOUS
<1>1. PICK pos \in [Nodes -> Position] : Inv(pos)
  BY DEF IInv
<1>2. /\ Sound(nodes, children, root_sim_count, rootPos, pos)
      /\ Descending(nodes, children, root_sim_count, rootPos, pos,
                    children_stack, state, node_index, node_sim_count)
      /\ pc = "descend"
  BY <1>1 DEF Inv, Idle, Descend
<1>3. PICK i \in BlockOf(nodes, node_index) :
        /\ children_stack' = Append(children_stack,
             [node |-> node_index, child |-> i, player |-> Mover[state]])
        /\ state' = After[state][children[i + 1].move]
        /\ node_index' = children[i + 1].index
        /\ node_sim_count' = children[i + 1].sim_count
  BY DEF Descend, BlockOf, Node, Child
<1>4. /\ nodes' = nodes /\ children' = children /\ root_sim_count' = root_sim_count
      /\ rootPos' = rootPos /\ pc' = pc
      /\ is_expanded(nodes[node_index + 1])
      /\ children[(nodes[node_index + 1].second - 1) + 1].index # 0
  BY DEF Descend, vectors, is_node_fully_expanded, Node, Child
<1>5. node_index \in Expanded(nodes)
  BY <1>2, <1>4 DEF Descending, Expanded
<1>6. children[i + 1].index # 0
  <2> DEFINE n == node_index
             last == nodes[n + 1].second - 1
  <2>1. Vectors(nodes, children) /\ VisitedOrder(nodes, children)
    BY <1>2, SoundFacts
  <2>2. nodes[n + 1].first \in Nat /\ nodes[n + 1].second \in Nat
    BY <1>5, <2>1, VectorFacts
  <2>3. last \in BlockOf(nodes, n) /\ (i = last \/ i < last)
    BY <2>2 DEF BlockOf, ChildIndices
  <2> QED
    BY <1>4, <1>5, <2>1, <2>3 DEF VisitedOrder
<1>7. Descending(nodes, children, root_sim_count, rootPos, pos,
                 children_stack', state', node_index', node_sim_count')
  BY <1>2, <1>3, <1>5, <1>6, DescendKeeps
<1>8. Nodes' = Nodes
  BY <1>4 DEF Nodes
<1> QED
  BY <1>1, <1>2, <1>4, <1>7, <1>8 DEF IInv, Inv

(* It never ends at the root when play is over, and counts one simulation  *)
(* on the way.                                                             *)
LEMMA ScoreTerminalOK ==
  IInv /\ ScoreTerminal =>
    IInv' /\ BlockSims(children, nodes[1])' = BlockSims(children, nodes[1]) + 1
<1> SUFFICES ASSUME IInv, ScoreTerminal
             PROVE  IInv' /\ BlockSims(children, nodes[1])' = BlockSims(children, nodes[1]) + 1
  OBVIOUS
<1>1. PICK pos \in [Nodes -> Position] : Inv(pos)
  BY DEF IInv
<1>2. /\ Sound(nodes, children, root_sim_count, rootPos, pos)
      /\ Descending(nodes, children, root_sim_count, rootPos, pos,
                    children_stack, state, node_index, node_sim_count)
  BY <1>1 DEF Inv, Idle, ScoreTerminal
<1>3. /\ nodes' = ScoredNodes(nodes, children, node_index, state)
      /\ children' = Backpropagate(children, children_stack, Outcome[state])
      /\ Legal[state] = {}
  BY DEF ScoreTerminal, ScoredNodes, Node
<1>4. root_sim_count' = root_sim_count + 1 /\ rootPos' = rootPos /\ Idle'
  BY DEF ScoreTerminal, ReturnFromSimulation, Idle
<1>5. /\ Sound(nodes', children', root_sim_count + 1, rootPos, pos)
      /\ BlockSims(children', nodes'[1]) = BlockSims(children, nodes[1]) + 1
  BY <1>2, <1>3, TerminalKeeps
<1>6. \E qos : Sound(nodes', children', root_sim_count', rootPos', qos)
  BY <1>4, <1>5
<1> QED
  BY <1>4, <1>5, <1>6, IdleAgain

(* It gives the first unvisited child a node and counts one simulation on  *)
(* the way to it.                                                          *)
LEMMA VisitChildOK ==
  IInv /\ VisitChild =>
    IInv' /\ BlockSims(children, nodes[1])' = BlockSims(children, nodes[1]) + 1
<1> SUFFICES ASSUME IInv, VisitChild
             PROVE  IInv' /\ BlockSims(children, nodes[1])' = BlockSims(children, nodes[1]) + 1
  OBVIOUS
<1>1. PICK pos \in [Nodes -> Position] : Inv(pos)
  BY DEF IInv
<1>2. /\ Sound(nodes, children, root_sim_count, rootPos, pos)
      /\ Descending(nodes, children, root_sim_count, rootPos, pos,
                    children_stack, state, node_index, node_sim_count)
  BY <1>1 DEF Inv, Idle, VisitChild
<1> DEFINE fresh == ~is_expanded(nodes[node_index + 1])
           os == IF fresh THEN ExpandNode(nodes, children, node_index, state) ELSE nodes
           ps == IF fresh THEN ExpandChildren(children, state) ELSE children
<1>3. PICK i \in FirstUnvisited(ps, os[node_index + 1], node_sim_count)..(os[node_index + 1].second - 1),
           results \in [Player -> Score] :
        /\ nodes' = VisitedNodes(os, ps, node_index, node_sim_count, state, i)
        /\ children' = VisitedChildren(os, ps, node_index, node_sim_count, state, i,
                                       children_stack, results)
  BY DEF VisitChild, VisitedNodes, VisitedChildren, GrownNodes, GrownChildren, Node
<1>4. Opened(nodes, children, node_index, state, os, ps)
  <2>1. CASE fresh
    BY <2>1 DEF Opened
  <2>2. CASE ~fresh
    <3>1. children[(nodes[node_index + 1].second - 1) + 1].index = 0
      BY <2>2 DEF VisitChild, is_node_fully_expanded, Node, Child
    <3>2. nodes[node_index + 1].second \in Nat
      BY <1>2, SoundFacts, VectorFacts DEF Descending
    <3>3. (nodes[node_index + 1].second - 1) + 1 = nodes[node_index + 1].second
      BY <3>2
    <3> QED
      BY <2>2, <3>1, <3>3 DEF Opened
  <2> QED
    BY <2>1, <2>2
<1>5. root_sim_count' = root_sim_count + 1 /\ rootPos' = rootPos /\ Idle' /\ Legal[state] # {}
  BY DEF VisitChild, ReturnFromSimulation, Idle
<1> HIDE DEF os, ps
<1>6. /\ \E qos : Sound(nodes', children', root_sim_count + 1, rootPos, qos)
      /\ BlockSims(children', nodes'[1]) = BlockSims(children, nodes[1]) + 1
  BY <1>2, <1>3, <1>4, <1>5, VisitKeeps
<1>7. \E qos : Sound(nodes', children', root_sim_count', rootPos', qos)
  BY <1>5, <1>6
<1> QED
  BY <1>5, <1>6, <1>7, IdleAgain

(* What is known below the root of a tree never simulated: nothing.        *)
LEMMA FreshKnows ==
  ASSUME NEW ns, NEW cs, NEW root, NEW pos, Sound(ns, cs, 0, root, pos)
  PROVE  KnowledgeOf(ns, cs)[0] = {}
<1>1. Vectors(ns, cs) /\ Links(ns, cs) /\ Counted(ns, cs, 0) /\ 0 \in Expanded(ns) /\ 0 \in Indices(ns)
  BY SoundFacts
<1>2. ASSUME NEW i \in BlockOf(ns, 0)
      PROVE  cs[i + 1].index = 0
  <2>1. i \in Indices(cs) /\ cs[i + 1].sim_count \in Nat
    BY <1>1, VectorFacts
  <2>2. cs[i + 1].sim_count = 0
    BY <1>1, <2>1 DEF Counted
  <2> QED
    BY <1>1, <2>1, <2>2 DEF Counted
<1> QED
  BY <1>1, <1>2, NothingKnown

(* What becomes of the tree's knowledge when the game goes on by the move  *)
(* of one of the root's children.                                          *)
KeepsKnown(i) ==
  /\ rootPos' = After[rootPos][Child(i).move]
  /\ root_sim_count' = Child(i).sim_count
  /\ KnowledgeOf(nodes', children')[0]
       = IF Child(i).index = 0 THEN {} ELSE KnowledgeOf(nodes, children)[Child(i).index]

(* Re-rooting, by the opponent or by choice, keeps fewer visits than there *)
(* were, and all that was known below the move played.                     *)
LEMMA ReparentAlongMoveOK ==
  ASSUME IInv, pc = "idle", NEW m, ReparentAlongMove(m)
  PROVE  /\ IInv'
         /\ BlockSims(children, nodes[1])' \in Nat
         /\ \/ BlockSims(children, nodes[1])' = 0
            \/ BlockSims(children, nodes[1])' < BlockSims(children, nodes[1])
         /\ \E i \in ChildIndices(Node(0)) : Child(i).move = m /\ KeepsKnown(i)
<1>1. PICK pos \in [Nodes -> Position] : Inv(pos)
  BY DEF IInv
<1>2. Sound(nodes, children, root_sim_count, rootPos, pos) /\ Idle
  BY <1>1 DEF Inv
<1> DEFINE p == After[rootPos][m]
<1>3. p \in Position
  BY <1>2, SoundFacts, GameAssumption DEF ReparentAlongMove
<1>4. rootPos' = p /\ Idle'
  BY <1>2 DEF ReparentAlongMove, Idle
<1>5. PICK i \in BlockOf(nodes, 0) :
        /\ Child(i).move = m
        /\ \/ Child(i).index = 0 /\ FreshRoot(p)
           \/ /\ Child(i).index # 0
              /\ LET order == Preorder(Child(i).index)
                     ns == FixedNodes(order)
                     cs == FixedChildren(order)
                 IN IF is_expanded(ns[1])
                    THEN nodes' = ns /\ children' = cs
                    ELSE /\ nodes' = ExpandNode(ns, cs, 0, p)
                         /\ children' = ExpandChildren(cs, p)
              /\ root_sim_count' = Child(i).sim_count
  BY DEF ReparentAlongMove, BlockOf, Node
<1>6. CASE Child(i).index = 0
  <2>1. FreshRoot(p)
    BY <1>5, <1>6
  <2> HIDE DEF p
  <2>2. /\ \E qos : Sound(nodes', children', root_sim_count', p, qos)
        /\ BlockSims(children', nodes'[1]) = 0
    BY <1>3, <2>1, FreshIsSound DEF FreshRoot
  <2>3. root_sim_count' = 0 /\ rootPos' = p
    BY <1>4, <2>1 DEF FreshRoot
  <2>4. KnowledgeOf(nodes', children')[0] = {}
    BY <2>2, <2>3, FreshKnows
  <2>5. Child(i).sim_count = 0
    <3>1. i \in Indices(children) /\ Counted(nodes, children, root_sim_count)
      BY <1>2, SoundFacts, VectorFacts
    <3> QED
      BY <1>6, <3>1 DEF Counted, Child
  <2>6. KeepsKnown(i)
    BY <1>5, <1>6, <2>3, <2>4, <2>5 DEF KeepsKnown, p
  <2>7. i \in ChildIndices(Node(0))
    BY DEF BlockOf, Node
  <2> QED
    BY <1>4, <1>5, <2>2, <2>6, <2>7, IdleAgain
<1>7. CASE Child(i).index # 0
  <2>1. PICK order : order = Preorder(Child(i).index)
    OBVIOUS
  <2>2. /\ IF is_expanded(FixedNodes(order)[1])
           THEN nodes' = FixedNodes(order) /\ children' = FixedChildren(order)
           ELSE /\ nodes' = ExpandNode(FixedNodes(order), FixedChildren(order), 0, p)
                /\ children' = ExpandChildren(FixedChildren(order), p)
        /\ root_sim_count' = Child(i).sim_count
    BY <1>5, <1>7, <2>1
  <2>3. p = After[rootPos][Child(i).move]
    BY <1>5
  <2> HIDE DEF p
  <2>4. /\ \E qos : Sound(nodes', children', root_sim_count', p, qos)
        /\ BlockSims(children', nodes'[1]) \in Nat
        /\ BlockSims(children', nodes'[1]) < BlockSims(children, nodes[1])
        /\ KnowledgeOf(nodes', children')[0] = KnowledgeOf(nodes, children)[Child(i).index]
    BY <1>2, <1>7, <2>1, <2>2, <2>3, ReparentKeeps
  <2>5. KeepsKnown(i)
    BY <1>4, <1>7, <2>2, <2>3, <2>4 DEF KeepsKnown
  <2>6. i \in ChildIndices(Node(0))
    BY DEF BlockOf, Node
  <2> QED
    BY <1>4, <1>5, <2>4, <2>5, <2>6, IdleAgain
<1> QED
  BY <1>6, <1>7

(* A new game gets a new tree. *)
LEMMA ResetTreeOK ==
  IInv /\ ResetTree => IInv' /\ BlockSims(children, nodes[1])' = 0
<1> SUFFICES ASSUME IInv, ResetTree
             PROVE  IInv' /\ BlockSims(children, nodes[1])' = 0
  OBVIOUS
<1>1. Idle
  BY DEF IInv, Inv, ResetTree
<1>2. /\ \E qos : Sound(nodes', children', root_sim_count', InitPos, qos)
      /\ BlockSims(children', nodes'[1]) = 0
  BY FreshIsSound, GameAssumption DEF ResetTree, FreshRoot
<1>3. rootPos' = InitPos /\ Idle'
  BY <1>1 DEF ResetTree, Idle
<1> QED
  BY <1>2, <1>3, IdleAgain

(* Every step keeps the invariant. *)
LEMMA NextOK ==
  IInv /\ [Next]_vars => IInv'
<1> SUFFICES ASSUME IInv, [Next]_vars
             PROVE  IInv'
  OBVIOUS
<1>1. CASE BeginSimulation
  BY <1>1, BeginSimulationOK
<1>2. CASE Descend
  BY <1>2, DescendOK
<1>3. CASE ScoreTerminal
  BY <1>3, ScoreTerminalOK
<1>4. CASE VisitChild
  BY <1>4, VisitChildOK
<1>5. CASE OpponentMove
  BY <1>5, ReparentAlongMoveOK DEF OpponentMove
<1>6. CASE ChooseBestMove
  BY <1>6, ReparentAlongMoveOK DEF ChooseBestMove
<1>7. CASE ResetTree
  BY <1>7, ResetTreeOK
<1>8. CASE UNCHANGED vars
  BY <1>8 DEF vars, vectors, path, IInv, Inv, Idle, Nodes
<1> QED
  BY <1>1, <1>2, <1>3, <1>4, <1>5, <1>6, <1>7, <1>8 DEF Next

(* The vectors always hold one tree whose children are the moves of its    *)
(* nodes' positions and whose counts add up.                               *)
LEMMA AlwaysIInv ==
  Spec => []IInv
<1>1. IInv /\ [Next]_vars => IInv'
  BY NextOK
<1> QED
  BY InitOK, <1>1, PTL DEF Spec

-----------------------------------------------------------------------------
(* What the invariant says of the tree.                                    *)

(* Where the invariant holds, the vectors hold a tree that is linked. *)
LEMMA InvFacts ==
  ASSUME IInv
  PROVE  \E pos :
           /\ Tree(nodes, children, rootPos, pos)
           /\ Counted(nodes, children, root_sim_count)
           /\ 0 \in Expanded(nodes)
           /\ Vectors(nodes, children) /\ Links(nodes, children)
           /\ root_sim_count \in Nat /\ root_sim_count \in 0..MaxSims
           /\ Linked /\ Joined(Nodes) /\ Nodes = Indices(nodes) /\ Children = Indices(children)
           /\ \A n \in Nodes : is_expanded(Node(n)) <=> n \in Expanded(nodes)
           /\ \A n \in Nodes : ChildIndices(Node(n)) = BlockOf(nodes, n)
<1>1. PICK pos \in [Nodes -> Position] : Inv(pos)
  BY DEF IInv
<1>2. Sound(nodes, children, root_sim_count, rootPos, pos)
  BY <1>1 DEF Inv
<1>3. /\ Tree(nodes, children, rootPos, pos)
      /\ Counted(nodes, children, root_sim_count)
      /\ 0 \in Expanded(nodes)
      /\ Vectors(nodes, children) /\ Links(nodes, children)
      /\ root_sim_count \in Nat /\ root_sim_count \in 0..MaxSims
  BY <1>2, SoundFacts
<1>4. /\ Linked /\ Joined(Nodes) /\ Nodes = Indices(nodes) /\ Children = Indices(children)
      /\ \A n \in Nodes : is_expanded(Node(n)) <=> n \in Expanded(nodes)
      /\ \A n \in Nodes : ChildIndices(Node(n)) = BlockOf(nodes, n)
  BY <1>3, TreeIsLinked
<1> QED
  BY <1>3, <1>4

(* The one child whose node is n. *)
LEMMA ParentEdgeIs ==
  ASSUME IInv, NEW n \in Nodes \ {0}
  PROVE  /\ ParentEdge(n) \in Children
         /\ Child(ParentEdge(n)).index = n
         /\ \A i \in Children : Child(i).index = n => i = ParentEdge(n)
<1>1. Links(nodes, children) /\ Nodes = Indices(nodes) /\ Children = Indices(children)
  BY InvFacts
<1>2. \E i \in Children : Child(i).index = n
  BY <1>1 DEF Links, Child
<1>3. ParentEdge(n) \in Children /\ Child(ParentEdge(n)).index = n
  BY <1>2 DEF ParentEdge
<1> QED
  BY <1>1, <1>3 DEF Links, Child

(* Sims is what perform_simulation reads as node_sim_count. *)
LEMMA SimsAre ==
  ASSUME IInv, NEW n \in Nodes
  PROVE  SimulatedTimes(children, n, root_sim_count, Sims(n))
<1>1. CASE n = 0
  BY <1>1 DEF Sims, SimulatedTimes
<1>2. CASE n # 0
  <2>1. ParentEdge(n) \in Children /\ Child(ParentEdge(n)).index = n
    BY <1>2, ParentEdgeIs
  <2>2. ParentEdge(n) \in Indices(children)
    BY <2>1, InvFacts
  <2> QED
    BY <1>2, <2>1, <2>2 DEF Sims, SimulatedTimes, Child
<1> QED
  BY <1>1, <1>2

(* The visits of the children of the root never exceed MaxSims. *)
LEMMA RootSims ==
  ASSUME IInv
  PROVE  /\ ChildSims(0) = BlockSims(children, nodes[1])
         /\ ChildSims(0) \in 0..MaxSims
<1>1. PICK pos :
        /\ Tree(nodes, children, rootPos, pos)
        /\ Counted(nodes, children, root_sim_count)
        /\ 0 \in Expanded(nodes) /\ Vectors(nodes, children)
        /\ root_sim_count \in Nat /\ root_sim_count \in 0..MaxSims
        /\ Children = Indices(children)
  BY InvFacts
<1>2. ChildSims(0) = BlockSims(children, nodes[0 + 1])
  BY <1>1, ChildSimsOf
<1>3. BlockSims(children, nodes[0 + 1]) \in Nat
  BY <1>1, BlockSimsNat
<1>4. BlockSims(children, nodes[0 + 1]) <= root_sim_count
  <2>1. CASE is_terminal(nodes[0 + 1])
    BY <1>1, <2>1, TerminalSims
  <2>2. CASE ~is_terminal(nodes[0 + 1])
    <3>1. SimulatedTimes(children, 0, root_sim_count, root_sim_count)
      BY DEF SimulatedTimes
    <3> QED
      BY <1>1, <2>2, <3>1, NodeSims
  <2> QED
    BY <2>1, <2>2
<1> QED
  BY <1>1, <1>2, <1>3, <1>4, TreeAssumption

-----------------------------------------------------------------------------
(* perform_simulation and reparent_along_move keep every index inside its  *)
(* vector and every count within what the simulations account for.         *)
THEOREM TreeTypes ==
  Spec => []TypeOK
<1>1. IInv => TypeOK
  <2> SUFFICES ASSUME IInv
               PROVE  TypeOK
    OBVIOUS
  <2>1. PICK pos \in [Nodes -> Position] : Inv(pos)
    BY DEF IInv
  <2>2. /\ Sound(nodes, children, root_sim_count, rootPos, pos)
        /\ \/ Idle
           \/ pc = "descend" /\ Descending(nodes, children, root_sim_count, rootPos, pos,
                                           children_stack, state, node_index, node_sim_count)
    BY <2>1 DEF Inv
  <2>3. /\ Counted(nodes, children, root_sim_count)
        /\ Vectors(nodes, children) /\ Links(nodes, children)
        /\ root_sim_count \in Nat /\ root_sim_count \in 0..MaxSims
        /\ rootPos \in Position /\ 0 \in Indices(nodes)
        /\ \A n \in Indices(nodes) : pos[n] \in Position
    BY <2>2, SoundFacts
  <2>4. /\ Nodes = Indices(nodes) /\ Children = Indices(children)
        /\ \A n \in Nodes : is_expanded(Node(n)) <=> n \in Expanded(nodes)
    BY <2>3, TreeIsLinked
  <2>5. nodes \in Seq([first : Nat, second : Nat])
    BY <2>3 DEF Vectors, NodeRecord
  <2>6. \A n \in Nodes : is_expanded(Node(n)) => Node(n).second <= Len(children)
    BY <2>3, <2>4 DEF Vectors, Node
  <2>7. children \in Seq([move : Move, index : Nodes, sim_count : Nat, total_score : Nat])
    <3> DEFINE R == [move : Move, index : Nodes, sim_count : Nat, total_score : Nat]
    <3>1. children \in Seq(ChildRecord) /\ Len(children) \in Nat /\ Len(nodes) \in Nat
      BY <2>3, VectorFacts DEF Vectors
    <3>2. ASSUME NEW k \in 1..Len(children)
          PROVE  children[k] \in R
      <4> DEFINE i == k - 1
                 r == children[k]
      <4>1. i \in Indices(children) /\ i + 1 = k
        BY <3>1 DEF Indices
      <4>2. PICK n \in Expanded(nodes) : i \in BlockOf(nodes, n)
        BY <2>3, <4>1 DEF Links
      <4>3. r \in ChildRecord
        BY <3>1
      <4>4. children[i + 1].index # 0 => children[i + 1].index < Len(nodes)
        BY <2>3, <4>2 DEF Links
      <4>5. r.index \in Nat /\ (r.index # 0 => r.index < Len(nodes))
        BY <4>1, <4>3, <4>4 DEF ChildRecord
      <4>6. r.index \in Nodes
        BY <2>3, <2>4, <3>1, <4>5 DEF Indices
      <4> HIDE DEF r
      <4> QED
        BY <4>3, <4>6 DEF ChildRecord, r
    <3> HIDE DEF R
    <3>3. children = [k \in 1..Len(children) |-> children[k]]
      BY <3>1
    <3>4. children \in [1..Len(children) -> R]
      BY <3>2, <3>3
    <3>5. children \in Seq(R)
      BY <3>1, <3>4
    <3> QED
      BY <3>5 DEF R
  <2>8. root_sim_count \in Count
    BY <2>3, TreeAssumption DEF Count
  <2>9. CASE Idle
    <3>1. children_stack \in Seq([node : Nodes, child : Children, player : Player])
      BY <2>9 DEF Idle
    <3>2. node_sim_count \in Count /\ node_index \in Nodes /\ state \in Position
          /\ pc \in {"idle", "descend"}
      BY <2>3, <2>4, <2>9, TreeAssumption DEF Idle, Count
    <3> QED
      BY <2>3, <2>5, <2>6, <2>7, <2>8, <3>1, <3>2 DEF TypeOK
  <2>10. CASE pc = "descend" /\ Descending(nodes, children, root_sim_count, rootPos, pos,
                                           children_stack, state, node_index, node_sim_count)
    <3>1. /\ children_stack \in Seq([node : Nodes, child : Children, player : Player])
          /\ node_index \in Nodes /\ state \in Position /\ pc \in {"idle", "descend"}
          /\ SimulatedTimes(children, node_index, root_sim_count, node_sim_count)
      BY <2>3, <2>4, <2>10 DEF Descending
    <3>2. node_sim_count \in Nat /\ node_sim_count <= root_sim_count
      BY <2>3, <3>1, VectorFacts DEF SimulatedTimes, Counted
    <3>3. node_sim_count \in Count
      BY <2>3, <3>2, TreeAssumption DEF Count
    <3> QED
      BY <2>3, <2>5, <2>6, <2>7, <2>8, <3>1, <3>3 DEF TypeOK
  <2> QED
    BY <2>2, <2>9, <2>10
<1> QED
  BY <1>1, AlwaysIInv, PTL

(* The asserts of get_unvisited_child_index and is_node_fully_expanded hold*)
(* however the children were swapped, backpropagated and copied.           *)
THEOREM UnvisitedFound ==
  Spec => []VisitedFirst
<1>1. IInv => VisitedFirst
  <2> SUFFICES ASSUME IInv, NEW n \in Nodes, is_expanded(Node(n)), ~is_terminal(Node(n))
               PROVE  LET node == Node(n)
                          unvisited == {i \in ChildIndices(node) : Child(i).index = 0}
                      IN /\ \A i \in unvisited : \A j \in i..(node.second - 1) : Child(j).index = 0
                         /\ unvisited # {} =>
                              FirstUnvisited(children, node, Sims(n)) = Min(unvisited)
    BY DEF VisitedFirst
  <2>1. PICK pos :
          /\ Tree(nodes, children, rootPos, pos)
          /\ Counted(nodes, children, root_sim_count)
          /\ Vectors(nodes, children)
          /\ root_sim_count \in Nat
          /\ n \in Expanded(nodes)
          /\ ChildIndices(Node(n)) = BlockOf(nodes, n)
    BY InvFacts
  <2>2. VisitedOrder(nodes, children)
    BY <2>1 DEF Tree
  <2>3. {i \in ChildIndices(Node(n)) : Child(i).index = 0} = Unvisited(nodes, children, n)
    BY <2>1 DEF Unvisited, Child
  <2>4. ASSUME NEW i \in Unvisited(nodes, children, n), NEW j \in i..(Node(n).second - 1)
        PROVE  Child(j).index = 0
    <3>1. Node(n).first \in Nat /\ Node(n).second \in Nat
      BY <2>1, VectorFacts DEF Node
    <3>2. i \in BlockOf(nodes, n) /\ children[i + 1].index = 0
      BY DEF Unvisited
    <3>3. j \in BlockOf(nodes, n) /\ (i = j \/ i < j)
      BY <2>1, <3>1, <3>2 DEF ChildIndices
    <3> QED
      BY <2>1, <2>2, <3>2, <3>3 DEF VisitedOrder, Child
  <2>5. ASSUME Unvisited(nodes, children, n) # {}
        PROVE  FirstUnvisited(children, Node(n), Sims(n)) = Min(Unvisited(nodes, children, n))
    <3>1. SimulatedTimes(children, n, root_sim_count, Sims(n))
      BY SimsAre
    <3>2. Sims(n) \in Nat /\ BlockSims(children, nodes[n + 1]) <= Sims(n)
      BY <2>1, <3>1, NodeSims DEF Node
    <3> QED
      BY <2>1, <2>2, <2>5, <3>2, FirstUnvisitedIs DEF Node
  <2> QED
    BY <2>3, <2>4, <2>5
<1> QED
  BY <1>1, AlwaysIInv, PTL

(* No simulation is lost or counted twice, whichever nodes it created and  *)
(* whatever was copied since.                                              *)
THEOREM VisitsAddUp ==
  Spec => []VisitsConserved
<1>1. IInv => VisitsConserved
  <2> SUFFICES ASSUME IInv
               PROVE  VisitsConserved
    OBVIOUS
  <2>1. PICK pos :
          /\ Tree(nodes, children, rootPos, pos)
          /\ Counted(nodes, children, root_sim_count)
          /\ 0 \in Expanded(nodes)
          /\ Vectors(nodes, children)
          /\ root_sim_count \in Nat
          /\ Nodes = Indices(nodes) /\ Children = Indices(children)
          /\ \A n \in Nodes : is_expanded(Node(n)) <=> n \in Expanded(nodes)
    BY InvFacts
  <2>2. ASSUME NEW n \in Nodes, is_expanded(Node(n)), ~is_terminal(Node(n))
        PROVE  /\ n # 0 => Sims(n) = ChildSims(n) + 1
               /\ n = 0 => Sims(n) - ChildSims(n) \in {0, 1}
    <3>1. SimulatedTimes(children, n, root_sim_count, Sims(n))
      BY SimsAre
    <3>2. n \in Expanded(nodes)
      BY <2>1, <2>2
    <3>3. ChildSims(n) = BlockSims(children, nodes[n + 1])
      BY <2>1, <3>2, ChildSimsOf
    <3> QED
      BY <2>1, <2>2, <3>1, <3>2, <3>3, NodeSims DEF Node
  <2>3. \A i \in Children : Child(i).index = 0 <=> Child(i).sim_count = 0
    BY <2>1 DEF Counted, Child
  <2>4. 0 \in Nodes /\ is_expanded(Node(0)) /\ Sims(0) = root_sim_count
    BY <2>1 DEF Vectors, Sims
  <2> QED
    BY <2>2, <2>3, <2>4 DEF VisitsConserved
<1> QED
  BY <1>1, AlwaysIInv, PTL

(* choose_best_move plays one of the best children of the root, whatever   *)
(* the order in which its loop meets them.                                 *)
THEOREM BestMovePlayed ==
  Spec => []RankingOptimal
<1>1. IInv => RankingOptimal
  <2> SUFFICES ASSUME IInv
               PROVE  RankingOptimal
    OBVIOUS
  <2>1. PICK pos :
          /\ Vectors(nodes, children) /\ 0 \in Expanded(nodes)
          /\ Nodes = Indices(nodes) /\ Children = Indices(children)
    BY InvFacts
  <2> DEFINE root == Node(0)
             S == ChildIndices(root)
  <2>2. root = nodes[0 + 1] /\ S = BlockOf(nodes, 0)
    BY DEF Node, BlockOf
  <2>3. /\ root.first \in Nat /\ root.second \in Nat /\ root.first <= root.second
        /\ \A i \in S : Child(i).sim_count \in Nat /\ Child(i).total_score \in Nat
    <3>1. root.first \in Nat /\ root.second \in Nat /\ root.first <= root.second /\ S \subseteq Children
      BY <2>1, <2>2, VectorFacts
    <3>2. \A i \in Children : children[i + 1] \in ChildRecord
      BY <2>1, VectorFacts
    <3>3. \A r \in ChildRecord : r.sim_count \in Nat /\ r.total_score \in Nat
      BY DEF ChildRecord
    <3> HIDE DEF root
    <3> QED
      BY <3>1, <3>2, <3>3 DEF Child
  <2> HIDE DEF root
  <2>4. TopRanked(root) = {i \in VisitedIn(S) : \A j \in VisitedIn(S) : ~ Better(j, i)}
    BY <2>3, TopRankedBest
  <2> DEFINE visited == {i \in S : Child(i).sim_count > 0}
  <2>5. VisitedIn(S) = visited
    BY <2>3 DEF VisitedIn
  <2>6. TopRanked(root) = {i \in visited : \A j \in visited : ~ Better(j, i)}
    BY <2>4, <2>5
  <2> HIDE DEF visited
  <2>7. RankingOptimal <=>
          TopRanked(Node(0)) = {i \in visited : \A j \in visited : ~ Better(j, i)}
    BY Zenon DEF RankingOptimal, visited, Better, S, root
  <2> QED
    BY <2>6, <2>7, Zenon DEF root
<1> QED
  BY <1>1, AlwaysIInv, PTL

(* The one node among whose children that is, an older one. *)
LEMMA ParentIs ==
  ASSUME IInv, NEW n \in Nodes \ {0}
  PROVE  /\ Parent(n) \in Expanded(nodes) /\ Parent(n) \in Nodes
         /\ ParentEdge(n) \in BlockOf(nodes, Parent(n))
         /\ Parent(n) \in Nat /\ Parent(n) < n
<1>1. /\ Links(nodes, children) /\ Vectors(nodes, children)
      /\ Nodes = Indices(nodes) /\ Children = Indices(children)
      /\ \A m \in Nodes : is_expanded(Node(m)) <=> m \in Expanded(nodes)
      /\ \A m \in Nodes : ChildIndices(Node(m)) = BlockOf(nodes, m)
  BY InvFacts
<1>2. ParentEdge(n) \in Children /\ children[ParentEdge(n) + 1].index = n /\ n # 0
  BY ParentEdgeIs DEF Child
<1>3. PICK p \in Expanded(nodes) : ParentEdge(n) \in BlockOf(nodes, p)
  BY <1>1, <1>2 DEF Links
<1>4. p \in Nodes
  BY <1>1, VectorFacts
<1>5. Parent(n) \in Nodes /\ is_expanded(Node(Parent(n)))
      /\ ParentEdge(n) \in ChildIndices(Node(Parent(n)))
  BY <1>1, <1>3, <1>4 DEF Parent
<1>6. Parent(n) \in Expanded(nodes) /\ ParentEdge(n) \in BlockOf(nodes, Parent(n))
  BY <1>1, <1>5
<1>7. Parent(n) < n
  BY <1>1, <1>2, <1>6 DEF Links
<1>8. Parent(n) \in Nat
  BY <1>1, <1>6, VectorFacts
<1> QED
  BY <1>5, <1>6, <1>7, <1>8

(* The positions of the nodes are those their moves lead to. *)
PositionStep(at) ==
  at = [n \in Nodes |->
          IF n = 0 THEN rootPos ELSE After[at[Parent(n)]][Child(ParentEdge(n)).move]]

(* By induction on the nodes, there is no other function like that. *)
LEMMA PositionsAre ==
  ASSUME IInv, NEW pos, Tree(nodes, children, rootPos, pos)
  PROVE  Positions = pos
<1> DEFINE Step(at, n) == IF n = 0 THEN rootPos ELSE After[at[Parent(n)]][Child(ParentEdge(n)).move]
<1>1. Nodes = Indices(nodes) /\ Vectors(nodes, children)
  BY InvFacts
<1>2. Placement(nodes, children, rootPos, pos)
  BY DEF Tree
<1>3. ASSUME NEW n \in Nodes
      PROVE  pos[n] = Step(pos, n)
  <2>1. CASE n = 0
    BY <1>2, <2>1 DEF Placement
  <2>2. CASE n # 0
    <3>1. Parent(n) \in Expanded(nodes) /\ ParentEdge(n) \in BlockOf(nodes, Parent(n))
      BY <2>2, ParentIs
    <3>2. Child(ParentEdge(n)).index = n
      BY <2>2, ParentEdgeIs
    <3> QED
      BY <1>2, <2>2, <3>1, <3>2 DEF Placement, Child
  <2> QED
    BY <2>1, <2>2
<1>4. pos = [n \in Nodes |-> pos[n]]
  BY <1>1, <1>2 DEF Placement
<1>5. PositionStep(pos)
  <2> HIDE DEF Step
  <2>1. pos = [n \in Nodes |-> Step(pos, n)]
    BY <1>3, <1>4
  <2> QED
    BY <2>1 DEF PositionStep, Step
<1>6. Positions = CHOOSE at : PositionStep(at)
  BY DEF Positions, PositionStep
<1>7. PositionStep(Positions)
  BY <1>5, <1>6
<1> DEFINE at == Positions
<1> HIDE DEF at
<1>8. at = [n \in Nodes |-> Step(at, n)]
  BY <1>7 DEF PositionStep, at
<1> DEFINE T == {n \in Nat : n \in Nodes => at[n] = pos[n]}
<1>9. \A n \in Nat : (\A k \in 0..(n - 1) : k \in T) => n \in T
  <2> TAKE n \in Nat
  <2> HAVE \A k \in 0..(n - 1) : k \in T
  <2> SUFFICES ASSUME n \in Nodes
               PROVE  at[n] = pos[n]
    OBVIOUS
  <2>1. at[n] = Step(at, n) /\ pos[n] = Step(pos, n)
    <3> HIDE DEF Step
    <3> QED
      BY <1>3, <1>8
  <2>2. CASE n = 0
    BY <2>1, <2>2
  <2>3. CASE n # 0
    <3>1. Parent(n) \in Nat /\ Parent(n) < n /\ Parent(n) \in Nodes
      BY <2>3, ParentIs
    <3>2. at[Parent(n)] = pos[Parent(n)]
      BY <3>1
    <3> QED
      BY <2>1, <2>3, <3>2
  <2> QED
    BY <2>2, <2>3
<1> HIDE DEF T
<1>10. \A n \in Nat : n \in T
  BY <1>9, StrongInduction
<1>11. \A n \in Nodes : at[n] = pos[n]
  BY <1>1, <1>10, VectorFacts DEF T
<1>12. at = [n \in Nodes |-> at[n]]
  BY <1>8
<1>13. at = pos
  BY <1>4, <1>11, <1>12
<1> QED
  BY <1>13 DEF at

(* root_at_index and fix_tree leave one tree in the vectors and no garbage.*)
THEOREM OneTree ==
  Spec => []TreeShape
<1>1. IInv => TreeShape
  <2> SUFFICES ASSUME IInv
               PROVE  TreeShape
    OBVIOUS
  <2>1. /\ Links(nodes, children) /\ Vectors(nodes, children) /\ Linked /\ Joined(Nodes)
        /\ Nodes = Indices(nodes) /\ Children = Indices(children)
        /\ \A m \in Nodes : is_expanded(Node(m)) <=> m \in Expanded(nodes)
        /\ \A m \in Nodes : ChildIndices(Node(m)) = BlockOf(nodes, m)
    BY InvFacts
  <2>2. ASSUME NEW n \in Nodes \ {0}
        PROVE  Cardinality({i \in Children : Child(i).index = n}) = 1
    <3>1. {i \in Children : Child(i).index = n} = {ParentEdge(n)}
      BY ParentEdgeIs
    <3> QED
      BY <3>1, FS_Singleton
  <2>3. ASSUME NEW i \in Children
        PROVE  Cardinality({n \in Nodes : is_expanded(Node(n)) /\ i \in ChildIndices(Node(n))}) = 1
    <3>1. PICK n \in Expanded(nodes) : i \in BlockOf(nodes, n)
      BY <2>1 DEF Links
    <3>2. n \in Nodes
      BY <2>1, VectorFacts
    <3>3. \A m \in Nodes : is_expanded(Node(m)) /\ i \in ChildIndices(Node(m)) => m = n
      BY <2>1, <3>1 DEF Links
    <3>4. {m \in Nodes : is_expanded(Node(m)) /\ i \in ChildIndices(Node(m))} = {n}
      BY <2>1, <3>1, <3>2, <3>3
    <3> QED
      BY <3>4, FS_Singleton
  <2>4. Len(Preorder(0)) = Len(nodes) /\ ToSet(Preorder(0)) = Nodes
    <3>1. 0 \in Nodes
      BY <2>1 DEF Vectors
    <3>2. ASSUME NEW n \in Nodes \ {0}
          PROVE  \E p \in Nodes : EdgeTo(Nodes, p, n)
      <4>1. Parent(n) \in Nodes /\ Parent(n) \in Expanded(nodes)
            /\ ParentEdge(n) \in BlockOf(nodes, Parent(n)) /\ Child(ParentEdge(n)).index = n
        BY ParentIs, ParentEdgeIs
      <4> QED
        BY <2>1, <4>1 DEF EdgeTo
    <3> QED
      BY <2>1, <3>1, <3>2, PreorderOfRoot
  <2> QED
    BY <2>2, <2>3, <2>4 DEF TreeShape
<1> QED
  BY <1>1, AlwaysIInv, PTL

(* The moves offered below a node are the legal moves of its position, each*)
(* once, after any number of swaps, playouts and copies.                   *)
THEOREM ChildrenAreMoves ==
  Spec => []EdgesAreMoves
<1>1. IInv => EdgesAreMoves
  <2> SUFFICES ASSUME IInv, NEW n \in Nodes, is_expanded(Node(n))
               PROVE  /\ ChildCount(n) = Cardinality(Legal[Positions[n]])
                      /\ {Child(i).move : i \in ChildIndices(Node(n))} = Legal[Positions[n]]
    BY DEF EdgesAreMoves
  <2>1. PICK pos :
          /\ Tree(nodes, children, rootPos, pos)
          /\ Vectors(nodes, children) /\ Linked /\ Joined(Nodes)
          /\ n \in Expanded(nodes)
          /\ ChildIndices(Node(n)) = BlockOf(nodes, n)
    BY InvFacts
  <2>2. Positions = pos
    BY <2>1, PositionsAre
  <2>3. /\ \A i \in BlockOf(nodes, n) : Child(i).move \in Legal[pos[n]]
        /\ \A m \in Legal[pos[n]] : \E i \in BlockOf(nodes, n) : Child(i).move = m
        /\ \A i, j \in BlockOf(nodes, n) : Child(i).move = Child(j).move => i = j
    BY <2>1 DEF Tree, Moves, Child
  <2>4. {Child(i).move : i \in BlockOf(nodes, n)} = Legal[pos[n]]
    BY <2>3
  <2>5. Cardinality(Legal[pos[n]]) = Cardinality(BlockOf(nodes, n))
    <3> DEFINE f == [i \in BlockOf(nodes, n) |-> Child(i).move]
    <3>1. f \in Bijection(BlockOf(nodes, n), Legal[pos[n]])
      BY <2>3 DEF Bijection, Injection, Surjection, IsInjective
    <3>2. IsFiniteSet(BlockOf(nodes, n))
      <4>1. nodes[n + 1].first \in Nat /\ nodes[n + 1].second \in Nat
        BY <2>1, VectorFacts
      <4> QED
        BY <4>1, RangeFinite DEF BlockOf, ChildIndices
    <3>3. ExistsBijection(BlockOf(nodes, n), Legal[pos[n]])
      BY <3>1 DEF ExistsBijection
    <3> QED
      BY <3>2, <3>3, FS_Bijection
  <2>6. ChildCount(n) = Cardinality(BlockOf(nodes, n))
    BY <2>1, ChildCountIs
  <2> QED
    BY <2>1, <2>2, <2>4, <2>5, <2>6
<1> QED
  BY <1>1, AlwaysIInv, PTL

-----------------------------------------------------------------------------
(* The steps of the tree as steps of SearchTree.                           *)

(* RootSims after a step. *)
LEMMA RootSimsAfter ==
  IInv' => /\ ChildSims(0)' = BlockSims(children, nodes[1])'
           /\ ChildSims(0)' \in 0..MaxSims
<1>1. IInv => ChildSims(0) = BlockSims(children, nodes[1]) /\ ChildSims(0) \in 0..MaxSims
  BY RootSims
<1>2. (IInv => ChildSims(0) = BlockSims(children, nodes[1]) /\ ChildSims(0) \in 0..MaxSims)'
  BY <1>1, PTL
<1> QED
  BY <1>2

(* A simulation that ends is a Simulate. *)
LEMMA SimulateStep ==
  ASSUME IInv, IInv', pc = "descend", UNCHANGED rootPos,
         BlockSims(children, nodes[1])' = BlockSims(children, nodes[1]) + 1
  PROVE  Search!Simulate
<1>1. Legal[rootPos] # {}
  <2>1. PICK pos \in [Nodes -> Position] : Inv(pos)
    BY DEF IInv
  <2>2. Status[rootPos] # "end_game" /\ rootPos \in Position
    BY <2>1, SoundFacts DEF Inv, Idle, Descending
  <2> QED
    BY <2>2, GameAssumption
<1>2. /\ ChildSims(0) \in 0..MaxSims /\ ChildSims(0)' \in 0..MaxSims
      /\ ChildSims(0)' = ChildSims(0) + 1
  BY RootSims, RootSimsAfter
<1>3. ChildSims(0)' = Search!Saturate(ChildSims(0) + 1)
  BY <1>2, TreeAssumption DEF Search!Saturate
<1> QED
  BY <1>1, <1>3 DEF Search!Simulate

(* A move that re-roots is a Reparent. *)
LEMMA ReparentStep ==
  ASSUME IInv, pc = "idle", NEW m \in Legal[rootPos], ReparentAlongMove(m)
  PROVE  Search!TreeNext
<1>1. /\ IInv'
      /\ BlockSims(children, nodes[1])' \in Nat
      /\ \/ BlockSims(children, nodes[1])' = 0
         \/ BlockSims(children, nodes[1])' < BlockSims(children, nodes[1])
  BY ReparentAlongMoveOK
<1>2. /\ ChildSims(0) \in 0..MaxSims /\ ChildSims(0)' \in 0..MaxSims
      /\ ChildSims(0)' = 0 \/ ChildSims(0)' < ChildSims(0)
  BY <1>1, RootSims, RootSimsAfter
<1>3. ChildSims(0)' \in Search!Kept(ChildSims(0))
  BY <1>2, TreeAssumption DEF Search!Kept
<1>4. Search!Reparent(m)
  BY <1>3 DEF Search!Reparent, ReparentAlongMove
<1>5. m \in Move
  <2>1. rootPos \in Position
    BY SoundFacts DEF IInv, Inv
  <2> QED
    BY <2>1, GameAssumption
<1> QED
  BY <1>4, <1>5 DEF Search!TreeNext

(* Whatever the vectors go through, the worker sees the tree SearchTree    *)
(* describes: a simulation adds a visit to a child of the root, re-rooting *)
(* keeps fewer than there were, a finished game brings a new tree.         *)
THEOREM KeepsSearchTree ==
  Spec => ImplementsSearchTree
<1>1. Init => Search!Create
  <2> SUFFICES ASSUME Init
               PROVE  Search!Create
    OBVIOUS
  <2>1. IInv
    BY InitOK
  <2>2. BlockSims(children, nodes[1]) = 0
    BY FreshIsSound, GameAssumption DEF Init
  <2> QED
    BY <2>1, <2>2, RootSims DEF Search!Create, Init
<1>2. IInv /\ [Next]_vars => [Search!TreeNext]_(Search!treeVars)
  <2> SUFFICES ASSUME IInv, [Next]_vars
               PROVE  [Search!TreeNext]_(Search!treeVars)
    OBVIOUS
  <2>0. IInv'
    BY NextOK
  <2>1. CASE BeginSimulation \/ Descend
    <3>1. nodes' = nodes /\ children' = children /\ rootPos' = rootPos
      BY <2>1 DEF BeginSimulation, Descend, vectors
    <3>2. ChildSims(0)' = ChildSims(0)
      BY <2>0, <3>1, RootSims, RootSimsAfter
    <3> QED
      BY <3>1, <3>2 DEF Search!treeVars
  <2>2. CASE ScoreTerminal
    BY <2>0, <2>2, ScoreTerminalOK, SimulateStep
       DEF ScoreTerminal, ReturnFromSimulation, Search!TreeNext
  <2>3. CASE VisitChild
    BY <2>0, <2>3, VisitChildOK, SimulateStep
       DEF VisitChild, ReturnFromSimulation, Search!TreeNext
  <2>4. CASE OpponentMove
    BY <2>4, ReparentStep DEF OpponentMove
  <2>5. CASE ChooseBestMove
    <3>1. PICK m : m \in Legal[rootPos] /\ ReparentAlongMove(m) /\ pc = "idle"
      BY <2>5 DEF ChooseBestMove, ReparentAlongMove
    <3> QED
      BY <3>1, ReparentStep
  <2>6. CASE ResetTree
    <3>1. BlockSims(children, nodes[1])' = 0 /\ rootPos' = InitPos
      BY <2>6, ResetTreeOK DEF ResetTree
    <3>2. ChildSims(0)' = 0
      BY <2>0, <3>1, RootSimsAfter
    <3> QED
      BY <3>1, <3>2 DEF Search!TreeNext, Search!Rebuild
  <2>7. CASE UNCHANGED vars
    <3>1. nodes' = nodes /\ children' = children /\ rootPos' = rootPos
      BY <2>7 DEF vars, vectors
    <3>2. ChildSims(0)' = ChildSims(0)
      BY <2>0, <3>1, RootSims, RootSimsAfter
    <3> QED
      BY <3>1, <3>2 DEF Search!treeVars
  <2> QED
    BY <2>1, <2>2, <2>3, <2>4, <2>5, <2>6, <2>7 DEF Next
<1> QED
  BY <1>1, <1>2, AlwaysIInv, PTL DEF Spec, ImplementsSearchTree, Search!TreeSpec

(* Knowledge before and after a step. *)
LEMMA KnowledgeStepIs ==
  /\ Knowledge = KnowledgeOf(nodes, children)
  /\ Knowledge' = KnowledgeOf(nodes', children')
<1>1. Knowledge = KnowledgeOf(nodes, children)
  BY KnowledgeIs
<1>2. (Knowledge = KnowledgeOf(nodes, children))'
  BY <1>1, PTL
<1>3. KnowledgeOf(nodes, children)' = KnowledgeOf(nodes', children')
  BY DEF KnowledgeOf
<1> QED
  BY <1>1, <1>2, <1>3

(* What was learned below a move stays when the move is played, for every  *)
(* shape of tree fix_tree may be given, and nothing else does.             *)
THEOREM KnowledgeKept ==
  Spec => KeepsSubtree
<1> DEFINE Played == rootPos' # rootPos /\ Status[rootPos] # "end_game" =>
                       \E m \in Legal[rootPos] : ReparentAlongMove(m)
           KnownKept(m) ==
             \E i \in ChildIndices(Node(0)) :
               /\ Child(i).move = m
               /\ rootPos' = After[rootPos][m]
               /\ root_sim_count' = Child(i).sim_count
               /\ Knowledge[0]' = IF Child(i).index = 0 THEN {} ELSE Knowledge[Child(i).index]
           A == /\ Played
                /\ \A m \in Legal[rootPos] : pc = "idle" /\ ReparentAlongMove(m) => KnownKept(m)
<1>1. ASSUME IInv, pc = "idle", NEW m, ReparentAlongMove(m)
      PROVE  KnownKept(m)
  <2>1. PICK i \in ChildIndices(Node(0)) : Child(i).move = m /\ KeepsKnown(i)
    BY <1>1, ReparentAlongMoveOK
  <2>2. Knowledge[0]' = KnowledgeOf(nodes', children')[0]
    BY KnowledgeStepIs
  <2>3. Knowledge[Child(i).index] = KnowledgeOf(nodes, children)[Child(i).index]
    BY KnowledgeStepIs
  <2> QED
    BY <2>1, <2>2, <2>3 DEF KeepsKnown
<1> HIDE DEF KnownKept
<1>2. IInv /\ [Next]_vars => [A]_vars
  <2> SUFFICES ASSUME IInv, [Next]_vars
               PROVE  Played
    BY <1>1
  <2> SUFFICES ASSUME rootPos' # rootPos, Status[rootPos] # "end_game"
               PROVE  \E m \in Legal[rootPos] : ReparentAlongMove(m)
    OBVIOUS
  <2>1. CASE BeginSimulation \/ Descend \/ ScoreTerminal \/ VisitChild \/ UNCHANGED vars
    BY <2>1 DEF BeginSimulation, Descend, ScoreTerminal, VisitChild, ReturnFromSimulation, vars
  <2>2. CASE OpponentMove
    BY <2>2 DEF OpponentMove
  <2>3. CASE ChooseBestMove
    <3>1. PICK i \in TopRanked(Node(0)) : ReparentAlongMove(Child(i).move)
      BY <2>3 DEF ChooseBestMove
    <3>2. Child(i).move \in Legal[rootPos]
      BY <3>1 DEF ReparentAlongMove
    <3> QED
      BY <3>1, <3>2
  <2>4. CASE ResetTree
    BY <2>4 DEF ResetTree
  <2> QED
    BY <2>1, <2>2, <2>3, <2>4 DEF Next
<1>3. [][A]_vars <=> KeepsSubtree
  BY DEF KeepsSubtree, KnownKept
<1> QED
  BY <1>2, <1>3, AlwaysIInv, PTL DEF Spec
=============================================================================
