------------------------- MODULE SemisplitTreeProofs -------------------------
(***************************************************************************)
(* The tree between whole moves, with or without roll-ups, keeps its shape,*)
(* its moves and its counts, for every game and any number of simulations, *)
(* among all the nodes and children that removals and roll-ups leave       *)
(* behind in its vectors.                                                  *)
(***************************************************************************)
EXTENDS SemisplitTree, MctsTreeProofs

(* Indices of a vector, and the children of a node. *)
Indices(v) == 0..(Len(v) - 1)
BlockOf(ns, n) == ChildIndices(ns[n + 1])

NodeRecord == [first : Nat, second : Nat, is_nodal : BOOLEAN,
               status : {"terminal", "nonterminal", "unknown"}]
ChildRecord == [semimove : Seq(Action), index : Nat, sim_count : Nat]

(* What holds of everything in the vectors, whether it is still of use.    *)
Vectors(ns, cs) ==
  /\ ns \in Seq(NodeRecord)
  /\ cs \in Seq(ChildRecord)
  /\ 0 \in Indices(ns)
  /\ \A n \in Indices(ns) : is_expanded(ns[n + 1]) => ns[n + 1].second <= Len(cs)
  /\ \A i \in Indices(cs) : cs[i + 1].index < Len(ns)
  /\ \A n \in Indices(ns) : \A i \in BlockOf(ns, n) : cs[i + 1].index # 0 => n < cs[i + 1].index

(* The nodes L are a tree: no edge leads out of it, every node but the root*)
(* has a parent, children belong to one node and nodes to one child.       *)
Links(ns, cs, L) ==
  /\ L \subseteq Indices(ns)
  /\ 0 \in L
  /\ \A n \in L : \A i \in BlockOf(ns, n) : cs[i + 1].index # 0 => cs[i + 1].index \in L
  /\ \A n \in L \ {0} : \E p \in L : \E i \in BlockOf(ns, p) : cs[i + 1].index = n
  /\ \A p, q \in L : \A i \in BlockOf(ns, p) : i \in BlockOf(ns, q) => p = q
  /\ \A p, q \in L : \A i \in BlockOf(ns, p), j \in BlockOf(ns, q) :
       cs[i + 1].index = cs[j + 1].index /\ cs[i + 1].index # 0 => i = j

(* The semimoves e, rolled up or not, lead from s to t within a turn.      *)
Leads(s, e, t) == \E r \in Reachable[s] : r.actions = e /\ r.state = t

(* Each node of the tree stands for a state, reached along its edge.       *)
Fits(pos, s, child) ==
  \E t \in State : Leads(s, child.semimove, t) /\ (child.index # 0 => pos[child.index] = t)
Stands(ns, cs, L, root, pos) ==
  /\ pos \in [L -> State]
  /\ pos[0] = root
  /\ root \in Nodal
  /\ \A n \in L : \A i \in BlockOf(ns, n) : Fits(pos, pos[n], cs[i + 1])
  /\ GETTER = "A" => \A n \in L : \A i \in BlockOf(ns, n) : Len(cs[i + 1].semimove) = 1

(* The moves through the children of B are the moves of s, each once.      *)
Through(s, e) == {Written(e) \o x : x \in Rests(apply(s, e))}
EdgesOf(cs) == [i \in Indices(cs) |-> cs[i + 1].semimove]
Cover(f, B, s) ==
  /\ \A m \in Moves(s) : \E i \in B : m \in Through(s, f[i])
  /\ \A i, j \in B : i # j => Through(s, f[i]) \cap Through(s, f[j]) = {}
Covers(ns, cs, L, pos) ==
  \A n \in L : is_expanded(ns[n + 1]) => Cover(EdgesOf(cs), BlockOf(ns, n), pos[n])

(* Statuses tell the truth, and no edge visited is a dead end.             *)
TrueStatus(s) == IF s \in Nodal /\ ~has_nodal_successor(s) THEN "terminal" ELSE "nonterminal"
Statuses(ns, L, pos) ==
  \A n \in L : /\ ns[n + 1].is_nodal <=> pos[n] \in Nodal
               /\ ns[n + 1].status = TrueStatus(pos[n])
               /\ Rests(pos[n]) # {}
               /\ is_terminal(ns[n + 1]) => ns[n + 1].first = ns[n + 1].second
               /\ ~is_terminal(ns[n + 1]) => ns[n + 1].first # ns[n + 1].second

VisitedOnTop(ns, cs, L) ==
  \A n \in L : \A i, j \in BlockOf(ns, n) : i <= j /\ cs[i + 1].index = 0 => cs[j + 1].index = 0

(* How much oftener a node was simulated than its children: exactly where  *)
(* nothing is rolled up, and at least not less often where it is.          *)
Surplus(rolled, isRoot, node) ==
  IF rolled THEN Nat
  ELSE IF isRoot THEN {0, 1}
  ELSE IF IS_NODAL /\ ~node.is_nodal THEN {0} ELSE {1}

(* The counts add up; node m alone, if it is one, has one to give on.      *)
Extra(m, n) == IF m = n THEN 1 ELSE 0
CountAt(ns, cs, rolled, m, child) ==
  LET c == child.index
  IN c # 0 /\ ~is_terminal(ns[c + 1]) =>
       (child.sim_count - BlockSims(cs, ns[c + 1])) - Extra(m, c) \in Surplus(rolled, FALSE, ns[c + 1])
CountedBut(ns, cs, L, total, rolled, m) ==
  /\ \A i \in Indices(cs) : cs[i + 1].index = 0 <=> cs[i + 1].sim_count = 0
  /\ ~is_terminal(ns[1]) => (total - BlockSims(cs, ns[1])) - Extra(m, 0) \in Surplus(rolled, TRUE, ns[1])
  /\ \A n \in L : \A i \in BlockOf(ns, n) : CountAt(ns, cs, rolled, m, cs[i + 1])
Nobody == -1
Counted(ns, cs, L, total, rolled) == CountedBut(ns, cs, L, total, rolled, Nobody)

Tree(ns, cs, L, root, pos) ==
  /\ Vectors(ns, cs)
  /\ Links(ns, cs, L)
  /\ Stands(ns, cs, L, root, pos)
  /\ Covers(ns, cs, L, pos)
  /\ Statuses(ns, L, pos)
  /\ VisitedOnTop(ns, cs, L)

(* The stack leads from the root, child by child, to node n.               *)
At(cs, stack, k) == IF k = 0 THEN 0 ELSE cs[stack[k] + 1].index
Way(ns, cs, L, stack, n) ==
  /\ stack \in Seq(Indices(cs))
  /\ \A k \in 1..Len(stack) : At(cs, stack, k - 1) \in L
                              /\ stack[k] \in BlockOf(ns, At(cs, stack, k - 1))
                              /\ At(cs, stack, k) # 0
  /\ n = At(cs, stack, Len(stack))

(* No node in the middle of a turn is expanded for nothing, but where a    *)
(* simulation stands.                                                      *)
Touched(ns, cs, L, m) ==
  \A n \in L : n # m /\ is_expanded(ns[n + 1]) /\ ~ns[n + 1].is_nodal =>
    \E i \in BlockOf(ns, n) : cs[i + 1].index # 0

AtRest == node_index = 0 /\ node_sim_count = 0 /\ state = root_state
Idling == pc = "idle" /\ children_stack = <<>> /\ AtRest
Returning(L) ==
  /\ pc = "return" /\ AtRest
  /\ Way(nodes, children, L, children_stack, At(children, children_stack, Len(children_stack)))
Descending(L, pos) ==
  /\ pc = "descend"
  /\ Way(nodes, children, L, children_stack, node_index)
  /\ state = pos[node_index]
  /\ node_sim_count = IF children_stack = <<>> THEN root_sim_count
                      ELSE children[Last(children_stack) + 1].sim_count
  /\ root_sim_count < MaxSims
  /\ ~is_terminal(nodes[1])

Inv(rolled, L, pos) ==
  /\ Tree(nodes, children, L, root_state, pos)
  /\ Counted(nodes, children, L, root_sim_count, rolled)
  /\ Touched(nodes, children, L, IF pc = "descend" THEN node_index ELSE Nobody)
  /\ root_sim_count \in 0..MaxSims
  /\ Idling \/ Returning(L) \/ Descending(L, pos)

IInv(rolled) == \E L, pos : Inv(rolled, L, pos)

-----------------------------------------------------------------------------
(* Sequences of actions, with and without their dots.                      *)

Kept(a) == IF a \in Dot THEN <<>> ELSE <<a>>
KeptOnes(s) == [i \in DOMAIN s |-> Kept(s[i])]

(* What is written of a sequence of actions is one. *)
LEMMA WrittenSeq ==
  ASSUME NEW s \in Seq(Action)
  PROVE  KeptOnes(s) \in Seq(Seq(Action)) /\ Written(s) = FlattenSeq(KeptOnes(s)) /\ Written(s) \in Seq(Action)
<1>1. \A i \in DOMAIN s : Kept(s[i]) \in Seq(Action)
  BY DEF Kept
<1>2. KeptOnes(s) \in Seq(Seq(Action))
  BY <1>1 DEF KeptOnes
<1>3. Written(s) = FlattenSeq(KeptOnes(s))
  BY DEF Written, KeptOnes, Kept
<1>4. FlattenSeq(KeptOnes(s)) \in Seq(Action)
  BY <1>2, FlattenWhole
<1> QED
  BY <1>2, <1>3, <1>4

(* Nothing is written of nothing. *)
LEMMA WrittenEmpty ==
  Written(<<>>) = <<>>
<1>1. <<>> \in Seq(Action)
  OBVIOUS
<1>2. KeptOnes(<<>>) = <<>>
  BY DEF KeptOnes
<1> QED
  BY <1>1, <1>2, WrittenSeq, FlattenEmpty

(* An action more is written where it is no dot. *)
LEMMA WrittenAppend ==
  ASSUME NEW s \in Seq(Action), NEW a \in Action
  PROVE  Written(Append(s, a)) = IF a \in Dot THEN Written(s) ELSE Append(Written(s), a)
<1>1. Append(s, a) \in Seq(Action)
  OBVIOUS
<1>2. Kept(a) \in Seq(Action)
  BY DEF Kept
<1>3. KeptOnes(Append(s, a)) = Append(KeptOnes(s), Kept(a))
  BY DEF KeptOnes
<1>4. KeptOnes(s) \in Seq(Seq(Action)) /\ Written(s) = FlattenSeq(KeptOnes(s)) /\ Written(s) \in Seq(Action)
  BY WrittenSeq
<1>5. Written(Append(s, a)) = FlattenSeq(KeptOnes(Append(s, a)))
  BY <1>1, WrittenSeq
<1>6. FlattenSeq(Append(KeptOnes(s), Kept(a))) = FlattenSeq(KeptOnes(s)) \o Kept(a)
  BY <1>2, <1>4, FlattenAppend
<1>7. Written(Append(s, a)) = Written(s) \o Kept(a)
  BY <1>3, <1>4, <1>5, <1>6
<1>8. CASE a \in Dot
  BY <1>4, <1>7, <1>8 DEF Kept
<1>9. CASE a \notin Dot
  BY <1>4, <1>7, <1>9 DEF Kept
<1> QED
  BY <1>8, <1>9

(* Two sequences are written one after the other. *)
LEMMA WrittenConcat ==
  ASSUME NEW s \in Seq(Action), NEW t \in Seq(Action)
  PROVE  Written(s \o t) = Written(s) \o Written(t)
<1> DEFINE x == KeptOnes(s)
           y == KeptOnes(t)
<1>1. /\ x \in Seq(Seq(Action)) /\ Written(s) = FlattenSeq(x)
      /\ y \in Seq(Seq(Action)) /\ Written(t) = FlattenSeq(y)
  BY WrittenSeq
<1>2. s \o t \in Seq(Action) /\ Len(s \o t) = Len(s) + Len(t)
  OBVIOUS
<1>3. Written(s \o t) = FlattenSeq(KeptOnes(s \o t)) /\ KeptOnes(s \o t) \in Seq(Seq(Action))
  BY <1>2, WrittenSeq
<1>4. KeptOnes(s \o t) = x \o y
  <2>1. /\ Len(x) = Len(s) /\ \A i \in 1..Len(s) : x[i] = Kept(s[i])
        /\ Len(y) = Len(t) /\ \A i \in 1..Len(t) : y[i] = Kept(t[i])
    BY DEF KeptOnes
  <2>2. /\ Len(KeptOnes(s \o t)) = Len(s) + Len(t)
        /\ \A i \in 1..(Len(s) + Len(t)) : KeptOnes(s \o t)[i] = Kept((s \o t)[i])
    BY <1>2 DEF KeptOnes
  <2>3. \A i \in 1..(Len(s) + Len(t)) : (s \o t)[i] = IF i <= Len(s) THEN s[i] ELSE t[i - Len(s)]
    OBVIOUS
  <2> HIDE DEF x, y
  <2>4. /\ x \o y \in Seq(Seq(Action)) /\ Len(x \o y) = Len(s) + Len(t)
        /\ \A i \in 1..Len(s) : (x \o y)[i] = x[i]
        /\ \A i \in 1..Len(t) : (x \o y)[Len(s) + i] = y[i]
    <3>1. /\ x \o y \in Seq(Seq(Action)) /\ Len(x \o y) = Len(x) + Len(y)
          /\ \A i \in 1..Len(x) : (x \o y)[i] = x[i]
          /\ \A i \in 1..Len(y) : (x \o y)[Len(x) + i] = y[i]
      BY <1>1, JoinParts
    <3> QED
      BY <2>1, <3>1
  <2>5. \A i \in 1..(Len(s) + Len(t)) : KeptOnes(s \o t)[i] = (x \o y)[i]
    <3> TAKE i \in 1..(Len(s) + Len(t))
    <3>1. Len(s) \in Nat /\ Len(t) \in Nat
      OBVIOUS
    <3>2. CASE i <= Len(s)
      <4>1. i \in 1..Len(s)
        BY <3>1, <3>2
      <4>2. (s \o t)[i] = s[i]
        BY <2>3, <3>2
      <4> QED
        BY <2>1, <2>2, <2>4, <4>1, <4>2
    <3>3. CASE ~(i <= Len(s))
      <4> DEFINE j == i - Len(s)
      <4>1. j \in 1..Len(t) /\ i = Len(s) + j
        BY <3>1, <3>3
      <4>2. (s \o t)[i] = t[j]
        BY <2>3, <3>3
      <4> HIDE DEF j
      <4> QED
        BY <2>1, <2>2, <2>4, <4>1, <4>2
    <3> QED
      BY <3>2, <3>3
  <2> DEFINE z == KeptOnes(s \o t)
             w == x \o y
  <2>6. z \in Seq(Seq(Action)) /\ w \in Seq(Seq(Action)) /\ Len(z) = Len(w)
        /\ \A i \in 1..Len(z) : z[i] = w[i]
    BY <1>3, <2>2, <2>4, <2>5
  <2> HIDE DEF z, w
  <2>7. z = w
    BY <2>6
  <2> QED
    BY <2>7 DEF z, w
<1> HIDE DEF x, y
<1>5. FlattenSeq(x \o y) = FlattenSeq(x) \o FlattenSeq(y)
  BY <1>1, FlattenConcat
<1> QED
  BY <1>1, <1>3, <1>4, <1>5

NoDots(s) == \A i \in 1..Len(s) : s[i] \notin Dot

(* A sequence without dots is written as it is. *)
LEMMA WrittenNoDots ==
  ASSUME NEW s \in Seq(Action), NoDots(s)
  PROVE  Written(s) = s
<1> DEFINE T == {u \in Seq(Action) : NoDots(u) => Written(u) = u}
<1>1. <<>> \in T
  BY WrittenEmpty
<1>2. ASSUME NEW u \in Seq(Action), NEW a \in Action, u \in T
      PROVE  Append(u, a) \in T
  <2> SUFFICES ASSUME NoDots(Append(u, a)) PROVE Written(Append(u, a)) = Append(u, a)
    OBVIOUS
  <2>1. Len(Append(u, a)) = Len(u) + 1 /\ Append(u, a)[Len(u) + 1] = a /\ Len(u) \in Nat
        /\ \A i \in 1..Len(u) : Append(u, a)[i] = u[i]
    OBVIOUS
  <2>2. NoDots(u) /\ a \notin Dot
    BY <2>1 DEF NoDots
  <2> QED
    BY <1>2, <2>2, WrittenAppend
<1> HIDE DEF T
<1>3. \A u \in Seq(Action) : u \in T
  BY <1>1, <1>2, SequenceInduction
<1> QED
  BY <1>3 DEF T

(* Nothing that is written is a dot. *)
LEMMA NoneWritten ==
  ASSUME NEW s \in Seq(Action)
  PROVE  NoDots(Written(s))
<1> DEFINE T == {u \in Seq(Action) : NoDots(Written(u))}
<1>1. <<>> \in T
  <2>1. NoDots(<<>>)
    BY DEF NoDots
  <2> QED
    BY <2>1, WrittenEmpty
<1>2. ASSUME NEW u \in Seq(Action), NEW a \in Action, u \in T
      PROVE  Append(u, a) \in T
  <2> DEFINE w == Written(u)
  <2>1. w \in Seq(Action) /\ NoDots(w)
    BY <1>2, WrittenSeq
  <2>2. Written(Append(u, a)) = IF a \in Dot THEN w ELSE Append(w, a)
    BY WrittenAppend
  <2> HIDE DEF w
  <2>3. a \notin Dot => NoDots(Append(w, a))
    BY <2>1 DEF NoDots
  <2>4. NoDots(Written(Append(u, a)))
    BY <2>1, <2>2, <2>3
  <2> QED
    BY <2>4
<1> HIDE DEF T
<1>3. \A u \in Seq(Action) : u \in T
  BY <1>1, <1>2, SequenceInduction
<1> QED
  BY <1>3 DEF T

(* Only at its end may a semimove hold a dot. *)
DotLast(s) == s \in Seq(Action) /\ s # <<>> /\ \A i \in 1..(Len(s) - 1) : s[i] \notin Dot

(* It is written without it. *)
LEMMA WrittenDotLast ==
  ASSUME NEW s, DotLast(s)
  PROVE  Written(s) = IF Last(s) \in Dot THEN Front(s) ELSE s
<1>1. /\ s \in Seq(Action) /\ Front(s) \in Seq(Action) /\ Len(Front(s)) = Len(s) - 1 /\ Last(s) \in Action
      /\ Last(s) = s[Len(s)]
      /\ \A k \in 1..(Len(s) - 1) : Front(s)[k] = s[k]
      /\ s = Append(Front(s), Last(s))
      /\ Len(s) \in Nat \ {0}
  BY FrontIs DEF DotLast
<1>2. NoDots(Front(s))
  BY <1>1 DEF DotLast, NoDots
<1>3. Written(Front(s)) = Front(s)
  BY <1>1, <1>2, WrittenNoDots
<1>4. Written(Append(Front(s), Last(s))) =
        IF Last(s) \in Dot THEN Written(Front(s)) ELSE Append(Written(Front(s)), Last(s))
  BY <1>1, WrittenAppend
<1> QED
  BY <1>1, <1>3, <1>4

(* The text of a path in front of a path. *)
LEMMA TextConcat ==
  ASSUME NEW p \in Seq(Seq(Action)), NEW q \in Seq(Seq(Action))
  PROVE  Text(p \o q) = Text(p) \o Text(q)
<1>1. FlattenSeq(p) \in Seq(Action) /\ FlattenSeq(q) \in Seq(Action)
  BY FlattenWhole
<1>2. FlattenSeq(p \o q) = FlattenSeq(p) \o FlattenSeq(q)
  BY FlattenConcat
<1>3. Written(FlattenSeq(p) \o FlattenSeq(q)) = Written(FlattenSeq(p)) \o Written(FlattenSeq(q))
  BY <1>1, WrittenConcat
<1> QED
  BY <1>1, <1>2, <1>3 DEF Text

(* The text of one semimove. *)
LEMMA TextOne ==
  ASSUME NEW e \in Seq(Action)
  PROVE  Text(<<e>>) = Written(e)
BY FlattenOne DEF Text

-----------------------------------------------------------------------------
(* What semimoves lead to within a turn.                                   *)

(* What a step of a turn is. *)
LEMMA SemimoveFacts ==
  ASSUME NEW s \in State, NEW e \in Semimoves[s]
  PROVE  /\ e \in Seq(Action) /\ e # <<>>
         /\ DotLast(e)
         /\ Successor[s][e] \in State
         /\ Successor[s][e] \in Nodal => Last(e) \notin Dot
         /\ Successor[s][e] \notin Nodal => Depth[Successor[s][e]] < Depth[s]
         /\ Mover[s] # KEEPER
<1>1. /\ e \in Seq(Action) /\ e # <<>>
      /\ Successor[s][e] \in State
      /\ ToSet(Front(e)) \intersect Dot = {}
      /\ Successor[s][e] \in Nodal => Last(e) \notin Dot
      /\ Successor[s][e] \notin Nodal => Depth[Successor[s][e]] < Depth[s]
      /\ Mover[s] # KEEPER
  BY SplitGameAssumption
<1>2. /\ Len(Front(e)) = Len(e) - 1 /\ Front(e) \in Seq(Action)
      /\ \A k \in 1..(Len(e) - 1) : Front(e)[k] = e[k]
  BY <1>1, FrontIs
<1>3. \A k \in 1..(Len(e) - 1) : e[k] \notin Dot
  <2> TAKE k \in 1..(Len(e) - 1)
  <2>1. k \in DOMAIN Front(e) /\ Front(e)[k] = e[k]
    BY <1>2
  <2>2. e[k] \in ToSet(Front(e))
    BY <2>1 DEF ToSet
  <2> QED
    BY <1>1, <2>2
<1>4. DotLast(e)
  BY <1>1, <1>3 DEF DotLast
<1> QED
  BY <1>1, <1>4

(* One semimove, and one in front of more. *)
One(s, e) == [actions |-> e, path |-> <<e>>, state |-> Successor[s][e]]
Before(e, q) == [actions |-> Written(e) \o q.actions, path |-> <<e>> \o q.path, state |-> q.state]

(* One turn of the recursion of Reachable, and the function it defines. *)
Reached(f, s) ==
  UNION {LET t == Successor[s][e]
         IN {One(s, e)} \union (IF t \in Nodal THEN {} ELSE {Before(e, r) : r \in f[t]}) : e \in Semimoves[s]}
ReachStep(f) == f = [s \in State |-> Reached(f, s)]
Shallow(d, f) == f = [s \in State |-> IF Depth[s] < d THEN Reached(f, s) ELSE {}]
ShallowOne(d) == CHOOSE f : Shallow(d, f)

(* The recursion goes to states from which fewer semimoves are left. *)
LEMMA ReachedSame ==
  ASSUME NEW f, NEW g, NEW s \in State,
         \A t \in State : Depth[t] < Depth[s] => f[t] = g[t]
  PROVE  Reached(f, s) = Reached(g, s)
<1>1. \A e \in Semimoves[s] : Successor[s][e] \notin Nodal => f[Successor[s][e]] = g[Successor[s][e]]
  BY SemimoveFacts
<1>2. \A e \in Semimoves[s] :
        (LET t == Successor[s][e]
         IN {One(s, e)} \union (IF t \in Nodal THEN {} ELSE {Before(e, r) : r \in f[t]}))
        = (LET t == Successor[s][e]
           IN {One(s, e)} \union (IF t \in Nodal THEN {} ELSE {Before(e, r) : r \in g[t]}))
  BY <1>1
<1> QED
  BY <1>2 DEF Reached

(* Depths are natural numbers. *)
LEMMA DepthNat ==
  \A s \in State : Depth[s] \in Nat
BY SplitGameAssumption

(* The recursion has a solution on the states of a bounded depth. *)
LEMMA ShallowExists ==
  \A d \in Nat : Shallow(d, ShallowOne(d))
<1> DEFINE T == {d \in Nat : \E f : Shallow(d, f)}
<1>1. 0 \in T
  <2>1. Shallow(0, [s \in State |-> {}])
    BY DepthNat DEF Shallow
  <2> QED
    BY <2>1
<1>2. ASSUME NEW d \in Nat, d \in T
      PROVE  d + 1 \in T
  <2>1. PICK f : Shallow(d, f)
    BY <1>2
  <2> DEFINE g == [s \in State |-> IF Depth[s] < d + 1 THEN Reached(f, s) ELSE {}]
  <2>2. ASSUME NEW s \in State, Depth[s] < d + 1
        PROVE  Reached(g, s) = Reached(f, s)
    <3>1. \A t \in State : Depth[t] < Depth[s] => g[t] = f[t]
      <4> TAKE t \in State
      <4> HAVE Depth[t] < Depth[s]
      <4>1. Depth[t] < d /\ Depth[t] < d + 1
        BY <2>2, DepthNat
      <4>2. f[t] = Reached(f, t)
        BY <2>1, <4>1 DEF Shallow
      <4>3. g[t] = Reached(f, t)
        BY <4>1
      <4> QED
        BY <4>2, <4>3
    <3> HIDE DEF g
    <3> QED
      BY <3>1, ReachedSame
  <2>3. Shallow(d + 1, g)
    BY <2>2 DEF Shallow
  <2> QED
    BY <2>3
<1> HIDE DEF T
<1>3. \A d \in Nat : d \in T
  BY <1>1, <1>2, SetInduction
<1> QED
  BY <1>3 DEF T, ShallowOne

(* These solutions agree. *)
LEMMA ShallowAgree ==
  ASSUME NEW c \in Nat, NEW d \in Nat
  PROVE  \A s \in State : Depth[s] < c /\ Depth[s] < d => ShallowOne(c)[s] = ShallowOne(d)[s]
<1> DEFINE f == ShallowOne(c)
           g == ShallowOne(d)
           T == {n \in Nat : \A s \in State : Depth[s] = n /\ n < c /\ n < d => f[s] = g[s]}
<1>1. Shallow(c, f) /\ Shallow(d, g)
  BY ShallowExists
<1>2. ASSUME NEW n \in Nat, \A k \in 0..(n - 1) : k \in T
      PROVE  n \in T
  <2> SUFFICES ASSUME NEW s \in State, Depth[s] = n, n < c, n < d
               PROVE  f[s] = g[s]
    OBVIOUS
  <2>1. \A t \in State : Depth[t] < Depth[s] => f[t] = g[t]
    <3> TAKE t \in State
    <3> HAVE Depth[t] < Depth[s]
    <3>1. Depth[t] \in 0..(n - 1) /\ Depth[t] < c /\ Depth[t] < d
      BY DepthNat
    <3>2. Depth[t] \in T
      BY <1>2, <3>1
    <3> QED
      BY <3>1, <3>2
  <2> HIDE DEF f, g, T
  <2>2. Reached(f, s) = Reached(g, s)
    BY <2>1, ReachedSame
  <2>3. f[s] = Reached(f, s) /\ g[s] = Reached(g, s)
    BY <1>1 DEF Shallow
  <2> QED
    BY <2>2, <2>3
<1> HIDE DEF T
<1>3. \A n \in Nat : n \in T
  BY <1>2, StrongInduction
<1>4. \A s \in State : Depth[s] \in T
  BY <1>3, DepthNat
<1> QED
  BY <1>4, DepthNat DEF T

(* Reachable is what its definition says it is. *)
LEMMA ReachableIs ==
  \A s \in State : Reachable[s] = Reached(Reachable, s)
<1> DEFINE f == [s \in State |-> ShallowOne(Depth[s] + 1)[s]]
<1>1. ASSUME NEW s \in State
      PROVE  f[s] = Reached(f, s)
  <2> DEFINE g == ShallowOne(Depth[s] + 1)
  <2>1. Depth[s] \in Nat /\ Depth[s] + 1 \in Nat /\ Depth[s] < Depth[s] + 1
    BY DepthNat
  <2>2. Shallow(Depth[s] + 1, g)
    BY <2>1, ShallowExists
  <2>3. g[s] = Reached(g, s)
    BY <2>1, <2>2 DEF Shallow
  <2>4. \A t \in State : Depth[t] < Depth[s] => f[t] = g[t]
    <3> TAKE t \in State
    <3> HAVE Depth[t] < Depth[s]
    <3>1. Depth[t] + 1 \in Nat /\ Depth[t] < Depth[t] + 1 /\ Depth[t] < Depth[s] + 1
      BY DepthNat
    <3>2. ShallowOne(Depth[t] + 1)[t] = ShallowOne(Depth[s] + 1)[t]
      BY <2>1, <3>1, ShallowAgree
    <3> QED
      BY <3>2
  <2>5. f[s] = g[s]
    OBVIOUS
  <2> HIDE DEF f, g
  <2>6. Reached(f, s) = Reached(g, s)
    BY <2>4, ReachedSame
  <2> QED
    BY <2>3, <2>5, <2>6
<1>2. ReachStep(f)
  BY <1>1 DEF ReachStep
<1> HIDE DEF f
<1>3. ReachStep(CHOOSE g : ReachStep(g))
  BY <1>2
<1>4. Reachable = CHOOSE g : ReachStep(g)
  BY DEF Reachable, ReachStep, Reached, One, Before
<1>5. ReachStep(Reachable)
  BY <1>3, <1>4
<1> QED
  BY <1>5 DEF ReachStep

(* A turn begins with a semimove, and may go on after it. *)
LEMMA ReachableCases ==
  ASSUME NEW s \in State
  PROVE  /\ \A e \in Semimoves[s] : One(s, e) \in Reachable[s]
         /\ \A e \in Semimoves[s] : Successor[s][e] \notin Nodal =>
              \A q \in Reachable[Successor[s][e]] : Before(e, q) \in Reachable[s]
         /\ \A r \in Reachable[s] : \E e \in Semimoves[s] :
              \/ r = One(s, e)
              \/ Successor[s][e] \notin Nodal /\ \E q \in Reachable[Successor[s][e]] : r = Before(e, q)
BY ReachableIs DEF Reached

WellFormed(s, r) ==
  /\ DotLast(r.actions)
  /\ r.path \in Seq(Seq(Action)) /\ r.path # <<>> /\ r.path[1] \in Semimoves[s]
  /\ r.state \in State
  /\ r.state \in Nodal => Last(r.actions) \notin Dot
  /\ Mover[s] # KEEPER
  /\ Text(r.path) = Written(r.actions)

(* Putting a sequence without dots in front. *)
LEMMA DotLastConcat ==
  ASSUME NEW s \in Seq(Action), NoDots(s), NEW t, DotLast(t)
  PROVE  DotLast(s \o t) /\ Last(s \o t) = Last(t)
<1>1. t \in Seq(Action) /\ Len(t) \in Nat \ {0} /\ Len(s) \in Nat
  BY DEF DotLast
<1>2. s \o t \in Seq(Action) /\ Len(s \o t) = Len(s) + Len(t)
      /\ \A i \in 1..(Len(s) + Len(t)) : (s \o t)[i] = IF i <= Len(s) THEN s[i] ELSE t[i - Len(s)]
  BY <1>1
<1>3. ASSUME NEW i \in 1..(Len(s \o t) - 1)
      PROVE  (s \o t)[i] \notin Dot
  <2>1. i \in 1..(Len(s) + Len(t))
    BY <1>1, <1>2
  <2>2. CASE i <= Len(s)
    BY <1>1, <1>2, <2>1, <2>2 DEF NoDots
  <2>3. CASE ~(i <= Len(s))
    <3>1. i - Len(s) \in 1..(Len(t) - 1)
      BY <1>1, <1>2, <2>3
    <3> QED
      BY <1>2, <2>1, <2>3, <3>1 DEF DotLast
  <2> QED
    BY <2>2, <2>3
<1>4. s \o t # <<>>
  BY <1>1, <1>2
<1>5. Last(s \o t) = Last(t)
  BY <1>1, <1>2 DEF Last
<1> QED
  BY <1>2, <1>3, <1>4, <1>5 DEF DotLast

(* What one semimove leads to is well formed. *)
LEMMA OneWellFormed ==
  ASSUME NEW s \in State, NEW e \in Semimoves[s]
  PROVE  WellFormed(s, One(s, e))
<1>1. e \in Seq(Action) /\ <<e>> \in Seq(Seq(Action)) /\ <<e>> # <<>> /\ <<e>>[1] = e
  BY SemimoveFacts
<1>2. Text(<<e>>) = Written(e)
  BY <1>1, TextOne
<1> QED
  BY <1>1, <1>2, SemimoveFacts DEF WellFormed, One

(* So is what more of them lead to. *)
LEMMA BeforeWellFormed ==
  ASSUME NEW s \in State, NEW e \in Semimoves[s], NEW q, WellFormed(Successor[s][e], q)
  PROVE  WellFormed(s, Before(e, q))
<1> DEFINE w == Written(e)
           b == Before(e, q)
<1>1. e \in Seq(Action) /\ w \in Seq(Action) /\ NoDots(w) /\ Mover[s] # KEEPER
  BY SemimoveFacts, WrittenSeq, NoneWritten
<1>2. b.actions = w \o q.actions /\ b.path = <<e>> \o q.path /\ b.state = q.state
  BY DEF Before
<1>3. DotLast(q.actions) /\ q.actions \in Seq(Action)
  BY DEF WellFormed, DotLast
<1>4. DotLast(b.actions) /\ Last(b.actions) = Last(q.actions)
  <2> HIDE DEF w, b
  <2> QED
    BY <1>1, <1>2, <1>3, DotLastConcat
<1>5. <<e>> \in Seq(Seq(Action)) /\ q.path \in Seq(Seq(Action))
  BY <1>1 DEF WellFormed
<1>6. b.path \in Seq(Seq(Action)) /\ b.path # <<>> /\ b.path[1] = e
  <2> HIDE DEF b
  <2> QED
    BY <1>2, <1>5
<1>7. Text(b.path) = Written(b.actions)
  <2>1. Text(b.path) = Text(<<e>>) \o Text(q.path)
    BY <1>2, <1>5, TextConcat
  <2>2. Text(<<e>>) = w
    BY <1>1, TextOne
  <2>3. Text(q.path) = Written(q.actions)
    BY DEF WellFormed
  <2>4. Written(w \o q.actions) = Written(w) \o Written(q.actions)
    BY <1>1, <1>3, WrittenConcat
  <2>5. Written(w) = w
    BY <1>1, WrittenNoDots
  <2> QED
    BY <1>2, <2>1, <2>2, <2>3, <2>4, <2>5
<1> HIDE DEF b, w
<1> QED
  BY <1>1, <1>2, <1>4, <1>6, <1>7 DEF WellFormed, b

(* Everything a turn leads to is well formed. *)
LEMMA ReachableFacts ==
  \A s \in State : \A r \in Reachable[s] : WellFormed(s, r)
<1> DEFINE T == {d \in Nat : \A s \in State : Depth[s] = d => \A r \in Reachable[s] : WellFormed(s, r)}
<1>1. ASSUME NEW d \in Nat, \A k \in 0..(d - 1) : k \in T
      PROVE  d \in T
  <2> SUFFICES ASSUME NEW s \in State, Depth[s] = d, NEW r \in Reachable[s]
               PROVE  WellFormed(s, r)
    OBVIOUS
  <2>1. PICK e \in Semimoves[s] :
              \/ r = One(s, e)
              \/ Successor[s][e] \notin Nodal /\ \E q \in Reachable[Successor[s][e]] : r = Before(e, q)
    BY ReachableCases
  <2>2. CASE r = One(s, e)
    BY <2>2, OneWellFormed
  <2>3. CASE Successor[s][e] \notin Nodal /\ \E q \in Reachable[Successor[s][e]] : r = Before(e, q)
    <3>1. PICK q \in Reachable[Successor[s][e]] : r = Before(e, q)
      BY <2>3
    <3>2. Successor[s][e] \in State /\ Depth[Successor[s][e]] \in 0..(d - 1)
      BY <2>3, SemimoveFacts, DepthNat
    <3>3. Depth[Successor[s][e]] \in T
      BY <1>1, <3>2
    <3>4. WellFormed(Successor[s][e], q)
      BY <3>2, <3>3
    <3> QED
      BY <3>1, <3>4, BeforeWellFormed
  <2> QED
    BY <2>1, <2>2, <2>3
<1> HIDE DEF T
<1>2. \A d \in Nat : d \in T
  BY <1>1, StrongInduction
<1>3. \A s \in State : Depth[s] \in T
  BY <1>2, DepthNat
<1> QED
  BY <1>3 DEF T

-----------------------------------------------------------------------------
(* Turns in pieces: edges that are rolled up, and the moves through them.  *)

Join(r, q) ==
  [actions |-> Written(r.actions) \o q.actions, path |-> r.path \o q.path, state |-> q.state]

(* Semimoves may be joined where the turn goes on. *)
LEMMA JoinBefore ==
  ASSUME NEW s \in State, NEW e \in Semimoves[s], NEW t \in State, NEW r, WellFormed(t, r),
         NEW u \in State, NEW q, WellFormed(u, q)
  PROVE  /\ Join(One(s, e), q) = Before(e, q)
         /\ Join(Before(e, r), q) = Before(e, Join(r, q))
<1>1. e \in Seq(Action) /\ Written(e) \in Seq(Action) /\ NoDots(Written(e)) /\ <<e>> \in Seq(Seq(Action))
  BY SemimoveFacts, WrittenSeq, NoneWritten
<1>2. r.actions \in Seq(Action) /\ q.actions \in Seq(Action) /\ Written(r.actions) \in Seq(Action)
      /\ r.path \in Seq(Seq(Action)) /\ q.path \in Seq(Seq(Action))
  BY WrittenSeq DEF WellFormed, DotLast
<1>3. Written(Written(e) \o r.actions) = Written(e) \o Written(r.actions)
  <2>1. Written(Written(e) \o r.actions) = Written(Written(e)) \o Written(r.actions)
    BY <1>1, <1>2, WrittenConcat
  <2>2. Written(Written(e)) = Written(e)
    BY <1>1, WrittenNoDots
  <2> QED
    BY <2>1, <2>2
<1>4. (Written(e) \o Written(r.actions)) \o q.actions = Written(e) \o (Written(r.actions) \o q.actions)
  <2> DEFINE x == Written(e)
             y == Written(r.actions)
             z == q.actions
  <2>1. x \in Seq(Action) /\ y \in Seq(Action) /\ z \in Seq(Action)
    BY <1>1, <1>2
  <2> HIDE DEF x, y, z
  <2>2. (x \o y) \o z = x \o (y \o z)
    BY <2>1, ConcatThree
  <2> QED
    BY <2>2 DEF x, y, z
<1>5. (<<e>> \o r.path) \o q.path = <<e>> \o (r.path \o q.path)
  <2> DEFINE x == <<e>>
             y == r.path
             z == q.path
  <2>1. x \in Seq(Seq(Action)) /\ y \in Seq(Seq(Action)) /\ z \in Seq(Seq(Action))
    BY <1>1, <1>2
  <2> HIDE DEF x, y, z
  <2>2. (x \o y) \o z = x \o (y \o z)
    BY <2>1, ConcatThree
  <2> QED
    BY <2>2 DEF x, y, z
<1>6. Join(One(s, e), q) = Before(e, q)
  BY DEF Join, One, Before
<1>7. Join(Before(e, r), q) = Before(e, Join(r, q))
  <2>1. Join(Before(e, r), q) = [actions |-> Written(Written(e) \o r.actions) \o q.actions,
                                 path |-> (<<e>> \o r.path) \o q.path, state |-> q.state]
    BY DEF Join, Before
  <2>2. Before(e, Join(r, q)) = [actions |-> Written(e) \o (Written(r.actions) \o q.actions),
                                 path |-> <<e>> \o (r.path \o q.path), state |-> q.state]
    BY DEF Join, Before
  <2> QED
    BY <1>3, <1>4, <1>5, <2>1, <2>2
<1> QED
  BY <1>6, <1>7

(* A path of a turn and one that goes on from its end join to a path. *)
LEMMA JoinReachable ==
  \A s \in State : \A r \in Reachable[s] : r.state \notin Nodal =>
    \A q \in Reachable[r.state] : Join(r, q) \in Reachable[s]
<1> DEFINE P(s) == \A r \in Reachable[s] : r.state \notin Nodal =>
                     \A q \in Reachable[r.state] : Join(r, q) \in Reachable[s]
           T == {d \in Nat : \A s \in State : Depth[s] = d => P(s)}
<1>1. ASSUME NEW d \in Nat, \A k \in 0..(d - 1) : k \in T
      PROVE  d \in T
  <2> SUFFICES ASSUME NEW s \in State, Depth[s] = d, NEW r \in Reachable[s], r.state \notin Nodal,
                      NEW q \in Reachable[r.state]
               PROVE  Join(r, q) \in Reachable[s]
    OBVIOUS
  <2>1. PICK e \in Semimoves[s] :
              \/ r = One(s, e)
              \/ Successor[s][e] \notin Nodal /\ \E p \in Reachable[Successor[s][e]] : r = Before(e, p)
    BY ReachableCases
  <2>2. WellFormed(s, r) /\ r.state \in State /\ WellFormed(r.state, q)
    BY ReachableFacts DEF WellFormed
  <2>3. CASE r = One(s, e)
    <3>1. r.state = Successor[s][e]
      BY <2>3 DEF One
    <3>2. Before(e, q) \in Reachable[s]
      BY <3>1, ReachableCases
    <3>3. Join(One(s, e), q) = Before(e, q)
      BY <2>2, JoinBefore
    <3> QED
      BY <2>3, <3>2, <3>3
  <2>4. CASE Successor[s][e] \notin Nodal /\ \E p \in Reachable[Successor[s][e]] : r = Before(e, p)
    <3>1. PICK p \in Reachable[Successor[s][e]] : r = Before(e, p)
      BY <2>4
    <3>2. Successor[s][e] \in State /\ Depth[Successor[s][e]] \in 0..(d - 1)
      BY <2>4, SemimoveFacts, DepthNat
    <3>3. Depth[Successor[s][e]] \in T
      BY <1>1, <3>2
    <3>4. r.state = p.state
      BY <3>1 DEF Before
    <3>5. Join(p, q) \in Reachable[Successor[s][e]]
      BY <3>2, <3>3, <3>4
    <3>6. WellFormed(Successor[s][e], p)
      BY <3>2, ReachableFacts
    <3>7. Join(Before(e, p), q) = Before(e, Join(p, q))
      BY <2>2, <3>2, <3>6, JoinBefore
    <3>8. Before(e, Join(p, q)) \in Reachable[s]
      BY <2>4, <3>5, ReachableCases
    <3> QED
      BY <3>1, <3>7, <3>8
  <2> QED
    BY <2>1, <2>3, <2>4
<1> HIDE DEF T
<1>2. \A d \in Nat : d \in T
  BY <1>1, StrongInduction
<1>3. \A s \in State : Depth[s] \in T
  BY <1>2, DepthNat
<1> QED
  BY <1>3 DEF T

(* A turn that ends is written as it is played. *)
LEMMA NodalWritten ==
  ASSUME NEW s \in State, NEW r \in Reachable[s], r.state \in Nodal
  PROVE  Written(r.actions) = r.actions
BY ReachableFacts, WrittenDotLast DEF WellFormed

(* Actions tell what they lead to, and a move how it was played. *)
LEMMA ActionsTell ==
  ASSUME NEW s \in State, NEW r \in Reachable[s], NEW q \in Reachable[s]
  PROVE  /\ r.actions = q.actions => r = q
         /\ r.state \in Nodal /\ q.state \in Nodal /\ Written(r.actions) = Written(q.actions) => r = q
<1>1. r.actions = q.actions => r = q
  BY SplitGameAssumption
<1>2. ASSUME r.state \in Nodal, q.state \in Nodal, Written(r.actions) = Written(q.actions)
      PROVE  r = q
  <2>1. Written(r.actions) = r.actions /\ Written(q.actions) = q.actions
    BY <1>2, NodalWritten
  <2> QED
    BY <1>1, <1>2, <2>1
<1> QED
  BY <1>1, <1>2

(* Edges say where they lead. *)
LEMMA LeadsFacts ==
  ASSUME NEW s \in State, NEW e, NEW t, Leads(s, e, t)
  PROVE  /\ t \in State
         /\ apply(s, e) = t
         /\ DotLast(e)
         /\ t \in Nodal => Last(e) \notin Dot
         /\ Mover[s] # KEEPER
         /\ e \in Seq(Action) /\ Written(e) \in Seq(Action) /\ NoDots(Written(e))
<1>1. PICK r \in Reachable[s] : r.actions = e /\ r.state = t
  BY DEF Leads
<1>2. \A q \in Reachable[s] : q.actions = e => q = r
  BY <1>1, ActionsTell
<1>3. apply(s, e) = t
  <2> DEFINE q == CHOOSE p \in Reachable[s] : p.actions = e
  <2>1. q \in Reachable[s] /\ q.actions = e
    BY <1>1
  <2>2. q = r
    BY <1>2, <2>1
  <2> QED
    BY <1>1, <2>2 DEF apply
<1>4. WellFormed(s, r)
  BY ReachableFacts
<1>5. t \in State /\ DotLast(e) /\ (t \in Nodal => Last(e) \notin Dot) /\ Mover[s] # KEEPER
  BY <1>1, <1>4 DEF WellFormed
<1>6. e \in Seq(Action)
  BY <1>5 DEF DotLast
<1> QED
  BY <1>3, <1>5, <1>6, WrittenSeq, NoneWritten

(* A semimove leads to its successor. *)
LEMMA SemimoveLeads ==
  ASSUME NEW s \in State, NEW e \in Semimoves[s]
  PROVE  Leads(s, e, Successor[s][e])
<1>1. One(s, e) \in Reachable[s]
  BY ReachableCases
<1> QED
  BY <1>1 DEF Leads, One

(* A rolled-up edge leads where its parts lead. *)
LEMMA LeadsJoin ==
  ASSUME NEW s \in State, NEW e, NEW t, Leads(s, e, t), t \notin Nodal, NEW f, NEW u, Leads(t, f, u)
  PROVE  Leads(s, Written(e) \o f, u)
<1>1. PICK r \in Reachable[s] : r.actions = e /\ r.state = t
  BY DEF Leads
<1>2. PICK q \in Reachable[t] : q.actions = f /\ q.state = u
  BY DEF Leads
<1>3. Join(r, q) \in Reachable[s]
  BY <1>1, <1>2, JoinReachable
<1>4. Join(r, q).actions = Written(e) \o f /\ Join(r, q).state = u
  BY <1>1, <1>2 DEF Join
<1> QED
  BY <1>3, <1>4 DEF Leads

(* The moves of a state, and what is left of them. *)
LEMMA MovesSeq ==
  ASSUME NEW s \in State
  PROVE  /\ \A m \in Moves(s) : m \in Seq(Action)
         /\ \A m \in Rests(s) : m \in Seq(Action) /\ NoDots(m)
         /\ \A m \in Moves(s) : m # <<>>
<1>1. \A r \in Reachable[s] : r.actions \in Seq(Action) /\ r.actions # <<>>
  BY ReachableFacts DEF WellFormed, DotLast
<1>2. \A m \in Moves(s) : m \in Seq(Action) /\ NoDots(m)
  BY <1>1, WrittenSeq, NoneWritten DEF Moves
<1>3. <<>> \in Seq(Action) /\ NoDots(<<>>)
  BY DEF NoDots
<1>4. \A m \in Moves(s) : m # <<>>
  <2> TAKE m \in Moves(s)
  <2>1. PICK r \in Reachable[s] : r.state \in Nodal /\ m = Written(r.actions)
    BY DEF Moves
  <2> QED
    BY <1>1, <2>1, NodalWritten
<1> QED
  BY <1>2, <1>3, <1>4 DEF Rests

(* The moves through an edge. *)
LEMMA ThroughIs ==
  ASSUME NEW s \in State, NEW e, NEW t, Leads(s, e, t)
  PROVE  /\ Through(s, e) = {Written(e) \o x : x \in Rests(t)}
         /\ Through(s, e) \subseteq Moves(s)
<1>1. apply(s, e) = t /\ t \in State /\ e \in Seq(Action) /\ Written(e) \in Seq(Action) /\ NoDots(Written(e))
  BY LeadsFacts
<1>2. Through(s, e) = {Written(e) \o x : x \in Rests(t)}
  BY <1>1 DEF Through
<1>3. ASSUME NEW x \in Rests(t)
      PROVE  Written(e) \o x \in Moves(s)
  <2>1. PICK r \in Reachable[s] : r.actions = e /\ r.state = t
    BY DEF Leads
  <2>2. CASE t \in Nodal
    <3>1. x = <<>> /\ Written(e) \o <<>> = Written(e)
      BY <1>1, <2>2 DEF Rests
    <3>2. Written(e) \in Moves(s)
      BY <2>1, <2>2 DEF Moves
    <3> QED
      BY <3>1, <3>2
  <2>3. CASE t \notin Nodal
    <3>1. PICK q \in Reachable[t] : q.state \in Nodal /\ x = Written(q.actions)
      BY <2>3 DEF Rests, Moves
    <3>2. Leads(t, q.actions, q.state)
      BY DEF Leads
    <3>3. Leads(s, Written(e) \o q.actions, q.state)
      BY <2>3, <3>2, LeadsJoin
    <3>4. PICK p \in Reachable[s] : p.actions = Written(e) \o q.actions /\ p.state = q.state
      BY <3>3 DEF Leads
    <3>5. Written(p.actions) \in Moves(s)
      BY <3>1, <3>4 DEF Moves
    <3>6. q.actions \in Seq(Action)
      BY <1>1, ReachableFacts DEF WellFormed, DotLast
    <3>7. Written(Written(e) \o q.actions) = Written(Written(e)) \o Written(q.actions)
      BY <1>1, <3>6, WrittenConcat
    <3>8. Written(Written(e)) = Written(e)
      BY <1>1, WrittenNoDots
    <3> QED
      BY <3>1, <3>4, <3>5, <3>7, <3>8
  <2> QED
    BY <2>2, <2>3
<1> QED
  BY <1>2, <1>3

(* The moves through a rolled-up edge are those through its second part,   *)
(* with the first in front.                                                *)
LEMMA ThroughJoin ==
  ASSUME NEW s \in State, NEW e, NEW t, Leads(s, e, t), t \notin Nodal, NEW f, NEW u, Leads(t, f, u)
  PROVE  Through(s, Written(e) \o f) = {Written(e) \o x : x \in Through(t, f)}
<1>1. t \in State /\ e \in Seq(Action) /\ Written(e) \in Seq(Action) /\ NoDots(Written(e))
  BY LeadsFacts
<1>2. u \in State /\ f \in Seq(Action) /\ Written(f) \in Seq(Action)
  BY <1>1, LeadsFacts
<1>3. Leads(s, Written(e) \o f, u)
  BY LeadsJoin
<1>4. Through(s, Written(e) \o f) = {Written(Written(e) \o f) \o x : x \in Rests(u)}
  BY <1>3, ThroughIs
<1>5. Through(t, f) = {Written(f) \o x : x \in Rests(u)}
  BY <1>1, ThroughIs
<1>6. Written(Written(e) \o f) = Written(e) \o Written(f)
  <2>1. Written(Written(e) \o f) = Written(Written(e)) \o Written(f)
    BY <1>1, <1>2, WrittenConcat
  <2>2. Written(Written(e)) = Written(e)
    BY <1>1, WrittenNoDots
  <2> QED
    BY <2>1, <2>2
<1>7. \A x \in Rests(u) : (Written(e) \o Written(f)) \o x = Written(e) \o (Written(f) \o x)
  BY <1>1, <1>2, MovesSeq, ConcatThree
<1>8. {Written(e) \o x : x \in Through(t, f)} = {Written(e) \o (Written(f) \o x) : x \in Rests(u)}
  BY <1>5
<1>9. {(Written(e) \o Written(f)) \o x : x \in Rests(u)} = {Written(e) \o (Written(f) \o x) : x \in Rests(u)}
  BY <1>7
<1> QED
  BY <1>4, <1>6, <1>8, <1>9

(* The semimoves of a state share out its moves. *)
LEMMA SemimovesCover ==
  ASSUME NEW s \in State
  PROVE  /\ \A m \in Moves(s) : \E e \in Semimoves[s] : m \in Through(s, e)
         /\ \A e, f \in Semimoves[s] : e # f => Through(s, e) \cap Through(s, f) = {}
<1>1. ASSUME NEW m \in Moves(s)
      PROVE  \E e \in Semimoves[s] : m \in Through(s, e)
  <2>1. PICK r \in Reachable[s] : r.state \in Nodal /\ m = Written(r.actions)
    BY DEF Moves
  <2>2. PICK e \in Semimoves[s] :
              \/ r = One(s, e)
              \/ Successor[s][e] \notin Nodal /\ \E q \in Reachable[Successor[s][e]] : r = Before(e, q)
    BY ReachableCases
  <2> DEFINE t == Successor[s][e]
  <2>3. Leads(s, e, t) /\ Through(s, e) = {Written(e) \o x : x \in Rests(t)}
    BY SemimoveLeads, ThroughIs
  <2>4. t \in State /\ e \in Seq(Action) /\ Written(e) \in Seq(Action) /\ NoDots(Written(e))
    BY <2>3, LeadsFacts
  <2>5. CASE r = One(s, e)
    <3>1. t \in Nodal /\ m = Written(e)
      BY <2>1, <2>5 DEF One
    <3>2. Written(e) \o <<>> = Written(e) /\ <<>> \in Rests(t)
      BY <2>4, <3>1 DEF Rests
    <3>3. m \in {Written(e) \o x : x \in Rests(t)}
      BY <3>1, <3>2
    <3> QED
      BY <2>3, <3>3
  <2>6. CASE t \notin Nodal /\ \E q \in Reachable[t] : r = Before(e, q)
    <3>1. PICK q \in Reachable[t] : r = Before(e, q)
      BY <2>6
    <3>2. q.state \in Nodal /\ m = Written(Written(e) \o q.actions)
      BY <2>1, <3>1 DEF Before
    <3>3. q.actions \in Seq(Action)
      BY <2>4, ReachableFacts DEF WellFormed, DotLast
    <3>4. Written(Written(e) \o q.actions) = Written(Written(e)) \o Written(q.actions)
      BY <2>4, <3>3, WrittenConcat
    <3>5. Written(Written(e)) = Written(e)
      BY <2>4, WrittenNoDots
    <3>6. Written(q.actions) \in Rests(t)
      BY <2>6, <3>2 DEF Rests, Moves
    <3>7. m \in {Written(e) \o x : x \in Rests(t)}
      BY <3>2, <3>4, <3>5, <3>6
    <3> QED
      BY <2>3, <3>7
  <2> QED
    BY <2>2, <2>5, <2>6
<1>2. ASSUME NEW e \in Semimoves[s], NEW m \in Through(s, e)
      PROVE  \E r \in Reachable[s] : r.state \in Nodal /\ Written(r.actions) = m /\ r.path[1] = e
  <2> DEFINE t == Successor[s][e]
  <2>1. Leads(s, e, t) /\ Through(s, e) = {Written(e) \o x : x \in Rests(t)}
    BY SemimoveLeads, ThroughIs
  <2>2. t \in State /\ e \in Seq(Action) /\ Written(e) \in Seq(Action) /\ NoDots(Written(e))
    BY <2>1, LeadsFacts
  <2>3. PICK x \in Rests(t) : m = Written(e) \o x
    BY <2>1
  <2>4. CASE t \in Nodal
    <3>1. x = <<>> /\ Written(e) \o <<>> = Written(e)
      BY <2>2, <2>4 DEF Rests
    <3>2. One(s, e) \in Reachable[s] /\ One(s, e).state = t /\ One(s, e).actions = e /\ One(s, e).path[1] = e
      BY ReachableCases DEF One
    <3> QED
      BY <2>3, <2>4, <3>1, <3>2
  <2>5. CASE t \notin Nodal
    <3>1. PICK q \in Reachable[t] : q.state \in Nodal /\ x = Written(q.actions)
      BY <2>5 DEF Rests, Moves
    <3>2. Before(e, q) \in Reachable[s]
      BY <2>5, ReachableCases
    <3>3. Before(e, q).actions = Written(e) \o q.actions /\ Before(e, q).state = q.state
          /\ Before(e, q).path = <<e>> \o q.path
      BY DEF Before
    <3>4. q.actions \in Seq(Action) /\ q.path \in Seq(Seq(Action))
      BY <2>2, ReachableFacts DEF WellFormed, DotLast
    <3>5. (<<e>> \o q.path)[1] = e
      BY <2>2, <3>4
    <3>6. Written(Written(e) \o q.actions) = Written(Written(e)) \o Written(q.actions)
      BY <2>2, <3>4, WrittenConcat
    <3>7. Written(Written(e)) = Written(e)
      BY <2>2, WrittenNoDots
    <3> QED
      BY <2>3, <3>1, <3>2, <3>3, <3>5, <3>6, <3>7
  <2> QED
    BY <2>4, <2>5
<1>3. ASSUME NEW e \in Semimoves[s], NEW f \in Semimoves[s], NEW m \in Through(s, e), m \in Through(s, f)
      PROVE  e = f
  <2>1. PICK r \in Reachable[s] : r.state \in Nodal /\ Written(r.actions) = m /\ r.path[1] = e
    BY <1>2
  <2>2. PICK q \in Reachable[s] : q.state \in Nodal /\ Written(q.actions) = m /\ q.path[1] = f
    BY <1>2, <1>3
  <2>3. r = q
    BY <2>1, <2>2, ActionsTell
  <2> QED
    BY <2>1, <2>2, <2>3
<1> QED
  BY <1>1, <1>3

-----------------------------------------------------------------------------
(* Blocks of semimoves, and the paths of a turn.                           *)

(* A list of the semimoves of s, each once, at most dead ends left out.    *)
Lists(s, acts) ==
  /\ acts \in Seq(Semimoves[s])
  /\ \A i, j \in 1..Len(acts) : acts[i] = acts[j] => i = j
  /\ \A e \in Semimoves[s] : Through(s, e) # {} => \E i \in 1..Len(acts) : acts[i] = e

(* A block of children with such a list covers the moves. *)
LEMMA ListCovers ==
  ASSUME NEW s \in State, NEW acts, Lists(s, acts), NEW lo \in Nat, NEW f,
         \A k \in 1..Len(acts) : f[lo + k - 1] = acts[k]
  PROVE  Cover(f, lo..(lo + Len(acts) - 1), s)
<1>1. Len(acts) \in Nat /\ \A k \in 1..Len(acts) : acts[k] \in Semimoves[s]
  BY DEF Lists
<1>2. \A k \in 1..Len(acts) : lo + k - 1 \in lo..(lo + Len(acts) - 1)
  BY <1>1
<1>3. \A i \in lo..(lo + Len(acts) - 1) : i - lo + 1 \in 1..Len(acts) /\ lo + (i - lo + 1) - 1 = i
  BY <1>1
<1>4. \A i \in lo..(lo + Len(acts) - 1) : f[i] = acts[i - lo + 1]
  BY <1>3
<1>5. ASSUME NEW m \in Moves(s)
      PROVE  \E i \in lo..(lo + Len(acts) - 1) : m \in Through(s, f[i])
  <2>1. PICK e \in Semimoves[s] : m \in Through(s, e)
    BY SemimovesCover
  <2>2. PICK k \in 1..Len(acts) : acts[k] = e
    BY <2>1 DEF Lists
  <2> QED
    BY <1>2, <2>1, <2>2
<1>6. ASSUME NEW i \in lo..(lo + Len(acts) - 1), NEW j \in lo..(lo + Len(acts) - 1), i # j
      PROVE  Through(s, f[i]) \cap Through(s, f[j]) = {}
  <2>1. i - lo + 1 # j - lo + 1
    BY <1>6
  <2>2. acts[i - lo + 1] # acts[j - lo + 1]
    BY <1>3, <2>1 DEF Lists
  <2>3. acts[i - lo + 1] \in Semimoves[s] /\ acts[j - lo + 1] \in Semimoves[s]
    BY <1>1, <1>3
  <2>4. Through(s, acts[i - lo + 1]) \cap Through(s, acts[j - lo + 1]) = {}
    BY <2>2, <2>3, SemimovesCover
  <2> QED
    BY <1>4, <2>4
<1> QED
  BY <1>5, <1>6 DEF Cover

(* What get_all_semimoves returns is such a list. *)
LEMMA AllSemimovesListed ==
  ASSUME NEW s \in State
  PROVE  /\ Lists(s, SetToSeq(Semimoves[s]))
         /\ SetToSeq(Semimoves[s]) = <<>> <=> Semimoves[s] = {}
<1>1. IsFiniteSet(Semimoves[s])
  BY SplitGameAssumption
<1> DEFINE S == Semimoves[s]
           a == SetToSeq(S)
<1>2. /\ a \in Seq(S)
      /\ Len(a) = Cardinality(S)
      /\ Cardinality(S) \in Nat
      /\ \A i, j \in 1..Cardinality(S) : a[i] = a[j] => i = j
      /\ \A x \in S : \E i \in 1..Cardinality(S) : a[i] = x
  BY <1>1, SetToSeqLists
<1> HIDE DEF a
<1>3. Lists(s, a)
  BY <1>2 DEF Lists
<1>4. a = <<>> <=> S = {}
  <2>1. ASSUME a = <<>> PROVE S = {}
    BY <1>2, <2>1
  <2>2. ASSUME a # <<>> PROVE S # {}
    <3>1. Len(a) \in Nat \ {0}
      BY <1>2, <2>2
    <3>2. a[1] \in S
      BY <1>2, <3>1
    <3> QED
      BY <3>2
  <2> QED
    BY <2>1, <2>2
<1> QED
  BY <1>3, <1>4 DEF a

(* A state has no path to the end of the turn exactly where no move goes   *)
(* on from it.                                                             *)
LEMMA DeadEndIs ==
  ASSUME NEW s \in State
  PROVE  PathsToNodal(s) = {} <=> Rests(s) = {}
BY DEF PathsToNodal, Rests, Moves

(* The states along a path. *)
Along(s, p, u) ==
  /\ u \in [0..Len(p) -> State]
  /\ u[0] = s
  /\ \A k \in 1..Len(p) : /\ p[k] \in Semimoves[u[k - 1]]
                          /\ u[k] = Successor[u[k - 1]][p[k]]
                          /\ k < Len(p) => u[k] \notin Nodal

(* There are such states for every path of a turn. *)
LEMMA PathAlong ==
  \A s \in State : \A r \in Reachable[s] :
    \E u : Along(s, r.path, u) /\ u[Len(r.path)] = r.state
<1> DEFINE P(s) == \A r \in Reachable[s] : \E u : Along(s, r.path, u) /\ u[Len(r.path)] = r.state
           T == {d \in Nat : \A s \in State : Depth[s] = d => P(s)}
<1>1. ASSUME NEW d \in Nat, \A k \in 0..(d - 1) : k \in T
      PROVE  d \in T
  <2> SUFFICES ASSUME NEW s \in State, Depth[s] = d, NEW r \in Reachable[s]
               PROVE  \E u : Along(s, r.path, u) /\ u[Len(r.path)] = r.state
    OBVIOUS
  <2>1. PICK e \in Semimoves[s] :
              \/ r = One(s, e)
              \/ Successor[s][e] \notin Nodal /\ \E p \in Reachable[Successor[s][e]] : r = Before(e, p)
    BY ReachableCases
  <2> DEFINE t == Successor[s][e]
  <2>2. t \in State /\ e \in Seq(Action)
    BY SemimoveFacts
  <2>3. CASE r = One(s, e)
    <3> DEFINE u == [k \in 0..1 |-> IF k = 0 THEN s ELSE t]
    <3>1. r.path = <<e>> /\ r.state = t /\ Len(<<e>>) = 1 /\ <<e>>[1] = e
      BY <2>3 DEF One
    <3>2. u \in [0..1 -> State] /\ u[0] = s /\ u[1] = t
      BY <2>2
    <3>3. Along(s, <<e>>, u)
      <4> HIDE DEF u
      <4>1. \A k \in 1..1 : k = 1 /\ k - 1 = 0
        OBVIOUS
      <4> QED
        BY <3>1, <3>2, <4>1 DEF Along
    <3> HIDE DEF u
    <3>4. Along(s, r.path, u) /\ u[Len(r.path)] = r.state
      BY <3>1, <3>2, <3>3
    <3> QED
      BY <3>4
  <2>4. CASE t \notin Nodal /\ \E p \in Reachable[t] : r = Before(e, p)
    <3>1. PICK q \in Reachable[t] : r = Before(e, q)
      BY <2>4
    <3>2. Depth[t] \in 0..(d - 1)
      BY <2>2, <2>4, SemimoveFacts, DepthNat
    <3>3. Depth[t] \in T
      BY <1>1, <3>2
    <3>4. PICK v : Along(t, q.path, v) /\ v[Len(q.path)] = q.state
      BY <2>2, <3>3
    <3>5. q.path \in Seq(Seq(Action)) /\ q.path # <<>> /\ r.path = <<e>> \o q.path /\ r.state = q.state
      BY <2>2, <3>1, ReachableFacts DEF WellFormed, Before
    <3> DEFINE n == Len(q.path)
    <3>6. n \in Nat \ {0} /\ Len(r.path) = n + 1 /\ r.path[1] = e
          /\ \A k \in 2..(n + 1) : r.path[k] = q.path[k - 1]
      BY <2>2, <3>5
    <3> DEFINE u == [k \in 0..(n + 1) |-> IF k = 0 THEN s ELSE v[k - 1]]
    <3>7. v \in [0..n -> State] /\ v[0] = t
      BY <3>4 DEF Along
    <3>8. u \in [0..(n + 1) -> State] /\ u[0] = s /\ \A k \in 1..(n + 1) : u[k] = v[k - 1]
      BY <3>6, <3>7
    <3> HIDE DEF u
    <3>9. ASSUME NEW k \in 1..(n + 1)
          PROVE  /\ r.path[k] \in Semimoves[u[k - 1]]
                 /\ u[k] = Successor[u[k - 1]][r.path[k]]
                 /\ k < n + 1 => u[k] \notin Nodal
      <4>1. CASE k = 1
        <5>1. u[k - 1] = s /\ u[k] = v[0] /\ r.path[k] = e
          BY <3>6, <3>8, <4>1
        <5> QED
          BY <2>4, <3>7, <5>1
      <4>2. CASE k # 1
        <5>1. k - 1 \in 1..n /\ k \in 2..(n + 1) /\ (k < n + 1 => k - 1 < n)
          BY <3>6, <4>2
        <5>2. u[k - 1] = v[(k - 1) - 1] /\ u[k] = v[k - 1] /\ r.path[k] = q.path[k - 1]
          BY <3>6, <3>8, <5>1
        <5>3. /\ q.path[k - 1] \in Semimoves[v[(k - 1) - 1]]
              /\ v[k - 1] = Successor[v[(k - 1) - 1]][q.path[k - 1]]
              /\ k - 1 < n => v[k - 1] \notin Nodal
          BY <3>4, <5>1 DEF Along
        <5> QED
          BY <5>1, <5>2, <5>3
      <4> QED
        BY <4>1, <4>2
    <3>10. Along(s, r.path, u)
      BY <3>6, <3>8, <3>9 DEF Along
    <3>11. u[Len(r.path)] = r.state
      <4>1. n + 1 \in 1..(n + 1) /\ (n + 1) - 1 = n
        BY <3>6
      <4>2. u[n + 1] = v[n]
        BY <3>8, <4>1
      <4> QED
        BY <3>4, <3>5, <3>6, <4>2
    <3> QED
      BY <3>10, <3>11
  <2> QED
    BY <2>1, <2>3, <2>4
<1> HIDE DEF T
<1>2. \A d \in Nat : d \in T
  BY <1>1, StrongInduction
<1>3. \A s \in State : Depth[s] \in T
  BY <1>2, DepthNat
<1> QED
  BY <1>3 DEF T

(* The function that AfterPath defines. *)
TraceStep(s, p, f) == f = [k \in 0..Len(p) |-> IF k = 0 THEN s ELSE Successor[f[k - 1]][p[k]]]

Traces(s, p, u) ==
  Len(p) \in Nat /\ u[0] = s /\ \A k \in 1..Len(p) : u[k] = Successor[u[k - 1]][p[k]]

(* It follows the path. *)
LEMMA AfterPathIs ==
  ASSUME NEW s, NEW p, NEW u, Traces(s, p, u)
  PROVE  AfterPath(s, p) = u[Len(p)]
<1> USE DEF Traces
<1> DEFINE v == [k \in 0..Len(p) |-> u[k]]
           f == CHOOSE g : TraceStep(s, p, g)
<1>1. TraceStep(s, p, v)
  <2>1. \A k \in 0..Len(p) : v[k] = IF k = 0 THEN s ELSE Successor[v[k - 1]][p[k]]
    <3> TAKE k \in 0..Len(p)
    <3>1. CASE k = 0
      BY <3>1
    <3>2. CASE k # 0
      <4>1. k \in 1..Len(p) /\ k - 1 \in 0..Len(p)
        BY <3>2
      <4> QED
        BY <3>2, <4>1
    <3> QED
      BY <3>1, <3>2
  <2> QED
    BY <2>1 DEF TraceStep
<1> HIDE DEF v
<1>2. TraceStep(s, p, f)
  BY <1>1
<1>3. AfterPath(s, p) = f[Len(p)]
  BY DEF AfterPath, TraceStep
<1> HIDE DEF f
<1> DEFINE T == {n \in Nat : n <= Len(p) => f[n] = u[n]}
<1>4. 0 \in T
  BY <1>2 DEF TraceStep
<1>5. ASSUME NEW n \in Nat, n \in T PROVE n + 1 \in T
  <2> SUFFICES ASSUME n + 1 <= Len(p) PROVE f[n + 1] = u[n + 1]
    OBVIOUS
  <2>1. n + 1 \in 1..Len(p) /\ n + 1 \in 0..Len(p) /\ (n + 1) - 1 = n /\ n + 1 # 0 /\ n <= Len(p)
    OBVIOUS
  <2>2. f[n + 1] = Successor[f[n]][p[n + 1]]
    BY <1>2, <2>1 DEF TraceStep
  <2>3. u[n + 1] = Successor[u[n]][p[n + 1]]
    BY <2>1
  <2> QED
    BY <1>5, <2>1, <2>2, <2>3
<1> HIDE DEF T
<1>6. \A n \in Nat : n \in T
  BY <1>4, <1>5, SetInduction
<1> QED
  BY <1>3, <1>6 DEF T

(* So do its beginnings. *)
LEMMA AfterPathAlong ==
  ASSUME NEW s \in State, NEW p \in Seq(Seq(Action)), NEW u, Along(s, p, u)
  PROVE  /\ AfterPath(s, p) = u[Len(p)]
         /\ \A k \in 0..Len(p) : AfterPath(s, SubSeq(p, 1, k)) = u[k]
<1>1. AfterPath(s, p) = u[Len(p)]
  BY AfterPathIs DEF Along, Traces
<1>2. ASSUME NEW k \in 0..Len(p) PROVE AfterPath(s, SubSeq(p, 1, k)) = u[k]
  <2>1. Len(SubSeq(p, 1, k)) = k /\ \A j \in 1..k : SubSeq(p, 1, k)[j] = p[j] /\ j \in 1..Len(p)
    OBVIOUS
  <2>2. u[0] = s /\ \A j \in 1..k : u[j] = Successor[u[j - 1]][SubSeq(p, 1, k)[j]]
    BY <2>1 DEF Along
  <2> DEFINE q == SubSeq(p, 1, k)
  <2>3. Len(q) = k /\ k \in Nat /\ Len(q) \in Nat
    BY <2>1
  <2>4. Traces(s, q, u)
    BY <2>2, <2>3 DEF Traces
  <2> HIDE DEF q
  <2>5. AfterPath(s, q) = u[Len(q)]
    BY <2>4, AfterPathIs
  <2> QED
    BY <2>3, <2>5 DEF q
<1> QED
  BY <1>1, <1>2

(* A path of a turn to its end: every state on it may be completed. *)
Completes(s, p, u) ==
  /\ p \in Seq(Seq(Action))
  /\ Along(s, p, u)
  /\ u[Len(p)] \in Nodal
  /\ s \in Nodal => p = <<>>
  /\ \A k \in 0..Len(p) : Rests(u[k]) # {}

(* A path to a nodal state completes the turn and passes no dead end. *)
LEMMA PathsComplete ==
  ASSUME NEW s \in State, NEW p \in PathsToNodal(s)
  PROVE  \E u : Completes(s, p, u)
<1>1. CASE s \in Nodal
  <2>1. p = <<>> /\ Len(<<>>) = 0
    BY <1>1 DEF PathsToNodal
  <2> DEFINE u == [k \in 0..0 |-> s]
  <2>2. u \in [0..0 -> State] /\ u[0] = s /\ 0..0 = {0}
    OBVIOUS
  <2>3. Rests(s) # {}
    BY <1>1 DEF Rests
  <2>4. <<>> \in Seq(Seq(Action))
    OBVIOUS
  <2> HIDE DEF u
  <2>5. Along(s, <<>>, u)
    BY <2>1, <2>2 DEF Along
  <2>6. Completes(s, <<>>, u)
    BY <1>1, <2>1, <2>2, <2>3, <2>4, <2>5 DEF Completes
  <2> QED
    BY <2>1, <2>6
<1>2. CASE s \notin Nodal
  <2>1. PICK r \in Reachable[s] : r.state \in Nodal /\ p = r.path
    BY <1>2 DEF PathsToNodal
  <2>2. p \in Seq(Seq(Action)) /\ Len(p) \in Nat
    BY <2>1, ReachableFacts DEF WellFormed
  <2>3. PICK u : Along(s, p, u) /\ u[Len(p)] = r.state
    BY <2>1, PathAlong
  <2> DEFINE n == Len(p)
             T == {k \in Nat : k <= n => Rests(u[n - k]) # {}}
  <2>4. 0 \in T
    <3>1. n - 0 = n
      BY <2>2
    <3> QED
      BY <2>1, <2>3, <3>1 DEF Rests
  <2>5. ASSUME NEW k \in Nat, k \in T PROVE k + 1 \in T
    <3> SUFFICES ASSUME k + 1 <= n PROVE Rests(u[n - (k + 1)]) # {}
      OBVIOUS
    <3> DEFINE i == n - k
    <3>1. i \in 1..n /\ n - (k + 1) = i - 1 /\ k <= n /\ i - 1 \in 0..n
      BY <2>2
    <3>2. p[i] \in Semimoves[u[i - 1]] /\ u[i] = Successor[u[i - 1]][p[i]] /\ u[i - 1] \in State
      BY <2>3, <3>1 DEF Along
    <3>3. Rests(u[i]) # {}
      BY <2>5, <3>1
    <3> HIDE DEF i
    <3>4. Leads(u[i - 1], p[i], u[i])
      BY <3>2, SemimoveLeads
    <3>5. /\ Through(u[i - 1], p[i]) = {Written(p[i]) \o x : x \in Rests(u[i])}
          /\ Through(u[i - 1], p[i]) \subseteq Moves(u[i - 1])
      BY <3>2, <3>4, ThroughIs
    <3>6. Rests(u[i - 1]) # {}
      BY <3>3, <3>5 DEF Rests
    <3> QED
      BY <3>1, <3>6
  <2> HIDE DEF T
  <2>6. \A k \in Nat : k \in T
    BY <2>4, <2>5, SetInduction
  <2>7. \A k \in 0..n : Rests(u[k]) # {}
    <3> TAKE k \in 0..n
    <3>1. n - k \in Nat /\ n - k <= n /\ n - (n - k) = k
      BY <2>2
    <3>2. n - k \in T
      BY <2>6, <3>1
    <3> QED
      BY <3>1, <3>2 DEF T
  <2>8. Completes(s, p, u)
    BY <1>2, <2>1, <2>2, <2>3, <2>7 DEF Completes
  <2> QED
    BY <2>8
<1> QED
  BY <1>1, <1>2

(* The lists left behind on such a path still list its states, the path in *)
(* front.                                                                  *)
LEMMA LegalActionsListed ==
  ASSUME NEW s \in State, NEW p, NEW u, Completes(s, p, u), NEW tried \in SUBSET DeadEndsAlong(s, p)
  PROVE  LET lists == LegalActions(s, p, tried)
         IN \A k \in 1..Len(p) : /\ Lists(u[k - 1], lists[k])
                                 /\ Len(lists[k]) \in Nat \ {0}
                                 /\ lists[k][1] = p[k]
<1> DEFINE lists == LegalActions(s, p, tried)
<1> SUFFICES ASSUME NEW k \in 1..Len(p)
             PROVE  Lists(u[k - 1], lists[k]) /\ Len(lists[k]) \in Nat \ {0} /\ lists[k][1] = p[k]
  OBVIOUS
<1>1. p \in Seq(Seq(Action)) /\ Along(s, p, u) /\ k - 1 \in 0..Len(p) /\ k \in DOMAIN p
  BY DEF Completes
<1> DEFINE at == u[k - 1]
           S == {e \in Semimoves[at] \ {p[k]} : <<k, e>> \notin tried}
           rest == SetToSeq(S)
<1>2. AfterPath(s, SubSeq(p, 1, k - 1)) = at
  BY <1>1, AfterPathAlong
<1>3. at \in State /\ p[k] \in Semimoves[at]
  BY <1>1 DEF Along
<1>4. lists[k] = <<p[k]>> \o rest
  BY <1>1, <1>2 DEF LegalActions
<1>5. IsFiniteSet(Semimoves[at])
  BY <1>3, SplitGameAssumption
<1> HIDE DEF at
<1>6. IsFiniteSet(S)
  BY <1>5, FS_Subset
<1>7. /\ rest \in Seq(S)
      /\ Len(rest) = Cardinality(S)
      /\ Cardinality(S) \in Nat
      /\ \A i, j \in 1..Cardinality(S) : rest[i] = rest[j] => i = j
      /\ \A x \in S : \E i \in 1..Cardinality(S) : rest[i] = x
  BY <1>6, SetToSeqLists
<1> DEFINE n == Cardinality(S)
           l == lists[k]
<1>8. \A e \in Semimoves[at] : Through(at, e) # {} => e = p[k] \/ e \in S
  <2> TAKE e \in Semimoves[at]
  <2> HAVE Through(at, e) # {}
  <2>1. Leads(at, e, Successor[at][e]) /\ Successor[at][e] \in State
    BY <1>3, SemimoveLeads, SemimoveFacts
  <2>2. Rests(Successor[at][e]) # {}
    BY <1>3, <2>1, ThroughIs
  <2>3. PathsToNodal(Successor[at][e]) # {}
    BY <2>1, <2>2, DeadEndIs
  <2>4. <<k, e>> \notin DeadEndsAlong(s, p)
    <3> SUFFICES ASSUME <<k, e>> \in DeadEndsAlong(s, p) PROVE FALSE
      OBVIOUS
    <3>1. PICK j \in DOMAIN p :
            <<k, e>> \in (LET a == AfterPath(s, SubSeq(p, 1, j - 1))
                          IN {j} \X {d \in Semimoves[a] : PathsToNodal(Successor[a][d]) = {}})
      BY DEF DeadEndsAlong
    <3>2. j = k
      BY <3>1
    <3> QED
      BY <1>2, <2>3, <3>1, <3>2 DEF at
  <2> QED
    BY <2>4
<1> HIDE DEF rest, S
<1>9. rest \in Seq(Semimoves[at]) /\ \A i \in 1..n : rest[i] \in S
  <2>1. S \subseteq Semimoves[at]
    BY DEF S
  <2>2. rest \in Seq(S) /\ Len(rest) = n
    BY <1>7
  <2> HIDE DEF n
  <2>3. \A i \in 1..n : rest[i] \in S
    BY <2>2
  <2> QED
    BY <2>1, <2>2, <2>3
<1>10. /\ l \in Seq(Semimoves[at])
       /\ Len(l) = n + 1
       /\ l[1] = p[k]
       /\ \A i \in 2..(n + 1) : l[i] = rest[i - 1]
  <2> DEFINE e == p[k]
             B == Semimoves[at]
  <2>1. e \in B /\ rest \in Seq(B) /\ l = <<e>> \o rest /\ Len(rest) = n
    BY <1>3, <1>4, <1>7, <1>9
  <2> HIDE DEF e, B, l, n
  <2>2. /\ l \in Seq(B)
        /\ Len(l) = n + 1
        /\ l[1] = e
        /\ \A i \in 2..(n + 1) : l[i] = rest[i - 1]
    BY <2>1
  <2> QED
    BY <2>2 DEF e, B
<1> HIDE DEF l, lists, n
<1>11. n \in Nat
  BY <1>7 DEF n
<1>12. \A i, j \in 1..Len(l) : l[i] = l[j] => i = j
  <2>1. \A i \in 1..n : rest[i] # p[k]
    BY <1>9 DEF S
  <2> TAKE i, j \in 1..Len(l)
  <2> HAVE l[i] = l[j]
  <2>2. CASE i = 1
    <3>1. j \in 2..(n + 1) => j - 1 \in 1..n /\ rest[j - 1] = p[k]
      BY <1>10, <1>11, <2>2
    <3> QED
      BY <1>10, <1>11, <2>1, <2>2, <3>1
  <2>3. CASE j = 1
    <3>1. i \in 2..(n + 1) => i - 1 \in 1..n /\ rest[i - 1] = p[k]
      BY <1>10, <1>11, <2>3
    <3> QED
      BY <1>10, <1>11, <2>1, <2>3, <3>1
  <2>4. CASE i # 1 /\ j # 1
    <3>1. i - 1 \in 1..n /\ j - 1 \in 1..n /\ rest[i - 1] = rest[j - 1]
      BY <1>10, <1>11, <2>4
    <3>2. i - 1 = j - 1
      BY <1>7, <3>1 DEF n
    <3> QED
      BY <3>2
  <2> QED
    BY <2>2, <2>3, <2>4
<1>13. \A e \in Semimoves[at] : Through(at, e) # {} => \E i \in 1..Len(l) : l[i] = e
  <2> TAKE e \in Semimoves[at]
  <2> HAVE Through(at, e) # {}
  <2>1. CASE e = p[k]
    BY <1>10, <1>11, <2>1
  <2>2. CASE e \in S
    <3>1. PICK i \in 1..n : rest[i] = e
      BY <1>7, <2>2 DEF n
    <3>2. i + 1 \in 2..(n + 1) /\ i + 1 \in 1..Len(l) /\ (i + 1) - 1 = i
      BY <1>10, <1>11
    <3>3. l[i + 1] = rest[(i + 1) - 1]
      BY <1>10, <3>2
    <3>4. l[i + 1] = e
      BY <3>1, <3>2, <3>3
    <3> QED
      BY <3>2, <3>4
  <2> QED
    BY <1>8, <2>1, <2>2
<1>14. Lists(at, l)
  BY <1>10, <1>12, <1>13 DEF Lists
<1> QED
  BY <1>10, <1>11, <1>14 DEF l, at

-----------------------------------------------------------------------------
(* The vectors, and what their parts look at.                              *)

(* Where a tree has its parts. *)
LEMMA VectorFacts ==
  ASSUME NEW ns, NEW cs, Vectors(ns, cs)
  PROVE  /\ Len(ns) \in Nat \ {0}
         /\ Len(cs) \in Nat
         /\ \A n \in Indices(ns) :
              /\ n \in Nat /\ n < Len(ns) /\ ns[n + 1] \in NodeRecord
              /\ ns[n + 1].first \in Nat /\ ns[n + 1].second \in Nat
              /\ BlockOf(ns, n) \subseteq Indices(cs)
              /\ \A i \in BlockOf(ns, n) :
                   /\ ns[n + 1].first <= i /\ i < ns[n + 1].second
                   /\ is_expanded(ns[n + 1])
         /\ \A i \in Indices(cs) :
              /\ i \in Nat /\ i < Len(cs) /\ cs[i + 1] \in ChildRecord
              /\ cs[i + 1].index \in Indices(ns) /\ cs[i + 1].index \in Nat
              /\ cs[i + 1].sim_count \in Nat
              /\ cs[i + 1].semimove \in Seq(Action)
<1>1. ns \in Seq(NodeRecord) /\ cs \in Seq(ChildRecord) /\ 0 \in Indices(ns)
  BY DEF Vectors
<1>2. Len(ns) \in Nat \ {0} /\ Len(cs) \in Nat
  BY <1>1 DEF Indices
<1>3. ASSUME NEW n \in Indices(ns)
      PROVE  /\ n \in Nat /\ n < Len(ns) /\ ns[n + 1] \in NodeRecord
             /\ ns[n + 1].first \in Nat /\ ns[n + 1].second \in Nat
             /\ BlockOf(ns, n) \subseteq Indices(cs)
             /\ \A i \in BlockOf(ns, n) :
                  /\ ns[n + 1].first <= i /\ i < ns[n + 1].second
                  /\ is_expanded(ns[n + 1])
  <2>1. n \in Nat /\ n < Len(ns) /\ n + 1 \in 1..Len(ns)
    BY <1>2 DEF Indices
  <2>2. ns[n + 1] \in NodeRecord
    BY <1>1, <2>1
  <2>3. ns[n + 1].first \in Nat /\ ns[n + 1].second \in Nat
    BY <2>2 DEF NodeRecord
  <2>4. is_expanded(ns[n + 1]) => ns[n + 1].second <= Len(cs)
    BY DEF Vectors
  <2>5. \A i \in BlockOf(ns, n) : /\ ns[n + 1].first <= i /\ i < ns[n + 1].second
                                  /\ is_expanded(ns[n + 1])
    BY <2>3 DEF BlockOf, ChildIndices, is_expanded
  <2>6. BlockOf(ns, n) \subseteq Indices(cs)
    BY <1>2, <2>3, <2>4, <2>5 DEF BlockOf, ChildIndices, Indices
  <2> QED
    BY <2>1, <2>2, <2>3, <2>5, <2>6
<1>4. ASSUME NEW i \in Indices(cs)
      PROVE  /\ i \in Nat /\ i < Len(cs) /\ cs[i + 1] \in ChildRecord
             /\ cs[i + 1].index \in Indices(ns) /\ cs[i + 1].index \in Nat
             /\ cs[i + 1].sim_count \in Nat
             /\ cs[i + 1].semimove \in Seq(Action)
  <2>1. i \in Nat /\ i < Len(cs) /\ i + 1 \in 1..Len(cs)
    BY <1>2 DEF Indices
  <2>2. cs[i + 1] \in ChildRecord
    BY <1>1, <2>1
  <2>3. cs[i + 1].index \in Nat /\ cs[i + 1].sim_count \in Nat /\ cs[i + 1].semimove \in Seq(Action)
    BY <2>2 DEF ChildRecord
  <2>4. cs[i + 1].index \in Indices(ns)
    <3>1. cs[i + 1].index < Len(ns)
      BY DEF Vectors
    <3> QED
      BY <1>2, <2>3, <3>1 DEF Indices
  <2> QED
    BY <2>1, <2>2, <2>3, <2>4
<1> QED
  BY <1>2, <1>3, <1>4

(* The nodes of the tree are nodes, and their children are theirs.         *)
LEMMA LinkFacts ==
  ASSUME NEW ns, NEW cs, Vectors(ns, cs), NEW L, Links(ns, cs, L)
  PROVE  /\ 0 \in L
         /\ \A n \in L : n \in Indices(ns) /\ n \in Nat
         /\ \A n \in L : \A i \in BlockOf(ns, n) :
              /\ i \in Indices(cs)
              /\ cs[i + 1].index # 0 => cs[i + 1].index \in L /\ n < cs[i + 1].index
         /\ \A p, q \in L : \A i \in BlockOf(ns, p) : i \in BlockOf(ns, q) => p = q
         /\ \A p, q \in L : \A i \in BlockOf(ns, p), j \in BlockOf(ns, q) :
              cs[i + 1].index = cs[j + 1].index /\ cs[i + 1].index # 0 => i = j
<1>1. \A n \in L : n \in Indices(ns)
  BY DEF Links
<1>2. \A n \in L : n \in Nat /\ BlockOf(ns, n) \subseteq Indices(cs)
  BY <1>1, VectorFacts
<1>3. \A n \in L : \A i \in BlockOf(ns, n) :
        /\ i \in Indices(cs)
        /\ cs[i + 1].index # 0 => cs[i + 1].index \in L /\ n < cs[i + 1].index
  BY <1>1, <1>2 DEF Links, Vectors
<1> QED
  BY <1>1, <1>2, <1>3 DEF Links

(* The sum over a block looks at the counts in it only, and over no block  *)
(* it is 0.                                                                *)
LEMMA BlockSimsAlike ==
  ASSUME NEW ns, NEW cs, Vectors(ns, cs), NEW n \in Indices(ns),
         NEW ms, NEW ds, ms[n + 1].first = ns[n + 1].first, ms[n + 1].second = ns[n + 1].second,
         Len(ds) \in Nat, Len(cs) <= Len(ds),
         \A i \in BlockOf(ns, n) : ds[i + 1].sim_count = cs[i + 1].sim_count
  PROVE  BlockSims(ds, ms[n + 1]) = BlockSims(cs, ns[n + 1])
<1> DEFINE node == ns[n + 1]
<1>1. node.first \in Nat /\ node.second \in Nat /\ Len(cs) \in Nat
  BY VectorFacts
<1>2. ChildIndices(ms[n + 1]) = ChildIndices(node)
  BY DEF ChildIndices
<1>3. CASE is_expanded(node)
  <2>1. node.first <= node.second /\ node.second <= Len(cs)
    BY <1>3 DEF is_expanded, Vectors
  <2>2. node.second <= Len(ds)
    BY <1>1, <2>1
  <2>3. \A i \in ChildIndices(node) : cs[i + 1].sim_count \in Nat /\ ds[i + 1].sim_count = cs[i + 1].sim_count
    BY VectorFacts DEF BlockOf
  <2> HIDE DEF node
  <2>4. BlockSims(ds, node) = BlockSims(cs, node)
    BY <1>1, <2>1, <2>2, <2>3, BlockSimsKept
  <2> QED
    BY <1>2, <2>4 DEF BlockSims, node
<1>4. CASE ~is_expanded(node)
  <2>1. ChildIndices(node) = {}
    BY <1>1, <1>4 DEF is_expanded, ChildIndices
  <2> QED
    BY <1>2, <2>1, SumEmpty DEF BlockSims
<1> QED
  BY <1>3, <1>4

(* It is a natural number, and no less than any of its parts. *)
LEMMA BlockSimsNat ==
  ASSUME NEW ns, NEW cs, Vectors(ns, cs), NEW n \in Indices(ns)
  PROVE  /\ BlockSims(cs, ns[n + 1]) \in Nat
         /\ \A i \in BlockOf(ns, n) : cs[i + 1].sim_count <= BlockSims(cs, ns[n + 1])
         /\ BlockOf(ns, n) = {} => BlockSims(cs, ns[n + 1]) = 0
<1> DEFINE node == ns[n + 1]
           f == SimCounts(cs)
           a == node.first
           b == node.second
<1>1. a \in Nat /\ b \in Nat /\ Len(cs) \in Nat
  BY VectorFacts
<1>2. \A i \in BlockOf(ns, n) : i \in Indices(cs) /\ f[i] = cs[i + 1].sim_count /\ f[i] \in Nat
  BY VectorFacts DEF SimCounts, Indices
<1>3. BlockSims(cs, node) = SumOver(f, BlockOf(ns, n)) /\ BlockOf(ns, n) = a..(b - 1)
  BY DEF BlockSims, BlockOf, ChildIndices
<1>4. CASE a <= b
  <2>1. PICK m \in Nat : b = a + m
    <3>1. b - a \in Nat /\ b = a + (b - a)
      BY <1>1, <1>4
    <3> QED
      BY <3>1
  <2>2. \A k \in 0..(m - 1) : a + k \in BlockOf(ns, n)
    BY <1>1, <1>3, <2>1
  <2>3. \A k \in 0..(m - 1) : f[a + k] \in Nat
    BY <1>2, <2>2
  <2>4. 0 \in 0..m /\ \A k \in 0..(0 - 1) : f[a + k] > 0
    BY <2>1
  <2>11. a \in Int
    BY <1>1
  <2> HIDE DEF f, a
  <2>5. /\ SumOver(f, a..((a + m) - 1)) >= 0
        /\ \A k \in 0..(m - 1) : f[a + k] <= SumOver(f, a..((a + m) - 1))
    BY <2>3, <2>4, <2>11, RangeSumBounds
  <2>6. \A i \in a..((a + m) - 1) : f[i] \in Nat
    BY <1>2, <1>3, <2>1
  <2>7. SumOver(f, a..((a + m) - 1)) \in Nat
    <3>1. a \in Int /\ a + m \in Int
      BY <1>1, <2>1
    <3> QED
      BY <2>6, <3>1, RangeSumNat
  <2>8. \A i \in BlockOf(ns, n) : i - a \in 0..(m - 1) /\ a + (i - a) = i
    BY <1>1, <1>3, <2>1
  <2>9. \A i \in BlockOf(ns, n) : f[i] <= SumOver(f, a..((a + m) - 1))
    BY <2>5, <2>8
  <2>10. BlockOf(ns, n) = {} => SumOver(f, BlockOf(ns, n)) = 0
    BY SumEmpty
  <2> QED
    BY <1>2, <1>3, <2>1, <2>7, <2>9, <2>10
<1>5. CASE ~(a <= b)
  <2>1. BlockOf(ns, n) = {}
    BY <1>1, <1>3, <1>5
  <2>2. BlockSims(cs, node) = 0
    BY <1>3, <2>1, SumEmpty
  <2> QED
    BY <2>1, <2>2
<1> QED
  BY <1>4, <1>5

SameIndex(cs, ds) ==
  /\ ds \in Seq(ChildRecord)
  /\ Len(ds) = Len(cs)
  /\ \A i \in Indices(cs) : ds[i + 1].index = cs[i + 1].index
SameMoves(cs, ds) == \A i \in Indices(cs) : ds[i + 1].semimove = cs[i + 1].semimove
SameSims(cs, ds) == \A i \in Indices(cs) : ds[i + 1].sim_count = cs[i + 1].sim_count

(* The shape of the tree is in the indices alone. *)
LEMMA SameIndexKeeps ==
  ASSUME NEW ns, NEW cs, Vectors(ns, cs), NEW ds, SameIndex(cs, ds)
  PROVE  /\ Vectors(ns, ds)
         /\ Indices(ds) = Indices(cs)
         /\ \A L : Links(ns, cs, L) => Links(ns, ds, L)
         /\ \A L : L \subseteq Indices(ns) /\ VisitedOnTop(ns, cs, L) => VisitedOnTop(ns, ds, L)
         /\ \A L, stack, n : L \subseteq Indices(ns) /\ Way(ns, cs, L, stack, n) => Way(ns, ds, L, stack, n)
<1>1. Indices(ds) = Indices(cs)
  BY DEF SameIndex, Indices
<1>2. \A n \in Indices(ns) : \A i \in BlockOf(ns, n) : i \in Indices(cs)
  BY VectorFacts
<1>3. \A n \in Indices(ns) : \A i \in BlockOf(ns, n) : ds[i + 1].index = cs[i + 1].index
  BY <1>2 DEF SameIndex
<1>4. Vectors(ns, ds)
  BY <1>1, <1>3 DEF Vectors, SameIndex
<1>5. ASSUME NEW L, Links(ns, cs, L) PROVE Links(ns, ds, L)
  <2>1. L \subseteq Indices(ns) /\ 0 \in L
    BY <1>5 DEF Links
  <2>2. \A n \in L : \A i \in BlockOf(ns, n) : ds[i + 1].index = cs[i + 1].index
    BY <1>3, <2>1
  <2>3. \A n \in L : \A i \in BlockOf(ns, n) : ds[i + 1].index # 0 => ds[i + 1].index \in L
    BY <1>5, <2>2 DEF Links
  <2>4. \A n \in L \ {0} : \E p \in L : \E i \in BlockOf(ns, p) : ds[i + 1].index = n
    BY <1>5, <2>2 DEF Links
  <2>5. \A p, q \in L : \A i \in BlockOf(ns, p) : i \in BlockOf(ns, q) => p = q
    BY <1>5 DEF Links
  <2>6. \A p, q \in L : \A i \in BlockOf(ns, p), j \in BlockOf(ns, q) :
          ds[i + 1].index = ds[j + 1].index /\ ds[i + 1].index # 0 => i = j
    BY <1>5, <2>2 DEF Links
  <2> QED
    BY <2>1, <2>3, <2>4, <2>5, <2>6 DEF Links
<1>6. ASSUME NEW L, L \subseteq Indices(ns), VisitedOnTop(ns, cs, L) PROVE VisitedOnTop(ns, ds, L)
  BY <1>3, <1>6 DEF VisitedOnTop
<1>7. ASSUME NEW L, NEW stack, NEW n, L \subseteq Indices(ns), Way(ns, cs, L, stack, n)
      PROVE  Way(ns, ds, L, stack, n)
  <2>1. stack \in Seq(Indices(cs)) /\ Len(stack) \in Nat
    BY <1>7 DEF Way
  <2>2. \A k \in 0..Len(stack) : At(ds, stack, k) = At(cs, stack, k)
    <3> TAKE k \in 0..Len(stack)
    <3>1. CASE k = 0
      BY <3>1 DEF At
    <3>2. CASE k # 0
      <4>1. stack[k] \in Indices(cs)
        BY <2>1, <3>2
      <4> QED
        BY <3>2, <4>1 DEF At, SameIndex
    <3> QED
      BY <3>1, <3>2
  <2>3. \A k \in 1..Len(stack) : k \in 0..Len(stack) /\ k - 1 \in 0..Len(stack)
    BY <2>1
  <2>4. Len(stack) \in 0..Len(stack)
    BY <2>1
  <2> QED
    BY <1>1, <1>7, <2>1, <2>2, <2>3, <2>4 DEF Way
<1> QED
  BY <1>1, <1>4, <1>5, <1>6, <1>7

(* Sharing out moves looks at the edges of the block only. *)
LEMMA CoverSame ==
  ASSUME NEW f, NEW g, NEW B, NEW s, Cover(f, B, s), \A i \in B : g[i] = f[i]
  PROVE  Cover(g, B, s)
BY DEF Cover

(* A tree is one with other counts. *)
LEMMA SameMovesKeep ==
  ASSUME NEW ns, NEW cs, NEW L, NEW root, NEW pos, Tree(ns, cs, L, root, pos),
         NEW ds, SameIndex(cs, ds), SameMoves(cs, ds)
  PROVE  Tree(ns, ds, L, root, pos)
<1>1. Vectors(ns, cs) /\ Links(ns, cs, L) /\ L \subseteq Indices(ns)
  BY DEF Tree, Links
<1>2. Vectors(ns, ds) /\ Indices(ds) = Indices(cs) /\ Links(ns, ds, L) /\ VisitedOnTop(ns, ds, L)
  BY <1>1, SameIndexKeeps DEF Tree
<1>3. \A n \in L : \A i \in BlockOf(ns, n) :
        /\ i \in Indices(cs)
        /\ ds[i + 1].index = cs[i + 1].index /\ ds[i + 1].semimove = cs[i + 1].semimove
  BY <1>1, LinkFacts DEF SameIndex, SameMoves
<1>4. Stands(ns, ds, L, root, pos)
  <2>1. \A n \in L : \A i \in BlockOf(ns, n) : Fits(pos, pos[n], ds[i + 1])
    BY <1>3 DEF Tree, Stands, Fits
  <2> QED
    BY <1>3, <2>1 DEF Tree, Stands
<1>5. Covers(ns, ds, L, pos)
  <2>1. \A n \in L : \A i \in BlockOf(ns, n) : EdgesOf(ds)[i] = EdgesOf(cs)[i]
    BY <1>2, <1>3 DEF EdgesOf
  <2>2. \A n \in L : is_expanded(ns[n + 1]) => Cover(EdgesOf(cs), BlockOf(ns, n), pos[n])
    BY DEF Tree, Covers
  <2>3. \A n \in L : is_expanded(ns[n + 1]) => Cover(EdgesOf(ds), BlockOf(ns, n), pos[n])
    BY <2>1, <2>2, CoverSame
  <2> QED
    BY <2>3 DEF Covers
<1> QED
  BY <1>2, <1>4, <1>5 DEF Tree

(* Counts add up whatever the edges say. *)
LEMMA SameSimsKeep ==
  ASSUME NEW ns, NEW cs, Vectors(ns, cs), NEW L, Links(ns, cs, L), NEW ds, SameIndex(cs, ds), SameSims(cs, ds),
         NEW total, NEW rolled, NEW m, CountedBut(ns, cs, L, total, rolled, m)
  PROVE  /\ CountedBut(ns, ds, L, total, rolled, m)
         /\ \A n \in Indices(ns) : BlockSims(ds, ns[n + 1]) = BlockSims(cs, ns[n + 1])
<1>1. Indices(ds) = Indices(cs) /\ Len(ds) = Len(cs) /\ Len(cs) \in Nat
  BY SameIndexKeeps, VectorFacts DEF SameIndex
<1>2. \A n \in Indices(ns) : BlockSims(ds, ns[n + 1]) = BlockSims(cs, ns[n + 1])
  <2> TAKE n \in Indices(ns)
  <2>1. \A i \in BlockOf(ns, n) : ds[i + 1].sim_count = cs[i + 1].sim_count
    BY VectorFacts DEF SameSims
  <2>2. Len(ds) \in Nat /\ Len(cs) <= Len(ds)
    BY <1>1
  <2> QED
    BY <2>1, <2>2, BlockSimsAlike
<1>3. \A i \in Indices(cs) : ds[i + 1].sim_count = cs[i + 1].sim_count /\ ds[i + 1].index = cs[i + 1].index
                             /\ cs[i + 1].index \in Indices(ns)
  BY VectorFacts DEF SameSims, SameIndex
<1>4. \A n \in L : \A i \in BlockOf(ns, n) : i \in Indices(cs)
  BY LinkFacts
<1>5. 0 \in Indices(ns) /\ ns[1] = ns[0 + 1]
  BY DEF Vectors
<1>6. BlockSims(ds, ns[1]) = BlockSims(cs, ns[1])
  BY <1>2, <1>5
<1>7. \A n \in L : \A i \in BlockOf(ns, n) :
        CountAt(ns, ds, rolled, m, ds[i + 1])
  <2> TAKE n \in L
  <2> TAKE i \in BlockOf(ns, n)
  <2>1. i \in Indices(cs)
    BY <1>4
  <2>2. BlockSims(ds, ns[cs[i + 1].index + 1]) = BlockSims(cs, ns[cs[i + 1].index + 1])
    BY <1>2, <1>3, <2>1
  <2>3. CountAt(ns, cs, rolled, m, cs[i + 1])
    BY DEF CountedBut
  <2> QED
    BY <1>3, <2>1, <2>2, <2>3 DEF CountAt
<1> QED
  BY <1>1, <1>2, <1>3, <1>6, <1>7 DEF CountedBut

-----------------------------------------------------------------------------
(* Swaps, removals and new blocks.                                         *)

(* Children may move, and dead ends go. *)
Moved(s, f, B, g, C, from) ==
  /\ \A i \in C : from[i] \in B /\ g[i] = f[from[i]]
  /\ \A i, j \in C : from[i] = from[j] => i = j
  /\ \A j \in B : Through(s, f[j]) # {} => \E i \in C : from[i] = j

(* A block still covers the moves when its children are moved about. *)
LEMMA CoverMoved ==
  ASSUME NEW s, NEW f, NEW B, Cover(f, B, s), NEW g, NEW C, NEW from, Moved(s, f, B, g, C, from)
  PROVE  Cover(g, C, s)
<1>1. ASSUME NEW m \in Moves(s) PROVE \E i \in C : m \in Through(s, g[i])
  <2>1. PICK j \in B : m \in Through(s, f[j])
    BY DEF Cover
  <2>2. PICK i \in C : from[i] = j
    BY <2>1 DEF Moved
  <2> QED
    BY <2>1, <2>2 DEF Moved
<1>2. ASSUME NEW i \in C, NEW j \in C, i # j PROVE Through(s, g[i]) \cap Through(s, g[j]) = {}
  <2>1. from[i] \in B /\ from[j] \in B /\ from[i] # from[j] /\ g[i] = f[from[i]] /\ g[j] = f[from[j]]
    BY <1>2 DEF Moved
  <2> QED
    BY <2>1 DEF Cover
<1> QED
  BY <1>1, <1>2 DEF Cover

(* What a swap leaves where. *)
LEMMA SwapFields ==
  ASSUME NEW cs \in Seq(ChildRecord), NEW a \in Indices(cs), NEW b \in Indices(cs)
  PROVE  /\ Swap(cs, a, b) \in Seq(ChildRecord)
         /\ Len(Swap(cs, a, b)) = Len(cs)
         /\ Swap(cs, a, b)[a + 1] = cs[b + 1]
         /\ Swap(cs, a, b)[b + 1] = cs[a + 1]
         /\ \A i \in Indices(cs) : i # a /\ i # b => Swap(cs, a, b)[i + 1] = cs[i + 1]
<1>1. a + 1 \in 1..Len(cs) /\ b + 1 \in 1..Len(cs) /\ a \in Nat /\ b \in Nat
  BY DEF Indices
<1>2. cs[a + 1] \in ChildRecord /\ cs[b + 1] \in ChildRecord
  BY <1>1
<1>3. \A i \in Indices(cs) : i + 1 \in 1..Len(cs) /\ i \in Nat
  BY DEF Indices
<1> QED
  BY <1>1, <1>2, <1>3 DEF Swap

(* Two unvisited children of a node may be swapped. *)
LEMMA SwapKeeps ==
  ASSUME NEW ns, NEW cs, NEW L, NEW root, NEW pos, Tree(ns, cs, L, root, pos),
         NEW m \in L, NEW a \in BlockOf(ns, m), NEW b \in BlockOf(ns, m),
         cs[a + 1].index = 0, cs[b + 1].index = 0,
         cs[a + 1].sim_count = 0, cs[b + 1].sim_count = 0
  PROVE  /\ Tree(ns, Swap(cs, a, b), L, root, pos)
         /\ SameIndex(cs, Swap(cs, a, b))
         /\ SameSims(cs, Swap(cs, a, b))
<1> DEFINE ds == Swap(cs, a, b)
<1>1. Vectors(ns, cs) /\ Links(ns, cs, L) /\ L \subseteq Indices(ns) /\ cs \in Seq(ChildRecord)
  BY DEF Tree, Links, Vectors
<1>2. a \in Indices(cs) /\ b \in Indices(cs) /\ \A n \in L : BlockOf(ns, n) \subseteq Indices(cs)
  BY <1>1, VectorFacts
<1>3. /\ ds \in Seq(ChildRecord) /\ Len(ds) = Len(cs)
      /\ ds[a + 1] = cs[b + 1] /\ ds[b + 1] = cs[a + 1]
      /\ \A i \in Indices(cs) : i # a /\ i # b => ds[i + 1] = cs[i + 1]
  BY <1>1, <1>2, SwapFields
<1> HIDE DEF ds
<1>4. SameIndex(cs, ds) /\ SameSims(cs, ds)
  BY <1>3 DEF SameIndex, SameSims
<1>5. Vectors(ns, ds) /\ Indices(ds) = Indices(cs) /\ Links(ns, ds, L) /\ VisitedOnTop(ns, ds, L)
  BY <1>1, <1>4, SameIndexKeeps DEF Tree
<1>6. Stands(ns, ds, L, root, pos)
  <2>1. \A n \in L : \A i \in BlockOf(ns, n) : Fits(pos, pos[n], cs[i + 1])
    BY DEF Tree, Stands
  <2>2. \A n \in L : \A i \in BlockOf(ns, n) : i = a \/ i = b => n = m
    BY <1>1, LinkFacts
  <2>3. \A n \in L : \A i \in BlockOf(ns, n) : Fits(pos, pos[n], ds[i + 1])
    BY <1>2, <1>3, <2>1, <2>2
  <2>4. GETTER = "A" => \A n \in L : \A i \in BlockOf(ns, n) : Len(cs[i + 1].semimove) = 1
    BY DEF Tree, Stands
  <2>5. GETTER = "A" => \A n \in L : \A i \in BlockOf(ns, n) : Len(ds[i + 1].semimove) = 1
    BY <1>2, <1>3, <2>2, <2>4
  <2> QED
    BY <2>3, <2>5 DEF Tree, Stands
<1>7. Covers(ns, ds, L, pos)
  <2> SUFFICES ASSUME NEW n \in L, is_expanded(ns[n + 1])
               PROVE  Cover(EdgesOf(ds), BlockOf(ns, n), pos[n])
    BY DEF Covers
  <2>1. Cover(EdgesOf(cs), BlockOf(ns, n), pos[n])
    BY DEF Tree, Covers
  <2>2. \A i \in BlockOf(ns, n) : /\ EdgesOf(cs)[i] = cs[i + 1].semimove
                                  /\ EdgesOf(ds)[i] = ds[i + 1].semimove
    BY <1>2, <1>5 DEF EdgesOf
  <2>3. CASE n = m
    <3> DEFINE from == [i \in BlockOf(ns, n) |-> IF i = a THEN b ELSE IF i = b THEN a ELSE i]
    <3>1. \A i \in BlockOf(ns, n) : from[i] \in BlockOf(ns, n) /\ EdgesOf(ds)[i] = EdgesOf(cs)[from[i]]
      BY <1>2, <1>3, <2>2, <2>3
    <3>2. \A i, j \in BlockOf(ns, n) : from[i] = from[j] => i = j
      OBVIOUS
    <3>3. \A j \in BlockOf(ns, n) : \E i \in BlockOf(ns, n) : from[i] = j
      <4> TAKE j \in BlockOf(ns, n)
      <4>1. from[from[j]] = j /\ from[j] \in BlockOf(ns, n)
        BY <2>3
      <4> QED
        BY <4>1
    <3> HIDE DEF from
    <3>4. Moved(pos[n], EdgesOf(cs), BlockOf(ns, n), EdgesOf(ds), BlockOf(ns, n), from)
      BY <3>1, <3>2, <3>3 DEF Moved
    <3> QED
      BY <2>1, <3>4, CoverMoved
  <2>4. CASE n # m
    <3>1. a \notin BlockOf(ns, n) /\ b \notin BlockOf(ns, n)
      BY <1>1, <2>4, LinkFacts
    <3>2. \A i \in BlockOf(ns, n) : EdgesOf(ds)[i] = EdgesOf(cs)[i]
      BY <1>2, <1>3, <2>2, <3>1
    <3> QED
      BY <2>1, <3>2, CoverSame
  <2> QED
    BY <2>3, <2>4
<1>8. Tree(ns, ds, L, root, pos)
  BY <1>5, <1>6, <1>7 DEF Tree
<1> QED
  BY <1>4, <1>8 DEF ds

(* A node that is not terminal has moves. *)
LEMMA MovesLeft ==
  ASSUME NEW ns, NEW L, NEW pos, Statuses(ns, L, pos), NEW n \in L, ~is_terminal(ns[n + 1])
  PROVE  Moves(pos[n]) # {}
BY DEF Statuses, TrueStatus, is_terminal, has_nodal_successor, Rests

Cuts(ns, m, ms) ==
  /\ ms \in Seq(NodeRecord)
  /\ Len(ms) = Len(ns)
  /\ \A n \in Indices(ns) : n # m => ms[n + 1] = ns[n + 1]
  /\ ms[m + 1] = [first |-> ns[m + 1].first, second |-> ns[m + 1].second - 1,
                  is_nodal |-> ns[m + 1].is_nodal, status |-> ns[m + 1].status]

(* An unvisited child at the end of its block may be cut off.              *)
LEMMA CutBlocks ==
  ASSUME NEW ns, NEW cs, NEW L, NEW root, NEW pos, Tree(ns, cs, L, root, pos),
         NEW m \in L, NEW last, last = ns[m + 1].second - 1, last \in BlockOf(ns, m),
         cs[last + 1].index = 0, Through(pos[m], cs[last + 1].semimove) = {},
         ~is_terminal(ns[m + 1]),
         NEW ms, Cuts(ns, m, ms)
  PROVE  /\ Indices(ms) = Indices(ns)
         /\ ms[m + 1].first # ms[m + 1].second
         /\ \A n \in Indices(ns) : n # m => BlockOf(ms, n) = BlockOf(ns, n)
         /\ BlockOf(ms, m) = BlockOf(ns, m) \ {last}
         /\ \A n \in Indices(ns) : BlockOf(ms, n) \subseteq BlockOf(ns, n)
         /\ \A n \in L : is_expanded(ms[n + 1]) <=> is_expanded(ns[n + 1])
         /\ \A n \in Indices(ns) : is_expanded(ms[n + 1]) => is_expanded(ns[n + 1])
         /\ \A n \in Indices(ns) : is_terminal(ms[n + 1]) <=> is_terminal(ns[n + 1])
<1>1. Vectors(ns, cs) /\ Links(ns, cs, L) /\ m \in Indices(ns)
  BY DEF Tree, Links
<1> DEFINE a == ns[m + 1].first
           b == ns[m + 1].second
<1>2. a \in Nat /\ b \in Nat /\ BlockOf(ns, m) = a..(b - 1) /\ a < b
  BY <1>1, VectorFacts DEF BlockOf, ChildIndices
<1>3. ms[m + 1].first = a /\ ms[m + 1].second = b - 1 /\ ms[m + 1].status = ns[m + 1].status
  BY DEF Cuts
<1>4. BlockOf(ms, m) = a..((b - 1) - 1)
  BY <1>3 DEF BlockOf, ChildIndices
<1> HIDE DEF a, b
<1>5. BlockOf(ms, m) = BlockOf(ns, m) \ {last}
  BY <1>2, <1>4 DEF b
<1>6. \A n \in Indices(ns) : n # m => BlockOf(ms, n) = BlockOf(ns, n) /\ ms[n + 1] = ns[n + 1]
  BY DEF Cuts, BlockOf
<1>7. PICK i \in BlockOf(ns, m) : i # last
  <2>1. Moves(pos[m]) # {}
    BY MovesLeft DEF Tree
  <2>2. is_expanded(ns[m + 1])
    BY <1>1, VectorFacts
  <2>3. Cover(EdgesOf(cs), BlockOf(ns, m), pos[m])
    BY <2>2 DEF Tree, Covers
  <2>4. PICK i \in BlockOf(ns, m) : Through(pos[m], EdgesOf(cs)[i]) # {}
    BY <2>1, <2>3 DEF Cover
  <2>5. last \in Indices(cs)
    BY <1>1, VectorFacts
  <2>6. EdgesOf(cs)[last] = cs[last + 1].semimove
    BY <2>5 DEF EdgesOf
  <2> QED
    BY <2>4, <2>6
<1>8. a < b - 1
  BY <1>2, <1>7 DEF b
<1>9. Indices(ms) = Indices(ns)
  BY DEF Cuts, Indices
<1>10. is_expanded(ms[m + 1]) /\ is_expanded(ns[m + 1]) /\ a # b - 1
  BY <1>2, <1>3, <1>8 DEF is_expanded, a, b
<1>11. \A n \in Indices(ns) : is_expanded(ms[n + 1]) <=> is_expanded(ns[n + 1])
  BY <1>6, <1>10
<1>12. \A n \in Indices(ns) : is_terminal(ms[n + 1]) <=> is_terminal(ns[n + 1])
  BY <1>3, <1>6 DEF is_terminal
<1>13. \A n \in L : n \in Indices(ns)
  BY <1>1, LinkFacts
<1> QED
  BY <1>3, <1>5, <1>6, <1>9, <1>10, <1>11, <1>12, <1>13

(* Without a dead end behind its last child a tree stays a tree. *)
LEMMA CutKeepsTree ==
  ASSUME NEW ns, NEW cs, NEW L, NEW root, NEW pos, Tree(ns, cs, L, root, pos),
         NEW m \in L, NEW last, last = ns[m + 1].second - 1, last \in BlockOf(ns, m),
         cs[last + 1].index = 0, Through(pos[m], cs[last + 1].semimove) = {},
         ~is_terminal(ns[m + 1]),
         NEW ms, Cuts(ns, m, ms)
  PROVE  Tree(ms, cs, L, root, pos)
<1>1. Vectors(ns, cs) /\ Links(ns, cs, L) /\ L \subseteq Indices(ns) /\ m \in Indices(ns)
  BY DEF Tree, Links
<1>2. /\ Indices(ms) = Indices(ns)
      /\ ms[m + 1].first # ms[m + 1].second
      /\ \A n \in Indices(ns) : n # m => BlockOf(ms, n) = BlockOf(ns, n)
      /\ BlockOf(ms, m) = BlockOf(ns, m) \ {last}
      /\ \A n \in Indices(ns) : BlockOf(ms, n) \subseteq BlockOf(ns, n)
      /\ \A n \in L : is_expanded(ms[n + 1]) <=> is_expanded(ns[n + 1])
      /\ \A n \in Indices(ns) : is_expanded(ms[n + 1]) => is_expanded(ns[n + 1])
      /\ \A n \in Indices(ns) : is_terminal(ms[n + 1]) <=> is_terminal(ns[n + 1])
  BY CutBlocks
<1>3. /\ \A n \in Indices(ns) : n # m => ms[n + 1] = ns[n + 1]
      /\ ms[m + 1].is_nodal = ns[m + 1].is_nodal /\ ms[m + 1].status = ns[m + 1].status
      /\ ms[m + 1].second = ns[m + 1].second - 1
      /\ ms \in Seq(NodeRecord) /\ Len(ms) = Len(ns)
  BY DEF Cuts
<1>4. Vectors(ms, cs)
  <2>1. \A n \in Indices(ns) : is_expanded(ms[n + 1]) => ms[n + 1].second <= Len(cs)
    <3> TAKE n \in Indices(ns)
    <3> HAVE is_expanded(ms[n + 1])
    <3>1. ns[n + 1].second <= Len(cs) /\ ns[n + 1].second \in Nat /\ Len(cs) \in Nat
      BY <1>1, <1>2, VectorFacts DEF Vectors
    <3> QED
      BY <1>3, <3>1
  <2>2. \A n \in Indices(ns) : \A i \in BlockOf(ms, n) : cs[i + 1].index # 0 => n < cs[i + 1].index
    BY <1>1, <1>2 DEF Vectors
  <2> QED
    BY <1>1, <1>2, <1>3, <2>1, <2>2 DEF Vectors
<1>5. Links(ms, cs, L)
  <2>1. L \subseteq Indices(ms) /\ 0 \in L
    BY <1>1, <1>2 DEF Links
  <2>2. \A n \in L : \A i \in BlockOf(ms, n) : cs[i + 1].index # 0 => cs[i + 1].index \in L
    BY <1>1, <1>2 DEF Links
  <2>3. \A n \in L \ {0} : \E p \in L : \E i \in BlockOf(ms, p) : cs[i + 1].index = n
    <3> TAKE n \in L \ {0}
    <3>1. PICK p \in L : \E i \in BlockOf(ns, p) : cs[i + 1].index = n
      BY <1>1 DEF Links
    <3>2. PICK i \in BlockOf(ns, p) : cs[i + 1].index = n
      BY <3>1
    <3>3. i \in BlockOf(ms, p)
      BY <1>1, <1>2, <3>2
    <3> QED
      BY <3>2, <3>3
  <2>4. \A p, q \in L : \A i \in BlockOf(ms, p) : i \in BlockOf(ms, q) => p = q
    BY <1>1, <1>2 DEF Links
  <2>5. \A p, q \in L : \A i \in BlockOf(ms, p), j \in BlockOf(ms, q) :
          cs[i + 1].index = cs[j + 1].index /\ cs[i + 1].index # 0 => i = j
    <3> TAKE p, q \in L
    <3>1. BlockOf(ms, p) \subseteq BlockOf(ns, p) /\ BlockOf(ms, q) \subseteq BlockOf(ns, q)
      BY <1>1, <1>2
    <3> QED
      BY <1>1, <3>1 DEF Links
  <2> QED
    BY <2>1, <2>2, <2>3, <2>4, <2>5 DEF Links
<1>6. Stands(ms, cs, L, root, pos)
  BY <1>1, <1>2 DEF Tree, Stands
<1>7. Covers(ms, cs, L, pos)
  <2> SUFFICES ASSUME NEW n \in L, is_expanded(ms[n + 1])
               PROVE  Cover(EdgesOf(cs), BlockOf(ms, n), pos[n])
    BY DEF Covers
  <2>1. Cover(EdgesOf(cs), BlockOf(ns, n), pos[n])
    BY <1>2 DEF Tree, Covers
  <2>2. CASE n # m
    BY <1>1, <1>2, <2>1, <2>2
  <2>3. CASE n = m
    <3> DEFINE from == [i \in BlockOf(ms, n) |-> i]
    <3>1. EdgesOf(cs)[last] = cs[last + 1].semimove
      BY <1>1, VectorFacts DEF EdgesOf
    <3>2. \A j \in BlockOf(ns, n) : Through(pos[n], EdgesOf(cs)[j]) # {} => j \in BlockOf(ms, n)
      BY <1>2, <2>3, <3>1
    <3>3. Moved(pos[n], EdgesOf(cs), BlockOf(ns, n), EdgesOf(cs), BlockOf(ms, n), from)
      BY <1>1, <1>2, <3>2 DEF Moved
    <3> HIDE DEF from
    <3> QED
      BY <2>1, <3>3, CoverMoved
  <2> QED
    BY <2>2, <2>3
<1>8. Statuses(ms, L, pos)
  <2>1. \A n \in L : /\ ms[n + 1].is_nodal = ns[n + 1].is_nodal /\ ms[n + 1].status = ns[n + 1].status
    BY <1>1, <1>3
  <2>2. \A n \in L : n # m => ms[n + 1] = ns[n + 1]
    BY <1>1, <1>3
  <2>3. Statuses(ns, L, pos)
    BY DEF Tree
  <2>4. \A n \in L : (is_terminal(ms[n + 1]) => ms[n + 1].first = ms[n + 1].second)
                     /\ (~is_terminal(ms[n + 1]) => ms[n + 1].first # ms[n + 1].second)
    BY <1>1, <1>2, <2>2, <2>3 DEF Statuses
  <2> QED
    BY <2>1, <2>3, <2>4 DEF Statuses
<1>9. VisitedOnTop(ms, cs, L)
  <2>1. \A n \in L : BlockOf(ms, n) \subseteq BlockOf(ns, n)
    BY <1>1, <1>2
  <2> QED
    BY <2>1 DEF Tree, VisitedOnTop
<1> QED
  BY <1>4, <1>5, <1>6, <1>7, <1>8, <1>9 DEF Tree

(* What was cut off counts for nothing. *)
LEMMA CutKeepsCounts ==
  ASSUME NEW ns, NEW cs, NEW L, NEW root, NEW pos, Tree(ns, cs, L, root, pos),
         NEW m \in L, NEW last, last = ns[m + 1].second - 1, last \in BlockOf(ns, m),
         cs[last + 1].index = 0, Through(pos[m], cs[last + 1].semimove) = {},
         ~is_terminal(ns[m + 1]), cs[last + 1].sim_count = 0,
         NEW ms, Cuts(ns, m, ms)
  PROVE  /\ \A n \in Indices(ns) : BlockSims(cs, ms[n + 1]) = BlockSims(cs, ns[n + 1])
         /\ \A total, rolled, e : CountedBut(ns, cs, L, total, rolled, e) => CountedBut(ms, cs, L, total, rolled, e)
         /\ \A stack, n : Way(ns, cs, L, stack, n) => Way(ms, cs, L, stack, n)
<1>1. Vectors(ns, cs) /\ Links(ns, cs, L) /\ L \subseteq Indices(ns) /\ m \in Indices(ns) /\ 0 \in Indices(ns)
  BY DEF Tree, Links, Vectors
<1>2. /\ Indices(ms) = Indices(ns)
      /\ \A n \in Indices(ns) : n # m => BlockOf(ms, n) = BlockOf(ns, n)
      /\ BlockOf(ms, m) = BlockOf(ns, m) \ {last}
      /\ \A n \in Indices(ns) : BlockOf(ms, n) \subseteq BlockOf(ns, n)
      /\ \A n \in Indices(ns) : is_terminal(ms[n + 1]) <=> is_terminal(ns[n + 1])
  BY CutBlocks
<1>3. /\ \A n \in Indices(ns) : n # m => ms[n + 1] = ns[n + 1]
      /\ ms[m + 1].is_nodal = ns[m + 1].is_nodal
      /\ ms[m + 1].first = ns[m + 1].first /\ ms[m + 1].second = ns[m + 1].second - 1
  BY DEF Cuts
<1>4. BlockSims(cs, ms[m + 1]) = BlockSims(cs, ns[m + 1])
  <2> DEFINE f == SimCounts(cs)
             a == ns[m + 1].first
  <2>1. a \in Nat /\ ns[m + 1].second \in Nat /\ a <= last /\ last \in Indices(cs) /\ last \in Nat
    BY <1>1, VectorFacts
  <2>2. PICK k \in Nat : last = a + k
    <3>1. last - a \in Nat /\ last = a + (last - a)
      BY <2>1
    <3> QED
      BY <3>1
  <2>3. ns[m + 1].second = a + (k + 1) /\ ms[m + 1].second = a + k
    BY <1>3, <2>1, <2>2
  <2>4. \A i \in a..(a + k) : f[i] \in Nat
    <3> TAKE i \in a..(a + k)
    <3>1. i \in BlockOf(ns, m)
      BY <2>1, <2>3 DEF BlockOf, ChildIndices
    <3>2. i \in Indices(cs)
      BY <1>1, <3>1, VectorFacts
    <3>3. f[i] = cs[i + 1].sim_count
      BY <3>2 DEF SimCounts, Indices
    <3> QED
      BY <1>1, <3>2, <3>3, VectorFacts
  <2>5. f[a + k] = 0
    BY <2>1, <2>2 DEF SimCounts, Indices
  <2>6. /\ BlockSims(cs, ns[m + 1]) = SumOver(f, a..((a + (k + 1)) - 1))
        /\ BlockSims(cs, ms[m + 1]) = SumOver(f, a..((a + k) - 1))
    BY <1>3, <2>3 DEF BlockSims, ChildIndices
  <2>7. a \in Int /\ a + k \in Int
    BY <2>1, <2>2
  <2> HIDE DEF f, a
  <2>8. SumOver(f, a..((a + (k + 1)) - 1)) = SumOver(f, a..((a + k) - 1)) + f[a + k]
    BY <2>4, <2>7, RangeSumNext
  <2>9. SumOver(f, a..((a + k) - 1)) \in Nat
    <3>1. \A i \in a..((a + k) - 1) : f[i] \in Nat
      BY <2>4, <2>7
    <3> QED
      BY <2>7, <3>1, RangeSumNat
  <2> QED
    BY <2>5, <2>6, <2>8, <2>9
<1>5. \A n \in Indices(ns) : BlockSims(cs, ms[n + 1]) = BlockSims(cs, ns[n + 1])
  BY <1>3, <1>4
<1>6. \A n \in Indices(ns) : \A rolled, r : Surplus(rolled, r, ms[n + 1]) = Surplus(rolled, r, ns[n + 1])
  BY <1>3 DEF Surplus
<1>7. ASSUME NEW total, NEW rolled, NEW e, CountedBut(ns, cs, L, total, rolled, e)
      PROVE  CountedBut(ms, cs, L, total, rolled, e)
  <2>1. \A i \in Indices(cs) : cs[i + 1].index \in Indices(ns)
    BY <1>1, VectorFacts
  <2>2. \A n \in L : \A i \in BlockOf(ms, n) : i \in BlockOf(ns, n) /\ i \in Indices(cs)
    BY <1>1, <1>2, VectorFacts
  <2>3. ~is_terminal(ms[1]) =>
          (total - BlockSims(cs, ms[1])) - Extra(e, 0) \in Surplus(rolled, TRUE, ms[1])
    <3>1. /\ is_terminal(ms[0 + 1]) <=> is_terminal(ns[0 + 1])
          /\ BlockSims(cs, ms[0 + 1]) = BlockSims(cs, ns[0 + 1])
          /\ Surplus(rolled, TRUE, ms[0 + 1]) = Surplus(rolled, TRUE, ns[0 + 1])
      BY <1>1, <1>2, <1>5, <1>6
    <3>2. ~is_terminal(ns[1]) => (total - BlockSims(cs, ns[1])) - Extra(e, 0) \in Surplus(rolled, TRUE, ns[1])
      BY <1>7 DEF CountedBut
    <3>3. ms[0 + 1] = ms[1] /\ ns[0 + 1] = ns[1]
      OBVIOUS
    <3> QED
      BY <3>1, <3>2, <3>3
  <2>4. \A n \in L : \A i \in BlockOf(ms, n) :
          CountAt(ms, cs, rolled, e, cs[i + 1])
    <3> TAKE n \in L
    <3> TAKE i \in BlockOf(ms, n)
    <3> DEFINE c == cs[i + 1].index
    <3>1. c \in Indices(ns) /\ i \in BlockOf(ns, n)
      BY <2>1, <2>2
    <3>2. /\ is_terminal(ms[c + 1]) <=> is_terminal(ns[c + 1])
          /\ BlockSims(cs, ms[c + 1]) = BlockSims(cs, ns[c + 1])
          /\ Surplus(rolled, FALSE, ms[c + 1]) = Surplus(rolled, FALSE, ns[c + 1])
      BY <1>2, <1>5, <1>6, <3>1
    <3>3. CountAt(ns, cs, rolled, e, cs[i + 1])
      BY <1>7, <3>1 DEF CountedBut
    <3> QED
      BY <3>2, <3>3 DEF CountAt
  <2> QED
    BY <1>7, <2>3, <2>4 DEF CountedBut
<1>8. ASSUME NEW stack, NEW n, Way(ns, cs, L, stack, n)
      PROVE  Way(ms, cs, L, stack, n)
  <2>1. \A k \in 1..Len(stack) : stack[k] # last
    <3> TAKE k \in 1..Len(stack)
    <3>1. At(cs, stack, k) # 0
      BY <1>8 DEF Way
    <3>2. At(cs, stack, k) = cs[stack[k] + 1].index
      BY DEF At
    <3> QED
      BY <3>1, <3>2
  <2>2. \A k \in 1..Len(stack) : /\ At(cs, stack, k - 1) \in L
                                 /\ stack[k] \in BlockOf(ns, At(cs, stack, k - 1))
    BY <1>8 DEF Way
  <2>3. \A k \in 1..Len(stack) : stack[k] \in BlockOf(ms, At(cs, stack, k - 1))
    BY <1>1, <1>2, <2>1, <2>2
  <2> QED
    BY <1>8, <2>3 DEF Way
<1> QED
  BY <1>5, <1>7, <1>8

(* A node gets a block of its own behind all others. *)
NewChild(e) == [semimove |-> e, index |-> 0, sim_count |-> 0]
Expands(ns, cs, m, acts, ms, ds) ==
  /\ ms \in Seq(NodeRecord) /\ ds \in Seq(ChildRecord)
  /\ Len(ms) = Len(ns) /\ Len(ds) = Len(cs) + Len(acts)
  /\ \A n \in Indices(ns) : n # m => ms[n + 1] = ns[n + 1]
  /\ ms[m + 1] = [first |-> Len(cs), second |-> Len(cs) + Len(acts),
                  is_nodal |-> ns[m + 1].is_nodal, status |-> ns[m + 1].status]
  /\ \A i \in Indices(cs) : ds[i + 1] = cs[i + 1]
  /\ \A k \in 1..Len(acts) : ds[Len(cs) + k] = NewChild(acts[k])

Expandable(ns, L, pos, m, acts) ==
  /\ m \in L /\ ~is_expanded(ns[m + 1]) /\ ~is_terminal(ns[m + 1])
  /\ Lists(pos[m], acts) /\ Len(acts) # 0

Widened(ns, cs, m, acts, ms, ds) ==
  /\ Indices(ms) = Indices(ns) /\ Indices(cs) \subseteq Indices(ds)
  /\ Len(acts) \in Nat \ {0} /\ Len(ds) = Len(cs) + Len(acts)
  /\ \A n \in Indices(ns) : n # m => ms[n + 1] = ns[n + 1] /\ BlockOf(ms, n) = BlockOf(ns, n)
  /\ ms[m + 1].first = Len(cs) /\ ms[m + 1].second = Len(cs) + Len(acts)
  /\ ms[m + 1].is_nodal = ns[m + 1].is_nodal /\ ms[m + 1].status = ns[m + 1].status
  /\ BlockOf(ns, m) = {}
  /\ BlockOf(ms, m) = Len(cs)..(Len(cs) + Len(acts) - 1)
  /\ \A i \in BlockOf(ms, m) :
       /\ i \in Indices(ds) /\ i \notin Indices(cs)
       /\ i - Len(cs) + 1 \in 1..Len(acts)
       /\ ds[i + 1] = NewChild(acts[i - Len(cs) + 1])
       /\ ds[i + 1].index = 0 /\ ds[i + 1].sim_count = 0
  /\ \A i \in Indices(ds) : i \in Indices(cs) \/ i \in BlockOf(ms, m)
  /\ \A i \in Indices(cs) : ds[i + 1] = cs[i + 1]
  /\ \A n \in Indices(ns) : BlockOf(ns, n) \subseteq BlockOf(ms, n)
  /\ is_expanded(ms[m + 1])

(* What that leaves where. *)
LEMMA ExpandBlocks ==
  ASSUME NEW ns, NEW cs, NEW L, NEW pos, Vectors(ns, cs), Links(ns, cs, L),
         NEW m, NEW acts, Expandable(ns, L, pos, m, acts), NEW ms, NEW ds, Expands(ns, cs, m, acts, ms, ds)
  PROVE  Widened(ns, cs, m, acts, ms, ds)
<1>1. m \in Indices(ns) /\ Len(cs) \in Nat /\ ns[m + 1].first \in Nat /\ ns[m + 1].second \in Nat
  BY VectorFacts, LinkFacts DEF Expandable
<1>2. Len(acts) \in Nat \ {0}
  BY DEF Expandable, Lists
<1>3. Len(ms) = Len(ns) /\ Len(ds) = Len(cs) + Len(acts)
  BY DEF Expands
<1>4. Indices(ms) = Indices(ns) /\ Indices(cs) \subseteq Indices(ds)
  BY <1>1, <1>2, <1>3 DEF Indices
<1>5. \A n \in Indices(ns) : n # m => ms[n + 1] = ns[n + 1] /\ BlockOf(ms, n) = BlockOf(ns, n)
  BY DEF Expands, BlockOf
<1>6. /\ ms[m + 1].first = Len(cs) /\ ms[m + 1].second = Len(cs) + Len(acts)
      /\ ms[m + 1].is_nodal = ns[m + 1].is_nodal /\ ms[m + 1].status = ns[m + 1].status
  BY DEF Expands
<1>7. BlockOf(ns, m) = {}
  BY <1>1 DEF Expandable, is_expanded, BlockOf, ChildIndices
<1>8. BlockOf(ms, m) = Len(cs)..(Len(cs) + Len(acts) - 1)
  BY <1>6 DEF BlockOf, ChildIndices
<1>9. ASSUME NEW i \in BlockOf(ms, m)
      PROVE  /\ i \in Indices(ds) /\ i \notin Indices(cs)
             /\ i - Len(cs) + 1 \in 1..Len(acts)
             /\ ds[i + 1] = NewChild(acts[i - Len(cs) + 1])
             /\ ds[i + 1].index = 0 /\ ds[i + 1].sim_count = 0
  <2>1. i \in Indices(ds) /\ i \notin Indices(cs)
    BY <1>1, <1>2, <1>3, <1>8 DEF Indices
  <2>2. i - Len(cs) + 1 \in 1..Len(acts) /\ Len(cs) + (i - Len(cs) + 1) = i + 1
    BY <1>1, <1>2, <1>8
  <2>3. ds[Len(cs) + (i - Len(cs) + 1)] = NewChild(acts[i - Len(cs) + 1])
    BY <2>2 DEF Expands
  <2> QED
    BY <2>1, <2>2, <2>3 DEF NewChild
<1>10. \A i \in Indices(ds) : i \in Indices(cs) \/ i \in BlockOf(ms, m)
  BY <1>1, <1>2, <1>3, <1>8 DEF Indices
<1>11. \A i \in Indices(cs) : ds[i + 1] = cs[i + 1]
  BY DEF Expands
<1>12. \A n \in Indices(ns) : BlockOf(ns, n) \subseteq BlockOf(ms, n)
  BY <1>5, <1>7
<1>13. is_expanded(ms[m + 1])
  BY <1>1, <1>2, <1>6 DEF is_expanded
<1> QED
  BY <1>2, <1>3, <1>4, <1>5, <1>6, <1>7, <1>8, <1>9, <1>10, <1>11, <1>12, <1>13 DEF Widened

(* It is a tree again. *)
LEMMA ExpandKeepsTree ==
  ASSUME NEW ns, NEW cs, NEW L, NEW root, NEW pos, Tree(ns, cs, L, root, pos),
         NEW m, NEW acts, Expandable(ns, L, pos, m, acts), NEW ms, NEW ds, Expands(ns, cs, m, acts, ms, ds)
  PROVE  Tree(ms, ds, L, root, pos)
<1>1. Vectors(ns, cs) /\ Links(ns, cs, L) /\ L \subseteq Indices(ns) /\ m \in L /\ m \in Indices(ns)
  BY DEF Tree, Links, Expandable
<1>20. Widened(ns, cs, m, acts, ms, ds)
  BY <1>1, ExpandBlocks
<1>2. /\ Indices(ms) = Indices(ns) /\ Indices(cs) \subseteq Indices(ds)
      /\ Len(acts) \in Nat \ {0} /\ Len(ds) = Len(cs) + Len(acts)
      /\ \A n \in Indices(ns) : n # m => ms[n + 1] = ns[n + 1] /\ BlockOf(ms, n) = BlockOf(ns, n)
      /\ ms[m + 1].first = Len(cs) /\ ms[m + 1].second = Len(cs) + Len(acts)
      /\ ms[m + 1].is_nodal = ns[m + 1].is_nodal /\ ms[m + 1].status = ns[m + 1].status
      /\ BlockOf(ns, m) = {}
      /\ BlockOf(ms, m) = Len(cs)..(Len(cs) + Len(acts) - 1)
      /\ \A i \in BlockOf(ms, m) :
           /\ i \in Indices(ds) /\ i \notin Indices(cs)
           /\ i - Len(cs) + 1 \in 1..Len(acts)
           /\ ds[i + 1] = NewChild(acts[i - Len(cs) + 1])
           /\ ds[i + 1].index = 0 /\ ds[i + 1].sim_count = 0
      /\ \A i \in Indices(ds) : i \in Indices(cs) \/ i \in BlockOf(ms, m)
      /\ \A i \in Indices(cs) : ds[i + 1] = cs[i + 1]
      /\ \A n \in Indices(ns) : BlockOf(ns, n) \subseteq BlockOf(ms, n)
      /\ is_expanded(ms[m + 1])
  BY <1>20 DEF Widened
<1>3. Len(cs) \in Nat /\ Len(ms) = Len(ns) /\ ms \in Seq(NodeRecord) /\ ds \in Seq(ChildRecord)
  BY <1>1, VectorFacts DEF Expands
<1>4. \A n \in Indices(ns) : \A i \in BlockOf(ns, n) : i \in Indices(cs) /\ ds[i + 1] = cs[i + 1]
  BY <1>1, <1>2, VectorFacts
<1>5. Vectors(ms, ds)
  <2>1. \A n \in Indices(ns) : is_expanded(ms[n + 1]) => ms[n + 1].second <= Len(ds)
    <3> TAKE n \in Indices(ns)
    <3> HAVE is_expanded(ms[n + 1])
    <3>1. CASE n = m
      BY <1>2, <3>1
    <3>2. CASE n # m
      <4>1. ns[n + 1].second <= Len(cs) /\ ns[n + 1].second \in Nat
        BY <1>1, <1>2, <3>2, VectorFacts DEF Vectors
      <4> QED
        BY <1>2, <1>3, <3>2, <4>1
    <3> QED
      BY <3>1, <3>2
  <2>2. \A i \in Indices(ds) : ds[i + 1].index < Len(ns)
    <3>1. 0 < Len(ns)
      BY <1>1, VectorFacts
    <3> QED
      BY <1>1, <1>2, <3>1 DEF Vectors
  <2>3. \A n \in Indices(ns) : \A i \in BlockOf(ms, n) : ds[i + 1].index # 0 => n < ds[i + 1].index
    <3> TAKE n \in Indices(ns)
    <3>1. CASE n = m
      BY <1>2, <3>1
    <3>2. CASE n # m
      <4>1. \A i \in BlockOf(ns, n) : cs[i + 1].index # 0 => n < cs[i + 1].index
        BY <1>1 DEF Vectors
      <4>2. BlockOf(ms, n) = BlockOf(ns, n)
        BY <1>2, <3>2
      <4> QED
        BY <1>4, <4>1, <4>2
    <3> QED
      BY <3>1, <3>2
  <2> QED
    BY <1>1, <1>2, <1>3, <2>1, <2>2, <2>3 DEF Vectors
<1>6. Links(ms, ds, L)
  <2>1. L \subseteq Indices(ms) /\ 0 \in L
    BY <1>1, <1>2 DEF Links
  <2>2. \A n \in L : \A i \in BlockOf(ms, n) : ds[i + 1].index # 0 => n # m /\ i \in BlockOf(ns, n) /\ ds[i + 1] = cs[i + 1]
    BY <1>1, <1>2, <1>4
  <2>3. \A n \in L : \A i \in BlockOf(ms, n) : ds[i + 1].index # 0 => ds[i + 1].index \in L
    BY <1>1, <2>2 DEF Links
  <2>4. \A n \in L \ {0} : \E p \in L : \E i \in BlockOf(ms, p) : ds[i + 1].index = n
    <3> TAKE n \in L \ {0}
    <3>1. PICK p \in L : \E i \in BlockOf(ns, p) : cs[i + 1].index = n
      BY <1>1 DEF Links
    <3>2. PICK i \in BlockOf(ns, p) : cs[i + 1].index = n
      BY <3>1
    <3>3. i \in BlockOf(ms, p) /\ ds[i + 1] = cs[i + 1]
      BY <1>1, <1>2, <1>4
    <3> QED
      BY <3>2, <3>3
  <2>5. \A p, q \in L : \A i \in BlockOf(ms, p) : i \in BlockOf(ms, q) => p = q
    <3> TAKE p, q \in L
    <3>1. p \in Indices(ns) /\ q \in Indices(ns)
      BY <1>1
    <3>2. CASE p # m /\ q # m
      BY <1>1, <1>2, <3>1, <3>2 DEF Links
    <3>3. CASE p = m /\ q # m
      BY <1>2, <1>4, <3>1, <3>3
    <3>4. CASE p # m /\ q = m
      BY <1>2, <1>4, <3>1, <3>4
    <3> QED
      BY <3>2, <3>3, <3>4
  <2>6. \A p, q \in L : \A i \in BlockOf(ms, p), j \in BlockOf(ms, q) :
          ds[i + 1].index = ds[j + 1].index /\ ds[i + 1].index # 0 => i = j
    BY <1>1, <2>2 DEF Links
  <2> QED
    BY <2>1, <2>3, <2>4, <2>5, <2>6 DEF Links
<1> DEFINE s == pos[m]
<1>7. s \in State /\ Lists(s, acts) /\ acts \in Seq(Semimoves[s])
  BY <1>1 DEF Tree, Stands, Expandable, Lists
<1>8. \A k \in 1..Len(acts) : acts[k] \in Semimoves[s]
  BY <1>7
<1>9. Stands(ms, ds, L, root, pos)
  <2>1. \A n \in L : \A i \in BlockOf(ms, n) : Fits(pos, pos[n], ds[i + 1])
    <3> TAKE n \in L
    <3> TAKE i \in BlockOf(ms, n)
    <3>1. CASE n # m
      <4>1. i \in BlockOf(ns, n) /\ ds[i + 1] = cs[i + 1]
        BY <1>1, <1>2, <1>4, <3>1
      <4> QED
        BY <4>1 DEF Tree, Stands
    <3>2. CASE n = m
      <4> DEFINE e == acts[i - Len(cs) + 1]
      <4>3. i - Len(cs) + 1 \in 1..Len(acts) /\ ds[i + 1] = NewChild(e)
        BY <1>2, <3>2
      <4>1. e \in Semimoves[s] /\ ds[i + 1].semimove = e /\ ds[i + 1].index = 0
        BY <1>8, <4>3 DEF NewChild
      <4>2. Leads(s, e, Successor[s][e]) /\ Successor[s][e] \in State
        BY <1>7, <4>1, SemimoveLeads, SemimoveFacts
      <4> QED
        BY <3>2, <4>1, <4>2 DEF Fits
    <3> QED
      BY <3>1, <3>2
  <2>2. ASSUME GETTER = "A" PROVE \A n \in L : \A i \in BlockOf(ms, n) : Len(ds[i + 1].semimove) = 1
    <3> TAKE n \in L
    <3> TAKE i \in BlockOf(ms, n)
    <3>1. CASE n # m
      <4>1. i \in BlockOf(ns, n) /\ ds[i + 1] = cs[i + 1]
        BY <1>1, <1>2, <1>4, <3>1
      <4> QED
        BY <2>2, <4>1 DEF Tree, Stands
    <3>2. CASE n = m
      <4>3. i - Len(cs) + 1 \in 1..Len(acts) /\ ds[i + 1] = NewChild(acts[i - Len(cs) + 1])
        BY <1>2, <3>2
      <4>1. acts[i - Len(cs) + 1] \in Semimoves[s] /\ ds[i + 1].semimove = acts[i - Len(cs) + 1]
        BY <1>8, <4>3 DEF NewChild
      <4> QED
        BY <1>7, <2>2, <4>1, SemisplitAssumption
    <3> QED
      BY <3>1, <3>2
  <2> QED
    BY <2>1, <2>2 DEF Tree, Stands
<1>10. Covers(ms, ds, L, pos)
  <2> SUFFICES ASSUME NEW n \in L, is_expanded(ms[n + 1])
               PROVE  Cover(EdgesOf(ds), BlockOf(ms, n), pos[n])
    BY DEF Covers
  <2>1. CASE n # m
    <3>1. Cover(EdgesOf(cs), BlockOf(ns, n), pos[n]) /\ BlockOf(ms, n) = BlockOf(ns, n)
      BY <1>1, <1>2, <2>1 DEF Tree, Covers
    <3>2. \A i \in BlockOf(ns, n) : EdgesOf(ds)[i] = EdgesOf(cs)[i]
      BY <1>1, <1>2, <1>4 DEF EdgesOf
    <3> QED
      BY <3>1, <3>2, CoverSame
  <2>2. CASE n = m
    <3>1. \A k \in 1..Len(acts) : EdgesOf(ds)[Len(cs) + k - 1] = acts[k]
      <4> TAKE k \in 1..Len(acts)
      <4> DEFINE i == Len(cs) + k - 1
      <4>1. i \in BlockOf(ms, m) /\ i - Len(cs) + 1 = k
        BY <1>2, <1>3
      <4>2. i \in Indices(ds) /\ ds[i + 1] = NewChild(acts[k])
        BY <1>2, <4>1
      <4> QED
        BY <4>2 DEF EdgesOf, NewChild
    <3> DEFINE f == EdgesOf(ds)
               lo == Len(cs)
    <3>2. lo \in Nat /\ \A k \in 1..Len(acts) : f[lo + k - 1] = acts[k]
      BY <1>3, <3>1
    <3> HIDE DEF f, lo, s
    <3>3. Cover(f, lo..(lo + Len(acts) - 1), s)
      BY <1>7, <3>2, ListCovers
    <3> QED
      BY <1>2, <2>2, <3>3 DEF f, lo, s
  <2> QED
    BY <2>1, <2>2
<1>11. Statuses(ms, L, pos)
  <2>1. \A n \in L : /\ ms[n + 1].is_nodal = ns[n + 1].is_nodal /\ ms[n + 1].status = ns[n + 1].status
                     /\ n # m => ms[n + 1] = ns[n + 1]
    BY <1>1, <1>2
  <2>2. ms[m + 1].first # ms[m + 1].second
    BY <1>2, <1>3
  <2>3. Statuses(ns, L, pos) /\ ~is_terminal(ns[m + 1])
    BY DEF Tree, Expandable
  <2> QED
    BY <1>1, <2>1, <2>2, <2>3 DEF Statuses, is_terminal
<1>12. VisitedOnTop(ms, ds, L)
  <2> SUFFICES ASSUME NEW n \in L, NEW i \in BlockOf(ms, n), NEW j \in BlockOf(ms, n), i <= j, ds[i + 1].index = 0
               PROVE  ds[j + 1].index = 0
    BY DEF VisitedOnTop
  <2>1. CASE n = m
    BY <1>2, <2>1
  <2>2. CASE n # m
    <3>1. i \in BlockOf(ns, n) /\ j \in BlockOf(ns, n) /\ ds[i + 1] = cs[i + 1] /\ ds[j + 1] = cs[j + 1]
      BY <1>1, <1>2, <1>4, <2>2
    <3> QED
      BY <3>1 DEF Tree, VisitedOnTop
  <2> QED
    BY <2>1, <2>2
<1> QED
  BY <1>5, <1>6, <1>9, <1>10, <1>11, <1>12 DEF Tree

(* The new block counts for nothing yet, and ways lead on. *)
LEMMA ExpandKeepsCounts ==
  ASSUME NEW ns, NEW cs, NEW L, NEW pos, Vectors(ns, cs), Links(ns, cs, L),
         NEW m, NEW acts, Expandable(ns, L, pos, m, acts),
         NEW ms, NEW ds, Vectors(ms, ds), Expands(ns, cs, m, acts, ms, ds)
  PROVE  /\ \A n \in Indices(ns) : BlockSims(ds, ms[n + 1]) = BlockSims(cs, ns[n + 1])
         /\ \A total, rolled, e : CountedBut(ns, cs, L, total, rolled, e) => CountedBut(ms, ds, L, total, rolled, e)
         /\ \A stack, n : Way(ns, cs, L, stack, n) => Way(ms, ds, L, stack, n)
<1>20. Widened(ns, cs, m, acts, ms, ds)
  BY ExpandBlocks
<1>1. L \subseteq Indices(ns) /\ m \in L /\ m \in Indices(ns) /\ 0 \in Indices(ns) /\ Len(cs) \in Nat
  BY VectorFacts DEF Links, Expandable, Vectors
<1>2. /\ Indices(ms) = Indices(ns) /\ Indices(cs) \subseteq Indices(ds)
      /\ Len(acts) \in Nat \ {0} /\ Len(ds) = Len(cs) + Len(acts)
      /\ \A n \in Indices(ns) : n # m => ms[n + 1] = ns[n + 1] /\ BlockOf(ms, n) = BlockOf(ns, n)
      /\ ms[m + 1].is_nodal = ns[m + 1].is_nodal /\ ms[m + 1].status = ns[m + 1].status
      /\ BlockOf(ns, m) = {}
      /\ \A i \in BlockOf(ms, m) : i \in Indices(ds) /\ ds[i + 1].index = 0 /\ ds[i + 1].sim_count = 0
      /\ \A i \in Indices(ds) : i \in Indices(cs) \/ i \in BlockOf(ms, m)
      /\ \A i \in Indices(cs) : ds[i + 1] = cs[i + 1]
      /\ \A n \in Indices(ns) : BlockOf(ns, n) \subseteq BlockOf(ms, n)
  BY <1>20 DEF Widened
<1>3. BlockSims(ds, ms[m + 1]) = BlockSims(cs, ns[m + 1])
  <2>1. BlockSims(cs, ns[m + 1]) = 0
    BY <1>1, <1>2, BlockSimsNat
  <2> DEFINE f == SimCounts(ds)
             a == ms[m + 1].first
  <2>2. ms[m + 1].first = Len(cs) /\ ms[m + 1].second = Len(cs) + Len(acts)
    BY DEF Expands
  <2>3. \A k \in 0..(Len(acts) - 1) : Len(cs) + k \in BlockOf(ms, m)
    BY <1>1, <1>2, <2>2 DEF BlockOf, ChildIndices
  <2>4. \A k \in 0..(Len(acts) - 1) : f[Len(cs) + k] = 0
    <3> TAKE k \in 0..(Len(acts) - 1)
    <3>1. Len(cs) + k \in Indices(ds) /\ ds[Len(cs) + k + 1].sim_count = 0
      BY <1>2, <2>3
    <3> QED
      BY <3>1 DEF SimCounts, Indices
  <2>5. BlockSims(ds, ms[m + 1]) = SumOver(f, Len(cs)..((Len(cs) + Len(acts)) - 1))
    BY <2>2 DEF BlockSims, ChildIndices
  <2> DEFINE lo == Len(cs)
             n == Len(acts)
  <2>6. lo \in Int /\ n \in Nat /\ \A k \in 0..(n - 1) : f[lo + k] = 0
    BY <1>1, <1>2, <2>4
  <2> HIDE DEF f, lo, n
  <2>7. SumOver(f, lo..((lo + n) - 1)) = 0
    BY <2>6, RangeSumZero
  <2> QED
    BY <2>1, <2>5, <2>7 DEF lo, n
<1>4. \A n \in Indices(ns) : n # m => BlockSims(ds, ms[n + 1]) = BlockSims(cs, ns[n + 1])
  <2> TAKE n \in Indices(ns)
  <2> HAVE n # m
  <2>1. \A i \in BlockOf(ns, n) : ds[i + 1].sim_count = cs[i + 1].sim_count
    BY <1>2, VectorFacts
  <2>2. ms[n + 1] = ns[n + 1] /\ Len(ds) \in Nat /\ Len(cs) <= Len(ds)
    BY <1>1, <1>2
  <2> QED
    BY <2>1, <2>2, BlockSimsAlike
<1>5. \A n \in Indices(ns) : BlockSims(ds, ms[n + 1]) = BlockSims(cs, ns[n + 1])
  BY <1>3, <1>4
<1>6. \A n \in Indices(ns) : \A rolled, r : Surplus(rolled, r, ms[n + 1]) = Surplus(rolled, r, ns[n + 1])
  BY <1>2 DEF Surplus
<1>7. \A n \in Indices(ns) : is_terminal(ms[n + 1]) <=> is_terminal(ns[n + 1])
  BY <1>2 DEF is_terminal
<1>8. ASSUME NEW total, NEW rolled, NEW e, CountedBut(ns, cs, L, total, rolled, e)
      PROVE  CountedBut(ms, ds, L, total, rolled, e)
  <2>1. \A i \in Indices(cs) : cs[i + 1].index \in Indices(ns)
    BY VectorFacts
  <2>2. \A n \in L : \A i \in BlockOf(ns, n) : i \in Indices(cs) /\ ds[i + 1] = cs[i + 1]
    BY <1>2, LinkFacts
  <2>3. ~is_terminal(ms[1]) =>
          (total - BlockSims(ds, ms[1])) - Extra(e, 0) \in Surplus(rolled, TRUE, ms[1])
    <3>1. /\ is_terminal(ms[0 + 1]) <=> is_terminal(ns[0 + 1])
          /\ BlockSims(ds, ms[0 + 1]) = BlockSims(cs, ns[0 + 1])
          /\ Surplus(rolled, TRUE, ms[0 + 1]) = Surplus(rolled, TRUE, ns[0 + 1])
      BY <1>1, <1>5, <1>6, <1>7
    <3>2. ~is_terminal(ns[1]) => (total - BlockSims(cs, ns[1])) - Extra(e, 0) \in Surplus(rolled, TRUE, ns[1])
      BY <1>8 DEF CountedBut
    <3>3. ms[0 + 1] = ms[1] /\ ns[0 + 1] = ns[1]
      OBVIOUS
    <3> QED
      BY <3>1, <3>2, <3>3
  <2>4. \A n \in L : \A i \in BlockOf(ms, n) :
          CountAt(ms, ds, rolled, e, ds[i + 1])
    <3> TAKE n \in L
    <3> TAKE i \in BlockOf(ms, n)
    <3>1. CASE ds[i + 1].index = 0
      BY <3>1 DEF CountAt
    <3>2. CASE ds[i + 1].index # 0
      <4> DEFINE c == cs[i + 1].index
      <4>1. i \in BlockOf(ns, n) /\ ds[i + 1] = cs[i + 1] /\ c \in Indices(ns)
        BY <1>1, <1>2, <2>1, <2>2, <3>2
      <4>2. /\ is_terminal(ms[c + 1]) <=> is_terminal(ns[c + 1])
            /\ BlockSims(ds, ms[c + 1]) = BlockSims(cs, ns[c + 1])
            /\ Surplus(rolled, FALSE, ms[c + 1]) = Surplus(rolled, FALSE, ns[c + 1])
        BY <1>5, <1>6, <1>7, <4>1
      <4>3. CountAt(ns, cs, rolled, e, cs[i + 1])
        BY <1>8, <4>1 DEF CountedBut
      <4> QED
        BY <4>1, <4>2, <4>3 DEF CountAt
    <3> QED
      BY <3>1, <3>2
  <2>5. \A i \in Indices(ds) : ds[i + 1].index = 0 <=> ds[i + 1].sim_count = 0
    BY <1>2, <1>8 DEF CountedBut
  <2> QED
    BY <2>3, <2>4, <2>5 DEF CountedBut
<1>9. ASSUME NEW stack, NEW n, Way(ns, cs, L, stack, n)
      PROVE  Way(ms, ds, L, stack, n)
  <2>1. stack \in Seq(Indices(cs)) /\ Len(stack) \in Nat /\ stack \in Seq(Indices(ds))
    BY <1>2, <1>9 DEF Way
  <2>2. \A k \in 0..Len(stack) : At(ds, stack, k) = At(cs, stack, k)
    <3> TAKE k \in 0..Len(stack)
    <3>1. CASE k = 0
      BY <3>1 DEF At
    <3>2. CASE k # 0
      <4>1. stack[k] \in Indices(cs)
        BY <2>1, <3>2
      <4> QED
        BY <1>2, <3>2, <4>1 DEF At
    <3> QED
      BY <3>1, <3>2
  <2>3. \A k \in 1..Len(stack) : k \in 0..Len(stack) /\ k - 1 \in 0..Len(stack)
    BY <2>1
  <2>4. Len(stack) \in 0..Len(stack)
    BY <2>1
  <2>5. \A p \in L : BlockOf(ns, p) \subseteq BlockOf(ms, p)
    BY <1>1, <1>2
  <2> QED
    BY <1>9, <2>1, <2>2, <2>3, <2>4, <2>5 DEF Way
<1> QED
  BY <1>5, <1>8, <1>9

-----------------------------------------------------------------------------
(* New nodes, and simulations counted.                                     *)

OneMoreOf(B, l, cs, ds) ==
  /\ l \in B
  /\ Len(ds) = Len(cs)
  /\ ds[l + 1].sim_count = cs[l + 1].sim_count + 1
  /\ \A i \in B : i # l => ds[i + 1].sim_count = cs[i + 1].sim_count

(* One more simulation of one child is one more of its block. *)
LEMMA BlockSimsOneMore ==
  ASSUME NEW ns, NEW cs, Vectors(ns, cs), NEW n \in Indices(ns), NEW l, NEW ds,
         OneMoreOf(BlockOf(ns, n), l, cs, ds)
  PROVE  BlockSims(ds, ns[n + 1]) = BlockSims(cs, ns[n + 1]) + 1
<1> DEFINE node == ns[n + 1]
           a == node.first
           m == node.second - a
           f == SimCounts(cs)
           g == SimCounts(ds)
           j == l - a
<1>20. /\ l \in BlockOf(ns, n) /\ Len(ds) = Len(cs) /\ ds[l + 1].sim_count = cs[l + 1].sim_count + 1
       /\ \A i \in BlockOf(ns, n) : i # l => ds[i + 1].sim_count = cs[i + 1].sim_count
  BY DEF OneMoreOf
<1>1. /\ a \in Nat /\ node.second \in Nat /\ a <= node.second /\ m \in Nat
      /\ Len(cs) \in Nat /\ node.second = a + m
      /\ j \in 0..(m - 1) /\ a + j = l
  <2>1. a \in Nat /\ node.second \in Nat /\ Len(cs) \in Nat /\ a <= l /\ l < node.second /\ l \in Int
    BY <1>20, VectorFacts DEF BlockOf, ChildIndices
  <2> HIDE DEF node
  <2> QED
    BY <2>1
<1>2. /\ BlockOf(ns, n) = a..((a + m) - 1)
      /\ ChildIndices(node) = a..((a + m) - 1)
  BY <1>1 DEF BlockOf, ChildIndices
<1>3. \A i \in BlockOf(ns, n) : /\ i \in Indices(cs) /\ cs[i + 1].sim_count \in Nat
                                /\ f[i] = cs[i + 1].sim_count /\ g[i] = ds[i + 1].sim_count
  BY <1>1, <1>20, VectorFacts DEF SimCounts, Indices
<1> HIDE DEF f, g, m, a
<1>4. \A k \in 0..(m - 1) : a + k \in BlockOf(ns, n) /\ (a + k = l <=> k = j)
  BY <1>1, <1>2
<1>5. ASSUME NEW k \in 0..(m - 1)
      PROVE  f[a + k] \in Nat /\ g[a + k] = IF k = j THEN f[a + k] + 1 ELSE f[a + k]
  BY <1>3, <1>4, <1>20
<1> HIDE DEF j
<1>6. OneMoreAt(j, f, g, a, m)
  BY <1>5 DEF OneMoreAt
<1>7. RangeSum(g, a, m) = RangeSum(f, a, m) + 1
  BY <1>1, <1>6, RangeSumPlusOne
<1> QED
  BY <1>2, <1>7 DEF RangeSum, BlockSims, f, g

(* The keeper has no moves here. *)
LEMMA NoSuccessor ==
  ASSUME NEW s \in State
  PROVE  has_nodal_successor(s) <=> Moves(s) # {}
<1>1. \A r \in Reachable[s] : Mover[s] # KEEPER
  BY ReachableFacts DEF WellFormed
<1> QED
  BY <1>1 DEF has_nodal_successor, Moves

(* The child l of node m, its first that was not visited, gets a node for  *)
(* the state t.                                                            *)
Grows(ns, cs, l, node, ms, ds) ==
  /\ ms \in Seq(NodeRecord) /\ ds \in Seq(ChildRecord)
  /\ Len(ms) = Len(ns) + 1 /\ Len(ds) = Len(cs)
  /\ \A n \in Indices(ns) : ms[n + 1] = ns[n + 1]
  /\ ms[Len(ns) + 1] = node
  /\ \A i \in Indices(cs) : i # l => ds[i + 1] = cs[i + 1]
  /\ ds[l + 1].semimove = cs[l + 1].semimove
  /\ ds[l + 1].index = Len(ns)
  /\ ds[l + 1].sim_count = 1

Suits(node, t) ==
  /\ node \in NodeRecord
  /\ node.is_nodal <=> t \in Nodal
  /\ node.status = TrueStatus(t)
  /\ Rests(t) # {}
  /\ is_terminal(node) => node.first = 0 /\ node.second = 0
  /\ ~is_terminal(node) => ~is_expanded(node)

Growable(ns, cs, L, pos, m, l, node, t) ==
  /\ m \in L /\ l \in BlockOf(ns, m)
  /\ cs[l + 1].index = 0 /\ cs[l + 1].sim_count = 0
  /\ \A i \in BlockOf(ns, m) : i < l => cs[i + 1].index # 0
  /\ t \in State /\ Leads(pos[m], cs[l + 1].semimove, t)
  /\ Suits(node, t)

Grown(pos, L, n, t) == [p \in L \cup {n} |-> IF p = n THEN t ELSE pos[p]]

Grew(ns, cs, L, m, l, node, ms, ds) ==
  /\ Len(ns) \in Nat \ {0} /\ Len(ns) \notin Indices(ns) /\ Len(ns) \notin L
  /\ Indices(ms) = Indices(ns) \cup {Len(ns)} /\ Indices(ds) = Indices(cs)
  /\ \A n \in Indices(ns) : ms[n + 1] = ns[n + 1] /\ BlockOf(ms, n) = BlockOf(ns, n)
  /\ ms[Len(ns) + 1] = node /\ BlockOf(ms, Len(ns)) = {}
  /\ m \in Indices(ns) /\ l \in Indices(cs)
  /\ \A n \in L : \A i \in BlockOf(ns, n) : i = l => n = m
  /\ \A i \in Indices(cs) : i # l => ds[i + 1] = cs[i + 1]

(* What that leaves where. *)
LEMMA GrowFacts ==
  ASSUME NEW ns, NEW cs, NEW L, NEW pos, Vectors(ns, cs), Links(ns, cs, L),
         NEW m, NEW l, NEW node, NEW t, Growable(ns, cs, L, pos, m, l, node, t),
         NEW ms, NEW ds, Grows(ns, cs, l, node, ms, ds)
  PROVE  Grew(ns, cs, L, m, l, node, ms, ds)
<1>1. Len(ns) \in Nat \ {0} /\ m \in Indices(ns) /\ L \subseteq Indices(ns)
  BY VectorFacts DEF Growable, Links
<1>2. Len(ns) \notin Indices(ns) /\ Len(ns) \notin L
  BY <1>1 DEF Indices
<1>3. Indices(ms) = Indices(ns) \cup {Len(ns)} /\ Indices(ds) = Indices(cs)
  BY <1>1 DEF Indices, Grows
<1>4. \A n \in Indices(ns) : ms[n + 1] = ns[n + 1] /\ BlockOf(ms, n) = BlockOf(ns, n)
  BY DEF Grows, BlockOf
<1>5. ms[Len(ns) + 1] = node /\ BlockOf(ms, Len(ns)) = {}
  <2>1. node.first \in Nat /\ node.second \in Nat /\ ~(node.first < node.second)
    BY DEF Growable, Suits, NodeRecord, is_expanded
  <2>2. ChildIndices(node) = {}
    BY <2>1 DEF ChildIndices
  <2> QED
    BY <2>2 DEF Grows, BlockOf
<1>6. l \in Indices(cs)
  BY <1>1, VectorFacts DEF Growable
<1>7. \A n \in L : \A i \in BlockOf(ns, n) : i = l => n = m
  BY DEF Links, Growable
<1> QED
  BY <1>1, <1>2, <1>3, <1>4, <1>5, <1>6, <1>7 DEF Grows, Grew

(* It is a tree again, with one more node. *)
LEMMA GrowKeepsTree ==
  ASSUME NEW ns, NEW cs, NEW L, NEW root, NEW pos, Tree(ns, cs, L, root, pos),
         NEW m, NEW l, NEW node, NEW t, Growable(ns, cs, L, pos, m, l, node, t),
         NEW ms, NEW ds, Grows(ns, cs, l, node, ms, ds)
  PROVE  Tree(ms, ds, L \cup {Len(ns)}, root, Grown(pos, L, Len(ns), t))
<1> DEFINE N == Len(ns)
           K == L \cup {N}
           at == Grown(pos, L, N, t)
<1>1. Vectors(ns, cs) /\ Links(ns, cs, L) /\ L \subseteq Indices(ns) /\ m \in L /\ l \in BlockOf(ns, m)
  BY DEF Tree, Links, Growable
<1>20. Grew(ns, cs, L, m, l, node, ms, ds)
  BY <1>1, GrowFacts
<1>2. /\ N \in Nat \ {0} /\ N \notin Indices(ns) /\ N \notin L
      /\ Indices(ms) = Indices(ns) \cup {N} /\ Indices(ds) = Indices(cs)
      /\ \A n \in Indices(ns) : ms[n + 1] = ns[n + 1] /\ BlockOf(ms, n) = BlockOf(ns, n)
      /\ ms[N + 1] = node /\ BlockOf(ms, N) = {}
      /\ m \in Indices(ns) /\ l \in Indices(cs)
      /\ \A n \in L : \A i \in BlockOf(ns, n) : i = l => n = m
      /\ \A i \in Indices(cs) : i # l => ds[i + 1] = cs[i + 1]
  BY <1>20 DEF Grew
<1>3. /\ ds[l + 1].semimove = cs[l + 1].semimove /\ ds[l + 1].index = N
      /\ ms \in Seq(NodeRecord) /\ ds \in Seq(ChildRecord) /\ Len(ms) = N + 1 /\ Len(ds) = Len(cs)
  BY DEF Grows
<1>4. \A n \in Indices(ns) : \A i \in BlockOf(ns, n) : i \in Indices(cs)
  BY <1>1, VectorFacts
<1>5. \A i \in Indices(cs) : ds[i + 1].semimove = cs[i + 1].semimove
  BY <1>2, <1>3
<1>6. \A n \in L : at[n] = pos[n]
  BY <1>2 DEF Grown
<1>7. at[N] = t /\ at \in [K -> State]
  BY DEF Tree, Stands, Growable, Grown
<1>8. \A i \in Indices(cs) : cs[i + 1].index < N /\ cs[i + 1].index \in Nat
  BY <1>1, VectorFacts DEF Vectors
<1> HIDE DEF N, at, K
<1>9. Vectors(ms, ds)
  <2>1. \A n \in Indices(ms) : is_expanded(ms[n + 1]) => ms[n + 1].second <= Len(ds)
    <3> TAKE n \in Indices(ms)
    <3>1. CASE n = N
      <4>1. Len(ds) \in Nat /\ ms[n + 1] = node
        BY <1>2, <1>3, <3>1
      <4> QED
        BY <4>1 DEF Growable, Suits
    <3>2. CASE n \in Indices(ns)
      BY <1>1, <1>2, <1>3, <3>2 DEF Vectors
    <3> QED
      BY <1>2, <3>1, <3>2
  <2>2. \A i \in Indices(ds) : ds[i + 1].index < Len(ms)
    <3> TAKE i \in Indices(ds)
    <3>1. CASE i = l
      BY <1>2, <1>3, <3>1
    <3>2. CASE i # l
      BY <1>2, <1>3, <1>8, <3>2
    <3> QED
      BY <3>1, <3>2
  <2>3. \A n \in Indices(ms) : \A i \in BlockOf(ms, n) : ds[i + 1].index # 0 => n < ds[i + 1].index
    <3> TAKE n \in Indices(ms)
    <3> TAKE i \in BlockOf(ms, n)
    <3>1. n \in Indices(ns) /\ i \in BlockOf(ns, n) /\ i \in Indices(cs)
      BY <1>2, <1>4
    <3>2. n < N /\ n \in Nat
      BY <1>1, <3>1, VectorFacts DEF N
    <3>3. CASE i = l
      BY <1>3, <3>2, <3>3
    <3>4. CASE i # l
      BY <1>1, <1>2, <3>1, <3>4 DEF Vectors
    <3> QED
      BY <3>3, <3>4
  <2>4. 0 \in Indices(ms)
    BY <1>1, <1>2 DEF Vectors
  <2> QED
    BY <1>3, <2>1, <2>2, <2>3, <2>4 DEF Vectors
<1>10. \A n \in K : \A i \in BlockOf(ms, n) : n \in L /\ i \in BlockOf(ns, n) /\ i \in Indices(cs)
  BY <1>1, <1>2, <1>4 DEF K
<1>11. Links(ms, ds, K)
  <2>1. K \subseteq Indices(ms) /\ 0 \in K
    BY <1>1, <1>2 DEF Links, K
  <2>2. \A n \in K : \A i \in BlockOf(ms, n) : ds[i + 1].index # 0 => ds[i + 1].index \in K
    <3> TAKE n \in K
    <3> TAKE i \in BlockOf(ms, n)
    <3>1. CASE i = l
      BY <1>3, <3>1 DEF K
    <3>2. CASE i # l
      BY <1>1, <1>2, <1>10, <3>2 DEF K, Links
    <3> QED
      BY <3>1, <3>2
  <2>3. \A n \in K \ {0} : \E p \in K : \E i \in BlockOf(ms, p) : ds[i + 1].index = n
    <3> TAKE n \in K \ {0}
    <3>1. CASE n = N
      <4>1. m \in K /\ l \in BlockOf(ms, m)
        BY <1>1, <1>2 DEF K
      <4> QED
        BY <1>3, <3>1, <4>1
    <3>2. CASE n # N
      <4>1. n \in L
        BY <3>2 DEF K
      <4>2. PICK p \in L : \E i \in BlockOf(ns, p) : cs[i + 1].index = n
        BY <1>1, <4>1 DEF Links
      <4>3. PICK i \in BlockOf(ns, p) : cs[i + 1].index = n
        BY <4>2
      <4>4. i # l
        BY <4>3 DEF Growable
      <4>5. ds[i + 1] = cs[i + 1] /\ i \in BlockOf(ms, p) /\ p \in K
        BY <1>1, <1>2, <1>4, <4>2, <4>3, <4>4 DEF K
      <4> QED
        BY <4>3, <4>5
    <3> QED
      BY <3>1, <3>2
  <2>4. \A p, q \in K : \A i \in BlockOf(ms, p) : i \in BlockOf(ms, q) => p = q
    BY <1>1, <1>10 DEF Links
  <2>5. \A p, q \in K : \A i \in BlockOf(ms, p), j \in BlockOf(ms, q) :
          ds[i + 1].index = ds[j + 1].index /\ ds[i + 1].index # 0 => i = j
    <3> TAKE p, q \in K
    <3> TAKE i \in BlockOf(ms, p), j \in BlockOf(ms, q)
    <3>1. CASE i = l \/ j = l
      <4>1. \A k \in Indices(cs) : k # l => ds[k + 1].index < N /\ ds[k + 1].index \in Nat
        BY <1>2, <1>8
      <4>2. i \in Indices(cs) /\ j \in Indices(cs)
        BY <1>10
      <4> QED
        BY <1>2, <1>3, <3>1, <4>1, <4>2
    <3>2. CASE i # l /\ j # l
      <4>1. ds[i + 1] = cs[i + 1] /\ ds[j + 1] = cs[j + 1]
        BY <1>2, <1>10, <3>2
      <4> QED
        BY <1>1, <1>10, <4>1 DEF Links
    <3> QED
      BY <3>1, <3>2
  <2> QED
    BY <2>1, <2>2, <2>3, <2>4, <2>5 DEF Links
<1>12. Stands(ms, ds, K, root, at)
  <2>1. \A n \in K : \A i \in BlockOf(ms, n) : Fits(at, at[n], ds[i + 1])
    <3> TAKE n \in K
    <3> TAKE i \in BlockOf(ms, n)
    <3>1. n \in L /\ i \in BlockOf(ns, n) /\ i \in Indices(cs) /\ at[n] = pos[n]
      BY <1>6, <1>10
    <3>2. CASE i = l
      <4>1. n = m
        BY <1>2, <3>1, <3>2
      <4>2. t \in State /\ Leads(pos[n], cs[l + 1].semimove, t)
        BY <4>1 DEF Growable
      <4> QED
        BY <1>3, <1>7, <3>1, <3>2, <4>2 DEF Fits
    <3>3. CASE i # l
      <4>1. ds[i + 1] = cs[i + 1]
        BY <1>2, <3>1, <3>3
      <4>2. Fits(pos, pos[n], cs[i + 1])
        BY <3>1 DEF Tree, Stands
      <4>3. cs[i + 1].index # 0 => at[cs[i + 1].index] = pos[cs[i + 1].index]
        BY <1>1, <1>6, <3>1 DEF Links
      <4> QED
        BY <3>1, <4>1, <4>2, <4>3 DEF Fits
    <3> QED
      BY <3>2, <3>3
  <2>2. GETTER = "A" => \A n \in K : \A i \in BlockOf(ms, n) : Len(ds[i + 1].semimove) = 1
    <3>1. GETTER = "A" => \A n \in L : \A i \in BlockOf(ns, n) : Len(cs[i + 1].semimove) = 1
      BY DEF Tree, Stands
    <3> QED
      BY <1>5, <1>10, <3>1
  <2>3. root \in Nodal /\ at[0] = root
    BY <1>1, <1>6 DEF Tree, Stands, Links
  <2> QED
    BY <1>7, <2>1, <2>2, <2>3 DEF Stands
<1>13. Covers(ms, ds, K, at)
  <2> SUFFICES ASSUME NEW n \in K, is_expanded(ms[n + 1])
               PROVE  Cover(EdgesOf(ds), BlockOf(ms, n), at[n])
    BY DEF Covers
  <2>4. CASE n = N
    <3>1. is_terminal(node)
      BY <1>2, <2>4 DEF Growable, Suits
    <3>2. Moves(t) = {}
      BY <3>1, NoSuccessor DEF Growable, Suits, is_terminal, TrueStatus
    <3> QED
      BY <1>2, <1>7, <2>4, <3>2 DEF Cover
  <2>5. CASE n # N
    <3>1. n \in L /\ at[n] = pos[n] /\ BlockOf(ms, n) = BlockOf(ns, n) /\ ms[n + 1] = ns[n + 1]
      BY <1>1, <1>2, <1>6, <2>5 DEF K
    <3>2. Cover(EdgesOf(cs), BlockOf(ns, n), pos[n])
      BY <3>1 DEF Tree, Covers
    <3>3. \A i \in BlockOf(ns, n) : EdgesOf(ds)[i] = EdgesOf(cs)[i]
      BY <1>1, <1>2, <1>4, <1>5, <3>1 DEF EdgesOf
    <3> QED
      BY <3>1, <3>2, <3>3, CoverSame
  <2> QED
    BY <2>4, <2>5
<1>14. Statuses(ms, K, at)
  <2> SUFFICES ASSUME NEW n \in K
               PROVE  /\ ms[n + 1].is_nodal <=> at[n] \in Nodal
                      /\ ms[n + 1].status = TrueStatus(at[n])
                      /\ Rests(at[n]) # {}
                      /\ is_terminal(ms[n + 1]) => ms[n + 1].first = ms[n + 1].second
                      /\ ~is_terminal(ms[n + 1]) => ms[n + 1].first # ms[n + 1].second
    BY DEF Statuses
  <2>1. CASE n = N
    BY <1>2, <1>7, <2>1 DEF Growable, Suits, NodeRecord, is_expanded
  <2>2. CASE n # N
    <3>1. n \in L /\ at[n] = pos[n] /\ ms[n + 1] = ns[n + 1]
      BY <1>1, <1>2, <1>6, <2>2 DEF K
    <3> QED
      BY <3>1 DEF Tree, Statuses
  <2> QED
    BY <2>1, <2>2
<1>15. VisitedOnTop(ms, ds, K)
  <2> SUFFICES ASSUME NEW n \in K, NEW i \in BlockOf(ms, n), NEW j \in BlockOf(ms, n), i <= j, ds[i + 1].index = 0
               PROVE  ds[j + 1].index = 0
    BY DEF VisitedOnTop
  <2>1. n \in L /\ i \in BlockOf(ns, n) /\ j \in BlockOf(ns, n) /\ i \in Indices(cs) /\ j \in Indices(cs)
    BY <1>10
  <2>2. i # l /\ cs[i + 1].index = 0
    BY <1>2, <1>3, <2>1
  <2>3. cs[j + 1].index = 0
    BY <2>1, <2>2 DEF Tree, VisitedOnTop
  <2>4. CASE j = l
    <3>1. n = m
      BY <1>2, <2>1, <2>4
    <3>2. ~(i < l)
      BY <2>1, <2>2, <3>1 DEF Growable
    <3>3. i \in Nat /\ j \in Nat
      BY <1>1, <2>1, VectorFacts
    <3> QED
      BY <2>2, <2>4, <3>2, <3>3
  <2>5. CASE j # l
    BY <1>2, <2>1, <2>3, <2>5
  <2> QED
    BY <2>4, <2>5
<1> QED
  BY <1>9, <1>11, <1>12, <1>13, <1>14, <1>15 DEF Tree, N, K, at

Gives(rolled, node, n, e) ==
  /\ e \in {n, Nobody}
  /\ is_terminal(node) \/ 1 - Extra(e, n) \in Surplus(rolled, FALSE, node)

(* The simulation that m had to give on is the new node's; e is the node   *)
(* that has one to give on then.  Ways lead on to the new node.            *)
LEMMA GrowKeepsCounts ==
  ASSUME NEW ns, NEW cs, NEW L, NEW pos, Vectors(ns, cs), Links(ns, cs, L),
         NEW m, NEW l, NEW node, NEW t, Growable(ns, cs, L, pos, m, l, node, t),
         NEW ms, NEW ds, Vectors(ms, ds), Grows(ns, cs, l, node, ms, ds),
         NEW total \in Nat, NEW rolled, CountedBut(ns, cs, L, total, rolled, m),
         NEW e, Gives(rolled, node, Len(ns), e)
  PROVE  CountedBut(ms, ds, L \cup {Len(ns)}, total, rolled, e)
<1> DEFINE N == Len(ns)
           K == L \cup {N}
<1>1. L \subseteq Indices(ns) /\ 0 \in L /\ m \in L /\ l \in BlockOf(ns, m)
  BY DEF Links, Growable
<1>2. Grew(ns, cs, L, m, l, node, ms, ds)
  BY GrowFacts
<1>3. /\ N \in Nat \ {0} /\ N \notin Indices(ns) /\ N \notin L
      /\ Indices(ms) = Indices(ns) \cup {N} /\ Indices(ds) = Indices(cs)
      /\ \A n \in Indices(ns) : ms[n + 1] = ns[n + 1] /\ BlockOf(ms, n) = BlockOf(ns, n)
      /\ ms[N + 1] = node /\ BlockOf(ms, N) = {}
      /\ m \in Indices(ns) /\ l \in Indices(cs)
      /\ \A n \in L : \A i \in BlockOf(ns, n) : i = l => n = m
      /\ \A i \in Indices(cs) : i # l => ds[i + 1] = cs[i + 1]
  BY <1>2 DEF Grew
<1>4. ds[l + 1].index = N /\ ds[l + 1].sim_count = 1 /\ Len(ds) = Len(cs)
  BY DEF Grows
<1>21. e \in {N, Nobody} /\ (is_terminal(node) \/ 1 - Extra(e, N) \in Surplus(rolled, FALSE, node))
  BY DEF Gives
<1>5. cs[l + 1].index = 0 /\ cs[l + 1].sim_count = 0 /\ Nobody \notin Nat
  BY DEF Growable, Nobody
<1>6. \A n \in Indices(ns) : n \in Nat /\ n # N /\ BlockOf(ns, n) \subseteq Indices(cs)
  BY <1>3, VectorFacts
<1> HIDE DEF N, K
<1>7. \A n \in L : BlockSims(ds, ms[n + 1]) = BlockSims(cs, ns[n + 1]) + Extra(m, n)
                   /\ BlockSims(cs, ns[n + 1]) \in Nat /\ Extra(m, n) \in Nat /\ Extra(e, n) = 0
  <2> TAKE n \in L
  <2>1. n \in Indices(ns) /\ ms[n + 1] = ns[n + 1] /\ n \in Nat /\ n # N
    BY <1>1, <1>3, <1>6
  <2>2. BlockSims(cs, ns[n + 1]) \in Nat
    BY <2>1, BlockSimsNat
  <2>3. Extra(e, n) = 0
    BY <1>5, <1>21, <2>1 DEF Extra
  <2>4. CASE n = m
    <3>1. ds[l + 1].sim_count = cs[l + 1].sim_count + 1
      BY <1>4, <1>5
    <3>2. \A i \in BlockOf(ns, n) : i # l => ds[i + 1].sim_count = cs[i + 1].sim_count
      BY <1>3, <1>6, <2>1
    <3>4. OneMoreOf(BlockOf(ns, n), l, cs, ds)
      BY <1>1, <1>4, <2>4, <3>1, <3>2 DEF OneMoreOf
    <3>3. BlockSims(ds, ms[n + 1]) = BlockSims(cs, ns[n + 1]) + 1
      BY <2>1, <3>4, BlockSimsOneMore
    <3> QED
      BY <2>2, <2>3, <2>4, <3>3 DEF Extra
  <2>5. CASE n # m
    <3>1. l \notin BlockOf(ns, n)
      BY <1>3, <2>5
    <3>2. \A i \in BlockOf(ns, n) : ds[i + 1].sim_count = cs[i + 1].sim_count
      BY <1>3, <1>6, <2>1, <3>1
    <3>3. Len(ds) \in Nat /\ Len(cs) <= Len(ds)
      BY <1>4, VectorFacts
    <3>4. BlockSims(ds, ms[n + 1]) = BlockSims(cs, ns[n + 1])
      BY <2>1, <3>2, <3>3, BlockSimsAlike
    <3> QED
      BY <2>2, <2>3, <2>5, <3>4 DEF Extra
  <2> QED
    BY <2>4, <2>5
<1>8. \A n \in L : ms[n + 1] = ns[n + 1]
  BY <1>1, <1>3
<1>9. \A i \in Indices(ds) : ds[i + 1].index = 0 <=> ds[i + 1].sim_count = 0
  <2> TAKE i \in Indices(ds)
  <2>1. CASE i = l
    BY <1>3, <1>4, <2>1
  <2>2. CASE i # l
    BY <1>3, <2>2 DEF CountedBut
  <2> QED
    BY <2>1, <2>2
<1>10. ~is_terminal(ms[1]) =>
         (total - BlockSims(ds, ms[1])) - Extra(e, 0) \in Surplus(rolled, TRUE, ms[1])
  <2>1. /\ ms[0 + 1] = ns[0 + 1]
        /\ BlockSims(ds, ms[0 + 1]) = BlockSims(cs, ns[0 + 1]) + Extra(m, 0)
        /\ BlockSims(cs, ns[0 + 1]) \in Nat /\ Extra(m, 0) \in Nat /\ Extra(e, 0) = 0
    BY <1>1, <1>7, <1>8
  <2>2. ~is_terminal(ns[1]) => (total - BlockSims(cs, ns[1])) - Extra(m, 0) \in Surplus(rolled, TRUE, ns[1])
    BY DEF CountedBut
  <2>3. ms[0 + 1] = ms[1] /\ ns[0 + 1] = ns[1]
    OBVIOUS
  <2> DEFINE b == BlockSims(cs, ns[1])
             x == Extra(m, 0)
  <2>5. BlockSims(ds, ms[1]) = b + x /\ b \in Nat /\ x \in Nat /\ Extra(e, 0) = 0
    BY <2>1, <2>3
  <2> HIDE DEF b, x
  <2>4. (total - BlockSims(ds, ms[1])) - Extra(e, 0) = (total - b) - x
    BY <2>5
  <2> QED
    BY <2>1, <2>2, <2>3, <2>4 DEF b, x
<1>11. \A n \in K : \A i \in BlockOf(ms, n) : CountAt(ms, ds, rolled, e, ds[i + 1])
  <2> TAKE n \in K
  <2> TAKE i \in BlockOf(ms, n)
  <2>1. n \in L /\ i \in BlockOf(ns, n) /\ i \in Indices(cs)
    BY <1>1, <1>3, <1>6 DEF K
  <2>2. CASE i = l
    <3>1. BlockSims(ds, ms[N + 1]) = 0
      BY <1>3, BlockSimsNat
    <3>2. (ds[l + 1].sim_count - BlockSims(ds, ms[N + 1])) - Extra(e, N) = 1 - Extra(e, N)
      BY <1>4, <3>1
    <3>3. ds[i + 1].index = N /\ (is_terminal(ms[N + 1]) \/ 1 - Extra(e, N) \in Surplus(rolled, FALSE, ms[N + 1]))
      BY <1>3, <1>4, <1>21, <2>2
    <3> QED
      BY <1>4, <2>2, <3>2, <3>3 DEF CountAt
  <2>3. CASE i # l
    <3> DEFINE c == cs[i + 1].index
    <3>1. ds[i + 1] = cs[i + 1] /\ CountAt(ns, cs, rolled, m, cs[i + 1])
      BY <1>3, <2>1, <2>3 DEF CountedBut
    <3>2. CASE c = 0
      BY <3>1, <3>2 DEF CountAt
    <3>3. CASE c # 0
      <4>1. c \in L
        BY <2>1, <3>3 DEF Links
      <4>2. /\ ms[c + 1] = ns[c + 1]
            /\ BlockSims(ds, ms[c + 1]) = BlockSims(cs, ns[c + 1]) + Extra(m, c)
            /\ BlockSims(cs, ns[c + 1]) \in Nat /\ Extra(m, c) \in Nat /\ Extra(e, c) = 0
        BY <1>7, <1>8, <4>1
      <4>3. cs[i + 1].sim_count \in Nat
        BY <2>1, VectorFacts
      <4>4. (cs[i + 1].sim_count - BlockSims(ds, ms[c + 1])) - Extra(e, c)
              = (cs[i + 1].sim_count - BlockSims(cs, ns[c + 1])) - Extra(m, c)
        BY <4>2, <4>3
      <4> QED
        BY <3>1, <3>3, <4>2, <4>4 DEF CountAt
    <3> QED
      BY <3>2, <3>3
  <2> QED
    BY <2>2, <2>3
<1> QED
  BY <1>9, <1>10, <1>11 DEF CountedBut, K, N

(* The way to m leads on to the new node. *)
LEMMA GrowLeadsOn ==
  ASSUME NEW ns, NEW cs, NEW L, NEW pos, Vectors(ns, cs), Links(ns, cs, L),
         NEW m, NEW l, NEW node, NEW t, Growable(ns, cs, L, pos, m, l, node, t),
         NEW ms, NEW ds, Grows(ns, cs, l, node, ms, ds),
         NEW stack, Way(ns, cs, L, stack, m)
  PROVE  Way(ms, ds, L \cup {Len(ns)}, Append(stack, l), Len(ns))
<1> DEFINE N == Len(ns)
           K == L \cup {N}
           more == Append(stack, l)
<1>1. L \subseteq Indices(ns) /\ 0 \in L /\ m \in L /\ l \in BlockOf(ns, m)
  BY DEF Links, Growable
<1>2. Grew(ns, cs, L, m, l, node, ms, ds)
  BY GrowFacts
<1>3. /\ N \in Nat \ {0} /\ Indices(ds) = Indices(cs)
      /\ \A n \in Indices(ns) : BlockOf(ms, n) = BlockOf(ns, n)
      /\ l \in Indices(cs)
      /\ \A i \in Indices(cs) : i # l => ds[i + 1] = cs[i + 1]
  BY <1>2 DEF Grew
<1>4. ds[l + 1].index = N /\ cs[l + 1].index = 0
  BY DEF Grows, Growable
<1>5. /\ stack \in Seq(Indices(cs)) /\ Len(stack) \in Nat
      /\ \A k \in 1..Len(stack) : At(cs, stack, k - 1) \in L
                                  /\ stack[k] \in BlockOf(ns, At(cs, stack, k - 1))
                                  /\ At(cs, stack, k) # 0
      /\ m = At(cs, stack, Len(stack))
  BY DEF Way
<1> HIDE DEF N
<1>6. /\ more \in Seq(Indices(ds)) /\ Len(more) = Len(stack) + 1 /\ more[Len(stack) + 1] = l
      /\ \A k \in 1..Len(stack) : more[k] = stack[k]
  BY <1>3, <1>5
<1>7. \A k \in 0..Len(stack) : At(ds, more, k) = At(cs, stack, k)
  <2> TAKE k \in 0..Len(stack)
  <2>1. CASE k = 0
    BY <2>1 DEF At
  <2>2. CASE k # 0
    <3>1. k \in 1..Len(stack) /\ stack[k] \in Indices(cs) /\ more[k] = stack[k]
      BY <1>5, <1>6, <2>2
    <3>2. At(cs, stack, k) = cs[stack[k] + 1].index /\ At(ds, more, k) = ds[stack[k] + 1].index
      BY <2>2, <3>1 DEF At
    <3>3. stack[k] # l
      BY <1>4, <1>5, <3>1, <3>2
    <3> QED
      BY <1>3, <3>1, <3>2, <3>3
  <2> QED
    BY <2>1, <2>2
<1>8. At(ds, more, Len(stack) + 1) = N
  BY <1>4, <1>5, <1>6 DEF At
<1> HIDE DEF more
<1>9. ASSUME NEW k \in 1..(Len(stack) + 1)
      PROVE  /\ At(ds, more, k - 1) \in K
             /\ more[k] \in BlockOf(ms, At(ds, more, k - 1))
             /\ At(ds, more, k) # 0
  <2>1. k - 1 \in 0..Len(stack) /\ At(ds, more, k - 1) = At(cs, stack, k - 1)
    BY <1>5, <1>7
  <2>2. CASE k = Len(stack) + 1
    <3>1. k - 1 = Len(stack)
      BY <1>5, <2>2
    <3>2. At(ds, more, k - 1) = m
      BY <1>5, <2>1, <3>1
    <3> QED
      BY <1>1, <1>3, <1>6, <1>8, <2>2, <3>2
  <2>3. CASE k # Len(stack) + 1
    <3>1. k \in 1..Len(stack) /\ k \in 0..Len(stack)
      BY <1>5, <2>3
    <3>2. At(ds, more, k) = At(cs, stack, k)
      BY <1>7, <3>1
    <3> QED
      BY <1>1, <1>3, <1>5, <1>6, <2>1, <3>1, <3>2
  <2> QED
    BY <2>2, <2>3
<1> QED
  BY <1>6, <1>8, <1>9 DEF Way, K, N, more

(* A way goes down: from older nodes to younger ones. *)
LEMMA WayFacts ==
  ASSUME NEW ns, NEW cs, NEW L, Vectors(ns, cs), Links(ns, cs, L), NEW stack, NEW n, Way(ns, cs, L, stack, n)
  PROVE  /\ Len(stack) \in Nat
         /\ \A k \in 0..Len(stack) : At(cs, stack, k) \in L
         /\ \A j, k \in 0..Len(stack) : j < k => At(cs, stack, j) < At(cs, stack, k)
         /\ \A j, k \in 0..Len(stack) : At(cs, stack, j) = At(cs, stack, k) => j = k
<1>1. /\ stack \in Seq(Indices(cs)) /\ Len(stack) \in Nat
      /\ \A k \in 1..Len(stack) : At(cs, stack, k - 1) \in L
                                  /\ stack[k] \in BlockOf(ns, At(cs, stack, k - 1))
                                  /\ At(cs, stack, k) # 0
  BY DEF Way
<1>2. \A p \in L : p \in Nat /\ \A i \in BlockOf(ns, p) :
        cs[i + 1].index # 0 => cs[i + 1].index \in L /\ p < cs[i + 1].index
  BY LinkFacts
<1>3. \A k \in 1..Len(stack) : /\ At(cs, stack, k) \in L /\ At(cs, stack, k - 1) \in L
                               /\ At(cs, stack, k - 1) < At(cs, stack, k)
  <2> TAKE k \in 1..Len(stack)
  <2>1. At(cs, stack, k) = cs[stack[k] + 1].index
    BY DEF At
  <2> QED
    BY <1>1, <1>2, <2>1
<1>4. At(cs, stack, 0) \in L
  BY LinkFacts DEF At
<1>5. \A k \in 0..Len(stack) : At(cs, stack, k) \in L /\ At(cs, stack, k) \in Nat
  BY <1>1, <1>2, <1>3, <1>4
<1> DEFINE at == [k \in 0..Len(stack) |-> At(cs, stack, k)]
           S == {k \in Nat : \A j \in Nat : j < k /\ k <= Len(stack) => at[j] < at[k]}
<1>6. \A k \in 1..Len(stack) : at[k - 1] < at[k]
  BY <1>1, <1>3
<1>7. \A k \in 0..Len(stack) : at[k] \in Nat
  BY <1>5
<1> HIDE DEF at
<1>8. 0 \in S
  OBVIOUS
<1>9. ASSUME NEW k \in Nat, k \in S PROVE k + 1 \in S
  <2> SUFFICES ASSUME NEW j \in Nat, j < k + 1, k + 1 <= Len(stack)
               PROVE  at[j] < at[k + 1]
    OBVIOUS
  <2>1. at[k] < at[k + 1]
    <3>1. k + 1 \in 1..Len(stack) /\ (k + 1) - 1 = k
      BY <1>1
    <3> QED
      BY <1>6, <3>1
  <2>2. at[k] \in Nat /\ at[k + 1] \in Nat /\ at[j] \in Nat
    BY <1>1, <1>7
  <2>3. CASE j = k
    BY <2>1, <2>3
  <2>4. CASE j < k
    <3>1. at[j] < at[k]
      BY <1>1, <1>9, <2>4
    <3> QED
      BY <2>1, <2>2, <3>1
  <2> QED
    BY <2>3, <2>4
<1> HIDE DEF S
<1>10. \A k \in Nat : k \in S
  BY <1>8, <1>9, SetInduction
<1>11. \A j, k \in 0..Len(stack) : j < k => at[j] < at[k]
  BY <1>1, <1>10 DEF S
<1>12. \A j, k \in 0..Len(stack) : j < k => At(cs, stack, j) < At(cs, stack, k)
  BY <1>11 DEF at
<1>13. \A j, k \in 0..Len(stack) : At(cs, stack, j) = At(cs, stack, k) => j = k
  <2> TAKE j, k \in 0..Len(stack)
  <2>1. At(cs, stack, j) \in Nat /\ At(cs, stack, k) \in Nat /\ j \in Nat /\ k \in Nat
    BY <1>5
  <2> QED
    BY <1>12, <2>1
<1> QED
  BY <1>1, <1>5, <1>12, <1>13

Backed(cs, stack, ds) ==
  /\ SameIndex(cs, ds) /\ SameMoves(cs, ds)
  /\ \A i \in Indices(cs) :
       ds[i + 1].sim_count = cs[i + 1].sim_count + IF i \in ToSet(stack) THEN 1 ELSE 0

(* Backpropagation changes counts alone. *)
LEMMA BackpropagateIs ==
  ASSUME NEW cs \in Seq(ChildRecord), NEW stack
  PROVE  Backed(cs, stack, Backpropagate(cs, stack))
<1> DEFINE ds == Backpropagate(cs, stack)
<1>1. Len(cs) \in Nat /\ DOMAIN cs = 1..Len(cs)
  OBVIOUS
<1>2. \A k \in 1..Len(cs) : ds[k] = IF k - 1 \in ToSet(stack) THEN [cs[k] EXCEPT !.sim_count = @ + 1] ELSE cs[k]
  BY <1>1 DEF Backpropagate
<1>3. \A k \in 1..Len(cs) : cs[k] \in ChildRecord
  OBVIOUS
<1>4. \A k \in 1..Len(cs) : ds[k] \in ChildRecord
  <2> TAKE k \in 1..Len(cs)
  <2>1. cs[k] \in ChildRecord
    BY <1>3
  <2> DEFINE c == cs[k]
  <2>3. [c EXCEPT !.sim_count = @ + 1] = [semimove |-> c.semimove, index |-> c.index, sim_count |-> c.sim_count + 1]
    BY <2>1 DEF ChildRecord
  <2>4. c.semimove \in Seq(Action) /\ c.index \in Nat /\ c.sim_count + 1 \in Nat
    BY <2>1 DEF ChildRecord
  <2> HIDE DEF c
  <2>5. [c EXCEPT !.sim_count = @ + 1] \in ChildRecord
    BY <2>3, <2>4 DEF ChildRecord
  <2>2. [cs[k] EXCEPT !.sim_count = @ + 1] \in ChildRecord
    BY <2>5 DEF c
  <2> QED
    BY <1>2, <2>1, <2>2
<1>5. ds \in Seq(ChildRecord) /\ Len(ds) = Len(cs)
  <2>1. ds \in [1..Len(cs) -> ChildRecord]
    BY <1>1, <1>4 DEF Backpropagate
  <2> QED
    BY <1>1, <2>1
<1>6. \A i \in Indices(cs) : i + 1 \in 1..Len(cs) /\ (i + 1) - 1 = i
  BY <1>1 DEF Indices
<1>7. ASSUME NEW i \in Indices(cs)
      PROVE  /\ ds[i + 1].index = cs[i + 1].index /\ ds[i + 1].semimove = cs[i + 1].semimove
             /\ ds[i + 1].sim_count = cs[i + 1].sim_count + IF i \in ToSet(stack) THEN 1 ELSE 0
  <2>1. ds[i + 1] = IF i \in ToSet(stack) THEN [cs[i + 1] EXCEPT !.sim_count = @ + 1] ELSE cs[i + 1]
    BY <1>2, <1>6
  <2>2. cs[i + 1] \in ChildRecord
    BY <1>3, <1>6
  <2> HIDE DEF ds
  <2> QED
    BY <2>1, <2>2 DEF ChildRecord
<1> QED
  BY <1>5, <1>7 DEF Backed, SameIndex, SameMoves

OnWay(cs, stack, n) == IF \E k \in 1..Len(stack) : At(cs, stack, k - 1) = n THEN 1 ELSE 0

(* Every node left on the way has one simulation more in its block. *)
LEMMA BlockSimsBacked ==
  ASSUME NEW ns, NEW cs, NEW L, Vectors(ns, cs), Links(ns, cs, L), NEW stack, NEW n, Way(ns, cs, L, stack, n),
         NEW ds, Backed(cs, stack, ds), NEW p \in L
  PROVE  BlockSims(ds, ns[p + 1]) = BlockSims(cs, ns[p + 1]) + OnWay(cs, stack, p)
<1>1. /\ stack \in Seq(Indices(cs)) /\ Len(stack) \in Nat
      /\ \A k \in 1..Len(stack) : At(cs, stack, k - 1) \in L
                                  /\ stack[k] \in BlockOf(ns, At(cs, stack, k - 1))
                                  /\ At(cs, stack, k) # 0
  BY DEF Way
<1>2. p \in Indices(ns) /\ \A i \in BlockOf(ns, p) : i \in Indices(cs) /\ cs[i + 1].sim_count \in Nat
  BY LinkFacts, VectorFacts
<1>3. Len(ds) = Len(cs) /\ Len(ds) \in Nat /\ Len(cs) <= Len(ds) /\ BlockSims(cs, ns[p + 1]) \in Nat
  BY <1>2, VectorFacts, BlockSimsNat DEF Backed, SameIndex
<1>4. \A k \in 1..Len(stack) : stack[k] \in BlockOf(ns, p) => At(cs, stack, k - 1) = p
  BY <1>1, LinkFacts
<1>5. ToSet(stack) = {stack[k] : k \in 1..Len(stack)}
  BY <1>1 DEF ToSet
<1>6. CASE \E k \in 1..Len(stack) : At(cs, stack, k - 1) = p
  <2>1. PICK k \in 1..Len(stack) : At(cs, stack, k - 1) = p
    BY <1>6
  <2> DEFINE l == stack[k]
  <2>2. l \in BlockOf(ns, p) /\ l \in ToSet(stack)
    BY <1>1, <1>5, <2>1
  <2>3. \A i \in BlockOf(ns, p) : i \in ToSet(stack) => i = l
    <3> TAKE i \in BlockOf(ns, p)
    <3> HAVE i \in ToSet(stack)
    <3>1. PICK j \in 1..Len(stack) : i = stack[j]
      BY <1>5
    <3>2. At(cs, stack, j - 1) = At(cs, stack, k - 1)
      BY <1>4, <2>1, <3>1
    <3>3. j - 1 \in 0..Len(stack) /\ k - 1 \in 0..Len(stack)
      BY <1>1
    <3>4. j - 1 = k - 1
      BY <3>2, <3>3, WayFacts
    <3> QED
      BY <3>1, <3>4
  <2> HIDE DEF l
  <2>4. ds[l + 1].sim_count = cs[l + 1].sim_count + 1
    BY <1>2, <2>2 DEF Backed
  <2>5. \A i \in BlockOf(ns, p) : i # l => ds[i + 1].sim_count = cs[i + 1].sim_count
    <3> TAKE i \in BlockOf(ns, p)
    <3> HAVE i # l
    <3>1. ds[i + 1].sim_count = cs[i + 1].sim_count + 0
      BY <1>2, <2>3 DEF Backed
    <3> QED
      BY <1>2, <3>1
  <2>6. BlockSims(ds, ns[p + 1]) = BlockSims(cs, ns[p + 1]) + 1
    <3>1. OneMoreOf(BlockOf(ns, p), l, cs, ds)
      BY <1>3, <2>2, <2>4, <2>5 DEF OneMoreOf
    <3> QED
      BY <1>2, <3>1, BlockSimsOneMore
  <2> QED
    BY <1>6, <2>6 DEF OnWay
<1>7. CASE ~ \E k \in 1..Len(stack) : At(cs, stack, k - 1) = p
  <2>1. \A i \in BlockOf(ns, p) : i \notin ToSet(stack)
    BY <1>4, <1>5, <1>7
  <2>2. \A i \in BlockOf(ns, p) : ds[i + 1].sim_count = cs[i + 1].sim_count
    <3> TAKE i \in BlockOf(ns, p)
    <3>1. ds[i + 1].sim_count = cs[i + 1].sim_count + 0
      BY <1>2, <2>1 DEF Backed
    <3> QED
      BY <1>2, <3>1
  <2>3. BlockSims(ds, ns[p + 1]) = BlockSims(cs, ns[p + 1])
    BY <1>2, <1>3, <2>2, BlockSimsAlike
  <2> QED
    BY <1>3, <1>7, <2>3 DEF OnWay
<1> QED
  BY <1>6, <1>7

(* What is counted along the way is still to be given on at its end. *)
LEMMA BackpropagateCounts ==
  ASSUME NEW ns, NEW cs, NEW L, Vectors(ns, cs), Links(ns, cs, L), NEW stack, NEW n, Way(ns, cs, L, stack, n),
         NEW ds, Backed(cs, stack, ds), NEW total \in Nat, NEW rolled, Counted(ns, cs, L, total, rolled)
  PROVE  CountedBut(ns, ds, L, total + 1, rolled, n)
<1>1. /\ stack \in Seq(Indices(cs)) /\ Len(stack) \in Nat
      /\ \A k \in 1..Len(stack) : At(cs, stack, k - 1) \in L
                                  /\ stack[k] \in BlockOf(ns, At(cs, stack, k - 1))
                                  /\ At(cs, stack, k) # 0
      /\ n = At(cs, stack, Len(stack))
  BY DEF Way
<1>2. /\ Indices(ds) = Indices(cs)
      /\ \A i \in Indices(cs) :
           /\ ds[i + 1].index = cs[i + 1].index
           /\ ds[i + 1].sim_count = cs[i + 1].sim_count + IF i \in ToSet(stack) THEN 1 ELSE 0
           /\ cs[i + 1].sim_count \in Nat
  BY SameIndexKeeps, VectorFacts DEF Backed, SameIndex
<1>3. ToSet(stack) = {stack[k] : k \in 1..Len(stack)}
  BY <1>1 DEF ToSet
<1>4. \A k \in 1..Len(stack) : stack[k] \in Indices(cs) /\ At(cs, stack, k) = cs[stack[k] + 1].index
  BY <1>1 DEF At
<1>5. \A p \in L : /\ BlockSims(ds, ns[p + 1]) = BlockSims(cs, ns[p + 1]) + OnWay(cs, stack, p)
                   /\ BlockSims(cs, ns[p + 1]) \in Nat
                   /\ p \in Nat /\ OnWay(cs, stack, p) \in Nat
  BY BlockSimsBacked, LinkFacts, BlockSimsNat DEF OnWay
<1>6. \A p \in Nat : Extra(Nobody, p) = 0
  BY DEF Extra, Nobody
<1>7. \A i \in Indices(ds) : ds[i + 1].index = 0 <=> ds[i + 1].sim_count = 0
  <2> TAKE i \in Indices(ds)
  <2>1. CASE i \in ToSet(stack)
    <3>1. PICK k \in 1..Len(stack) : i = stack[k]
      BY <1>3, <2>1
    <3> QED
      BY <1>1, <1>2, <1>4, <2>1, <3>1
  <2>2. CASE i \notin ToSet(stack)
    BY <1>2, <2>2 DEF Counted, CountedBut
  <2> QED
    BY <2>1, <2>2
<1>8. ~is_terminal(ns[1]) =>
        ((total + 1) - BlockSims(ds, ns[1])) - Extra(n, 0) \in Surplus(rolled, TRUE, ns[1])
  <2> DEFINE b == BlockSims(cs, ns[1])
             x == OnWay(cs, stack, 0)
  <2>1. BlockSims(ds, ns[1]) = b + x /\ b \in Nat /\ x \in Nat
    <3>1. /\ BlockSims(ds, ns[0 + 1]) = BlockSims(cs, ns[0 + 1]) + OnWay(cs, stack, 0)
          /\ BlockSims(cs, ns[0 + 1]) \in Nat /\ OnWay(cs, stack, 0) \in Nat
      BY <1>5, LinkFacts
    <3>2. ns[0 + 1] = ns[1]
      OBVIOUS
    <3> QED
      BY <3>1, <3>2
  <2>2. ~is_terminal(ns[1]) => (total - b) - Extra(Nobody, 0) \in Surplus(rolled, TRUE, ns[1])
    BY DEF Counted, CountedBut
  <2>3. x + Extra(n, 0) = 1 /\ Extra(n, 0) \in Nat
    <3>1. CASE Len(stack) = 0
      <4>1. n = 0
        BY <1>1, <3>1 DEF At
      <4>2. 1..Len(stack) = {}
        BY <3>1
      <4> QED
        BY <4>1, <4>2 DEF Extra, OnWay
    <3>2. CASE Len(stack) # 0
      <4>1. Len(stack) \in 1..Len(stack) /\ 1 \in 1..Len(stack)
        BY <1>1, <3>2
      <4>2. n # 0
        BY <1>1, <4>1
      <4>3. At(cs, stack, 1 - 1) = 0
        BY DEF At
      <4> QED
        BY <4>1, <4>2, <4>3 DEF Extra, OnWay
    <3> QED
      BY <3>1, <3>2
  <2>4. Extra(Nobody, 0) = 0
    BY <1>6
  <2> HIDE DEF b, x
  <2>5. ((total + 1) - (b + x)) - Extra(n, 0) = (total - b) - Extra(Nobody, 0)
    BY <2>1, <2>3, <2>4
  <2> QED
    BY <2>1, <2>2, <2>5
<1>9. \A p \in L : \A i \in BlockOf(ns, p) : CountAt(ns, ds, rolled, n, ds[i + 1])
  <2> TAKE p \in L
  <2> TAKE i \in BlockOf(ns, p)
  <2> DEFINE c == cs[i + 1].index
             s == cs[i + 1].sim_count
  <2>1. i \in Indices(cs) /\ ds[i + 1].index = c /\ s \in Nat
    BY <1>2, LinkFacts
  <2>2. CASE c = 0
    BY <2>1, <2>2 DEF CountAt
  <2>3. CASE c # 0
    <3> DEFINE b == BlockSims(cs, ns[c + 1])
               x == OnWay(cs, stack, c)
               y == IF i \in ToSet(stack) THEN 1 ELSE 0
    <3>1. c \in L /\ c \in Nat
      BY <2>3, LinkFacts
    <3>2. BlockSims(ds, ns[c + 1]) = b + x /\ b \in Nat /\ x \in Nat
      BY <1>5, <3>1
    <3>3. ds[i + 1].sim_count = s + y /\ y \in Nat
      BY <1>2, <2>1
    <3>4. CountAt(ns, cs, rolled, Nobody, cs[i + 1])
      BY DEF Counted, CountedBut
    <3>5. i \in ToSet(stack) <=> \E k \in 1..Len(stack) : At(cs, stack, k) = c
      <4>1. ASSUME NEW k \in 1..Len(stack), At(cs, stack, k) = c PROVE i = stack[k]
        <5>1. At(cs, stack, k - 1) \in L /\ stack[k] \in BlockOf(ns, At(cs, stack, k - 1))
          BY <1>1
        <5> QED
          BY <1>4, <2>3, <4>1, <5>1, LinkFacts
      <4> QED
        BY <1>3, <1>4, <4>1
    <3>6. x + Extra(n, c) = y /\ Extra(n, c) \in Nat
      <4>1. CASE n = c
        <5>1. \A k \in 1..Len(stack) : At(cs, stack, k - 1) # c
          <6> TAKE k \in 1..Len(stack)
          <6>1. k - 1 \in 0..Len(stack) /\ Len(stack) \in 0..Len(stack) /\ k - 1 # Len(stack)
            BY <1>1
          <6> QED
            BY <1>1, <4>1, <6>1, WayFacts
        <5>2. Len(stack) # 0
          BY <1>1, <2>3, <4>1 DEF At
        <5>3. Len(stack) \in 1..Len(stack)
          BY <1>1, <5>2
        <5>4. i \in ToSet(stack)
          BY <1>1, <3>5, <4>1, <5>3
        <5> QED
          BY <4>1, <5>1, <5>4 DEF Extra, OnWay
      <4>2. CASE n # c
        <5>1. (\E k \in 1..Len(stack) : At(cs, stack, k - 1) = c) <=> \E k \in 1..Len(stack) : At(cs, stack, k) = c
          <6>1. ASSUME NEW k \in 1..Len(stack), At(cs, stack, k - 1) = c
                PROVE  \E j \in 1..Len(stack) : At(cs, stack, j) = c
            <7>1. k - 1 # 0
              BY <2>3, <6>1 DEF At
            <7>2. k - 1 \in 1..Len(stack)
              BY <1>1, <7>1
            <7> QED
              BY <6>1, <7>2
          <6>2. ASSUME NEW k \in 1..Len(stack), At(cs, stack, k) = c
                PROVE  \E j \in 1..Len(stack) : At(cs, stack, j - 1) = c
            <7>1. k # Len(stack)
              BY <1>1, <4>2, <6>2
            <7>2. k + 1 \in 1..Len(stack) /\ (k + 1) - 1 = k
              BY <1>1, <7>1
            <7> QED
              BY <6>2, <7>2
          <6> QED
            BY <6>1, <6>2
        <5> QED
          BY <3>5, <4>2, <5>1 DEF Extra, OnWay
      <4> QED
        BY <4>1, <4>2
    <3>7. Extra(Nobody, c) = 0
      BY <1>6, <3>1
    <3> HIDE DEF b, x, y
    <3>8. ((s + y) - (b + x)) - Extra(n, c) = (s - b) - Extra(Nobody, c)
      <4> HIDE DEF s, c
      <4> QED
        BY <2>1, <3>2, <3>3, <3>6, <3>7
    <3> QED
      BY <2>1, <3>2, <3>3, <3>4, <3>8 DEF CountAt, b
  <2> QED
    BY <2>2, <2>3
<1> QED
  BY <1>7, <1>8, <1>9 DEF CountedBut

(* A terminal node gives on nothing. *)
LEMMA TerminalSettles ==
  ASSUME NEW ns, NEW cs, NEW L, Vectors(ns, cs), Links(ns, cs, L), NEW n, is_terminal(ns[n + 1]),
         NEW total, NEW rolled, CountedBut(ns, cs, L, total, rolled, n)
  PROVE  Counted(ns, cs, L, total, rolled)
<1>1. ASSUME NEW p \in L, NEW i \in BlockOf(ns, p) PROVE CountAt(ns, cs, rolled, Nobody, cs[i + 1])
  <2>1. CountAt(ns, cs, rolled, n, cs[i + 1])
    BY DEF CountedBut
  <2>2. cs[i + 1].index \in Nat
    BY LinkFacts, VectorFacts
  <2> DEFINE c == cs[i + 1].index
  <2>3. ~is_terminal(ns[c + 1]) => Extra(n, c) = 0
    BY DEF Extra
  <2>4. Extra(Nobody, c) = 0
    BY <2>2 DEF Extra, Nobody
  <2> QED
    BY <2>1, <2>3, <2>4 DEF CountAt
<1>2. ~is_terminal(ns[1]) => (total - BlockSims(cs, ns[1])) - Extra(Nobody, 0) \in Surplus(rolled, TRUE, ns[1])
  <2>1. ~is_terminal(ns[1]) => n # 0
    <3>1. ns[0 + 1] = ns[1]
      OBVIOUS
    <3> QED
      BY <3>1
  <2>2. ~is_terminal(ns[1]) => Extra(n, 0) = 0
    BY <2>1 DEF Extra
  <2>3. Extra(Nobody, 0) = 0
    BY DEF Extra, Nobody
  <2>4. ~is_terminal(ns[1]) => (total - BlockSims(cs, ns[1])) - Extra(n, 0) \in Surplus(rolled, TRUE, ns[1])
    BY DEF CountedBut
  <2> QED
    BY <2>2, <2>3, <2>4
<1> QED
  BY <1>1, <1>2 DEF Counted, CountedBut

-----------------------------------------------------------------------------
(* A visit: the first unvisited child, and with IS_NODAL the rest of the   *)
(* turn below it.                                                          *)

(* Visited children come first, and the guess finds the first that is not. *)
LEMMA FirstOpen ==
  ASSUME NEW ns, NEW cs, Vectors(ns, cs), NEW L, L \subseteq Indices(ns), VisitedOnTop(ns, cs, L), NEW n \in L,
         \A i \in Indices(cs) : cs[i + 1].index = 0 <=> cs[i + 1].sim_count = 0,
         NEW sims \in Nat, BlockSims(cs, ns[n + 1]) <= sims,
         {i \in BlockOf(ns, n) : cs[i + 1].index = 0} # {}
  PROVE  /\ FirstUnvisited(cs, ns[n + 1], sims) \in BlockOf(ns, n)
         /\ \A i \in BlockOf(ns, n) : cs[i + 1].index = 0 <=> FirstUnvisited(cs, ns[n + 1], sims) <= i
         /\ Min({i \in BlockOf(ns, n) : cs[i + 1].index = 0}) = FirstUnvisited(cs, ns[n + 1], sims)
<1> DEFINE node == ns[n + 1]
           a == node.first
           b == node.second
           f == SimCounts(cs)
           open == {i \in BlockOf(ns, n) : cs[i + 1].index = 0}
<1>1. a \in Nat /\ b \in Nat /\ Len(cs) \in Nat /\ n \in Indices(ns)
  BY VectorFacts
<1>2. \A i \in BlockOf(ns, n) : /\ a <= i /\ i < b /\ i \in Nat /\ i \in Indices(cs)
                                /\ cs[i + 1].sim_count \in Nat
                                /\ f[i] = cs[i + 1].sim_count
  BY <1>1, VectorFacts DEF SimCounts, Indices
<1>3. BlockOf(ns, n) = a..(b - 1) /\ ChildIndices(node) = a..(b - 1)
  BY DEF BlockOf, ChildIndices
<1>4. PICK l \in open : \A y \in open : l <= y
  <2>1. open \subseteq Nat /\ open # {}
    BY <1>2
  <2> HIDE DEF open
  <2> QED
    BY <2>1, LeastNat
<1>5. l \in BlockOf(ns, n) /\ cs[l + 1].index = 0 /\ \A i \in BlockOf(ns, n) : cs[i + 1].index = 0 => l <= i
  BY <1>4
<1>6. \A i \in BlockOf(ns, n) : cs[i + 1].index = 0 <=> l <= i
  BY <1>2, <1>5 DEF VisitedOnTop
<1> DEFINE v == l - a
           m == b - a
<1>7. v \in Nat /\ m \in Nat /\ a + v = l /\ a + m = b /\ v \in 0..m /\ l \in Nat
  <2>1. a \in Nat /\ b \in Nat /\ l \in Nat /\ a <= l /\ l < b
    BY <1>1, <1>2, <1>5
  <2> HIDE DEF a, b, node
  <2> QED
    BY <2>1
<1> HIDE DEF f, a, b, node
<1>8. \A k \in 0..(m - 1) : a + k \in BlockOf(ns, n)
  BY <1>1, <1>3, <1>7
<1>9. \A k \in 0..(m - 1) : f[a + k] \in Nat
  BY <1>2, <1>8
<1>10. \A k \in 0..(v - 1) : f[a + k] > 0
  <2> TAKE k \in 0..(v - 1)
  <2>1. k \in 0..(m - 1) /\ ~(l <= a + k)
    BY <1>1, <1>7
  <2>2. a + k \in BlockOf(ns, n) /\ cs[a + k + 1].index # 0
    BY <1>6, <1>8, <2>1
  <2>3. cs[a + k + 1].sim_count # 0
    BY <1>2, <2>2
  <2> QED
    BY <1>2, <2>2, <2>3
<1> HIDE DEF v, m
<1>11. v <= sims
  <2>1. SumOver(f, a..((a + m) - 1)) >= v
    <3>1. a \in Int
      BY <1>1
    <3> QED
      BY <1>7, <1>9, <1>10, <3>1, RangeSumBounds
  <2>2. BlockSims(cs, node) = SumOver(f, a..((a + m) - 1)) /\ BlockSims(cs, node) <= sims
    BY <1>3, <1>7 DEF BlockSims, f, node
  <2>3. BlockSims(cs, node) \in Nat
    BY <1>1, BlockSimsNat DEF node
  <2> QED
    BY <1>7, <2>1, <2>2, <2>3
<1>12. a + v < b
  BY <1>2, <1>5, <1>7
<1>13. \A i \in ChildIndices(node) : cs[i + 1].index = 0 <=> a + v <= i
  BY <1>3, <1>6, <1>7
<1>14. /\ FirstUnvisited(cs, node, sims) = a + v
       /\ Min({i \in ChildIndices(node) : cs[i + 1].index = 0}) = a + v
  <2>1. node.first = a /\ node.second = b
    BY DEF a, b
  <2>2. node.first \in Nat /\ node.second \in Nat /\ node.first + v < node.second
    BY <1>1, <1>12, <2>1
  <2>4. \A i \in ChildIndices(node) : cs[i + 1].index = 0 <=> node.first + v <= i
    BY <1>13, <2>1
  <2>5. v \in Nat /\ v <= sims /\ sims \in Nat
    BY <1>7, <1>11
  <2>3. /\ FirstUnvisited(cs, node, sims) = node.first + v
        /\ Min({i \in ChildIndices(node) : cs[i + 1].index = 0}) = node.first + v
    BY <2>2, <2>4, <2>5, FirstUnvisitedFound
  <2> QED
    BY <2>1, <2>3
<1> QED
  BY <1>3, <1>5, <1>6, <1>7, <1>14 DEF node

(* A tree at whose end, the last node, a simulation stands in state s.     *)
Ends(ns, cs, L, root, pos, total, rolled, stack, s, e) ==
  /\ Tree(ns, cs, L, root, pos)
  /\ CountedBut(ns, cs, L, total, rolled, e)
  /\ Way(ns, cs, L, stack, Len(ns) - 1)
  /\ Len(ns) - 1 \in L
  /\ pos[Len(ns) - 1] = s
  /\ Touched(ns, cs, L, Nobody)

(* Counting does not change that, and a node just expanded may wait.       *)
LEMMA SameIndexTouches ==
  ASSUME NEW ns, NEW cs, NEW L, Vectors(ns, cs), Links(ns, cs, L), NEW ds, SameIndex(cs, ds),
         NEW m, Touched(ns, cs, L, m)
  PROVE  Touched(ns, ds, L, m)
BY LinkFacts DEF Touched, SameIndex

(* An expansion leaves only the expanded node without a visited child. *)
LEMMA ExpandTouches ==
  ASSUME NEW ns, NEW cs, NEW L, NEW pos, Vectors(ns, cs), Links(ns, cs, L),
         NEW m, NEW acts, Expandable(ns, L, pos, m, acts), NEW ms, NEW ds, Expands(ns, cs, m, acts, ms, ds),
         NEW e, e \in {m, Nobody}, Touched(ns, cs, L, e)
  PROVE  Touched(ms, ds, L, m)
<1>1. Widened(ns, cs, m, acts, ms, ds)
  BY ExpandBlocks
<1> SUFFICES ASSUME NEW n \in L, n # m, is_expanded(ms[n + 1]), ~ms[n + 1].is_nodal
             PROVE  \E i \in BlockOf(ms, n) : ds[i + 1].index # 0
  BY DEF Touched
<1>2. n \in Indices(ns) /\ n \in Nat /\ ms[n + 1] = ns[n + 1] /\ BlockOf(ms, n) = BlockOf(ns, n)
  BY <1>1, LinkFacts DEF Widened
<1>3. n # e
  BY <1>2 DEF Nobody
<1>4. PICK i \in BlockOf(ns, n) : cs[i + 1].index # 0
  BY <1>2, <1>3 DEF Touched
<1>5. i \in Indices(cs)
  BY <1>4, LinkFacts
<1>6. ds[i + 1] = cs[i + 1]
  BY <1>1, <1>5 DEF Widened
<1> QED
  BY <1>2, <1>4, <1>6

(* It was for something that the node above was expanded. *)
LEMMA GrowTouches ==
  ASSUME NEW ns, NEW cs, NEW L, NEW pos, Vectors(ns, cs), Links(ns, cs, L),
         NEW m, NEW l, NEW node, NEW t, Growable(ns, cs, L, pos, m, l, node, t),
         NEW ms, NEW ds, Grows(ns, cs, l, node, ms, ds), Touched(ns, cs, L, m)
  PROVE  Touched(ms, ds, L \cup {Len(ns)}, Nobody)
<1>1. Grew(ns, cs, L, m, l, node, ms, ds)
  BY GrowFacts
<1> SUFFICES ASSUME NEW n \in L \cup {Len(ns)}, is_expanded(ms[n + 1]), ~ms[n + 1].is_nodal
             PROVE  \E i \in BlockOf(ms, n) : ds[i + 1].index # 0
  BY DEF Touched
<1>2. CASE n = m
  <2>1. l \in BlockOf(ms, n) /\ ds[l + 1].index = Len(ns) /\ Len(ns) # 0
    BY <1>1, <1>2 DEF Grew, Growable, Grows
  <2> QED
    BY <2>1
<1>3. CASE n # m /\ n \in L
  <2>1. n \in Indices(ns) /\ ms[n + 1] = ns[n + 1] /\ BlockOf(ms, n) = BlockOf(ns, n)
    BY <1>1, <1>3, LinkFacts DEF Grew
  <2>2. PICK i \in BlockOf(ns, n) : cs[i + 1].index # 0
    BY <1>3, <2>1 DEF Touched
  <2>3. i # l /\ i \in Indices(cs)
    BY <1>1, <1>3, <2>2, LinkFacts DEF Grew
  <2>4. ds[i + 1] = cs[i + 1]
    BY <1>1, <2>3 DEF Grew
  <2> QED
    BY <2>1, <2>2, <2>4
<1>4. CASE n = Len(ns)
  <2>1. ms[n + 1] = node /\ Suits(node, t)
    BY <1>1, <1>4 DEF Grew, Growable
  <2>2. ~node.is_nodal /\ is_expanded(node)
    BY <2>1
  <2>3. node.status = TrueStatus(t) /\ t \notin Nodal
    BY <2>1, <2>2 DEF Suits
  <2>4. ~is_terminal(node)
    BY <2>3 DEF TrueStatus, is_terminal
  <2> QED
    BY <2>1, <2>2, <2>4 DEF Suits
<1> QED
  BY <1>2, <1>3, <1>4

(* A new node is such an end. *)
LEMMA GrowEnds ==
  ASSUME NEW ns, NEW cs, NEW L, NEW root, NEW pos, Tree(ns, cs, L, root, pos),
         NEW m, NEW l, NEW node, NEW t, Growable(ns, cs, L, pos, m, l, node, t),
         NEW ms, NEW ds, Grows(ns, cs, l, node, ms, ds),
         NEW total \in Nat, NEW rolled, CountedBut(ns, cs, L, total, rolled, m),
         NEW e, Gives(rolled, node, Len(ns), e),
         NEW stack, Way(ns, cs, L, stack, m), Touched(ns, cs, L, m)
  PROVE  Ends(ms, ds, L \cup {Len(ns)}, root, Grown(pos, L, Len(ns), t), total, rolled, Append(stack, l), t, e)
<1>1. Vectors(ns, cs) /\ Links(ns, cs, L)
  BY DEF Tree
<1>2. Tree(ms, ds, L \cup {Len(ns)}, root, Grown(pos, L, Len(ns), t))
  BY GrowKeepsTree
<1>3. Vectors(ms, ds)
  BY <1>2 DEF Tree
<1>5. CountedBut(ms, ds, L \cup {Len(ns)}, total, rolled, e)
  BY <1>1, <1>3, GrowKeepsCounts
<1>6. Way(ms, ds, L \cup {Len(ns)}, Append(stack, l), Len(ns))
  BY <1>1, GrowLeadsOn
<1>7. Len(ms) - 1 = Len(ns)
  BY <1>1, VectorFacts DEF Grows
<1>8. Grown(pos, L, Len(ns), t)[Len(ns)] = t
  BY DEF Grown
<1>9. Touched(ms, ds, L \cup {Len(ns)}, Nobody)
  BY <1>1, GrowTouches
<1> QED
  BY <1>2, <1>5, <1>6, <1>7, <1>8, <1>9 DEF Ends

(* A child gets a new index; so it does in its vector. *)
LEMMA ChildSet ==
  ASSUME NEW c \in ChildRecord, NEW y \in Nat
  PROVE  /\ [c EXCEPT !.index = y] \in ChildRecord
         /\ [c EXCEPT !.index = y].index = y /\ [c EXCEPT !.index = y].semimove = c.semimove
         /\ [c EXCEPT !.index = y].sim_count = c.sim_count
<1>1. [c EXCEPT !.index = y] \in ChildRecord
  BY DEF ChildRecord
<1>2. [c EXCEPT !.index = y] = [semimove |-> c.semimove, index |-> y, sim_count |-> c.sim_count]
  BY DEF ChildRecord
<1> QED
  BY <1>1, <1>2

(* What that leaves where. *)
LEMMA IndexSet ==
  ASSUME NEW cs \in Seq(ChildRecord), NEW p \in 1..Len(cs), NEW y \in Nat
  PROVE  /\ [cs EXCEPT ![p].index = y] \in Seq(ChildRecord)
         /\ Len([cs EXCEPT ![p].index = y]) = Len(cs)
         /\ [cs EXCEPT ![p].index = y][p].index = y
         /\ [cs EXCEPT ![p].index = y][p].semimove = cs[p].semimove
         /\ [cs EXCEPT ![p].index = y][p].sim_count = cs[p].sim_count
         /\ \A k \in 1..Len(cs) : k # p => [cs EXCEPT ![p].index = y][k] = cs[k]
<1> DEFINE c == cs[p]
<1>1. c \in ChildRecord
  OBVIOUS
<1>5. [cs EXCEPT ![p].index = y] = [cs EXCEPT ![p] = [c EXCEPT !.index = y]]
  OBVIOUS
<1> HIDE DEF c
<1>4. [c EXCEPT !.index = y] \in ChildRecord
  BY <1>1, ChildSet
<1>6. [c EXCEPT !.index = y].index = y /\ [c EXCEPT !.index = y].semimove = c.semimove
      /\ [c EXCEPT !.index = y].sim_count = c.sim_count
  BY <1>1, ChildSet
<1> DEFINE d == [c EXCEPT !.index = y]
<1> HIDE DEF d
<1>7. /\ [cs EXCEPT ![p] = d] \in Seq(ChildRecord)
      /\ Len([cs EXCEPT ![p] = d]) = Len(cs)
      /\ [cs EXCEPT ![p] = d][p] = d
      /\ \A k \in 1..Len(cs) : k # p => [cs EXCEPT ![p] = d][k] = cs[k]
  BY <1>4 DEF d
<1> QED
  BY <1>5, <1>6, <1>7 DEF d, c

(* The first step of a visit, seen as if the counts along the way had been *)
(* changed first: the child i is swapped to l and gets a node.             *)
VisitStart(ns, cs, stack, i, l, any) ==
  [nodes |-> Append(ns, any),
   children |-> [Swap(cs, i, l) EXCEPT ![l + 1].index = Len(ns)],
   stack |-> Append(stack, l)]

Openings(ns, cs, n, i, l) ==
  /\ i \in BlockOf(ns, n) /\ l \in BlockOf(ns, n) /\ l <= i
  /\ \A j \in BlockOf(ns, n) : cs[j + 1].index = 0 <=> l <= j

(* Counting along the way first, then growing, gives the same children.    *)
LEMMA VisitedChildren ==
  ASSUME NEW ns, NEW cs, NEW L, Vectors(ns, cs), Links(ns, cs, L), NEW stack, NEW n \in L, Way(ns, cs, L, stack, n),
         \A j \in Indices(cs) : cs[j + 1].index = 0 <=> cs[j + 1].sim_count = 0,
         NEW i, NEW l, Openings(ns, cs, n, i, l), NEW any, NEW node \in NodeRecord,
         NEW bs, Backed(cs, stack, bs)
  PROVE  LET t == VisitStart(ns, cs, stack, i, l, any)
         IN /\ t.children \in Seq(ChildRecord) /\ Len(t.children) = Len(cs)
            /\ t.stack \in Seq(Indices(t.children))
            /\ Grows(ns, Swap(bs, i, l), l, node, Append(ns, node), Backpropagate(t.children, t.stack))
<1> DEFINE t == VisitStart(ns, cs, stack, i, l, any)
           F == Swap(cs, i, l)
           G == Swap(bs, i, l)
           D == t.children
           E == Backpropagate(D, t.stack)
<1>1. cs \in Seq(ChildRecord) /\ ns \in Seq(NodeRecord) /\ Len(cs) \in Nat /\ Len(ns) \in Nat \ {0}
  BY VectorFacts DEF Vectors
<1>2. /\ i \in Indices(cs) /\ l \in Indices(cs) /\ i \in Nat /\ l \in Nat
      /\ cs[i + 1].index = 0 /\ cs[l + 1].index = 0 /\ cs[i + 1].sim_count = 0 /\ cs[l + 1].sim_count = 0
  <2>1. i \in Indices(cs) /\ l \in Indices(cs) /\ i \in Nat /\ l \in Nat
    BY LinkFacts, VectorFacts DEF Openings
  <2>2. cs[i + 1].index = 0 /\ cs[l + 1].index = 0
    BY <2>1 DEF Openings
  <2> QED
    BY <2>1, <2>2
<1>3. /\ bs \in Seq(ChildRecord) /\ Len(bs) = Len(cs) /\ Indices(bs) = Indices(cs)
      /\ \A j \in Indices(cs) :
           /\ bs[j + 1].index = cs[j + 1].index /\ bs[j + 1].semimove = cs[j + 1].semimove
           /\ bs[j + 1].sim_count = cs[j + 1].sim_count + IF j \in ToSet(stack) THEN 1 ELSE 0
           /\ cs[j + 1] \in ChildRecord /\ bs[j + 1] \in ChildRecord
  <2>1. bs \in Seq(ChildRecord) /\ Len(bs) = Len(cs) /\ Indices(bs) = Indices(cs)
    BY DEF Backed, SameIndex, Indices
  <2>2. \A j \in Indices(cs) : j + 1 \in 1..Len(cs)
    BY <1>1 DEF Indices
  <2> QED
    BY <1>1, <2>1, <2>2 DEF Backed, SameIndex, SameMoves
<1>4. /\ F \in Seq(ChildRecord) /\ Len(F) = Len(cs)
      /\ F[l + 1] = cs[i + 1] /\ F[i + 1] = cs[l + 1]
      /\ \A j \in Indices(cs) : j # i /\ j # l => F[j + 1] = cs[j + 1]
  BY <1>1, <1>2, SwapFields
<1>5. /\ G \in Seq(ChildRecord) /\ Len(G) = Len(cs)
      /\ G[l + 1] = bs[i + 1] /\ G[i + 1] = bs[l + 1]
      /\ \A j \in Indices(cs) : j # i /\ j # l => G[j + 1] = bs[j + 1]
  BY <1>2, <1>3, SwapFields
<1>6. t.nodes = Append(ns, any) /\ t.children = [F EXCEPT ![l + 1].index = Len(ns)] /\ t.stack = Append(stack, l)
  BY DEF VisitStart
<1> HIDE DEF F, G, t
<1>7. l + 1 \in 1..Len(F) /\ Len(ns) \in Nat
  BY <1>1, <1>2, <1>4 DEF Indices
<1>8. /\ D \in Seq(ChildRecord) /\ Len(D) = Len(cs)
      /\ D[l + 1].index = Len(ns) /\ D[l + 1].semimove = F[l + 1].semimove /\ D[l + 1].sim_count = F[l + 1].sim_count
      /\ \A k \in 1..Len(F) : k # l + 1 => D[k] = F[k]
  BY <1>4, <1>6, <1>7, IndexSet
<1> HIDE DEF D
<1>9. stack \in Seq(Indices(cs)) /\ Len(stack) \in Nat
  BY DEF Way
<1>10. t.stack \in Seq(Indices(D)) /\ ToSet(t.stack) = ToSet(stack) \cup {l}
  <2>1. Indices(D) = Indices(cs)
    BY <1>8 DEF Indices
  <2>2. t.stack \in Seq(Indices(D)) /\ Len(t.stack) = Len(stack) + 1
        /\ t.stack[Len(stack) + 1] = l /\ \A k \in 1..Len(stack) : t.stack[k] = stack[k]
    BY <1>2, <1>6, <1>9, <2>1
  <2>3. ToSet(t.stack) = {t.stack[k] : k \in 1..Len(t.stack)} /\ ToSet(stack) = {stack[k] : k \in 1..Len(stack)}
    BY <1>9, <2>2 DEF ToSet
  <2> QED
    BY <1>9, <2>2, <2>3
<1>11. i \notin ToSet(stack) /\ l \notin ToSet(stack)
  <2>1. \A k \in 1..Len(stack) : cs[stack[k] + 1].index # 0
    <3> TAKE k \in 1..Len(stack)
    <3>1. At(cs, stack, k) # 0
      BY DEF Way
    <3> QED
      BY <3>1 DEF At
  <2>2. ToSet(stack) = {stack[k] : k \in 1..Len(stack)}
    BY <1>9 DEF ToSet
  <2> QED
    BY <1>2, <2>1, <2>2
<1>12. Backed(D, t.stack, E)
  BY <1>8, BackpropagateIs
<1>13. /\ E \in Seq(ChildRecord) /\ Len(E) = Len(cs)
       /\ \A j \in Indices(cs) :
            /\ E[j + 1].index = D[j + 1].index /\ E[j + 1].semimove = D[j + 1].semimove
            /\ E[j + 1].sim_count = D[j + 1].sim_count + IF j \in ToSet(t.stack) THEN 1 ELSE 0
  <2>1. Indices(D) = Indices(cs)
    BY <1>8 DEF Indices
  <2> QED
    BY <1>8, <1>12, <2>1 DEF Backed, SameIndex, SameMoves
<1> HIDE DEF E
<1>14. ASSUME NEW j \in Indices(cs), j # l PROVE E[j + 1] = G[j + 1]
  <2>1. j + 1 \in 1..Len(F) /\ j + 1 # l + 1 /\ j + 1 \in 1..Len(E) /\ j + 1 \in 1..Len(G)
    BY <1>1, <1>2, <1>4, <1>5, <1>13, <1>14 DEF Indices
  <2>2. D[j + 1] = F[j + 1]
    BY <1>8, <2>1
  <2>3. j \in ToSet(t.stack) <=> j \in ToSet(stack)
    BY <1>10, <1>14
  <2>4. E[j + 1].index = G[j + 1].index /\ E[j + 1].semimove = G[j + 1].semimove
        /\ E[j + 1].sim_count = G[j + 1].sim_count
    <3>1. CASE j = i
      <4>1. E[j + 1].sim_count = 0 /\ bs[l + 1].sim_count = 0
        BY <1>2, <1>3, <1>4, <1>11, <1>13, <2>2, <2>3, <3>1
      <4>2. F[j + 1] = cs[l + 1] /\ G[j + 1] = bs[l + 1]
        BY <1>4, <1>5, <3>1
      <4>3. E[j + 1].index = F[j + 1].index /\ E[j + 1].semimove = F[j + 1].semimove
        BY <1>13, <2>2
      <4>4. bs[l + 1].index = cs[l + 1].index /\ bs[l + 1].semimove = cs[l + 1].semimove
        BY <1>2, <1>3
      <4>5. G[j + 1].sim_count = 0
        BY <4>1, <4>2
      <4> QED
        BY <4>1, <4>2, <4>3, <4>4, <4>5
    <3>2. CASE j # i
      <4>1. F[j + 1] = cs[j + 1] /\ G[j + 1] = bs[j + 1]
        BY <1>4, <1>5, <1>14, <3>2
      <4> QED
        BY <1>3, <1>13, <2>2, <2>3, <4>1
    <3> QED
      BY <3>1, <3>2
  <2>5. E[j + 1] \in ChildRecord /\ G[j + 1] \in ChildRecord
    BY <1>5, <1>13, <2>1
  <2> QED
    BY <2>4, <2>5 DEF ChildRecord
<1>15. E[l + 1].index = Len(ns) /\ E[l + 1].semimove = G[l + 1].semimove /\ E[l + 1].sim_count = 1
  <2>1. E[l + 1].index = D[l + 1].index /\ E[l + 1].semimove = D[l + 1].semimove
        /\ E[l + 1].sim_count = D[l + 1].sim_count + 1
    BY <1>2, <1>10, <1>13
  <2>2. D[l + 1].sim_count = 0 /\ D[l + 1].semimove = cs[i + 1].semimove
    BY <1>2, <1>4, <1>8
  <2>3. G[l + 1].semimove = cs[i + 1].semimove
    BY <1>2, <1>3, <1>5
  <2> QED
    BY <1>8, <2>1, <2>2, <2>3
<1>16. /\ Append(ns, node) \in Seq(NodeRecord) /\ Len(Append(ns, node)) = Len(ns) + 1
       /\ Append(ns, node)[Len(ns) + 1] = node
       /\ \A p \in Indices(ns) : Append(ns, node)[p + 1] = ns[p + 1]
  <2>1. \A p \in Indices(ns) : p + 1 \in 1..Len(ns)
    BY <1>1 DEF Indices
  <2> QED
    BY <1>1, <2>1
<1>17. Indices(G) = Indices(cs)
  BY <1>5 DEF Indices
<1>18. Grows(ns, G, l, node, Append(ns, node), E)
  BY <1>5, <1>13, <1>14, <1>15, <1>16, <1>17 DEF Grows
<1> QED
  BY <1>8, <1>10, <1>18 DEF D, E, G, t

(* The child visited gets its node. *)
LEMMA FirstVisit ==
  ASSUME NEW ns, NEW cs, NEW L, NEW root, NEW pos, Tree(ns, cs, L, root, pos),
         NEW total \in Nat, NEW rolled, Counted(ns, cs, L, total, rolled),
         NEW stack, NEW n \in L, Way(ns, cs, L, stack, n), Touched(ns, cs, L, n),
         NEW i, NEW l, Openings(ns, cs, n, i, l), NEW any, NEW node, NEW t,
         t \in State, Leads(pos[n], cs[i + 1].semimove, t), Suits(node, t),
         NEW e, Gives(rolled, node, Len(ns), e)
  PROVE  LET v == VisitStart(ns, cs, stack, i, l, any)
         IN /\ v.children \in Seq(ChildRecord) /\ v.stack \in Seq(Indices(v.children))
            /\ \E K, q : Ends(Append(ns, node), Backpropagate(v.children, v.stack), K, root, q,
                              total + 1, rolled, v.stack, t, e)
<1> DEFINE bs == Backpropagate(cs, stack)
           G == Swap(bs, i, l)
           v == VisitStart(ns, cs, stack, i, l, any)
           E == Backpropagate(v.children, v.stack)
<1>1. Vectors(ns, cs) /\ Links(ns, cs, L) /\ L \subseteq Indices(ns) /\ cs \in Seq(ChildRecord)
  BY DEF Tree, Links, Vectors
<1>2. \A j \in Indices(cs) : cs[j + 1].index = 0 <=> cs[j + 1].sim_count = 0
  BY DEF Counted, CountedBut
<1>3. Backed(cs, stack, bs)
  BY <1>1, BackpropagateIs
<1> HIDE DEF bs
<1>4. Tree(ns, bs, L, root, pos)
  BY <1>3, SameMovesKeep DEF Backed
<1>5. CountedBut(ns, bs, L, total + 1, rolled, n)
  BY <1>1, <1>3, BackpropagateCounts
<1>6. Way(ns, bs, L, stack, n) /\ Vectors(ns, bs) /\ Indices(bs) = Indices(cs)
  BY <1>1, <1>3, SameIndexKeeps DEF Backed
<1>7. /\ i \in Indices(cs) /\ l \in Indices(cs) /\ i \in BlockOf(ns, n) /\ l \in BlockOf(ns, n)
      /\ cs[i + 1].index = 0 /\ cs[l + 1].index = 0 /\ cs[i + 1].sim_count = 0 /\ cs[l + 1].sim_count = 0
  <2>1. i \in Indices(cs) /\ l \in Indices(cs) /\ i \in BlockOf(ns, n) /\ l \in BlockOf(ns, n)
    BY <1>1, LinkFacts DEF Openings
  <2>2. l \in Nat /\ l <= i
    BY <1>1, <2>1, VectorFacts DEF Openings
  <2>3. cs[i + 1].index = 0 /\ cs[l + 1].index = 0
    BY <2>1, <2>2 DEF Openings
  <2> QED
    BY <1>2, <2>1, <2>3
<1>8. /\ bs[i + 1].index = 0 /\ bs[l + 1].index = 0 /\ bs[i + 1].semimove = cs[i + 1].semimove
      /\ \A j \in Indices(cs) : bs[j + 1].index = cs[j + 1].index
  BY <1>3, <1>7 DEF Backed, SameIndex, SameMoves
<1>9. bs[i + 1].sim_count = 0 /\ bs[l + 1].sim_count = 0
  BY <1>5, <1>6, <1>7, <1>8 DEF CountedBut
<1>10. Tree(ns, G, L, root, pos) /\ SameIndex(bs, G) /\ SameSims(bs, G)
  BY <1>4, <1>7, <1>8, <1>9, SwapKeeps
<1>11. /\ bs \in Seq(ChildRecord) /\ i \in Indices(bs) /\ l \in Indices(bs)
  BY <1>3, <1>6, <1>7 DEF Backed, SameIndex
<1>12. G[l + 1] = bs[i + 1]
  BY <1>11, SwapFields
<1> HIDE DEF G
<1>13. Links(ns, bs, L)
  BY <1>4 DEF Tree
<1>14. CountedBut(ns, G, L, total + 1, rolled, n)
  BY <1>5, <1>6, <1>10, <1>13, SameSimsKeep
<1>15. Way(ns, G, L, stack, n)
  BY <1>1, <1>6, <1>10, SameIndexKeeps
<1>16. Growable(ns, G, L, pos, n, l, node, t)
  <2>1. \A j \in BlockOf(ns, n) : j \in Indices(cs) /\ G[j + 1].index = cs[j + 1].index
    BY <1>1, <1>6, <1>8, <1>10, LinkFacts DEF SameIndex
  <2>2. \A j \in BlockOf(ns, n) : j < l => G[j + 1].index # 0
    <3> TAKE j \in BlockOf(ns, n)
    <3>1. j \in Nat /\ l \in Nat
      BY <1>1, <1>7, <2>1, VectorFacts
    <3> QED
      BY <2>1, <3>1 DEF Openings
  <2> QED
    BY <1>7, <1>8, <1>9, <1>12, <2>2 DEF Growable
<1>17. node \in NodeRecord
  BY DEF Suits
<1>22. Touched(ns, G, L, n)
  <2>1. SameIndex(cs, bs) /\ Indices(bs) = Indices(cs)
    BY <1>3, <1>6 DEF Backed
  <2>2. Touched(ns, bs, L, n)
    BY <1>1, <2>1, SameIndexTouches
  <2> QED
    BY <1>6, <1>10, <1>13, <2>2, SameIndexTouches
<1>18. /\ v.children \in Seq(ChildRecord)
       /\ v.stack \in Seq(Indices(v.children))
       /\ Grows(ns, G, l, node, Append(ns, node), E)
  BY <1>1, <1>2, <1>3, <1>17, VisitedChildren DEF G
<1>19. v.stack = Append(stack, l)
  BY DEF VisitStart
<1>20. total + 1 \in Nat
  OBVIOUS
<1> HIDE DEF E, v
<1>21. Ends(Append(ns, node), E, L \cup {Len(ns)}, root, Grown(pos, L, Len(ns), t), total + 1, rolled,
            Append(stack, l), t, e)
  BY <1>10, <1>14, <1>15, <1>16, <1>18, <1>20, <1>22, GrowEnds
<1> QED
  BY <1>18, <1>19, <1>21 DEF E, v

(* The children of the last node are listed, and the first gets a node.    *)
ChainsOn(ns, cs, acts, node, ms, ds) ==
  /\ ms \in Seq(NodeRecord) /\ ds \in Seq(ChildRecord)
  /\ Len(ms) = Len(ns) + 1 /\ Len(ds) = Len(cs) + Len(acts)
  /\ \A n \in Indices(ns) : n # Len(ns) - 1 => ms[n + 1] = ns[n + 1]
  /\ ms[Len(ns)] = [first |-> Len(cs), second |-> Len(cs) + Len(acts),
                    is_nodal |-> ns[Len(ns)].is_nodal, status |-> ns[Len(ns)].status]
  /\ ms[Len(ns) + 1] = node
  /\ \A i \in Indices(cs) : ds[i + 1] = cs[i + 1]
  /\ \A k \in 2..Len(acts) : ds[Len(cs) + k] = NewChild(acts[k])
  /\ ds[Len(cs) + 1] = [semimove |-> acts[1], index |-> Len(ns), sim_count |-> 1]

(* That the last node had one simulation to give on is what makes it add   *)
(* up.                                                                     *)
LEMMA ChainEnds ==
  ASSUME NEW ns, NEW cs, NEW L, NEW root, NEW pos, NEW total \in Nat, NEW rolled, NEW stack, NEW s \in State,
         Ends(ns, cs, L, root, pos, total, rolled, stack, s, Len(ns) - 1),
         ~is_expanded(ns[Len(ns)]), ~is_terminal(ns[Len(ns)]),
         NEW acts, Lists(s, acts), Len(acts) \in Nat \ {0},
         NEW t, t = Successor[s][acts[1]], NEW node, Suits(node, t),
         NEW e, Gives(rolled, node, Len(ns), e),
         NEW ms, NEW ds, ChainsOn(ns, cs, acts, node, ms, ds)
  PROVE  \E K, q : Ends(ms, ds, K, root, q, total, rolled, Append(stack, Len(cs)), t, e)
<1> DEFINE m == Len(ns) - 1
           rec == [first |-> Len(cs), second |-> Len(cs) + Len(acts),
                   is_nodal |-> ns[Len(ns)].is_nodal, status |-> ns[Len(ns)].status]
           ms0 == [ns EXCEPT ![m + 1] = rec]
           ds0 == cs \o [k \in 1..Len(acts) |-> NewChild(acts[k])]
<1>1. /\ Tree(ns, cs, L, root, pos) /\ CountedBut(ns, cs, L, total, rolled, m)
      /\ Way(ns, cs, L, stack, m) /\ m \in L /\ pos[m] = s
  BY DEF Ends
<1>2. Vectors(ns, cs) /\ Links(ns, cs, L) /\ ns \in Seq(NodeRecord) /\ cs \in Seq(ChildRecord)
  BY <1>1 DEF Tree, Vectors
<1>3. Len(ns) \in Nat \ {0} /\ Len(cs) \in Nat /\ m \in Nat /\ m + 1 = Len(ns) /\ m \in Indices(ns)
  BY <1>2, VectorFacts DEF Indices
<1>4. acts \in Seq(Semimoves[s]) /\ \A k \in 1..Len(acts) : acts[k] \in Semimoves[s] /\ acts[k] \in Seq(Action)
  BY SemimoveFacts DEF Lists
<1>5. ns[m + 1] \in NodeRecord
  BY <1>2, <1>3
<1>6. rec \in NodeRecord
  BY <1>3, <1>5 DEF NodeRecord
<1> DEFINE block == [k \in 1..Len(acts) |-> NewChild(acts[k])]
<1>7. block \in Seq(ChildRecord) /\ Len(block) = Len(acts)
  <2>1. \A k \in 1..Len(acts) : NewChild(acts[k]) \in ChildRecord
    BY <1>4 DEF NewChild, ChildRecord
  <2> QED
    BY <2>1
<1> HIDE DEF m, rec
<1>8. /\ ms0 \in Seq(NodeRecord) /\ Len(ms0) = Len(ns) /\ ms0[m + 1] = rec
      /\ \A n \in Indices(ns) : n # m => ms0[n + 1] = ns[n + 1]
  <2>1. \A n \in Indices(ns) : n + 1 \in 1..Len(ns) /\ (n # m => n + 1 # m + 1)
    BY <1>3 DEF Indices
  <2>2. m + 1 \in 1..Len(ns)
    BY <1>3
  <2> QED
    BY <1>2, <1>6, <2>1, <2>2
<1>9. /\ ds0 \in Seq(ChildRecord) /\ Len(ds0) = Len(cs) + Len(acts)
      /\ \A i \in Indices(cs) : ds0[i + 1] = cs[i + 1]
      /\ \A k \in 1..Len(acts) : ds0[Len(cs) + k] = NewChild(acts[k])
  <2>1. \A i \in Indices(cs) : i + 1 \in 1..Len(cs)
    BY <1>3 DEF Indices
  <2>2. \A k \in 1..Len(acts) : block[k] = NewChild(acts[k])
    OBVIOUS
  <2>3. ds0 = cs \o block
    OBVIOUS
  <2> HIDE DEF block, ds0
  <2>8. ds0 \in Seq(ChildRecord)
    BY <1>2, <1>7, <2>3
  <2>4. Len(ds0) = Len(cs) + Len(acts)
    <3>1. Len(cs \o block) = Len(cs) + Len(block)
      BY <1>2, <1>7
    <3> QED
      BY <1>7, <2>3, <3>1
  <2>7. \A j \in 1..Len(cs) : ds0[j] = cs[j]
    BY <1>2, <1>3, <1>7, <2>3
  <2>5. \A i \in Indices(cs) : ds0[i + 1] = cs[i + 1]
    BY <2>1, <2>7
  <2>6. \A k \in 1..Len(acts) : ds0[Len(cs) + k] = block[k]
    BY <1>2, <1>3, <1>7, <2>3
  <2> QED
    BY <2>2, <2>4, <2>5, <2>6, <2>8
<1> HIDE DEF ms0, ds0, block
<1>10. Expands(ns, cs, m, acts, ms0, ds0)
  BY <1>3, <1>8, <1>9 DEF Expands, rec
<1>11. Expandable(ns, L, pos, m, acts)
  BY <1>1, <1>3 DEF Expandable
<1>12. Tree(ms0, ds0, L, root, pos)
  BY <1>1, <1>10, <1>11, ExpandKeepsTree
<1>13. Vectors(ms0, ds0)
  BY <1>12 DEF Tree
<1>14. CountedBut(ms0, ds0, L, total, rolled, m) /\ Way(ms0, ds0, L, stack, m)
  BY <1>1, <1>2, <1>10, <1>11, <1>13, ExpandKeepsCounts
<1>15. Widened(ns, cs, m, acts, ms0, ds0)
  BY <1>2, <1>10, <1>11, ExpandBlocks
<1> DEFINE l == Len(cs)
<1>16. /\ l \in BlockOf(ms0, m)
       /\ \A i \in BlockOf(ms0, m) : ~(i < l)
       /\ ds0[l + 1] = NewChild(acts[1])
  <2>1. BlockOf(ms0, m) = Len(cs)..(Len(cs) + Len(acts) - 1)
    BY <1>15 DEF Widened
  <2> QED
    BY <1>3, <1>9, <2>1
<1>17. Growable(ms0, ds0, L, pos, m, l, node, t)
  <2>1. ds0[l + 1].semimove = acts[1] /\ ds0[l + 1].index = 0 /\ ds0[l + 1].sim_count = 0
    BY <1>16 DEF NewChild
  <2>2. acts[1] \in Semimoves[s]
    BY <1>4
  <2>3. t \in State /\ Leads(s, acts[1], t)
    BY <2>2, SemimoveLeads, SemimoveFacts
  <2> QED
    BY <1>1, <1>16, <2>1, <2>3 DEF Growable
<1>18. Grows(ms0, ds0, l, node, ms, ds)
  <2>1. Len(ms0) = Len(ns) /\ Len(ds0) = Len(cs) + Len(acts) /\ Indices(ms0) = Indices(ns)
    BY <1>8, <1>9 DEF Indices
  <2>2. \A n \in Indices(ns) : ms[n + 1] = ms0[n + 1]
    <3> TAKE n \in Indices(ns)
    <3>1. CASE n = m
      BY <1>3, <1>8, <3>1 DEF ChainsOn, rec
    <3>2. CASE n # m
      BY <1>8, <3>2 DEF ChainsOn, m
    <3> QED
      BY <3>1, <3>2
  <2>3. \A i \in Indices(ds0) : i # l => ds[i + 1] = ds0[i + 1]
    <3> TAKE i \in Indices(ds0)
    <3> HAVE i # l
    <3>1. CASE i \in Indices(cs)
      BY <1>9, <3>1 DEF ChainsOn
    <3>2. CASE i \notin Indices(cs)
      <4> DEFINE k == i - Len(cs) + 1
      <4>1. k \in 2..Len(acts) /\ k \in 1..Len(acts) /\ Len(cs) + k = i + 1
        BY <1>3, <2>1, <3>2 DEF Indices
      <4>2. ds[Len(cs) + k] = NewChild(acts[k]) /\ ds0[Len(cs) + k] = NewChild(acts[k])
        BY <1>9, <4>1 DEF ChainsOn
      <4> QED
        BY <4>1, <4>2
    <3> QED
      BY <3>1, <3>2
  <2>4. ds0[l + 1].semimove = acts[1]
    BY <1>16 DEF NewChild
  <2> QED
    BY <2>1, <2>2, <2>3, <2>4 DEF Grows, ChainsOn
<1>19. Gives(rolled, node, Len(ms0), e)
  BY <1>8
<1>21. Touched(ms0, ds0, L, m)
  <2>1. Touched(ns, cs, L, Nobody)
    BY DEF Ends
  <2> QED
    BY <1>2, <1>3, <1>10, <1>11, <2>1, ExpandTouches
<1>20. Ends(ms, ds, L \cup {Len(ms0)}, root, Grown(pos, L, Len(ms0), t), total, rolled, Append(stack, l), t, e)
  BY <1>12, <1>14, <1>17, <1>18, <1>19, <1>21, GrowEnds
<1> QED
  BY <1>20

-----------------------------------------------------------------------------
(* The loop that adds the rest of a turn.                                  *)

(* The fields of one turn of it, and of the call of create_children in it. *)
Parted(t) == DOMAIN t = {"nodes", "children", "stack"}
Blocked(t, acts, g) ==
  /\ Parted(g)
  /\ g.nodes = [t.nodes EXCEPT ![Len(t.nodes)] =
                  [@ EXCEPT !.first = Len(t.children), !.second = Len(t.children) + Len(acts)]]
  /\ g.children = t.children \o [k \in 1..Len(acts) |-> NewChild(acts[k])]
  /\ g.stack = t.stack
Chained(t, acts, node, v) ==
  /\ Parted(v)
  /\ v.nodes = Append([t.nodes EXCEPT ![Len(t.nodes)] =
                         [@ EXCEPT !.first = Len(t.children), !.second = Len(t.children) + Len(acts)]], node)
  /\ v.children = [(t.children \o [k \in 1..Len(acts) |-> NewChild(acts[k])])
                     EXCEPT ![Len(t.children) + 1].index = Len(t.nodes)]
  /\ v.stack = Append(t.stack, Len(t.children))

(* create_children on the last node, of which nothing is known yet. *)
LEMMA LastBlocked ==
  ASSUME NEW t, Parted(t), Len(t.nodes) \in Nat \ {0}, ~is_terminal(t.nodes[Len(t.nodes)]),
         NEW S, NEW acts \in Seq(S), acts # <<>>
  PROVE  Blocked(t, acts, create_children(t, Len(t.nodes) - 1, acts))
<1> DEFINE n == Len(t.nodes) - 1
<1>1. n + 1 = Len(t.nodes)
  OBVIOUS
<1>2. DOMAIN acts = 1..Len(acts)
  OBVIOUS
<1>3. ~(acts = <<>> \/ is_terminal(t.nodes[n + 1]))
  BY <1>1
<1> HIDE DEF n
<1> DEFINE g == create_children(t, n, acts)
<1>4. g = [t EXCEPT !.nodes[n + 1] = [@ EXCEPT !.first = Len(t.children),
                                               !.second = Len(t.children) + Len(acts)],
                    !.children = @ \o [k \in DOMAIN acts |-> [semimove |-> acts[k], index |-> 0, sim_count |-> 0]]]
  BY <1>3 DEF create_children
<1> HIDE DEF g
<1>5. Parted(g)
  BY <1>4 DEF Parted
<1>6. g.nodes = [t.nodes EXCEPT ![n + 1] = [@ EXCEPT !.first = Len(t.children),
                                                     !.second = Len(t.children) + Len(acts)]]
  BY <1>4 DEF Parted
<1>7. g.children = t.children \o [k \in DOMAIN acts |-> [semimove |-> acts[k], index |-> 0, sim_count |-> 0]]
  BY <1>4 DEF Parted
<1>8. g.stack = t.stack
  BY <1>4 DEF Parted
<1> QED
  BY <1>1, <1>2, <1>5, <1>6, <1>7, <1>8 DEF Blocked, NewChild, g, n

(* One turn of the loop. *)
LEMMA TurnChained ==
  ASSUME NEW t, Parted(t), Len(t.nodes) \in Nat \ {0}, ~is_terminal(t.nodes[Len(t.nodes)]),
         NEW lists, NEW k, NEW S, lists[k] \in Seq(S), lists[k] # <<>>
  PROVE  Chained(t, lists[k], new_node(k = Len(lists), IF k = Len(lists) THEN "unknown" ELSE "nonterminal"),
                 Chain(t, lists, k))
<1> DEFINE acts == lists[k]
           g == create_children(t, Len(t.nodes) - 1, acts)
           node == new_node(k = Len(lists), IF k = Len(lists) THEN "unknown" ELSE "nonterminal")
           v == Chain(t, lists, k)
<1>1. Blocked(t, acts, g)
  BY LastBlocked
<1>2. v = [g EXCEPT !.nodes = Append(@, node),
                    !.children[Len(t.children) + 1].index = Len(t.nodes),
                    !.stack = Append(@, Len(t.children))]
  BY DEF Chain
<1> HIDE DEF g, node, v, acts
<1>3. Parted(g)
  BY <1>1 DEF Blocked
<1>4. Parted(v)
  BY <1>2, <1>3 DEF Parted
<1>5. v.nodes = Append(g.nodes, node)
  BY <1>2, <1>3 DEF Parted
<1>6. v.children = [g.children EXCEPT ![Len(t.children) + 1].index = Len(t.nodes)]
  BY <1>2, <1>3 DEF Parted
<1>7. v.stack = Append(g.stack, Len(t.children))
  BY <1>2, <1>3 DEF Parted
<1>8. Chained(t, acts, node, v)
  BY <1>1, <1>4, <1>5, <1>6, <1>7 DEF Blocked, Chained
<1> QED
  BY <1>8 DEF acts, node, v

(* What the loop keeps in its variable: vectors that end in a new node. *)
Typed(t, node) ==
  /\ Parted(t)
  /\ t.nodes \in Seq(NodeRecord) /\ Len(t.nodes) \in Nat \ {0} /\ t.nodes[Len(t.nodes)] = node
  /\ t.children \in Seq(ChildRecord)
  /\ t.stack \in Seq(Indices(t.children))

(* A node given children. *)
LEMMA NodeSpread ==
  ASSUME NEW r \in NodeRecord, NEW a \in Nat, NEW b \in Nat
  PROVE  /\ [r EXCEPT !.first = a, !.second = b] =
               [first |-> a, second |-> b, is_nodal |-> r.is_nodal, status |-> r.status]
         /\ [r EXCEPT !.first = a, !.second = b] \in NodeRecord
<1>1. [r EXCEPT !.first = a, !.second = b] =
        [first |-> a, second |-> b, is_nodal |-> r.is_nodal, status |-> r.status]
  <2> DEFINE q == [r EXCEPT !.first = a]
  <2>1. q = [first |-> a, second |-> r.second, is_nodal |-> r.is_nodal, status |-> r.status]
    BY DEF NodeRecord
  <2>2. [r EXCEPT !.first = a, !.second = b] = [q EXCEPT !.second = b]
    OBVIOUS
  <2> HIDE DEF q
  <2>3. [q EXCEPT !.second = b] = [first |-> a, second |-> b, is_nodal |-> r.is_nodal, status |-> r.status]
    BY <2>1
  <2> QED
    BY <2>2, <2>3
<1>2. [first |-> a, second |-> b, is_nodal |-> r.is_nodal, status |-> r.status] \in NodeRecord
  BY DEF NodeRecord
<1> QED
  BY <1>1, <1>2

(* A child is known by its fields. *)
LEMMA SameChild ==
  ASSUME NEW c \in ChildRecord, NEW d \in ChildRecord,
         c.index = d.index, c.semimove = d.semimove, c.sim_count = d.sim_count
  PROVE  c = d
BY DEF ChildRecord

(* The vectors after a turn, the last node being replaced, and the counts  *)
(* along the way raised, as they would be at the end.                      *)
LEMMA ChainedGrows ==
  ASSUME NEW t, NEW old, Typed(t, old), NEW acts \in Seq(Seq(Action)), Len(acts) \in Nat \ {0},
         NEW any \in NodeRecord, NEW v, Chained(t, acts, any, v), NEW node \in NodeRecord
  PROVE  /\ Typed(v, any)
         /\ Len(v.nodes) = Len(t.nodes) + 1
         /\ v.stack = Append(t.stack, Len(t.children))
         /\ ChainsOn(t.nodes, Backpropagate(t.children, t.stack), acts, node,
                     [v.nodes EXCEPT ![Len(v.nodes)] = node], Backpropagate(v.children, v.stack))
<1> DEFINE ns == t.nodes
           cs == t.children
           N == Len(ns)
           C == Len(cs)
           A == Len(acts)
           rec == [ns[N] EXCEPT !.first = C, !.second = C + A]
           rec2 == [first |-> C, second |-> C + A, is_nodal |-> ns[N].is_nodal, status |-> ns[N].status]
           ms0 == [ns EXCEPT ![N] = rec]
           block == [k \in 1..A |-> NewChild(acts[k])]
           ds0 == cs \o block
           E == Backpropagate(v.children, v.stack)
           D == Backpropagate(cs, t.stack)
<1>1. /\ ns \in Seq(NodeRecord) /\ N \in Nat \ {0} /\ cs \in Seq(ChildRecord) /\ C \in Nat /\ A \in Nat \ {0}
      /\ t.stack \in Seq(Indices(cs)) /\ Len(t.stack) \in Nat
  BY DEF Typed
<1>2. /\ Parted(v) /\ v.nodes = Append(ms0, any) /\ v.children = [ds0 EXCEPT ![C + 1].index = N]
      /\ v.stack = Append(t.stack, C)
  BY DEF Chained
<1>3. rec = rec2 /\ rec2 \in NodeRecord
  <2>1. ns[N] \in NodeRecord /\ C + A \in Nat
    BY <1>1
  <2> DEFINE r == ns[N]
             x == C + A
  <2>2. r \in NodeRecord /\ x \in Nat /\ C \in Nat
    BY <1>1, <2>1
  <2> HIDE DEF r, C, x
  <2>3. /\ [r EXCEPT !.first = C, !.second = x] =
             [first |-> C, second |-> x, is_nodal |-> r.is_nodal, status |-> r.status]
        /\ [r EXCEPT !.first = C, !.second = x] \in NodeRecord
    BY <2>2, NodeSpread
  <2> QED
    BY <2>3 DEF r, x
<1> HIDE DEF rec
<1>4. ms0 \in Seq(NodeRecord) /\ Len(ms0) = N /\ ms0[N] = rec2 /\ \A k \in 1..N : k # N => ms0[k] = ns[k]
  BY <1>1, <1>3
<1> HIDE DEF ms0, rec2
<1>5. block \in Seq(ChildRecord) /\ Len(block) = A /\ \A k \in 1..A : block[k] = NewChild(acts[k])
  <2>1. \A k \in 1..A : NewChild(acts[k]) \in ChildRecord
    <3> TAKE k \in 1..A
    <3>1. acts[k] \in Seq(Action)
      BY <1>1
    <3> QED
      BY <3>1 DEF NewChild, ChildRecord
  <2> QED
    BY <1>1, <2>1
<1> HIDE DEF block
<1>6. /\ ds0 \in Seq(ChildRecord) /\ Len(ds0) = C + A
      /\ \A k \in 1..C : ds0[k] = cs[k]
      /\ \A k \in 1..A : ds0[C + k] = NewChild(acts[k])
  <2>1. cs \in Seq(ChildRecord) /\ block \in Seq(ChildRecord)
    BY <1>1, <1>5
  <2> HIDE DEF cs
  <2>2. /\ cs \o block \in Seq(ChildRecord)
        /\ Len(cs \o block) = Len(cs) + Len(block)
        /\ \A k \in 1..Len(cs) : (cs \o block)[k] = cs[k]
        /\ \A k \in 1..Len(block) : (cs \o block)[Len(cs) + k] = block[k]
    BY <2>1, JoinParts
  <2> QED
    BY <1>5, <2>2
<1> HIDE DEF ds0
<1> DEFINE V == v.children
<1>7. /\ V \in Seq(ChildRecord) /\ Len(V) = C + A
      /\ V[C + 1].index = N /\ V[C + 1].semimove = acts[1] /\ V[C + 1].sim_count = 0
      /\ \A k \in 1..(C + A) : k # C + 1 => V[k] = ds0[k]
  <2>1. C + 1 \in 1..Len(ds0)
    BY <1>1, <1>6
  <2>2. ds0[C + 1].semimove = acts[1] /\ ds0[C + 1].sim_count = 0
    <3>1. 1 \in 1..A
      BY <1>1
    <3>2. ds0[C + 1] = NewChild(acts[1])
      BY <1>6, <3>1
    <3> QED
      BY <3>2 DEF NewChild
  <2>3. /\ [ds0 EXCEPT ![C + 1].index = N] \in Seq(ChildRecord)
        /\ Len([ds0 EXCEPT ![C + 1].index = N]) = Len(ds0)
        /\ [ds0 EXCEPT ![C + 1].index = N][C + 1].index = N
        /\ [ds0 EXCEPT ![C + 1].index = N][C + 1].semimove = ds0[C + 1].semimove
        /\ [ds0 EXCEPT ![C + 1].index = N][C + 1].sim_count = ds0[C + 1].sim_count
        /\ \A k \in 1..Len(ds0) : k # C + 1 => [ds0 EXCEPT ![C + 1].index = N][k] = ds0[k]
    <3> DEFINE p == C + 1
    <3>1. ds0 \in Seq(ChildRecord) /\ p \in 1..Len(ds0) /\ N \in Nat
      BY <1>1, <1>6, <2>1
    <3> HIDE DEF p, N
    <3>2. /\ [ds0 EXCEPT ![p].index = N] \in Seq(ChildRecord)
          /\ Len([ds0 EXCEPT ![p].index = N]) = Len(ds0)
          /\ [ds0 EXCEPT ![p].index = N][p].index = N
          /\ [ds0 EXCEPT ![p].index = N][p].semimove = ds0[p].semimove
          /\ [ds0 EXCEPT ![p].index = N][p].sim_count = ds0[p].sim_count
          /\ \A k \in 1..Len(ds0) : k # p => [ds0 EXCEPT ![p].index = N][k] = ds0[k]
      BY <3>1, IndexSet
    <3> QED
      BY <3>2 DEF p
  <2> QED
    BY <1>2, <1>6, <2>2, <2>3
<1> HIDE DEF V
<1>8. v.nodes \in Seq(NodeRecord) /\ Len(v.nodes) = N + 1 /\ v.nodes[N + 1] = any
      /\ \A k \in 1..N : v.nodes[k] = ms0[k]
  BY <1>1, <1>2, <1>4
<1>9. v.stack \in Seq(Indices(V)) /\ ToSet(v.stack) = ToSet(t.stack) \cup {C}
  <2>1. Indices(cs) \subseteq Indices(V) /\ C \in Indices(V)
    BY <1>1, <1>7 DEF Indices
  <2>2. v.stack \in Seq(Indices(V)) /\ Len(v.stack) = Len(t.stack) + 1
        /\ v.stack[Len(t.stack) + 1] = C /\ \A k \in 1..Len(t.stack) : v.stack[k] = t.stack[k]
    BY <1>1, <1>2, <2>1
  <2>3. ToSet(v.stack) = {v.stack[k] : k \in 1..Len(v.stack)} /\ ToSet(t.stack) = {t.stack[k] : k \in 1..Len(t.stack)}
    BY <1>1, <2>2 DEF ToSet
  <2> DEFINE x == v.stack
             y == t.stack
             n == Len(t.stack)
  <2>4. /\ Len(x) = n + 1 /\ x[n + 1] = C /\ n \in Nat /\ \A k \in 1..n : x[k] = y[k]
        /\ ToSet(x) = {x[k] : k \in 1..Len(x)} /\ ToSet(y) = {y[k] : k \in 1..n}
    BY <1>1, <2>2, <2>3
  <2> HIDE DEF x, y, n, C
  <2>5. ToSet(x) = ToSet(y) \cup {C}
    <3>1. ASSUME NEW z \in ToSet(x) PROVE z \in ToSet(y) \cup {C}
      <4>1. PICK k \in 1..Len(x) : z = x[k]
        BY <2>4, <3>1
      <4>2. k = n + 1 \/ k \in 1..n
        BY <2>4
      <4> QED
        BY <2>4, <4>1, <4>2
    <3>2. ASSUME NEW z \in ToSet(y) PROVE z \in ToSet(x)
      <4>1. PICK k \in 1..n : z = y[k]
        BY <2>4, <3>2
      <4>2. k \in 1..Len(x) /\ z = x[k]
        BY <2>4, <4>1
      <4> QED
        BY <2>4, <4>2
    <3>3. C \in ToSet(x)
      <4>1. n + 1 \in 1..Len(x)
        BY <2>4
      <4> QED
        BY <2>4, <4>1
    <3> QED
      BY <3>1, <3>2, <3>3
  <2> QED
    BY <2>2, <2>5 DEF x, y
<1>10. \A i \in ToSet(t.stack) : i < C
  BY <1>1 DEF ToSet, Indices
<1>11. Typed(v, any)
  BY <1>1, <1>2, <1>7, <1>8, <1>9 DEF Typed, V
<1> DEFINE ms == [v.nodes EXCEPT ![Len(v.nodes)] = node]
<1>12. ms \in Seq(NodeRecord) /\ Len(ms) = N + 1 /\ ms[N + 1] = node /\ \A k \in 1..N : ms[k] = ms0[k]
  BY <1>1, <1>8
<1>13. Backed(V, v.stack, E) /\ Backed(cs, t.stack, D)
  BY <1>1, <1>7, BackpropagateIs DEF V
<1>14. /\ E \in Seq(ChildRecord) /\ Len(E) = C + A
       /\ \A k \in 1..(C + A) : /\ E[k].index = V[k].index /\ E[k].semimove = V[k].semimove
                                /\ E[k].sim_count = V[k].sim_count + IF k - 1 \in ToSet(v.stack) THEN 1 ELSE 0
  <2>1. E \in Seq(ChildRecord) /\ Len(E) = C + A /\ Indices(V) = 0..(C + A - 1)
    BY <1>7, <1>13 DEF Backed, SameIndex, Indices
  <2>2. \A k \in 1..(C + A) : k - 1 \in Indices(V) /\ (k - 1) + 1 = k
    BY <1>1, <2>1
  <2> QED
    BY <1>13, <2>1, <2>2 DEF Backed, SameIndex, SameMoves
<1>15. /\ D \in Seq(ChildRecord) /\ Len(D) = C
       /\ \A k \in 1..C : /\ D[k].index = cs[k].index /\ D[k].semimove = cs[k].semimove
                          /\ D[k].sim_count = cs[k].sim_count + IF k - 1 \in ToSet(t.stack) THEN 1 ELSE 0
  <2>1. D \in Seq(ChildRecord) /\ Len(D) = C /\ Indices(cs) = 0..(C - 1)
    BY <1>13 DEF Backed, SameIndex, Indices
  <2>2. \A k \in 1..C : k - 1 \in Indices(cs) /\ (k - 1) + 1 = k
    BY <1>1, <2>1
  <2> QED
    BY <1>13, <2>1, <2>2 DEF Backed, SameIndex, SameMoves
<1> HIDE DEF E, D, ms
<1>16. \A k \in 1..C : E[k] = D[k]
  <2> TAKE k \in 1..C
  <2>1. k \in 1..(C + A) /\ k # C + 1 /\ k \in Nat
    BY <1>1
  <2>2. V[k] = cs[k]
    BY <1>6, <1>7, <2>1
  <2>3. k - 1 \in ToSet(v.stack) <=> k - 1 \in ToSet(t.stack)
    BY <1>1, <1>9, <2>1
  <2>4. E[k].index = D[k].index /\ E[k].semimove = D[k].semimove /\ E[k].sim_count = D[k].sim_count
    BY <1>14, <1>15, <2>1, <2>2, <2>3
  <2>5. E[k] \in ChildRecord /\ D[k] \in ChildRecord
    BY <1>14, <1>15, <2>1
  <2> QED
    BY <2>4, <2>5, SameChild
<1>17. \A k \in 2..A : E[C + k] = NewChild(acts[k])
  <2> TAKE k \in 2..A
  <2>1. C + k \in 1..(C + A) /\ C + k # C + 1 /\ k \in 1..A /\ k \in Nat /\ k >= 2
    BY <1>1
  <2>2. V[C + k] = NewChild(acts[k])
    BY <1>6, <1>7, <2>1
  <2>3. (C + k) - 1 \notin ToSet(v.stack)
    <3> SUFFICES ASSUME (C + k) - 1 \in ToSet(v.stack) PROVE FALSE
      OBVIOUS
    <3>1. (C + k) - 1 = C \/ (C + k) - 1 \in ToSet(t.stack)
      BY <1>9
    <3> QED
      BY <1>1, <1>10, <2>1, <3>1
  <2>4. E[C + k].index = V[C + k].index /\ E[C + k].semimove = V[C + k].semimove
        /\ E[C + k].sim_count = V[C + k].sim_count + 0
    BY <1>14, <2>1, <2>3
  <2>5. E[C + k] \in ChildRecord /\ V[C + k] \in ChildRecord
    BY <1>7, <1>14, <2>1
  <2>6. E[C + k] = V[C + k]
    <3> DEFINE c == E[C + k]
               d == V[C + k]
    <3>1. c \in ChildRecord /\ d \in ChildRecord
      BY <2>5
    <3>2. c.index = d.index /\ c.semimove = d.semimove /\ c.sim_count = d.sim_count
      BY <2>4, <2>5 DEF ChildRecord
    <3> HIDE DEF c, d
    <3>3. c = d
      BY <3>1, <3>2, SameChild
    <3> QED
      BY <3>3 DEF c, d
  <2> QED
    BY <2>2, <2>6
<1>18. E[C + 1] = [semimove |-> acts[1], index |-> N, sim_count |-> 1]
  <2>1. C + 1 \in 1..(C + A) /\ (C + 1) - 1 = C
    BY <1>1
  <2>4. (C + 1) - 1 \in ToSet(v.stack)
    BY <1>9, <2>1
  <2>5. E[C + 1].index = V[C + 1].index /\ E[C + 1].semimove = V[C + 1].semimove
        /\ E[C + 1].sim_count = V[C + 1].sim_count + 1
    BY <1>14, <2>1, <2>4
  <2>2. E[C + 1].index = N /\ E[C + 1].semimove = acts[1] /\ E[C + 1].sim_count = 1
    BY <1>7, <2>5
  <2>3. E[C + 1] \in ChildRecord
    BY <1>14, <2>1
  <2> QED
    BY <2>2, <2>3 DEF ChildRecord
<1>19. ChainsOn(ns, D, acts, node, ms, E)
  <2>1. \A n \in Indices(ns) : n # N - 1 => ms[n + 1] = ns[n + 1]
    <3> TAKE n \in Indices(ns)
    <3> HAVE n # N - 1
    <3>1. n + 1 \in 1..N /\ n + 1 # N
      BY <1>1 DEF Indices
    <3> QED
      BY <1>4, <1>12, <3>1
  <2>2. ms[N] = [first |-> Len(D), second |-> Len(D) + Len(acts), is_nodal |-> ns[N].is_nodal, status |-> ns[N].status]
    BY <1>1, <1>4, <1>12, <1>15 DEF rec2
  <2>3. \A i \in Indices(D) : E[i + 1] = D[i + 1]
    <3>1. \A i \in Indices(D) : i + 1 \in 1..C
      BY <1>1, <1>15 DEF Indices
    <3> QED
      BY <1>16, <3>1
  <2> QED
    BY <1>12, <1>14, <1>15, <1>17, <1>18, <2>1, <2>2, <2>3 DEF ChainsOn
<1> QED
  BY <1>2, <1>8, <1>11, <1>19 DEF V, E, D, ms

(* Whatever suitable node is put last, the tree is one that ends in s.     *)
Ready(t, node, root, total, rolled, s) ==
  /\ Typed(t, node)
  /\ \A any, e : Suits(any, s) /\ Gives(rolled, any, Len(t.nodes) - 1, e) =>
       \E K, q : Ends([t.nodes EXCEPT ![Len(t.nodes)] = any], Backpropagate(t.children, t.stack), K, root, q,
                      total, rolled, t.stack, s, e)

(* So it is when the child visited has got its node. *)
LEMMA StartReady ==
  ASSUME NEW ns, NEW cs, NEW L, NEW root, NEW pos, Tree(ns, cs, L, root, pos),
         NEW total \in Nat, NEW rolled, Counted(ns, cs, L, total, rolled),
         NEW stack, NEW n \in L, Way(ns, cs, L, stack, n), Touched(ns, cs, L, n),
         NEW i, NEW l, Openings(ns, cs, n, i, l), NEW any \in NodeRecord, NEW t,
         t \in State, Leads(pos[n], cs[i + 1].semimove, t)
  PROVE  Ready(VisitStart(ns, cs, stack, i, l, any), any, root, total + 1, rolled, t)
<1> DEFINE v == VisitStart(ns, cs, stack, i, l, any)
           bs == Backpropagate(cs, stack)
<1>1. Vectors(ns, cs) /\ Links(ns, cs, L) /\ cs \in Seq(ChildRecord) /\ ns \in Seq(NodeRecord)
  BY DEF Tree, Links, Vectors
<1>2. \A j \in Indices(cs) : cs[j + 1].index = 0 <=> cs[j + 1].sim_count = 0
  BY DEF Counted, CountedBut
<1>3. Backed(cs, stack, bs)
  BY <1>1, BackpropagateIs
<1> HIDE DEF bs
<1>4. v.children \in Seq(ChildRecord) /\ v.stack \in Seq(Indices(v.children))
  BY <1>1, <1>2, <1>3, VisitedChildren
<1>5. Parted(v) /\ v.nodes = Append(ns, any)
  BY DEF Parted, VisitStart
<1>6. Len(ns) \in Nat
  BY <1>1
<1>7. v.nodes \in Seq(NodeRecord) /\ Len(v.nodes) = Len(ns) + 1 /\ v.nodes[Len(ns) + 1] = any
  BY <1>1, <1>5, <1>6
<1> HIDE DEF v
<1>8. Typed(v, any)
  BY <1>4, <1>5, <1>6, <1>7 DEF Typed
<1>9. ASSUME NEW node, NEW e, Suits(node, t), Gives(rolled, node, Len(v.nodes) - 1, e)
      PROVE  \E K, q : Ends([v.nodes EXCEPT ![Len(v.nodes)] = node], Backpropagate(v.children, v.stack), K, root, q,
                            total + 1, rolled, v.stack, t, e)
  <2>1. Len(v.nodes) - 1 = Len(ns)
    BY <1>6, <1>7
  <2>2. Gives(rolled, node, Len(ns), e)
    BY <1>9, <2>1
  <2>3. \E K, q : Ends(Append(ns, node), Backpropagate(v.children, v.stack), K, root, q,
                       total + 1, rolled, v.stack, t, e)
    BY <1>9, <2>2, FirstVisit DEF v
  <2>4. node \in NodeRecord
    BY <1>9 DEF Suits
  <2>5. [v.nodes EXCEPT ![Len(v.nodes)] = node] = Append(ns, node)
    BY <1>1, <1>5, <2>4, LastReplaced
  <2> QED
    BY <2>3, <2>5
<1>10. Ready(v, any, root, total + 1, rolled, t)
  BY <1>8, <1>9 DEF Ready
<1> QED
  BY <1>10 DEF v

(* And so it remains from turn to turn: the node in the middle had just    *)
(* the one simulation that its child now has too.                          *)
LEMMA TurnReady ==
  ASSUME IS_NODAL, NEW root, NEW total \in Nat, NEW rolled, NEW s \in State, s \notin Nodal, Rests(s) # {},
         NEW t, Ready(t, new_node(FALSE, "nonterminal"), root, total, rolled, s),
         NEW lists, NEW k, Lists(s, lists[k]), Len(lists[k]) \in Nat \ {0},
         NEW u, u = Successor[s][lists[k][1]]
  PROVE  Ready(Chain(t, lists, k), new_node(k = Len(lists), IF k = Len(lists) THEN "unknown" ELSE "nonterminal"),
               root, total, rolled, u)
<1> DEFINE acts == lists[k]
           old == new_node(FALSE, "nonterminal")
           any == new_node(k = Len(lists), IF k = Len(lists) THEN "unknown" ELSE "nonterminal")
           v == Chain(t, lists, k)
           ns == t.nodes
           cs == Backpropagate(t.children, t.stack)
<1>1. any \in NodeRecord /\ old \in NodeRecord
  BY DEF new_node, NodeRecord
<1>2. ~is_terminal(old) /\ ~is_expanded(old) /\ ~old.is_nodal /\ old.status = "nonterminal"
  BY DEF new_node, is_terminal, is_expanded
<1>3. Typed(t, old)
  BY DEF Ready
<1>4. acts \in Seq(Semimoves[s]) /\ acts # <<>> /\ acts \in Seq(Seq(Action))
  <2>1. acts \in Seq(Semimoves[s]) /\ acts # <<>>
    BY DEF Lists
  <2>2. \A j \in 1..Len(acts) : acts[j] \in Seq(Action)
    BY <2>1, SemimoveFacts
  <2> QED
    BY <2>1, <2>2
<1> HIDE DEF old
<1>5. Parted(t) /\ ns \in Seq(NodeRecord) /\ Len(ns) \in Nat \ {0} /\ ns[Len(ns)] = old /\ t.children \in Seq(ChildRecord)
  BY <1>3 DEF Typed
<1>6. Chained(t, acts, any, v)
  <2>1. ~is_terminal(t.nodes[Len(t.nodes)])
    BY <1>2, <1>5
  <2>2. lists[k] \in Seq(Semimoves[s]) /\ lists[k] # <<>>
    BY <1>4
  <2> QED
    BY <1>5, <2>1, <2>2, TurnChained
<1> HIDE DEF acts, any, v
<1>7. Len(acts) \in Nat \ {0} /\ Lists(s, acts) /\ u = Successor[s][acts[1]]
  BY DEF acts
<1>8. /\ Typed(v, any)
      /\ Len(v.nodes) = Len(ns) + 1
      /\ v.stack = Append(t.stack, Len(t.children))
  BY <1>1, <1>3, <1>4, <1>6, <1>7, ChainedGrows
<1>9. Backed(t.children, t.stack, cs) /\ Len(cs) = Len(t.children)
  <2>1. Backed(t.children, t.stack, cs)
    BY <1>5, BackpropagateIs
  <2> QED
    BY <2>1 DEF Backed, SameIndex
<1>10. ASSUME NEW node, NEW e, Suits(node, u), Gives(rolled, node, Len(v.nodes) - 1, e)
       PROVE  \E K, q : Ends([v.nodes EXCEPT ![Len(v.nodes)] = node], Backpropagate(v.children, v.stack), K, root, q,
                             total, rolled, v.stack, u, e)
  <2>1. Suits(old, s)
    BY <1>1, <1>2 DEF Suits, TrueStatus
  <2>2. Gives(rolled, old, Len(ns) - 1, Len(ns) - 1)
    BY <1>2 DEF Gives, Extra, Surplus
  <2>3. PICK K, q : Ends([ns EXCEPT ![Len(ns)] = old], cs, K, root, q, total, rolled, t.stack, s, Len(ns) - 1)
    BY <2>1, <2>2 DEF Ready, old
  <2>4. [ns EXCEPT ![Len(ns)] = old] = ns
    BY <1>5
  <2>5. Ends(ns, cs, K, root, q, total, rolled, t.stack, s, Len(ns) - 1)
    BY <2>3, <2>4
  <2>6. Gives(rolled, node, Len(ns), e)
    <3>1. Len(v.nodes) - 1 = Len(ns)
      BY <1>5, <1>8
    <3> QED
      BY <1>10, <3>1
  <2>7. node \in NodeRecord
    BY <1>10 DEF Suits
  <2> DEFINE ms == [v.nodes EXCEPT ![Len(v.nodes)] = node]
             ds == Backpropagate(v.children, v.stack)
  <2>8. ChainsOn(ns, cs, acts, node, ms, ds)
    BY <1>1, <1>3, <1>4, <1>6, <1>7, <2>7, ChainedGrows
  <2>9. ~is_expanded(ns[Len(ns)]) /\ ~is_terminal(ns[Len(ns)])
    BY <1>2, <1>5
  <2>10. v.stack = Append(t.stack, Len(cs))
    BY <1>8, <1>9
  <2> HIDE DEF ms, ds, cs, ns
  <2>11. \E KK, qq : Ends(ms, ds, KK, root, qq, total, rolled, Append(t.stack, Len(cs)), u, e)
    BY <1>7, <1>10, <2>5, <2>6, <2>8, <2>9, ChainEnds
  <2> QED
    BY <2>10, <2>11 DEF ms, ds
<1>11. Ready(v, any, root, total, rolled, u)
  BY <1>8, <1>10 DEF Ready
<1> QED
  BY <1>11 DEF v, any

(* The variable of the loop, as a function of its turns. *)
LoopStep(one, lists, w, f) == f = [k \in 0..w |-> IF k = 0 THEN one ELSE Chain(f[k - 1], lists, k)]

(* The loop that adds the rest of a turn is a function of its turns. *)
LEMMA LoopExists ==
  ASSUME NEW one, NEW lists, NEW w \in Nat
  PROVE  \E f : LoopStep(one, lists, w, f)
<1> DEFINE T == {n \in Nat : \E f : LoopStep(one, lists, n, f)}
<1>1. 0 \in T
  <2> DEFINE f == [k \in 0..0 |-> one]
  <2>1. f = [k \in 0..0 |-> IF k = 0 THEN one ELSE Chain(f[k - 1], lists, k)]
    OBVIOUS
  <2> QED
    BY <2>1 DEF LoopStep
<1>2. ASSUME NEW n \in Nat, n \in T PROVE n + 1 \in T
  <2>1. PICK f : LoopStep(one, lists, n, f)
    BY <1>2
  <2> DEFINE g == [k \in 0..(n + 1) |-> IF k = n + 1 THEN Chain(f[n], lists, n + 1) ELSE f[k]]
  <2>2. \A k \in 0..(n + 1) : g[k] = IF k = 0 THEN one ELSE Chain(g[k - 1], lists, k)
    <3> TAKE k \in 0..(n + 1)
    <3>1. CASE k = n + 1
      <4>1. k # 0 /\ k - 1 = n /\ n \in 0..(n + 1) /\ n # n + 1
        BY <3>1
      <4>2. g[n] = f[n] /\ g[k] = Chain(f[n], lists, n + 1)
        BY <3>1, <4>1
      <4> QED
        BY <3>1, <4>1, <4>2
    <3>2. CASE k # n + 1
      <4>1. k \in 0..n /\ g[k] = f[k]
        BY <3>2
      <4>2. k # 0 => k - 1 \in 0..(n + 1) /\ k - 1 # n + 1 /\ g[k - 1] = f[k - 1]
        BY <4>1
      <4>3. f[k] = IF k = 0 THEN one ELSE Chain(f[k - 1], lists, k)
        BY <2>1, <4>1 DEF LoopStep
      <4> QED
        BY <4>1, <4>2, <4>3
    <3> QED
      BY <3>1, <3>2
  <2>3. g = [k \in 0..(n + 1) |-> g[k]]
    OBVIOUS
  <2> HIDE DEF g
  <2>4. LoopStep(one, lists, n + 1, g)
    BY <2>2, <2>3 DEF LoopStep
  <2> QED
    BY <2>4
<1> HIDE DEF T
<1>3. \A n \in Nat : n \in T
  BY <1>1, <1>2, SetInduction
<1> QED
  BY <1>3 DEF T

(* The node the loop puts last: what it is, and that it is one for a state *)
(* once the playout is over.                                               *)
Middle(ends) == new_node(ends, IF ends THEN "unknown" ELSE "nonterminal")

(* After the playout the last node has the status of its state. *)
LEMMA PlayoutSuits ==
  ASSUME NEW s \in State, Rests(s) # {}, NEW end, NEW rolled, NEW n \in Nat,
         IS_NODAL => s \in Nodal, s \in Nodal => end = s
  PROVE  LET node == AfterPlayout(Middle(s \in Nodal), end)
         IN Suits(node, s) /\ Gives(rolled, node, n, Nobody)
<1> DEFINE old == Middle(s \in Nodal)
           node == AfterPlayout(old, end)
<1>1. old = [first |-> 1, second |-> 0, is_nodal |-> (s \in Nodal),
             status |-> IF s \in Nodal THEN "unknown" ELSE "nonterminal"]
  BY DEF Middle, new_node
<1> HIDE DEF old
<1>2. [old EXCEPT !.status = "nonterminal"] =
        [first |-> 1, second |-> 0, is_nodal |-> (s \in Nodal), status |-> "nonterminal"]
  BY <1>1
<1>3. Terminated(old) = [first |-> 0, second |-> 0, is_nodal |-> (s \in Nodal), status |-> "terminal"]
  <2> DEFINE a == [old EXCEPT !.first = 0]
             b == [a EXCEPT !.second = 0]
  <2>1. a = [first |-> 0, second |-> 0, is_nodal |-> (s \in Nodal),
             status |-> IF s \in Nodal THEN "unknown" ELSE "nonterminal"]
    BY <1>1
  <2>2. Terminated(old) = [b EXCEPT !.status = "terminal"]
    BY DEF Terminated
  <2> HIDE DEF a
  <2>3. b = [first |-> 0, second |-> 0, is_nodal |-> (s \in Nodal),
             status |-> IF s \in Nodal THEN "unknown" ELSE "nonterminal"]
    BY <2>1
  <2> HIDE DEF b
  <2>4. [b EXCEPT !.status = "terminal"] =
          [first |-> 0, second |-> 0, is_nodal |-> (s \in Nodal), status |-> "terminal"]
    BY <2>3
  <2> QED
    BY <2>2, <2>4
<1>4. old.is_nodal = (s \in Nodal)
  BY <1>1
<1>5. node = IF s \in Nodal /\ ~has_nodal_successor(s)
             THEN [first |-> 0, second |-> 0, is_nodal |-> (s \in Nodal), status |-> "terminal"]
             ELSE [first |-> 1, second |-> 0, is_nodal |-> (s \in Nodal), status |-> "nonterminal"]
  BY <1>2, <1>3, <1>4 DEF AfterPlayout
<1> HIDE DEF node
<1>6. Suits(node, s)
  <2>1. CASE s \in Nodal /\ ~has_nodal_successor(s)
    <3>1. node = [first |-> 0, second |-> 0, is_nodal |-> (s \in Nodal), status |-> "terminal"]
      BY <1>5, <2>1
    <3>2. node \in NodeRecord /\ node.status = "terminal" /\ node.is_nodal = (s \in Nodal)
          /\ node.first = 0 /\ node.second = 0
      BY <3>1 DEF NodeRecord
    <3> QED
      BY <2>1, <3>2 DEF Suits, TrueStatus, is_terminal
  <2>2. CASE ~(s \in Nodal /\ ~has_nodal_successor(s))
    <3>1. node = [first |-> 1, second |-> 0, is_nodal |-> (s \in Nodal), status |-> "nonterminal"]
      BY <1>5, <2>2
    <3>2. node \in NodeRecord /\ node.status = "nonterminal" /\ node.is_nodal = (s \in Nodal)
          /\ node.first = 1 /\ node.second = 0
      BY <3>1 DEF NodeRecord
    <3>3. ~is_expanded(node)
      BY <3>2 DEF is_expanded
    <3>4. TrueStatus(s) = "nonterminal"
      BY <2>2 DEF TrueStatus
    <3>5. node.is_nodal <=> s \in Nodal
      BY <3>2
    <3> QED
      BY <3>2, <3>3, <3>4, <3>5 DEF Suits, is_terminal
  <2> QED
    BY <2>1, <2>2
<1>7. node.is_nodal <=> s \in Nodal
  BY <1>6 DEF Suits
<1>8. n # Nobody
  BY DEF Nobody
<1>9. Gives(rolled, node, n, Nobody)
  BY <1>7, <1>8 DEF Gives, Extra, Surplus
<1> QED
  BY <1>6, <1>9 DEF node, old

(* The whole loop: one turn for each semimove that completes the turn. *)
LEMMA TurnOnTree ==
  ASSUME IS_NODAL, NEW root, NEW total \in Nat, NEW rolled, NEW s \in State,
         NEW p, NEW u, Completes(s, p, u), NEW tried \in SUBSET DeadEndsAlong(s, p),
         NEW one, Ready(one, Middle(p = <<>>), root, total, rolled, s),
         NEW f, LoopStep(one, LegalActions(s, p, tried), Len(p), f)
  PROVE  Ready(f[Len(p)], Middle(TRUE), root, total, rolled, u[Len(p)])
<1> DEFINE lists == LegalActions(s, p, tried)
           w == Len(p)
           T == {k \in Nat : k <= w => Ready(f[k], Middle(k = w), root, total, rolled, u[k])}
<1>1. p \in Seq(Seq(Action)) /\ w \in Nat /\ DOMAIN p = 1..w /\ (w = 0 <=> p = <<>>)
  BY DEF Completes
<1>2. Len(lists) = w
  BY <1>1 DEF LegalActions
<1>3. \A k \in 1..w : Lists(u[k - 1], lists[k]) /\ Len(lists[k]) \in Nat \ {0} /\ lists[k][1] = p[k]
  BY LegalActionsListed
<1> HIDE DEF lists
<1>4. u[0] = s /\ \A k \in 0..w : u[k] \in State
  BY DEF Completes, Along
<1>5. \A k \in 0..w : k < w => u[k] \notin Nodal
  <2> TAKE k \in 0..w
  <2> HAVE k < w
  <2>1. CASE k = 0
    BY <1>1, <1>4, <2>1 DEF Completes
  <2>2. CASE k # 0
    <3>1. k \in 1..Len(p)
      BY <2>2
    <3> QED
      BY <3>1 DEF Completes, Along
  <2> QED
    BY <2>1, <2>2
<1>6. 0 \in T
  <2>1. f[0] = one
    BY <1>1 DEF LoopStep
  <2>2. (p = <<>>) = (0 = w)
    <3>1. CASE p = <<>>
      <4>1. 0 = w
        BY <1>1, <3>1
      <4> QED
        BY <3>1, <4>1, Zenon
    <3>2. CASE p # <<>>
      <4>1. 0 # w
        BY <1>1, <3>2
      <4> QED
        BY <3>2, <4>1, Zenon
    <3> QED
      BY <3>1, <3>2
  <2>3. Ready(f[0], Middle(0 = w), root, total, rolled, u[0])
    BY <1>4, <2>1, <2>2
  <2> QED
    BY <2>3
<1>7. ASSUME NEW k \in Nat, k \in T PROVE k + 1 \in T
  <2> SUFFICES ASSUME k + 1 <= w PROVE Ready(f[k + 1], Middle(k + 1 = w), root, total, rolled, u[k + 1])
    OBVIOUS
  <2>1. k \in 0..w /\ k < w /\ k + 1 \in 1..w /\ k + 1 \in 0..w /\ (k + 1) - 1 = k /\ k + 1 # 0 /\ k # w
    <3>1. w \in Nat
      BY <1>1
    <3> HIDE DEF w
    <3> QED
      BY <3>1
  <2>9. (k = w) = FALSE
    BY <2>1, Zenon
  <2>2. f[k + 1] = Chain(f[k], lists, k + 1)
    BY <2>1 DEF LoopStep, lists
  <2>3. Ready(f[k], Middle(FALSE), root, total, rolled, u[k])
    <3>1. Ready(f[k], Middle(k = w), root, total, rolled, u[k])
      BY <1>7, <2>1
    <3> HIDE DEF w
    <3> QED
      BY <2>9, <3>1, Zenon
  <2>4. Ready(f[k], new_node(FALSE, "nonterminal"), root, total, rolled, u[k])
    BY <2>3 DEF Middle
  <2>5. u[k] \in State /\ u[k] \notin Nodal /\ Rests(u[k]) # {}
    BY <1>4, <1>5, <2>1 DEF Completes
  <2>6. Lists(u[k], lists[k + 1]) /\ Len(lists[k + 1]) \in Nat \ {0} /\ lists[k + 1][1] = p[k + 1]
    BY <1>3, <2>1
  <2>7. u[k + 1] = Successor[u[k]][lists[k + 1][1]]
    BY <2>1, <2>6 DEF Completes, Along
  <2>8. Ready(Chain(f[k], lists, k + 1),
              new_node(k + 1 = Len(lists), IF k + 1 = Len(lists) THEN "unknown" ELSE "nonterminal"),
              root, total, rolled, u[k + 1])
    BY <2>4, <2>5, <2>6, <2>7, TurnReady
  <2> QED
    BY <1>2, <2>2, <2>8 DEF Middle
<1> HIDE DEF T
<1>8. \A k \in Nat : k \in T
  BY <1>6, <1>7, SetInduction
<1>9. (w = w) = TRUE
  OBVIOUS
<1>10. Ready(f[w], Middle(w = w), root, total, rolled, u[w])
  <2>1. w \in Nat /\ w \in T
    BY <1>1, <1>8
  <2>2. w <= w
    BY <2>1
  <2> QED
    BY <2>1, <2>2 DEF T
<1> HIDE DEF w
<1>11. Ready(f[w], Middle(TRUE), root, total, rolled, u[w])
  BY <1>9, <1>10, Zenon
<1> QED
  BY <1>11 DEF w

(* A visit puts a node, or with IS_NODAL the rest of a turn, in the tree,  *)
(* and when the counts along the way have been raised everything adds up.  *)
VisitLoop(t, i, s, way, tried) ==
  LET one == [nodes |-> Append(t.nodes, Middle(way = <<>>)),
              children |-> [t.children EXCEPT ![i + 1].index = Len(t.nodes)],
              stack |-> Append(children_stack, i)]
      f == CHOOSE g : LoopStep(one, LegalActions(s, way, tried), Len(way), g)
  IN IF IS_NODAL THEN f[Len(way)] ELSE one

Played(t, s, v) ==
  /\ v.nodes = [t.nodes EXCEPT ![Len(t.nodes)] = AfterPlayout(@, s)]
  /\ v.children = t.children
  /\ v.stack = t.stack

(* Visit is that loop, and the playout from the node it puts last. *)
LEMMA VisitIs ==
  ASSUME NEW t, NEW i, NEW s, NEW way, NEW tried, Parted(VisitLoop(t, i, s, way, tried))
  PROVE  Played(VisitLoop(t, i, s, way, tried), AfterPath(s, way), Visit(t, i, s, way, tried))
<1> DEFINE g == VisitLoop(t, i, s, way, tried)
           v == Visit(t, i, s, way, tried)
           e == AfterPath(s, way)
<1>1. v = [g EXCEPT !.nodes[Len(g.nodes)] = AfterPlayout(@, e)]
  BY DEF Visit, VisitLoop, LoopStep, Middle
<1> HIDE DEF g, v, e
<1>2. Parted(g)
  BY DEF g
<1>3. v.nodes = [g.nodes EXCEPT ![Len(g.nodes)] = AfterPlayout(@, e)]
  BY <1>1, <1>2 DEF Parted
<1>4. v.children = g.children
  BY <1>1, <1>2 DEF Parted
<1>5. v.stack = g.stack
  BY <1>1, <1>2 DEF Parted
<1>6. Played(g, e, v)
  BY <1>3, <1>4, <1>5 DEF Played
<1> QED
  BY <1>6 DEF g, e, v

(* Where the visit goes: child i of node n, swapped to l, leads to s. *)
Visits(ns, cs, L, pos, n, i, l, s) ==
  /\ n \in L
  /\ Openings(ns, cs, n, i, l)
  /\ s \in State
  /\ Leads(pos[n], cs[i + 1].semimove, s)

(* A visit ends in a tree in which one more simulation is counted. *)
LEMMA VisitEnds ==
  ASSUME NEW ns, NEW cs, NEW L, NEW root, NEW pos, Tree(ns, cs, L, root, pos),
         NEW total \in Nat, NEW rolled, Counted(ns, cs, L, total, rolled),
         NEW n, Way(ns, cs, L, children_stack, n), Touched(ns, cs, L, n),
         NEW i, NEW l, NEW s, Visits(ns, cs, L, pos, n, i, l, s),
         NEW way \in PathsToNodal(s), NEW tried \in SUBSET DeadEndsAlong(s, way),
         NEW t, t.nodes = ns, t.children = Swap(cs, i, l),
         NEW v, v = Visit(t, l, s, way, tried)
  PROVE  \E K, q, u : Ends(v.nodes, Backpropagate(v.children, v.stack), K, root, q, total + 1, rolled, v.stack, u, Nobody)
<1> DEFINE any == Middle(way = <<>>)
           one == VisitStart(ns, cs, children_stack, i, l, any)
           lists == LegalActions(s, way, tried)
           w == Len(way)
           f == CHOOSE g : LoopStep(one, lists, w, g)
           g == VisitLoop(t, l, s, way, tried)
           e == AfterPath(s, way)
<1>1. s \in State /\ n \in L /\ Openings(ns, cs, n, i, l) /\ Leads(pos[n], cs[i + 1].semimove, s)
  BY DEF Visits
<1>2. PICK u : Completes(s, way, u)
  BY <1>1, PathsComplete
<1>3. way \in Seq(Seq(Action)) /\ w \in Nat /\ (way = <<>> <=> w = 0)
  BY <1>2 DEF Completes
<1>4. any \in NodeRecord
  BY DEF Middle, new_node, NodeRecord
<1>5. Ready(one, any, root, total + 1, rolled, s)
  BY <1>1, <1>4, StartReady
<1>6. LoopStep(one, lists, w, f)
  <2>1. \E h : LoopStep(one, lists, w, h)
    BY <1>3, LoopExists
  <2> HIDE DEF one, lists, w
  <2> QED
    BY <2>1
<1>7. g = IF IS_NODAL THEN f[w] ELSE one
  BY DEF VisitLoop, VisitStart
<1>8. e = u[w]
  BY <1>1, <1>2, <1>3, AfterPathAlong DEF Completes
<1>9. total + 1 \in Nat
  OBVIOUS
<1>10. u[w] \in Nodal /\ u[w] \in State /\ u[0] = s /\ (s \in Nodal => way = <<>>) /\ Rests(s) # {} /\ Rests(u[w]) # {}
  <2>1. w \in 0..Len(way) /\ 0 \in 0..Len(way)
    BY <1>3
  <2> QED
    BY <1>2, <2>1 DEF Completes, Along
<1> HIDE DEF f, g, e, one, any
<1>11. ASSUME NEW x, NEW ends, Ready(g, Middle(ends), root, total + 1, rolled, x),
              x \in State, Rests(x) # {}, IS_NODAL => x \in Nodal, x \in Nodal => e = x, ends = (x \in Nodal)
       PROVE  \E K, q : Ends(v.nodes, Backpropagate(v.children, v.stack), K, root, q, total + 1, rolled, v.stack, x, Nobody)
  <2>1. Typed(g, Middle(ends)) /\ Parted(g)
    BY <1>11 DEF Ready, Typed
  <2>2. Played(g, e, v)
    BY <2>1, VisitIs DEF g, e
  <2>3. Len(g.nodes) \in Nat \ {0} /\ g.nodes[Len(g.nodes)] = Middle(ends) /\ Len(g.nodes) - 1 \in Nat
    BY <2>1 DEF Typed
  <2> DEFINE node == AfterPlayout(Middle(x \in Nodal), e)
             N == Len(g.nodes) - 1
  <2>4. v.nodes = [g.nodes EXCEPT ![Len(g.nodes)] = node] /\ v.children = g.children /\ v.stack = g.stack
    BY <1>11, <2>2, <2>3 DEF Played
  <2>5. N \in Nat
    BY <2>3
  <2>6. Suits(node, x) /\ Gives(rolled, node, N, Nobody)
    <3> HIDE DEF N
    <3> QED
      BY <1>11, <2>5, PlayoutSuits
  <2> HIDE DEF node
  <2> QED
    BY <1>11, <2>4, <2>6 DEF Ready
<1>12. CASE IS_NODAL
  <2>1. Ready(f[w], Middle(TRUE), root, total + 1, rolled, u[w])
    BY <1>1, <1>2, <1>5, <1>6, <1>9, <1>12, TurnOnTree DEF any
  <2>2. g = f[w]
    BY <1>7, <1>12
  <2>3. TRUE = (u[w] \in Nodal)
    BY <1>10, Zenon
  <2> QED
    BY <1>8, <1>10, <1>11, <2>1, <2>2, <2>3
<1>13. CASE ~IS_NODAL
  <2>1. g = one /\ Ready(g, Middle(way = <<>>), root, total + 1, rolled, s)
    BY <1>5, <1>7, <1>13 DEF any
  <2>2. way = <<>> <=> s \in Nodal
    BY <1>3, <1>10
  <2>3. (way = <<>>) = (s \in Nodal)
    BY <2>2
  <2>4. s \in Nodal => e = s
    BY <1>3, <1>8, <1>10
  <2> QED
    BY <1>1, <1>10, <1>11, <1>13, <2>1, <2>3, <2>4
<1> QED
  BY <1>12, <1>13

-----------------------------------------------------------------------------
(* The steps of a simulation.                                              *)

(* What the invariant says while a simulation goes down. *)
LEMMA DescentFacts ==
  ASSUME NEW rolled, NEW L, NEW pos, Inv(rolled, L, pos), pc = "descend"
  PROVE  /\ Tree(nodes, children, L, root_state, pos)
         /\ Vectors(nodes, children) /\ Links(nodes, children, L)
         /\ Counted(nodes, children, L, root_sim_count, rolled)
         /\ Touched(nodes, children, L, node_index)
         /\ root_sim_count \in Nat /\ root_sim_count + 1 \in 0..MaxSims /\ root_sim_count \in 0..MaxSims
         /\ Descending(L, pos)
         /\ Way(nodes, children, L, children_stack, node_index)
         /\ node_index \in L /\ node_index \in Indices(nodes) /\ node_index \in Nat
         /\ state = pos[node_index] /\ state \in State
         /\ BlockOf(nodes, node_index) = ChildIndices(Node(node_index))
<1>1. /\ Tree(nodes, children, L, root_state, pos)
      /\ Counted(nodes, children, L, root_sim_count, rolled)
      /\ Touched(nodes, children, L, node_index)
      /\ root_sim_count \in 0..MaxSims
      /\ Descending(L, pos)
  BY DEF Inv, Idling, Returning
<1>2. Vectors(nodes, children) /\ Links(nodes, children, L)
  BY <1>1 DEF Tree
<1>3. root_sim_count \in Nat /\ root_sim_count + 1 \in 0..MaxSims
  BY <1>1, SemisplitAssumption DEF Descending
<1>4. Way(nodes, children, L, children_stack, node_index) /\ state = pos[node_index]
  BY <1>1 DEF Descending
<1>5. node_index \in L
  <2>1. /\ Len(children_stack) \in Nat
        /\ \A k \in 0..Len(children_stack) : At(children, children_stack, k) \in L
    BY <1>2, <1>4, WayFacts
  <2>2. Len(children_stack) \in 0..Len(children_stack)
    BY <2>1
  <2> QED
    BY <1>4, <2>1, <2>2 DEF Way
<1>6. node_index \in Indices(nodes) /\ node_index \in Nat
  BY <1>2, <1>5, LinkFacts
<1>7. state \in State
  BY <1>1, <1>4, <1>5 DEF Tree, Stands
<1>8. BlockOf(nodes, node_index) = ChildIndices(Node(node_index))
  BY DEF BlockOf, Node
<1> QED
  BY <1>1, <1>2, <1>3, <1>4, <1>5, <1>6, <1>7, <1>8

(* A visited child leads the way on. *)
LEMMA WayDown ==
  ASSUME NEW ns, NEW cs, NEW L, Vectors(ns, cs), Links(ns, cs, L), NEW stack, NEW n, Way(ns, cs, L, stack, n),
         NEW i \in BlockOf(ns, n), n \in L, cs[i + 1].index # 0
  PROVE  Way(ns, cs, L, Append(stack, i), cs[i + 1].index)
<1> DEFINE S == Append(stack, i)
           w == Len(stack)
<1>1. stack \in Seq(Indices(cs)) /\ w \in Nat /\ i \in Indices(cs)
  BY LinkFacts DEF Way
<1>2. S \in Seq(Indices(cs)) /\ Len(S) = w + 1 /\ S[w + 1] = i /\ \A k \in 1..w : S[k] = stack[k]
  BY <1>1
<1> HIDE DEF S
<1>3. \A k \in 0..w : At(cs, S, k) = At(cs, stack, k)
  <2>1. \A k \in 0..w : k # 0 => k \in 1..w
    BY <1>1
  <2> QED
    BY <1>2, <2>1 DEF At
<1>4. At(cs, S, w + 1) = cs[i + 1].index
  BY <1>1, <1>2 DEF At
<1>5. \A k \in 1..(w + 1) : /\ At(cs, S, k - 1) \in L
                            /\ S[k] \in BlockOf(ns, At(cs, S, k - 1))
                            /\ At(cs, S, k) # 0
  <2> TAKE k \in 1..(w + 1)
  <2>1. CASE k = w + 1
    <3>1. k - 1 = w /\ w \in 0..w /\ At(cs, stack, w) = n
      BY <1>1, <2>1 DEF Way
    <3> QED
      BY <1>2, <1>3, <1>4, <2>1, <3>1
  <2>2. CASE k # w + 1
    <3>1. k \in 1..Len(stack) /\ k \in 0..w /\ k - 1 \in 0..w
      BY <1>1, <2>2
    <3> QED
      BY <1>2, <1>3, <3>1 DEF Way
  <2> QED
    BY <2>1, <2>2
<1>6. Way(ns, cs, L, S, cs[i + 1].index)
  BY <1>2, <1>4, <1>5 DEF Way
<1> QED
  BY <1>6 DEF S

(* A simulation begins at the root, where play goes on. *)
LEMMA BeginStep ==
  ASSUME NEW rolled, NEW L, NEW pos, Inv(rolled, L, pos), BeginSimulation
  PROVE  Inv(rolled, L, pos)'
<1>1. /\ pc = "idle" /\ pc' = "descend" /\ root_sim_count < MaxSims /\ ~is_terminal(nodes[1])
      /\ nodes' = nodes /\ children' = children /\ root_state' = root_state /\ root_sim_count' = root_sim_count
      /\ children_stack' = children_stack /\ node_index' = 0 /\ state' = root_state
      /\ node_sim_count' = root_sim_count
  <2>1. nodes[0 + 1] = nodes[1]
    OBVIOUS
  <2> QED
    BY <2>1 DEF BeginSimulation, vectors, Node
<1>2. /\ Tree(nodes, children, L, root_state, pos)
      /\ Counted(nodes, children, L, root_sim_count, rolled)
      /\ Touched(nodes, children, L, Nobody)
      /\ root_sim_count \in 0..MaxSims
      /\ Idling
  BY <1>1 DEF Inv, Returning, Descending
<1>3. children_stack = <<>> /\ 0 \in L /\ pos[0] = root_state
  BY <1>2 DEF Idling, Tree, Links, Stands
<1>4. Way(nodes, children, L, <<>>, 0)
  BY DEF Way, At
<1>5. Touched(nodes, children, L, 0)
  <2>1. \A n \in L : n # Nobody
    BY <1>2, LinkFacts DEF Tree, Nobody
  <2> QED
    BY <1>2, <2>1 DEF Touched
<1>6. Descending(L, pos)'
  BY <1>1, <1>3, <1>4 DEF Descending
<1> QED
  BY <1>1, <1>2, <1>5, <1>6 DEF Inv

(* It goes down to a child that was visited. *)
LEMMA DescendStep ==
  ASSUME NEW rolled, NEW L, NEW pos, Inv(rolled, L, pos), Descend
  PROVE  Inv(rolled, L, pos)'
<1>1. pc = "descend" /\ ~is_terminal(Node(node_index)) /\ is_node_fully_expanded(node_index)
  BY DEF Descend
<1>2. PICK i \in ChildIndices(Node(node_index)) :
        /\ children_stack' = Append(children_stack, i)
        /\ state' = apply(state, Child(i).semimove)
        /\ node_index' = Child(i).index
        /\ node_sim_count' = Child(i).sim_count
  BY DEF Descend
<1>3. /\ nodes' = nodes /\ children' = children /\ root_state' = root_state /\ root_sim_count' = root_sim_count
      /\ pc' = "descend"
  BY <1>1 DEF Descend, vectors
<1>4. /\ Tree(nodes, children, L, root_state, pos)
      /\ Vectors(nodes, children) /\ Links(nodes, children, L)
      /\ Counted(nodes, children, L, root_sim_count, rolled)
      /\ Touched(nodes, children, L, node_index)
      /\ root_sim_count \in 0..MaxSims
      /\ Descending(L, pos)
      /\ Way(nodes, children, L, children_stack, node_index)
      /\ node_index \in L /\ node_index \in Indices(nodes)
      /\ state = pos[node_index] /\ state \in State
      /\ BlockOf(nodes, node_index) = ChildIndices(Node(node_index))
  BY <1>1, DescentFacts
<1>5. i \in BlockOf(nodes, node_index) /\ i \in Indices(children)
  BY <1>4, LinkFacts
<1> DEFINE n == node_index
           last == Node(n).second - 1
<1>6. last \in BlockOf(nodes, n) /\ i <= last /\ children[last + 1].index # 0
  <2>1. nodes[n + 1].first \in Nat /\ nodes[n + 1].second \in Nat /\ i \in Nat
    BY <1>4, <1>5, VectorFacts
  <2>2. nodes[n + 1].first <= i /\ i < nodes[n + 1].second
    BY <1>4, <1>5, VectorFacts
  <2> QED
    BY <1>1, <2>1, <2>2 DEF BlockOf, ChildIndices, Node, Child, is_node_fully_expanded
<1>7. children[i + 1].index # 0
  BY <1>4, <1>5, <1>6 DEF Tree, VisitedOnTop
<1>8. Child(i).index = children[i + 1].index /\ Child(i).semimove = children[i + 1].semimove
      /\ Child(i).sim_count = children[i + 1].sim_count
  BY DEF Child
<1>9. Way(nodes, children, L, Append(children_stack, i), children[i + 1].index)
  BY <1>4, <1>5, <1>7, WayDown
<1>10. state' = pos[children[i + 1].index]
  <2>1. Fits(pos, pos[n], children[i + 1])
    BY <1>4, <1>5 DEF Tree, Stands
  <2>2. PICK t \in State : Leads(pos[n], children[i + 1].semimove, t) /\ pos[children[i + 1].index] = t
    BY <1>7, <2>1 DEF Fits
  <2>3. apply(pos[n], children[i + 1].semimove) = t
    BY <1>4, <2>2, LeadsFacts
  <2> QED
    BY <1>2, <1>4, <1>8, <2>2, <2>3
<1>11. Touched(nodes, children, L, children[i + 1].index)
  BY <1>4, <1>5, <1>7 DEF Touched
<1>12. Append(children_stack, i) # <<>> /\ Last(Append(children_stack, i)) = i
  <2>1. children_stack \in Seq(Indices(children))
    BY <1>4 DEF Way
  <2> QED
    BY <1>5, <2>1 DEF Last
<1>13. Descending(L, pos)'
  <2>1. root_sim_count < MaxSims /\ ~is_terminal(nodes[1])
    BY <1>4 DEF Descending
  <2> QED
    BY <1>2, <1>3, <1>8, <1>9, <1>10, <1>12, <2>1 DEF Descending
<1> QED
  BY <1>2, <1>3, <1>4, <1>8, <1>11, <1>13 DEF Inv

(* It returns, and the stack is emptied. *)
LEMMA FinishStep ==
  ASSUME NEW rolled, NEW L, NEW pos, Inv(rolled, L, pos), FinishSimulation
  PROVE  Inv(rolled, L, pos)'
<1>1. /\ pc = "return" /\ pc' = "idle" /\ children_stack' = <<>>
      /\ nodes' = nodes /\ children' = children /\ root_state' = root_state /\ root_sim_count' = root_sim_count
      /\ node_index' = node_index /\ state' = state /\ node_sim_count' = node_sim_count
  BY DEF FinishSimulation, vectors
<1>2. AtRest
  BY <1>1 DEF Inv, Idling, Returning, Descending
<1>3. Idling'
  BY <1>1, <1>2 DEF Idling, AtRest
<1> QED
  BY <1>1, <1>3 DEF Inv

(* create_children on a node that is not terminal, in both vectors. *)
Spread(t, n, acts, ms, ds) ==
  /\ ms = [t.nodes EXCEPT ![n + 1] = [@ EXCEPT !.first = Len(t.children), !.second = Len(t.children) + Len(acts)]]
  /\ ds = t.children \o [k \in 1..Len(acts) |-> NewChild(acts[k])]

(* What create_children writes, where there is something to create. *)
LEMMA ChildrenSpread ==
  ASSUME NEW t, DOMAIN t = {"nodes", "children"}, NEW n, ~is_terminal(t.nodes[n + 1]),
         NEW S, NEW acts \in Seq(S), acts # <<>>
  PROVE  Spread(t, n, acts, create_children(t, n, acts).nodes, create_children(t, n, acts).children)
<1>1. DOMAIN acts = 1..Len(acts)
  OBVIOUS
<1>2. ~(acts = <<>> \/ is_terminal(t.nodes[n + 1]))
  OBVIOUS
<1> DEFINE g == create_children(t, n, acts)
<1>3. g = [t EXCEPT !.nodes[n + 1] = [@ EXCEPT !.first = Len(t.children),
                                               !.second = Len(t.children) + Len(acts)],
                    !.children = @ \o [k \in DOMAIN acts |-> [semimove |-> acts[k], index |-> 0, sim_count |-> 0]]]
  BY <1>2 DEF create_children
<1> HIDE DEF g
<1>4. g.nodes = [t.nodes EXCEPT ![n + 1] = [@ EXCEPT !.first = Len(t.children),
                                                     !.second = Len(t.children) + Len(acts)]]
  BY <1>3
<1>5. g.children = t.children \o [k \in DOMAIN acts |-> [semimove |-> acts[k], index |-> 0, sim_count |-> 0]]
  BY <1>3
<1> QED
  BY <1>1, <1>4, <1>5 DEF Spread, NewChild, g

(* So the node is expanded by a block of unvisited children. *)
LEMMA SpreadExpands ==
  ASSUME NEW t, t.nodes \in Seq(NodeRecord), t.children \in Seq(ChildRecord), NEW n \in Indices(t.nodes),
         NEW acts \in Seq(Seq(Action)), NEW ms, NEW ds, Spread(t, n, acts, ms, ds)
  PROVE  Expands(t.nodes, t.children, n, acts, ms, ds)
<1> DEFINE ns == t.nodes
           cs == t.children
           C == Len(cs)
           A == Len(acts)
           r == ns[n + 1]
           rec == [r EXCEPT !.first = C, !.second = C + A]
           block == [k \in 1..A |-> NewChild(acts[k])]
<1>1. n \in Nat /\ n + 1 \in 1..Len(ns) /\ C \in Nat /\ A \in Nat /\ C + A \in Nat /\ Len(ns) \in Nat
  BY DEF Indices
<1>2. /\ rec = [first |-> C, second |-> C + A, is_nodal |-> r.is_nodal, status |-> r.status]
      /\ rec \in NodeRecord
  <2> DEFINE x == C + A
  <2>1. r \in NodeRecord /\ C \in Nat /\ x \in Nat
    BY <1>1
  <2> HIDE DEF r, C, x
  <2>2. /\ [r EXCEPT !.first = C, !.second = x] =
             [first |-> C, second |-> x, is_nodal |-> r.is_nodal, status |-> r.status]
        /\ [r EXCEPT !.first = C, !.second = x] \in NodeRecord
    BY <2>1, NodeSpread
  <2> QED
    BY <2>2 DEF x
<1>3. ms = [ns EXCEPT ![n + 1] = rec]
  BY DEF Spread
<1> HIDE DEF rec
<1>4. ms \in Seq(NodeRecord) /\ Len(ms) = Len(ns) /\ ms[n + 1] = rec
  BY <1>1, <1>2, <1>3
<1>5. \A m \in Indices(ns) : m # n => ms[m + 1] = ns[m + 1]
  <2>1. \A m \in Indices(ns) : m + 1 \in 1..Len(ns) /\ (m # n => m + 1 # n + 1)
    BY <1>1 DEF Indices
  <2>2. ns \in Seq(NodeRecord)
    OBVIOUS
  <2> HIDE DEF ns
  <2>3. \A k \in 1..Len(ns) : k # n + 1 => ms[k] = ns[k]
    BY <1>3, <2>2
  <2> QED
    BY <2>1, <2>3
<1>6. block \in Seq(ChildRecord) /\ Len(block) = A /\ \A k \in 1..A : block[k] = NewChild(acts[k])
  <2>1. \A k \in 1..A : NewChild(acts[k]) \in ChildRecord
    <3> TAKE k \in 1..A
    <3>1. acts[k] \in Seq(Action)
      BY <1>1
    <3> QED
      BY <3>1 DEF NewChild, ChildRecord
  <2> QED
    BY <1>1, <2>1
<1>7. ds = cs \o block
  BY DEF Spread
<1> HIDE DEF block
<1>8. /\ ds \in Seq(ChildRecord)
      /\ Len(ds) = C + A
      /\ \A k \in 1..C : ds[k] = cs[k]
      /\ \A k \in 1..A : ds[C + k] = NewChild(acts[k])
  <2>1. cs \in Seq(ChildRecord) /\ block \in Seq(ChildRecord)
    BY <1>6
  <2> HIDE DEF cs
  <2>2. /\ cs \o block \in Seq(ChildRecord)
        /\ Len(cs \o block) = Len(cs) + Len(block)
        /\ \A k \in 1..Len(cs) : (cs \o block)[k] = cs[k]
        /\ \A k \in 1..Len(block) : (cs \o block)[Len(cs) + k] = block[k]
    BY <2>1, JoinParts
  <2> QED
    BY <1>6, <1>7, <2>2
<1>9. \A i \in Indices(cs) : ds[i + 1] = cs[i + 1]
  <2>1. \A i \in Indices(cs) : i + 1 \in 1..C
    BY <1>1 DEF Indices
  <2> QED
    BY <1>8, <2>1
<1> QED
  BY <1>2, <1>4, <1>5, <1>8, <1>9 DEF Expands

(* Where something can be done, something is listed. *)
LEMMA SomethingListed ==
  ASSUME NEW s \in State, Moves(s) # {}
  PROVE  LET acts == SetToSeq(Semimoves[s])
         IN Lists(s, acts) /\ Len(acts) \in Nat \ {0} /\ acts # <<>> /\ acts \in Seq(Seq(Action))
<1> DEFINE acts == SetToSeq(Semimoves[s])
<1>1. Lists(s, acts) /\ (acts = <<>> <=> Semimoves[s] = {})
  BY AllSemimovesListed
<1>2. Semimoves[s] # {}
  BY SemimovesCover
<1> HIDE DEF acts
<1>3. acts \in Seq(Semimoves[s]) /\ acts # <<>>
  BY <1>1, <1>2 DEF Lists
<1>4. Len(acts) \in Nat \ {0}
  BY <1>3
<1>5. acts \in Seq(Seq(Action))
  <2>1. \A j \in 1..Len(acts) : acts[j] \in Seq(Action)
    BY <1>3, SemimoveFacts
  <2> QED
    BY <1>3, <2>1
<1> QED
  BY <1>1, <1>3, <1>4, <1>5 DEF acts

(* The visits the children of the root remember. *)
RootSims == BlockSims(children, nodes[1])

(* New children were never visited: the node stays what it was. *)
LEMMA ExpandStep ==
  ASSUME NEW rolled, NEW L, NEW pos, Inv(rolled, L, pos), Expand
  PROVE  Inv(rolled, L, pos)' /\ RootSims' = RootSims
<1> DEFINE acts == SetToSeq(Semimoves[state])
           m == node_index
<1>1. /\ pc = "descend" /\ pc' = "descend" /\ ~is_expanded(nodes[m + 1])
      /\ nodes' = create_children(tree, m, acts).nodes /\ children' = create_children(tree, m, acts).children
      /\ root_state' = root_state /\ root_sim_count' = root_sim_count
      /\ children_stack' = children_stack /\ node_index' = node_index /\ state' = state
      /\ node_sim_count' = node_sim_count
  BY DEF Expand, Node
<1>2. /\ Tree(nodes, children, L, root_state, pos)
      /\ Vectors(nodes, children) /\ Links(nodes, children, L)
      /\ Counted(nodes, children, L, root_sim_count, rolled)
      /\ Touched(nodes, children, L, m)
      /\ root_sim_count \in 0..MaxSims
      /\ Descending(L, pos)
      /\ Way(nodes, children, L, children_stack, m)
      /\ m \in L /\ m \in Indices(nodes) /\ m \in Nat
      /\ state = pos[m] /\ state \in State
  BY <1>1, DescentFacts
<1>3. ~is_terminal(nodes[m + 1])
  <2>1. nodes[m + 1].first \in Nat /\ nodes[m + 1].second \in Nat
    BY <1>2, VectorFacts
  <2>2. is_terminal(nodes[m + 1]) => nodes[m + 1].first = nodes[m + 1].second
    BY <1>2 DEF Tree, Statuses
  <2> QED
    BY <1>1, <2>1, <2>2 DEF is_expanded
<1>4. Moves(state) # {}
  BY <1>2, <1>3, MovesLeft DEF Tree
<1>5. Lists(state, acts) /\ Len(acts) \in Nat \ {0} /\ acts # <<>> /\ acts \in Seq(Seq(Action))
  BY <1>2, <1>4, SomethingListed
<1> HIDE DEF acts
<1>6. DOMAIN tree = {"nodes", "children"} /\ tree.nodes = nodes /\ tree.children = children
  BY DEF tree
<1>7. Spread(tree, m, acts, nodes', children')
  <2>1. ~is_terminal(tree.nodes[m + 1])
    BY <1>3, <1>6
  <2>2. Spread(tree, m, acts, create_children(tree, m, acts).nodes, create_children(tree, m, acts).children)
    BY <1>5, <1>6, <2>1, ChildrenSpread
  <2> QED
    BY <1>1, <2>2
<1>8. Expands(nodes, children, m, acts, nodes', children')
  <2>1. tree.nodes \in Seq(NodeRecord) /\ tree.children \in Seq(ChildRecord) /\ m \in Indices(tree.nodes)
    BY <1>2, <1>6 DEF Vectors
  <2>2. Expands(tree.nodes, tree.children, m, acts, nodes', children')
    BY <1>5, <1>7, <2>1, SpreadExpands
  <2> QED
    BY <1>6, <2>2
<1>9. Expandable(nodes, L, pos, m, acts)
  BY <1>1, <1>2, <1>3, <1>5 DEF Expandable
<1>10. Tree(nodes', children', L, root_state, pos)
  BY <1>2, <1>8, <1>9, ExpandKeepsTree
<1>11. /\ Counted(nodes', children', L, root_sim_count, rolled)
       /\ Way(nodes', children', L, children_stack, m)
       /\ \A n \in Indices(nodes) : BlockSims(children', nodes'[n + 1]) = BlockSims(children, nodes[n + 1])
  <2>1. Vectors(nodes', children')
    BY <1>10 DEF Tree
  <2> QED
    BY <1>2, <1>8, <1>9, <2>1, ExpandKeepsCounts DEF Counted
<1>12. Touched(nodes', children', L, m)
  BY <1>2, <1>8, <1>9, ExpandTouches
<1>13. Descending(L, pos)'
  <2>1. Widened(nodes, children, m, acts, nodes', children')
    BY <1>2, <1>8, <1>9, ExpandBlocks
  <2>2. root_sim_count < MaxSims /\ ~is_terminal(nodes[1]) /\ state = pos[node_index]
        /\ node_sim_count = IF children_stack = <<>> THEN root_sim_count
                            ELSE children[Last(children_stack) + 1].sim_count
    BY <1>2 DEF Descending
  <2>3. ~is_terminal(nodes'[1])
    <3>1. 0 \in Indices(nodes) /\ nodes'[0 + 1] = nodes'[1] /\ nodes[0 + 1] = nodes[1]
      BY <1>2 DEF Vectors
    <3>2. nodes'[0 + 1].status = nodes[0 + 1].status
      BY <2>1, <3>1 DEF Widened
    <3> QED
      BY <2>2, <3>1, <3>2 DEF is_terminal
  <2>4. children_stack # <<>> => children'[Last(children_stack) + 1].sim_count = children[Last(children_stack) + 1].sim_count
    <3> HAVE children_stack # <<>>
    <3>1. children_stack \in Seq(Indices(children))
      BY <1>2 DEF Way
    <3>2. Last(children_stack) \in Indices(children)
      BY <3>1, FrontIs
    <3> QED
      BY <2>1, <3>2 DEF Widened
  <2> QED
    BY <1>1, <1>11, <2>2, <2>3, <2>4 DEF Descending
<1>14. RootSims' = RootSims
  <2>1. 0 \in Indices(nodes) /\ nodes'[0 + 1] = nodes'[1] /\ nodes[0 + 1] = nodes[1]
    BY <1>2 DEF Vectors
  <2> QED
    BY <1>11, <2>1 DEF RootSims
<1> QED
  BY <1>1, <1>2, <1>10, <1>11, <1>12, <1>13, <1>14 DEF Inv

(* From a terminal node every edge of the way there counts once more, and  *)
(* the first of them is a child of the root.                               *)
LEMMA ScoreStep ==
  ASSUME NEW rolled, NEW L, NEW pos, Inv(rolled, L, pos), ScoreTerminal
  PROVE  Inv(rolled, L, pos)' /\ RootSims' = RootSims + 1
<1>1. /\ pc = "descend" /\ pc' = "return" /\ is_terminal(nodes[node_index + 1])
      /\ nodes' = nodes /\ children' = Backpropagate(children, children_stack)
      /\ root_state' = root_state /\ root_sim_count' = root_sim_count + 1
      /\ children_stack' = children_stack /\ node_index' = 0 /\ state' = root_state /\ node_sim_count' = 0
  BY DEF ScoreTerminal, EndSimulation, Node
<1>2. /\ Tree(nodes, children, L, root_state, pos)
      /\ Vectors(nodes, children) /\ Links(nodes, children, L)
      /\ Counted(nodes, children, L, root_sim_count, rolled)
      /\ Touched(nodes, children, L, node_index)
      /\ root_sim_count \in Nat /\ root_sim_count + 1 \in 0..MaxSims
      /\ Way(nodes, children, L, children_stack, node_index)
      /\ node_index \in L /\ node_index \in Indices(nodes)
      /\ ~is_terminal(nodes[1])
  BY <1>1, DescentFacts DEF Descending
<1>3. Backed(children, children_stack, children')
  <2>1. children \in Seq(ChildRecord)
    BY <1>2 DEF Vectors
  <2> QED
    BY <1>1, <2>1, BackpropagateIs
<1>4. SameIndex(children, children') /\ SameMoves(children, children')
  BY <1>3 DEF Backed
<1>5. Tree(nodes, children', L, root_state, pos)
  BY <1>2, <1>4, SameMovesKeep
<1>6. CountedBut(nodes, children', L, root_sim_count + 1, rolled, node_index)
  BY <1>2, <1>3, BackpropagateCounts
<1>7. Vectors(nodes, children') /\ Links(nodes, children', L)
  BY <1>5 DEF Tree
<1>8. Counted(nodes, children', L, root_sim_count + 1, rolled)
  <2>1. root_sim_count + 1 \in Nat
    BY <1>2
  <2> QED
    BY <1>1, <1>6, <1>7, <2>1, TerminalSettles
<1>9. Touched(nodes, children', L, node_index)
  BY <1>2, <1>4, SameIndexTouches
<1>10. Touched(nodes, children', L, Nobody)
  <2>1. nodes[node_index + 1].is_nodal
    BY <1>1, <1>2 DEF Tree, Statuses, is_terminal, TrueStatus
  <2> QED
    BY <1>9, <2>1 DEF Touched
<1>11. Way(nodes, children', L, children_stack, At(children', children_stack, Len(children_stack)))
  <2>1. Way(nodes, children', L, children_stack, node_index)
    BY <1>2, <1>4, SameIndexKeeps DEF Links
  <2> QED
    BY <2>1 DEF Way
<1>12. Returning(L)'
  BY <1>1, <1>11 DEF Returning, AtRest
<1>13. RootSims' = RootSims + 1
  <2>1. 0 \in L /\ nodes[0 + 1] = nodes[1]
    BY <1>2 DEF Links
  <2>2. BlockSims(children', nodes[0 + 1]) = BlockSims(children, nodes[0 + 1]) + OnWay(children, children_stack, 0)
    BY <1>2, <1>3, <2>1, BlockSimsBacked
  <2>3. Len(children_stack) # 0
    BY <1>1, <1>2, <2>1 DEF Way, At
  <2>4. 1 \in 1..Len(children_stack) /\ At(children, children_stack, 1 - 1) = 0
    BY <1>2, <2>3 DEF Way, At
  <2>5. OnWay(children, children_stack, 0) = 1
    BY <2>4 DEF OnWay
  <2> QED
    BY <1>1, <2>1, <2>2, <2>5 DEF RootSims
<1> QED
  BY <1>1, <1>2, <1>5, <1>8, <1>10, <1>12, <1>13 DEF Inv

(* A node was simulated at least as often as its children together.       *)
LEMMA SurplusNat ==
  ASSUME NEW rolled, NEW isRoot, NEW node, NEW x \in Surplus(rolled, isRoot, node)
  PROVE  x \in Nat
BY DEF Surplus

(* A node was simulated as often as its children together, or oftener. *)
LEMMA SimsEnough ==
  ASSUME NEW ns, NEW cs, NEW L, Vectors(ns, cs), Links(ns, cs, L), NEW total \in Nat, NEW rolled,
         Counted(ns, cs, L, total, rolled)
  PROVE  /\ ~is_terminal(ns[1]) => BlockSims(cs, ns[1]) <= total
         /\ \A p \in L : \A i \in BlockOf(ns, p) :
              cs[i + 1].index # 0 /\ ~is_terminal(ns[cs[i + 1].index + 1])
                => BlockSims(cs, ns[cs[i + 1].index + 1]) <= cs[i + 1].sim_count
<1>1. ~is_terminal(ns[1]) => BlockSims(cs, ns[1]) <= total
  <2> HAVE ~is_terminal(ns[1])
  <2> DEFINE b == BlockSims(cs, ns[1])
             x == (total - b) - 0
  <2>1. x \in Surplus(rolled, TRUE, ns[1])
    <3>1. (total - b) - Extra(Nobody, 0) \in Surplus(rolled, TRUE, ns[1])
      BY DEF Counted, CountedBut
    <3>2. Extra(Nobody, 0) = 0
      BY DEF Extra, Nobody
    <3> QED
      BY <3>1, <3>2
  <2>2. b \in Nat
    <3>1. 0 \in Indices(ns) /\ ns[0 + 1] = ns[1]
      BY DEF Vectors
    <3> QED
      BY <3>1, BlockSimsNat
  <2> HIDE DEF b
  <2>3. x \in Nat
    <3> HIDE DEF x
    <3> QED
      BY <2>1, SurplusNat
  <2>4. b <= total
    BY <2>2, <2>3
  <2> QED
    BY <2>4 DEF b
<1>2. ASSUME NEW p \in L, NEW i \in BlockOf(ns, p), cs[i + 1].index # 0, ~is_terminal(ns[cs[i + 1].index + 1])
      PROVE  BlockSims(cs, ns[cs[i + 1].index + 1]) <= cs[i + 1].sim_count
  <2> DEFINE c == cs[i + 1].index
             b == BlockSims(cs, ns[c + 1])
             s == cs[i + 1].sim_count
             x == (s - b) - Extra(Nobody, c)
  <2>1. i \in Indices(cs) /\ c \in Indices(ns) /\ c \in Nat /\ s \in Nat
    BY LinkFacts, VectorFacts
  <2>2. x \in Surplus(rolled, FALSE, ns[c + 1])
    BY <1>2 DEF Counted, CountedBut, CountAt
  <2>3. b \in Nat
    BY <2>1, BlockSimsNat
  <2>4. Extra(Nobody, c) = 0
    BY <2>1 DEF Extra, Nobody
  <2>5. x \in Nat
    <3> HIDE DEF x
    <3> QED
      BY <2>2, SurplusNat
  <2> HIDE DEF b, s
  <2>6. b <= s
    BY <2>1, <2>3, <2>4, <2>5
  <2> QED
    BY <2>6 DEF b, s
<1> QED
  BY <1>1, <1>2

(* Where a simulation stands, an open child begins where it is looked for. *)
LEMMA OpenFacts ==
  ASSUME NEW rolled, NEW L, NEW pos, Inv(rolled, L, pos), AtUnvisited
  PROVE  /\ Lower \in BlockOf(nodes, node_index)
         /\ \A i \in BlockOf(nodes, node_index) : children[i + 1].index = 0 <=> Lower <= i
         /\ \A i \in Unvisited : i \in BlockOf(nodes, node_index) /\ Lower <= i /\ Lower \in Nat /\ i \in Nat
<1> DEFINE m == node_index
           node == nodes[m + 1]
           open == {i \in BlockOf(nodes, m) : children[i + 1].index = 0}
<1>1. pc = "descend" /\ is_expanded(node) /\ ~is_terminal(node) /\ ~is_node_fully_expanded(m)
  BY DEF AtUnvisited, Node
<1>2. /\ Tree(nodes, children, L, root_state, pos)
      /\ Vectors(nodes, children) /\ Links(nodes, children, L)
      /\ Counted(nodes, children, L, root_sim_count, rolled)
      /\ root_sim_count \in Nat
      /\ Descending(L, pos)
      /\ Way(nodes, children, L, children_stack, m)
      /\ m \in L /\ m \in Indices(nodes) /\ m \in Nat
  BY <1>1, DescentFacts
<1>3. node.first \in Nat /\ node.second \in Nat /\ node.first < node.second
  <2>1. node.first \in Nat /\ node.second \in Nat
    BY <1>2, VectorFacts
  <2>2. node.first # node.second
    BY <1>1, <1>2 DEF Tree, Statuses
  <2> QED
    BY <1>1, <2>1, <2>2 DEF is_expanded
<1>4. open # {}
  <2>1. node.second - 1 \in BlockOf(nodes, m)
    BY <1>3 DEF BlockOf, ChildIndices
  <2>2. children[(node.second - 1) + 1].index = 0
    BY <1>1 DEF is_node_fully_expanded, Node, Child
  <2> QED
    BY <2>1, <2>2
<1>5. BlockSims(children, node) <= node_sim_count /\ node_sim_count \in Nat
  <2>1. CASE children_stack = <<>>
    <3>1. m = 0 /\ node_sim_count = root_sim_count
      BY <1>2, <2>1 DEF Descending, Way, At
    <3>2. node = nodes[1]
      BY <3>1
    <3>3. ~is_terminal(nodes[1]) => BlockSims(children, nodes[1]) <= root_sim_count
      BY <1>2, SimsEnough
    <3> QED
      BY <1>1, <1>2, <3>1, <3>2, <3>3
  <2>2. CASE children_stack # <<>>
    <3> DEFINE w == Len(children_stack)
               i == Last(children_stack)
               p == At(children, children_stack, w - 1)
    <3>1. children_stack \in Seq(Indices(children))
      BY <1>2 DEF Way
    <3>8. w \in Nat \ {0} /\ i = children_stack[w]
      BY <2>2, <3>1, FrontIs
    <3>2. w \in Nat \ {0} /\ i = children_stack[w] /\ w \in 1..w
      <4>1. w \in Nat \ {0}
        BY <3>8
      <4> HIDE DEF w
      <4> QED
        BY <3>8, <4>1
    <3>3. p \in L /\ i \in BlockOf(nodes, p) /\ At(children, children_stack, w) # 0 /\ m = At(children, children_stack, w)
      BY <1>2, <3>2 DEF Way
    <3>4. m = children[i + 1].index /\ m # 0
      BY <3>2, <3>3 DEF At
    <3>5. node_sim_count = children[i + 1].sim_count
      BY <1>2, <2>2 DEF Descending
    <3>6. i \in Indices(children) /\ node_sim_count \in Nat
      <4>1. Vectors(nodes, children) /\ Links(nodes, children, L)
        BY <1>2
      <4>2. i \in Indices(children)
        BY <3>3, <4>1, LinkFacts
      <4>3. children[i + 1].sim_count \in Nat
        BY <4>1, <4>2, VectorFacts
      <4> QED
        BY <3>5, <4>2, <4>3
    <3>7. \A q \in L : \A j \in BlockOf(nodes, q) :
              children[j + 1].index # 0 /\ ~is_terminal(nodes[children[j + 1].index + 1])
                => BlockSims(children, nodes[children[j + 1].index + 1]) <= children[j + 1].sim_count
      BY <1>2, SimsEnough
    <3> HIDE DEF p, i
    <3> QED
      BY <1>1, <3>3, <3>4, <3>5, <3>6, <3>7
  <2> QED
    BY <2>1, <2>2
<1>6. /\ FirstUnvisited(children, node, node_sim_count) \in BlockOf(nodes, m)
      /\ \A i \in BlockOf(nodes, m) :
           children[i + 1].index = 0 <=> FirstUnvisited(children, node, node_sim_count) <= i
  <2>1. L \subseteq Indices(nodes) /\ VisitedOnTop(nodes, children, L)
    BY <1>2 DEF Tree, Links
  <2>2. \A i \in Indices(children) : children[i + 1].index = 0 <=> children[i + 1].sim_count = 0
    BY <1>2 DEF Counted, CountedBut
  <2> HIDE DEF m
  <2> QED
    BY <1>2, <1>4, <1>5, <2>1, <2>2, FirstOpen
<1>7. Lower = FirstUnvisited(children, node, node_sim_count)
  BY DEF Lower, Node
<1>8. Unvisited = Lower..(node.second - 1)
  BY DEF Unvisited, Node
<1>9. Lower \in node.first..(node.second - 1)
  BY <1>6, <1>7 DEF BlockOf, ChildIndices
<1> HIDE DEF node
<1>10. \A i \in Unvisited : i \in node.first..(node.second - 1) /\ Lower <= i /\ Lower \in Nat /\ i \in Nat
  BY <1>3, <1>8, <1>9
<1> QED
  BY <1>6, <1>7, <1>10 DEF BlockOf, ChildIndices, node

(* A dead end that is cut off was never visited, and not the last child:   *)
(* the branch that makes the node terminal is dead.                        *)
LEMMA RemoveStep ==
  ASSUME NEW rolled, NEW L, NEW pos, Inv(rolled, L, pos), RemoveDeadEnd
  PROVE  Inv(rolled, L, pos)' /\ RootSims' = RootSims
<1> DEFINE m == node_index
           last == nodes[m + 1].second - 1
           node == [nodes[m + 1] EXCEPT !.second = @ - 1]
           ms == [nodes EXCEPT ![m + 1] = node]
<1>1. AtUnvisited /\ pc = "descend" /\ ~is_terminal(nodes[m + 1])
  BY DEF RemoveDeadEnd, AtUnvisited, Node
<1>2. PICK i \in Unvisited :
        /\ PathsToNodal(apply(state, Child(i).semimove)) = {}
        /\ children' = Swap(Swap(children, i, Lower), Lower, node.second)
        /\ nodes' = [nodes EXCEPT ![m + 1] = IF node.first = node.second THEN Terminated(node) ELSE node]
  BY DEF RemoveDeadEnd, Node
<1>3. /\ root_state' = root_state /\ root_sim_count' = root_sim_count /\ pc' = pc
      /\ children_stack' = children_stack /\ node_index' = node_index /\ state' = state
      /\ node_sim_count' = node_sim_count
  BY DEF RemoveDeadEnd
<1>4. /\ Tree(nodes, children, L, root_state, pos)
      /\ Vectors(nodes, children) /\ Links(nodes, children, L)
      /\ Counted(nodes, children, L, root_sim_count, rolled)
      /\ Touched(nodes, children, L, m)
      /\ root_sim_count \in 0..MaxSims
      /\ Descending(L, pos)
      /\ Way(nodes, children, L, children_stack, m)
      /\ m \in L /\ m \in Indices(nodes) /\ m \in Nat
      /\ state = pos[m] /\ state \in State
  BY <1>1, DescentFacts
<1>5. /\ Lower \in BlockOf(nodes, m) /\ i \in BlockOf(nodes, m) /\ Lower <= i
      /\ Lower \in Nat /\ i \in Nat
      /\ \A j \in BlockOf(nodes, m) : children[j + 1].index = 0 <=> Lower <= j
  BY <1>1, <1>2, OpenFacts
<1>6. /\ nodes[m + 1] \in NodeRecord /\ nodes[m + 1].first \in Nat /\ nodes[m + 1].second \in Nat
      /\ nodes[m + 1].first <= i /\ i < nodes[m + 1].second
  BY <1>4, <1>5, VectorFacts
<1>7. node = [first |-> nodes[m + 1].first, second |-> last,
              is_nodal |-> nodes[m + 1].is_nodal, status |-> nodes[m + 1].status]
  <2> DEFINE r == nodes[m + 1]
  <2>1. r \in NodeRecord
    BY <1>6
  <2> HIDE DEF r
  <2>2. [r EXCEPT !.second = @ - 1] =
          [first |-> r.first, second |-> r.second - 1, is_nodal |-> r.is_nodal, status |-> r.status]
    BY <2>1 DEF NodeRecord
  <2> QED
    BY <2>2 DEF r
<1>8. node.first = nodes[m + 1].first /\ node.second = last /\ node \in NodeRecord
  <2>1. last \in Nat
    BY <1>5, <1>6
  <2> QED
    BY <1>6, <1>7, <2>1 DEF NodeRecord
<1> HIDE DEF node
<1>9. last \in BlockOf(nodes, m) /\ Lower <= last /\ last \in Nat
  <2>1. last \in nodes[m + 1].first..(nodes[m + 1].second - 1)
    BY <1>6, <1>5
  <2>2. i <= last
    BY <1>5, <1>6
  <2> QED
    BY <1>5, <1>6, <2>1, <2>2 DEF BlockOf, ChildIndices
<1>10. children[i + 1].index = 0 /\ children[last + 1].index = 0 /\ children[Lower + 1].index = 0
  BY <1>5, <1>9
<1>11. /\ i \in Indices(children) /\ last \in Indices(children) /\ Lower \in Indices(children)
       /\ children[i + 1].sim_count = 0 /\ children[last + 1].sim_count = 0 /\ children[Lower + 1].sim_count = 0
  <2>1. i \in Indices(children) /\ last \in Indices(children) /\ Lower \in Indices(children)
    BY <1>4, <1>5, <1>9, LinkFacts
  <2>2. \A j \in Indices(children) : children[j + 1].index = 0 <=> children[j + 1].sim_count = 0
    BY <1>4 DEF Counted, CountedBut
  <2> QED
    BY <1>10, <2>1, <2>2
<1> DEFINE cs == Swap(children, i, Lower)
           ds == Swap(cs, Lower, last)
<1>12. Tree(nodes, cs, L, root_state, pos) /\ SameIndex(children, cs) /\ SameSims(children, cs)
  BY <1>4, <1>5, <1>10, <1>11, SwapKeeps
<1>13. cs \in Seq(ChildRecord) /\ Indices(cs) = Indices(children)
  BY <1>12 DEF SameIndex, Indices
<1>14. cs[Lower + 1] = children[i + 1]
  <2>1. children \in Seq(ChildRecord)
    BY <1>4 DEF Vectors
  <2> QED
    BY <1>11, <2>1, SwapFields
<1> HIDE DEF cs
<1>15. /\ cs[last + 1].index = 0 /\ cs[Lower + 1].index = 0
       /\ cs[last + 1].sim_count = 0 /\ cs[Lower + 1].sim_count = 0
  BY <1>10, <1>11, <1>12 DEF SameIndex, SameSims
<1>16. Tree(nodes, ds, L, root_state, pos) /\ SameIndex(cs, ds) /\ SameSims(cs, ds)
  <2> HIDE DEF last
  <2> QED
    BY <1>4, <1>5, <1>9, <1>12, <1>15, SwapKeeps
<1>17. ds[last + 1] = children[i + 1]
  <2> HIDE DEF last
  <2> QED
    BY <1>11, <1>13, <1>14, SwapFields
<1>18. children' = ds
  BY <1>2, <1>8 DEF cs
<1> HIDE DEF ds
<1>19. /\ Counted(nodes, ds, L, root_sim_count, rolled)
       /\ \A n \in Indices(nodes) : BlockSims(ds, nodes[n + 1]) = BlockSims(children, nodes[n + 1])
  <2>1. Vectors(nodes, cs) /\ Links(nodes, cs, L)
    BY <1>12 DEF Tree
  <2>2. /\ Counted(nodes, cs, L, root_sim_count, rolled)
        /\ \A n \in Indices(nodes) : BlockSims(cs, nodes[n + 1]) = BlockSims(children, nodes[n + 1])
    BY <1>4, <1>12, SameSimsKeep DEF Counted
  <2> QED
    BY <1>16, <2>1, <2>2, SameSimsKeep DEF Counted
<1>20. Way(nodes, ds, L, children_stack, m) /\ Touched(nodes, ds, L, m)
  <2>1. Vectors(nodes, cs) /\ Links(nodes, cs, L) /\ L \subseteq Indices(nodes)
    BY <1>12 DEF Tree, Links
  <2>2. Way(nodes, cs, L, children_stack, m)
    BY <1>4, <1>12, <2>1, SameIndexKeeps
  <2>3. Touched(nodes, cs, L, m)
    BY <1>4, <1>12, SameIndexTouches
  <2> QED
    BY <1>16, <2>1, <2>2, <2>3, SameIndexKeeps, SameIndexTouches
<1>21. Through(pos[m], ds[last + 1].semimove) = {}
  <2>1. apply(pos[m], children[i + 1].semimove) \in State
    <3>1. PICK t \in State : Leads(pos[m], children[i + 1].semimove, t)
      BY <1>4, <1>5 DEF Tree, Stands, Fits
    <3> QED
      BY <1>4, <3>1, LeadsFacts
  <2>2. Rests(apply(pos[m], children[i + 1].semimove)) = {}
    BY <1>2, <1>4, <2>1, DeadEndIs DEF Child
  <2> QED
    BY <1>17, <2>2 DEF Through
<1>22. ds[last + 1].index = 0 /\ ds[last + 1].sim_count = 0
  BY <1>10, <1>11, <1>17
<1>23. Cuts(nodes, m, ms)
  <2>1. nodes \in Seq(NodeRecord) /\ m + 1 \in 1..Len(nodes)
    BY <1>4 DEF Vectors, Indices
  <2>2. ms \in Seq(NodeRecord) /\ Len(ms) = Len(nodes) /\ ms[m + 1] = node
        /\ \A k \in 1..Len(nodes) : k # m + 1 => ms[k] = nodes[k]
    BY <1>8, <2>1
  <2>3. \A n \in Indices(nodes) : n + 1 \in 1..Len(nodes) /\ (n # m => n + 1 # m + 1)
    BY <1>4, <2>1 DEF Indices
  <2> HIDE DEF ms
  <2> QED
    BY <1>7, <2>2, <2>3 DEF Cuts
<1> HIDE DEF ms
<1> DEFINE z == last
<1>24. z = nodes[m + 1].second - 1 /\ z \in BlockOf(nodes, m) /\ ds[z + 1].index = 0 /\ ds[z + 1].sim_count = 0
       /\ Through(pos[m], ds[z + 1].semimove) = {}
  BY <1>9, <1>21, <1>22
<1> HIDE DEF z
<1>25. /\ Tree(ms, ds, L, root_state, pos)
       /\ \A n \in Indices(nodes) : BlockSims(ds, ms[n + 1]) = BlockSims(ds, nodes[n + 1])
       /\ \A total, e : CountedBut(nodes, ds, L, total, rolled, e) => CountedBut(ms, ds, L, total, rolled, e)
       /\ \A stack, n : Way(nodes, ds, L, stack, n) => Way(ms, ds, L, stack, n)
  BY <1>1, <1>4, <1>16, <1>23, <1>24, CutKeepsTree, CutKeepsCounts
<1>26. /\ ms[m + 1].first # ms[m + 1].second
       /\ \A n \in Indices(nodes) : n # m => BlockOf(ms, n) = BlockOf(nodes, n)
       /\ \A n \in Indices(nodes) : is_terminal(ms[n + 1]) <=> is_terminal(nodes[n + 1])
  <2>1. m \in L /\ ~is_terminal(nodes[m + 1])
    BY <1>1, <1>4
  <2> HIDE DEF m
  <2> QED
    BY <1>16, <1>23, <1>24, <2>1, CutBlocks
<1>27. nodes' = ms
  <2>1. node.first # node.second
    BY <1>7, <1>8, <1>23, <1>26 DEF Cuts
  <2> QED
    BY <1>2, <2>1 DEF ms
<1>28. Touched(ms, ds, L, m)
  <2> SUFFICES ASSUME NEW n \in L, n # m, is_expanded(ms[n + 1]), ~ms[n + 1].is_nodal
               PROVE  \E j \in BlockOf(ms, n) : ds[j + 1].index # 0
    BY DEF Touched
  <2>1. n \in Indices(nodes)
    BY <1>4, LinkFacts
  <2>2. ms[n + 1] = nodes[n + 1] /\ BlockOf(ms, n) = BlockOf(nodes, n)
    BY <1>23, <1>26, <2>1 DEF Cuts
  <2> QED
    BY <1>20, <2>2 DEF Touched
<1>29. Descending(L, pos)'
  <2>1. root_sim_count < MaxSims /\ ~is_terminal(nodes[1]) /\ state = pos[node_index]
        /\ node_sim_count = IF children_stack = <<>> THEN root_sim_count
                            ELSE children[Last(children_stack) + 1].sim_count
    BY <1>4 DEF Descending
  <2>2. ~is_terminal(ms[1])
    <3>1. 0 \in Indices(nodes) /\ ms[0 + 1] = ms[1] /\ nodes[0 + 1] = nodes[1]
      BY <1>4 DEF Vectors
    <3> QED
      BY <1>26, <2>1, <3>1
  <2>3. children_stack # <<>> => ds[Last(children_stack) + 1].sim_count = children[Last(children_stack) + 1].sim_count
    <3> HAVE children_stack # <<>>
    <3>1. children_stack \in Seq(Indices(children))
      BY <1>4 DEF Way
    <3>2. Last(children_stack) \in Indices(children)
      BY <3>1, FrontIs
    <3> QED
      BY <1>12, <1>13, <1>16, <3>2 DEF SameSims
  <2>4. Way(ms, ds, L, children_stack, m)
    BY <1>20, <1>25
  <2> QED
    BY <1>1, <1>3, <1>18, <1>27, <2>1, <2>2, <2>3, <2>4 DEF Descending
<1>30. Counted(ms, ds, L, root_sim_count, rolled)
  BY <1>19, <1>25 DEF Counted
<1>31. RootSims' = RootSims
  <2>1. 0 \in Indices(nodes) /\ ms[0 + 1] = ms[1] /\ nodes[0 + 1] = nodes[1]
    BY <1>4 DEF Vectors
  <2>2. BlockSims(ds, ms[0 + 1]) = BlockSims(children, nodes[0 + 1])
    BY <1>19, <1>25, <2>1
  <2> QED
    BY <1>18, <1>27, <2>1, <2>2 DEF RootSims
<1> QED
  BY <1>1, <1>3, <1>4, <1>18, <1>25, <1>27, <1>28, <1>29, <1>30, <1>31 DEF Inv

(* A visit adds one simulation to whatever total the counts add up to. *)
LEMMA VisitStep ==
  ASSUME NEW rolled, NEW L, NEW pos, Inv(rolled, L, pos), VisitChild
  PROVE  /\ IInv(rolled)'
         /\ \A total \in Nat : Counted(nodes, children, L, total, rolled) =>
              \E K, q : Tree(nodes', children', K, root_state, q) /\ Counted(nodes', children', K, total + 1, rolled)
<1> DEFINE m == node_index
<1>1. AtUnvisited /\ pc = "descend"
  BY DEF VisitChild, AtUnvisited
<1>2. PICK i \in Unvisited :
        LET reached == apply(state, Child(i).semimove)
            front == [tree EXCEPT !.children = Swap(@, i, Lower)]
        IN \E way \in PathsToNodal(reached) :
             \E tried \in SUBSET DeadEndsAlong(reached, way) :
               LET t == Visit(front, Lower, reached, way, tried)
               IN /\ nodes' = t.nodes
                  /\ children' = Backpropagate(t.children, t.stack)
                  /\ children_stack' = t.stack
  BY DEF VisitChild
<1> DEFINE s == apply(state, Child(i).semimove)
           front == [tree EXCEPT !.children = Swap(@, i, Lower)]
<1>3. PICK way \in PathsToNodal(s) : \E tried \in SUBSET DeadEndsAlong(s, way) :
        LET t == Visit(front, Lower, s, way, tried)
        IN /\ nodes' = t.nodes
           /\ children' = Backpropagate(t.children, t.stack)
           /\ children_stack' = t.stack
  BY <1>2
<1>4. PICK tried \in SUBSET DeadEndsAlong(s, way) :
        LET t == Visit(front, Lower, s, way, tried)
        IN /\ nodes' = t.nodes
           /\ children' = Backpropagate(t.children, t.stack)
           /\ children_stack' = t.stack
  BY <1>3
<1>5. /\ pc' = "return" /\ root_state' = root_state /\ root_sim_count' = root_sim_count + 1
      /\ state' = root_state /\ node_index' = 0 /\ node_sim_count' = 0
  BY DEF VisitChild, EndSimulation
<1>6. /\ Tree(nodes, children, L, root_state, pos)
      /\ Vectors(nodes, children) /\ Links(nodes, children, L)
      /\ Counted(nodes, children, L, root_sim_count, rolled)
      /\ Touched(nodes, children, L, m)
      /\ root_sim_count \in Nat /\ root_sim_count + 1 \in 0..MaxSims
      /\ Way(nodes, children, L, children_stack, m)
      /\ m \in L /\ m \in Indices(nodes) /\ m \in Nat
      /\ state = pos[m] /\ state \in State
  BY <1>1, DescentFacts
<1>7. Openings(nodes, children, m, i, Lower)
  BY <1>1, <1>2, OpenFacts DEF Openings
<1>8. front.nodes = nodes /\ front.children = Swap(children, i, Lower)
  BY DEF tree
<1>9. s \in State /\ Leads(pos[m], children[i + 1].semimove, s)
  <2>1. i \in BlockOf(nodes, m)
    BY <1>7 DEF Openings
  <2>2. PICK t \in State : Leads(pos[m], children[i + 1].semimove, t)
    BY <1>6, <2>1 DEF Tree, Stands, Fits
  <2>3. pos[m] \in State
    BY <1>6
  <2>4. apply(pos[m], children[i + 1].semimove) = t
    BY <2>2, <2>3, LeadsFacts
  <2> QED
    BY <1>6, <2>2, <2>4 DEF Child
<1> HIDE DEF s, front
<1>10. Visits(nodes, children, L, pos, m, i, Lower, s)
  BY <1>6, <1>7, <1>9 DEF Visits
<1> DEFINE v == Visit(front, Lower, s, way, tried)
<1>11. nodes' = v.nodes /\ children' = Backpropagate(v.children, v.stack) /\ children_stack' = v.stack
  BY <1>4
<1> HIDE DEF v
<1>16. ASSUME NEW total \in Nat, Counted(nodes, children, L, total, rolled)
       PROVE  \E K, q, u : Ends(nodes', children', K, root_state, q, total + 1, rolled, children_stack', u, Nobody)
  <2>1. v = Visit(front, Lower, s, way, tried)
    BY DEF v
  <2> HIDE DEF m
  <2>2. \E K, q, u : Ends(v.nodes, Backpropagate(v.children, v.stack), K, root_state, q, total + 1, rolled,
                         v.stack, u, Nobody)
    BY <1>6, <1>8, <1>10, <1>16, <2>1, VisitEnds
  <2> QED
    BY <1>11, <2>2
<1>12. PICK K, q, u : Ends(nodes', children', K, root_state, q, root_sim_count + 1, rolled, children_stack', u, Nobody)
  BY <1>6, <1>16
<1>14. Returning(K)'
  <2>1. Way(nodes', children', K, children_stack', Len(nodes') - 1)
    BY <1>12 DEF Ends
  <2>2. Way(nodes', children', K, children_stack', At(children', children_stack', Len(children_stack')))
    BY <2>1 DEF Way
  <2> QED
    BY <1>5, <2>2 DEF Returning, AtRest
<1>15. Inv(rolled, K, q)'
  BY <1>5, <1>6, <1>12, <1>14 DEF Inv, Ends, Counted
<1> QED
  BY <1>15, <1>16 DEF IInv, Ends, Counted
-----------------------------------------------------------------------------
(* A tree at rest: reset, re-rooted, or between two simulations. *)
Sound(ns, cs, root, total, rolled) ==
  \E L, pos : /\ Tree(ns, cs, L, root, pos)
              /\ Counted(ns, cs, L, total, rolled)
              /\ Touched(ns, cs, L, Nobody)

(* A node made terminal has lost its children. *)
LEMMA TerminatedIs ==
  ASSUME NEW r \in NodeRecord
  PROVE  Terminated(r) = [first |-> 0, second |-> 0, is_nodal |-> r.is_nodal, status |-> "terminal"]
<1> DEFINE q == [r EXCEPT !.first = 0]
           z == [q EXCEPT !.second = 0]
<1>1. q = [first |-> 0, second |-> r.second, is_nodal |-> r.is_nodal, status |-> r.status]
  BY DEF NodeRecord
<1>2. Terminated(r) = [z EXCEPT !.status = "terminal"]
  BY DEF Terminated
<1> HIDE DEF q
<1>3. z = [first |-> 0, second |-> 0, is_nodal |-> r.is_nodal, status |-> r.status]
  BY <1>1
<1> HIDE DEF z
<1>4. [z EXCEPT !.status = "terminal"] =
        [first |-> 0, second |-> 0, is_nodal |-> r.is_nodal, status |-> "terminal"]
  BY <1>3
<1> QED
  BY <1>2, <1>4

(* A root alone is a tree. *)
LEMMA SeedTree ==
  ASSUME NEW s \in State, s \in Nodal, NEW node, Suits(node, s), NEW rolled
  PROVE  LET ns == <<node>>
             L == {0}
             pos == [n \in {0} |-> s]
         IN /\ Tree(ns, <<>>, L, s, pos)
            /\ Counted(ns, <<>>, L, 0, rolled)
            /\ Touched(ns, <<>>, L, Nobody)
<1> DEFINE ns == <<node>>
           cs == <<>>
           L == {0}
           pos == [n \in {0} |-> s]
<1>1. /\ ns \in Seq(NodeRecord) /\ Len(ns) = 1 /\ ns[1] = node /\ ns[0 + 1] = node
      /\ cs \in Seq(ChildRecord) /\ Len(cs) = 0
  BY DEF Suits
<1>2. Indices(ns) = {0} /\ Indices(cs) = {} /\ 0 \in Indices(ns) /\ 0 \in L
  BY <1>1 DEF Indices
<1>3. /\ node.first \in Nat /\ node.second \in Nat
      /\ is_expanded(node) => is_terminal(node) /\ node.first = 0 /\ node.second = 0
  BY DEF Suits, NodeRecord
<1>4. BlockOf(ns, 0) = {} /\ ChildIndices(node) = {}
  BY <1>1, <1>3 DEF BlockOf, ChildIndices, is_expanded
<1> HIDE DEF ns, cs
<1>5. \A n \in L : n = 0 /\ ns[n + 1] = node /\ BlockOf(ns, n) = {}
  BY <1>1, <1>4
<1>6. pos \in [L -> State] /\ pos[0] = s /\ \A n \in L : pos[n] = s
  OBVIOUS
<1> HIDE DEF L, pos
<1>7. \A n \in Indices(ns) : n \in L
  BY <1>2 DEF L
<1>8. Vectors(ns, cs)
  <2>1. \A n \in Indices(ns) : is_expanded(ns[n + 1]) => ns[n + 1].second <= Len(cs)
    BY <1>1, <1>3, <1>5, <1>7
  <2> QED
    BY <1>1, <1>2, <1>5, <1>7, <2>1 DEF Vectors
<1>9. Links(ns, cs, L)
  BY <1>2, <1>5 DEF Links, L
<1>10. Stands(ns, cs, L, s, pos)
  BY <1>5, <1>6 DEF Stands
<1>11. Rests(s) # {} /\ (node.is_nodal <=> s \in Nodal) /\ node.status = TrueStatus(s)
  BY DEF Suits
<1>12. Covers(ns, cs, L, pos)
  <2>1. is_expanded(node) => Moves(s) = {}
    <3>1. is_terminal(node) => ~has_nodal_successor(s)
      BY <1>11 DEF TrueStatus, is_terminal
    <3> QED
      BY <1>3, <3>1, NoSuccessor
  <2> QED
    BY <1>5, <1>6, <2>1 DEF Covers, Cover
<1>13. Statuses(ns, L, pos)
  <2>1. is_terminal(node) => node.first = node.second
    BY DEF Suits
  <2>2. ~is_terminal(node) => node.first # node.second
    BY <1>3 DEF Suits, is_expanded
  <2> QED
    BY <1>5, <1>6, <1>11, <2>1, <2>2 DEF Statuses
<1>14. VisitedOnTop(ns, cs, L)
  BY <1>5 DEF VisitedOnTop
<1>15. BlockSims(cs, node) = 0
  BY <1>4, SumEmpty DEF BlockSims
<1>16. Counted(ns, cs, L, 0, rolled)
  <2>1. Extra(Nobody, 0) = 0
    BY DEF Extra, Nobody
  <2>2. 0 \in Surplus(rolled, TRUE, node)
    BY DEF Surplus
  <2>3. (0 - BlockSims(cs, ns[1])) - Extra(Nobody, 0) = 0
    BY <1>1, <1>15, <2>1
  <2> QED
    BY <1>1, <1>2, <1>5, <2>2, <2>3 DEF Counted, CountedBut
<1>17. Touched(ns, cs, L, Nobody)
  BY <1>5, <1>11 DEF Touched
<1> QED
  BY <1>8, <1>9, <1>10, <1>12, <1>13, <1>14, <1>16, <1>17 DEF Tree, ns, cs, L, pos

(* A root with its children, once they are wanted, is as sound. *)
LEMMA RootExpands ==
  ASSUME NEW t, t.nodes \in Seq(NodeRecord), t.children \in Seq(ChildRecord),
         DOMAIN t = {"nodes", "children"}, NEW s \in State, NEW total, NEW rolled,
         Sound(t.nodes, t.children, s, total, rolled), ~is_terminal(t.nodes[1]), ~is_expanded(t.nodes[1]),
         NEW v, v = create_children(t, 0, SetToSeq(Semimoves[s]))
  PROVE  Sound(v.nodes, v.children, s, total, rolled)
<1> DEFINE ns == t.nodes
           cs == t.children
           acts == SetToSeq(Semimoves[s])
<1>1. PICK L, pos : /\ Tree(ns, cs, L, s, pos)
                    /\ Counted(ns, cs, L, total, rolled)
                    /\ Touched(ns, cs, L, Nobody)
  BY DEF Sound
<1>2. /\ Vectors(ns, cs) /\ Links(ns, cs, L) /\ Stands(ns, cs, L, s, pos) /\ Statuses(ns, L, pos)
      /\ 0 \in L /\ 0 \in Indices(ns) /\ pos[0] = s
  <2>1. Vectors(ns, cs) /\ Links(ns, cs, L) /\ Stands(ns, cs, L, s, pos) /\ Statuses(ns, L, pos)
    BY <1>1 DEF Tree
  <2> QED
    BY <2>1 DEF Links, Stands, Vectors
<1>3. ns[0 + 1] = ns[1]
  OBVIOUS
<1>4. Moves(s) # {}
  BY <1>2, <1>3, MovesLeft
<1>5. Lists(s, acts) /\ Len(acts) \in Nat \ {0} /\ acts # <<>> /\ acts \in Seq(Seq(Action))
  BY <1>4, SomethingListed
<1> HIDE DEF acts
<1>6. Spread(t, 0, acts, v.nodes, v.children)
  <2>1. ~is_terminal(t.nodes[0 + 1])
    BY <1>3
  <2> QED
    BY <1>5, <2>1, ChildrenSpread DEF acts
<1>7. Expands(ns, cs, 0, acts, v.nodes, v.children)
  BY <1>2, <1>5, <1>6, SpreadExpands
<1>8. Expandable(ns, L, pos, 0, acts)
  BY <1>2, <1>3, <1>5 DEF Expandable
<1>9. Tree(v.nodes, v.children, L, s, pos)
  BY <1>1, <1>7, <1>8, ExpandKeepsTree
<1>10. Vectors(v.nodes, v.children)
  BY <1>9 DEF Tree
<1>11. Counted(v.nodes, v.children, L, total, rolled)
  BY <1>1, <1>2, <1>7, <1>8, <1>10, ExpandKeepsCounts DEF Counted
<1>12. Touched(v.nodes, v.children, L, Nobody)
  <2>1. Touched(v.nodes, v.children, L, 0)
    BY <1>1, <1>2, <1>7, <1>8, ExpandTouches
  <2>2. v.nodes[0 + 1].is_nodal
    <3>1. v.nodes[0 + 1].is_nodal = ns[0 + 1].is_nodal
      BY <1>7 DEF Expands
    <3>2. s \in Nodal
      BY <1>2 DEF Stands
    <3> QED
      BY <1>2, <3>1, <3>2 DEF Statuses
  <2> QED
    BY <2>1, <2>2 DEF Touched
<1> QED
  BY <1>9, <1>11, <1>12 DEF Sound

(* The tree a game starts with. *)
LEMMA FreshTreeIs ==
  ASSUME NEW s \in State, s \in Nodal, NEW rolled
  PROVE  Sound(FreshTree(s).nodes, FreshTree(s).children, s, 0, rolled)
<1> DEFINE node == create_node(s)
           t == [nodes |-> <<node>>, children |-> <<>>]
           acts == SetToSeq(Semimoves[s])
           v == create_children(t, 0, acts)
<1>1. /\ DOMAIN t = {"nodes", "children"} /\ t.nodes = <<node>> /\ t.children = <<>>
      /\ t.nodes[1] = node /\ t.nodes[0 + 1] = node
  OBVIOUS
<1>2. FreshTree(s) = v
  BY DEF FreshTree
<1>3. Rests(s) # {} /\ (s \in Nodal <=> TRUE)
  BY DEF Rests
<1>4. CASE has_nodal_successor(s)
  <2>1. node = [first |-> 1, second |-> 0, is_nodal |-> TRUE, status |-> "nonterminal"]
    BY <1>4 DEF create_node, new_node
  <2>2. Suits(node, s) /\ ~is_terminal(node) /\ ~is_expanded(node)
    BY <1>3, <1>4, <2>1 DEF Suits, NodeRecord, TrueStatus, is_terminal, is_expanded
  <2> HIDE DEF node
  <2>3. Sound(<<node>>, <<>>, s, 0, rolled)
    BY <2>2, SeedTree DEF Sound
  <2>4. <<node>> \in Seq(NodeRecord)
    BY <2>2 DEF Suits
  <2> HIDE DEF t
  <2>5. t.nodes \in Seq(NodeRecord) /\ t.children \in Seq(ChildRecord)
    BY <1>1, <2>4
  <2>6. Sound(t.nodes, t.children, s, 0, rolled) /\ ~is_terminal(t.nodes[1]) /\ ~is_expanded(t.nodes[1])
    BY <1>1, <2>2, <2>3
  <2> HIDE DEF v
  <2>7. v = create_children(t, 0, SetToSeq(Semimoves[s]))
    BY DEF v
  <2>8. Sound(v.nodes, v.children, s, 0, rolled)
    BY <1>1, <2>5, <2>6, <2>7, RootExpands
  <2> QED
    BY <1>2, <2>8
<1>5. CASE ~has_nodal_successor(s)
  <2>1. node = [first |-> 0, second |-> 0, is_nodal |-> TRUE, status |-> "terminal"]
    BY <1>5 DEF create_node, new_node, Terminated
  <2>2. Suits(node, s) /\ is_terminal(node) /\ Terminated(node) = node
    <3>1. Suits(node, s) /\ is_terminal(node)
      BY <1>3, <1>5, <2>1 DEF Suits, NodeRecord, TrueStatus, is_terminal
    <3>2. node \in NodeRecord
      BY <3>1 DEF Suits
    <3>3. node.is_nodal = TRUE
      BY <2>1
    <3> HIDE DEF node
    <3>4. Terminated(node) = [first |-> 0, second |-> 0, is_nodal |-> node.is_nodal, status |-> "terminal"]
      BY <3>2, TerminatedIs
    <3> QED
      BY <2>1, <3>1, <3>3, <3>4
  <2> HIDE DEF node
  <2>3. v = [t EXCEPT !.nodes[0 + 1] = Terminated(@)]
    BY <1>1, <2>2 DEF create_children
  <2>4. v.nodes = <<node>> /\ v.children = <<>>
    BY <2>2, <2>3
  <2>5. Sound(<<node>>, <<>>, s, 0, rolled)
    BY <2>2, SeedTree DEF Sound
  <2> QED
    BY <1>2, <2>4, <2>5
<1> QED
  BY <1>4, <1>5

-----------------------------------------------------------------------------
(* A copy of a part of the tree L: node m of the copy was old[m], its child*)
(* i was from[i].                                                          *)
Expanded(ns) == {n \in Indices(ns) : is_expanded(ns[n + 1])}
IsCopy(ns, cs, L, ms, ds, old, from) ==
  /\ ms \in Seq(NodeRecord)
  /\ ds \in Seq(ChildRecord)
  /\ 0 \in Indices(ms)
  /\ old \in [Indices(ms) -> L]
  /\ \A m, k \in Indices(ms) : old[m] = old[k] => m = k
  /\ from \in [Indices(ds) -> Indices(cs)]
  /\ \A m \in Indices(ms) : /\ m \in Expanded(ms) <=> old[m] \in Expanded(ns)
                            /\ ms[m + 1].is_nodal = ns[old[m] + 1].is_nodal
                            /\ ms[m + 1].status = ns[old[m] + 1].status
  /\ \A m \in Expanded(ms) :
       /\ ms[m + 1].second <= Len(ds)
       /\ ms[m + 1].second - ms[m + 1].first = ns[old[m] + 1].second - ns[old[m] + 1].first
       /\ \A i \in BlockOf(ms, m) : from[i] = ns[old[m] + 1].first + (i - ms[m + 1].first)
       /\ \A i \in BlockOf(ms, m) : ds[i + 1].index # 0 => m < ds[i + 1].index
  /\ \A i \in Indices(ds) :
       /\ ds[i + 1].semimove = cs[from[i] + 1].semimove
       /\ ds[i + 1].sim_count = cs[from[i] + 1].sim_count
       /\ ds[i + 1].index = 0 <=> cs[from[i] + 1].index = 0
       /\ ds[i + 1].index # 0 =>
            ds[i + 1].index \in Indices(ms) /\ old[ds[i + 1].index] = cs[from[i] + 1].index
  /\ \A i \in Indices(ds) : \E m \in Expanded(ms) : i \in BlockOf(ms, m)
  /\ \A m, k \in Expanded(ms) : \A i \in BlockOf(ms, m) : i \in BlockOf(ms, k) => m = k
  /\ \A m \in Indices(ms) \ {0} : \E i \in Indices(ds) : ds[i + 1].index = m

(* The tree of this module is one fix_tree can copy. *)
LEMMA TreeIsLinked ==
  ASSUME Vectors(nodes, children), NEW L, Links(nodes, children, L)
  PROVE  /\ Linked /\ Joined(L) /\ InVector
         /\ Nodes = Indices(nodes) /\ Children = Indices(children) /\ L \subseteq Nodes
         /\ \A n \in Nodes : is_expanded(Node(n)) <=> n \in Expanded(nodes)
         /\ \A n \in Nodes : ChildIndices(Node(n)) = BlockOf(nodes, n)
<1>1. Nodes = Indices(nodes) /\ Children = Indices(children)
  BY DEF Nodes, Children, Indices
<1>2. \A n \in Nodes : is_expanded(Node(n)) <=> n \in Expanded(nodes)
  BY <1>1 DEF Expanded, Node
<1>3. \A n \in Nodes : ChildIndices(Node(n)) = BlockOf(nodes, n)
  BY DEF BlockOf, Node
<1>4. InVector
  BY <1>1 DEF Vectors, InVector, Node
<1>5. Linked
  <2>1. Len(nodes) \in Nat
    BY VectorFacts
  <2>2. \A n \in Nodes : Node(n).first \in Nat /\ Node(n).second \in Nat
    BY <1>1, VectorFacts DEF Node
  <2>3. ASSUME NEW n \in Nodes, is_expanded(Node(n)), NEW i \in ChildIndices(Node(n))
        PROVE  /\ Child(i).index \in Nat
               /\ Child(i).index # 0 => n < Child(i).index /\ Child(i).index < Len(nodes)
    <3>1. n \in Indices(nodes) /\ i \in BlockOf(nodes, n)
      BY <1>1, <1>3
    <3>2. i \in Indices(children)
      BY <3>1, VectorFacts
    <3>3. children[i + 1].index \in Nat /\ children[i + 1].index < Len(nodes)
      BY <3>2, VectorFacts DEF Vectors
    <3>4. children[i + 1].index # 0 => n < children[i + 1].index
      BY <3>1 DEF Vectors
    <3> QED
      BY <3>3, <3>4 DEF Child
  <2> QED
    BY <2>1, <2>2, <2>3 DEF Linked
<1>6. L \subseteq Nodes
  BY <1>1 DEF Links
<1>7. Joined(L)
  <2>1. \A n \in L : \A i \in ChildIndices(Node(n)) : Child(i).index # 0 => Child(i).index \in L
    BY <1>3, <1>6 DEF Links, Child
  <2>2. ASSUME NEW p \in L, NEW q \in L, NEW i \in ChildIndices(Node(p)), NEW j \in ChildIndices(Node(q)),
               Child(i).index = Child(j).index, Child(i).index # 0
        PROVE  p = q /\ i = j
    <3>1. i \in BlockOf(nodes, p) /\ j \in BlockOf(nodes, q)
      BY <1>3, <1>6
    <3>2. i = j
      BY <2>2, <3>1, LinkFacts DEF Child
    <3> QED
      BY <3>1, <3>2, LinkFacts
  <2> QED
    BY <1>6, <2>1, <2>2 DEF Joined
<1> QED
  BY <1>1, <1>2, <1>3, <1>4, <1>5, <1>6, <1>7

(* FixedNodes and FixedChildren copy the nodes of a listing. *)
LEMMA FixedIsCopy ==
  ASSUME Vectors(nodes, children), NEW L, Links(nodes, children, L),
         NEW r \in L, NEW order, Listing(L, r, order)
  PROVE  \E old, from :
           /\ IsCopy(nodes, children, L, FixedNodes(order), FixedChildren(order), old, from)
           /\ old[0] = r
<1> DEFINE m == Len(order)
           o(k) == CopyOffset(order, k)
           count(k) == ChildCount(order[k])
           first(k) == Node(order[k]).first
           blocks == CopiedBlocks(order)
           ms == FixedNodes(order)
           ds == FixedChildren(order)
           NewIndex(c) == IF c = 0 THEN 0 ELSE CHOOSE k \in 0..(m - 1) : order[k + 1] = c
           Open(k) == is_expanded(Node(order[k]))
           Origin(p, j) == \E k \in 1..m : \E t \in 1..count(k) :
                             p + 1 = o(k - 1) + t /\ j = first(k) + t - 1
           old == [k \in 0..(m - 1) |-> order[k + 1]]
           from == [p \in 0..(Len(blocks) - 1) |-> CHOOSE j \in Children : Origin(p, j)]
<1>1. /\ Linked /\ Joined(L) /\ InVector /\ L \subseteq Nodes
      /\ Nodes = Indices(nodes) /\ Children = Indices(children)
      /\ children \in Seq(ChildRecord) /\ nodes \in Seq(NodeRecord)
  BY TreeIsLinked DEF Vectors
<1>2. /\ order \in Seq(L) /\ order \in Seq(Nodes) /\ m \in Nat \ {0} /\ order[1] = r
      /\ \A k \in 1..m : order[k] \in Nodes /\ order[k] \in L
      /\ \A k, l \in 1..m : order[k] = order[l] => k = l
  <2>1. order \in Seq(L) /\ m \in Nat \ {0}
    BY DEF Listing
  <2>2. \A k \in 1..m : order[k] \in Nodes /\ order[k] \in L
    BY <1>1, <2>1
  <2>3. order \in Seq(Nodes)
    BY <2>1, <2>2
  <2> QED
    BY <2>1, <2>2, <2>3 DEF Listing
<1>3. /\ o(0) = 0
      /\ \A k \in 0..m : o(k) \in Nat
      /\ \A k \in 1..m : count(k) \in Nat /\ o(k) = o(k - 1) + count(k)
      /\ blocks \in Seq(ChildRecord)
      /\ Len(blocks) = o(m)
      /\ \A k \in 1..m : \A t \in 1..count(k) :
           o(k - 1) + t \in 1..Len(blocks) /\ blocks[o(k - 1) + t] = Child(first(k) + t - 1)
      /\ \A p \in 1..Len(blocks) : \E k \in 1..m : \E t \in 1..count(k) : p = o(k - 1) + t
  BY <1>1, <1>2, CopyBlocks
<1>4. \A k, l \in 0..m : k <= l => o(k) <= o(l)
  BY <1>1, <1>2, OffsetsGrow
<1>5. \A k \in 1..m : /\ Node(order[k]) \in NodeRecord /\ first(k) \in Nat
                      /\ Open(k) => count(k) = Node(order[k]).second - first(k)
                                    /\ Node(order[k]).second <= Len(children)
                      /\ ~Open(k) => count(k) = 0
  <2> TAKE k \in 1..m
  <2>1. order[k] \in Indices(nodes)
    BY <1>1, <1>2
  <2>2. Node(order[k]) \in NodeRecord /\ first(k) \in Nat
    BY <2>1, VectorFacts DEF Node
  <2>3. Open(k) => Node(order[k]).second <= Len(children)
    BY <1>1, <1>2 DEF InVector
  <2> QED
    BY <2>2, <2>3 DEF ChildCount
<1>6. ms = [k \in 1..m |-> IF Open(k)
                           THEN [Node(order[k]) EXCEPT !.first = o(k - 1), !.second = o(k - 1) + count(k)]
                           ELSE Node(order[k])]
  BY DEF FixedNodes, CopyOffset
<1>7. ds = [p \in DOMAIN blocks |-> [blocks[p] EXCEPT !.index = NewIndex(@)]]
  BY DEF FixedChildren
<1> HIDE DEF m, o, count, blocks, ms, ds, NewIndex
<1>8. \A k \in 1..m : k - 1 \in 0..m /\ k \in 0..m
  BY <1>2
<1>9. ASSUME NEW k \in 1..m
      PROVE  /\ ms[k] \in NodeRecord
             /\ is_expanded(ms[k]) <=> Open(k)
             /\ Open(k) => ms[k].first = o(k - 1) /\ ms[k].second = o(k)
             /\ ms[k].is_nodal = Node(order[k]).is_nodal /\ ms[k].status = Node(order[k]).status
  <2> DEFINE x == Node(order[k])
             lo == o(k - 1)
             hi == o(k - 1) + count(k)
  <2>1. lo \in Nat /\ hi \in Nat /\ lo <= hi /\ hi = o(k)
    BY <1>3, <1>8
  <2>2. x \in NodeRecord
    BY <1>5
  <2>3. ms[k] = IF Open(k) THEN [x EXCEPT !.first = lo, !.second = hi] ELSE x
    BY <1>6
  <2> HIDE DEF lo, hi, x
  <2>4. CASE Open(k)
    <3>1. ms[k] = [x EXCEPT !.first = lo, !.second = hi]
      BY <2>3, <2>4
    <3>2. /\ [x EXCEPT !.first = lo, !.second = hi] =
               [first |-> lo, second |-> hi, is_nodal |-> x.is_nodal, status |-> x.status]
          /\ [x EXCEPT !.first = lo, !.second = hi] \in NodeRecord
      BY <2>1, <2>2, NodeSpread
    <3>3. /\ ms[k] \in NodeRecord /\ ms[k].first = lo /\ ms[k].second = hi
          /\ ms[k].is_nodal = x.is_nodal /\ ms[k].status = x.status
      BY <3>1, <3>2
    <3> QED
      BY <2>1, <2>4, <3>3 DEF is_expanded, lo, x
  <2>5. CASE ~Open(k)
    BY <2>2, <2>3, <2>5 DEF x
  <2> QED
    BY <2>4, <2>5
<1> HIDE DEF Open
<1>10. ms \in Seq(NodeRecord) /\ Len(ms) = m /\ Indices(ms) = 0..(m - 1)
  <2>1. ms \in Seq(NodeRecord) /\ Len(ms) = m
    <3>1. ms = [k \in 1..m |-> ms[k]]
      BY <1>6
    <3>2. \A k \in 1..m : ms[k] \in NodeRecord
      BY <1>9
    <3> QED
      BY <1>2, <3>1, <3>2
  <2> QED
    BY <2>1 DEF Indices
<1>11. ASSUME NEW n \in 0..(m - 1)
       PROVE  /\ n + 1 \in 1..m /\ (n + 1) - 1 = n
              /\ old[n] = order[n + 1]
              /\ n \in Expanded(ms) <=> Open(n + 1)
              /\ order[n + 1] \in Expanded(nodes) <=> Open(n + 1)
              /\ Open(n + 1) => BlockOf(ms, n) = o(n)..(o(n + 1) - 1)
  <2>1. n + 1 \in 1..m /\ (n + 1) - 1 = n
    BY <1>2
  <2>2. n \in Expanded(ms) <=> Open(n + 1)
    BY <1>9, <1>10, <2>1 DEF Expanded
  <2>3. order[n + 1] \in Expanded(nodes) <=> Open(n + 1)
    BY <1>1, <1>2, <2>1 DEF Expanded, Open, Node
  <2>4. Open(n + 1) => ms[n + 1].first = o(n) /\ ms[n + 1].second = o(n + 1)
    BY <1>9, <2>1
  <2> QED
    BY <2>1, <2>2, <2>3, <2>4 DEF BlockOf, ChildIndices
<1>12. \A c : c = 0 => NewIndex(c) = 0
  BY DEF NewIndex
<1>13. ASSUME NEW y \in 1..m, order[y] # 0
       PROVE  NewIndex(order[y]) = y - 1
  <2> DEFINE c == order[y]
             k == CHOOSE x \in 0..(m - 1) : order[x + 1] = c
  <2>1. NewIndex(c) = k
    BY <1>13 DEF NewIndex
  <2>2. y - 1 \in 0..(m - 1) /\ (y - 1) + 1 = y
    BY <1>2
  <2>3. k \in 0..(m - 1) /\ order[k + 1] = c
    BY <2>2
  <2> HIDE DEF k
  <2>4. k + 1 \in 1..m
    BY <1>2, <2>3
  <2>5. k + 1 = y
    BY <1>2, <2>3, <2>4
  <2>6. k = y - 1
    BY <2>2, <2>3, <2>5
  <2> QED
    BY <2>1, <2>6
<1>14. ASSUME NEW k \in 1..m, NEW t \in 1..count(k)
       PROVE  /\ Open(k) /\ first(k) + t - 1 \in BlockOf(nodes, order[k])
              /\ first(k) + t - 1 \in Indices(children)
              /\ LET c == Child(first(k) + t - 1).index
                 IN c # 0 => \E y \in (k + 1)..m : order[y] = c
  <2>1. Open(k)
    BY <1>5, <1>14
  <2>2. is_expanded(Node(order[k])) /\ order[k] \in Nodes /\ order[k] \in L
    BY <1>2, <2>1 DEF Open
  <2>3. first(k) + t - 1 \in ChildIndices(Node(order[k]))
    BY <1>1, <2>2, ChildCountIs DEF count
  <2>4. BlockOf(nodes, order[k]) = ChildIndices(Node(order[k]))
    BY DEF BlockOf, Node
  <2>5. order[k] \in Indices(nodes)
    BY <1>1, <2>2
  <2> DEFINE j == first(k) + t - 1
             c == Child(j).index
  <2>6. j \in Indices(children)
    BY <2>3, <2>4, <2>5, VectorFacts
  <2> HIDE DEF j
  <2>7. c # 0 => \E y \in (k + 1)..m : order[y] = c
    <3> HAVE c # 0
    <3>1. c \in Nat \ {0}
      BY <2>6, VectorFacts DEF Child
    <3>2. EdgeTo(L, order[k], c)
      BY <2>2, <2>3 DEF EdgeTo, j
    <3> HIDE DEF c
    <3> QED
      BY <3>1, <3>2 DEF Listing, m
  <2> QED
    BY <2>1, <2>3, <2>4, <2>6, <2>7 DEF j
<1>15. ASSUME NEW k \in 1..m, NEW t \in 1..count(k), NEW l \in 1..m, NEW u \in 1..count(l),
              o(k - 1) + t = o(l - 1) + u
       PROVE  k = l /\ t = u
  <2>1. /\ o(k - 1) \in Nat /\ o(l - 1) \in Nat /\ o(k) \in Nat /\ o(l) \in Nat
        /\ count(k) \in Nat /\ count(l) \in Nat
        /\ o(k) = o(k - 1) + count(k) /\ o(l) = o(l - 1) + count(l)
    BY <1>3, <1>8
  <2>2. k < l => o(k) <= o(l - 1)
    BY <1>2, <1>4, <1>8
  <2>3. l < k => o(l) <= o(k - 1)
    BY <1>2, <1>4, <1>8
  <2>4. k = l
    BY <1>15, <2>1, <2>2, <2>3
  <2> QED
    BY <1>15, <2>1, <2>4
<1>16. ASSUME NEW k \in 1..m, NEW t \in 1..count(k), NEW p, p + 1 = o(k - 1) + t, p \in Nat
       PROVE  /\ p \in 0..(Len(blocks) - 1)
              /\ from[p] = first(k) + t - 1
              /\ blocks[p + 1] = Child(from[p])
  <2> DEFINE j == first(k) + t - 1
  <2>1. p + 1 \in 1..Len(blocks) /\ blocks[p + 1] = Child(j)
    BY <1>3, <1>16
  <2>2. p \in 0..(Len(blocks) - 1)
    BY <1>3, <1>16, <2>1
  <2>3. Origin(p, j) /\ j \in Children
    BY <1>1, <1>14, <1>16
  <2>4. ASSUME NEW i, Origin(p, i)
        PROVE  i = j
    <3>1. PICK l \in 1..m : \E u \in 1..count(l) : p + 1 = o(l - 1) + u /\ i = first(l) + u - 1
      BY <2>4
    <3>2. PICK u \in 1..count(l) : p + 1 = o(l - 1) + u /\ i = first(l) + u - 1
      BY <3>1
    <3>3. k = l /\ t = u
      BY <1>15, <1>16, <3>2
    <3> QED
      BY <3>2, <3>3
  <2> HIDE DEF Origin, j
  <2>5. from[p] = j
    BY <2>2, <2>3, <2>4
  <2> QED
    BY <2>1, <2>2, <2>5 DEF j
<1> HIDE DEF Origin, from
<1>17. /\ ds \in Seq(ChildRecord) /\ Len(ds) = Len(blocks) /\ Indices(ds) = 0..(Len(blocks) - 1)
       /\ \A p \in 0..(Len(blocks) - 1) :
            /\ p \in Nat /\ p + 1 \in 1..Len(blocks)
            /\ ds[p + 1].semimove = blocks[p + 1].semimove
            /\ ds[p + 1].sim_count = blocks[p + 1].sim_count
            /\ ds[p + 1].index = NewIndex(blocks[p + 1].index)
  <2>1. Len(blocks) \in Nat /\ DOMAIN blocks = 1..Len(blocks)
    BY <1>3
  <2>2. ASSUME NEW p \in 1..Len(blocks)
        PROVE  /\ NewIndex(blocks[p].index) \in Nat
               /\ blocks[p] \in ChildRecord
    <3>1. PICK k \in 1..m : \E t \in 1..count(k) : p = o(k - 1) + t
      BY <1>3
    <3>2. PICK t \in 1..count(k) : p = o(k - 1) + t
      BY <3>1
    <3> DEFINE c == Child(first(k) + t - 1).index
    <3>3. blocks[p].index = c
      BY <1>3, <3>2
    <3>4. c # 0 => \E y \in (k + 1)..m : order[y] = c
      BY <1>14
    <3> HIDE DEF c
    <3>5. NewIndex(c) \in Nat
      <4>1. CASE c = 0
        BY <1>12, <4>1
      <4>2. CASE c # 0
        <5>1. PICK y \in (k + 1)..m : order[y] = c
          BY <3>4, <4>2
        <5>2. y \in 1..m
          BY <1>2
        <5>3. NewIndex(c) = y - 1
          BY <1>13, <4>2, <5>1, <5>2
        <5> QED
          BY <5>2, <5>3
      <4> QED
        BY <4>1, <4>2
    <3> QED
      BY <1>3, <3>3, <3>5
  <2>3. ASSUME NEW p \in 1..Len(blocks)
        PROVE  /\ ds[p] \in ChildRecord
               /\ ds[p].semimove = blocks[p].semimove
               /\ ds[p].sim_count = blocks[p].sim_count
               /\ ds[p].index = NewIndex(blocks[p].index)
    <3> DEFINE x == blocks[p]
               c == NewIndex(x.index)
    <3>1. x \in ChildRecord /\ c \in Nat
      BY <2>2
    <3>2. ds[p] = [x EXCEPT !.index = c]
      BY <1>7, <2>1
    <3> HIDE DEF x, c
    <3>3. /\ ds[p] \in ChildRecord /\ ds[p].semimove = x.semimove /\ ds[p].index = c
          /\ ds[p].sim_count = x.sim_count
      BY <3>1, <3>2 DEF ChildRecord
    <3> QED
      BY <3>3 DEF x, c
  <2>4. ds \in Seq(ChildRecord) /\ Len(ds) = Len(blocks)
    BY <1>7, <2>1, <2>3
  <2>5. \A p \in 0..(Len(blocks) - 1) : p \in Nat /\ p + 1 \in 1..Len(blocks)
    BY <2>1
  <2> QED
    BY <2>3, <2>4, <2>5 DEF Indices
<1>18. ASSUME NEW n \in 0..(m - 1), Open(n + 1), NEW p \in BlockOf(ms, n)
       PROVE  LET k == n + 1
                  t == p - o(n) + 1
              IN t \in 1..count(k) /\ p + 1 = o(k - 1) + t /\ p \in Nat
  <2>1. p \in o(n)..(o(n + 1) - 1)
    BY <1>11, <1>18
  <2>2. o(n) \in Nat /\ o(n + 1) \in Nat /\ o(n + 1) = o(n) + count(n + 1) /\ count(n + 1) \in Nat
    BY <1>3, <1>8, <1>11
  <2> QED
    BY <1>11, <2>1, <2>2
<1>19. ASSUME NEW p \in Indices(ds)
       PROVE  \E k \in 1..m : \E t \in 1..count(k) :
                p + 1 = o(k - 1) + t /\ k - 1 \in 0..(m - 1) /\ Open(k) /\ p \in BlockOf(ms, k - 1)
  <2>1. p \in Nat /\ p + 1 \in 1..Len(blocks)
    BY <1>17
  <2>2. PICK k \in 1..m : \E t \in 1..count(k) : p + 1 = o(k - 1) + t
    BY <1>3, <2>1
  <2>3. PICK t \in 1..count(k) : p + 1 = o(k - 1) + t
    BY <2>2
  <2>4. Open(k) /\ k - 1 \in 0..(m - 1) /\ (k - 1) + 1 = k
    BY <1>2, <1>14
  <2>5. BlockOf(ms, k - 1) = o(k - 1)..(o(k) - 1)
    BY <1>11, <2>4
  <2>6. o(k - 1) \in Nat /\ count(k) \in Nat /\ o(k) = o(k - 1) + count(k)
    BY <1>3, <1>8
  <2>7. p \in BlockOf(ms, k - 1)
    BY <2>1, <2>3, <2>5, <2>6
  <2> QED
    BY <2>3, <2>4, <2>7
<1>20. old \in [Indices(ms) -> L] /\ \A n, k \in Indices(ms) : old[n] = old[k] => n = k
  <2>1. \A n \in 0..(m - 1) : order[n + 1] \in L
    BY <1>1, <1>2, <1>11
  <2>2. \A n, k \in 0..(m - 1) : order[n + 1] = order[k + 1] => n = k
    <3> TAKE n, k \in 0..(m - 1)
    <3> HAVE order[n + 1] = order[k + 1]
    <3>1. n + 1 = k + 1 /\ n \in Int /\ k \in Int
      BY <1>2, <1>11
    <3> QED
      BY <3>1
  <2> QED
    BY <1>10, <2>1, <2>2
<1>21. ASSUME NEW p \in Indices(ds)
       PROVE  /\ from[p] \in Indices(children)
              /\ ds[p + 1].semimove = children[from[p] + 1].semimove
              /\ ds[p + 1].sim_count = children[from[p] + 1].sim_count
              /\ ds[p + 1].index = 0 <=> children[from[p] + 1].index = 0
              /\ ds[p + 1].index # 0 =>
                   ds[p + 1].index \in Indices(ms) /\ old[ds[p + 1].index] = children[from[p] + 1].index
              /\ \A n \in 0..(m - 1) : Open(n + 1) /\ p \in BlockOf(ms, n) /\ ds[p + 1].index # 0 =>
                   n < ds[p + 1].index
  <2>1. PICK k \in 1..m : \E t \in 1..count(k) :
          p + 1 = o(k - 1) + t /\ k - 1 \in 0..(m - 1) /\ Open(k) /\ p \in BlockOf(ms, k - 1)
    BY <1>19
  <2>2. PICK t \in 1..count(k) :
          p + 1 = o(k - 1) + t /\ k - 1 \in 0..(m - 1) /\ Open(k) /\ p \in BlockOf(ms, k - 1)
    BY <2>1
  <2>3. p \in Nat
    BY <1>17
  <2>4. from[p] = first(k) + t - 1 /\ blocks[p + 1] = Child(from[p])
    BY <1>16, <2>2, <2>3
  <2>5. from[p] \in Indices(children)
    BY <1>14, <2>4
  <2> DEFINE c == Child(from[p]).index
             y == ds[p + 1].index
  <2>6. y = NewIndex(c) /\ ds[p + 1].semimove = Child(from[p]).semimove
        /\ ds[p + 1].sim_count = Child(from[p]).sim_count
    BY <1>17, <2>4
  <2>7. c # 0 => \E z \in (k + 1)..m : order[z] = c
    BY <1>14, <2>4
  <2> HIDE DEF c, y
  <2>8. CASE c = 0
    <3>1. y = 0
      BY <1>12, <2>6, <2>8
    <3> QED
      BY <2>5, <2>6, <2>8, <3>1 DEF c, y, Child
  <2>9. CASE c # 0
    <3>1. PICK z \in (k + 1)..m : order[z] = c
      BY <2>7, <2>9
    <3>2. z \in 1..m /\ z - 1 \in 0..(m - 1) /\ z - 1 # 0 /\ (z - 1) + 1 = z /\ k <= z - 1
      BY <1>2
    <3>3. y = z - 1
      BY <1>13, <2>6, <2>9, <3>1, <3>2
    <3>4. old[z - 1] = order[(z - 1) + 1]
      BY <1>11, <3>2
    <3>5. old[y] = c /\ y \in Indices(ms) /\ y # 0
      BY <1>10, <3>1, <3>2, <3>3, <3>4
    <3>6. ASSUME NEW n \in 0..(m - 1), Open(n + 1), p \in BlockOf(ms, n)
          PROVE  n < y
      <4>1. /\ p - o(n) + 1 \in 1..count(n + 1)
            /\ p + 1 = o((n + 1) - 1) + (p - o(n) + 1)
            /\ n + 1 \in 1..m
        BY <1>11, <1>18, <3>6
      <4>2. n + 1 = k
        BY <1>15, <2>2, <4>1
      <4> QED
        BY <3>2, <3>3, <4>2
    <3> QED
      BY <2>5, <2>6, <2>9, <3>5, <3>6 DEF c, y, Child
  <2> QED
    BY <2>8, <2>9
<1>22. ASSUME NEW n \in Expanded(ms)
       PROVE  /\ n \in 0..(m - 1) /\ Open(n + 1)
              /\ ms[n + 1].second <= Len(ds)
              /\ ms[n + 1].second - ms[n + 1].first = nodes[old[n] + 1].second - nodes[old[n] + 1].first
              /\ \A i \in BlockOf(ms, n) : from[i] = nodes[old[n] + 1].first + (i - ms[n + 1].first)
              /\ \A i \in BlockOf(ms, n) : i \in Indices(ds)
  <2>1. n \in 0..(m - 1) /\ Open(n + 1) /\ n + 1 \in 1..m /\ (n + 1) - 1 = n
    <3>1. n \in 0..(m - 1)
      BY <1>10 DEF Expanded
    <3> QED
      BY <1>11, <3>1
  <2>2. ms[n + 1].first = o(n) /\ ms[n + 1].second = o(n + 1)
    BY <1>9, <2>1
  <2>3. /\ o(n) \in Nat /\ o(n + 1) \in Nat /\ count(n + 1) \in Nat
        /\ o(n + 1) = o(n) + count(n + 1)
        /\ o(n + 1) <= o(m) /\ Len(ds) = o(m)
    <3>1. Len(ds) = o(m)
      BY <1>3, <1>17
    <3>2. n \in 0..m /\ n + 1 \in 0..m /\ m \in 0..m /\ n + 1 <= m
      BY <1>2, <1>8, <2>1
    <3>3. /\ o(n) \in Nat /\ o(n + 1) \in Nat /\ count(n + 1) \in Nat
          /\ o(n + 1) = o(n) + count(n + 1)
      BY <1>3, <2>1, <3>2
    <3>4. o(n + 1) <= o(m)
      BY <1>4, <3>2
    <3> QED
      BY <3>1, <3>3, <3>4
  <2>4. nodes[old[n] + 1] = Node(order[n + 1])
    BY <1>11, <2>1 DEF Node
  <2>5. count(n + 1) = Node(order[n + 1]).second - first(n + 1) /\ first(n + 1) \in Nat
    BY <1>5, <2>1
  <2>6. ASSUME NEW i \in BlockOf(ms, n)
        PROVE  /\ from[i] = nodes[old[n] + 1].first + (i - ms[n + 1].first)
               /\ i \in Indices(ds)
    <3> DEFINE t == i - o(n) + 1
    <3>1. t \in 1..count(n + 1) /\ i + 1 = o((n + 1) - 1) + t /\ i \in Nat
      BY <1>18, <2>1, <2>6
    <3> HIDE DEF t
    <3>2. from[i] = first(n + 1) + t - 1 /\ i \in 0..(Len(blocks) - 1)
      BY <1>16, <2>1, <3>1
    <3>3. t = i - o(n) + 1
      BY DEF t
    <3>4. first(n + 1) + t - 1 = first(n + 1) + (i - o(n))
      BY <2>3, <2>5, <3>1, <3>3
    <3> QED
      BY <1>17, <2>2, <2>4, <3>2, <3>4
  <2> QED
    BY <2>1, <2>2, <2>3, <2>4, <2>5, <2>6
<1>23. \A n \in Indices(ms) : /\ n \in Expanded(ms) <=> old[n] \in Expanded(nodes)
                             /\ ms[n + 1].is_nodal = nodes[old[n] + 1].is_nodal
                             /\ ms[n + 1].status = nodes[old[n] + 1].status
  BY <1>9, <1>10, <1>11 DEF Node
<1>24. \A p \in Indices(ds) : \E n \in Expanded(ms) : p \in BlockOf(ms, n)
  <2> TAKE p \in Indices(ds)
  <2>1. PICK k \in 1..m : \E t \in 1..count(k) :
          p + 1 = o(k - 1) + t /\ k - 1 \in 0..(m - 1) /\ Open(k) /\ p \in BlockOf(ms, k - 1)
    BY <1>19
  <2>2. k - 1 \in 0..(m - 1) /\ Open(k) /\ p \in BlockOf(ms, k - 1) /\ (k - 1) + 1 = k
    BY <1>2, <2>1
  <2>3. k - 1 \in Expanded(ms)
    BY <1>11, <2>2
  <2> QED
    BY <2>2, <2>3
<1>25. \A n, l \in Expanded(ms) : \A i \in BlockOf(ms, n) : i \in BlockOf(ms, l) => n = l
  <2> TAKE n, l \in Expanded(ms)
  <2> TAKE i \in BlockOf(ms, n)
  <2> HAVE i \in BlockOf(ms, l)
  <2>1. n \in 0..(m - 1) /\ Open(n + 1) /\ n + 1 \in 1..m /\ l \in 0..(m - 1) /\ Open(l + 1) /\ l + 1 \in 1..m
    BY <1>11, <1>22
  <2>2. /\ i - o(n) + 1 \in 1..count(n + 1) /\ i + 1 = o((n + 1) - 1) + (i - o(n) + 1)
        /\ i - o(l) + 1 \in 1..count(l + 1) /\ i + 1 = o((l + 1) - 1) + (i - o(l) + 1)
    BY <1>18, <2>1
  <2>3. n + 1 = l + 1
    BY <1>15, <2>1, <2>2
  <2> QED
    BY <2>1, <2>3
<1>26. \A n \in Indices(ms) \ {0} : \E i \in Indices(ds) : ds[i + 1].index = n
  <2> TAKE n \in Indices(ms) \ {0}
  <2>1. n \in 0..(m - 1) /\ n + 1 \in 2..m /\ (n + 1) - 1 = n /\ n + 1 \in 1..m
    BY <1>2, <1>10
  <2>2. PICK k \in 1..n : EdgeTo(L, order[k], order[n + 1])
    <3>1. \E k \in 1..((n + 1) - 1) : EdgeTo(L, order[k], order[n + 1])
      BY <2>1 DEF Listing, m
    <3> QED
      BY <2>1, <3>1
  <2>3. k \in 1..m /\ is_expanded(Node(order[k])) /\ order[k] \in Nodes
    <3>1. k \in 1..m
      BY <1>2, <2>1
    <3> QED
      BY <1>2, <2>2, <3>1 DEF EdgeTo
  <2>4. PICK j \in ChildIndices(Node(order[k])) : Child(j).index = order[n + 1]
    BY <2>2 DEF EdgeTo
  <2> DEFINE t == j - first(k) + 1
             p == o(k - 1) + t - 1
  <2>5. t \in 1..count(k) /\ first(k) + t - 1 = j
    BY <1>1, <2>3, ChildCountIs DEF count
  <2> HIDE DEF t
  <2>6. p \in Nat /\ p + 1 = o(k - 1) + t
    <3>1. o(k - 1) \in Nat /\ count(k) \in Nat
      BY <1>3, <1>8, <2>3
    <3>2. t \in Nat \ {0}
      BY <2>5, <3>1
    <3> QED
      BY <3>1, <3>2
  <2> HIDE DEF p
  <2>7. p \in 0..(Len(blocks) - 1) /\ blocks[p + 1] = Child(j)
    <3>1. p \in 0..(Len(blocks) - 1) /\ from[p] = first(k) + t - 1 /\ blocks[p + 1] = Child(from[p])
      BY <1>16, <2>3, <2>5, <2>6
    <3>2. from[p] = j
      BY <2>5, <3>1
    <3> QED
      BY <3>1, <3>2
  <2>8. order[n + 1] # 0
    <3>1. order[n + 1] # r /\ r <= order[n + 1]
      BY <1>2, <2>1 DEF Listing, m
    <3>2. r \in Nat /\ order[n + 1] \in Nat
      <4>1. r \in Indices(nodes) /\ order[n + 1] \in Indices(nodes)
        BY <1>1, <1>2, <2>1
      <4> QED
        BY <4>1, VectorFacts
    <3> QED
      BY <3>1, <3>2
  <2>9. ds[p + 1].index = n
    BY <1>13, <1>17, <2>1, <2>4, <2>7, <2>8
  <2> QED
    BY <1>17, <2>7, <2>9
<1>27. from \in [Indices(ds) -> Indices(children)]
  <2>1. from = [p \in Indices(ds) |-> from[p]]
    BY <1>17 DEF from
  <2> QED
    BY <1>21, <2>1
<1>28. 0 \in Indices(ms) /\ old[0] = r
  BY <1>2, <1>10, <1>11
<1> HIDE DEF old
<1>29. \A n \in Expanded(ms) : \A i \in BlockOf(ms, n) : ds[i + 1].index # 0 => n < ds[i + 1].index
  BY <1>21, <1>22
<1>30. IsCopy(nodes, children, L, ms, ds, old, from)
  BY <1>10, <1>17, <1>20, <1>21, <1>22, <1>23, <1>24, <1>25, <1>26, <1>27, <1>28, <1>29 DEF IsCopy
<1> QED
  BY <1>28, <1>30 DEF ms, ds

(* The blocks of a copy are those of the original, in the same order. *)
LEMMA CopyKeepsBlocks ==
  ASSUME NEW ns, NEW cs, NEW L, Vectors(ns, cs), Links(ns, cs, L), NEW ms, NEW ds, NEW old, NEW from,
         IsCopy(ns, cs, L, ms, ds, old, from)
  PROVE  /\ Vectors(ms, ds)
         /\ \A m \in Indices(ms) :
              /\ old[m] \in L /\ old[m] \in Indices(ns)
              /\ is_expanded(ms[m + 1]) <=> is_expanded(ns[old[m] + 1])
              /\ \A i \in BlockOf(ms, m) : i \in Indices(ds) /\ from[i] \in BlockOf(ns, old[m])
              /\ \A j \in BlockOf(ns, old[m]) : \E i \in BlockOf(ms, m) : from[i] = j
              /\ \A i, j \in BlockOf(ms, m) : (i <= j <=> from[i] <= from[j]) /\ (from[i] = from[j] => i = j)
              /\ is_expanded(ms[m + 1]) => BlockSims(ds, ms[m + 1]) = BlockSims(cs, ns[old[m] + 1])
              /\ is_expanded(ms[m + 1]) =>
                   (ms[m + 1].first = ms[m + 1].second <=> ns[old[m] + 1].first = ns[old[m] + 1].second)
<1>1. Vectors(ms, ds)
  <2>1. ms \in Seq(NodeRecord) /\ ds \in Seq(ChildRecord) /\ 0 \in Indices(ms)
    BY DEF IsCopy
  <2>2. \A n \in Indices(ms) : is_expanded(ms[n + 1]) => ms[n + 1].second <= Len(ds)
    BY DEF IsCopy, Expanded
  <2>3. \A i \in Indices(ds) : ds[i + 1].index < Len(ms)
    <3> TAKE i \in Indices(ds)
    <3>1. ds[i + 1].index \in Indices(ms)
      BY <2>1 DEF IsCopy
    <3>2. Len(ms) \in Nat
      BY <2>1
    <3> QED
      BY <3>1, <3>2 DEF Indices
  <2>4. \A n \in Indices(ms) : \A i \in BlockOf(ms, n) : ds[i + 1].index # 0 => n < ds[i + 1].index
    <3> TAKE n \in Indices(ms)
    <3> TAKE i \in BlockOf(ms, n)
    <3>1. n + 1 \in 1..Len(ms)
      BY <2>1 DEF Indices
    <3>2. ms[n + 1] \in NodeRecord
      BY <2>1, <3>1
    <3>3. is_expanded(ms[n + 1])
      BY <3>2 DEF BlockOf, ChildIndices, is_expanded, NodeRecord
    <3> QED
      BY <3>3 DEF IsCopy, Expanded
  <2> QED
    BY <2>1, <2>2, <2>3, <2>4 DEF Vectors
<1> SUFFICES ASSUME NEW m \in Indices(ms)
             PROVE  /\ old[m] \in L /\ old[m] \in Indices(ns)
                    /\ is_expanded(ms[m + 1]) <=> is_expanded(ns[old[m] + 1])
                    /\ \A i \in BlockOf(ms, m) : i \in Indices(ds) /\ from[i] \in BlockOf(ns, old[m])
                    /\ \A j \in BlockOf(ns, old[m]) : \E i \in BlockOf(ms, m) : from[i] = j
                    /\ \A i, j \in BlockOf(ms, m) :
                         (i <= j <=> from[i] <= from[j]) /\ (from[i] = from[j] => i = j)
                    /\ is_expanded(ms[m + 1]) => BlockSims(ds, ms[m + 1]) = BlockSims(cs, ns[old[m] + 1])
                    /\ is_expanded(ms[m + 1]) =>
                         (ms[m + 1].first = ms[m + 1].second <=> ns[old[m] + 1].first = ns[old[m] + 1].second)
  BY <1>1
<1> DEFINE a == ms[m + 1].first
           b == ms[m + 1].second
           c == ns[old[m] + 1].first
           d == ns[old[m] + 1].second
<1>2. old[m] \in L /\ old[m] \in Indices(ns)
  BY LinkFacts DEF IsCopy
<1>3. is_expanded(ms[m + 1]) <=> is_expanded(ns[old[m] + 1])
  BY <1>2 DEF IsCopy, Expanded
<1>4. CASE is_expanded(ms[m + 1])
  <2>1. m \in Expanded(ms) /\ old[m] \in Expanded(ns)
    BY <1>2, <1>3, <1>4 DEF Expanded
  <2>2. /\ a \in Nat /\ b \in Nat /\ c \in Nat /\ d \in Nat /\ a <= b /\ c <= d
        /\ b <= Len(ds) /\ d <= Len(cs) /\ Len(ds) \in Nat /\ Len(cs) \in Nat
        /\ BlockOf(ms, m) \subseteq Indices(ds)
    BY <1>1, <1>2, <1>3, <1>4, VectorFacts DEF Vectors, is_expanded
  <2>3. b - a = d - c
    BY <2>1 DEF IsCopy
  <2>4. BlockOf(ms, m) = a..(b - 1) /\ BlockOf(ns, old[m]) = c..(d - 1)
    BY DEF BlockOf, ChildIndices
  <2>5. \A i \in BlockOf(ms, m) : from[i] = c + (i - a)
    BY <2>1 DEF IsCopy
  <2>6. \A i \in BlockOf(ms, m) : ds[i + 1].sim_count = cs[from[i] + 1].sim_count
    BY <2>2 DEF IsCopy
  <2> HIDE DEF a, b, c, d
  <2>7. \A i \in BlockOf(ms, m) : from[i] \in BlockOf(ns, old[m])
    BY <2>2, <2>3, <2>4, <2>5
  <2>8. \A j \in BlockOf(ns, old[m]) : \E i \in BlockOf(ms, m) : from[i] = j
    <3> TAKE j \in BlockOf(ns, old[m])
    <3> DEFINE i == a + (j - c)
    <3>1. i \in a..(b - 1) /\ c + (i - a) = j
      BY <2>2, <2>3, <2>4
    <3> HIDE DEF i
    <3> QED
      BY <2>4, <2>5, <3>1
  <2>9. \A i, j \in BlockOf(ms, m) : (i <= j <=> from[i] <= from[j]) /\ (from[i] = from[j] => i = j)
    BY <2>2, <2>4, <2>5
  <2>10. BlockSims(ds, ms[m + 1]) = BlockSims(cs, ns[old[m] + 1])
    <3>1. \A k \in 0..((d - c) - 1) :
            cs[c + k + 1].sim_count \in Nat /\ ds[a + k + 1].sim_count = cs[c + k + 1].sim_count
      <4> TAKE k \in 0..((d - c) - 1)
      <4>1. a + k \in a..(b - 1) /\ c + ((a + k) - a) = c + k /\ c + k \in Indices(cs)
        BY <2>2, <2>3 DEF Indices
      <4>2. from[a + k] = c + k
        BY <2>4, <2>5, <4>1
      <4>3. ds[a + k + 1].sim_count = cs[c + k + 1].sim_count
        BY <2>4, <2>6, <4>1, <4>2
      <4>4. cs[c + k + 1].sim_count \in Nat
        BY <4>1, VectorFacts
      <4> QED
        BY <4>3, <4>4
    <3> DEFINE other == ms[m + 1]
               node == ns[old[m] + 1]
    <3>2. other.first = a /\ other.second = b /\ node.first = c /\ node.second = d
      BY DEF a, b, c, d
    <3> HIDE DEF other, node
    <3>3. BlockSims(ds, other) = BlockSims(cs, node)
      BY <2>2, <2>3, <3>1, <3>2, BlockSimsSame
    <3> QED
      BY <3>3 DEF other, node
  <2>11. a = b <=> c = d
    BY <2>2, <2>3
  <2> QED
    BY <1>2, <1>3, <2>2, <2>7, <2>8, <2>9, <2>10, <2>11 DEF a, b, c, d
<1>5. CASE ~is_expanded(ms[m + 1])
  <2>1. BlockOf(ms, m) = {} /\ BlockOf(ns, old[m]) = {}
    BY <1>1, <1>2, <1>3, <1>5, VectorFacts
  <2> QED
    BY <1>2, <1>3, <1>5, <2>1
<1> QED
  BY <1>4, <1>5

(* A copy of a part of a tree is a tree. *)
LEMMA CopyKeepsTree ==
  ASSUME NEW ns, NEW cs, NEW L, NEW root, NEW pos, Tree(ns, cs, L, root, pos),
         NEW ms, NEW ds, NEW old, NEW from, IsCopy(ns, cs, L, ms, ds, old, from), pos[old[0]] \in Nodal
  PROVE  Tree(ms, ds, Indices(ms), pos[old[0]], [m \in Indices(ms) |-> pos[old[m]]])
<1> DEFINE qos == [m \in Indices(ms) |-> pos[old[m]]]
           K == Indices(ms)
<1>1. /\ Vectors(ns, cs) /\ Links(ns, cs, L) /\ VisitedOnTop(ns, cs, L)
      /\ Stands(ns, cs, L, root, pos) /\ Covers(ns, cs, L, pos) /\ Statuses(ns, L, pos)
  BY DEF Tree
<1>2. /\ Vectors(ms, ds)
      /\ \A m \in K :
           /\ old[m] \in L /\ old[m] \in Indices(ns)
           /\ is_expanded(ms[m + 1]) <=> is_expanded(ns[old[m] + 1])
           /\ \A i \in BlockOf(ms, m) : i \in Indices(ds) /\ from[i] \in BlockOf(ns, old[m])
           /\ \A j \in BlockOf(ns, old[m]) : \E i \in BlockOf(ms, m) : from[i] = j
           /\ \A i, j \in BlockOf(ms, m) : (i <= j <=> from[i] <= from[j]) /\ (from[i] = from[j] => i = j)
           /\ is_expanded(ms[m + 1]) =>
                (ms[m + 1].first = ms[m + 1].second <=> ns[old[m] + 1].first = ns[old[m] + 1].second)
  BY <1>1, CopyKeepsBlocks
<1>3. \A i \in Indices(ds) :
       /\ from[i] \in Indices(cs)
       /\ ds[i + 1].semimove = cs[from[i] + 1].semimove
       /\ ds[i + 1].index = 0 <=> cs[from[i] + 1].index = 0
       /\ ds[i + 1].index # 0 => ds[i + 1].index \in K /\ old[ds[i + 1].index] = cs[from[i] + 1].index
  BY DEF IsCopy
<1>4. /\ 0 \in K
      /\ \A m, k \in K : old[m] = old[k] => m = k
      /\ \A i \in Indices(ds) : \E m \in K : i \in BlockOf(ms, m)
      /\ \A m \in K \ {0} : \E i \in Indices(ds) : ds[i + 1].index = m
      /\ \A m \in K : ms[m + 1].is_nodal = ns[old[m] + 1].is_nodal /\ ms[m + 1].status = ns[old[m] + 1].status
  BY DEF IsCopy, Expanded
<1>5. Links(ms, ds, K)
  <2>1. \A m \in K : \A i \in BlockOf(ms, m) : ds[i + 1].index # 0 => ds[i + 1].index \in K
    BY <1>2, <1>3
  <2>2. \A m \in K \ {0} : \E p \in K : \E i \in BlockOf(ms, p) : ds[i + 1].index = m
    BY <1>4
  <2>3. ASSUME NEW m \in K, NEW k \in K, NEW i \in BlockOf(ms, m), i \in BlockOf(ms, k)
        PROVE  m = k
    <3>1. from[i] \in BlockOf(ns, old[m]) /\ from[i] \in BlockOf(ns, old[k])
      BY <1>2, <2>3
    <3>2. old[m] = old[k]
      BY <1>1, <1>2, <3>1, LinkFacts
    <3> QED
      BY <1>4, <3>2
  <2>4. ASSUME NEW m \in K, NEW k \in K, NEW i \in BlockOf(ms, m), NEW j \in BlockOf(ms, k),
               ds[i + 1].index = ds[j + 1].index, ds[i + 1].index # 0
        PROVE  i = j
    <3>1. from[i] \in BlockOf(ns, old[m]) /\ from[j] \in BlockOf(ns, old[k]) /\ i \in Indices(ds) /\ j \in Indices(ds)
      BY <1>2
    <3>2. cs[from[i] + 1].index = cs[from[j] + 1].index /\ cs[from[i] + 1].index # 0
      BY <1>3, <2>4, <3>1
    <3>3. from[i] = from[j]
      BY <1>1, <1>2, <3>1, <3>2, LinkFacts
    <3>4. old[m] = old[k]
      BY <1>1, <1>2, <3>1, <3>3, LinkFacts
    <3>5. m = k
      BY <1>4, <3>4
    <3> QED
      BY <1>2, <3>3, <3>5
  <2> QED
    BY <1>4, <2>1, <2>2, <2>3, <2>4 DEF Links
<1>6. /\ qos \in [K -> State]
      /\ \A m \in K : qos[m] = pos[old[m]]
      /\ qos[0] = pos[old[0]]
  <2>1. \A m \in K : pos[old[m]] \in State
    BY <1>1, <1>2 DEF Stands
  <2> QED
    BY <1>4, <2>1
<1> HIDE DEF qos
<1>7. Stands(ms, ds, K, pos[old[0]], qos)
  <2>1. ASSUME NEW m \in K, NEW i \in BlockOf(ms, m)
        PROVE  Fits(qos, qos[m], ds[i + 1])
    <3>1. from[i] \in BlockOf(ns, old[m]) /\ i \in Indices(ds) /\ old[m] \in L
      BY <1>2
    <3>2. Fits(pos, pos[old[m]], cs[from[i] + 1])
      BY <1>1, <3>1 DEF Stands
    <3>3. PICK t \in State : Leads(pos[old[m]], cs[from[i] + 1].semimove, t)
                             /\ (cs[from[i] + 1].index # 0 => pos[cs[from[i] + 1].index] = t)
      BY <3>2 DEF Fits
    <3>4. Leads(qos[m], ds[i + 1].semimove, t)
      BY <1>3, <1>6, <3>1, <3>3
    <3>5. ds[i + 1].index # 0 => qos[ds[i + 1].index] = t
      BY <1>3, <1>6, <3>1, <3>3
    <3> QED
      BY <3>4, <3>5 DEF Fits
  <2>2. GETTER = "A" => \A m \in K : \A i \in BlockOf(ms, m) : Len(ds[i + 1].semimove) = 1
    BY <1>1, <1>2, <1>3 DEF Stands
  <2> QED
    BY <1>6, <2>1, <2>2 DEF Stands
<1>8. Covers(ms, ds, K, qos)
  <2> SUFFICES ASSUME NEW m \in K, is_expanded(ms[m + 1])
               PROVE  Cover(EdgesOf(ds), BlockOf(ms, m), qos[m])
    BY DEF Covers
  <2> DEFINE f == EdgesOf(cs)
             B == BlockOf(ns, old[m])
             g == EdgesOf(ds)
             C == BlockOf(ms, m)
             s == qos[m]
  <2>1. Cover(f, B, s)
    BY <1>1, <1>2, <1>6 DEF Covers
  <2>2. \A i \in C : from[i] \in B /\ g[i] = f[from[i]]
    BY <1>2, <1>3 DEF EdgesOf
  <2>3. (\A i, j \in C : from[i] = from[j] => i = j) /\ \A j \in B : \E i \in C : from[i] = j
    BY <1>2
  <2> HIDE DEF f, B, g, C, s
  <2>4. Moved(s, f, B, g, C, from)
    BY <2>2, <2>3 DEF Moved
  <2>5. Cover(g, C, s)
    BY <2>1, <2>4, CoverMoved
  <2> QED
    BY <2>5 DEF g, C, s
<1>9. Statuses(ms, K, qos)
  <2> SUFFICES ASSUME NEW m \in K
               PROVE  /\ ms[m + 1].is_nodal <=> qos[m] \in Nodal
                      /\ ms[m + 1].status = TrueStatus(qos[m])
                      /\ Rests(qos[m]) # {}
                      /\ is_terminal(ms[m + 1]) => ms[m + 1].first = ms[m + 1].second
                      /\ ~is_terminal(ms[m + 1]) => ms[m + 1].first # ms[m + 1].second
    BY DEF Statuses
  <2>1. /\ ns[old[m] + 1].is_nodal <=> qos[m] \in Nodal
        /\ ns[old[m] + 1].status = TrueStatus(qos[m])
        /\ Rests(qos[m]) # {}
        /\ is_terminal(ns[old[m] + 1]) => ns[old[m] + 1].first = ns[old[m] + 1].second
        /\ ~is_terminal(ns[old[m] + 1]) => ns[old[m] + 1].first # ns[old[m] + 1].second
    BY <1>1, <1>2, <1>6 DEF Statuses
  <2>2. is_terminal(ms[m + 1]) <=> is_terminal(ns[old[m] + 1])
    BY <1>4 DEF is_terminal
  <2>3. ms[m + 1].first \in Nat /\ ms[m + 1].second \in Nat /\ ns[old[m] + 1].first \in Nat /\ ns[old[m] + 1].second \in Nat
    BY <1>1, <1>2, VectorFacts
  <2>4. ns[old[m] + 1].first = ns[old[m] + 1].second => is_expanded(ms[m + 1])
    BY <1>2, <2>3 DEF is_expanded
  <2>5. ms[m + 1].first = ms[m + 1].second => is_expanded(ms[m + 1])
    BY <2>3 DEF is_expanded
  <2>6. ms[m + 1].first = ms[m + 1].second <=> ns[old[m] + 1].first = ns[old[m] + 1].second
    BY <1>2, <2>4, <2>5
  <2> QED
    BY <1>4, <2>1, <2>2, <2>6
<1>10. VisitedOnTop(ms, ds, K)
  <2> SUFFICES ASSUME NEW m \in K, NEW i \in BlockOf(ms, m), NEW j \in BlockOf(ms, m),
                      i <= j, ds[i + 1].index = 0
               PROVE  ds[j + 1].index = 0
    BY DEF VisitedOnTop
  <2>1. /\ from[i] \in BlockOf(ns, old[m]) /\ from[j] \in BlockOf(ns, old[m]) /\ from[i] <= from[j]
        /\ i \in Indices(ds) /\ j \in Indices(ds) /\ old[m] \in L
    BY <1>2
  <2>2. cs[from[j] + 1].index = 0
    BY <1>1, <1>3, <2>1 DEF VisitedOnTop
  <2> QED
    BY <1>3, <2>1, <2>2
<1> QED
  BY <1>2, <1>5, <1>7, <1>8, <1>9, <1>10 DEF Tree, qos

(* The counts of a copy add up, the new root having those of its edge. *)
LEMMA CopyKeepsCounts ==
  ASSUME NEW ns, NEW cs, NEW L, NEW root, NEW pos, Tree(ns, cs, L, root, pos),
         NEW ms, NEW ds, NEW old, NEW from, IsCopy(ns, cs, L, ms, ds, old, from), pos[old[0]] \in Nodal,
         NEW all, NEW rolled, Counted(ns, cs, L, all, rolled), Touched(ns, cs, L, Nobody),
         NEW p \in L, NEW k \in BlockOf(ns, p), cs[k + 1].index = old[0], old[0] # 0
  PROVE  /\ Counted(ms, ds, Indices(ms), cs[k + 1].sim_count, rolled)
         /\ Touched(ms, ds, Indices(ms), Nobody)
<1> DEFINE K == Indices(ms)
           total == cs[k + 1].sim_count
<1>1. Vectors(ns, cs) /\ Links(ns, cs, L) /\ Statuses(ns, L, pos)
  BY DEF Tree
<1>2. /\ Vectors(ms, ds)
      /\ \A m \in K :
           /\ old[m] \in L /\ old[m] \in Indices(ns)
           /\ is_expanded(ms[m + 1]) <=> is_expanded(ns[old[m] + 1])
           /\ \A i \in BlockOf(ms, m) : i \in Indices(ds) /\ from[i] \in BlockOf(ns, old[m])
           /\ \A j \in BlockOf(ns, old[m]) : \E i \in BlockOf(ms, m) : from[i] = j
           /\ is_expanded(ms[m + 1]) => BlockSims(ds, ms[m + 1]) = BlockSims(cs, ns[old[m] + 1])
  BY <1>1, CopyKeepsBlocks
<1>3. \A i \in Indices(ds) :
       /\ from[i] \in Indices(cs)
       /\ ds[i + 1].sim_count = cs[from[i] + 1].sim_count
       /\ ds[i + 1].index = 0 <=> cs[from[i] + 1].index = 0
       /\ ds[i + 1].index # 0 => ds[i + 1].index \in K /\ old[ds[i + 1].index] = cs[from[i] + 1].index
  BY DEF IsCopy
<1>4. /\ 0 \in K
      /\ \A m \in K : ms[m + 1].is_nodal = ns[old[m] + 1].is_nodal /\ ms[m + 1].status = ns[old[m] + 1].status
  BY DEF IsCopy
<1>5. ASSUME NEW m \in K
      PROVE  BlockSims(ds, ms[m + 1]) = BlockSims(cs, ns[old[m] + 1])
  <2>1. CASE is_expanded(ms[m + 1])
    BY <1>2, <2>1
  <2>2. CASE ~is_expanded(ms[m + 1])
    <3>1. BlockOf(ms, m) = {} /\ BlockOf(ns, old[m]) = {}
      BY <1>1, <1>2, <2>2, VectorFacts
    <3>2. BlockSims(ds, ms[m + 1]) = 0
      BY <1>2, <3>1, BlockSimsNat
    <3>3. BlockSims(cs, ns[old[m] + 1]) = 0
      BY <1>1, <1>2, <3>1, BlockSimsNat
    <3> QED
      BY <3>2, <3>3
  <2> QED
    BY <2>1, <2>2
<1>6. \A m : Extra(Nobody, m) = IF m = Nobody THEN 1 ELSE 0
  BY DEF Extra
<1>7. \A m \in K : m # Nobody /\ old[m] # Nobody /\ Extra(Nobody, m) = 0 /\ Extra(Nobody, old[m]) = 0
  <2> TAKE m \in K
  <2>1. m \in Nat /\ old[m] \in Nat
    BY <1>1, <1>2, VectorFacts
  <2> QED
    BY <1>6, <2>1 DEF Nobody
<1>8. \A m \in K : \A r : Surplus(rolled, r, ms[m + 1]) = Surplus(rolled, r, ns[old[m] + 1])
  BY <1>4 DEF Surplus
<1>9. \A m \in K : is_terminal(ms[m + 1]) <=> is_terminal(ns[old[m] + 1])
  BY <1>4 DEF is_terminal
<1>10. \A q \in L : \A i \in BlockOf(ns, q) : CountAt(ns, cs, rolled, Nobody, cs[i + 1])
  BY DEF Counted, CountedBut
<1>11. ASSUME NEW m \in K, NEW i \in BlockOf(ms, m)
       PROVE  CountAt(ms, ds, rolled, Nobody, ds[i + 1])
  <2> DEFINE c == ds[i + 1].index
             b == cs[from[i] + 1].index
  <2>1. from[i] \in BlockOf(ns, old[m]) /\ old[m] \in L /\ i \in Indices(ds)
    BY <1>2
  <2>2. CountAt(ns, cs, rolled, Nobody, cs[from[i] + 1])
    BY <1>10, <2>1
  <2>3. b # 0 /\ ~is_terminal(ns[b + 1]) =>
          (cs[from[i] + 1].sim_count - BlockSims(cs, ns[b + 1])) - Extra(Nobody, b) \in Surplus(rolled, FALSE, ns[b + 1])
    BY <2>2 DEF CountAt
  <2>4. c # 0 => b # 0 /\ c \in K /\ old[c] = b /\ ds[i + 1].sim_count = cs[from[i] + 1].sim_count
    BY <1>3, <2>1
  <2> HIDE DEF b, c
  <2>5. c # 0 /\ ~is_terminal(ms[c + 1]) =>
          (ds[i + 1].sim_count - BlockSims(ds, ms[c + 1])) - Extra(Nobody, c) \in Surplus(rolled, FALSE, ms[c + 1])
    BY <1>5, <1>7, <1>8, <1>9, <2>3, <2>4
  <2> QED
    BY <2>5 DEF CountAt, c
<1>12. ~is_terminal(ms[1]) => (total - BlockSims(ds, ms[1])) - Extra(Nobody, 0) \in Surplus(rolled, TRUE, ms[1])
  <2>1. ms[0 + 1] = ms[1]
    OBVIOUS
  <2>2. CountAt(ns, cs, rolled, Nobody, cs[k + 1])
    BY <1>10
  <2>3. ~is_terminal(ns[old[0] + 1]) =>
          (total - BlockSims(cs, ns[old[0] + 1])) - Extra(Nobody, old[0]) \in Surplus(rolled, FALSE, ns[old[0] + 1])
    BY <2>2 DEF CountAt
  <2>4. ns[old[0] + 1].is_nodal
    BY <1>1, <1>2, <1>4 DEF Statuses
  <2>5. Surplus(rolled, FALSE, ns[old[0] + 1]) \subseteq Surplus(rolled, TRUE, ms[1])
    BY <2>4 DEF Surplus
  <2> QED
    BY <1>4, <1>5, <1>7, <1>9, <2>1, <2>3, <2>5
<1>13. \A i \in Indices(ds) : ds[i + 1].index = 0 <=> ds[i + 1].sim_count = 0
  BY <1>3 DEF Counted, CountedBut
<1>14. Counted(ms, ds, K, total, rolled)
  BY <1>11, <1>12, <1>13 DEF Counted, CountedBut
<1>15. Touched(ms, ds, K, Nobody)
  <2> SUFFICES ASSUME NEW m \in K, is_expanded(ms[m + 1]), ~ms[m + 1].is_nodal
               PROVE  \E i \in BlockOf(ms, m) : ds[i + 1].index # 0
    BY DEF Touched
  <2>1. PICK j \in BlockOf(ns, old[m]) : cs[j + 1].index # 0
    BY <1>2, <1>4, <1>7 DEF Touched
  <2>2. PICK i \in BlockOf(ms, m) : from[i] = j
    BY <1>2
  <2> QED
    BY <1>2, <1>3, <2>1, <2>2
<1> QED
  BY <1>14, <1>15


(* The children of the root remember at most all simulations: a terminal   *)
(* root has none.                                                          *)
LEMMA TreeSims ==
  ASSUME NEW ns, NEW cs, NEW L, NEW s, NEW pos, Tree(ns, cs, L, s, pos),
         NEW total \in Nat, NEW rolled, Counted(ns, cs, L, total, rolled)
  PROVE  BlockSims(cs, ns[1]) \in 0..total
<1>2. Vectors(ns, cs) /\ Links(ns, cs, L) /\ 0 \in L /\ 0 \in Indices(ns) /\ ns[0 + 1] = ns[1]
  BY DEF Tree, Vectors, Links
<1>3. BlockSims(cs, ns[1]) \in Nat /\ (BlockOf(ns, 0) = {} => BlockSims(cs, ns[1]) = 0)
  BY <1>2, BlockSimsNat
<1>4. CASE is_terminal(ns[1])
  <2>1. ns[1].first = ns[1].second /\ ns[1].first \in Nat
    BY <1>2, <1>4, VectorFacts DEF Tree, Statuses
  <2>2. BlockOf(ns, 0) = {}
    BY <1>2, <2>1 DEF BlockOf, ChildIndices
  <2> QED
    BY <1>3, <2>2
<1>5. CASE ~is_terminal(ns[1])
  <2>1. BlockSims(cs, ns[1]) <= total
    BY <1>2, <1>5, SimsEnough
  <2> QED
    BY <1>3, <2>1
<1> QED
  BY <1>4, <1>5

(* So it is in a sound tree. *)
LEMMA SoundSims ==
  ASSUME NEW ns, NEW cs, NEW s, NEW total \in Nat, NEW rolled, Sound(ns, cs, s, total, rolled)
  PROVE  BlockSims(cs, ns[1]) \in 0..total
BY TreeSims DEF Sound

(* What root_at_index makes of a nodal node is a sound tree, and the node's*)
(* simulations are its total: no status is unknown.  Its children remember *)
(* what they did, and none of a new block.                                 *)
LEMMA RerootedSound ==
  ASSUME NEW L, NEW root, NEW pos, Tree(nodes, children, L, root, pos),
         NEW all, NEW rolled, Counted(nodes, children, L, all, rolled), Touched(nodes, children, L, Nobody),
         NEW p \in L, NEW k \in BlockOf(nodes, p), Child(k).index # 0,
         NEW s, s = pos[Child(k).index], s \in Nodal
  PROVE  /\ Sound(Rerooted(k, s).nodes, Rerooted(k, s).children, s, Child(k).sim_count, rolled)
         /\ BlockSims(Rerooted(k, s).children, Rerooted(k, s).nodes[1])
              \in {0, BlockSims(children, nodes[Child(k).index + 1])}
<1> DEFINE r == Child(k).index
           total == Child(k).sim_count
           order == Preorder(r)
           ms == FixedNodes(order)
           ds == FixedChildren(order)
<1>1. /\ Vectors(nodes, children) /\ Links(nodes, children, L)
      /\ Stands(nodes, children, L, root, pos) /\ Statuses(nodes, L, pos)
  BY DEF Tree
<1>2. r \in L /\ r # 0 /\ s \in State
  <2>1. r \in L
    BY <1>1, LinkFacts DEF Child
  <2> QED
    BY <1>1, <2>1 DEF Stands
<1>3. Linked /\ Joined(L)
  BY <1>1, TreeIsLinked
<1> HIDE DEF r
<1>4. Listing(L, r, order)
  BY <1>2, <1>3, PreorderLists
<1> HIDE DEF order
<1>5. PICK old, from : IsCopy(nodes, children, L, ms, ds, old, from) /\ old[0] = r
  BY <1>1, <1>2, <1>4, FixedIsCopy
<1> HIDE DEF ms, ds
<1>6. pos[old[0]] = s /\ pos[old[0]] \in Nodal /\ s \in Nodal
  BY <1>5 DEF r
<1>7. Tree(ms, ds, Indices(ms), s, [m \in Indices(ms) |-> pos[old[m]]])
  BY <1>5, <1>6, CopyKeepsTree
<1>8. Counted(ms, ds, Indices(ms), total, rolled) /\ Touched(ms, ds, Indices(ms), Nobody)
  <2>1. children[k + 1].index = old[0] /\ old[0] # 0 /\ total = children[k + 1].sim_count
    BY <1>2, <1>5 DEF r, Child
  <2> QED
    BY <1>5, <1>6, <2>1, CopyKeepsCounts
<1>9. Sound(ms, ds, s, total, rolled)
  BY <1>7, <1>8 DEF Sound
<1>10. /\ ms \in Seq(NodeRecord) /\ ds \in Seq(ChildRecord) /\ Len(ms) \in Nat \ {0} /\ ms[1] \in NodeRecord
       /\ ms[1].status # "unknown" /\ (is_terminal(ms[1]) => is_expanded(ms[1]))
  <2>1. Vectors(ms, ds) /\ Statuses(ms, Indices(ms), [m \in Indices(ms) |-> pos[old[m]]]) /\ 0 \in Indices(ms)
    BY <1>7 DEF Tree, Vectors
  <2>2. ms[0 + 1] = ms[1]
    OBVIOUS
  <2>3. ms \in Seq(NodeRecord) /\ ds \in Seq(ChildRecord) /\ Len(ms) \in Nat \ {0} /\ ms[1] \in NodeRecord
    BY <2>1, <2>2, VectorFacts DEF Vectors
  <2>4. ms[1].status # "unknown" /\ (is_terminal(ms[1]) => ms[1].first = ms[1].second)
    BY <2>1, <2>2 DEF Statuses, TrueStatus
  <2> QED
    BY <2>3, <2>4 DEF is_expanded, NodeRecord
<1> DEFINE t == [nodes |-> <<ms[1]>> \o Tail(ms), children |-> ds]
<1>11. <<ms[1]>> \o Tail(ms) = ms
  BY <1>10
<1>12. t.nodes = ms /\ t.children = ds /\ DOMAIN t = {"nodes", "children"}
  BY <1>11
<1>13. Rerooted(k, s) = IF is_expanded(ms[1]) THEN t ELSE create_children(t, 0, SetToSeq(Semimoves[s]))
  <2>1. Head(ms) = ms[1]
    BY <1>10
  <2> QED
    BY <1>10, <2>1 DEF Rerooted, ms, ds, order, r
<1> HIDE DEF t
<1>14. CASE is_expanded(ms[1])
  <2>1. BlockSims(ds, ms[0 + 1]) = BlockSims(children, nodes[old[0] + 1])
    <3>1. 0 \in Indices(ms) /\ is_expanded(ms[0 + 1])
      BY <1>7, <1>14 DEF Tree, Vectors
    <3> QED
      BY <1>1, <1>5, <3>1, CopyKeepsBlocks
  <2>2. BlockSims(ds, ms[1]) = BlockSims(children, nodes[r + 1])
    BY <1>5, <2>1
  <2> QED
    BY <1>9, <1>12, <1>13, <1>14, <2>2 DEF total, r
<1>15. CASE ~is_expanded(ms[1])
  <2> DEFINE v == create_children(t, 0, SetToSeq(Semimoves[s]))
  <2>1. /\ t.nodes \in Seq(NodeRecord) /\ t.children \in Seq(ChildRecord)
        /\ Sound(t.nodes, t.children, s, total, rolled) /\ ~is_terminal(t.nodes[1]) /\ ~is_expanded(t.nodes[1])
    BY <1>9, <1>10, <1>12, <1>15
  <2> HIDE DEF total, v
  <2>2. v = create_children(t, 0, SetToSeq(Semimoves[s]))
    BY DEF v
  <2>3. Sound(v.nodes, v.children, s, total, rolled)
    BY <1>2, <1>12, <2>1, <2>2, RootExpands
  <2>5. Sound(v.nodes, v.children, s, 0, rolled)
    <3>1. BlockSims(ds, ms[1]) = 0
      <4>1. Vectors(ms, ds) /\ 0 \in Indices(ms) /\ ms[0 + 1] = ms[1]
        BY <1>7 DEF Tree, Vectors
      <4>2. BlockOf(ms, 0) = {}
        BY <1>15, <4>1, VectorFacts
      <4> QED
        BY <4>1, <4>2, BlockSimsNat
    <3>2. Counted(ms, ds, Indices(ms), 0, rolled)
      BY <1>8, <3>1 DEF Counted, CountedBut, Surplus, Extra, Nobody
    <3>3. Sound(t.nodes, t.children, s, 0, rolled)
      BY <1>7, <1>8, <1>12, <3>2 DEF Sound
    <3> QED
      BY <1>2, <1>12, <2>1, <2>2, <3>3, RootExpands
  <2>6. BlockSims(v.children, v.nodes[1]) = 0
    BY <2>5, SoundSims
  <2>4. Rerooted(k, s) = v
    BY <1>13, <1>15 DEF v
  <2> QED
    BY <2>3, <2>4, <2>6 DEF total
<1> QED
  BY <1>14, <1>15 DEF r

-----------------------------------------------------------------------------
(* Re-rooting.                                                             *)

(* No edge of the tree was simulated oftener than the root. *)
LEMMA SimsBounded ==
  ASSUME NEW ns, NEW cs, NEW L, NEW root, NEW pos, Tree(ns, cs, L, root, pos),
         NEW total \in Nat, NEW rolled, Counted(ns, cs, L, total, rolled)
  PROVE  \A n \in L : \A i \in BlockOf(ns, n) : cs[i + 1].sim_count <= total
<1> DEFINE Bounded(n) == \A i \in BlockOf(ns, n) : cs[i + 1].sim_count <= total
           T == {n \in Nat : n \in L => Bounded(n)}
<1>1. Vectors(ns, cs) /\ Links(ns, cs, L) /\ Statuses(ns, L, pos)
  BY DEF Tree
<1>2. ASSUME NEW n \in L, is_terminal(ns[n + 1])
      PROVE  BlockOf(ns, n) = {}
  <2>1. ns[n + 1].first = ns[n + 1].second /\ n \in Indices(ns)
    BY <1>1, <1>2, LinkFacts DEF Statuses
  <2>2. ns[n + 1].first \in Nat
    BY <1>1, <2>1, VectorFacts
  <2> QED
    BY <2>1, <2>2 DEF BlockOf, ChildIndices
<1>3. ASSUME NEW n \in Nat, \A k \in 0..(n - 1) : k \in T
      PROVE  n \in T
  <2> SUFFICES ASSUME n \in L, ~is_terminal(ns[n + 1]), NEW i \in BlockOf(ns, n)
               PROVE  cs[i + 1].sim_count <= total
    BY <1>2
  <2> DEFINE sims == BlockSims(cs, ns[n + 1])
             c == cs[i + 1].sim_count
  <2>1. n \in Indices(ns) /\ i \in Indices(cs) /\ c \in Nat
    BY <1>1, LinkFacts, VectorFacts
  <2>2. sims \in Nat /\ c <= sims
    BY <1>1, <2>1, BlockSimsNat
  <2>3. sims <= total
    <3>1. CASE n = 0
      <4>1. ns[n + 1] = ns[1]
        BY <3>1
      <4> QED
        BY <1>1, <4>1, SimsEnough
    <3>2. CASE n # 0
      <4>1. PICK p \in L : \E j \in BlockOf(ns, p) : cs[j + 1].index = n
        BY <1>1, <3>2 DEF Links
      <4>2. PICK j \in BlockOf(ns, p) : cs[j + 1].index = n
        BY <4>1
      <4>3. p \in Nat /\ p < n /\ j \in Indices(cs) /\ cs[j + 1].sim_count \in Nat
        BY <1>1, <3>2, <4>2, LinkFacts, VectorFacts
      <4>4. cs[j + 1].sim_count <= total
        <5>1. p \in 0..(n - 1)
          BY <4>3
        <5>2. p \in T
          BY <1>3, <5>1
        <5> QED
          BY <4>2, <5>2
      <4>5. sims <= cs[j + 1].sim_count
        BY <1>1, <3>2, <4>2, SimsEnough
      <4> QED
        BY <2>2, <4>3, <4>4, <4>5
    <3> QED
      BY <3>1, <3>2
  <2> HIDE DEF sims, c
  <2>4. c <= total
    BY <2>1, <2>2, <2>3
  <2> QED
    BY <2>4 DEF c
<1> HIDE DEF T
<1>4. \A n \in Nat : n \in T
  BY <1>3, StrongInduction
<1> QED
  BY <1>1, <1>4, LinkFacts DEF T

(* The turns of the loop of Walk, as a function of their number. *)
WalkSteps(m, one, w, f) == f = [n \in 0..w |-> IF n = 0 THEN one ELSE WalkTurn(m, f[n - 1])]

(* That function exists. *)
LEMMA WalkStepsExist ==
  ASSUME NEW m, NEW one, NEW w \in Nat
  PROVE  \E f : WalkSteps(m, one, w, f)
<1> DEFINE T == {n \in Nat : \E f : WalkSteps(m, one, n, f)}
<1>1. 0 \in T
  <2> DEFINE f == [n \in 0..0 |-> one]
  <2>1. f = [n \in 0..0 |-> IF n = 0 THEN one ELSE WalkTurn(m, f[n - 1])]
    OBVIOUS
  <2> QED
    BY <2>1 DEF WalkSteps
<1>2. ASSUME NEW n \in Nat, n \in T PROVE n + 1 \in T
  <2>1. PICK f : WalkSteps(m, one, n, f)
    BY <1>2
  <2> DEFINE g == [k \in 0..(n + 1) |-> IF k = n + 1 THEN WalkTurn(m, f[n]) ELSE f[k]]
  <2>2. \A k \in 0..(n + 1) : g[k] = IF k = 0 THEN one ELSE WalkTurn(m, g[k - 1])
    <3> TAKE k \in 0..(n + 1)
    <3>1. CASE k = n + 1
      <4>1. k # 0 /\ k - 1 = n /\ n \in 0..(n + 1) /\ n # n + 1
        BY <3>1
      <4>2. g[n] = f[n] /\ g[k] = WalkTurn(m, f[n])
        BY <3>1, <4>1
      <4> QED
        BY <3>1, <4>1, <4>2
    <3>2. CASE k # n + 1
      <4>1. k \in 0..n /\ g[k] = f[k]
        BY <3>2
      <4>2. k # 0 => k - 1 \in 0..(n + 1) /\ k - 1 # n + 1 /\ g[k - 1] = f[k - 1]
        BY <4>1
      <4>3. f[k] = IF k = 0 THEN one ELSE WalkTurn(m, f[k - 1])
        BY <2>1, <4>1 DEF WalkSteps
      <4> QED
        BY <4>1, <4>2, <4>3
    <3> QED
      BY <3>1, <3>2
  <2>3. g = [k \in 0..(n + 1) |-> g[k]]
    OBVIOUS
  <2> HIDE DEF g
  <2>4. WalkSteps(m, one, n + 1, g)
    BY <2>2, <2>3 DEF WalkSteps
  <2> QED
    BY <2>4
<1> HIDE DEF T
<1>3. \A n \in Nat : n \in T
  BY <1>1, <1>2, SetInduction
<1> QED
  BY <1>3 DEF T

WalkStart == [i |-> 1, child |-> NoChild, first |-> Node(0).first, trials |-> <<>>]

(* What holds of the variable of a loop from its start on, and is kept by  *)
(* each of its turns, holds of the child the loop stops at.                *)
LEMMA WalkIs ==
  ASSUME NEW m, Len(children) \in Nat, NEW S, WalkStart \in S, \A w \in S : WalkTurn(m, w) \in S
  PROVE  \E w \in S : Walk(m) = IF w.i > Len(m) THEN w.child ELSE NoChild
<1> DEFINE top == 2 * Len(children) + 1
           f == CHOOSE g : WalkSteps(m, WalkStart, top, g)
<1>1. top \in Nat
  OBVIOUS
<1>2. Walk(m) = IF f[top].i > Len(m) THEN f[top].child ELSE NoChild
  BY DEF Walk, WalkSteps, WalkStart
<1> HIDE DEF top
<1>3. WalkSteps(m, WalkStart, top, f)
  <2>1. \E g : WalkSteps(m, WalkStart, top, g)
    BY <1>1, WalkStepsExist
  <2> QED
    BY <2>1
<1> HIDE DEF f
<1>4. \A n \in 0..top : f[n] = IF n = 0 THEN WalkStart ELSE WalkTurn(m, f[n - 1])
  BY <1>3 DEF WalkSteps
<1> DEFINE T == {n \in Nat : n <= top => f[n] \in S}
<1>5. 0 \in T
  <2>1. f[0] = WalkStart
    BY <1>1, <1>4
  <2> QED
    BY <2>1
<1>6. ASSUME NEW n \in Nat, n \in T PROVE n + 1 \in T
  <2> SUFFICES ASSUME n + 1 <= top PROVE f[n + 1] \in S
    OBVIOUS
  <2>1. n + 1 \in 0..top /\ n + 1 # 0 /\ (n + 1) - 1 = n /\ n <= top
    BY <1>1
  <2>2. f[n + 1] = WalkTurn(m, f[n])
    BY <1>4, <2>1
  <2> QED
    BY <1>6, <2>1, <2>2
<1> HIDE DEF T
<1>7. \A n \in Nat : n \in T
  BY <1>5, <1>6, SetInduction
<1>8. f[top] \in S
  BY <1>1, <1>7 DEF T
<1> QED
  BY <1>2, <1>8

(* A legal move leads to where it is said to end, a new turn. *)
LEMMA MoveLeads ==
  ASSUME NEW s \in State, NEW m \in Moves(s)
  PROVE  /\ m \in Seq(Action) /\ NoDots(m) /\ m # <<>>
         /\ AfterMove(s, m) \in Nodal /\ AfterMove(s, m) \in State
         /\ Leads(s, m, AfterMove(s, m))
<1>1. PICK r \in Reachable[s] : r.state \in Nodal /\ m = Written(r.actions)
  BY DEF Moves
<1> DEFINE q == CHOOSE r2 \in Reachable[s] : r2.state \in Nodal /\ Written(r2.actions) = m
<1>2. q \in Reachable[s] /\ q.state \in Nodal /\ Written(q.actions) = m
  BY <1>1
<1>3. AfterMove(s, m) = q.state
  BY DEF AfterMove
<1> HIDE DEF q
<1>4. q.actions = m
  BY <1>2, NodalWritten
<1>5. m \in Seq(Action) /\ m # <<>> /\ NoDots(m)
  <2>1. q.actions \in Seq(Action)
    BY <1>2, ReachableFacts DEF WellFormed, DotLast
  <2> QED
    BY <1>2, <2>1, MovesSeq, NoneWritten
<1>6. q.state \in State
  BY <1>2, ReachableFacts DEF WellFormed
<1> QED
  BY <1>2, <1>3, <1>4, <1>5, <1>6 DEF Leads

(* The text of a move up to its action i; what is read on from there.      *)
ReadTo(m, i) == SubSeq(m, 1, i - 1)
(* A semimove found in the rest of the move is read on, without dots. *)
LEMMA ReadOn ==
  ASSUME NEW m \in Seq(Action), NEW i \in 1..Len(m), NEW e \in Seq(Action),
         IsPrefix(e, SubSeq(m, i, Len(m)))
  PROVE  /\ i + Len(e) \in 1..(Len(m) + 1)
         /\ ReadTo(m, i) \o e = ReadTo(m, i + Len(e))
         /\ NoDots(m) => NoDots(e)
<1> DEFINE l == Len(m)
           k == Len(e)
           rest == SubSeq(m, i, l)
           x == ReadTo(m, i)
           y == ReadTo(m, i + k)
<1>1. l \in Nat /\ k \in Nat /\ i \in Nat /\ i <= l /\ 1 <= i
  OBVIOUS
<1>2. rest \in Seq(Action) /\ Len(rest) = (l - i) + 1 /\ \A j \in 1..((l - i) + 1) : rest[j] = m[(i + j) - 1]
  BY <1>1
<1>3. k <= Len(rest) /\ SubSeq(e, 1, k) = SubSeq(rest, 1, k)
  BY DEF IsPrefix
<1> HIDE DEF rest
<1>4. \A j \in 1..k : e[j] = rest[j]
  <2>1. \A j \in 1..k : SubSeq(e, 1, k)[j] = e[j]
    BY <1>1
  <2>2. \A j \in 1..k : SubSeq(rest, 1, k)[j] = rest[j]
    BY <1>1, <1>2, <1>3
  <2> QED
    BY <1>3, <2>1, <2>2
<1>5. \A j \in 1..k : e[j] = m[(i + j) - 1]
  <2>1. \A j \in 1..k : j \in 1..((l - i) + 1)
    BY <1>1, <1>2, <1>3
  <2> QED
    BY <1>2, <1>4, <2>1
<1>6. i + k \in 1..(l + 1)
  BY <1>1, <1>2, <1>3
<1>7. x \in Seq(Action) /\ Len(x) = i - 1 /\ \A j \in 1..(i - 1) : x[j] = m[j]
  BY <1>1 DEF ReadTo
<1>8. y \in Seq(Action) /\ Len(y) = (i + k) - 1 /\ \A j \in 1..((i + k) - 1) : y[j] = m[j]
  BY <1>1, <1>6 DEF ReadTo
<1> HIDE DEF x, y
<1>9. /\ x \o e \in Seq(Action) /\ Len(x \o e) = (i - 1) + k
      /\ \A j \in 1..(i - 1) : (x \o e)[j] = x[j]
      /\ \A j \in 1..k : (x \o e)[(i - 1) + j] = e[j]
  <2>1. /\ x \o e \in Seq(Action) /\ Len(x \o e) = Len(x) + Len(e)
        /\ \A j \in 1..Len(x) : (x \o e)[j] = x[j]
        /\ \A j \in 1..Len(e) : (x \o e)[Len(x) + j] = e[j]
    <3> HIDE DEF l, k, y
    <3>1. x \in Seq(Action) /\ e \in Seq(Action)
      BY <1>7
    <3> QED
      BY <3>1, JoinParts
  <2> QED
    BY <1>7, <2>1
<1> DEFINE z == x \o e
<1>10. /\ z \in Seq(Action) /\ Len(z) = (i - 1) + k
       /\ \A j \in 1..(i - 1) : z[j] = x[j]
       /\ \A j \in 1..k : z[(i - 1) + j] = e[j]
  BY <1>9
<1> HIDE DEF z
<1>11. \A j \in 1..((i + k) - 1) : z[j] = y[j]
  <2> TAKE j \in 1..((i + k) - 1)
  <2>1. CASE j <= i - 1
    <3>1. j \in 1..(i - 1)
      BY <1>1, <2>1
    <3> QED
      BY <1>7, <1>8, <1>10, <3>1
  <2>2. CASE ~(j <= i - 1)
    <3>1. j - (i - 1) \in 1..k /\ (i - 1) + (j - (i - 1)) = j /\ (i + (j - (i - 1))) - 1 = j
      BY <1>1, <2>2
    <3>2. z[j] = e[j - (i - 1)]
      BY <1>10, <3>1
    <3>3. e[j - (i - 1)] = m[j]
      BY <1>5, <3>1
    <3> QED
      BY <1>8, <3>2, <3>3
  <2> QED
    BY <2>1, <2>2
<1>12. Len(z) = Len(y)
  BY <1>1, <1>8, <1>10
<1>13. z = y
  BY <1>1, <1>8, <1>10, <1>11, <1>12
<1>14. NoDots(m) => NoDots(e)
  <2>1. \A j \in 1..k : (i + j) - 1 \in 1..l
    BY <1>1, <1>6
  <2> QED
    BY <1>5, <2>1 DEF NoDots
<1> QED
  BY <1>6, <1>13, <1>14 DEF z, x, y

(* A turn is not over where only the beginning of a move was made. *)
LEMMA NotOverYet ==
  ASSUME NEW s \in State, NEW m \in Moves(s), NEW i \in 1..Len(m), NEW x, NEW t, Leads(s, x, t),
         Written(x) = ReadTo(m, i)
  PROVE  t \notin Nodal
<1> SUFFICES ASSUME t \in Nodal PROVE FALSE
  OBVIOUS
<1>1. PICK r \in Reachable[s] : r.actions = x /\ r.state = t
  BY DEF Leads
<1>2. PICK q \in Reachable[s] : q.actions = m /\ q.state \in Nodal
  BY MoveLeads DEF Leads
<1>3. m \in Seq(Action) /\ Written(q.actions) = m
  BY <1>2, MoveLeads, WrittenNoDots
<1> DEFINE y == ReadTo(m, i)
<1>4. Len(m) \in Nat /\ i \in Nat /\ y \in Seq(Action) /\ Len(y) = i - 1 /\ \A j \in 1..(i - 1) : y[j] = m[j]
  BY <1>3 DEF ReadTo
<1>5. i - 1 < Len(m)
  BY <1>4
<1> HIDE DEF y
<1>6. SubSeq(y, 1, i - 1) = SubSeq(m, 1, i - 1)
  BY <1>3, <1>4, <1>5
<1>7. IsStrictPrefix(y, m)
  BY <1>4, <1>5, <1>6 DEF IsStrictPrefix, IsPrefix
<1>8. ~IsStrictPrefix(Written(r.actions), Written(q.actions))
  BY <1>1, SplitGameAssumption
<1> QED
  BY <1>1, <1>3, <1>7, <1>8 DEF y

(* Child c stands where the move m was read up to its action i; or no move *)
(* was read and there is no child.                                         *)
Reads(L, pos, m, c, i) ==
  /\ \E p \in L : c \in BlockOf(nodes, p)
  /\ Child(c).index # 0
  /\ \E x : /\ Leads(root_state, x, pos[Child(c).index])
            /\ Written(x) = ReadTo(m, i)
            /\ i > Len(m) => x = m
WalkStands(L, pos, m, c, i) ==
  \/ c = NoChild /\ (i = 1 \/ i > Len(m))
  \/ Reads(L, pos, m, c, i)

WalkRecord == [i : Nat, child : Int, first : Nat, trials : Seq([child : Int, tried : Nat])]
WalkHolds(L, pos, m, w) ==
  /\ w \in WalkRecord
  /\ w.i \in 1..(Len(m) + 1)
  /\ WalkStands(L, pos, m, w.child, w.i)
  /\ \A t \in 1..Len(w.trials) : WalkStands(L, pos, m, w.trials[t].child, w.i)

(* The node the walk searches next: one of the tree, and not the end of a  *)
(* turn.                                                                   *)
LEMMA WalkNode ==
  ASSUME NEW L, NEW pos, Tree(nodes, children, L, root_state, pos), NEW m \in Moves(root_state),
         NEW i \in 1..Len(m), NEW c, WalkStands(L, pos, m, c, i)
  PROVE  LET n == NodeBelow(c)
         IN /\ n \in L
            /\ \/ c = NoChild /\ n = 0 /\ i = 1
               \/ \E x : Leads(root_state, x, pos[n]) /\ Written(x) = ReadTo(m, i) /\ pos[n] \notin Nodal
<1>1. Vectors(nodes, children) /\ Links(nodes, children, L) /\ root_state \in State
  <2>1. root_state \in Nodal
    BY DEF Tree, Stands
  <2> QED
    BY <2>1, SplitGameAssumption DEF Tree
<1>2. Len(m) \in Nat /\ i \in Nat /\ ~(i > Len(m))
  BY <1>1, MoveLeads
<1>3. CASE c = NoChild
  <2>1. \A p \in L : NoChild \notin BlockOf(nodes, p)
    <3>1. \A p \in L : \A j \in BlockOf(nodes, p) : j \in Nat
      BY <1>1, LinkFacts, VectorFacts
    <3>2. NoChild \notin Nat
      BY DEF NoChild
    <3> QED
      BY <3>1, <3>2
  <2>2. i = 1
    BY <1>2, <1>3, <2>1 DEF WalkStands, Reads
  <2>3. NodeBelow(c) = 0 /\ 0 \in L
    BY <1>1, <1>3 DEF NodeBelow, Links
  <2> QED
    BY <1>3, <2>2, <2>3
<1>4. CASE c # NoChild
  <2>1. Reads(L, pos, m, c, i) /\ NodeBelow(c) = Child(c).index
    BY <1>4 DEF WalkStands, NodeBelow
  <2> DEFINE n == Child(c).index
  <2>2. PICK x : Leads(root_state, x, pos[n]) /\ Written(x) = ReadTo(m, i)
    BY <2>1 DEF Reads
  <2>3. n \in L
    BY <1>1, <2>1, LinkFacts DEF Reads, Child
  <2>4. pos[n] \notin Nodal
    BY <1>1, <2>2, NotOverYet
  <2> QED
    BY <2>1, <2>2, <2>3, <2>4
<1> QED
  BY <1>3, <1>4

(* A dot is passed or a semimove read: what was read so far is the move up *)
(* to where the walk goes on.                                              *)
LEMMA ReadMore ==
  ASSUME NEW m \in Seq(Action), NoDots(m), NEW i \in 1..Len(m), NEW e \in Seq(Action),
         IsDot(e) \/ IsPrefix(e, SubSeq(m, i, Len(m))),
         NEW j, j = IF IsDot(e) THEN i ELSE i + Len(e)
  PROVE  /\ j \in 1..(Len(m) + 1)
         /\ j > Len(m) => NoDots(e) /\ ReadTo(m, i) \o e = m
         /\ ReadTo(m, i) \o Written(e) = ReadTo(m, j)
<1>1. ReadTo(m, i) \in Seq(Action) /\ Len(m) \in Nat
  BY DEF ReadTo
<1>2. CASE IsDot(e)
  <2>1. j = i /\ ~(j > Len(m)) /\ j \in 1..(Len(m) + 1)
    BY <1>2
  <2>2. Written(e) = <<>>
    <3>1. Len(e) = 1 /\ e[1] \in Dot
      BY <1>2 DEF IsDot
    <3>2. e = Append(<<>>, e[1]) /\ e[1] \in Action /\ <<>> \in Seq(Action)
      <4>1. Len(e) = 1
        BY <3>1
      <4> QED
        BY <4>1
    <3>3. Written(Append(<<>>, e[1])) = IF e[1] \in Dot THEN Written(<<>>) ELSE Append(Written(<<>>), e[1])
      BY <3>2, WrittenAppend
    <3> QED
      BY <3>1, <3>2, <3>3, WrittenEmpty
  <2>3. ReadTo(m, i) \o <<>> = ReadTo(m, i)
    BY <1>1
  <2> QED
    BY <2>1, <2>2, <2>3
<1>3. CASE ~IsDot(e)
  <2>1. j = i + Len(e) /\ IsPrefix(e, SubSeq(m, i, Len(m)))
    BY <1>3
  <2>2. j \in 1..(Len(m) + 1) /\ ReadTo(m, i) \o e = ReadTo(m, j) /\ NoDots(e)
    BY <2>1, ReadOn
  <2>3. Written(e) = e
    BY <2>2, WrittenNoDots
  <2>4. j > Len(m) => ReadTo(m, j) = m
    <3> SUFFICES ASSUME j > Len(m) PROVE ReadTo(m, j) = m
      OBVIOUS
    <3>1. j - 1 = Len(m)
      <4>1. j \in 1..(Len(m) + 1)
        BY <2>2
      <4> QED
        BY <1>1, <4>1
    <3> QED
      BY <3>1 DEF ReadTo
  <2> QED
    BY <2>2, <2>3, <2>4
<1> QED
  BY <1>2, <1>3

(* A dot passed, or a semimove read, leads to a child that stands for what *)
(* was read; and the move is over only after a semimove was read.          *)
LEMMA WalkReads ==
  ASSUME NEW L, NEW pos, Tree(nodes, children, L, root_state, pos), NEW m \in Moves(root_state),
         NEW i \in 1..Len(m), NEW b, WalkStands(L, pos, m, b, i),
         NEW c \in BlockOf(nodes, NodeBelow(b)), Child(c).index # 0,
         IsDot(Child(c).semimove) \/ IsPrefix(Child(c).semimove, SubSeq(m, i, Len(m))),
         NEW j, j = IF IsDot(Child(c).semimove) THEN i ELSE i + Len(Child(c).semimove)
  PROVE  j \in 1..(Len(m) + 1) /\ Reads(L, pos, m, c, j)
<1> DEFINE n == NodeBelow(b)
           e == Child(c).semimove
           t == pos[Child(c).index]
<1>1. /\ n \in L
      /\ \/ b = NoChild /\ n = 0 /\ i = 1
         \/ \E x : Leads(root_state, x, pos[n]) /\ Written(x) = ReadTo(m, i) /\ pos[n] \notin Nodal
  BY WalkNode
<1>2. /\ Vectors(nodes, children) /\ Links(nodes, children, L)
      /\ Stands(nodes, children, L, root_state, pos) /\ root_state \in State
  <2>1. root_state \in Nodal
    BY DEF Tree, Stands
  <2> QED
    BY <2>1, SplitGameAssumption DEF Tree
<1>3. m \in Seq(Action) /\ NoDots(m) /\ Len(m) \in Nat
  BY <1>2, MoveLeads
<1>4. pos[n] \in State /\ Leads(pos[n], e, t)
  <2>1. pos[n] \in State
    BY <1>1, <1>2 DEF Stands
  <2>2. Fits(pos, pos[n], Child(c))
    BY <1>1, <1>2 DEF Stands, Child
  <2> QED
    BY <2>1, <2>2 DEF Fits
<1>5. e \in Seq(Action) /\ t \in State
  BY <1>4, LeadsFacts
<1> HIDE DEF n, e, t
<1>6. /\ j \in 1..(Len(m) + 1)
      /\ j > Len(m) => NoDots(e) /\ ReadTo(m, i) \o e = m
      /\ ReadTo(m, i) \o Written(e) = ReadTo(m, j)
  <2>1. IsDot(e) \/ IsPrefix(e, SubSeq(m, i, Len(m)))
    BY DEF e
  <2>2. j = IF IsDot(e) THEN i ELSE i + Len(e)
    BY DEF e
  <2> QED
    BY <1>3, <1>5, <2>1, <2>2, ReadMore
<1>7. \E x : Leads(root_state, x, t) /\ Written(x) = ReadTo(m, j) /\ (j > Len(m) => x = m)
  <2>1. CASE n = 0 /\ i = 1
    <3>1. pos[n] = root_state /\ ReadTo(m, i) = <<>>
      BY <1>2, <1>3, <2>1 DEF Stands, ReadTo
    <3>2. <<>> \o e = e /\ <<>> \o Written(e) = Written(e)
      BY <1>5, WrittenSeq
    <3> QED
      BY <1>4, <1>6, <3>1, <3>2
  <2>2. CASE \E x : Leads(root_state, x, pos[n]) /\ Written(x) = ReadTo(m, i) /\ pos[n] \notin Nodal
    <3>1. PICK x : Leads(root_state, x, pos[n]) /\ Written(x) = ReadTo(m, i)
      BY <2>2
    <3> DEFINE y == Written(x) \o e
    <3>2. Leads(root_state, y, t)
      BY <1>2, <1>4, <2>2, <3>1, LeadsJoin
    <3>3. Written(x) \in Seq(Action) /\ NoDots(Written(x))
      BY <1>2, <3>1, LeadsFacts
    <3>4. Written(y) = Written(x) \o Written(e)
      <4>1. Written(y) = Written(Written(x)) \o Written(e)
        BY <1>5, <3>3, WrittenConcat
      <4> QED
        BY <3>3, <4>1, WrittenNoDots
    <3>5. Written(y) = ReadTo(m, j) /\ (j > Len(m) => y = m)
      BY <1>6, <3>1, <3>4
    <3> QED
      BY <3>2, <3>5
  <2> QED
    BY <1>1, <2>1, <2>2 DEF n
<1>8. Reads(L, pos, m, c, j)
  BY <1>1, <1>7 DEF Reads, n, t
<1> QED
  BY <1>6, <1>8

(* The walk may always be given up. *)
LEMMA GivenUpHolds ==
  ASSUME NEW L, NEW pos, NEW m \in Seq(Action)
  PROVE  WalkHolds(L, pos, m, GivenUp(m))
<1> DEFINE g == GivenUp(m)
<1>1. g.i = Len(m) + 1 /\ g.child = NoChild /\ g.trials = <<>> /\ g \in WalkRecord
  BY DEF GivenUp, WalkRecord, NoChild
<1>2. Len(m) \in Nat /\ Len(m) + 1 > Len(m) /\ Len(m) + 1 \in 1..(Len(m) + 1)
  OBVIOUS
<1>3. Len(<<>>) = 0
  OBVIOUS
<1> QED
  BY <1>1, <1>2, <1>3 DEF WalkHolds, WalkStands

(* A turn of the loop: on to a child found, back to where a dot was passed,*)
(* or over.                                                                *)
Goes(m, w, c, trials, j) ==
  /\ c = Min(Hits(m, w))
  /\ trials = IF Hits(m, w) = {} THEN w.trials
              ELSE IF IsDot(Child(c).semimove) THEN Append(w.trials, [child |-> w.child, tried |-> c]) ELSE <<>>
  /\ j = IF Hits(m, w) = {} \/ IsDot(Child(c).semimove) THEN w.i ELSE w.i + Len(Child(c).semimove)
(* What a turn of the loop does is one of these. *)
LEMMA WalkTurnCases ==
  ASSUME NEW m, NEW w
  PROVE  \E c, trials, j :
           /\ Goes(m, w, c, trials, j)
           /\ \/ w.i > Len(m) /\ WalkTurn(m, w) = w
              \/ ~(w.i > Len(m)) /\ WalkTurn(m, w) = GivenUp(m)
              \/ /\ ~(w.i > Len(m))
                 /\ Hits(m, w) # {} /\ Child(c).index # 0
                 /\ WalkTurn(m, w) = [i |-> j, child |-> c, first |-> Node(Child(c).index).first, trials |-> trials]
              \/ /\ ~(w.i > Len(m))
                 /\ trials # <<>>
                 /\ WalkTurn(m, w) = [i |-> j, child |-> Last(trials).child, first |-> Last(trials).tried + 1,
                                      trials |-> Front(trials)]
<1> DEFINE c == Min(Hits(m, w))
           dot == IsDot(Child(c).semimove)
           trials == IF Hits(m, w) = {} THEN w.trials
                     ELSE IF dot THEN Append(w.trials, [child |-> w.child, tried |-> c]) ELSE <<>>
           j == IF Hits(m, w) = {} \/ dot THEN w.i ELSE w.i + Len(Child(c).semimove)
<1>1. Goes(m, w, c, trials, j)
  BY DEF Goes
<1>2. WalkTurn(m, w) =
        IF w.i > Len(m) THEN w
        ELSE IF ~is_expanded(Node(NodeBelow(w.child))) THEN GivenUp(m)
        ELSE IF Hits(m, w) # {} /\ Child(c).index # 0
             THEN [i |-> j, child |-> c, first |-> Node(Child(c).index).first, trials |-> trials]
        ELSE IF trials # <<>>
             THEN [i |-> j, child |-> Last(trials).child, first |-> Last(trials).tried + 1,
                   trials |-> Front(trials)]
        ELSE GivenUp(m)
  BY DEF WalkTurn
<1> HIDE DEF c, trials, j
<1> QED
  BY <1>1, <1>2

(* Wherever a turn of the loop goes, the move was read to there. *)
LEMMA WalkTurnHolds ==
  ASSUME NEW L, NEW pos, Tree(nodes, children, L, root_state, pos), NEW m \in Moves(root_state),
         NEW w, WalkHolds(L, pos, m, w)
  PROVE  WalkHolds(L, pos, m, WalkTurn(m, w))
<1> DEFINE n == NodeBelow(w.child)
           Trial(c) == [child |-> w.child, tried |-> c]
<1>1. Vectors(nodes, children) /\ Links(nodes, children, L) /\ root_state \in State
  <2>1. root_state \in Nodal
    BY DEF Tree, Stands
  <2> QED
    BY <2>1, SplitGameAssumption DEF Tree
<1>2. m \in Seq(Action) /\ Len(m) \in Nat
  BY <1>1, MoveLeads
<1>3. PICK c, trials, j :
           /\ Goes(m, w, c, trials, j)
           /\ \/ w.i > Len(m) /\ WalkTurn(m, w) = w
              \/ ~(w.i > Len(m)) /\ WalkTurn(m, w) = GivenUp(m)
              \/ /\ ~(w.i > Len(m))
                 /\ Hits(m, w) # {} /\ Child(c).index # 0
                 /\ WalkTurn(m, w) = [i |-> j, child |-> c, first |-> Node(Child(c).index).first, trials |-> trials]
              \/ /\ ~(w.i > Len(m))
                 /\ trials # <<>>
                 /\ WalkTurn(m, w) = [i |-> j, child |-> Last(trials).child, first |-> Last(trials).tried + 1,
                                      trials |-> Front(trials)]
  BY WalkTurnCases
<1>4. CASE w.i > Len(m) \/ WalkTurn(m, w) = GivenUp(m)
  BY <1>2, <1>3, <1>4, GivenUpHolds
<1>5. CASE ~(w.i > Len(m)) /\ WalkTurn(m, w) # GivenUp(m)
  <2>1. /\ w.i \in 1..Len(m) /\ w.child \in Int /\ WalkStands(L, pos, m, w.child, w.i)
        /\ w.trials \in Seq([child : Int, tried : Nat])
        /\ \A t \in 1..Len(w.trials) : WalkStands(L, pos, m, w.trials[t].child, w.i)
    BY <1>2, <1>5 DEF WalkHolds, WalkRecord
  <2>2. n \in L
    BY <2>1, WalkNode
  <2>3. Hits(m, w) # {} =>
          /\ c \in BlockOf(nodes, n) /\ c \in Indices(children) /\ c \in Nat
          /\ IsDot(Child(c).semimove) \/ IsPrefix(Child(c).semimove, SubSeq(m, w.i, Len(m)))
    <3> SUFFICES ASSUME Hits(m, w) # {}
                 PROVE  /\ c \in BlockOf(nodes, n) /\ c \in Indices(children) /\ c \in Nat
                        /\ IsDot(Child(c).semimove) \/ IsPrefix(Child(c).semimove, SubSeq(m, w.i, Len(m)))
      OBVIOUS
    <3>1. \A x \in BlockOf(nodes, n) : x \in Indices(children) /\ x \in Nat
      BY <1>1, <2>2, LinkFacts, VectorFacts
    <3>2. /\ Hits(m, w) \subseteq BlockOf(nodes, n)
          /\ \A x \in Hits(m, w) : IsDot(Child(x).semimove) \/ IsPrefix(Child(x).semimove, SubSeq(m, w.i, Len(m)))
      BY DEF Hits, BlockOf, Node
    <3>3. c \in Hits(m, w)
      <4>1. Hits(m, w) \subseteq Nat
        BY <3>1, <3>2
      <4> QED
        BY <1>3, <4>1, MinIn DEF Goes
    <3> QED
      BY <3>1, <3>2, <3>3
  <2>4. /\ trials \in Seq([child : Int, tried : Nat])
        /\ trials # <<>> => j = w.i
        /\ \A t \in 1..Len(trials) : WalkStands(L, pos, m, trials[t].child, w.i)
    <3>1. CASE Hits(m, w) = {}
      BY <1>3, <2>1, <3>1 DEF Goes
    <3>2. CASE Hits(m, w) # {} /\ IsDot(Child(c).semimove)
      <4>1. trials = Append(w.trials, Trial(c)) /\ j = w.i
        BY <1>3, <3>2 DEF Goes
      <4>2. Trial(c) \in [child : Int, tried : Nat] /\ Trial(c).child = w.child
        BY <2>1, <2>3, <3>2
      <4> HIDE DEF One
      <4>3. /\ trials \in Seq([child : Int, tried : Nat]) /\ Len(trials) = Len(w.trials) + 1
            /\ Len(w.trials) \in Nat
            /\ trials[Len(w.trials) + 1] = Trial(c) /\ \A t \in 1..Len(w.trials) : trials[t] = w.trials[t]
        BY <2>1, <4>1, <4>2
      <4>4. \A t \in 1..Len(trials) : WalkStands(L, pos, m, trials[t].child, w.i)
        <5> TAKE t \in 1..Len(trials)
        <5>1. t \in 1..Len(w.trials) \/ t = Len(w.trials) + 1
          BY <4>3
        <5> QED
          BY <2>1, <4>2, <4>3, <5>1
      <4> QED
        BY <4>1, <4>3, <4>4
    <3>3. CASE Hits(m, w) # {} /\ ~IsDot(Child(c).semimove)
      <4>1. trials = <<>>
        BY <1>3, <3>3 DEF Goes
      <4>2. Len(<<>>) = 0 /\ <<>> \in Seq([child : Int, tried : Nat])
        OBVIOUS
      <4> QED
        BY <4>1, <4>2
    <3> QED
      BY <3>1, <3>2, <3>3
  <2>5. CASE /\ Hits(m, w) # {} /\ Child(c).index # 0
             /\ WalkTurn(m, w) = [i |-> j, child |-> c, first |-> Node(Child(c).index).first, trials |-> trials]
    <3> DEFINE v == [i |-> j, child |-> c, first |-> Node(Child(c).index).first, trials |-> trials]
    <3>1. j = IF IsDot(Child(c).semimove) THEN w.i ELSE w.i + Len(Child(c).semimove)
      BY <1>3, <2>5 DEF Goes
    <3>2. j \in 1..(Len(m) + 1) /\ Reads(L, pos, m, c, j)
      BY <2>1, <2>3, <2>5, <3>1, WalkReads
    <3>3. Node(Child(c).index).first \in Nat
      <4>1. Child(c).index \in Indices(nodes)
        BY <1>1, <2>3, <2>5, VectorFacts DEF Child
      <4> QED
        BY <1>1, <4>1, VectorFacts DEF Node
    <3>4. v \in WalkRecord /\ v.i = j /\ v.child = c /\ v.trials = trials
      BY <2>3, <2>4, <2>5, <3>2, <3>3 DEF WalkRecord
    <3>5. \A t \in 1..Len(trials) : WalkStands(L, pos, m, trials[t].child, j)
      <4> TAKE t \in 1..Len(trials)
      <4>1. trials # <<>>
        BY <2>4
      <4> QED
        BY <2>4, <4>1
    <3> HIDE DEF v
    <3>6. WalkHolds(L, pos, m, v)
      BY <3>2, <3>4, <3>5 DEF WalkHolds, WalkStands
    <3> QED
      BY <2>5, <3>6 DEF v
  <2>6. CASE /\ trials # <<>>
             /\ WalkTurn(m, w) = [i |-> j, child |-> Last(trials).child, first |-> Last(trials).tried + 1,
                                  trials |-> Front(trials)]
    <3> DEFINE v == [i |-> j, child |-> Last(trials).child, first |-> Last(trials).tried + 1, trials |-> Front(trials)]
    <3>1. /\ Len(trials) \in Nat \ {0}
          /\ Front(trials) \in Seq([child : Int, tried : Nat]) /\ Len(Front(trials)) = Len(trials) - 1
          /\ Last(trials) \in [child : Int, tried : Nat] /\ Last(trials) = trials[Len(trials)]
          /\ \A t \in 1..(Len(trials) - 1) : Front(trials)[t] = trials[t]
      BY <2>4, <2>6, FrontIs
    <3>2. j = w.i
      BY <2>4, <2>6
    <3>3. v \in WalkRecord /\ v.i = w.i /\ v.child = trials[Len(trials)].child /\ v.trials = Front(trials)
      BY <2>1, <3>1, <3>2 DEF WalkRecord
    <3>4. Len(trials) \in 1..Len(trials) /\ \A t \in 1..(Len(trials) - 1) : t \in 1..Len(trials)
      BY <3>1
    <3>5. WalkStands(L, pos, m, v.child, w.i)
      BY <2>4, <3>3, <3>4
    <3>6. \A t \in 1..Len(Front(trials)) : WalkStands(L, pos, m, Front(trials)[t].child, w.i)
      BY <2>4, <3>1, <3>4
    <3> HIDE DEF v
    <3>7. w.i \in 1..(Len(m) + 1)
      BY <1>2, <2>1
    <3>8. WalkHolds(L, pos, m, v)
      BY <3>3, <3>5, <3>6, <3>7 DEF WalkHolds
    <3> QED
      BY <2>6, <3>8 DEF v
  <2> QED
    BY <1>3, <1>5, <2>5, <2>6
<1> QED
  BY <1>4, <1>5

(* Walk finds no child, or one of the tree that stands for the state after *)
(* the move.                                                               *)
LEMMA WalkFinds ==
  ASSUME NEW L, NEW pos, Tree(nodes, children, L, root_state, pos), NEW m \in Moves(root_state)
  PROVE  LET k == Walk(m)
         IN \/ k = NoChild
            \/ /\ \E p \in L : k \in BlockOf(nodes, p)
               /\ Child(k).index # 0
               /\ pos[Child(k).index] = AfterMove(root_state, m)
<1> DEFINE S == {w \in WalkRecord : WalkHolds(L, pos, m, w)}
<1>1. Vectors(nodes, children) /\ root_state \in State
  <2>1. root_state \in Nodal
    BY DEF Tree, Stands
  <2> QED
    BY <2>1, SplitGameAssumption DEF Tree
<1>2. m \in Seq(Action) /\ Len(m) \in Nat /\ Leads(root_state, m, AfterMove(root_state, m))
  BY <1>1, MoveLeads
<1>3. WalkStart \in S
  <2>1. Node(0).first \in Nat
    BY <1>1, VectorFacts DEF Node, Vectors
  <2>2. WalkStart \in WalkRecord /\ WalkStart.i = 1 /\ WalkStart.child = NoChild /\ WalkStart.trials = <<>>
    BY <2>1 DEF WalkStart, WalkRecord, NoChild
  <2>3. Len(<<>>) = 0 /\ 1 \in 1..(Len(m) + 1)
    BY <1>2
  <2> QED
    BY <2>2, <2>3 DEF WalkHolds, WalkStands
<1>4. \A w \in S : WalkTurn(m, w) \in S
  BY WalkTurnHolds DEF WalkHolds
<1> HIDE DEF S
<1>5. PICK w \in S : Walk(m) = IF w.i > Len(m) THEN w.child ELSE NoChild
  <2>1. Len(children) \in Nat
    BY <1>1, VectorFacts
  <2> QED
    BY <1>3, <1>4, <2>1, WalkIs
<1>6. w.i > Len(m) => WalkStands(L, pos, m, w.child, w.i)
  BY <1>5 DEF S, WalkHolds
<1>7. CASE w.i > Len(m) /\ Reads(L, pos, m, w.child, w.i)
  <2>1. PICK x : Leads(root_state, x, pos[Child(w.child).index]) /\ x = m
    BY <1>7 DEF Reads
  <2>2. pos[Child(w.child).index] = AfterMove(root_state, m)
    BY <1>1, <1>2, <2>1, LeadsFacts
  <2> QED
    BY <1>5, <1>7, <2>2 DEF Reads
<1> QED
  BY <1>5, <1>6, <1>7 DEF WalkStands

(* Between simulations the invariant is about the tree alone. *)
LEMMA AtIdle ==
  ASSUME NEW rolled, NEW L, NEW pos, Inv(rolled, L, pos), pc = "idle"
  PROVE  /\ Tree(nodes, children, L, root_state, pos)
         /\ Vectors(nodes, children) /\ Links(nodes, children, L)
         /\ Counted(nodes, children, L, root_sim_count, rolled)
         /\ Touched(nodes, children, L, Nobody)
         /\ root_sim_count \in 0..MaxSims /\ root_sim_count \in Nat
         /\ root_state \in Nodal /\ root_state \in State
         /\ children_stack = <<>> /\ AtRest
<1>1. /\ Tree(nodes, children, L, root_state, pos)
      /\ Counted(nodes, children, L, root_sim_count, rolled)
      /\ Touched(nodes, children, L, Nobody)
      /\ root_sim_count \in 0..MaxSims
      /\ children_stack = <<>> /\ AtRest
  BY DEF Inv, Idling, Returning, Descending
<1>2. root_state \in Nodal /\ Vectors(nodes, children) /\ Links(nodes, children, L)
  BY <1>1 DEF Tree, Stands
<1> QED
  BY <1>1, <1>2, SplitGameAssumption

(* A sound tree between simulations satisfies the invariant. *)
LEMMA SoundIsInv ==
  ASSUME NEW rolled, NEW ns, NEW cs, NEW s, NEW total, Sound(ns, cs, s, total, rolled), total \in 0..MaxSims,
         nodes' = ns, children' = cs, root_state' = s, root_sim_count' = total,
         pc' = "idle", children_stack' = <<>>, node_index' = 0, node_sim_count' = 0, state' = s
  PROVE  IInv(rolled)'
<1>1. PICK L, pos : /\ Tree(ns, cs, L, s, pos)
                    /\ Counted(ns, cs, L, total, rolled)
                    /\ Touched(ns, cs, L, Nobody)
  BY DEF Sound
<1>2. Inv(rolled, L, pos)'
  BY <1>1 DEF Inv, Idling, AtRest
<1> QED
  BY <1>2 DEF IInv

(* Without a move to read the walk stays where it is. *)
LEMMA WalkNowhere ==
  ASSUME Len(children) \in Nat
  PROVE  Walk(<<>>) = NoChild
<1>1. WalkStart.i = 1 /\ WalkStart.child = NoChild /\ Len(<<>>) = 0 /\ 1 > 0
  BY DEF WalkStart
<1>2. WalkTurn(<<>>, WalkStart) = WalkStart
  BY <1>1 DEF WalkTurn
<1> DEFINE S == {WalkStart}
<1>3. WalkStart \in S /\ \A w \in S : WalkTurn(<<>>, w) \in S
  BY <1>2
<1> HIDE DEF S
<1>4. PICK w \in S : Walk(<<>>) = IF w.i > Len(<<>>) THEN w.child ELSE NoChild
  BY <1>3, WalkIs
<1>5. w = WalkStart
  BY <1>4 DEF S
<1> QED
  BY <1>1, <1>4, <1>5

(* Re-rooting keeps the invariant, for a legal move and for an empty one. *)
LEMMA ReparentStep ==
  ASSUME NEW rolled, NEW L, NEW pos, Inv(rolled, L, pos), pc = "idle",
         NEW m \in Moves(root_state) \cup {<<>>}, ReparentAlongMove(m)
  PROVE  IInv(rolled)'
<1> DEFINE k == Walk(m)
           s == StateAfter(m)
<1>1. /\ Tree(nodes, children, L, root_state, pos)
      /\ Vectors(nodes, children) /\ Links(nodes, children, L)
      /\ Counted(nodes, children, L, root_sim_count, rolled)
      /\ Touched(nodes, children, L, Nobody)
      /\ root_sim_count \in 0..MaxSims /\ root_sim_count \in Nat
      /\ root_state \in Nodal /\ root_state \in State
      /\ children_stack = <<>> /\ AtRest
  BY AtIdle
<1>2. s \in Nodal /\ s \in State
  <2>1. CASE m = <<>>
    BY <1>1, <2>1 DEF StateAfter
  <2>2. CASE m # <<>>
    <3>1. m \in Moves(root_state) /\ s = AfterMove(root_state, m)
      BY <2>2 DEF StateAfter
    <3> QED
      BY <1>1, <3>1, MoveLeads
  <2> QED
    BY <2>1, <2>2
<1>3. k # NoChild => /\ \E p \in L : k \in BlockOf(nodes, p)
                     /\ Child(k).index # 0
                     /\ pos[Child(k).index] = s
  <2>1. CASE m = <<>>
    BY <1>1, <2>1, VectorFacts, WalkNowhere
  <2>2. CASE m # <<>>
    <3>1. m \in Moves(root_state) /\ s = AfterMove(root_state, m)
      BY <2>2 DEF StateAfter
    <3> QED
      BY <1>1, <3>1, WalkFinds
  <2> QED
    BY <2>1, <2>2
<1> DEFINE t == IF NodeBelow(k) = 0 THEN FreshTree(s) ELSE Rerooted(k, s)
           total == IF NodeBelow(k) = 0 THEN 0 ELSE Child(k).sim_count
<1>4. /\ nodes' = t.nodes /\ children' = t.children /\ root_state' = s /\ state' = s
      /\ root_sim_count' = total
      /\ pc' = "idle" /\ children_stack' = <<>> /\ node_index' = 0 /\ node_sim_count' = 0
  BY <1>1 DEF ReparentAlongMove, AtRest
<1>5. Sound(t.nodes, t.children, s, total, rolled) /\ total \in 0..MaxSims
  <2>1. CASE NodeBelow(k) = 0
    <3>1. 0 \in 0..MaxSims
      BY SemisplitAssumption
    <3>2. t = FreshTree(s) /\ total = 0
      BY <2>1
    <3> QED
      BY <1>2, <3>1, <3>2, FreshTreeIs
  <2>2. CASE NodeBelow(k) # 0
    <3>1. k # NoChild
      BY <2>2 DEF NodeBelow
    <3>2. PICK p \in L : k \in BlockOf(nodes, p)
      BY <1>3, <3>1
    <3>3. Child(k).index # 0 /\ s = pos[Child(k).index]
      BY <1>3, <3>1
    <3>4. t = Rerooted(k, s) /\ total = Child(k).sim_count
      BY <2>2
    <3> HIDE DEF k, s, t, total
    <3>5. Sound(Rerooted(k, s).nodes, Rerooted(k, s).children, s, Child(k).sim_count, rolled)
      BY <1>1, <1>2, <3>2, <3>3, RerootedSound
    <3>6. Child(k).sim_count \in Nat /\ Child(k).sim_count <= root_sim_count
      <4>1. Child(k).sim_count <= root_sim_count
        BY <1>1, <3>2, SimsBounded DEF Child
      <4>2. Child(k).sim_count \in Nat
        BY <1>1, <3>2, LinkFacts, VectorFacts DEF Child
      <4> QED
        BY <4>1, <4>2
    <3>7. Child(k).sim_count \in 0..MaxSims
      <4> DEFINE c == Child(k).sim_count
      <4>1. c \in Nat /\ c <= root_sim_count
        BY <3>6
      <4> HIDE DEF c
      <4>2. c \in 0..MaxSims
        BY <1>1, <4>1, SemisplitAssumption
      <4> QED
        BY <4>2 DEF c
    <3> QED
      BY <3>4, <3>5, <3>7
  <2> QED
    BY <2>1, <2>2
<1> HIDE DEF t, total, s
<1> QED
  BY <1>4, <1>5, SoundIsInv

-----------------------------------------------------------------------------
(* Choosing a move.                                                        *)

(* The states along some edges, and that AfterEdges is the last of them.   *)
EdgesStep(s, es, f) == f = [k \in 0..Len(es) |-> IF k = 0 THEN s ELSE apply(f[k - 1], es[k])]
EdgesTrace(s, es, u) ==
  Len(es) \in Nat /\ u[0] = s /\ \A k \in 1..Len(es) : u[k] = apply(u[k - 1], es[k])
(* AfterEdges is the last of these states. *)
LEMMA AfterEdgesIs ==
  ASSUME NEW s, NEW es, NEW u, EdgesTrace(s, es, u)
  PROVE  AfterEdges(s, es) = u[Len(es)]
<1> USE DEF EdgesTrace
<1> DEFINE v == [k \in 0..Len(es) |-> u[k]]
           f == CHOOSE g : EdgesStep(s, es, g)
<1>1. EdgesStep(s, es, v)
  <2>1. \A k \in 0..Len(es) : v[k] = IF k = 0 THEN s ELSE apply(v[k - 1], es[k])
    <3> TAKE k \in 0..Len(es)
    <3>1. CASE k = 0
      BY <3>1
    <3>2. CASE k # 0
      <4>1. k \in 1..Len(es) /\ k - 1 \in 0..Len(es)
        BY <3>2
      <4> QED
        BY <3>2, <4>1
    <3> QED
      BY <3>1, <3>2
  <2> QED
    BY <2>1 DEF EdgesStep
<1> HIDE DEF v
<1>2. EdgesStep(s, es, f)
  BY <1>1
<1>3. AfterEdges(s, es) = f[Len(es)]
  BY DEF AfterEdges, EdgesStep
<1> HIDE DEF f
<1>4. \A k \in 0..Len(es) : f[k] = IF k = 0 THEN s ELSE apply(f[k - 1], es[k])
  BY <1>2 DEF EdgesStep
<1> DEFINE T == {n \in Nat : n <= Len(es) => f[n] = u[n]}
<1>5. 0 \in T
  <2>1. 0 \in 0..Len(es)
    OBVIOUS
  <2> QED
    BY <1>4, <2>1
<1>6. ASSUME NEW n \in Nat, n \in T PROVE n + 1 \in T
  <2> SUFFICES ASSUME n + 1 <= Len(es) PROVE f[n + 1] = u[n + 1]
    OBVIOUS
  <2>1. n + 1 \in 0..Len(es) /\ n + 1 \in 1..Len(es) /\ n + 1 # 0 /\ (n + 1) - 1 = n /\ n <= Len(es)
    OBVIOUS
  <2>2. f[n] = u[n]
    BY <1>6, <2>1
  <2>3. f[n + 1] = apply(f[n], es[n + 1])
    BY <1>4, <2>1
  <2>4. u[n + 1] = apply(u[n], es[n + 1])
    BY <2>1
  <2> QED
    BY <2>2, <2>3, <2>4
<1> HIDE DEF T
<1>7. \A n \in Nat : n \in T
  BY <1>5, <1>6, SetInduction
<1>8. f[Len(es)] = u[Len(es)]
  BY <1>7 DEF T
<1> QED
  BY <1>3, <1>8

(* Edges es lead from s to t within a turn; of actions, so do they without *)
(* the dots, unless there is nothing else.                                 *)
SavedEnds(s, es, t) ==
  /\ es \in Seq(Seq(Action))
  /\ t \in State
  /\ \E u : EdgesTrace(s, es, u) /\ u[Len(es)] = t
  /\ \E x : Leads(s, x, t) /\ Written(x) = Text(es)
  /\ GETTER = "A" => Text(es) = <<>> \/ \E v : Leads(s, Text(es), v) /\ Last(Text(es)) \notin Dot

(* One edge: a dot or not. *)
EdgeWritten(e) == Written(e) = <<>> \/ (Written(e) = e /\ Last(e) \notin Dot)
(* Of a single action all or nothing is written. *)
LEMMA OneActionWritten ==
  ASSUME NEW s \in State, NEW e, NEW t, Leads(s, e, t), Len(e) = 1
  PROVE  EdgeWritten(e)
<1>1. DotLast(e) /\ e \in Seq(Action)
  BY LeadsFacts
<1>2. Written(e) = IF Last(e) \in Dot THEN Front(e) ELSE e
  BY <1>1, WrittenDotLast
<1>3. e # <<>> /\ Front(e) \in Seq(Action) /\ Len(Front(e)) = Len(e) - 1
  BY <1>1, FrontIs DEF DotLast
<1>4. Front(e) = <<>>
  BY <1>3
<1> QED
  BY <1>2, <1>4 DEF EdgeWritten

(* One edge goes to where its semimove leads. *)
LEMMA LastEdge ==
  ASSUME NEW s \in State, NEW e, NEW t, Leads(s, e, t), GETTER = "A" => Len(e) = 1
  PROVE  SavedEnds(s, <<e>>, t)
<1>1. e \in Seq(Action) /\ t \in State /\ apply(s, e) = t
  BY LeadsFacts
<1>2. Text(<<e>>) = Written(e)
  BY <1>1, TextOne
<1>3. <<e>> \in Seq(Seq(Action)) /\ Len(<<e>>) = 1 /\ <<e>>[1] = e
  BY <1>1
<1> DEFINE u == [k \in 0..1 |-> IF k = 0 THEN s ELSE t]
<1>4. u[0] = s /\ u[1] = t
  OBVIOUS
<1> HIDE DEF u
<1>5. EdgesTrace(s, <<e>>, u)
  <2>1. \A k \in 1..1 : k = 1 /\ k - 1 = 0
    OBVIOUS
  <2> QED
    BY <1>1, <1>3, <1>4, <2>1 DEF EdgesTrace
<1>6. GETTER = "A" => Written(e) = <<>> \/ (Written(e) = e /\ Last(e) \notin Dot)
  BY OneActionWritten DEF EdgeWritten
<1> QED
  BY <1>1, <1>2, <1>3, <1>4, <1>5, <1>6 DEF SavedEnds

(* An edge in front of others joins what they lead through. *)
LEMMA MoreEdges ==
  ASSUME NEW s \in State, NEW e, NEW r, Leads(s, e, r), r \notin Nodal, GETTER = "A" => Len(e) = 1,
         NEW es, NEW t, SavedEnds(r, es, t)
  PROVE  SavedEnds(s, <<e>> \o es, t)
<1> DEFINE E == <<e>> \o es
           w == Len(es)
<1>1. e \in Seq(Action) /\ Written(e) \in Seq(Action) /\ NoDots(Written(e)) /\ r \in State /\ apply(s, e) = r
  BY LeadsFacts
<1>2. es \in Seq(Seq(Action)) /\ w \in Nat /\ t \in State
  BY DEF SavedEnds
<1>3. E \in Seq(Seq(Action)) /\ Len(E) = w + 1 /\ E[1] = e /\ \A k \in 1..w : E[1 + k] = es[k]
  <2> DEFINE a == <<e>>
  <2>1. a \in Seq(Seq(Action)) /\ Len(a) = 1 /\ a[1] = e
    BY <1>1
  <2> HIDE DEF a, w
  <2>2. /\ a \o es \in Seq(Seq(Action)) /\ Len(a \o es) = Len(a) + Len(es)
        /\ \A k \in 1..Len(a) : (a \o es)[k] = a[k]
        /\ \A k \in 1..Len(es) : (a \o es)[Len(a) + k] = es[k]
    <3> DEFINE B == Seq(Action)
    <3>1. a \in Seq(B) /\ es \in Seq(B)
      BY <1>2, <2>1
    <3> HIDE DEF B
    <3>2. /\ a \o es \in Seq(B) /\ Len(a \o es) = Len(a) + Len(es)
          /\ \A k \in 1..Len(a) : (a \o es)[k] = a[k]
          /\ \A k \in 1..Len(es) : (a \o es)[Len(a) + k] = es[k]
      BY <3>1, JoinParts
    <3> QED
      BY <3>2 DEF B
  <2>3. 1 \in 1..1 /\ 1 + w = w + 1
    BY <1>2
  <2> QED
    BY <2>1, <2>2, <2>3 DEF a, w
<1>4. Text(E) = Written(e) \o Text(es)
  <2>1. <<e>> \in Seq(Seq(Action))
    BY <1>1
  <2> QED
    BY <1>1, <1>2, <2>1, TextConcat, TextOne
<1> HIDE DEF E
<1>5. \E v : EdgesTrace(s, E, v) /\ v[Len(E)] = t
  <2>1. PICK u : EdgesTrace(r, es, u) /\ u[w] = t
    BY DEF SavedEnds
  <2> DEFINE v == [k \in 0..(w + 1) |-> IF k = 0 THEN s ELSE u[k - 1]]
  <2>2. v[0] = s /\ \A k \in 1..(w + 1) : v[k] = u[k - 1]
    BY <1>2
  <2>3. v[w + 1] = t
    BY <1>2, <2>1
  <2> HIDE DEF v
  <2>4. \A k \in 1..(w + 1) : v[k] = apply(v[k - 1], E[k])
    <3> TAKE k \in 1..(w + 1)
    <3>1. CASE k = 1
      <4>1. 1 - 1 = 0 /\ 1 \in 1..(w + 1)
        BY <1>2
      <4>2. v[1] = u[0]
        BY <2>2, <4>1
      <4> QED
        BY <1>1, <1>3, <2>1, <2>2, <3>1, <4>1, <4>2 DEF EdgesTrace
    <3>2. CASE k # 1
      <4> DEFINE j == k - 1
      <4>1. j \in 1..w /\ j \in 1..(w + 1) /\ 1 + j = k
        BY <1>2, <3>2
      <4>2. u[j] = apply(u[j - 1], es[j])
        BY <2>1, <4>1 DEF EdgesTrace
      <4>3. v[k] = u[j] /\ v[j] = u[j - 1]
        BY <2>2, <4>1
      <4>4. E[k] = es[j]
        BY <1>3, <4>1
      <4> QED
        BY <4>2, <4>3, <4>4
    <3> QED
      BY <3>1, <3>2
  <2>5. EdgesTrace(s, E, v)
    BY <1>2, <1>3, <2>2, <2>4 DEF EdgesTrace
  <2> QED
    BY <1>3, <2>3, <2>5
<1>6. \E x : Leads(s, x, t) /\ Written(x) = Text(E)
  <2>1. PICK x : Leads(r, x, t) /\ Written(x) = Text(es)
    BY DEF SavedEnds
  <2> DEFINE y == Written(e) \o x
  <2>2. Leads(s, y, t)
    BY <2>1, LeadsJoin
  <2>3. x \in Seq(Action)
    BY <1>1, <2>1, LeadsFacts
  <2>4. Written(y) = Written(Written(e)) \o Written(x)
    BY <1>1, <2>3, WrittenConcat
  <2>5. Written(Written(e)) = Written(e)
    BY <1>1, WrittenNoDots
  <2> QED
    BY <1>4, <2>1, <2>2, <2>4, <2>5
<1>7. ASSUME GETTER = "A"
      PROVE  Text(E) = <<>> \/ \E v : Leads(s, Text(E), v) /\ Last(Text(E)) \notin Dot
  <2>1. CASE Text(es) = <<>>
    <3>1. Text(E) = Written(e)
      BY <1>1, <1>4, <2>1
    <3>2. Written(e) = <<>> \/ (Written(e) = e /\ Last(e) \notin Dot)
      BY <1>7, OneActionWritten DEF EdgeWritten
    <3> QED
      BY <3>1, <3>2
  <2>2. CASE Text(es) # <<>>
    <3> DEFINE x == Text(es)
    <3>1. PICK v : Leads(r, x, v) /\ Last(x) \notin Dot
      BY <1>7, <2>2 DEF SavedEnds
    <3>2. Leads(s, Written(e) \o x, v)
      BY <3>1, LeadsJoin
    <3>3. Last(Written(e) \o x) = Last(x)
      <4>1. DotLast(x)
        BY <1>1, <3>1, LeadsFacts
      <4> QED
        BY <1>1, <4>1, DotLastConcat
    <3> QED
      BY <1>4, <3>1, <3>2, <3>3
  <2> QED
    BY <2>1, <2>2
<1> QED
  BY <1>2, <1>3, <1>5, <1>6, <1>7 DEF SavedEnds, E

(* SavedPaths is what the function of its definition gives.                *)
Simulated(n) == {c \in ChildIndices(Node(n)) : Child(c).sim_count > 0}
SavedOn(b, k) ==
  LET next == Child(k).index
  IN {<<k>> \o p : p \in IF Node(next).is_nodal \/ ~is_expanded(Node(next)) THEN {<<>>} ELSE b[next]}
SavedBelow(b, n) == UNION {SavedOn(b, k) : k \in Simulated(n)}
SavedStep(b) == b = [n \in Nodes |-> SavedBelow(b, n)]
SavedFunction == CHOOSE b : SavedStep(b)

(* SavedPaths is that function at the root. *)
LEMMA SavedPathsIs ==
  SavedPaths = SavedFunction[0]
BY DEF SavedPaths, SavedFunction, SavedStep, SavedBelow, SavedOn, Simulated

(* What was simulated has a node below its own, in any vectors.            *)
LEMMA SimulatedVisited ==
  ASSUME NEW L, NEW rolled, NEW total, Vectors(nodes, children), Counted(nodes, children, L, total, rolled),
         NEW n \in Nodes
  PROVE  \A k \in Simulated(n) : /\ k \in BlockOf(nodes, n) /\ k \in Indices(children)
                                 /\ Child(k).index \in Nodes /\ Child(k).index # 0 /\ n < Child(k).index
<1> TAKE k \in Simulated(n)
<1>1. k \in BlockOf(nodes, n) /\ Child(k).sim_count > 0 /\ n \in Indices(nodes)
  BY DEF Simulated, BlockOf, Node, Nodes, Indices
<1>2. k \in Indices(children) /\ children[k + 1].index \in Indices(nodes) /\ children[k + 1].sim_count \in Nat
  BY <1>1, VectorFacts
<1>3. children[k + 1].index # 0
  <2>1. children[k + 1].sim_count # 0
    BY <1>1, <1>2 DEF Child
  <2> QED
    BY <1>2, <2>1 DEF Counted, CountedBut
<1> QED
  BY <1>1, <1>2, <1>3 DEF Vectors, Child, Nodes, Indices

(* What is saved below a node depends on younger nodes only. *)
LEMMA SavedYounger ==
  ASSUME NEW L, NEW rolled, NEW total, Vectors(nodes, children), Counted(nodes, children, L, total, rolled),
         NEW i \in Nodes, NEW b, NEW c, \A n \in Nodes : i < n => b[n] = c[n]
  PROVE  SavedBelow(b, i) = SavedBelow(c, i)
<1>1. \A k \in Simulated(i) : b[Child(k).index] = c[Child(k).index]
  BY SimulatedVisited
<1>2. \A k \in Simulated(i) : SavedOn(b, k) = SavedOn(c, k)
  BY <1>1 DEF SavedOn
<1> QED
  BY <1>2 DEF SavedBelow

(* So the function exists, in any vectors. *)
LEMMA SavedFunctionExists ==
  ASSUME NEW L, NEW rolled, NEW total, Vectors(nodes, children), Counted(nodes, children, L, total, rolled)
  PROVE  SavedStep(SavedFunction)
<1> DEFINE N == Len(nodes)
           Young(m) == {i \in Nodes : N <= i + m}
           T == {m \in Nat : \E b : b = [i \in Young(m) |-> SavedBelow(b, i)]}
<1>1. N \in Nat /\ Nodes \subseteq Nat /\ \A i \in Nodes : i < N
  BY DEF Vectors, Nodes
<1> HIDE DEF N
<1>2. 0 \in T
  <2>1. Young(0) = {}
    <3>1. \A i \in Nodes : ~ (N <= i + 0)
      BY <1>1
    <3> QED
      BY <3>1
  <2> DEFINE b == [i \in {} |-> 0]
  <2>2. b = [i \in Young(0) |-> SavedBelow(b, i)]
    BY <2>1
  <2> HIDE DEF b, Young
  <2> QED
    BY <2>2
<1>3. ASSUME NEW m \in Nat, m \in T
      PROVE  m + 1 \in T
  <2>1. PICK b : b = [i \in Young(m) |-> SavedBelow(b, i)]
    BY <1>3
  <2> DEFINE c == [i \in Young(m + 1) |-> SavedBelow(b, i)]
  <2>2. \A i \in Young(m) : i \in Young(m + 1)
    BY <1>1
  <2>3. \A i \in Young(m + 1), n \in Nodes : i < n => n \in Young(m)
    BY <1>1
  <2>4. \A i \in Young(m + 1) : i \in Nodes
    OBVIOUS
  <2> HIDE DEF Young
  <2>5. \A n \in Young(m) : c[n] = b[n]
    BY <2>1, <2>2
  <2>6. \A i \in Young(m + 1) : SavedBelow(b, i) = SavedBelow(c, i)
    <3> TAKE i \in Young(m + 1)
    <3>1. \A n \in Nodes : i < n => b[n] = c[n]
      BY <2>3, <2>5
    <3> HIDE DEF c
    <3> QED
      BY <2>4, <3>1, SavedYounger
  <2>7. c = [i \in Young(m + 1) |-> SavedBelow(c, i)]
    BY <2>6
  <2> HIDE DEF c
  <2> QED
    BY <2>7
<1> HIDE DEF T
<1>4. N \in T
  BY <1>1, <1>2, <1>3, SetInduction
<1>5. Young(N) = Nodes
  <2>1. \A i \in Nodes : N <= i + N
    BY <1>1
  <2> QED
    BY <2>1
<1>6. PICK b : b = [i \in Young(N) |-> SavedBelow(b, i)]
  BY <1>4 DEF T
<1>7. SavedStep(b)
  <2> HIDE DEF Young
  <2> QED
    BY <1>5, <1>6 DEF SavedStep
<1> QED
  BY <1>7 DEF SavedFunction

(* Every path that may be saved goes through one turn, edge by edge, to a  *)
(* state from which the turn can be completed; where no turn ends at an    *)
(* unexpanded node, it is complete.                                        *)
WholeTurns(L) == \A n \in L : nodes[n + 1].is_nodal \/ is_expanded(nodes[n + 1])
SavedFrom(L, s, p) ==
  \E t : SavedEnds(s, Edges(p), t) /\ Rests(t) # {} /\ (WholeTurns(L) => t \in Nodal)
(* The edges of a path with one more child in front. *)
LEMMA EdgesJoin ==
  ASSUME NEW k, NEW S, NEW p \in Seq(S)
  PROVE  Edges(<<k>> \o p) = <<Child(k).semimove>> \o Edges(p)
<1> DEFINE q == <<k>> \o p
           e == Child(k).semimove
           E == <<e>> \o Edges(p)
<1>1. Len(p) \in Nat /\ DOMAIN p = 1..Len(p)
  OBVIOUS
<1>2. DOMAIN q = 1..(Len(p) + 1) /\ q[1] = k /\ \A j \in 2..(Len(p) + 1) : q[j] = p[j - 1]
  BY <1>1
<1>3. Edges(p) = [j \in 1..Len(p) |-> Child(p[j]).semimove]
  BY <1>1 DEF Edges
<1> DEFINE F == Edges(p)
<1>4. DOMAIN F = 1..Len(p) /\ Len(F) = Len(p) /\ \A j \in 1..Len(p) : F[j] = Child(p[j]).semimove
  BY <1>1, <1>3
<1>5. E = [j \in 1..(1 + Len(p)) |-> IF j <= 1 THEN e ELSE F[j - 1]]
  BY <1>1, <1>3
<1>6. \A j \in 1..(Len(p) + 1) : Child(q[j]).semimove = IF j <= 1 THEN e ELSE F[j - 1]
  <2> TAKE j \in 1..(Len(p) + 1)
  <2>1. CASE j = 1
    BY <1>2, <2>1
  <2>2. CASE j # 1
    <3>1. j \in 2..(Len(p) + 1) /\ j - 1 \in 1..Len(p) /\ ~(j <= 1)
      BY <1>1, <2>2
    <3> QED
      BY <1>2, <1>4, <3>1
  <2> QED
    BY <2>1, <2>2
<1>7. Edges(q) = [j \in 1..(Len(p) + 1) |-> Child(q[j]).semimove]
  BY <1>2 DEF Edges
<1>8. 1 + Len(p) = Len(p) + 1
  BY <1>1
<1> QED
  BY <1>5, <1>6, <1>7, <1>8

(* Every path that may be saved ends where the turn can be completed. *)
LEMMA SavedPathsFit ==
  ASSUME NEW L, NEW pos, Tree(nodes, children, L, root_state, pos),
         NEW total, NEW rolled, Counted(nodes, children, L, total, rolled)
  PROVE  \A p \in SavedPaths : SavedFrom(L, root_state, p)
<1> DEFINE N == Len(nodes)
           b == SavedFunction
           Fit(n) == \A p \in b[n] : p \in Seq(Indices(children)) /\ SavedFrom(L, pos[n], p)
           T == {m \in Nat : \A n \in L : N <= n + m => Fit(n)}
<1>1. /\ Vectors(nodes, children) /\ Links(nodes, children, L)
      /\ Stands(nodes, children, L, root_state, pos) /\ Statuses(nodes, L, pos)
  BY DEF Tree
<1>2. N \in Nat /\ 0 \in L /\ \A n \in L : n \in Nat /\ n < N /\ n \in Nodes /\ n \in Indices(nodes)
  BY <1>1, LinkFacts, VectorFacts DEF Nodes, Indices
<1>3. \A n \in Nodes : b[n] = SavedBelow(b, n)
  BY <1>1, SavedFunctionExists DEF SavedStep
<1> HIDE DEF N, b
<1>4. 0 \in T
  <2>1. \A n \in L : ~(N <= n + 0)
    BY <1>2
  <2> QED
    BY <2>1
<1>5. ASSUME NEW m \in Nat, m \in T PROVE m + 1 \in T
  <2> SUFFICES ASSUME NEW n \in L, N <= n + (m + 1), NEW p \in b[n]
               PROVE  p \in Seq(Indices(children)) /\ SavedFrom(L, pos[n], p)
    OBVIOUS
  <2>1. PICK k \in Simulated(n) : p \in SavedOn(b, k)
    BY <1>2, <1>3 DEF SavedBelow
  <2> DEFINE c == Child(k).index
             e == Child(k).semimove
  <2>2. /\ k \in BlockOf(nodes, n) /\ k \in Indices(children) /\ c \in Nodes /\ c # 0 /\ n < c
    BY <1>1, <1>2, SimulatedVisited
  <2>3. c \in L
    BY <1>1, <2>2, LinkFacts DEF Child
  <2>4. pos[n] \in State /\ Leads(pos[n], e, pos[c]) /\ (GETTER = "A" => Len(e) = 1)
    <3>1. pos[n] \in State
      BY <1>1 DEF Stands
    <3>2. Fits(pos, pos[n], Child(k))
      BY <1>1, <2>2 DEF Stands, Child
    <3> QED
      BY <1>1, <2>2, <3>1, <3>2 DEF Fits, Stands, Child
  <2>5. Node(c).is_nodal <=> pos[c] \in Nodal
    BY <1>1, <2>3 DEF Statuses, Node
  <2>6. Rests(pos[c]) # {}
    BY <1>1, <2>3 DEF Statuses
  <2>7. CASE p = <<k>> /\ (Node(c).is_nodal \/ ~is_expanded(Node(c)))
    <3>1. p \in Seq(Indices(children)) /\ Edges(p) = <<e>>
      <4>1. DOMAIN <<k>> = 1..1 /\ <<k>>[1] = k
        OBVIOUS
      <4>2. Edges(<<k>>) = [j \in 1..1 |-> Child(<<k>>[j]).semimove]
        BY <4>1 DEF Edges
      <4>3. \A j \in 1..1 : Child(<<k>>[j]).semimove = e
        BY <4>1
      <4>4. <<e>> = [j \in 1..1 |-> e]
        OBVIOUS
      <4> QED
        BY <2>2, <2>7, <4>2, <4>3, <4>4
    <3>2. WholeTurns(L) => pos[c] \in Nodal
      BY <2>3, <2>5, <2>7 DEF WholeTurns, Node
    <3> QED
      BY <2>4, <2>6, <3>1, <3>2, LastEdge DEF SavedFrom
  <2>8. CASE ~Node(c).is_nodal /\ \E q \in b[c] : p = <<k>> \o q
    <3>1. PICK q \in b[c] : p = <<k>> \o q
      BY <2>8
    <3>2. q \in Seq(Indices(children)) /\ SavedFrom(L, pos[c], q)
      <4>1. N <= c + m
        BY <1>2, <2>2, <2>3
      <4> QED
        BY <1>5, <2>3, <3>1, <4>1
    <3>3. PICK t : SavedEnds(pos[c], Edges(q), t) /\ Rests(t) # {} /\ (WholeTurns(L) => t \in Nodal)
      BY <3>2 DEF SavedFrom
    <3>4. Edges(p) = <<e>> \o Edges(q)
      BY <3>1, <3>2, EdgesJoin
    <3>5. p \in Seq(Indices(children))
      BY <2>2, <3>1, <3>2
    <3>6. pos[c] \notin Nodal
      BY <2>5, <2>8
    <3> HIDE DEF c, e
    <3>7. SavedEnds(pos[n], <<e>> \o Edges(q), t)
      BY <2>4, <3>3, <3>6, MoreEdges
    <3> QED
      BY <3>3, <3>4, <3>5, <3>7 DEF SavedFrom
  <2>9. \/ p = <<k>> /\ (Node(c).is_nodal \/ ~is_expanded(Node(c)))
        \/ ~Node(c).is_nodal /\ \E q \in b[c] : p = <<k>> \o q
    <3>1. CASE Node(c).is_nodal \/ ~is_expanded(Node(c))
      <4>1. p = <<k>> \o <<>>
        BY <2>1, <3>1 DEF SavedOn
      <4> QED
        BY <3>1, <4>1
    <3>2. CASE ~(Node(c).is_nodal \/ ~is_expanded(Node(c)))
      BY <2>1, <3>2 DEF SavedOn
    <3> QED
      BY <3>1, <3>2
  <2> QED
    BY <2>7, <2>8, <2>9
<1> HIDE DEF T
<1>6. \A m \in Nat : m \in T
  BY <1>4, <1>5, SetInduction
<1>7. Fit(0)
  <2>1. N <= 0 + N
    BY <1>2
  <2> QED
    BY <1>2, <1>6, <2>1 DEF T
<1>8. pos[0] = root_state
  BY <1>1 DEF Stands
<1> QED
  BY <1>7, <1>8, SavedPathsIs DEF b

(* A turn made to its end from where some text leads is a legal move. *)
LEMMA TextCompletes ==
  ASSUME NEW s \in State, NEW x, NEW t, Leads(s, x, t)
  PROVE  /\ t \in Nodal => Written(x) \in Moves(s)
         /\ t \notin Nodal => \A way \in PathsToNodal(t) : Written(x) \o Text(way) \in Moves(s)
         /\ Rests(t) # {} => PathsToNodal(t) # {}
<1>1. /\ t \in State /\ x \in Seq(Action) /\ Written(x) \in Seq(Action)
      /\ Through(s, x) = {Written(x) \o z : z \in Rests(t)} /\ Through(s, x) \subseteq Moves(s)
  BY LeadsFacts, ThroughIs
<1>2. ASSUME t \in Nodal PROVE Written(x) \in Moves(s)
  <2>1. <<>> \in Rests(t)
    BY <1>2 DEF Rests
  <2>2. Written(x) \o <<>> = Written(x)
    BY <1>1
  <2> QED
    BY <1>1, <2>1, <2>2
<1>3. ASSUME t \notin Nodal, NEW way \in PathsToNodal(t) PROVE Written(x) \o Text(way) \in Moves(s)
  <2>1. PICK q \in Reachable[t] : q.state \in Nodal /\ way = q.path
    BY <1>3 DEF PathsToNodal
  <2>2. Text(way) = Written(q.actions)
    BY <1>1, <2>1, ReachableFacts DEF WellFormed
  <2>3. Text(way) \in Rests(t)
    BY <1>3, <2>1, <2>2 DEF Rests, Moves
  <2> QED
    BY <1>1, <2>3
<1>4. Rests(t) # {} => PathsToNodal(t) # {}
  BY <1>1, DeadEndIs
<1> QED
  BY <1>2, <1>3, <1>4

(* The text made of a saved path is a legal move; of actions it may as well*)
(* be empty, unless only whole turns are saved.                            *)
LEMMA MovesFromPathLegal ==
  ASSUME NEW L, NEW saved, root_state \in State, root_state \in Nodal, SavedFrom(L, root_state, saved)
  PROVE  /\ GETTER = "S" \/ WholeTurns(L) =>
              MovesFromPath(saved) # {} /\ MovesFromPath(saved) \subseteq Moves(root_state)
         /\ MovesFromPath(saved) \subseteq Moves(root_state) \cup {<<>>}
<1> DEFINE s == root_state
           es == Edges(saved)
           text == Text(es)
           reached == IF GETTER = "S" THEN AfterEdges(s, es) ELSE StateAfterText(s, text)
<1>1. MovesFromPath(saved) = IF reached \in Nodal THEN {text}
                             ELSE {text \o Text(way) : way \in PathsToNodal(reached)}
  BY DEF MovesFromPath
<1>2. PICK t : SavedEnds(s, es, t) /\ Rests(t) # {} /\ (WholeTurns(L) => t \in Nodal)
  BY DEF SavedFrom
<1>3. ASSUME GETTER = "S"
      PROVE  MovesFromPath(saved) # {} /\ MovesFromPath(saved) \subseteq Moves(s)
  <2>1. PICK u : EdgesTrace(s, es, u) /\ u[Len(es)] = t
    BY <1>2 DEF SavedEnds
  <2>2. reached = t
    BY <1>3, <2>1, AfterEdgesIs
  <2>3. PICK x : Leads(s, x, t) /\ Written(x) = text
    BY <1>2 DEF SavedEnds
  <2> HIDE DEF reached, text, es
  <2>4. /\ t \in Nodal => text \in Moves(s)
        /\ t \notin Nodal => \A way \in PathsToNodal(t) : text \o Text(way) \in Moves(s)
        /\ PathsToNodal(t) # {}
    BY <1>2, <2>3, TextCompletes
  <2>5. CASE t \in Nodal
    <3>1. MovesFromPath(saved) = {text}
      BY <1>1, <2>2, <2>5
    <3> QED
      BY <2>4, <2>5, <3>1
  <2>6. CASE t \notin Nodal
    <3>1. MovesFromPath(saved) = {text \o Text(way) : way \in PathsToNodal(t)}
      BY <1>1, <2>2, <2>6
    <3>2. PICK way : way \in PathsToNodal(t)
      BY <2>4
    <3>3. text \o Text(way) \in MovesFromPath(saved)
      BY <3>1, <3>2
    <3> QED
      BY <2>4, <2>6, <3>1, <3>3
  <2> QED
    BY <2>5, <2>6
<1>4. ASSUME GETTER # "S", text # <<>>
      PROVE  \E v : Leads(s, text, v) /\ Written(text) = text /\ reached = v
  <2>1. GETTER = "A" /\ reached = StateAfterText(s, text)
    BY <1>4, SemisplitAssumption
  <2>2. PICK v : Leads(s, text, v) /\ Last(text) \notin Dot
    BY <1>2, <1>4, <2>1 DEF SavedEnds
  <2> HIDE DEF reached, text, es
  <2>3. Written(text) = text
    <3>1. DotLast(text)
      BY <2>2, LeadsFacts
    <3> QED
      BY <2>2, <3>1, WrittenDotLast
  <2>4. PICK r \in Reachable[s] : r.actions = text /\ r.state = v
    BY <2>2 DEF Leads
  <2> DEFINE q == CHOOSE r2 \in Reachable[s] : Written(r2.actions) = text /\ Last(r2.actions) \notin Dot
  <2>5. q \in Reachable[s] /\ Written(q.actions) = text /\ Last(q.actions) \notin Dot
    BY <2>2, <2>3, <2>4
  <2>6. reached = q.state
    BY <1>4, <2>1 DEF StateAfterText
  <2> HIDE DEF q
  <2>7. q.actions = text
    <3>1. DotLast(q.actions)
      BY <2>5, ReachableFacts DEF WellFormed
    <3> QED
      BY <2>5, <3>1, WrittenDotLast
  <2>8. q = r
    BY <2>4, <2>5, <2>7, ActionsTell
  <2> QED
    BY <2>2, <2>3, <2>4, <2>6, <2>8
<1>5. ASSUME GETTER # "S"
      PROVE  MovesFromPath(saved) \subseteq Moves(s) \cup {<<>>}
  <2> HIDE DEF text, es
  <2>1. CASE text = <<>>
    <3>1. reached = s
      BY <1>5, <2>1, SemisplitAssumption DEF StateAfterText
    <3> QED
      BY <1>1, <2>1, <3>1
  <2>2. CASE text # <<>>
    <3>1. PICK v : Leads(s, text, v) /\ Written(text) = text /\ reached = v
      BY <1>4, <1>5, <2>2
    <3> HIDE DEF reached
    <3>2. /\ v \in Nodal => text \in Moves(s)
          /\ v \notin Nodal => \A way \in PathsToNodal(v) : text \o Text(way) \in Moves(s)
      BY <3>1, TextCompletes
    <3>3. CASE v \in Nodal
      <4>1. MovesFromPath(saved) = {text}
        BY <1>1, <3>1, <3>3
      <4> QED
        BY <3>2, <3>3, <4>1
    <3>4. CASE v \notin Nodal
      <4>1. MovesFromPath(saved) = {text \o Text(way) : way \in PathsToNodal(v)}
        BY <1>1, <3>1, <3>4
      <4> QED
        BY <3>2, <3>4, <4>1
    <3> QED
      BY <3>3, <3>4
  <2> QED
    BY <2>1, <2>2
<1>6. ASSUME GETTER # "S", WholeTurns(L)
      PROVE  MovesFromPath(saved) # {} /\ MovesFromPath(saved) \subseteq Moves(s)
  <2>1. PICK x : Leads(s, x, t) /\ Written(x) = text
    BY <1>2 DEF SavedEnds
  <2> HIDE DEF text, es
  <2>2. t \in Nodal /\ text \in Moves(s)
    BY <1>2, <1>6, <2>1, TextCompletes
  <2>3. text # <<>>
    BY <2>2, MovesSeq
  <2>4. PICK v : Leads(s, text, v) /\ Written(text) = text /\ reached = v
    BY <1>4, <1>6, <2>3
  <2> HIDE DEF reached
  <2>5. x = text
    <3>1. DotLast(x) /\ Last(x) \notin Dot
      BY <2>1, <2>2, LeadsFacts
    <3> QED
      BY <2>1, <3>1, WrittenDotLast
  <2>6. v = t
    <3>1. apply(s, text) = t /\ apply(s, text) = v
      BY <2>1, <2>4, <2>5, LeadsFacts
    <3> QED
      BY <3>1
  <2>7. MovesFromPath(saved) = {text}
    BY <1>1, <2>2, <2>4, <2>6
  <2> QED
    BY <2>2, <2>7
<1> QED
  BY <1>3, <1>5, <1>6

-----------------------------------------------------------------------------
(* The invariant of both trees.                                            *)

(* The first tree satisfies the invariant. *)
LEMMA InitInv ==
  ASSUME NEW rolled, Init
  PROVE  IInv(rolled)
<1>1. InitState \in Nodal /\ InitState \in State
  BY SplitGameAssumption
<1>2. PICK L, pos : /\ Tree(FreshTree(InitState).nodes, FreshTree(InitState).children, L, InitState, pos)
                    /\ Counted(FreshTree(InitState).nodes, FreshTree(InitState).children, L, 0, rolled)
                    /\ Touched(FreshTree(InitState).nodes, FreshTree(InitState).children, L, Nobody)
  BY <1>1, FreshTreeIs DEF Sound
<1>3. 0 \in 0..MaxSims
  BY SemisplitAssumption
<1>4. Inv(rolled, L, pos)
  BY <1>2, <1>3 DEF Init, Inv, Idling, AtRest
<1> QED
  BY <1>4 DEF IInv

(* The steps that put another tree in place of the one there is. *)
LEMMA OpponentStep ==
  ASSUME NEW rolled, NEW L, NEW pos, Inv(rolled, L, pos), OpponentMove
  PROVE  IInv(rolled)'
<1>1. PICK m \in Moves(root_state) : ReparentAlongMove(m)
  BY DEF OpponentMove
<1>2. pc = "idle" /\ m \in Moves(root_state) \cup {<<>>}
  BY DEF OpponentMove
<1> QED
  BY <1>1, <1>2, ReparentStep

(* A move chosen from a saved path, even an empty one. *)
LEMMA ChooseStep ==
  ASSUME NEW rolled, NEW L, NEW pos, Inv(rolled, L, pos), ChooseBestMove
  PROVE  IInv(rolled)'
<1>1. PICK saved \in SavedPaths : \E m \in MovesFromPath(saved) : ReparentAlongMove(m)
  BY DEF ChooseBestMove
<1>2. PICK m \in MovesFromPath(saved) : ReparentAlongMove(m)
  BY <1>1
<1>3. pc = "idle"
  BY DEF ChooseBestMove
<1>4. /\ Tree(nodes, children, L, root_state, pos) /\ Counted(nodes, children, L, root_sim_count, rolled)
      /\ root_state \in Nodal /\ root_state \in State
  BY <1>3, AtIdle
<1>5. SavedFrom(L, root_state, saved)
  BY <1>1, <1>4, SavedPathsFit
<1>6. m \in Moves(root_state) \cup {<<>>}
  BY <1>2, <1>4, <1>5, MovesFromPathLegal
<1> QED
  BY <1>2, <1>3, <1>6, ReparentStep

(* A new tree after the end of a game. *)
LEMMA ResetStep ==
  ASSUME NEW rolled, NEW L, NEW pos, Inv(rolled, L, pos), ResetTree
  PROVE  IInv(rolled)'
<1>1. pc = "idle" /\ children_stack = <<>> /\ AtRest
  <2>1. pc = "idle"
    BY DEF ResetTree
  <2> QED
    BY <2>1, AtIdle
<1>2. InitState \in Nodal /\ InitState \in State /\ 0 \in 0..MaxSims
  BY SplitGameAssumption, SemisplitAssumption
<1>3. Sound(FreshTree(InitState).nodes, FreshTree(InitState).children, InitState, 0, rolled)
  BY <1>2, FreshTreeIs
<1>4. /\ nodes' = FreshTree(InitState).nodes /\ children' = FreshTree(InitState).children
      /\ root_state' = InitState /\ state' = InitState /\ root_sim_count' = 0
      /\ pc' = "idle" /\ children_stack' = <<>> /\ node_index' = 0 /\ node_sim_count' = 0
  BY <1>1 DEF ResetTree, AtRest
<1> QED
  BY <1>2, <1>3, <1>4, SoundIsInv

(* Nothing depends on more than the variables. *)
LEMMA StayStep ==
  ASSUME NEW rolled, NEW L, NEW pos, Inv(rolled, L, pos), UNCHANGED vars
  PROVE  Inv(rolled, L, pos)'
BY DEF Inv, Idling, Returning, Descending, AtRest, vars, vectors

(* Every step of a simulation keeps the invariant. *)
LEMMA SimulationKeeps ==
  ASSUME NEW rolled, NEW L, NEW pos, Inv(rolled, L, pos), SimulationStep
  PROVE  IInv(rolled)'
<1>1. CASE BeginSimulation
  BY <1>1, BeginStep DEF IInv
<1>2. CASE Descend
  BY <1>2, DescendStep DEF IInv
<1>3. CASE Expand
  BY <1>3, ExpandStep DEF IInv
<1>4. CASE ScoreTerminal
  BY <1>4, ScoreStep DEF IInv
<1>5. CASE RemoveDeadEnd
  BY <1>5, RemoveStep DEF IInv
<1>6. CASE VisitChild
  BY <1>6, VisitStep
<1> QED
  BY <1>1, <1>2, <1>3, <1>4, <1>5, <1>6 DEF SimulationStep

(* So does every other step. *)
LEMMA OtherStepsKeep ==
  ASSUME NEW rolled, NEW L, NEW pos, Inv(rolled, L, pos),
         FinishSimulation \/ OpponentMove \/ ChooseBestMove \/ ResetTree \/ UNCHANGED vars
  PROVE  IInv(rolled)'
<1>1. CASE FinishSimulation
  BY <1>1, FinishStep DEF IInv
<1>2. CASE OpponentMove
  BY <1>2, OpponentStep
<1>3. CASE ChooseBestMove
  BY <1>3, ChooseStep
<1>4. CASE ResetTree
  BY <1>4, ResetStep
<1>5. CASE UNCHANGED vars
  BY <1>5, StayStep DEF IInv
<1> QED
  BY <1>1, <1>2, <1>3, <1>4, <1>5

(* The invariant of the semisplit tree: no roll-ups, every count exact.    *)
SemisplitInv == IInv(FALSE)

(* The invariant is inductive for the semisplit tree. *)
LEMMA SemisplitKeeps ==
  SemisplitInv /\ [Next]_vars => SemisplitInv'
<1> SUFFICES ASSUME IInv(FALSE), Next \/ UNCHANGED vars PROVE IInv(FALSE)'
  BY DEF SemisplitInv
<1> DEFINE rolled == FALSE
<1>1. PICK L, pos : Inv(rolled, L, pos)
  BY DEF IInv
<1> HIDE DEF rolled
<1>2. SimulationStep \/ (FinishSimulation \/ OpponentMove \/ ChooseBestMove \/ ResetTree \/ UNCHANGED vars)
  BY DEF Next
<1>3. IInv(rolled)'
  BY <1>1, <1>2, SimulationKeeps, OtherStepsKeep
<1> QED
  BY <1>3 DEF rolled

(* The semisplit tree keeps its invariant, whatever the game, the semimoves*)
(* it hands out, and the number of simulations.                            *)
THEOREM SemisplitInvariant == Spec => []SemisplitInv
<1>1. Init => SemisplitInv
  BY InitInv DEF SemisplitInv
<1> QED
  BY <1>1, SemisplitKeeps, PTL DEF Spec

-----------------------------------------------------------------------------
(* What the invariant says of the properties.                              *)

(* The types of the variables, from the invariant. *)
LEMMA InvTypeOK ==
  ASSUME NEW rolled, NEW L, NEW pos, Inv(rolled, L, pos)
  PROVE  TypeOK
<1>1. /\ Tree(nodes, children, L, root_state, pos) /\ Counted(nodes, children, L, root_sim_count, rolled)
      /\ root_sim_count \in 0..MaxSims
      /\ Idling \/ Returning(L) \/ Descending(L, pos)
  BY DEF Inv
<1>2. /\ Vectors(nodes, children) /\ Links(nodes, children, L) /\ Stands(nodes, children, L, root_state, pos)
      /\ root_state \in Nodal /\ root_state \in State
  BY <1>1, SplitGameAssumption DEF Tree, Stands
<1>3. Nodes = Indices(nodes) /\ Children = Indices(children) /\ 0 \in Nodes
  BY <1>2 DEF Nodes, Children, Indices, Vectors
<1>4. nodes \in Seq([first : Nat, second : Nat, is_nodal : BOOLEAN, status : {"terminal", "nonterminal", "unknown"}])
  BY <1>2 DEF Vectors, NodeRecord
<1>5. \A n \in Nodes : is_expanded(Node(n)) => Node(n).second <= Len(children)
  BY <1>2, <1>3 DEF Vectors, Node
<1>6. children \in Seq([semimove : Seq(Action), index : Nodes, sim_count : Nat])
  <2> DEFINE C == [semimove : Seq(Action), index : Nodes, sim_count : Nat]
  <2>1. children \in Seq(ChildRecord) /\ Len(children) \in Nat
    BY <1>2, VectorFacts DEF Vectors
  <2>2. \A i \in 1..Len(children) : children[i] \in C
    <3> TAKE i \in 1..Len(children)
    <3>1. i - 1 \in Indices(children) /\ (i - 1) + 1 = i
      BY <2>1 DEF Indices
    <3>2. children[i] \in ChildRecord /\ children[i].index \in Nodes
      BY <1>2, <1>3, <3>1, VectorFacts
    <3> QED
      BY <3>2 DEF ChildRecord
  <2> HIDE DEF C
  <2>3. children = [i \in 1..Len(children) |-> children[i]]
    BY <2>1
  <2>4. children \in Seq(C)
    BY <2>1, <2>2, <2>3
  <2> QED
    BY <2>4 DEF C
<1>7. root_sim_count \in Nat /\ root_sim_count <= MaxSims /\ root_sim_count \in Count /\ MaxSims \in Nat /\ 0 \in Count
  BY <1>1, SemisplitAssumption DEF Count
<1>8. /\ children_stack \in Seq(Children) /\ state \in State /\ node_index \in Nodes /\ node_sim_count \in Count
      /\ pc \in {"idle", "descend", "return"}
  <2>1. CASE Idling
    BY <1>2, <1>3, <1>7, <2>1 DEF Idling, AtRest
  <2>2. CASE Returning(L)
    BY <1>2, <1>3, <1>7, <2>2 DEF Returning, AtRest, Way
  <2>3. CASE Descending(L, pos)
    <3>1. /\ Way(nodes, children, L, children_stack, node_index)
          /\ state = pos[node_index] /\ pc = "descend"
          /\ node_sim_count = IF children_stack = <<>> THEN root_sim_count
                              ELSE children[Last(children_stack) + 1].sim_count
      BY <2>3 DEF Descending
    <3>2. /\ Len(children_stack) \in Nat
          /\ \A k \in 0..Len(children_stack) : At(children, children_stack, k) \in L
      BY <1>2, <3>1, WayFacts
    <3>3. node_index \in L
      <4>1. Len(children_stack) \in 0..Len(children_stack)
        BY <3>2
      <4> QED
        BY <3>1, <3>2, <4>1 DEF Way
    <3>4. node_index \in Nodes /\ state \in State
      BY <1>2, <1>3, <3>1, <3>3, LinkFacts DEF Stands
    <3>5. node_sim_count \in Count
      <4>1. CASE children_stack = <<>>
        BY <1>7, <3>1, <4>1
      <4>2. CASE children_stack # <<>>
        <5> DEFINE w == Len(children_stack)
                   i == children_stack[w]
                   c == children[i + 1].sim_count
        <5>1. w \in 1..w /\ Last(children_stack) = i
          <6>1. children_stack \in Seq(Indices(children))
            BY <3>1 DEF Way
          <6>2. Len(children_stack) \in Nat \ {0} /\ Last(children_stack) = children_stack[Len(children_stack)]
            BY <4>2, <6>1, FrontIs
          <6> QED
            BY <6>2
        <5>2. i \in BlockOf(nodes, At(children, children_stack, w - 1)) /\ At(children, children_stack, w - 1) \in L
          BY <3>1, <5>1 DEF Way
        <5>3. c <= root_sim_count /\ c \in Nat
          <6>1. c <= root_sim_count
            BY <1>1, <1>7, <5>2, SimsBounded
          <6>2. c \in Nat
            BY <1>2, <5>2, LinkFacts, VectorFacts
          <6> QED
            BY <6>1, <6>2
        <5>4. node_sim_count = c
          BY <3>1, <4>2, <5>1
        <5> HIDE DEF c
        <5> QED
          BY <1>7, <5>3, <5>4 DEF Count
      <4> QED
        BY <4>1, <4>2
    <3> QED
      BY <1>3, <3>1, <3>4, <3>5 DEF Way
  <2> QED
    BY <1>1, <2>1, <2>2, <2>3
<1> QED
  BY <1>2, <1>4, <1>5, <1>6, <1>7, <1>8 DEF TypeOK

(* The levels of Live, and that what holds of the root and is handed down  *)
(* to the nodes below holds of all of them.                                *)
LiveRoot == [node |-> 0, state |-> root_state, sims |-> root_sim_count]
LiveBelow(x, k) ==
  [node |-> Child(k).index, state |-> apply(x.state, Child(k).semimove), sims |-> Child(k).sim_count]
NextLevel(S) == UNION {{LiveBelow(x, k) : k \in Visited(x.node)} : x \in S}
LevelStep(w, f) == f = [d \in 0..w |-> IF d = 0 THEN {LiveRoot} ELSE NextLevel(f[d - 1])]

(* The levels of the live nodes are a function of their depth. *)
LEMMA LevelsExist ==
  ASSUME NEW w \in Nat
  PROVE  \E f : LevelStep(w, f)
<1> DEFINE T == {n \in Nat : \E f : LevelStep(n, f)}
<1>1. 0 \in T
  <2> DEFINE f == [d \in 0..0 |-> {LiveRoot}]
  <2>1. f = [d \in 0..0 |-> IF d = 0 THEN {LiveRoot} ELSE NextLevel(f[d - 1])]
    OBVIOUS
  <2> QED
    BY <2>1 DEF LevelStep
<1>2. ASSUME NEW n \in Nat, n \in T PROVE n + 1 \in T
  <2>1. PICK f : LevelStep(n, f)
    BY <1>2
  <2> DEFINE g == [k \in 0..(n + 1) |-> IF k = n + 1 THEN NextLevel(f[n]) ELSE f[k]]
  <2>2. \A k \in 0..(n + 1) : g[k] = IF k = 0 THEN {LiveRoot} ELSE NextLevel(g[k - 1])
    <3> TAKE k \in 0..(n + 1)
    <3>1. CASE k = n + 1
      <4>1. k # 0 /\ k - 1 = n /\ n \in 0..(n + 1) /\ n # n + 1
        BY <3>1
      <4>2. g[n] = f[n] /\ g[k] = NextLevel(f[n])
        BY <3>1, <4>1
      <4> QED
        BY <3>1, <4>1, <4>2
    <3>2. CASE k # n + 1
      <4>1. k \in 0..n /\ g[k] = f[k]
        BY <3>2
      <4>2. k # 0 => k - 1 \in 0..(n + 1) /\ k - 1 # n + 1 /\ g[k - 1] = f[k - 1]
        BY <4>1
      <4>3. f[k] = IF k = 0 THEN {LiveRoot} ELSE NextLevel(f[k - 1])
        BY <2>1, <4>1 DEF LevelStep
      <4> QED
        BY <4>1, <4>2, <4>3
    <3> QED
      BY <3>1, <3>2
  <2>3. g = [k \in 0..(n + 1) |-> g[k]]
    OBVIOUS
  <2> HIDE DEF g
  <2>4. LevelStep(n + 1, g)
    BY <2>2, <2>3 DEF LevelStep
  <2> QED
    BY <2>4
<1> HIDE DEF T
<1>3. \A n \in Nat : n \in T
  BY <1>1, <1>2, SetInduction
<1> QED
  BY <1>3 DEF T

(* What holds at the root, and of the next nodes where it holds, is true of*)
(* all live nodes.                                                         *)
LEMMA LiveInduction ==
  ASSUME Len(nodes) \in Nat \ {0}, NEW S, LiveRoot \in S,
         \A x \in S : \A k \in Visited(x.node) : LiveBelow(x, k) \in S
  PROVE  Live \subseteq S
<1> DEFINE w == Len(nodes) - 1
           f == CHOOSE g : LevelStep(w, g)
<1>1. w \in Nat /\ Nodes = 0..w
  BY DEF Nodes
<1>2. Live = UNION {f[d] : d \in 0..w}
  BY DEF Live, LevelStep, NextLevel, LiveBelow, LiveRoot, Nodes
<1> HIDE DEF w
<1>3. LevelStep(w, f)
  <2>1. \E g : LevelStep(w, g)
    BY <1>1, LevelsExist
  <2> QED
    BY <2>1
<1> HIDE DEF f
<1>4. \A d \in 0..w : f[d] = IF d = 0 THEN {LiveRoot} ELSE NextLevel(f[d - 1])
  BY <1>3 DEF LevelStep
<1> DEFINE T == {n \in Nat : n <= w => f[n] \subseteq S}
<1>5. 0 \in T
  <2>1. 0 \in 0..w
    BY <1>1
  <2> QED
    BY <1>4, <2>1
<1>6. ASSUME NEW n \in Nat, n \in T PROVE n + 1 \in T
  <2> SUFFICES ASSUME n + 1 <= w PROVE f[n + 1] \subseteq S
    OBVIOUS
  <2>1. n + 1 \in 0..w /\ n + 1 # 0 /\ (n + 1) - 1 = n /\ n <= w
    BY <1>1
  <2>2. f[n] \subseteq S
    BY <1>6, <2>1
  <2>3. f[n + 1] = NextLevel(f[n])
    BY <1>4, <2>1
  <2> QED
    BY <2>2, <2>3 DEF NextLevel
<1> HIDE DEF T
<1>7. \A n \in Nat : n \in T
  BY <1>5, <1>6, SetInduction
<1>8. \A d \in 0..w : f[d] \subseteq S
  <2> TAKE d \in 0..w
  <2>1. d \in Nat /\ d <= w
    BY <1>1
  <2> QED
    BY <1>7, <2>1 DEF T
<1> QED
  BY <1>2, <1>8

(* Live nodes are nodes of the tree, with their states, and the counts of  *)
(* the edges that lead to them.                                            *)
Alive(L, pos, x) ==
  /\ x.node \in L
  /\ x.state = pos[x.node]
  /\ x.sims \in Nat
  /\ \/ x.node = 0 /\ x.sims = root_sim_count
     \/ x.node # 0 /\ \E p \in L : \E i \in BlockOf(nodes, p) :
                        children[i + 1].index = x.node /\ x.sims = children[i + 1].sim_count
(* Every live record is one of a node of the tree. *)
LEMMA LiveFacts ==
  ASSUME NEW rolled, NEW L, NEW pos, Inv(rolled, L, pos)
  PROVE  \A x \in Live : Alive(L, pos, x)
<1> DEFINE S == {x \in [node : L, state : State, sims : Nat] : Alive(L, pos, x)}
<1>1. /\ Vectors(nodes, children) /\ Links(nodes, children, L) /\ Stands(nodes, children, L, root_state, pos)
      /\ root_sim_count \in Nat
  BY DEF Inv, Tree
<1>2. 0 \in L /\ pos[0] = root_state /\ root_state \in State /\ Len(nodes) \in Nat \ {0}
  BY <1>1, LinkFacts, VectorFacts, SplitGameAssumption DEF Stands
<1>3. LiveRoot \in S
  <2>1. LiveRoot.node = 0 /\ LiveRoot.state = root_state /\ LiveRoot.sims = root_sim_count
    BY DEF LiveRoot
  <2>2. LiveRoot \in [node : L, state : State, sims : Nat]
    BY <1>1, <1>2 DEF LiveRoot
  <2> QED
    BY <1>1, <1>2, <2>1, <2>2 DEF Alive
<1>4. ASSUME NEW x \in S, NEW k \in Visited(x.node)
      PROVE  LiveBelow(x, k) \in S
  <2> DEFINE n == x.node
             y == LiveBelow(x, k)
  <2>1. n \in L /\ x.state = pos[n]
    BY <1>4 DEF Alive
  <2>2. k \in BlockOf(nodes, n) /\ Child(k).index # 0
    BY DEF Visited, BlockOf, Node
  <2>3. Child(k).index \in L /\ Child(k).sim_count \in Nat
    BY <1>1, <2>1, <2>2, LinkFacts, VectorFacts DEF Child
  <2>4. apply(x.state, Child(k).semimove) = pos[Child(k).index]
    <3>1. pos[n] \in State
      BY <1>1, <2>1 DEF Stands
    <3>2. Fits(pos, pos[n], Child(k))
      BY <1>1, <2>1, <2>2 DEF Stands, Child
    <3>3. Leads(pos[n], Child(k).semimove, pos[Child(k).index])
      BY <2>2, <3>2 DEF Fits
    <3> QED
      BY <2>1, <3>1, <3>3, LeadsFacts
  <2>5. y.node = Child(k).index /\ y.state = pos[Child(k).index] /\ y.sims = Child(k).sim_count
    BY <2>4 DEF LiveBelow
  <2>6. pos[Child(k).index] \in State
    BY <1>1, <2>3 DEF Stands
  <2>7. y \in [node : L, state : State, sims : Nat]
    BY <2>3, <2>4, <2>6 DEF LiveBelow
  <2> HIDE DEF y
  <2>8. Alive(L, pos, y)
    BY <2>1, <2>2, <2>3, <2>5 DEF Alive, Child
  <2> QED
    BY <2>7, <2>8 DEF y
<1> HIDE DEF S
<1>5. Live \subseteq S
  BY <1>2, <1>3, <1>4, LiveInduction
<1> QED
  BY <1>5 DEF S

(* The sum the properties speak of is that of a node's block. *)
LEMMA ChildSimsAre ==
  ASSUME NEW L, Vectors(nodes, children), Links(nodes, children, L), NEW n \in L
  PROVE  ChildSims(n) = BlockSims(children, nodes[n + 1])
<1>1. n \in Indices(nodes) /\ nodes[n + 1].first \in Nat /\ nodes[n + 1].second \in Nat
      /\ BlockOf(nodes, n) \subseteq Indices(children)
  BY LinkFacts, VectorFacts
<1>2. IsFiniteSet(ChildIndices(Node(n)))
  <2>1. nodes[n + 1].first \in Int /\ nodes[n + 1].second \in Int
    BY <1>1
  <2> QED
    BY <2>1, RangeFinite DEF ChildIndices, Node
<1>3. ChildIndices(Node(n)) \subseteq Children
  BY <1>1 DEF BlockOf, Node, Children, Indices
<1> QED
  BY <1>2, <1>3, ChildSimsIs DEF Node

(* Statuses are true, from the invariant. *)
LEMMA InvStatuses ==
  ASSUME NEW rolled, NEW L, NEW pos, Inv(rolled, L, pos)
  PROVE  StatusesTrue
<1>1. Statuses(nodes, L, pos)
  BY DEF Inv, Tree
<1>2. \A x \in Live : x.node \in L /\ x.state = pos[x.node]
  BY LiveFacts DEF Alive
<1> QED
  BY <1>1, <1>2 DEF StatusesTrue, Statuses, TrueStatus, Node

(* Edges cover the moves, from the invariant. *)
LEMMA InvCovers ==
  ASSUME NEW rolled, NEW L, NEW pos, Inv(rolled, L, pos)
  PROVE  EdgesCoverMoves
<1>1. Covers(nodes, children, L, pos) /\ Stands(nodes, children, L, root_state, pos) /\ Vectors(nodes, children)
      /\ Links(nodes, children, L)
  BY DEF Inv, Tree
<1> SUFFICES ASSUME NEW x \in Live, is_expanded(Node(x.node))
             PROVE  LET through(k) == {Written(Child(k).semimove) \o r : r \in Rests(apply(x.state, Child(k).semimove))}
                    IN /\ UNION {through(k) : k \in ChildIndices(Node(x.node))} = Moves(x.state)
                       /\ \A j, k \in ChildIndices(Node(x.node)) : j # k => through(j) \intersect through(k) = {}
  BY DEF EdgesCoverMoves
<1> DEFINE n == x.node
           B == ChildIndices(Node(n))
           f == EdgesOf(children)
           through(k) == {Written(Child(k).semimove) \o r : r \in Rests(apply(x.state, Child(k).semimove))}
<1>2. n \in L /\ x.state = pos[n] /\ B = BlockOf(nodes, n)
  BY LiveFacts DEF Alive, BlockOf, Node
<1>3. pos[n] \in State /\ Cover(f, B, pos[n])
  BY <1>1, <1>2 DEF Covers, Stands, Node
<1>4. \A k \in B : k \in Indices(children) /\ f[k] = Child(k).semimove /\ through(k) = Through(pos[n], f[k])
  <2> TAKE k \in B
  <2>1. k \in Indices(children)
    BY <1>1, <1>2, LinkFacts
  <2>2. f[k] = Child(k).semimove
    BY <2>1 DEF EdgesOf, Child
  <2> QED
    BY <1>2, <2>1, <2>2 DEF Through
<1>5. \A k \in B : Through(pos[n], f[k]) \subseteq Moves(pos[n])
  <2> TAKE k \in B
  <2>1. Fits(pos, pos[n], children[k + 1])
    BY <1>1, <1>2 DEF Stands
  <2>2. PICK t \in State : Leads(pos[n], children[k + 1].semimove, t)
    BY <2>1 DEF Fits
  <2>3. f[k] = children[k + 1].semimove
    BY <1>4 DEF Child
  <2> QED
    BY <1>3, <2>2, <2>3, ThroughIs
<1> HIDE DEF B, f, n, through
<1>6. UNION {through(k) : k \in B} = Moves(pos[n])
  <2>1. \A m \in Moves(pos[n]) : \E k \in B : m \in through(k)
    BY <1>3, <1>4 DEF Cover
  <2>2. \A k \in B : through(k) \subseteq Moves(pos[n])
    BY <1>4, <1>5
  <2> QED
    BY <2>1, <2>2
<1>7. \A j, k \in B : j # k => through(j) \intersect through(k) = {}
  BY <1>3, <1>4 DEF Cover
<1> QED
  BY <1>2, <1>6, <1>7 DEF n, B, through

(* Visited children come first, from the invariant. *)
LEMMA InvVisited ==
  ASSUME NEW rolled, NEW L, NEW pos, Inv(rolled, L, pos)
  PROVE  VisitedFirst
<1>1. /\ Tree(nodes, children, L, root_state, pos) /\ Counted(nodes, children, L, root_sim_count, rolled)
      /\ root_sim_count \in Nat
  BY DEF Inv
<1>2. /\ Vectors(nodes, children) /\ Links(nodes, children, L) /\ VisitedOnTop(nodes, children, L)
      /\ L \subseteq Indices(nodes)
  BY <1>1 DEF Tree, Links
<1> SUFFICES ASSUME NEW x \in Live, is_expanded(Node(x.node)), ~is_terminal(Node(x.node))
             PROVE  LET node == Node(x.node)
                        open == {k \in ChildIndices(node) : Child(k).index = 0}
                    IN /\ \A k \in open : \A j \in k..(node.second - 1) : Child(j).index = 0
                       /\ open # {} => FirstUnvisited(children, node, x.sims) = Min(open)
  BY DEF VisitedFirst
<1> DEFINE n == x.node
           node == Node(n)
           open == {k \in ChildIndices(node) : Child(k).index = 0}
<1>3. n \in L /\ x.sims \in Nat
  BY LiveFacts DEF Alive
<1>4. node = nodes[n + 1] /\ ChildIndices(node) = BlockOf(nodes, n) /\ node.first \in Nat /\ node.second \in Nat
  <2>1. n \in Indices(nodes)
    BY <1>2, <1>3
  <2> QED
    BY <1>2, <2>1, VectorFacts DEF Node, BlockOf
<1>5. \A k \in open : \A j \in k..(node.second - 1) : Child(j).index = 0
  <2> TAKE k \in open
  <2> TAKE j \in k..(node.second - 1)
  <2>1. k \in BlockOf(nodes, n) /\ children[k + 1].index = 0
    BY <1>4 DEF Child
  <2>2. k \in node.first..(node.second - 1)
    BY DEF ChildIndices
  <2>3. j \in node.first..(node.second - 1) /\ k <= j
    BY <1>4, <2>2
  <2>4. j \in BlockOf(nodes, n)
    BY <1>4, <2>3 DEF ChildIndices
  <2> QED
    BY <1>2, <1>3, <2>1, <2>3, <2>4 DEF VisitedOnTop, Child
<1>6. BlockSims(children, nodes[n + 1]) <= x.sims
  <2>1. CASE n = 0
    <3>1. nodes[n + 1] = nodes[1] /\ x.sims = root_sim_count /\ ~is_terminal(nodes[1])
      BY <1>4, <2>1, LiveFacts DEF Alive
    <3> QED
      BY <1>1, <1>2, <3>1, SimsEnough
  <2>2. CASE n # 0
    <3>1. PICK p \in L : \E i \in BlockOf(nodes, p) : children[i + 1].index = n /\ x.sims = children[i + 1].sim_count
      BY <2>2, LiveFacts DEF Alive
    <3>2. PICK i \in BlockOf(nodes, p) : children[i + 1].index = n /\ x.sims = children[i + 1].sim_count
      BY <3>1
    <3>3. ~is_terminal(nodes[n + 1])
      BY <1>4
    <3> QED
      BY <1>1, <1>2, <2>2, <3>2, <3>3, SimsEnough
  <2> QED
    BY <2>1, <2>2
<1>7. ASSUME open # {}
      PROVE  FirstUnvisited(children, node, x.sims) = Min(open)
  <2> DEFINE left == {i \in BlockOf(nodes, n) : children[i + 1].index = 0}
  <2>1. open = left
    BY <1>4 DEF Child
  <2>2. \A i \in Indices(children) : children[i + 1].index = 0 <=> children[i + 1].sim_count = 0
    BY <1>1 DEF Counted, CountedBut
  <2>3. Min(left) = FirstUnvisited(children, nodes[n + 1], x.sims)
    BY <1>2, <1>3, <1>6, <1>7, <2>1, <2>2, FirstOpen
  <2> QED
    BY <1>4, <2>1, <2>3
<1> QED
  BY <1>5, <1>7

(* No simulation is lost without roll-ups, from the invariant. *)
LEMMA InvConserved ==
  ASSUME NEW L, NEW pos, Inv(FALSE, L, pos)
  PROVE  VisitsConserved
<1>1. /\ Tree(nodes, children, L, root_state, pos) /\ Counted(nodes, children, L, root_sim_count, FALSE)
      /\ root_sim_count \in Nat
  <2>1. root_sim_count \in 0..MaxSims
    BY DEF Inv
  <2>2. root_sim_count \in Nat
    BY <2>1, SemisplitAssumption
  <2> DEFINE rolled == FALSE
  <2>3. Inv(rolled, L, pos)
    OBVIOUS
  <2> HIDE DEF rolled
  <2>4. Tree(nodes, children, L, root_state, pos) /\ Counted(nodes, children, L, root_sim_count, rolled)
    BY <2>3 DEF Inv
  <2> QED
    BY <2>2, <2>4 DEF rolled
<1>2. Vectors(nodes, children) /\ Links(nodes, children, L)
  BY <1>1 DEF Tree
<1>3. \A k \in Children : Child(k).index = 0 <=> Child(k).sim_count = 0
  BY <1>1 DEF Counted, CountedBut, Children, Indices, Child
<1>4. ASSUME NEW x \in Live, is_expanded(Node(x.node)), ~is_terminal(Node(x.node))
      PROVE  IF x.node = 0 THEN x.sims - ChildSims(0) \in {0, 1}
             ELSE x.sims = ChildSims(x.node) + (IF IS_NODAL /\ ~Node(x.node).is_nodal THEN 0 ELSE 1)
  <2> DEFINE n == x.node
             sims == BlockSims(children, nodes[n + 1])
  <2>1. n \in L /\ x.sims \in Nat
    BY <1>4, LiveFacts DEF Alive
  <2>2. ChildSims(n) = sims /\ sims \in Nat
    <3>1. n \in Indices(nodes)
      BY <1>2, <2>1, LinkFacts
    <3> QED
      BY <1>2, <2>1, <3>1, ChildSimsAre, BlockSimsNat
  <2>3. ~is_terminal(nodes[n + 1])
    BY <1>4 DEF Node
  <2>4. CASE n = 0
    <3>0. x.sims = root_sim_count
      BY <1>4, <2>4, LiveFacts DEF Alive
    <3>1. nodes[n + 1] = nodes[1] /\ x.sims = root_sim_count
      <4>1. n + 1 = 1
        BY <2>4
      <4> QED
        BY <3>0, <4>1
    <3>2. (root_sim_count - sims) - 0 \in {0, 1}
      BY <1>1, <2>3, <3>1 DEF Counted, CountedBut, Surplus, Extra, Nobody
    <3> HIDE DEF sims
    <3>3. root_sim_count - sims \in {0, 1}
      BY <1>1, <2>2, <3>2
    <3> QED
      BY <2>2, <2>4, <3>1, <3>3
  <2>5. CASE n # 0
    <3>1. PICK p \in L : \E i \in BlockOf(nodes, p) : children[i + 1].index = n /\ x.sims = children[i + 1].sim_count
      BY <1>4, <2>5, LiveFacts DEF Alive
    <3>2. PICK i \in BlockOf(nodes, p) : children[i + 1].index = n /\ x.sims = children[i + 1].sim_count
      BY <3>1
    <3>3. CountAt(nodes, children, FALSE, Nobody, children[i + 1])
      BY <1>1, <3>1 DEF Counted, CountedBut
    <3>4. Extra(Nobody, n) = 0
      <4>1. n \in Nat
        BY <1>2, <2>1, LinkFacts
      <4> QED
        BY <4>1 DEF Extra, Nobody
    <3>5. (x.sims - sims) - 0 \in Surplus(FALSE, FALSE, nodes[n + 1])
      BY <2>3, <2>5, <3>2, <3>3, <3>4 DEF CountAt
    <3>6. (x.sims - sims) - 0 = IF IS_NODAL /\ ~nodes[n + 1].is_nodal THEN 0 ELSE 1
      <4> DEFINE y == (x.sims - sims) - 0
      <4>1. y \in Surplus(FALSE, FALSE, nodes[n + 1])
        BY <3>5
      <4> HIDE DEF y
      <4>2. y = IF IS_NODAL /\ ~nodes[n + 1].is_nodal THEN 0 ELSE 1
        BY <4>1 DEF Surplus
      <4> QED
        BY <4>2 DEF y
    <3> DEFINE one == IF IS_NODAL /\ ~nodes[n + 1].is_nodal THEN 0 ELSE 1
    <3>7. one \in Nat /\ (x.sims - sims) - 0 = one
      BY <3>6
    <3> HIDE DEF sims, one
    <3>8. x.sims = sims + one
      BY <2>1, <2>2, <3>7
    <3> QED
      BY <2>2, <2>5, <3>8 DEF one, Node
  <2> QED
    BY <2>4, <2>5
<1> QED
  BY <1>3, <1>4 DEF VisitsConserved

(* With IS_NODAL a turn is in the tree as a whole: a node in its middle has*)
(* no simulation of its own, so that it has children with simulations.     *)
LEMMA TurnsWhole ==
  ASSUME IS_NODAL, NEW L, NEW pos, Inv(FALSE, L, pos)
  PROVE  WholeTurns(L)
<1> DEFINE rolled == FALSE
<1>0. \A node : ~node.is_nodal => Surplus(rolled, FALSE, node) = {0}
  BY DEF Surplus
<1>1. Tree(nodes, children, L, root_state, pos) /\ Counted(nodes, children, L, root_sim_count, rolled)
  BY DEF Inv
<1> HIDE DEF rolled
<1>2. /\ Vectors(nodes, children) /\ Links(nodes, children, L) /\ Statuses(nodes, L, pos)
      /\ pos[0] \in Nodal /\ 0 \in L
  BY <1>1 DEF Tree, Stands, Links
<1> SUFFICES ASSUME NEW n \in L, ~nodes[n + 1].is_nodal, ~is_expanded(nodes[n + 1])
             PROVE  FALSE
  BY DEF WholeTurns
<1>3. n # 0
  BY <1>2 DEF Statuses
<1>4. PICK p \in L : \E i \in BlockOf(nodes, p) : children[i + 1].index = n
  BY <1>2, <1>3 DEF Links
<1>5. PICK i \in BlockOf(nodes, p) : children[i + 1].index = n
  BY <1>4
<1>6. ~is_terminal(nodes[n + 1])
  <2>1. pos[n] \notin Nodal /\ nodes[n + 1].status = TrueStatus(pos[n])
    BY <1>2 DEF Statuses
  <2> QED
    BY <2>1 DEF is_terminal, TrueStatus
<1> DEFINE below == BlockSims(children, nodes[n + 1])
           sims == children[i + 1].sim_count
<1>7. (sims - below) - Extra(Nobody, n) \in {0}
  BY <1>0, <1>1, <1>3, <1>5, <1>6 DEF Counted, CountedBut, CountAt
<1>8. Extra(Nobody, n) = 0
  <2>1. n # Nobody
    BY <1>2, LinkFacts DEF Nobody
  <2> QED
    BY <2>1 DEF Extra
<1>9. below = 0
  <2>1. n \in Indices(nodes) /\ BlockOf(nodes, n) = {}
    BY <1>2, LinkFacts, VectorFacts
  <2> QED
    BY <1>2, <2>1, BlockSimsNat
<1>10. sims \in Nat /\ sims # 0
  <2>1. i \in Indices(children)
    BY <1>2, <1>5, LinkFacts
  <2> QED
    BY <1>1, <1>2, <1>3, <1>5, <2>1, VectorFacts DEF Counted, CountedBut
<1> HIDE DEF sims, below
<1> QED
  BY <1>7, <1>8, <1>9, <1>10

(* Chosen moves are legal and no descent is stuck, from the invariant. *)
LEMMA InvChosen ==
  ASSUME NEW rolled, NEW L, NEW pos, Inv(rolled, L, pos), GETTER = "S" \/ WholeTurns(L)
  PROVE  ChosenMoveLegal
<1> SUFFICES ASSUME pc = "idle"
             PROVE  /\ \A x \in Live : x.state \notin Nodal /\ is_expanded(Node(x.node)) => ChildSims(x.node) > 0
                    /\ \A saved \in SavedPaths :
                         /\ MovesFromPath(saved) # {}
                         /\ MovesFromPath(saved) \subseteq Moves(root_state)
  BY DEF ChosenMoveLegal
<1>1. /\ Tree(nodes, children, L, root_state, pos)
      /\ Vectors(nodes, children) /\ Links(nodes, children, L)
      /\ Counted(nodes, children, L, root_sim_count, rolled)
      /\ Touched(nodes, children, L, Nobody)
      /\ root_state \in Nodal /\ root_state \in State
  BY AtIdle
<1>2. ASSUME NEW x \in Live, x.state \notin Nodal, is_expanded(Node(x.node))
      PROVE  ChildSims(x.node) > 0
  <2> DEFINE n == x.node
             sims == BlockSims(children, nodes[n + 1])
  <2>1. n \in L /\ x.state = pos[n]
    BY <1>2, LiveFacts DEF Alive
  <2>2. ~nodes[n + 1].is_nodal /\ is_expanded(nodes[n + 1])
    <3>1. Statuses(nodes, L, pos)
      BY <1>1 DEF Tree
    <3> QED
      BY <1>2, <2>1, <3>1 DEF Statuses, Node
  <2>3. n \in Indices(nodes) /\ n # Nobody
    BY <1>1, <2>1, LinkFacts DEF Nobody
  <2>4. PICK i \in BlockOf(nodes, n) : children[i + 1].index # 0
    BY <1>1, <2>1, <2>2, <2>3 DEF Touched
  <2>5. children[i + 1].sim_count \in Nat /\ children[i + 1].sim_count # 0
    <3>1. i \in Indices(children)
      BY <1>1, <2>1, <2>4, LinkFacts
    <3> QED
      BY <1>1, <2>4, <3>1, VectorFacts DEF Counted, CountedBut
  <2>6. sims \in Nat /\ children[i + 1].sim_count <= sims /\ ChildSims(n) = sims
    BY <1>1, <2>1, <2>3, <2>4, BlockSimsNat, ChildSimsAre
  <2> DEFINE c == children[i + 1].sim_count
  <2>7. c \in Nat /\ c # 0 /\ c <= sims /\ sims \in Nat
    BY <2>5, <2>6
  <2> HIDE DEF c, sims
  <2> QED
    BY <2>6, <2>7
<1>3. \A saved \in SavedPaths : SavedFrom(L, root_state, saved)
  BY <1>1, SavedPathsFit
<1> QED
  BY <1>1, <1>2, <1>3, MovesFromPathLegal
-----------------------------------------------------------------------------
(* What every state of the semisplit tree satisfies. *)
LEMMA SemisplitTells ==
  SemisplitInv => TypeOK /\ VisitedFirst /\ StatusesTrue /\ EdgesCoverMoves /\ VisitsConserved
<1> SUFFICES ASSUME SemisplitInv
             PROVE  TypeOK /\ VisitedFirst /\ StatusesTrue /\ EdgesCoverMoves /\ VisitsConserved
  OBVIOUS
<1> DEFINE rolled == FALSE
<1>1. PICK L, pos : Inv(rolled, L, pos)
  BY DEF SemisplitInv, IInv
<1>2. VisitsConserved
  BY <1>1, InvConserved
<1> HIDE DEF rolled
<1> QED
  BY <1>1, <1>2, InvTypeOK, InvVisited, InvStatuses, InvCovers

(* Where edges are semimoves, or turns are added as a whole, a move chosen *)
(* is legal in every such state.                                           *)
LEMMA SemisplitChooses ==
  ASSUME GETTER = "S" \/ IS_NODAL
  PROVE  SemisplitInv => ChosenMoveLegal
<1> SUFFICES ASSUME SemisplitInv PROVE ChosenMoveLegal
  OBVIOUS
<1> DEFINE rolled == FALSE
<1>1. PICK L, pos : Inv(rolled, L, pos)
  BY DEF SemisplitInv, IInv
<1>2. IS_NODAL => WholeTurns(L)
  BY <1>1, TurnsWhole
<1> HIDE DEF rolled
<1> QED
  BY <1>1, <1>2, InvChosen

(* Every variable of the semisplit tree keeps its type, the ranges of      *)
(* children stay inside the vector, and counts stay within the simulations.*)
THEOREM SemisplitTypeCorrect == Spec => []TypeOK
BY SemisplitInvariant, SemisplitTells, PTL

(* Visited children stay in front of the others through every removal, and *)
(* the guess from the simulation count finds the first unvisited one.      *)
THEOREM SemisplitVisitedFirst == Spec => []VisitedFirst
BY SemisplitInvariant, SemisplitTells, PTL

(* No simulation of the semisplit tree is lost or counted twice.           *)
THEOREM SemisplitVisitsConserved == Spec => []VisitsConserved
BY SemisplitInvariant, SemisplitTells, PTL

(* Between simulations the statuses of the semisplit tree tell the truth.  *)
THEOREM SemisplitStatusesTrue == Spec => []StatusesTrue
BY SemisplitInvariant, SemisplitTells, PTL

(* The children of a node of the semisplit tree stand for the legal moves  *)
(* of its state, each once.                                                *)
THEOREM SemisplitEdgesCoverMoves == Spec => []EdgesCoverMoves
BY SemisplitInvariant, SemisplitTells, PTL

(* Whatever path of semimoves is saved, the text sent is a legal move, and *)
(* no greedy descent reaches a node it can choose no child of; with single *)
(* actions for edges, too, if the whole turn is added at once.             *)
THEOREM SemisplitChosenMoveLegal ==
  ASSUME GETTER = "S" \/ IS_NODAL
  PROVE  Spec => []ChosenMoveLegal
BY SemisplitInvariant, SemisplitChooses, PTL
=============================================================================
