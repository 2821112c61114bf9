-------------------------- MODULE RollupTreeProofs --------------------------
(***************************************************************************)
(* Rolling up keeps the tree: the new block of a node holds what was there *)
(* but the dissolved nodes, their children in their place, every move of   *)
(* the turn through exactly one of them, and no more simulations than      *)
(* before.  What tells the two trees apart comes last: without roll-ups,   *)
(* where every count is exact, the tree keeps the promise of SearchTree.   *)
(***************************************************************************)
EXTENDS RollupTree, SemisplitTreeProofs

-----------------------------------------------------------------------------
(* Sums over ranges, and over flattened sequences.                         *)

(* A sum over a range is that of its two parts. *)
NatsFrom(f, lo, a, b) == \A k \in 0..((a + b) - 1) : f[lo + k] \in Nat
SumSplits(f, lo, a, b) ==
  /\ RangeSum(f, lo, a + b) = RangeSum(f, lo, a) + RangeSum(f, lo + a, b)
  /\ RangeSum(f, lo, a) \in Nat /\ RangeSum(f, lo + a, b) \in Nat
(* So its first and its second part add up. *)
LEMMA RangeSumSplit ==
  ASSUME NEW lo \in Int, NEW a \in Nat, NEW b \in Nat, NEW f, NatsFrom(f, lo, a, b)
  PROVE  SumSplits(f, lo, a, b)
<1> DEFINE Typed2(c) == \A k \in 0..((a + c) - 1) : f[lo + k] \in Nat
           Splits(c) == /\ RangeSum(f, lo, a + c) = RangeSum(f, lo, a) + RangeSum(f, lo + a, c)
                        /\ RangeSum(f, lo, a) \in Nat /\ RangeSum(f, lo + a, c) \in Nat
           T == {c \in Nat : Typed2(c) => Splits(c)}
<1>1. ASSUME NEW c \in Nat, Typed2(c)
      PROVE  RangeSum(f, lo, a) \in Nat /\ RangeSum(f, lo + a, c) \in Nat
  <2>1. \A i \in lo..((lo + a) - 1) : f[i] \in Nat
    <3> TAKE i \in lo..((lo + a) - 1)
    <3>1. i - lo \in 0..((a + c) - 1) /\ lo + (i - lo) = i
      OBVIOUS
    <3> QED
      BY <1>1, <3>1
  <2>2. \A i \in (lo + a)..(((lo + a) + c) - 1) : f[i] \in Nat
    <3> TAKE i \in (lo + a)..(((lo + a) + c) - 1)
    <3>1. i - lo \in 0..((a + c) - 1) /\ lo + (i - lo) = i
      OBVIOUS
    <3> QED
      BY <1>1, <3>1
  <2>3. lo + a \in Int /\ (lo + a) + c \in Int
    OBVIOUS
  <2>4. SumOver(f, lo..((lo + a) - 1)) \in Nat
    BY <2>1, <2>3, RangeSumNat
  <2>5. SumOver(f, (lo + a)..(((lo + a) + c) - 1)) \in Nat
    BY <2>2, <2>3, RangeSumNat
  <2> QED
    BY <2>4, <2>5 DEF RangeSum
<1>2. 0 \in T
  <2> SUFFICES ASSUME Typed2(0) PROVE Splits(0)
    OBVIOUS
  <2>1. a + 0 = a /\ ((lo + a) + 0) - 1 = (lo + a) - 1 /\ lo + a \in Int
    OBVIOUS
  <2>2. RangeSum(f, lo + a, 0) = 0
    BY <2>1, RangeSumEmpty DEF RangeSum
  <2>3. RangeSum(f, lo, a) \in Nat
    BY <1>1
  <2> QED
    BY <2>1, <2>2, <2>3
<1>3. ASSUME NEW c \in Nat, c \in T
      PROVE  c + 1 \in T
  <2> SUFFICES ASSUME Typed2(c + 1) PROVE Splits(c + 1)
    OBVIOUS
  <2>1. Typed2(c)
    OBVIOUS
  <2>2. Splits(c)
    BY <1>3, <2>1
  <2>3. \A i \in lo..(lo + (a + c)) : f[i] \in Nat
    <3> TAKE i \in lo..(lo + (a + c))
    <3>1. i - lo \in 0..((a + (c + 1)) - 1) /\ lo + (i - lo) = i
      OBVIOUS
    <3> QED
      BY <3>1
  <2>4. \A i \in (lo + a)..((lo + a) + c) : f[i] \in Nat
    BY <2>3
  <2>5. lo + a \in Int /\ a + c \in Nat /\ (lo + a) + c = lo + (a + c) /\ (a + c) + 1 = a + (c + 1)
    OBVIOUS
  <2>6. SumOver(f, lo..((lo + ((a + c) + 1)) - 1)) = SumOver(f, lo..((lo + (a + c)) - 1)) + f[lo + (a + c)]
    BY <2>3, <2>5, RangeSumNext
  <2>7. SumOver(f, (lo + a)..(((lo + a) + (c + 1)) - 1)) = SumOver(f, (lo + a)..(((lo + a) + c) - 1)) + f[(lo + a) + c]
    BY <2>4, <2>5, RangeSumNext
  <2>8. f[lo + (a + c)] \in Nat
    BY <2>3, <2>5
  <2>9. RangeSum(f, lo, a + (c + 1)) = RangeSum(f, lo, a + c) + f[lo + (a + c)]
    BY <2>5, <2>6 DEF RangeSum
  <2>10. RangeSum(f, lo + a, c + 1) = RangeSum(f, lo + a, c) + f[lo + (a + c)]
    BY <2>5, <2>7 DEF RangeSum
  <2> QED
    BY <2>2, <2>8, <2>9, <2>10
<1> HIDE DEF T
<1>4. \A c \in Nat : c \in T
  BY <1>2, <1>3, SetInduction
<1> QED
  BY <1>4 DEF T, NatsFrom, SumSplits

(* The places of the sequences among those of all of them. *)
LEMMA OffsetsOrdered ==
  ASSUME NEW S, NEW seqs \in Seq(Seq(S)), NEW j \in 0..Len(seqs), NEW k \in 0..Len(seqs), j <= k
  PROVE  Offset(seqs, j) <= Offset(seqs, k)
<1> DEFINE m == Len(seqs)
           T == {d \in Nat : j + d <= m => Offset(seqs, j) <= Offset(seqs, j + d)}
<1>1. m \in Nat /\ j \in Nat /\ k \in Nat
  OBVIOUS
<1>2. /\ \A i \in 0..m : Offset(seqs, i) \in Nat
      /\ \A i \in 0..(m - 1) : Len(seqs[i + 1]) \in Nat /\ Offset(seqs, i + 1) = Offset(seqs, i) + Len(seqs[i + 1])
  <2>1. \A i \in 0..(m - 1) : Len(seqs[i + 1]) \in Nat
    OBVIOUS
  <2> QED
    BY <2>1, FlattenTypes
<1> HIDE DEF m
<1>3. 0 \in T
  <2>1. j \in 0..m /\ j + 0 = j
    BY DEF m
  <2> QED
    BY <1>2, <2>1
<1>4. ASSUME NEW d \in Nat, d \in T
      PROVE  d + 1 \in T
  <2> SUFFICES ASSUME j + (d + 1) <= m PROVE Offset(seqs, j) <= Offset(seqs, j + (d + 1))
    OBVIOUS
  <2> DEFINE i == j + d
  <2>1. i \in 0..(m - 1) /\ i \in 0..m /\ j \in 0..m /\ i + 1 = j + (d + 1) /\ i + 1 \in 0..m
    BY <1>1
  <2>2. Offset(seqs, j) <= Offset(seqs, i)
    BY <1>1, <1>4, <2>1
  <2> HIDE DEF i
  <2>3. Offset(seqs, j) <= Offset(seqs, i + 1)
    <3> DEFINE x == Offset(seqs, j)
               y == Offset(seqs, i)
               z == Offset(seqs, i + 1)
               l == Len(seqs[i + 1])
    <3>1. x \in Nat /\ y \in Nat /\ l \in Nat /\ z = y + l
      BY <1>2, <2>1
    <3>2. x <= y
      BY <2>2
    <3> HIDE DEF x, y, z, l
    <3>3. x <= z
      BY <3>1, <3>2
    <3> QED
      BY <3>3 DEF x, z
  <2> QED
    BY <2>1, <2>3
<1> HIDE DEF T
<1>5. \A d \in Nat : d \in T
  BY <1>3, <1>4, SetInduction
<1>6. k - j \in Nat /\ j + (k - j) = k /\ k <= m
  BY <1>1 DEF m
<1>7. k - j \in T
  BY <1>5, <1>6
<1> QED
  BY <1>6, <1>7 DEF T

(* A sum over many sequences, each of which has its bound. *)
Bounds(seqs, f, lo, g, mo) ==
  /\ \A x \in 0..(Offset(seqs, Len(seqs)) - 1) : f[lo + x] \in Nat
  /\ \A k \in 0..(Len(seqs) - 1) :
       g[mo + k] \in Nat /\ RangeSum(f, lo + Offset(seqs, k), Len(seqs[k + 1])) <= g[mo + k]
(* The sum of all is at most that of the bounds. *)
LEMMA FlatSumBounded ==
  ASSUME NEW S, NEW seqs \in Seq(Seq(S)), NEW lo \in Int, NEW mo \in Int, NEW f, NEW g,
         Bounds(seqs, f, lo, g, mo)
  PROVE  RangeSum(f, lo, Offset(seqs, Len(seqs))) <= RangeSum(g, mo, Len(seqs))
<1> DEFINE m == Len(seqs)
           o(k) == Offset(seqs, k)
           T == {k \in Nat : k <= m =>
                  /\ RangeSum(f, lo, o(k)) \in Nat /\ RangeSum(g, mo, k) \in Nat
                  /\ RangeSum(f, lo, o(k)) <= RangeSum(g, mo, k)}
<1>1. /\ m \in Nat
      /\ o(0) = 0
      /\ \A k \in 0..m : o(k) \in Nat /\ o(k) <= o(m)
      /\ \A k \in 0..(m - 1) : Len(seqs[k + 1]) \in Nat /\ o(k + 1) = o(k) + Len(seqs[k + 1])
  <2>1. \A k \in 0..(m - 1) : Len(seqs[k + 1]) \in Nat
    OBVIOUS
  <2>2. m \in Nat /\ m \in 0..m
    OBVIOUS
  <2>3. \A k \in 0..m : o(k) <= o(m)
    BY <2>2, OffsetsOrdered
  <2> QED
    BY <2>1, <2>2, <2>3, FlattenTypes
<1>2. /\ \A x \in 0..(o(m) - 1) : f[lo + x] \in Nat
      /\ \A k \in 0..(m - 1) : g[mo + k] \in Nat /\ RangeSum(f, lo + o(k), Len(seqs[k + 1])) <= g[mo + k]
  BY DEF Bounds
<1> HIDE DEF o, m
<1>3. 0 \in T
  <2>1. lo + 0 = lo /\ mo + 0 = mo
    OBVIOUS
  <2>2. RangeSum(f, lo, 0) = 0 /\ RangeSum(g, mo, 0) = 0
    BY <2>1, RangeSumEmpty DEF RangeSum
  <2> QED
    BY <1>1, <2>2
<1>4. ASSUME NEW k \in Nat, k \in T
      PROVE  k + 1 \in T
  <2> SUFFICES ASSUME k + 1 <= m
               PROVE  /\ RangeSum(f, lo, o(k + 1)) \in Nat /\ RangeSum(g, mo, k + 1) \in Nat
                      /\ RangeSum(f, lo, o(k + 1)) <= RangeSum(g, mo, k + 1)
    OBVIOUS
  <2> DEFINE l == Len(seqs[k + 1])
  <2>1. k \in 0..(m - 1) /\ k \in 0..m /\ k + 1 \in 0..m /\ m \in 0..m
    BY <1>1
  <2>2. o(k) \in Nat /\ l \in Nat /\ o(k + 1) = o(k) + l /\ o(k + 1) <= o(m) /\ o(m) \in Nat
    BY <1>1, <2>1
  <2>3. /\ RangeSum(f, lo, o(k)) \in Nat /\ RangeSum(g, mo, k) \in Nat
        /\ RangeSum(f, lo, o(k)) <= RangeSum(g, mo, k)
    BY <1>1, <1>4, <2>1
  <2>4. g[mo + k] \in Nat /\ RangeSum(f, lo + o(k), l) <= g[mo + k]
    BY <1>2, <2>1
  <2> HIDE DEF l
  <2>5. \A x \in 0..((o(k) + l) - 1) : f[lo + x] \in Nat
    BY <1>2, <2>2
  <2>6. /\ RangeSum(f, lo, o(k) + l) = RangeSum(f, lo, o(k)) + RangeSum(f, lo + o(k), l)
        /\ RangeSum(f, lo + o(k), l) \in Nat
    <3> DEFINE a == o(k)
    <3>1. a \in Nat /\ l \in Nat /\ NatsFrom(f, lo, a, l)
      BY <2>2, <2>5 DEF NatsFrom
    <3> HIDE DEF a
    <3>2. RangeSum(f, lo, a + l) = RangeSum(f, lo, a) + RangeSum(f, lo + a, l) /\ RangeSum(f, lo + a, l) \in Nat
      BY <3>1, RangeSumSplit DEF SumSplits
    <3> QED
      BY <3>2 DEF a
  <2>7. RangeSum(g, mo, k + 1) = RangeSum(g, mo, k) + g[mo + k]
    <3>1. \A i \in mo..(mo + k) : g[i] \in Nat
      <4> TAKE i \in mo..(mo + k)
      <4>1. i - mo \in 0..(m - 1) /\ mo + (i - mo) = i
        BY <1>1, <2>1
      <4> QED
        BY <1>2, <4>1
    <3> QED
      BY <3>1, RangeSumNext DEF RangeSum
  <2> QED
    BY <2>2, <2>3, <2>4, <2>6, <2>7
<1> HIDE DEF T
<1>5. \A k \in Nat : k \in T
  BY <1>3, <1>4, SetInduction
<1> QED
  BY <1>1, <1>5 DEF T, o, m


-----------------------------------------------------------------------------
(* Where each child of a rolled-up block comes from.                       *)

(* An element of the flattened sequence is one of the sequences' elements, *)
(* and earlier elements are of earlier sequences.                          *)
Spot(seqs, p, k, t) ==
  k \in 0..(Len(seqs) - 1) /\ t \in 1..Len(seqs[k + 1]) /\ p = Offset(seqs, k) + t
(* Its place tells which element it is. *)
LEMMA SpotsOrdered ==
  ASSUME NEW S, NEW seqs \in Seq(Seq(S)), NEW p, NEW q, NEW k, NEW t, NEW l, NEW u,
         Spot(seqs, p, k, t), Spot(seqs, q, l, u), p <= q
  PROVE  k <= l /\ (p = q => k = l /\ t = u)
<1> DEFINE o(x) == Offset(seqs, x)
           m == Len(seqs)
<1>1. /\ k \in 0..(m - 1) /\ k + 1 \in 0..m /\ k \in 0..m
      /\ l \in 0..(m - 1) /\ l + 1 \in 0..m /\ l \in 0..m /\ m \in Nat
  BY DEF Spot
<1>2. t \in 1..Len(seqs[k + 1]) /\ u \in 1..Len(seqs[l + 1]) /\ p = o(k) + t /\ q = o(l) + u
  BY DEF Spot
<1>3. /\ o(k) \in Nat /\ o(l) \in Nat
      /\ o(k + 1) = o(k) + Len(seqs[k + 1]) /\ o(l + 1) = o(l) + Len(seqs[l + 1])
  BY <1>1, FlattenTypes
<1>4. Len(seqs[k + 1]) \in Nat /\ Len(seqs[l + 1]) \in Nat
  BY <1>1
<1>5. l < k => o(l + 1) <= o(k)
  <2> SUFFICES ASSUME l < k PROVE o(l + 1) <= o(k)
    OBVIOUS
  <2>1. l + 1 <= k
    BY <1>1
  <2> QED
    BY <1>1, <2>1, OffsetsOrdered
<1>6. k < l => o(k + 1) <= o(l)
  <2> SUFFICES ASSUME k < l PROVE o(k + 1) <= o(l)
    OBVIOUS
  <2>1. k + 1 <= l
    BY <1>1
  <2> QED
    BY <1>1, <2>1, OffsetsOrdered
<1> DEFINE a == Len(seqs[k + 1])
           b == Len(seqs[l + 1])
           ok == o(k)
           ol == o(l)
           okk == o(k + 1)
           oll == o(l + 1)
<1>7. /\ k \in Nat /\ l \in Nat /\ ok \in Nat /\ ol \in Nat /\ a \in Nat /\ b \in Nat
      /\ t \in 1..a /\ u \in 1..b /\ p = ok + t /\ q = ol + u
      /\ okk = ok + a /\ oll = ol + b /\ (l < k => oll <= ok) /\ (k < l => okk <= ol)
  BY <1>1, <1>2, <1>3, <1>4, <1>5, <1>6
<1>8. k = l => ok = ol
  OBVIOUS
<1> HIDE DEF a, b, ok, ol, okk, oll
<1>9. k <= l
  BY <1>7
<1>10. p = q => k = l
  BY <1>7
<1>11. p = q => t = u
  BY <1>7, <1>8, <1>10
<1> QED
  BY <1>9, <1>10, <1>11

(* A child that moves up keeps what it has, its semimove behind that of    *)
(* the child above it.                                                     *)
Lifted(e, child, x) ==
  /\ x \in ChildRecord
  /\ x.semimove = Written(e) \o child.semimove
  /\ x.index = child.index
  /\ x.sim_count = child.sim_count
(* Raised makes just that child. *)
LEMMA RaisedIs ==
  ASSUME NEW e, DotLast(e), NEW child \in ChildRecord
  PROVE  Lifted(e, child, Raised(e, child))
<1>1. e \in Seq(Action) /\ Written(e) = IF Last(e) \in Dot THEN Front(e) ELSE e
  BY WrittenDotLast DEF DotLast
<1>2. Written(e) \in Seq(Action)
  BY <1>1, WrittenSeq
<1> DEFINE w == Written(e)
<1>3. Raised(e, child) = [child EXCEPT !.semimove = w \o @]
  BY <1>1 DEF Raised
<1> HIDE DEF w
<1>4. child.semimove \in Seq(Action) /\ w \in Seq(Action)
  BY <1>2 DEF w, ChildRecord
<1>5. w \o child.semimove \in Seq(Action)
  BY <1>4
<1> DEFINE y == w \o child.semimove
<1>6. Raised(e, child) = [child EXCEPT !.semimove = y]
  BY <1>3
<1>7. y \in Seq(Action)
  BY <1>5
<1> HIDE DEF y
<1>8. /\ [child EXCEPT !.semimove = y] \in ChildRecord
      /\ [child EXCEPT !.semimove = y].semimove = y
      /\ [child EXCEPT !.semimove = y].index = child.index
      /\ [child EXCEPT !.semimove = y].sim_count = child.sim_count
  BY <1>7 DEF ChildRecord
<1> QED
  BY <1>6, <1>8 DEF Lifted, y, w

(* What is put in the place of each child of a node. *)
PartsOf(n, chosen) ==
  [k \in 1..ChildCount(n) |->
     LET i == Node(n).first + k - 1
         below == Block(Child(i).index)
     IN IF i \notin chosen THEN <<Child(i)>>
        ELSE [c \in DOMAIN below |-> Raised(Child(i).semimove, below[c])]]
Ripe(ns, cs, chosen, n) ==
  /\ chosen \subseteq BlockOf(ns, n)
  /\ chosen # {}
  /\ \A i \in chosen : LET c == cs[i + 1].index
                       IN /\ c # 0
                          /\ ~ns[c + 1].is_nodal
                          /\ is_expanded(ns[c + 1])
                          /\ cs[(ns[c + 1].second - 1) + 1].index # 0
PartAt(ns, cs, n, chosen, k, part) ==
  LET i == ns[n + 1].first + k
      c == cs[i + 1].index
      lo == ns[c + 1].first
  IN /\ i \in BlockOf(ns, n)
     /\ part \in Seq(ChildRecord)
     /\ i \notin chosen => part = <<cs[i + 1]>> /\ Len(part) = 1
     /\ i \in chosen =>
          /\ Len(part) = ns[c + 1].second - lo
          /\ \A t \in 1..Len(part) : /\ lo + t - 1 \in BlockOf(ns, c)
                                     /\ Lifted(cs[i + 1].semimove, cs[(lo + t - 1) + 1], part[t])
(* The parts of a new block: a child kept, or those of a dissolved node. *)
LEMMA PartsAre ==
  ASSUME NEW L, NEW root, NEW pos, Tree(nodes, children, L, root, pos), NEW n \in L,
         NEW chosen, Ripe(nodes, children, chosen, n)
  PROVE  /\ PartsOf(n, chosen) \in Seq(Seq(ChildRecord))
         /\ Len(PartsOf(n, chosen)) = nodes[n + 1].second - nodes[n + 1].first
         /\ nodes[n + 1].second - nodes[n + 1].first \in Nat
         /\ \A k \in 0..(Len(PartsOf(n, chosen)) - 1) :
              PartAt(nodes, children, n, chosen, k, PartsOf(n, chosen)[k + 1])
<1>1. Vectors(nodes, children) /\ Links(nodes, children, L) /\ Stands(nodes, children, L, root, pos)
  BY DEF Tree
<1>2. Linked /\ InVector /\ Nodes = Indices(nodes)
  BY <1>1, TreeIsLinked
<1>3. n \in Nodes /\ is_expanded(Node(n))
  <2>1. n \in Nodes
    BY <1>1, <1>2, LinkFacts
  <2>2. PICK i \in BlockOf(nodes, n) : TRUE
    BY DEF Ripe
  <2>3. is_expanded(nodes[n + 1])
    BY <1>1, <1>2, <2>1, <2>2, VectorFacts
  <2> QED
    BY <2>1, <2>3 DEF Node
<1> DEFINE lo == nodes[n + 1].first
           w == nodes[n + 1].second - lo
<1>4. w \in Nat /\ ChildCount(n) = w /\ lo \in Nat
  <2>1. ChildCount(n) = Node(n).second - Node(n).first /\ ChildCount(n) \in Nat
    BY <1>2, <1>3, ChildCountIs
  <2>2. lo \in Nat
    BY <1>1, <1>2, <1>3, VectorFacts
  <2> QED
    BY <2>1, <2>2 DEF Node
<1> DEFINE hi == nodes[n + 1].second
<1>12. hi = lo + w /\ hi \in Nat
  BY <1>4, <1>1, <1>2, <1>3, VectorFacts
<1> HIDE DEF w, hi
<1>5. ASSUME NEW k \in 1..w
      PROVE  /\ k - 1 \in 0..(w - 1)
             /\ PartAt(nodes, children, n, chosen, k - 1, PartsOf(n, chosen)[k])
             /\ PartsOf(n, chosen)[k] \in Seq(ChildRecord)
  <2> DEFINE i == lo + k - 1
             c == children[i + 1].index
             part == PartsOf(n, chosen)[k]
  <2>1. i \in BlockOf(nodes, n) /\ lo + (k - 1) = i /\ k - 1 \in 0..(w - 1)
    <3>1. BlockOf(nodes, n) = lo..(hi - 1)
      BY DEF BlockOf, ChildIndices, hi
    <3> HIDE DEF lo
    <3> QED
      BY <1>4, <1>12, <3>1
  <2>2. part = IF i \notin chosen THEN <<Child(i)>>
               ELSE [t \in DOMAIN Block(c) |-> Raised(Child(i).semimove, Block(c)[t])]
    BY <1>4 DEF PartsOf, Node, Child
  <2>3. Child(i) = children[i + 1] /\ Child(i) \in ChildRecord /\ i \in Indices(children)
    <3>1. i \in Indices(children)
      BY <1>1, <2>1, LinkFacts
    <3>2. children[i + 1] \in ChildRecord
      BY <1>1, <3>1, VectorFacts
    <3> QED
      BY <3>1, <3>2 DEF Child
  <2> HIDE DEF i
  <2>4. CASE i \notin chosen
    <3>1. part = <<children[i + 1]>>
      BY <2>2, <2>3, <2>4
    <3>2. part \in Seq(ChildRecord) /\ Len(part) = 1
      BY <2>3, <3>1
    <3> HIDE DEF part
    <3>3. PartAt(nodes, children, n, chosen, k - 1, part)
      BY <2>1, <2>4, <3>1, <3>2 DEF PartAt
    <3> QED
      BY <2>1, <3>2, <3>3 DEF part
  <2>5. CASE i \in chosen
    <3>1. c # 0 /\ is_expanded(nodes[c + 1]) /\ c \in Nodes
      <4>1. c \in Indices(nodes)
        BY <1>1, <2>3, VectorFacts
      <4> QED
        BY <1>2, <2>5, <4>1 DEF Ripe
    <3> HIDE DEF c
    <3> DEFINE from == nodes[c + 1].first
               b == Block(c)
    <3>2. /\ ChildCount(c) = nodes[c + 1].second - from /\ ChildCount(c) \in Nat
          /\ \A t \in 1..ChildCount(c) : from + t - 1 \in BlockOf(nodes, c)
      BY <1>2, <3>1, ChildCountIs DEF Node, BlockOf
    <3>3. DOMAIN b = 1..ChildCount(c) /\ \A t \in 1..ChildCount(c) : b[t] = children[(from + t - 1) + 1]
      BY DEF Block, Node, Child
    <3>4. DotLast(children[i + 1].semimove)
      <4>1. Fits(pos, pos[n], children[i + 1]) /\ pos[n] \in State
        BY <1>1, <2>1 DEF Stands
      <4> QED
        BY <4>1, LeadsFacts DEF Fits
    <3> DEFINE v == ChildCount(c)
               e == children[i + 1].semimove
    <3>5. v \in Nat /\ part = [t \in 1..v |-> Raised(e, b[t])]
      BY <2>2, <2>3, <2>5, <3>2, <3>3 DEF c
    <3>6. \A t \in 1..v : b[t] \in ChildRecord
      <4> TAKE t \in 1..v
      <4>1. from + t - 1 \in Indices(children)
        BY <1>1, <1>2, <3>1, <3>2, VectorFacts
      <4> QED
        BY <1>1, <3>3, <4>1, VectorFacts
    <3> HIDE DEF v, e, part, b
    <3>7. \A t \in 1..v : Lifted(e, b[t], part[t])
      BY <3>4, <3>5, <3>6, RaisedIs DEF e
    <3>8. part \in Seq(ChildRecord) /\ Len(part) = v
      BY <3>5, <3>7 DEF Lifted
    <3>9. \A t \in 1..v : Lifted(e, children[(from + t - 1) + 1], part[t])
      BY <3>3, <3>7 DEF v, b
    <3>10. PartAt(nodes, children, n, chosen, k - 1, part)
      BY <2>1, <2>5, <3>2, <3>8, <3>9 DEF PartAt, v, e, c
    <3> QED
      BY <2>1, <3>8, <3>10 DEF part
  <2> QED
    BY <2>4, <2>5
<1> DEFINE parts == PartsOf(n, chosen)
<1>6. DOMAIN parts = 1..w
  BY <1>4 DEF PartsOf
<1>7. parts = [k \in 1..w |-> parts[k]]
  BY <1>4 DEF PartsOf
<1> HIDE DEF parts
<1>8. \A k \in 1..w : parts[k] \in Seq(ChildRecord) /\ PartAt(nodes, children, n, chosen, k - 1, parts[k])
  BY <1>5 DEF parts
<1> DEFINE S == Seq(ChildRecord)
<1>9. \A k \in 1..w : parts[k] \in S
  BY <1>8
<1> HIDE DEF S
<1>10. parts \in Seq(S) /\ Len(parts) = w
  BY <1>4, <1>7, <1>9
<1>11. \A k \in 0..(w - 1) : PartAt(nodes, children, n, chosen, k, parts[k + 1])
  <2> TAKE k \in 0..(w - 1)
  <2>1. k + 1 \in 1..w /\ (k + 1) - 1 = k
    BY <1>4
  <2> QED
    BY <1>8, <2>1
<1> QED
  BY <1>4, <1>10, <1>11 DEF S, parts, w

(* The new block of node n: the children up[p], those chosen replaced by   *)
(* the children down[p] of their nodes, each once and in order.            *)
ComesFrom(ns, cs, n, chosen, child, i, j) ==
  /\ i \in BlockOf(ns, n)
  /\ child \in ChildRecord
  /\ i \notin chosen => j = i /\ child = cs[i + 1]
  /\ i \in chosen => /\ j \in BlockOf(ns, cs[i + 1].index)
                     /\ Lifted(cs[i + 1].semimove, cs[j + 1], child)
Rolls(ns, cs, n, chosen, new, up, down) ==
  /\ new \in Seq(ChildRecord)
  /\ \A p \in 1..Len(new) : ComesFrom(ns, cs, n, chosen, new[p], up[p], down[p])
  /\ \A p, q \in 1..Len(new) : p <= q => up[p] <= up[q]
  /\ \A p, q \in 1..Len(new) : down[p] = down[q] => p = q
  /\ \A i \in BlockOf(ns, n) \ chosen : \E p \in 1..Len(new) : up[p] = i
  /\ \A i \in chosen : \A j \in BlockOf(ns, cs[i + 1].index) :
       \E p \in 1..Len(new) : up[p] = i /\ down[p] = j

(* RolledUp is such a block. *)
LEMMA RolledUpIs ==
  ASSUME NEW L, NEW root, NEW pos, Tree(nodes, children, L, root, pos), NEW n \in L,
         NEW chosen, Ripe(nodes, children, chosen, n)
  PROVE  \E up, down : Rolls(nodes, children, n, chosen, RolledUp(n, chosen), up, down)
<1>1. Vectors(nodes, children) /\ Links(nodes, children, L)
  BY DEF Tree
<1> DEFINE parts == PartsOf(n, chosen)
           m == Len(parts)
           new == RolledUp(n, chosen)
           first == nodes[n + 1].first
           from(i) == nodes[children[i + 1].index + 1].first
<1>2. /\ parts \in Seq(Seq(ChildRecord)) /\ m \in Nat
      /\ \A k \in 0..(m - 1) : PartAt(nodes, children, n, chosen, k, parts[k + 1])
      /\ m = nodes[n + 1].second - first
  BY PartsAre
<1>3. new = FlattenSeq(parts)
  BY DEF RolledUp, PartsOf
<1> HIDE DEF parts
<1>4. new \in Seq(ChildRecord) /\ Len(new) = Offset(parts, m) /\ Len(new) \in Nat
  BY <1>2, <1>3, FlattenWhole
<1>5. first \in Nat /\ nodes[n + 1].second \in Nat /\ n \in Indices(nodes)
  BY <1>1, LinkFacts, VectorFacts
<1> HIDE DEF m, new, first
<1>6. \A i \in BlockOf(nodes, n) : i \in Nat /\ children[i + 1].index \in Indices(nodes) /\ from(i) \in Nat
  <2> TAKE i \in BlockOf(nodes, n)
  <2>1. i \in Indices(children)
    BY <1>1, LinkFacts
  <2>2. i \in Nat /\ children[i + 1].index \in Indices(nodes)
    BY <1>1, <2>1, VectorFacts
  <2> QED
    BY <1>1, <2>2, VectorFacts
<1> HIDE DEF from
<1> DEFINE spot == [p \in 1..Len(new) |-> CHOOSE x : Spot(parts, p, x[1], x[2])]
           K(p) == spot[p][1]
           T(p) == spot[p][2]
           up == [p \in 1..Len(new) |-> first + K(p)]
           down == [p \in 1..Len(new) |->
                      IF first + K(p) \in chosen THEN from(first + K(p)) + T(p) - 1 ELSE first + K(p)]
<1>7. \A p \in 1..Len(new) : Spot(parts, p, K(p), T(p))
  <2> TAKE p \in 1..Len(new)
  <2>1. p \in 1..Offset(parts, Len(parts))
    BY <1>4 DEF m
  <2>2. PICK k \in 0..(Len(parts) - 1) : \E t \in 1..Len(parts[k + 1]) : p = Offset(parts, k) + t
    BY <1>2, <2>1, FlattenPlaces
  <2>3. PICK t \in 1..Len(parts[k + 1]) : p = Offset(parts, k) + t
    BY <2>2
  <2>4. Spot(parts, p, <<k, t>>[1], <<k, t>>[2])
    BY <2>2, <2>3 DEF Spot
  <2>5. \E x : Spot(parts, p, x[1], x[2])
    BY <2>4
  <2> DEFINE x == CHOOSE x : Spot(parts, p, x[1], x[2])
  <2>6. Spot(parts, p, x[1], x[2])
    BY <2>5
  <2>7. spot[p] = x
    OBVIOUS
  <2> QED
    BY <2>6, <2>7
<1> HIDE DEF spot
<1>8. \A p \in 1..Len(new) : K(p) \in 0..(m - 1) /\ T(p) \in 1..Len(parts[K(p) + 1]) /\ new[p] = parts[K(p) + 1][T(p)]
  <2> TAKE p \in 1..Len(new)
  <2>1. Spot(parts, p, K(p), T(p))
    BY <1>7
  <2>2. K(p) \in 0..(Len(parts) - 1) /\ T(p) \in 1..Len(parts[K(p) + 1]) /\ p = Offset(parts, K(p)) + T(p)
    BY <2>1 DEF Spot
  <2>3. Placed(parts, K(p), T(p))
    BY <1>2, <2>2, FlattenPlaced
  <2> QED
    BY <1>3, <2>2, <2>3 DEF Placed, m
<1>9. \A p \in 1..Len(new) : ComesFrom(nodes, children, n, chosen, new[p], up[p], down[p])
  <2> TAKE p \in 1..Len(new)
  <2> DEFINE k == K(p)
             t == T(p)
             i == first + k
             j == from(i) + t - 1
  <2>1. k \in 0..(m - 1) /\ t \in 1..Len(parts[k + 1]) /\ new[p] = parts[k + 1][t]
    BY <1>8
  <2>2. up[p] = i /\ down[p] = IF i \in chosen THEN j ELSE i
    OBVIOUS
  <2> HIDE DEF k, t, up, down
  <2>3. PartAt(nodes, children, n, chosen, k, parts[k + 1])
    BY <1>2, <2>1
  <2>4. i \in BlockOf(nodes, n)
    BY <2>3 DEF PartAt, first
  <2>5. CASE i \notin chosen
    <3>1. parts[k + 1] = <<children[i + 1]>> /\ Len(parts[k + 1]) = 1
      BY <2>3, <2>5 DEF PartAt, first
    <3>2. t = 1 /\ new[p] = children[i + 1]
      BY <2>1, <3>1
    <3>3. children[i + 1] \in ChildRecord
      <4>1. i \in Indices(children)
        BY <1>1, <2>4, LinkFacts
      <4> QED
        BY <1>1, <4>1, VectorFacts
    <3> QED
      BY <2>2, <2>4, <2>5, <3>2, <3>3 DEF ComesFrom
  <2>6. CASE i \in chosen
    <3>1. j \in BlockOf(nodes, children[i + 1].index) /\ Lifted(children[i + 1].semimove, children[j + 1], new[p])
      BY <2>1, <2>3, <2>6 DEF PartAt, first, from
    <3> QED
      BY <2>2, <2>4, <2>6, <3>1 DEF ComesFrom, Lifted
  <2> QED
    BY <2>5, <2>6
<1>10. \A p, q \in 1..Len(new) : p <= q => K(p) <= K(q) /\ (p = q => K(p) = K(q) /\ T(p) = T(q))
  BY <1>2, <1>7, SpotsOrdered
<1>11. \A p, q \in 1..Len(new) : p <= q => up[p] <= up[q]
  <2> TAKE p, q \in 1..Len(new)
  <2> SUFFICES ASSUME p <= q PROVE up[p] <= up[q]
    OBVIOUS
  <2>1. K(p) <= K(q) /\ K(p) \in 0..(m - 1) /\ K(q) \in 0..(m - 1)
    BY <1>8, <1>10
  <2>2. up[p] = first + K(p) /\ up[q] = first + K(q)
    OBVIOUS
  <2> DEFINE a == K(p)
             b == K(q)
  <2>3. a <= b /\ a \in Nat /\ b \in Nat /\ up[p] = first + a /\ up[q] = first + b
    BY <1>2, <2>1, <2>2
  <2> HIDE DEF a, b, up
  <2> QED
    BY <1>5, <2>3
<1>12. ASSUME NEW p \in 1..Len(new), NEW k \in 0..(m - 1), NEW t \in 1..Len(parts[k + 1]), p = Offset(parts, k) + t
       PROVE  K(p) = k /\ T(p) = t
  <2>1. Spot(parts, p, k, t)
    BY <1>12 DEF Spot, m
  <2>2. Spot(parts, p, K(p), T(p)) /\ p <= p
    BY <1>7, <1>4
  <2> QED
    BY <1>2, <2>1, <2>2, SpotsOrdered
<1>13. ASSUME NEW k \in 0..(m - 1), NEW t \in 1..Len(parts[k + 1])
       PROVE  \E p \in 1..Len(new) : K(p) = k /\ T(p) = t
  <2>1. Placed(parts, k, t)
    BY <1>2, FlattenPlaced DEF m
  <2>2. Offset(parts, k) + t \in 1..Len(new)
    BY <1>3, <2>1 DEF Placed
  <2> QED
    BY <1>12, <2>2
<1>14. \A i \in BlockOf(nodes, n) : i - first \in 0..(m - 1) /\ first + (i - first) = i
  <2>1. BlockOf(nodes, n) = first..(nodes[n + 1].second - 1)
    BY DEF BlockOf, ChildIndices, first
  <2> QED
    BY <1>2, <1>5, <2>1
<1>15. \A i \in BlockOf(nodes, n) \ chosen : \E p \in 1..Len(new) : up[p] = i
  <2> TAKE i \in BlockOf(nodes, n) \ chosen
  <2> DEFINE k == i - first
  <2>1. k \in 0..(m - 1) /\ first + k = i
    BY <1>14
  <2> HIDE DEF k
  <2>2. PartAt(nodes, children, n, chosen, k, parts[k + 1])
    BY <1>2, <2>1
  <2>3. Len(parts[k + 1]) = 1
    BY <2>1, <2>2 DEF PartAt, first
  <2>4. 1 \in 1..Len(parts[k + 1])
    BY <2>3
  <2>5. PICK p \in 1..Len(new) : K(p) = k
    BY <1>13, <2>1, <2>4
  <2> QED
    BY <2>1, <2>5
<1>16. \A i \in chosen : \A j \in BlockOf(nodes, children[i + 1].index) : \E p \in 1..Len(new) : up[p] = i /\ down[p] = j
  <2> TAKE i \in chosen
  <2> DEFINE c == children[i + 1].index
             k == i - first
             lo == nodes[c + 1].first
             hi == nodes[c + 1].second
  <2> TAKE j \in BlockOf(nodes, c)
  <2>1. i \in BlockOf(nodes, n)
    BY DEF Ripe
  <2>2. k \in 0..(m - 1) /\ first + k = i
    BY <1>14, <2>1
  <2> HIDE DEF k
  <2>3. PartAt(nodes, children, n, chosen, k, parts[k + 1])
    BY <1>2, <2>2
  <2>4. Len(parts[k + 1]) = hi - lo
    BY <2>2, <2>3 DEF PartAt, first
  <2>5. lo \in Nat /\ hi \in Nat /\ j \in lo..(hi - 1)
    <3>1. c \in Indices(nodes)
      BY <1>6, <2>1
    <3> QED
      BY <1>1, <3>1, VectorFacts DEF BlockOf, ChildIndices
  <2> DEFINE t == j - lo + 1
  <2> HIDE DEF lo, hi
  <2>6. t \in 1..Len(parts[k + 1]) /\ lo + t - 1 = j
    BY <2>4, <2>5
  <2> HIDE DEF t
  <2>7. PICK p \in 1..Len(new) : K(p) = k /\ T(p) = t
    BY <1>13, <2>2, <2>6
  <2>8. up[p] = i
    BY <2>2, <2>7
  <2>9. down[p] = from(i) + t - 1
    BY <2>2, <2>7
  <2> QED
    BY <2>6, <2>8, <2>9 DEF from, lo
<1>17. \A p, q \in 1..Len(new) : down[p] = down[q] => p = q
  <2> TAKE p, q \in 1..Len(new)
  <2> SUFFICES ASSUME down[p] = down[q] PROVE p = q
    OBVIOUS
  <2>1. up[p] = up[q]
    <3> HIDE DEF up, down
    <3>1. /\ ComesFrom(nodes, children, n, chosen, new[p], up[p], down[p])
          /\ ComesFrom(nodes, children, n, chosen, new[q], up[q], down[q])
      BY <1>9
    <3>2. \A i \in chosen : children[i + 1].index \in L /\ children[i + 1].index # 0 /\ i \in BlockOf(nodes, n)
                            /\ n < children[i + 1].index /\ n # children[i + 1].index
      <4> TAKE i \in chosen
      <4>1. i \in BlockOf(nodes, n) /\ children[i + 1].index # 0
        BY DEF Ripe
      <4>2. children[i + 1].index \in L /\ n < children[i + 1].index
        BY <1>1, <4>1, LinkFacts
      <4>3. n \in Nat /\ children[i + 1].index \in Nat
        BY <1>1, <4>2, LinkFacts
      <4> QED
        BY <4>1, <4>2, <4>3
    <3>3. CASE up[p] \notin chosen /\ up[q] \notin chosen
      BY <3>1, <3>3 DEF ComesFrom
    <3>4. CASE up[p] \in chosen /\ up[q] \notin chosen
      <4>1. down[q] \in BlockOf(nodes, n) /\ down[p] \in BlockOf(nodes, children[up[p] + 1].index)
        BY <3>1, <3>4 DEF ComesFrom
      <4>2. n = children[up[p] + 1].index
        BY <1>1, <3>2, <3>4, <4>1 DEF Links
      <4> QED
        BY <3>2, <3>4, <4>2
    <3>5. CASE up[p] \notin chosen /\ up[q] \in chosen
      <4>1. down[p] \in BlockOf(nodes, n) /\ down[q] \in BlockOf(nodes, children[up[q] + 1].index)
        BY <3>1, <3>5 DEF ComesFrom
      <4>2. n = children[up[q] + 1].index
        BY <1>1, <3>2, <3>5, <4>1 DEF Links
      <4> QED
        BY <3>2, <3>5, <4>2
    <3>6. CASE up[p] \in chosen /\ up[q] \in chosen
      <4>1. down[p] \in BlockOf(nodes, children[up[p] + 1].index) /\ down[q] \in BlockOf(nodes, children[up[q] + 1].index)
        BY <3>1, <3>6 DEF ComesFrom
      <4>2. children[up[p] + 1].index = children[up[q] + 1].index
        BY <1>1, <3>2, <3>6, <4>1 DEF Links
      <4> QED
        BY <1>1, <3>2, <3>6, <4>2 DEF Links
    <3> QED
      BY <3>3, <3>4, <3>5, <3>6
  <2>2. K(p) \in 0..(m - 1) /\ K(q) \in 0..(m - 1) /\ T(p) \in 1..Len(parts[K(p) + 1]) /\ T(q) \in 1..Len(parts[K(q) + 1])
    BY <1>8
  <2>3. K(p) = K(q)
    <3>1. first + K(p) = first + K(q)
      BY <2>1
    <3> DEFINE a == K(p)
               b == K(q)
    <3>2. a \in Nat /\ b \in Nat /\ first + a = first + b
      BY <1>2, <2>2, <3>1
    <3> HIDE DEF a, b
    <3>3. a = b
      BY <1>5, <3>2
    <3> QED
      BY <3>3 DEF a, b
  <2>4. T(p) = T(q)
    <3> DEFINE k == K(p)
               i == first + k
               x == from(i)
               a == T(p)
               b == T(q)
    <3>1. down[p] = (IF i \in chosen THEN x + a - 1 ELSE i) /\ down[q] = IF i \in chosen THEN x + b - 1 ELSE i
      BY <2>3
    <3>2. a \in 1..Len(parts[k + 1]) /\ b \in 1..Len(parts[k + 1]) /\ k \in 0..(m - 1)
      BY <2>2, <2>3
    <3> HIDE DEF k, a, b, down
    <3>3. PartAt(nodes, children, n, chosen, k, parts[k + 1])
      BY <1>2, <3>2
    <3>4. i \in BlockOf(nodes, n)
      BY <3>3 DEF PartAt, first
    <3>5. a = b
      <4>1. CASE i \in chosen
        <5>1. x \in Nat
          BY <1>6, <3>4
        <5>2. x + a - 1 = x + b - 1
          BY <3>1, <4>1
        <5>3. a \in Nat /\ b \in Nat
          BY <1>2, <3>2
        <5> HIDE DEF x
        <5> QED
          BY <5>1, <5>2, <5>3
      <4>2. CASE i \notin chosen
        <5>1. Len(parts[k + 1]) = 1
          BY <3>3, <4>2 DEF PartAt, first
        <5> QED
          BY <3>2, <5>1
      <4> QED
        BY <4>1, <4>2
    <3> QED
      BY <3>5 DEF a, b
  <2>5. Spot(parts, p, K(p), T(p)) /\ Spot(parts, q, K(q), T(q))
    BY <1>7
  <2> QED
    BY <2>3, <2>4, <2>5 DEF Spot
<1> HIDE DEF up, down
<1>18. Rolls(nodes, children, n, chosen, new, up, down)
  BY <1>4, <1>9, <1>11, <1>15, <1>16, <1>17 DEF Rolls
<1> QED
  BY <1>18 DEF new

(* Children that move up bring no more simulations than the child above    *)
(* them had.                                                               *)
LEMMA RangeSumOne ==
  ASSUME NEW lo \in Int, NEW f, f[lo] \in Nat
  PROVE  RangeSum(f, lo, 1) = f[lo]
<1>1. \A i \in lo..(lo + 0) : f[i] \in Nat
  <2>1. \A i \in lo..(lo + 0) : i = lo
    OBVIOUS
  <2> QED
    BY <2>1
<1>2. SumOver(f, lo..((lo + (0 + 1)) - 1)) = SumOver(f, lo..((lo + 0) - 1)) + f[lo + 0]
  BY <1>1, RangeSumNext
<1>3. SumOver(f, lo..((lo + 0) - 1)) = 0
  <2>1. (lo + 0) - 1 = lo - 1
    OBVIOUS
  <2> QED
    BY <2>1, RangeSumEmpty
<1>4. 0 + 1 = 1 /\ lo + 0 = lo
  OBVIOUS
<1>5. RangeSum(f, lo, 1) = 0 + f[lo]
  BY <1>2, <1>3, <1>4 DEF RangeSum
<1> QED
  BY <1>5

(* The new block remembers no more simulations than the old one. *)
LEMMA RolledSims ==
  ASSUME NEW L, NEW root, NEW pos, Tree(nodes, children, L, root, pos),
         NEW total \in Nat, NEW rolled, Counted(nodes, children, L, total, rolled), NEW n \in L,
         NEW chosen, Ripe(nodes, children, chosen, n)
  PROVE  RangeSum(SimCounts(RolledUp(n, chosen)), 0, Len(RolledUp(n, chosen))) <= BlockSims(children, nodes[n + 1])
<1>1. Vectors(nodes, children) /\ Links(nodes, children, L) /\ Statuses(nodes, L, pos)
  BY DEF Tree
<1> DEFINE parts == PartsOf(n, chosen)
           m == Len(parts)
           new == RolledUp(n, chosen)
           first == nodes[n + 1].first
           f == SimCounts(new)
           g == SimCounts(children)
<1>2. /\ parts \in Seq(Seq(ChildRecord)) /\ m \in Nat
      /\ \A k \in 0..(m - 1) : PartAt(nodes, children, n, chosen, k, parts[k + 1])
      /\ m = nodes[n + 1].second - first
  BY PartsAre
<1>3. new = FlattenSeq(parts)
  BY DEF RolledUp, PartsOf
<1> HIDE DEF parts
<1>4. new \in Seq(ChildRecord) /\ Len(new) = Offset(parts, m) /\ Len(new) \in Nat
  BY <1>2, <1>3, FlattenWhole
<1>5. first \in Nat /\ nodes[n + 1].second \in Nat /\ n \in Indices(nodes)
  BY <1>1, LinkFacts, VectorFacts
<1> HIDE DEF m, new, first
<1>6. \A x \in 0..(Len(new) - 1) : f[x] = new[x + 1].sim_count /\ f[x] \in Nat
  <2> TAKE x \in 0..(Len(new) - 1)
  <2>1. x + 1 \in 1..Len(new)
    BY <1>4
  <2>2. new[x + 1] \in ChildRecord
    BY <1>4, <2>1
  <2>3. f[x] = new[x + 1].sim_count
    BY DEF SimCounts
  <2> QED
    BY <2>2, <2>3 DEF ChildRecord
<1>7. \A i \in Indices(children) : i \in Int /\ g[i] = children[i + 1].sim_count /\ g[i] \in Nat
  <2> TAKE i \in Indices(children)
  <2>1. g[i] = children[i + 1].sim_count
    BY DEF SimCounts, Indices
  <2> QED
    BY <1>1, <2>1, VectorFacts
<1> HIDE DEF f, g
<1>8. ASSUME NEW k \in 0..(m - 1)
      PROVE  LET o == Offset(parts, k)
                 w == Len(parts[k + 1])
             IN /\ o \in Nat /\ w \in Nat
                /\ \A x \in 0..(w - 1) : o + x \in 0..(Len(new) - 1) /\ f[o + x] = parts[k + 1][x + 1].sim_count
  <2> DEFINE o == Offset(parts, k)
             w == Len(parts[k + 1])
  <2>1. o \in Nat /\ w \in Nat
    <3>1. k \in 0..Len(parts) /\ k + 1 \in 1..Len(parts)
      BY <1>2 DEF m
    <3>2. parts[k + 1] \in Seq(ChildRecord)
      BY <1>2, <3>1
    <3> QED
      BY <1>2, <3>1, <3>2, FlattenTypes
  <2>2. ASSUME NEW x \in 0..(w - 1)
        PROVE  o + x \in 0..(Len(new) - 1) /\ f[o + x] = parts[k + 1][x + 1].sim_count
    <3>1. x + 1 \in 1..Len(parts[k + 1])
      BY <2>1
    <3> DEFINE t == x + 1
    <3>2. t \in 1..Len(parts[k + 1]) /\ k \in 0..(Len(parts) - 1)
      BY <3>1 DEF m
    <3>3. t = x + 1 /\ x \in Nat
      BY <2>1
    <3> HIDE DEF t
    <3>4. Placed(parts, k, t)
      BY <1>2, <3>2, FlattenPlaced
    <3>5. o + t \in 1..Len(new) /\ new[o + t] = parts[k + 1][t]
      BY <1>3, <3>4 DEF Placed
    <3> HIDE DEF o
    <3>6. o + x \in 0..(Len(new) - 1) /\ (o + x) + 1 = o + t
      BY <1>4, <2>1, <3>3, <3>5
    <3>7. f[o + x] = new[o + t].sim_count
      BY <1>6, <3>6
    <3> QED
      BY <3>3, <3>5, <3>6, <3>7
  <2> QED
    BY <2>1, <2>2
<1>9. ASSUME NEW k \in 0..(m - 1)
      PROVE  g[first + k] \in Nat /\ RangeSum(f, 0 + Offset(parts, k), Len(parts[k + 1])) <= g[first + k]
  <2> DEFINE o == Offset(parts, k)
             part == parts[k + 1]
             w == Len(part)
             i == first + k
             c == children[i + 1].index
             lo == nodes[c + 1].first
  <2>1. /\ o \in Nat /\ w \in Nat
        /\ \A x \in 0..(w - 1) : o + x \in 0..(Len(new) - 1) /\ f[o + x] = part[x + 1].sim_count
    BY <1>8
  <2>2. PartAt(nodes, children, n, chosen, k, part)
    BY <1>2
  <2> HIDE DEF part, o
  <2>3. i \in BlockOf(nodes, n) /\ i \in Indices(children)
    <3>1. i \in BlockOf(nodes, n)
      BY <2>2 DEF PartAt, first
    <3> QED
      BY <1>1, <3>1, LinkFacts
  <2>4. i \in Int /\ g[i] = children[i + 1].sim_count /\ g[i] \in Nat
    BY <1>7, <2>3
  <2>5. CASE i \notin chosen
    <3>1. part = <<children[i + 1]>> /\ w = 1
      BY <2>2, <2>5 DEF PartAt, first
    <3>2. 0 \in 0..(w - 1) /\ o + 0 = o
      BY <2>1, <3>1
    <3>3. f[o + 0] = part[0 + 1].sim_count
      BY <2>1, <3>2
    <3>4. f[o] = g[i]
      <4>1. 0 + 1 = 1 /\ part[1] = children[i + 1]
        BY <3>1
      <4>2. part[0 + 1] = part[1]
        BY <4>1
      <4> QED
        BY <2>4, <3>2, <3>3, <4>1, <4>2
    <3>5. RangeSum(f, o, 1) = g[i]
      BY <2>1, <2>4, <3>4, RangeSumOne
    <3>6. 0 + o = o /\ g[i] <= g[i]
      BY <2>1, <2>4
    <3> QED
      BY <2>4, <3>1, <3>5, <3>6 DEF o, part
  <2>6. CASE i \in chosen
    <3>1. c # 0 /\ ~nodes[c + 1].is_nodal /\ c \in L
      <4>1. c # 0 /\ ~nodes[c + 1].is_nodal
        BY <2>6 DEF Ripe
      <4> QED
        BY <1>1, <2>3, <4>1, LinkFacts
    <3>2. ~is_terminal(nodes[c + 1])
      BY <1>1, <3>1 DEF Statuses, TrueStatus, is_terminal
    <3>3. BlockSims(children, nodes[c + 1]) <= g[i]
      BY <1>1, <2>3, <2>4, <3>1, <3>2, SimsEnough
    <3>4. /\ w = nodes[c + 1].second - lo
          /\ \A t \in 1..w : /\ lo + t - 1 \in BlockOf(nodes, c)
                             /\ Lifted(children[i + 1].semimove, children[(lo + t - 1) + 1], part[t])
      BY <2>2, <2>6 DEF PartAt, first
    <3>5. lo \in Nat /\ nodes[c + 1].second \in Nat
      BY <1>1, <3>1, LinkFacts, VectorFacts
    <3> DEFINE e == children[i + 1].semimove
    <3>6. SameValues(g, lo, f, o, w)
      <4>1. ASSUME NEW x \in 0..(w - 1)
            PROVE  g[lo + x] \in Nat /\ f[o + x] = g[lo + x]
        <5>1. x + 1 \in 1..w
          BY <2>1
        <5>2. lo + (x + 1) - 1 \in BlockOf(nodes, c) /\ Lifted(e, children[(lo + (x + 1) - 1) + 1], part[x + 1])
          BY <3>4, <5>1
        <5>3. lo + (x + 1) - 1 = lo + x
          BY <2>1, <3>5
        <5>4. lo + x \in BlockOf(nodes, c) /\ part[x + 1].sim_count = children[(lo + x) + 1].sim_count
          BY <5>2, <5>3 DEF Lifted
        <5>5. lo + x \in Indices(children)
          BY <1>1, <3>1, <5>4, LinkFacts
        <5>6. g[lo + x] = children[(lo + x) + 1].sim_count /\ g[lo + x] \in Nat
          BY <1>7, <5>5
        <5>7. f[o + x] = part[x + 1].sim_count
          BY <2>1
        <5> QED
          BY <5>4, <5>6, <5>7
      <4> QED
        BY <4>1 DEF SameValues
    <3>7. RangeSum(f, o, w) = RangeSum(g, lo, w)
      BY <2>1, <3>5, <3>6, RangeSumSame
    <3>8. RangeSum(g, lo, w) = BlockSims(children, nodes[c + 1])
      <4> DEFINE hi == nodes[c + 1].second
      <4>1. lo \in Nat /\ hi \in Nat /\ w = hi - lo
        BY <3>4, <3>5
      <4>2. BlockSims(children, nodes[c + 1]) = SumOver(g, lo..(hi - 1))
        BY DEF BlockSims, ChildIndices, g
      <4> HIDE DEF lo, hi, w
      <4>3. (lo + w) - 1 = hi - 1
        BY <4>1
      <4> QED
        BY <4>2, <4>3 DEF RangeSum
    <3>9. 0 + o = o
      BY <2>1
    <3> QED
      BY <2>4, <3>3, <3>7, <3>8, <3>9 DEF o, part
  <2> QED
    BY <2>5, <2>6
<1>10. Bounds(parts, f, 0, g, first)
  <2>1. \A x \in 0..(Offset(parts, Len(parts)) - 1) : f[0 + x] \in Nat
    <3> TAKE x \in 0..(Offset(parts, Len(parts)) - 1)
    <3>1. x \in 0..(Len(new) - 1)
      BY <1>4 DEF m
    <3>2. 0 + x = x
      BY <3>1
    <3> QED
      BY <1>6, <3>1, <3>2
  <2>2. \A k \in 0..(Len(parts) - 1) :
          g[first + k] \in Nat /\ RangeSum(f, 0 + Offset(parts, k), Len(parts[k + 1])) <= g[first + k]
    BY <1>9 DEF m
  <2> QED
    BY <2>1, <2>2 DEF Bounds
<1>11. RangeSum(f, 0, Offset(parts, Len(parts))) <= RangeSum(g, first, Len(parts))
  BY <1>2, <1>5, <1>10, FlatSumBounded
<1>12. RangeSum(g, first, m) = BlockSims(children, nodes[n + 1])
  <2> DEFINE hi == nodes[n + 1].second
  <2>1. hi \in Nat /\ m = hi - first
    BY <1>2, <1>5
  <2>2. BlockSims(children, nodes[n + 1]) = SumOver(g, first..(hi - 1))
    BY DEF BlockSims, ChildIndices, g, first
  <2> HIDE DEF hi
  <2>3. (first + m) - 1 = hi - 1
    BY <1>5, <2>1
  <2> QED
    BY <2>2, <2>3 DEF RangeSum
<1>13. RangeSum(f, 0, Len(new)) <= BlockSims(children, nodes[n + 1])
  BY <1>4, <1>11, <1>12 DEF m
<1> QED
  BY <1>13 DEF f, new

(* A tree in which node n has the new block, and no longer the nodes       *)
(* dissolved into it.                                                      *)
Rebuilt(ns, cs, n, new, ms, ds) ==
  /\ ms \in Seq(NodeRecord) /\ ds \in Seq(ChildRecord)
  /\ Len(ms) = Len(ns) /\ Len(ds) = Len(cs) + Len(new)
  /\ \A k \in Indices(ns) : k # n => ms[k + 1] = ns[k + 1]
  /\ ms[n + 1] = [first |-> Len(cs), second |-> Len(cs) + Len(new),
                  is_nodal |-> ns[n + 1].is_nodal, status |-> ns[n + 1].status]
  /\ \A i \in Indices(cs) : ds[i + 1] = cs[i + 1]
  /\ \A p \in 1..Len(new) : ds[Len(cs) + p] = new[p]
Dissolved(cs, chosen) == {cs[i + 1].index : i \in chosen}
RollsUp(ns, cs, L, n, chosen, new, up, down, ms, ds) ==
  /\ n \in L
  /\ Ripe(ns, cs, chosen, n)
  /\ Rolls(ns, cs, n, chosen, new, up, down)
  /\ Rebuilt(ns, cs, n, new, ms, ds)

(* The nodes dissolved are in the middle of a turn, below n, and all their *)
(* children were visited.                                                  *)
Dissolves(ns, cs, L, pos, n, i) ==
  LET c == cs[i + 1].index
  IN /\ i \in BlockOf(ns, n) /\ i \in Indices(cs)
     /\ c \in L /\ c \in Indices(ns) /\ c \in Nat /\ c # 0 /\ n < c /\ n # c
     /\ pos[n] \in State /\ pos[c] \in State /\ pos[c] \notin Nodal
     /\ Leads(pos[n], cs[i + 1].semimove, pos[c])
     /\ ~is_terminal(ns[c + 1]) /\ is_expanded(ns[c + 1])
     /\ ns[c + 1].second - 1 \in BlockOf(ns, c)
     /\ \A j \in BlockOf(ns, c) : cs[j + 1].index # 0
(* Every chosen child leads to such a node. *)
LEMMA ChosenDissolve ==
  ASSUME NEW ns, NEW cs, NEW L, NEW root, NEW pos, Tree(ns, cs, L, root, pos), NEW n \in L,
         NEW chosen, Ripe(ns, cs, chosen, n)
  PROVE  \A i \in chosen : Dissolves(ns, cs, L, pos, n, i)
<1> TAKE i \in chosen
<1> DEFINE c == cs[i + 1].index
           last == ns[c + 1].second - 1
<1>1. Vectors(ns, cs) /\ Links(ns, cs, L) /\ Stands(ns, cs, L, root, pos) /\ Statuses(ns, L, pos) /\ VisitedOnTop(ns, cs, L)
  BY DEF Tree
<1>2. /\ i \in BlockOf(ns, n) /\ c # 0 /\ ~ns[c + 1].is_nodal /\ is_expanded(ns[c + 1]) /\ cs[last + 1].index # 0
  BY DEF Ripe
<1>3. i \in Indices(cs) /\ c \in L /\ n < c
  BY <1>1, <1>2, LinkFacts
<1>4. c \in Indices(ns) /\ c \in Nat /\ n \in Nat
  BY <1>1, <1>3, LinkFacts
<1>5. pos[n] \in State /\ pos[c] \in State /\ Fits(pos, pos[n], cs[i + 1])
  BY <1>1, <1>2, <1>3 DEF Stands
<1>6. Leads(pos[n], cs[i + 1].semimove, pos[c])
  BY <1>2, <1>5 DEF Fits
<1>7. pos[c] \notin Nodal /\ ~is_terminal(ns[c + 1]) /\ ns[c + 1].first # ns[c + 1].second
  <2>1. pos[c] \notin Nodal /\ ns[c + 1].status = TrueStatus(pos[c])
    BY <1>1, <1>2, <1>3 DEF Statuses
  <2>2. ~is_terminal(ns[c + 1])
    BY <2>1 DEF TrueStatus, is_terminal
  <2> QED
    BY <1>1, <1>3, <2>1, <2>2 DEF Statuses
<1>8. last \in BlockOf(ns, c) /\ \A j \in BlockOf(ns, c) : j <= last
  <2> DEFINE lo == ns[c + 1].first
             hi == ns[c + 1].second
  <2>1. lo \in Nat /\ hi \in Nat /\ lo <= hi /\ lo # hi
    BY <1>1, <1>2, <1>4, <1>7, VectorFacts DEF is_expanded
  <2>2. BlockOf(ns, c) = lo..(hi - 1)
    BY DEF BlockOf, ChildIndices
  <2> HIDE DEF lo, hi
  <2>3. hi - 1 \in lo..(hi - 1) /\ \A j \in lo..(hi - 1) : j <= hi - 1
    BY <2>1
  <2> QED
    BY <2>2, <2>3 DEF hi
<1>9. \A j \in BlockOf(ns, c) : cs[j + 1].index # 0
  BY <1>1, <1>2, <1>3, <1>8 DEF VisitedOnTop
<1>10. n # c
  BY <1>3, <1>4
<1> QED
  BY <1>2, <1>3, <1>4, <1>5, <1>6, <1>7, <1>8, <1>9, <1>10 DEF Dissolves

(* The blocks afterwards. *)
Reblocked(ns, cs, L, n, chosen, new, ms, ds) ==
  /\ Len(new) \in Nat \ {0} /\ Len(cs) \in Nat
  /\ Indices(ms) = Indices(ns) /\ Indices(cs) \subseteq Indices(ds)
  /\ \A k \in Indices(ns) : k # n => ms[k + 1] = ns[k + 1] /\ BlockOf(ms, k) = BlockOf(ns, k)
  /\ ms[n + 1].first = Len(cs) /\ ms[n + 1].second = Len(cs) + Len(new)
  /\ ms[n + 1].is_nodal = ns[n + 1].is_nodal /\ ms[n + 1].status = ns[n + 1].status
  /\ is_expanded(ms[n + 1]) /\ is_expanded(ns[n + 1])
  /\ \A p \in 1..Len(new) : Len(cs) + p - 1 \in BlockOf(ms, n) /\ (Len(cs) + p - 1) - Len(cs) + 1 = p
  /\ \A i \in BlockOf(ms, n) : /\ i \notin Indices(cs) /\ i \in Indices(ds)
                               /\ i - Len(cs) + 1 \in 1..Len(new)
                               /\ i = Len(cs) + (i - Len(cs) + 1) - 1
                               /\ ds[i + 1] = new[i - Len(cs) + 1]
  /\ \A i \in Indices(ds) : i \in Indices(cs) \/ i \in BlockOf(ms, n)
  /\ \A i \in Indices(cs) : ds[i + 1] = cs[i + 1]
  /\ n \in L \ Dissolved(cs, chosen) /\ 0 \in L \ Dissolved(cs, chosen)
(* The blocks after a roll-up: all as before but that of n. *)
LEMMA RolledBlocks ==
  ASSUME NEW ns, NEW cs, NEW L, NEW root, NEW pos, Tree(ns, cs, L, root, pos),
         NEW n, NEW chosen, NEW new, NEW up, NEW down, NEW ms, NEW ds,
         RollsUp(ns, cs, L, n, chosen, new, up, down, ms, ds)
  PROVE  Reblocked(ns, cs, L, n, chosen, new, ms, ds)
<1>1. Vectors(ns, cs) /\ Links(ns, cs, L)
  BY DEF Tree
<1>2. n \in L /\ Ripe(ns, cs, chosen, n) /\ Rolls(ns, cs, n, chosen, new, up, down) /\ Rebuilt(ns, cs, n, new, ms, ds)
  BY DEF RollsUp
<1>3. \A i \in chosen : Dissolves(ns, cs, L, pos, n, i)
  BY <1>2, ChosenDissolve
<1>4. Len(new) \in Nat \ {0}
  <2>1. PICK i \in chosen : TRUE
    BY <1>2 DEF Ripe
  <2>2. ns[cs[i + 1].index + 1].second - 1 \in BlockOf(ns, cs[i + 1].index)
    BY <1>3 DEF Dissolves
  <2>3. PICK p \in 1..Len(new) : TRUE
    BY <1>2, <2>1, <2>2 DEF Rolls
  <2>4. new \in Seq(ChildRecord)
    BY <1>2 DEF Rolls
  <2> QED
    BY <2>3, <2>4
<1> DEFINE w == Len(new)
           z == Len(cs)
<1>5. z \in Nat /\ Len(ds) = z + w /\ Len(ms) = Len(ns) /\ w \in Nat \ {0}
  BY <1>1, <1>2, <1>4, VectorFacts DEF Rebuilt
<1>6. ms[n + 1].first = z /\ ms[n + 1].second = z + w
  BY <1>2 DEF Rebuilt
<1>7. \A p \in 1..w : ds[z + p] = new[p]
  BY <1>2 DEF Rebuilt
<1>8. BlockOf(ms, n) = z..((z + w) - 1)
  BY <1>6 DEF BlockOf, ChildIndices
<1>9. Indices(cs) = 0..(z - 1) /\ Indices(ds) = 0..((z + w) - 1)
  BY <1>5 DEF Indices
<1> HIDE DEF w, z
<1>10. /\ Indices(cs) \subseteq Indices(ds)
       /\ \A p \in 1..w : z + p - 1 \in BlockOf(ms, n) /\ (z + p - 1) - z + 1 = p
       /\ \A i \in Indices(ds) : i \in Indices(cs) \/ i \in BlockOf(ms, n)
  BY <1>5, <1>8, <1>9
<1>11. \A i \in BlockOf(ms, n) :
         /\ i \notin Indices(cs) /\ i \in Indices(ds)
         /\ i - z + 1 \in 1..w
         /\ i = z + (i - z + 1) - 1
         /\ ds[i + 1] = new[i - z + 1]
  <2> TAKE i \in BlockOf(ms, n)
  <2>1. i \notin Indices(cs) /\ i \in Indices(ds) /\ i - z + 1 \in 1..w /\ i = z + (i - z + 1) - 1 /\ z + (i - z + 1) = i + 1
    BY <1>5, <1>8, <1>9
  <2> DEFINE p == i - z + 1
  <2>2. p \in 1..w /\ z + p = i + 1
    BY <2>1
  <2> HIDE DEF p
  <2>3. ds[z + p] = new[p]
    BY <1>7, <2>2
  <2> QED
    BY <2>1, <2>2, <2>3 DEF p
<1>12. is_expanded(ms[n + 1])
  BY <1>5, <1>6 DEF is_expanded
<1>13. is_expanded(ns[n + 1])
  <2>1. PICK i \in chosen : TRUE
    BY <1>2 DEF Ripe
  <2>2. i \in BlockOf(ns, n) /\ n \in Indices(ns)
    BY <1>1, <1>2, <1>3, LinkFacts DEF Dissolves
  <2> QED
    BY <1>1, <2>2, VectorFacts
<1>14. n \in L \ Dissolved(cs, chosen) /\ 0 \in L \ Dissolved(cs, chosen)
  <2>1. 0 \in L /\ n \in L
    BY <1>1, <1>2, LinkFacts
  <2> QED
    BY <1>3, <2>1 DEF Dissolves, Dissolved
<1>15. Indices(ms) = Indices(ns)
  BY <1>5 DEF Indices
<1>16. /\ \A k \in Indices(ns) : k # n => ms[k + 1] = ns[k + 1] /\ BlockOf(ms, k) = BlockOf(ns, k)
       /\ ms[n + 1].is_nodal = ns[n + 1].is_nodal /\ ms[n + 1].status = ns[n + 1].status
       /\ \A i \in Indices(cs) : ds[i + 1] = cs[i + 1]
  BY <1>2 DEF Rebuilt, BlockOf
<1> QED
  BY <1>5, <1>6, <1>10, <1>11, <1>12, <1>13, <1>14, <1>15, <1>16 DEF Reblocked, w, z

(* Where a child of the new tree comes from, each from another, and none   *)
(* but the chosen ones gone.                                               *)
Came(cs, down, i) == IF i \in Indices(cs) THEN i ELSE down[i - Len(cs) + 1]
(* Children left have origins, all different, and only chosen ones go. *)
LEMMA Origins ==
  ASSUME NEW ns, NEW cs, NEW L, NEW root, NEW pos, Tree(ns, cs, L, root, pos),
         NEW n, NEW chosen, NEW new, NEW up, NEW down, NEW ms, NEW ds,
         RollsUp(ns, cs, L, n, chosen, new, up, down, ms, ds),
         NEW K, K = L \ Dissolved(cs, chosen)
  PROVE  /\ \A k \in K : \A i \in BlockOf(ms, k) :
              /\ \E p \in L : Came(cs, down, i) \in BlockOf(ns, p) /\ (p = k \/ p \notin K)
              /\ Came(cs, down, i) \in Indices(cs) /\ Came(cs, down, i) \notin chosen
              /\ ds[i + 1].index = cs[Came(cs, down, i) + 1].index
              /\ ds[i + 1].sim_count = cs[Came(cs, down, i) + 1].sim_count
         /\ \A k, l \in K : \A i \in BlockOf(ms, k), j \in BlockOf(ms, l) :
              Came(cs, down, i) = Came(cs, down, j) => i = j
         /\ \A p \in L : \A j \in BlockOf(ns, p) \ chosen :
              \E k \in K : \E i \in BlockOf(ms, k) : Came(cs, down, i) = j
<1>1. Vectors(ns, cs) /\ Links(ns, cs, L)
  BY DEF Tree
<1>2. n \in L /\ Ripe(ns, cs, chosen, n) /\ Rolls(ns, cs, n, chosen, new, up, down)
  BY DEF RollsUp
<1>3. \A i \in chosen : Dissolves(ns, cs, L, pos, n, i)
  BY <1>2, ChosenDissolve
<1>4. Reblocked(ns, cs, L, n, chosen, new, ms, ds)
  BY RolledBlocks
<1>5. \A i \in chosen : cs[i + 1].index \in L \ K /\ i \in BlockOf(ns, n)
  BY <1>3 DEF Dissolved, Dissolves
<1>6. n \in K /\ K \subseteq L
  BY <1>4 DEF Reblocked
<1>7. ASSUME NEW k \in K, NEW i \in BlockOf(ms, k), k # n
      PROVE  /\ i \in BlockOf(ns, k) /\ i \in Indices(cs) /\ Came(cs, down, i) = i /\ i \notin chosen
             /\ ds[i + 1] = cs[i + 1]
  <2>1. k \in Indices(ns)
    BY <1>1, <1>6, LinkFacts
  <2>2. i \in BlockOf(ns, k)
    BY <1>4, <1>7, <2>1 DEF Reblocked
  <2>3. i \in Indices(cs)
    BY <1>1, <1>6, <2>2, LinkFacts
  <2>4. i \notin chosen
    BY <1>1, <1>2, <1>5, <1>6, <1>7, <2>2, LinkFacts
  <2> QED
    BY <1>4, <2>2, <2>3, <2>4 DEF Came, Reblocked
<1>8. ASSUME NEW i \in BlockOf(ms, n)
      PROVE  LET p == i - Len(cs) + 1
             IN /\ p \in 1..Len(new) /\ Came(cs, down, i) = down[p] /\ i = Len(cs) + p - 1
                /\ ds[i + 1] = new[p] /\ ComesFrom(ns, cs, n, chosen, new[p], up[p], down[p])
  BY <1>2, <1>4 DEF Came, Reblocked, Rolls
<1>9. ASSUME NEW p \in 1..Len(new)
      PROVE  /\ \E q \in L : down[p] \in BlockOf(ns, q) /\ (q = n \/ q \notin K)
             /\ down[p] \in Indices(cs) /\ down[p] \notin chosen
             /\ new[p].index = cs[down[p] + 1].index
             /\ new[p].sim_count = cs[down[p] + 1].sim_count
  <2>1. ComesFrom(ns, cs, n, chosen, new[p], up[p], down[p])
    BY <1>2 DEF Rolls
  <2>2. CASE up[p] \notin chosen
    <3>1. down[p] = up[p] /\ new[p] = cs[up[p] + 1] /\ up[p] \in BlockOf(ns, n)
      BY <2>1, <2>2 DEF ComesFrom
    <3>2. up[p] \in Indices(cs)
      BY <1>1, <1>2, <3>1, LinkFacts
    <3> QED
      BY <1>2, <2>2, <3>1, <3>2
  <2>3. CASE up[p] \in chosen
    <3> DEFINE c == cs[up[p] + 1].index
    <3>1. down[p] \in BlockOf(ns, c) /\ Lifted(cs[up[p] + 1].semimove, cs[down[p] + 1], new[p])
      BY <2>1, <2>3 DEF ComesFrom
    <3>2. c \in L \ K
      BY <1>5, <2>3
    <3>3. down[p] \in Indices(cs)
      BY <1>1, <3>1, <3>2, LinkFacts
    <3>4. down[p] \notin chosen
      <4>1. c # n
        BY <1>6, <3>2
      <4> QED
        BY <1>1, <1>2, <1>5, <3>1, <3>2, <4>1, LinkFacts
    <3> QED
      BY <3>1, <3>2, <3>3, <3>4 DEF Lifted
  <2> QED
    BY <2>2, <2>3
<1>10. \A k \in K : \A i \in BlockOf(ms, k) :
              /\ \E p \in L : Came(cs, down, i) \in BlockOf(ns, p) /\ (p = k \/ p \notin K)
              /\ Came(cs, down, i) \in Indices(cs) /\ Came(cs, down, i) \notin chosen
              /\ ds[i + 1].index = cs[Came(cs, down, i) + 1].index
              /\ ds[i + 1].sim_count = cs[Came(cs, down, i) + 1].sim_count
  <2> TAKE k \in K
  <2> TAKE i \in BlockOf(ms, k)
  <2>1. CASE k # n
    BY <1>6, <1>7, <2>1
  <2>2. CASE k = n
    <3> DEFINE p == i - Len(cs) + 1
    <3>1. p \in 1..Len(new) /\ Came(cs, down, i) = down[p] /\ ds[i + 1] = new[p]
      BY <1>8, <2>2
    <3> HIDE DEF p
    <3> QED
      BY <1>9, <2>2, <3>1
  <2> QED
    BY <2>1, <2>2
<1>11. ASSUME NEW k \in K, NEW l \in K, NEW i \in BlockOf(ms, k), NEW j \in BlockOf(ms, l),
              Came(cs, down, i) = Came(cs, down, j)
       PROVE  i = j
  <2>1. CASE k # n /\ l # n
    BY <1>7, <1>11, <2>1
  <2>2. CASE k = n /\ l = n
    <3> DEFINE p == i - Len(cs) + 1
               q == j - Len(cs) + 1
    <3>1. p \in 1..Len(new) /\ q \in 1..Len(new) /\ down[p] = down[q] /\ i = Len(cs) + p - 1 /\ j = Len(cs) + q - 1
      BY <1>8, <1>11, <2>2
    <3> HIDE DEF p, q
    <3>2. p = q
      BY <1>2, <3>1 DEF Rolls
    <3> QED
      BY <3>1, <3>2
  <2>3. CASE k # n /\ l = n
    <3>1. i \in BlockOf(ns, k) /\ Came(cs, down, i) = i
      BY <1>7, <2>3
    <3>2. PICK p \in L : Came(cs, down, j) \in BlockOf(ns, p) /\ (p = l \/ p \notin K)
      BY <1>10
    <3>3. p = k
      BY <1>1, <1>6, <1>11, <3>1, <3>2, LinkFacts
    <3> QED
      BY <2>3, <3>2, <3>3
  <2>4. CASE k = n /\ l # n
    <3>1. j \in BlockOf(ns, l) /\ Came(cs, down, j) = j
      BY <1>7, <2>4
    <3>2. PICK p \in L : Came(cs, down, i) \in BlockOf(ns, p) /\ (p = k \/ p \notin K)
      BY <1>10
    <3>3. p = l
      BY <1>1, <1>6, <1>11, <3>1, <3>2, LinkFacts
    <3> QED
      BY <2>4, <3>2, <3>3
  <2> QED
    BY <2>1, <2>2, <2>3, <2>4
<1>12. ASSUME NEW p \in L, NEW j \in BlockOf(ns, p) \ chosen
       PROVE  \E k \in K : \E i \in BlockOf(ms, k) : Came(cs, down, i) = j
  <2>1. ASSUME NEW q \in 1..Len(new), down[q] = j
        PROVE  \E i \in BlockOf(ms, n) : Came(cs, down, i) = j
    <3> DEFINE i == Len(cs) + q - 1
    <3>1. i \in BlockOf(ms, n) /\ i - Len(cs) + 1 = q
      BY <1>4 DEF Reblocked
    <3> HIDE DEF i
    <3>2. Came(cs, down, i) = down[q]
      BY <1>8, <3>1
    <3> QED
      BY <2>1, <3>1, <3>2
  <2>2. CASE p = n
    <3>1. PICK q \in 1..Len(new) : up[q] = j
      BY <1>2, <2>2 DEF Rolls
    <3>2. down[q] = j
      BY <1>2, <3>1 DEF Rolls, ComesFrom
    <3> QED
      BY <1>6, <2>1, <3>2
  <2>3. CASE p \notin K
    <3>1. PICK i \in chosen : p = cs[i + 1].index
      BY <2>3 DEF Dissolved
    <3>2. PICK q \in 1..Len(new) : down[q] = j
      BY <1>2, <3>1 DEF Rolls
    <3> QED
      BY <1>6, <2>1, <3>2
  <2>4. CASE p \in K /\ p # n
    <3>1. j \in BlockOf(ms, p)
      BY <1>1, <1>4, <2>4, LinkFacts DEF Reblocked
    <3> QED
      BY <1>7, <2>4, <3>1
  <2> QED
    BY <2>2, <2>3, <2>4
<1> QED
  BY <1>10, <1>11, <1>12

-----------------------------------------------------------------------------
(* What rolling up keeps.                                                  *)

(* The vectors stay sound, and the nodes that are left are a tree. *)
LEMMA RollKeepsLinks ==
  ASSUME NEW ns, NEW cs, NEW L, NEW root, NEW pos, Tree(ns, cs, L, root, pos),
         NEW n, NEW chosen, NEW new, NEW up, NEW down, NEW ms, NEW ds,
         RollsUp(ns, cs, L, n, chosen, new, up, down, ms, ds),
         NEW K, K = L \ Dissolved(cs, chosen)
  PROVE  Vectors(ms, ds) /\ Links(ms, ds, K)
<1>1. Vectors(ns, cs) /\ Links(ns, cs, L)
  BY DEF Tree
<1>2. n \in L /\ Ripe(ns, cs, chosen, n) /\ Rebuilt(ns, cs, n, new, ms, ds)
  BY DEF RollsUp
<1>3. \A i \in chosen : Dissolves(ns, cs, L, pos, n, i)
  BY <1>2, ChosenDissolve
<1>4. Reblocked(ns, cs, L, n, chosen, new, ms, ds)
  BY RolledBlocks
<1>5. /\ \A k \in K : \A i \in BlockOf(ms, k) :
            /\ \E p \in L : Came(cs, down, i) \in BlockOf(ns, p) /\ (p = k \/ p \notin K)
            /\ Came(cs, down, i) \in Indices(cs) /\ Came(cs, down, i) \notin chosen
            /\ ds[i + 1].index = cs[Came(cs, down, i) + 1].index
            /\ ds[i + 1].sim_count = cs[Came(cs, down, i) + 1].sim_count
      /\ \A k, l \in K : \A i \in BlockOf(ms, k), j \in BlockOf(ms, l) :
            Came(cs, down, i) = Came(cs, down, j) => i = j
      /\ \A p \in L : \A j \in BlockOf(ns, p) \ chosen :
            \E k \in K : \E i \in BlockOf(ms, k) : Came(cs, down, i) = j
  BY Origins
<1>6. n \in K /\ 0 \in K /\ K \subseteq L /\ Indices(ms) = Indices(ns) /\ n \in Indices(ns) /\ n \in Nat
  BY <1>1, <1>2, <1>4, LinkFacts DEF Reblocked
<1>7. \A p \in L \ K : n < p /\ p \in Nat
  BY <1>3 DEF Dissolved, Dissolves
<1>8. Vectors(ms, ds)
  <2>1. ms \in Seq(NodeRecord) /\ ds \in Seq(ChildRecord) /\ 0 \in Indices(ms) /\ Len(ms) = Len(ns)
    BY <1>1, <1>2, <1>6 DEF Rebuilt, Vectors
  <2>2. ASSUME NEW k \in Indices(ms), is_expanded(ms[k + 1])
        PROVE  ms[k + 1].second <= Len(ds)
    <3>1. Len(ds) = Len(cs) + Len(new) /\ Len(cs) \in Nat /\ Len(new) \in Nat
      BY <1>2, <1>4 DEF Rebuilt, Reblocked
    <3>2. CASE k = n
      <4>1. ms[k + 1].second = Len(ds)
        BY <1>4, <3>1, <3>2 DEF Reblocked
      <4> QED
        BY <3>1, <4>1
    <3>3. CASE k # n
      <4>1. ms[k + 1] = ns[k + 1] /\ k \in Indices(ns)
        BY <1>4, <1>6, <3>3 DEF Reblocked
      <4>2. ns[k + 1].second <= Len(cs) /\ ns[k + 1].second \in Nat
        BY <1>1, <2>2, <4>1, VectorFacts DEF Vectors
      <4> QED
        BY <3>1, <4>1, <4>2
    <3> QED
      BY <3>2, <3>3
  <2>3. ASSUME NEW i \in Indices(ds)
        PROVE  ds[i + 1].index < Len(ms)
    <3>1. CASE i \in Indices(cs)
      <4>1. ds[i + 1] = cs[i + 1] /\ cs[i + 1].index < Len(ns)
        BY <1>1, <1>4, <3>1 DEF Reblocked, Vectors
      <4> QED
        BY <2>1, <4>1
    <3>2. CASE i \in BlockOf(ms, n)
      <4>1. Came(cs, down, i) \in Indices(cs) /\ ds[i + 1].index = cs[Came(cs, down, i) + 1].index
        BY <1>5, <1>6, <3>2
      <4>2. cs[Came(cs, down, i) + 1].index < Len(ns)
        BY <1>1, <4>1 DEF Vectors
      <4> QED
        BY <2>1, <4>1, <4>2
    <3> QED
      BY <1>4, <3>1, <3>2 DEF Reblocked
  <2>4. ASSUME NEW k \in Indices(ms), NEW i \in BlockOf(ms, k), ds[i + 1].index # 0
        PROVE  k < ds[i + 1].index
    <3>1. CASE k # n
      <4>1. k \in Indices(ns) /\ i \in BlockOf(ns, k)
        BY <1>4, <1>6, <3>1 DEF Reblocked
      <4>2. i \in Indices(cs)
        BY <1>1, <4>1, VectorFacts
      <4>3. ds[i + 1] = cs[i + 1]
        BY <1>4, <4>2 DEF Reblocked
      <4> QED
        BY <1>1, <2>4, <4>1, <4>3 DEF Vectors
    <3>2. CASE k = n
      <4> DEFINE j == Came(cs, down, i)
      <4>1. ds[i + 1].index = cs[j + 1].index /\ j \in Indices(cs)
        BY <1>5, <1>6, <3>2
      <4>2. PICK p \in L : j \in BlockOf(ns, p) /\ (p = n \/ p \notin K)
        BY <1>5, <1>6, <3>2
      <4> HIDE DEF j
      <4>3. p < cs[j + 1].index /\ cs[j + 1].index \in Nat
        BY <1>1, <2>4, <4>1, <4>2, LinkFacts, VectorFacts
      <4>4. p \in Nat /\ n <= p
        BY <1>6, <1>7, <4>2
      <4> QED
        BY <1>6, <3>2, <4>1, <4>3, <4>4
    <3> QED
      BY <3>1, <3>2
  <2> QED
    BY <2>1, <2>2, <2>3, <2>4 DEF Vectors
<1>9. Links(ms, ds, K)
  <2>1. K \subseteq Indices(ms) /\ 0 \in K
    BY <1>1, <1>6 DEF Links
  <2>2. ASSUME NEW k \in K, NEW i \in BlockOf(ms, k), ds[i + 1].index # 0
        PROVE  ds[i + 1].index \in K
    <3> DEFINE j == Came(cs, down, i)
    <3>1. j \notin chosen /\ ds[i + 1].index = cs[j + 1].index
      BY <1>5
    <3>2. PICK p \in L : j \in BlockOf(ns, p)
      BY <1>5
    <3> HIDE DEF j
    <3>3. cs[j + 1].index \in L
      BY <1>1, <2>2, <3>1, <3>2, LinkFacts
    <3>4. ASSUME NEW x \in chosen, cs[x + 1].index = cs[j + 1].index PROVE FALSE
      <4>1. x \in BlockOf(ns, n)
        BY <1>3 DEF Dissolves
      <4>2. x = j
        BY <1>1, <1>2, <2>2, <3>1, <3>2, <3>4, <4>1, LinkFacts
      <4> QED
        BY <3>1, <4>2
    <3> QED
      BY <3>1, <3>3, <3>4 DEF Dissolved
  <2>3. ASSUME NEW m \in K \ {0}
        PROVE  \E p \in K : \E i \in BlockOf(ms, p) : ds[i + 1].index = m
    <3>1. m \in L \ {0}
      BY <1>6
    <3>2. PICK q \in L : \E j \in BlockOf(ns, q) : cs[j + 1].index = m
      BY <1>1, <3>1 DEF Links
    <3>3. PICK j \in BlockOf(ns, q) : cs[j + 1].index = m
      BY <3>2
    <3>4. j \notin chosen
      BY <3>3 DEF Dissolved
    <3>5. PICK k \in K : \E i \in BlockOf(ms, k) : Came(cs, down, i) = j
      BY <1>5, <3>4
    <3>6. PICK i \in BlockOf(ms, k) : Came(cs, down, i) = j
      BY <3>5
    <3>7. ds[i + 1].index = m
      BY <1>5, <3>3, <3>6
    <3> QED
      BY <3>7
  <2>4. ASSUME NEW p \in K, NEW q \in K, NEW i \in BlockOf(ms, p), i \in BlockOf(ms, q)
        PROVE  p = q
    <3>1. \A k \in K : k # n => BlockOf(ms, k) = BlockOf(ns, k) /\ BlockOf(ns, k) \subseteq Indices(cs)
      <4> TAKE k \in K
      <4>1. k \in Indices(ns)
        BY <1>1, <1>6, LinkFacts
      <4> QED
        BY <1>1, <1>4, <4>1, VectorFacts DEF Reblocked
    <3>2. \A j \in BlockOf(ms, n) : j \notin Indices(cs)
      BY <1>4 DEF Reblocked
    <3>3. CASE p # n /\ q # n
      BY <1>1, <1>6, <2>4, <3>1, <3>3, LinkFacts
    <3>4. CASE p = n \/ q = n
      BY <2>4, <3>1, <3>2, <3>4
    <3> QED
      BY <3>3, <3>4
  <2>5. ASSUME NEW p \in K, NEW q \in K, NEW i \in BlockOf(ms, p), NEW j \in BlockOf(ms, q),
               ds[i + 1].index = ds[j + 1].index, ds[i + 1].index # 0
        PROVE  i = j
    <3> DEFINE a == Came(cs, down, i)
               b == Came(cs, down, j)
    <3>1. ds[i + 1].index = cs[a + 1].index /\ ds[j + 1].index = cs[b + 1].index
      BY <1>5
    <3>2. PICK x \in L : a \in BlockOf(ns, x)
      BY <1>5
    <3>3. PICK y \in L : b \in BlockOf(ns, y)
      BY <1>5
    <3>4. a = b
      <4> HIDE DEF a, b
      <4>1. cs[a + 1].index = cs[b + 1].index /\ cs[a + 1].index # 0
        BY <2>5, <3>1
      <4> QED
        BY <1>1, <3>2, <3>3, <4>1, LinkFacts
    <3> QED
      BY <1>5, <3>4
  <2> QED
    BY <2>1, <2>2, <2>3, <2>4, <2>5 DEF Links
<1> QED
  BY <1>8, <1>9

(* The nodes that are left stand for the states they stood for. *)
Only(pos, K) == [k \in K |-> pos[k]]
(* Their children fit these states: a raised semimove leads as far. *)
LEMMA RollKeepsStands ==
  ASSUME GETTER = "S", NEW ns, NEW cs, NEW L, NEW root, NEW pos, Tree(ns, cs, L, root, pos),
         NEW n, NEW chosen, NEW new, NEW up, NEW down, NEW ms, NEW ds,
         RollsUp(ns, cs, L, n, chosen, new, up, down, ms, ds),
         NEW K, K = L \ Dissolved(cs, chosen)
  PROVE  Stands(ms, ds, K, root, Only(pos, K))
<1>1. Vectors(ns, cs) /\ Links(ns, cs, L) /\ Stands(ns, cs, L, root, pos)
  BY DEF Tree
<1>2. n \in L /\ Ripe(ns, cs, chosen, n) /\ Rolls(ns, cs, n, chosen, new, up, down)
  BY DEF RollsUp
<1>3. \A i \in chosen : Dissolves(ns, cs, L, pos, n, i)
  BY <1>2, ChosenDissolve
<1>4. Reblocked(ns, cs, L, n, chosen, new, ms, ds) /\ Links(ms, ds, K)
  BY RolledBlocks, RollKeepsLinks
<1>5. n \in K /\ 0 \in K /\ K \subseteq L
  BY <1>4 DEF Reblocked
<1> DEFINE q == Only(pos, K)
<1>6. q \in [K -> State] /\ \A k \in K : q[k] = pos[k] /\ pos[k] \in State
  BY <1>1, <1>5 DEF Only, Stands
<1> HIDE DEF q
<1>7. q[0] = root /\ root \in Nodal
  BY <1>1, <1>5, <1>6 DEF Stands
<1>8. ASSUME NEW k \in K, NEW i \in BlockOf(ms, k), Fits(pos, pos[k], ds[i + 1])
      PROVE  Fits(q, q[k], ds[i + 1])
  <2>1. PICK t \in State : Leads(pos[k], ds[i + 1].semimove, t) /\ (ds[i + 1].index # 0 => pos[ds[i + 1].index] = t)
    BY <1>8 DEF Fits
  <2>2. ds[i + 1].index # 0 => ds[i + 1].index \in K
    BY <1>4 DEF Links
  <2>3. ds[i + 1].index # 0 => q[ds[i + 1].index] = t
    BY <1>6, <2>1, <2>2
  <2> QED
    BY <1>6, <2>1, <2>3 DEF Fits
<1>9. ASSUME NEW k \in K, NEW i \in BlockOf(ms, k)
      PROVE  Fits(pos, pos[k], ds[i + 1])
  <2>1. CASE k # n
    <3>1. k \in Indices(ns) /\ i \in BlockOf(ns, k)
      BY <1>1, <1>4, <1>5, <2>1, LinkFacts DEF Reblocked
    <3>2. ds[i + 1] = cs[i + 1]
      BY <1>1, <1>4, <3>1, VectorFacts DEF Reblocked
    <3> QED
      BY <1>1, <1>5, <3>1, <3>2 DEF Stands
  <2>2. CASE k = n
    <3> DEFINE p == i - Len(cs) + 1
    <3>1. p \in 1..Len(new) /\ ds[i + 1] = new[p]
      BY <1>4, <2>2 DEF Reblocked
    <3> HIDE DEF p
    <3> DEFINE a == up[p]
               b == down[p]
               c == cs[a + 1].index
    <3>2. ComesFrom(ns, cs, n, chosen, new[p], a, b)
      BY <1>2, <3>1 DEF Rolls
    <3> HIDE DEF a, b
    <3>3. CASE a \notin chosen
      BY <1>1, <1>2, <2>2, <3>1, <3>2, <3>3 DEF ComesFrom, Stands
    <3>4. CASE a \in chosen
      <4>1. Dissolves(ns, cs, L, pos, n, a)
        BY <1>3, <3>4
      <4>2. c \in L /\ pos[c] \in State /\ pos[n] \in State /\ pos[c] \notin Nodal /\ Leads(pos[n], cs[a + 1].semimove, pos[c])
        BY <4>1 DEF Dissolves
      <4>3. b \in BlockOf(ns, c) /\ Lifted(cs[a + 1].semimove, cs[b + 1], new[p])
        BY <3>2, <3>4 DEF ComesFrom
      <4>4. Fits(pos, pos[c], cs[b + 1])
        BY <1>1, <4>2, <4>3 DEF Stands
      <4>5. PICK t \in State : Leads(pos[c], cs[b + 1].semimove, t) /\ (cs[b + 1].index # 0 => pos[cs[b + 1].index] = t)
        BY <4>4 DEF Fits
      <4>6. Leads(pos[n], Written(cs[a + 1].semimove) \o cs[b + 1].semimove, t)
        BY <4>2, <4>5, LeadsJoin
      <4> QED
        BY <2>2, <3>1, <4>3, <4>5, <4>6 DEF Fits, Lifted
    <3> QED
      BY <3>3, <3>4
  <2> QED
    BY <2>1, <2>2
<1> QED
  BY <1>6, <1>7, <1>8, <1>9 DEF Stands, q

(* Statuses stay true, and visited children in front. *)
LEMMA RollKeepsStatuses ==
  ASSUME NEW ns, NEW cs, NEW L, NEW root, NEW pos, Tree(ns, cs, L, root, pos),
         NEW n, NEW chosen, NEW new, NEW up, NEW down, NEW ms, NEW ds,
         RollsUp(ns, cs, L, n, chosen, new, up, down, ms, ds),
         NEW K, K = L \ Dissolved(cs, chosen)
  PROVE  Statuses(ms, K, Only(pos, K))
<1>1. Vectors(ns, cs) /\ Links(ns, cs, L) /\ Statuses(ns, L, pos)
  BY DEF Tree
<1>2. n \in L /\ Ripe(ns, cs, chosen, n)
  BY DEF RollsUp
<1>3. Reblocked(ns, cs, L, n, chosen, new, ms, ds)
  BY RolledBlocks
<1>4. K \subseteq L /\ \A k \in K : Only(pos, K)[k] = pos[k]
  BY DEF Only
<1>5. ~is_terminal(ns[n + 1])
  <2>1. PICK i \in BlockOf(ns, n) : TRUE
    BY <1>2 DEF Ripe
  <2>2. n \in Indices(ns)
    BY <1>1, <1>2, LinkFacts
  <2> DEFINE lo == ns[n + 1].first
             hi == ns[n + 1].second
  <2>3. lo \in Nat /\ hi \in Nat /\ i \in lo..(hi - 1)
    BY <1>1, <2>1, <2>2, VectorFacts DEF BlockOf, ChildIndices
  <2> HIDE DEF lo, hi
  <2>4. lo # hi
    BY <2>3
  <2> QED
    BY <1>1, <1>2, <2>4 DEF Statuses, lo, hi
<1>6. ms[n + 1].first # ms[n + 1].second
  <2>1. ms[n + 1].first = Len(cs) /\ ms[n + 1].second = Len(cs) + Len(new) /\ Len(cs) \in Nat /\ Len(new) \in Nat \ {0}
    BY <1>3 DEF Reblocked
  <2> QED
    BY <2>1
<1>7. ms[n + 1].is_nodal = ns[n + 1].is_nodal /\ ms[n + 1].status = ns[n + 1].status
  BY <1>3 DEF Reblocked
<1>8. \A k \in K : k # n => ms[k + 1] = ns[k + 1]
  BY <1>1, <1>3, <1>4, LinkFacts DEF Reblocked
<1> DEFINE q == Only(pos, K)
<1>9. \A k \in K : q[k] = pos[k]
  BY <1>4
<1> HIDE DEF q
<1>10. ASSUME NEW k \in K
       PROVE  /\ ms[k + 1].is_nodal <=> q[k] \in Nodal
              /\ ms[k + 1].status = TrueStatus(q[k])
              /\ Rests(q[k]) # {}
              /\ is_terminal(ms[k + 1]) => ms[k + 1].first = ms[k + 1].second
              /\ ~is_terminal(ms[k + 1]) => ms[k + 1].first # ms[k + 1].second
  <2>1. /\ ns[k + 1].is_nodal <=> q[k] \in Nodal
        /\ ns[k + 1].status = TrueStatus(q[k])
        /\ Rests(q[k]) # {}
        /\ is_terminal(ns[k + 1]) => ns[k + 1].first = ns[k + 1].second
        /\ ~is_terminal(ns[k + 1]) => ns[k + 1].first # ns[k + 1].second
    BY <1>1, <1>4, <1>9 DEF Statuses
  <2>2. CASE k # n
    <3>1. ms[k + 1] = ns[k + 1]
      BY <1>8, <2>2
    <3> QED
      BY <2>1, <3>1
  <2>3. CASE k = n
    <3>1. ~is_terminal(ms[n + 1])
      BY <1>5, <1>7 DEF is_terminal
    <3> QED
      BY <1>6, <1>7, <2>1, <2>3, <3>1
  <2> QED
    BY <2>2, <2>3
<1> QED
  BY <1>10 DEF Statuses, q

(* Visited children still come first: a dissolved node had no others. *)
LEMMA RollKeepsVisited ==
  ASSUME NEW ns, NEW cs, NEW L, NEW root, NEW pos, Tree(ns, cs, L, root, pos),
         NEW n, NEW chosen, NEW new, NEW up, NEW down, NEW ms, NEW ds,
         RollsUp(ns, cs, L, n, chosen, new, up, down, ms, ds),
         NEW K, K = L \ Dissolved(cs, chosen)
  PROVE  VisitedOnTop(ms, ds, K)
<1>1. Vectors(ns, cs) /\ Links(ns, cs, L) /\ VisitedOnTop(ns, cs, L)
  BY DEF Tree
<1>2. n \in L /\ Ripe(ns, cs, chosen, n) /\ Rolls(ns, cs, n, chosen, new, up, down)
  BY DEF RollsUp
<1>3. \A i \in chosen : Dissolves(ns, cs, L, pos, n, i)
  BY <1>2, ChosenDissolve
<1>4. Reblocked(ns, cs, L, n, chosen, new, ms, ds)
  BY RolledBlocks
<1> SUFFICES ASSUME NEW k \in K, NEW i \in BlockOf(ms, k), NEW j \in BlockOf(ms, k), i <= j, ds[i + 1].index = 0
             PROVE  ds[j + 1].index = 0
  BY DEF VisitedOnTop
<1>5. CASE k # n
  <2>1. k \in Indices(ns) /\ k \in L
    BY <1>1, LinkFacts
  <2>2. i \in BlockOf(ns, k) /\ j \in BlockOf(ns, k)
    BY <1>4, <1>5, <2>1 DEF Reblocked
  <2>3. ds[i + 1] = cs[i + 1] /\ ds[j + 1] = cs[j + 1]
    BY <1>1, <1>4, <2>1, <2>2, VectorFacts DEF Reblocked
  <2> QED
    BY <1>1, <2>1, <2>2, <2>3 DEF VisitedOnTop
<1>6. CASE k = n
  <2> DEFINE p == i - Len(cs) + 1
             r == j - Len(cs) + 1
  <2>1. p \in 1..Len(new) /\ ds[i + 1] = new[p] /\ r \in 1..Len(new) /\ ds[j + 1] = new[r]
        /\ i = Len(cs) + p - 1 /\ j = Len(cs) + r - 1 /\ Len(cs) \in Nat
    BY <1>4, <1>6 DEF Reblocked
  <2> HIDE DEF p, r
  <2>2. p <= r
    BY <2>1
  <2>3. up[p] <= up[r]
    BY <1>2, <2>1, <2>2 DEF Rolls
  <2>4. ComesFrom(ns, cs, n, chosen, new[p], up[p], down[p]) /\ ComesFrom(ns, cs, n, chosen, new[r], up[r], down[r])
    BY <1>2, <2>1 DEF Rolls
  <2>5. up[p] \notin chosen
    <3> SUFFICES ASSUME up[p] \in chosen PROVE FALSE
      OBVIOUS
    <3>1. down[p] \in BlockOf(ns, cs[up[p] + 1].index) /\ new[p].index = cs[down[p] + 1].index
      BY <2>4 DEF ComesFrom, Lifted
    <3>2. cs[down[p] + 1].index # 0
      BY <1>3, <3>1 DEF Dissolves
    <3> QED
      BY <2>1, <3>1, <3>2
  <2>6. up[p] \in BlockOf(ns, n) /\ cs[up[p] + 1].index = 0 /\ up[r] \in BlockOf(ns, n)
    BY <2>1, <2>4, <2>5 DEF ComesFrom
  <2>7. cs[up[r] + 1].index = 0
    BY <1>1, <1>2, <2>3, <2>6 DEF VisitedOnTop
  <2>8. up[r] \notin chosen
    BY <1>3, <2>7 DEF Dissolves
  <2> QED
    BY <2>1, <2>4, <2>7, <2>8 DEF ComesFrom
<1> QED
  BY <1>5, <1>6

(* Every move of the turn still passes through one child, as it did        *)
(* through the child above it and that one's child.                        *)
LEMMA RollKeepsCover ==
  ASSUME NEW ns, NEW cs, NEW L, NEW root, NEW pos, Tree(ns, cs, L, root, pos),
         NEW n, NEW chosen, NEW new, NEW up, NEW down, NEW ms, NEW ds,
         RollsUp(ns, cs, L, n, chosen, new, up, down, ms, ds)
  PROVE  Cover(EdgesOf(ds), BlockOf(ms, n), pos[n])
<1>1. Vectors(ns, cs) /\ Links(ns, cs, L) /\ Stands(ns, cs, L, root, pos) /\ Covers(ns, cs, L, pos)
  BY DEF Tree
<1>2. n \in L /\ Ripe(ns, cs, chosen, n) /\ Rolls(ns, cs, n, chosen, new, up, down)
  BY DEF RollsUp
<1>3. \A i \in chosen : Dissolves(ns, cs, L, pos, n, i)
  BY <1>2, ChosenDissolve
<1>4. Reblocked(ns, cs, L, n, chosen, new, ms, ds)
  BY RolledBlocks
<1> DEFINE s == pos[n]
           e(i) == cs[i + 1].semimove
           c(i) == cs[i + 1].index
           W(i) == Through(s, e(i))
           V(p) == Through(s, new[p].semimove)
<1>5. s \in State /\ Cover(EdgesOf(cs), BlockOf(ns, n), s)
  BY <1>1, <1>2, <1>4 DEF Stands, Covers, Reblocked
<1>6. /\ \A m \in Moves(s) : \E i \in BlockOf(ns, n) : m \in W(i)
      /\ \A i, j \in BlockOf(ns, n) : i # j => W(i) \cap W(j) = {}
  <2>1. \A i \in BlockOf(ns, n) : EdgesOf(cs)[i] = e(i)
    <3> TAKE i \in BlockOf(ns, n)
    <3>1. i \in Indices(cs)
      BY <1>1, <1>2, LinkFacts
    <3> QED
      BY <3>1 DEF EdgesOf
  <2> QED
    BY <1>5, <2>1 DEF Cover
<1>7. ASSUME NEW i \in chosen
      PROVE  /\ i \in BlockOf(ns, n) /\ pos[c(i)] \in State /\ pos[c(i)] \notin Nodal /\ Leads(s, e(i), pos[c(i)])
             /\ Written(e(i)) \in Seq(Action)
             /\ W(i) = {Written(e(i)) \o x : x \in Moves(pos[c(i)])}
             /\ \A m \in Moves(pos[c(i)]) : m \in Seq(Action) /\ \E j \in BlockOf(ns, c(i)) : m \in Through(pos[c(i)], e(j))
             /\ \A j, k \in BlockOf(ns, c(i)) : j # k => Through(pos[c(i)], e(j)) \cap Through(pos[c(i)], e(k)) = {}
             /\ \A j \in BlockOf(ns, c(i)) :
                  /\ Through(pos[c(i)], e(j)) \subseteq Moves(pos[c(i)])
                  /\ Through(s, Written(e(i)) \o e(j)) = {Written(e(i)) \o x : x \in Through(pos[c(i)], e(j))}
  <2> DEFINE t == pos[c(i)]
  <2>1. /\ i \in BlockOf(ns, n) /\ t \in State /\ t \notin Nodal /\ Leads(s, e(i), t)
        /\ c(i) \in L /\ is_expanded(ns[c(i) + 1])
    BY <1>3 DEF Dissolves
  <2>2. Written(e(i)) \in Seq(Action)
    BY <1>5, <2>1, LeadsFacts
  <2>3. W(i) = {Written(e(i)) \o x : x \in Rests(t)} /\ Rests(t) = Moves(t)
    BY <1>5, <2>1, ThroughIs DEF Rests
  <2>4. Cover(EdgesOf(cs), BlockOf(ns, c(i)), t)
    BY <1>1, <2>1 DEF Covers
  <2>5. \A j \in BlockOf(ns, c(i)) : EdgesOf(cs)[j] = e(j)
    <3> TAKE j \in BlockOf(ns, c(i))
    <3>1. j \in Indices(cs)
      BY <1>1, <2>1, LinkFacts
    <3> QED
      BY <3>1 DEF EdgesOf
  <2>6. /\ \A m \in Moves(t) : \E j \in BlockOf(ns, c(i)) : m \in Through(t, e(j))
        /\ \A j, k \in BlockOf(ns, c(i)) : j # k => Through(t, e(j)) \cap Through(t, e(k)) = {}
    BY <2>4, <2>5 DEF Cover
  <2>7. ASSUME NEW j \in BlockOf(ns, c(i))
        PROVE  /\ Through(t, e(j)) \subseteq Moves(t)
               /\ Through(s, Written(e(i)) \o e(j)) = {Written(e(i)) \o x : x \in Through(t, e(j))}
    <3>1. Fits(pos, t, cs[j + 1])
      BY <1>1, <2>1 DEF Stands
    <3>2. PICK u \in State : Leads(t, e(j), u)
      BY <3>1 DEF Fits
    <3> DEFINE d == e(i)
               f == e(j)
    <3>3. Leads(t, f, u) /\ Leads(s, d, t) /\ t \in State /\ t \notin Nodal /\ s \in State
      BY <1>5, <2>1, <3>2
    <3> HIDE DEF t, s, d, f
    <3>4. Through(t, f) \subseteq Moves(t)
      BY <3>3, ThroughIs
    <3>5. Through(s, Written(d) \o f) = {Written(d) \o x : x \in Through(t, f)}
      BY <3>3, ThroughJoin
    <3> QED
      BY <3>4, <3>5 DEF d, f
  <2>8. \A m \in Moves(t) : m \in Seq(Action)
    BY <2>1, MovesSeq
  <2> QED
    BY <2>1, <2>2, <2>3, <2>6, <2>7, <2>8
<1>8. ASSUME NEW p \in 1..Len(new)
      PROVE  /\ up[p] \in BlockOf(ns, n)
             /\ up[p] \notin chosen => down[p] = up[p] /\ V(p) = W(up[p])
             /\ up[p] \in chosen =>
                  /\ down[p] \in BlockOf(ns, c(up[p]))
                  /\ V(p) = {Written(e(up[p])) \o x : x \in Through(pos[c(up[p])], e(down[p]))}
             /\ V(p) \subseteq W(up[p])
  <2> DEFINE i == up[p]
             j == down[p]
  <2>1. ComesFrom(ns, cs, n, chosen, new[p], i, j)
    BY <1>2 DEF Rolls
  <2>2. i \in BlockOf(ns, n)
    BY <2>1 DEF ComesFrom
  <2> HIDE DEF i, j
  <2>3. CASE i \notin chosen
    <3>1. j = i /\ V(p) = W(i)
      BY <2>1, <2>3 DEF ComesFrom
    <3> QED
      BY <2>2, <2>3, <3>1 DEF i, j
  <2>4. CASE i \in chosen
    <3>1. j \in BlockOf(ns, c(i)) /\ new[p].semimove = Written(e(i)) \o e(j)
      BY <2>1, <2>4 DEF ComesFrom, Lifted
    <3>2. /\ V(p) = {Written(e(i)) \o x : x \in Through(pos[c(i)], e(j))}
          /\ Through(pos[c(i)], e(j)) \subseteq Moves(pos[c(i)])
          /\ W(i) = {Written(e(i)) \o x : x \in Moves(pos[c(i)])}
      <4>1. W(i) = {Written(e(i)) \o x : x \in Moves(pos[c(i)])}
        BY <1>7, <2>4
      <4>2. \A k \in BlockOf(ns, c(i)) :
               /\ Through(pos[c(i)], e(k)) \subseteq Moves(pos[c(i)])
               /\ Through(s, Written(e(i)) \o e(k)) = {Written(e(i)) \o x : x \in Through(pos[c(i)], e(k))}
        BY <1>7, <2>4
      <4>3. V(p) = Through(s, Written(e(i)) \o e(j))
        BY <3>1
      <4> HIDE DEF V, W, e, c
      <4> QED
        BY <3>1, <4>1, <4>2, <4>3
    <3>3. V(p) \subseteq W(i)
      BY <3>2
    <3>4. V(p) = {Written(e(up[p])) \o x : x \in Through(pos[c(up[p])], e(down[p]))}
      BY <3>2 DEF i, j
    <3> HIDE DEF V, W, c, e
    <3> QED
      BY <2>2, <2>4, <3>1, <3>3, <3>4 DEF i, j
  <2> QED
    BY <2>3, <2>4
<1>9. ASSUME NEW m \in Moves(s)
      PROVE  \E p \in 1..Len(new) : m \in V(p)
  <2>1. PICK i \in BlockOf(ns, n) : m \in W(i)
    BY <1>6
  <2>2. CASE i \notin chosen
    <3>1. PICK p \in 1..Len(new) : up[p] = i
      BY <1>2, <2>2 DEF Rolls
    <3> QED
      BY <1>8, <2>1, <2>2, <3>1
  <2>3. CASE i \in chosen
    <3>1. PICK x \in Moves(pos[c(i)]) : m = Written(e(i)) \o x
      BY <1>7, <2>1, <2>3
    <3>2. PICK j \in BlockOf(ns, c(i)) : x \in Through(pos[c(i)], e(j))
      BY <1>7, <2>3
    <3>3. PICK p \in 1..Len(new) : up[p] = i /\ down[p] = j
      BY <1>2, <2>3, <3>2 DEF Rolls
    <3> QED
      BY <1>8, <2>3, <3>1, <3>2, <3>3
  <2> QED
    BY <2>2, <2>3
<1>10. ASSUME NEW p \in 1..Len(new), NEW r \in 1..Len(new), p # r, NEW m \in V(p) \cap V(r)
       PROVE  FALSE
  <2>1. m \in W(up[p]) /\ m \in W(up[r]) /\ up[p] \in BlockOf(ns, n) /\ up[r] \in BlockOf(ns, n)
    BY <1>8, <1>10
  <2>2. up[p] = up[r]
    BY <1>6, <2>1
  <2>3. down[p] # down[r]
    BY <1>2, <1>10 DEF Rolls
  <2>4. up[p] \in chosen
    BY <1>8, <2>2, <2>3
  <2> DEFINE i == up[p]
             t == pos[c(i)]
  <2>5. down[p] \in BlockOf(ns, c(i)) /\ down[r] \in BlockOf(ns, c(i))
    BY <1>8, <2>2, <2>4
  <2>6. PICK x \in Through(t, e(down[p])) : m = Written(e(i)) \o x
    BY <1>8, <1>10, <2>4
  <2>11. V(r) = {Written(e(up[r])) \o z : z \in Through(pos[c(up[r])], e(down[r]))}
    BY <1>8, <2>2, <2>4
  <2>12. V(r) = {Written(e(i)) \o z : z \in Through(t, e(down[r]))}
    BY <2>2, <2>11
  <2>7. PICK y \in Through(t, e(down[r])) : m = Written(e(i)) \o y
    BY <1>10, <2>12
  <2>8. x \in Seq(Action) /\ y \in Seq(Action) /\ Written(e(i)) \in Seq(Action)
    BY <1>7, <2>4, <2>5
  <2>9. x = y
    BY <2>6, <2>7, <2>8, SameBeginning
  <2> QED
    BY <1>7, <2>3, <2>4, <2>5, <2>9
<1>11. \A i \in BlockOf(ms, n) : i - Len(cs) + 1 \in 1..Len(new) /\ Through(s, EdgesOf(ds)[i]) = V(i - Len(cs) + 1)
                                 /\ i = Len(cs) + (i - Len(cs) + 1) - 1
  <2> TAKE i \in BlockOf(ms, n)
  <2>1. i \in Indices(ds) /\ i - Len(cs) + 1 \in 1..Len(new) /\ ds[i + 1] = new[i - Len(cs) + 1]
        /\ i = Len(cs) + (i - Len(cs) + 1) - 1
    BY <1>4 DEF Reblocked
  <2>2. EdgesOf(ds)[i] = ds[i + 1].semimove
    BY <2>1 DEF EdgesOf
  <2> QED
    BY <2>1, <2>2
<1>12. \A p \in 1..Len(new) : Len(cs) + p - 1 \in BlockOf(ms, n) /\ (Len(cs) + p - 1) - Len(cs) + 1 = p
  BY <1>4 DEF Reblocked
<1> HIDE DEF s, V, W
<1>13. \A m \in Moves(s) : \E i \in BlockOf(ms, n) : m \in Through(s, EdgesOf(ds)[i])
  <2> TAKE m \in Moves(s)
  <2>1. PICK p \in 1..Len(new) : m \in V(p)
    BY <1>9 DEF s, V
  <2> DEFINE i == Len(cs) + p - 1
  <2>2. i \in BlockOf(ms, n) /\ i - Len(cs) + 1 = p
    BY <1>12
  <2> HIDE DEF i
  <2>3. Through(s, EdgesOf(ds)[i]) = V(p)
    BY <1>11, <2>2
  <2> QED
    BY <2>1, <2>2, <2>3
<1>14. ASSUME NEW i \in BlockOf(ms, n), NEW j \in BlockOf(ms, n), i # j
       PROVE  Through(s, EdgesOf(ds)[i]) \cap Through(s, EdgesOf(ds)[j]) = {}
  <2> DEFINE p == i - Len(cs) + 1
             r == j - Len(cs) + 1
  <2>1. /\ p \in 1..Len(new) /\ Through(s, EdgesOf(ds)[i]) = V(p) /\ i = Len(cs) + p - 1
        /\ r \in 1..Len(new) /\ Through(s, EdgesOf(ds)[j]) = V(r) /\ j = Len(cs) + r - 1
    BY <1>11
  <2> HIDE DEF p, r
  <2>2. p # r
    BY <1>14, <2>1
  <2> QED
    BY <1>10, <2>1, <2>2 DEF V, s
<1> QED
  BY <1>13, <1>14 DEF Cover, s

(* So what is left is a tree, for the same states. *)
LEMMA RollKeepsTree ==
  ASSUME GETTER = "S", NEW ns, NEW cs, NEW L, NEW root, NEW pos, Tree(ns, cs, L, root, pos),
         NEW n, NEW chosen, NEW new, NEW up, NEW down, NEW ms, NEW ds,
         RollsUp(ns, cs, L, n, chosen, new, up, down, ms, ds),
         NEW K, K = L \ Dissolved(cs, chosen)
  PROVE  Tree(ms, ds, K, root, Only(pos, K))
<1>1. Vectors(ns, cs) /\ Links(ns, cs, L) /\ Covers(ns, cs, L, pos)
  BY DEF Tree
<1>2. Reblocked(ns, cs, L, n, chosen, new, ms, ds) /\ n \in L
  BY RolledBlocks DEF RollsUp
<1>3. Vectors(ms, ds) /\ Links(ms, ds, K)
  BY RollKeepsLinks
<1>4. Stands(ms, ds, K, root, Only(pos, K))
  BY RollKeepsStands
<1>5. Statuses(ms, K, Only(pos, K))
  BY RollKeepsStatuses
<1>6. VisitedOnTop(ms, ds, K)
  BY RollKeepsVisited
<1>7. Cover(EdgesOf(ds), BlockOf(ms, n), pos[n])
  BY RollKeepsCover
<1>8. \A k \in K : Only(pos, K)[k] = pos[k] /\ k \in L
  BY DEF Only
<1>9. ASSUME NEW k \in K, is_expanded(ms[k + 1])
      PROVE  Cover(EdgesOf(ds), BlockOf(ms, k), pos[k])
  <2>1. CASE k = n
    BY <1>7, <2>1
  <2>2. CASE k # n
    <3>1. k \in Indices(ns) /\ k \in L /\ ms[k + 1] = ns[k + 1] /\ BlockOf(ms, k) = BlockOf(ns, k)
      BY <1>1, <1>2, <1>8, <2>2, LinkFacts DEF Reblocked
    <3>2. Cover(EdgesOf(cs), BlockOf(ns, k), pos[k])
      BY <1>1, <1>9, <3>1 DEF Covers
    <3>3. \A i \in BlockOf(ns, k) : EdgesOf(ds)[i] = EdgesOf(cs)[i]
      <4> TAKE i \in BlockOf(ns, k)
      <4>1. i \in Indices(cs)
        BY <1>1, <3>1, LinkFacts
      <4>2. i \in Indices(ds) /\ ds[i + 1] = cs[i + 1]
        BY <1>2, <4>1 DEF Reblocked
      <4> QED
        BY <4>1, <4>2 DEF EdgesOf
    <3>4. Cover(EdgesOf(ds), BlockOf(ns, k), pos[k])
      BY <3>2, <3>3, CoverSame
    <3> QED
      BY <3>1, <3>4
  <2> QED
    BY <2>1, <2>2
<1>10. Covers(ms, ds, K, Only(pos, K))
  BY <1>8, <1>9 DEF Covers
<1> QED
  BY <1>3, <1>4, <1>5, <1>6, <1>10 DEF Tree

(* What the new block holds is no more than what the old one of n held. *)
NoMoreSims(ns, cs, n, new) == RangeSum(SimCounts(new), 0, Len(new)) <= BlockSims(cs, ns[n + 1])

(* Every node that is left but n holds the simulations it held, and n's    *)
(* new block no more than the old one.                                     *)
LEMMA RollKeepsSims ==
  ASSUME NEW ns, NEW cs, NEW L, NEW root, NEW pos, Tree(ns, cs, L, root, pos),
         NEW n, NEW chosen, NEW new, NEW up, NEW down, NEW ms, NEW ds,
         RollsUp(ns, cs, L, n, chosen, new, up, down, ms, ds),
         NoMoreSims(ns, cs, n, new)
  PROVE  \A k \in L : BlockSims(ds, ms[k + 1]) \in Nat /\ BlockSims(ds, ms[k + 1]) <= BlockSims(cs, ns[k + 1])
<1>1. Vectors(ns, cs) /\ Links(ns, cs, L) /\ Vectors(ms, ds)
  <2> DEFINE K == L \ Dissolved(cs, chosen)
  <2>1. K = L \ Dissolved(cs, chosen)
    OBVIOUS
  <2> HIDE DEF K
  <2>2. Vectors(ms, ds)
    BY <2>1, RollKeepsLinks
  <2> QED
    BY <2>2 DEF Tree
<1>2. Reblocked(ns, cs, L, n, chosen, new, ms, ds) /\ n \in L
  BY RolledBlocks DEF RollsUp
<1>3. Len(ds) \in Nat /\ Len(cs) \in Nat /\ Len(cs) <= Len(ds) /\ Len(new) \in Nat
      /\ new \in Seq(ChildRecord)
  <2>1. Len(ds) = Len(cs) + Len(new) /\ new \in Seq(ChildRecord)
    BY DEF RollsUp, Rebuilt, Rolls
  <2>2. Len(new) \in Nat /\ Len(cs) \in Nat
    BY <1>2 DEF Reblocked
  <2> QED
    BY <2>1, <2>2
<1> TAKE k \in L
<1>4. k \in Indices(ns) /\ k \in Indices(ms)
  BY <1>1, <1>2, LinkFacts DEF Reblocked
<1>5. BlockSims(ds, ms[k + 1]) \in Nat /\ BlockSims(cs, ns[k + 1]) \in Nat
  BY <1>1, <1>4, BlockSimsNat
<1>6. CASE k # n
  <2>1. ms[k + 1] = ns[k + 1]
    BY <1>2, <1>4, <1>6 DEF Reblocked
  <2>2. \A i \in BlockOf(ns, k) : ds[i + 1].sim_count = cs[i + 1].sim_count
    BY <1>1, <1>2, <1>4, VectorFacts DEF Reblocked
  <2>3. ms[k + 1].first = ns[k + 1].first /\ ms[k + 1].second = ns[k + 1].second
    BY <2>1
  <2>4. BlockSims(ds, ms[k + 1]) = BlockSims(cs, ns[k + 1])
    BY <1>1, <1>3, <1>4, <2>2, <2>3, BlockSimsAlike
  <2> QED
    BY <1>5, <2>4
<1>7. CASE k = n
  <2> DEFINE f == SimCounts(new)
             g == SimCounts(ds)
             w == Len(new)
             lo == Len(cs)
  <2>1. w \in Nat /\ lo \in Nat
    BY <1>3
  <2>2. \A x \in 0..(w - 1) : f[0 + x] \in Nat /\ g[lo + x] = f[0 + x]
    <3> TAKE x \in 0..(w - 1)
    <3> DEFINE i == lo + x
    <3>1. x + 1 \in 1..Len(new) /\ lo + (x + 1) - 1 = i /\ x = (x + 1) - 1
      BY <1>3
    <3>2. i \in BlockOf(ms, n) /\ i - lo + 1 = x + 1
      BY <1>2, <3>1 DEF Reblocked
    <3>3. i \in Indices(ds) /\ ds[i + 1] = new[x + 1]
      BY <1>2, <3>2 DEF Reblocked
    <3>4. new[x + 1] \in ChildRecord
      BY <1>3, <3>1
    <3> HIDE DEF i
    <3>5. g[i] = new[x + 1].sim_count
      BY <3>3 DEF SimCounts, Indices
    <3>6. f[x] = new[x + 1].sim_count /\ f[x] \in Nat
      BY <1>3, <3>1, <3>4 DEF SimCounts, ChildRecord
    <3>7. 0 + x = x
      OBVIOUS
    <3> QED
      BY <3>5, <3>6, <3>7 DEF i
  <2>3. ms[n + 1].first = lo /\ ms[n + 1].second = lo + w
    BY <1>2 DEF Reblocked
  <2>4. BlockSims(ds, ms[n + 1]) = RangeSum(g, lo, w)
    BY <2>3 DEF BlockSims, RangeSum, ChildIndices
  <2>5. RangeSum(f, 0, w) <= BlockSims(cs, ns[n + 1])
    BY DEF NoMoreSims
  <2> HIDE DEF f, g, w, lo
  <2>6. RangeSum(g, lo, w) = RangeSum(f, 0, w)
    BY <2>1, <2>2, RangeSumSame DEF SameValues
  <2> QED
    BY <1>5, <1>7, <2>4, <2>5, <2>6
<1> QED
  BY <1>6, <1>7

(* Where nodes may be dissolved, a count may exceed what is below it. *)
Loose(rolled) == \A isRoot, node : Surplus(rolled, isRoot, node) = Nat

(* No count of a node or a child is short of what is below it, and every   *)
(* expanded node in the middle of a turn still has a visited child.        *)
LEMMA RollKeepsCounts ==
  ASSUME NEW ns, NEW cs, NEW L, NEW root, NEW pos, Tree(ns, cs, L, root, pos),
         NEW n, NEW chosen, NEW new, NEW up, NEW down, NEW ms, NEW ds,
         RollsUp(ns, cs, L, n, chosen, new, up, down, ms, ds),
         NEW total \in Nat, NEW rolled, Loose(rolled), Counted(ns, cs, L, total, rolled),
         NoMoreSims(ns, cs, n, new),
         NEW K, K = L \ Dissolved(cs, chosen)
  PROVE  Counted(ms, ds, K, total, rolled)
<1>1. Vectors(ns, cs) /\ Links(ns, cs, L)
  BY DEF Tree
<1>2. Reblocked(ns, cs, L, n, chosen, new, ms, ds) /\ n \in L
  BY RolledBlocks DEF RollsUp
<1>3. \A k \in K : \A i \in BlockOf(ms, k) :
            /\ \E p \in L : Came(cs, down, i) \in BlockOf(ns, p) /\ (p = k \/ p \notin K)
            /\ Came(cs, down, i) \in Indices(cs) /\ Came(cs, down, i) \notin chosen
            /\ ds[i + 1].index = cs[Came(cs, down, i) + 1].index
            /\ ds[i + 1].sim_count = cs[Came(cs, down, i) + 1].sim_count
  BY Origins
<1>4. \A k \in L : BlockSims(ds, ms[k + 1]) \in Nat /\ BlockSims(ds, ms[k + 1]) <= BlockSims(cs, ns[k + 1])
  BY RollKeepsSims
<1>5. \A k \in L : is_terminal(ms[k + 1]) <=> is_terminal(ns[k + 1])
  <2> TAKE k \in L
  <2>1. ms[k + 1].status = ns[k + 1].status
    <3>1. k \in Indices(ns)
      BY <1>1, LinkFacts
    <3> QED
      BY <1>2, <3>1 DEF Reblocked
  <2> QED
    BY <2>1 DEF is_terminal
<1>6. \A b, x : Surplus(rolled, b, x) = Nat
  BY DEF Loose
<1>7. \A c \in Nat : Extra(Nobody, c) = 0
  BY DEF Extra, Nobody
<1>8. \A k \in L : BlockSims(cs, ns[k + 1]) \in Nat
  BY <1>1, LinkFacts, BlockSimsNat
<1>9. /\ \A i \in Indices(cs) : cs[i + 1].index = 0 <=> cs[i + 1].sim_count = 0
      /\ ~is_terminal(ns[1]) => (total - BlockSims(cs, ns[1])) - Extra(Nobody, 0) \in Surplus(rolled, TRUE, ns[1])
      /\ \A k \in L : \A i \in BlockOf(ns, k) : CountAt(ns, cs, rolled, Nobody, cs[i + 1])
  BY DEF Counted, CountedBut
<1>10. n \in K /\ 0 \in K /\ K \subseteq L /\ Links(ms, ds, K)
  BY <1>2, RollKeepsLinks DEF Reblocked
<1>11. ASSUME NEW i \in Indices(ds) PROVE ds[i + 1].index = 0 <=> ds[i + 1].sim_count = 0
  <2>1. CASE i \in Indices(cs)
    <3>1. ds[i + 1] = cs[i + 1]
      BY <1>2, <2>1 DEF Reblocked
    <3> QED
      BY <1>9, <2>1, <3>1
  <2>2. CASE i \in BlockOf(ms, n)
    <3> DEFINE j == Came(cs, down, i)
    <3>1. j \in Indices(cs) /\ ds[i + 1].index = cs[j + 1].index /\ ds[i + 1].sim_count = cs[j + 1].sim_count
      BY <1>3, <1>10, <2>2
    <3> HIDE DEF j
    <3> QED
      BY <1>9, <3>1
  <2> QED
    BY <1>2, <2>1, <2>2 DEF Reblocked
<1>12. ASSUME ~is_terminal(ms[1])
       PROVE  (total - BlockSims(ds, ms[1])) - Extra(Nobody, 0) \in Surplus(rolled, TRUE, ms[1])
  <2> DEFINE old == BlockSims(cs, ns[1])
             now == BlockSims(ds, ms[1])
  <2>1. 0 \in L /\ 0 + 1 = 1
    BY <1>10
  <2>2. ~is_terminal(ns[1])
    BY <1>5, <1>12, <2>1
  <2>3. old \in Nat /\ now \in Nat /\ now <= old
    BY <1>4, <1>8, <2>1
  <2>4. (total - old) - 0 \in Nat
    BY <1>6, <1>7, <1>9, <2>2
  <2> HIDE DEF old, now
  <2>5. (total - now) - 0 \in Nat
    BY <2>3, <2>4
  <2> QED
    BY <1>6, <1>7, <2>5 DEF now
<1>13. ASSUME NEW k \in K, NEW i \in BlockOf(ms, k)
       PROVE  CountAt(ms, ds, rolled, Nobody, ds[i + 1])
  <2> DEFINE j == Came(cs, down, i)
             c == ds[i + 1].index
  <2>1. SUFFICES ASSUME c # 0, ~is_terminal(ms[c + 1])
                 PROVE  (ds[i + 1].sim_count - BlockSims(ds, ms[c + 1])) - Extra(Nobody, c) \in Surplus(rolled, FALSE, ms[c + 1])
    BY DEF CountAt
  <2>2. j \in Indices(cs) /\ c = cs[j + 1].index /\ ds[i + 1].sim_count = cs[j + 1].sim_count
    BY <1>3
  <2>3. PICK p \in L : j \in BlockOf(ns, p)
    BY <1>3
  <2>4. c \in K
    BY <1>10, <2>1 DEF Links
  <2>5. c \in L /\ c \in Nat
    BY <1>1, <1>10, <2>4, LinkFacts
  <2>6. ~is_terminal(ns[c + 1])
    BY <1>5, <2>1, <2>5
  <2> DEFINE a == cs[j + 1].sim_count
             old == BlockSims(cs, ns[c + 1])
             now == BlockSims(ds, ms[c + 1])
  <2>7. a \in Nat
    BY <1>1, <2>2, VectorFacts
  <2>8. old \in Nat /\ now \in Nat /\ now <= old
    BY <1>4, <1>8, <2>5
  <2>9. CountAt(ns, cs, rolled, Nobody, cs[j + 1])
    BY <1>9, <2>3
  <2>10. (a - old) - Extra(Nobody, c) \in Surplus(rolled, FALSE, ns[c + 1])
    BY <2>1, <2>2, <2>6, <2>9 DEF CountAt
  <2>11. (a - old) - 0 \in Nat
    <3>1. Extra(Nobody, c) = 0
      BY <1>7, <2>5
    <3> HIDE DEF c, a, old
    <3> QED
      BY <1>6, <2>10, <3>1
  <2> HIDE DEF c, a, old, now
  <2>12. (a - now) - 0 \in Nat
    BY <2>7, <2>8, <2>11
  <2>13. ds[i + 1].sim_count = a
    BY <2>2 DEF a
  <2> QED
    BY <1>6, <1>7, <2>5, <2>12, <2>13 DEF now
<1> QED
  BY <1>11, <1>12, <1>13 DEF Counted, CountedBut

(* Expanded nodes in the middle of a turn keep a visited child. *)
LEMMA RollTouches ==
  ASSUME NEW ns, NEW cs, NEW L, NEW root, NEW pos, Tree(ns, cs, L, root, pos),
         NEW n, NEW chosen, NEW new, NEW up, NEW down, NEW ms, NEW ds,
         RollsUp(ns, cs, L, n, chosen, new, up, down, ms, ds),
         Touched(ns, cs, L, Nobody),
         NEW K, K = L \ Dissolved(cs, chosen)
  PROVE  Touched(ms, ds, K, Nobody)
<1>1. Vectors(ns, cs) /\ Links(ns, cs, L)
  BY DEF Tree
<1>2. Reblocked(ns, cs, L, n, chosen, new, ms, ds) /\ n \in L /\ Ripe(ns, cs, chosen, n)
      /\ Rolls(ns, cs, n, chosen, new, up, down)
  BY RolledBlocks DEF RollsUp
<1>3. \A i \in chosen : Dissolves(ns, cs, L, pos, n, i)
  BY <1>2, ChosenDissolve
<1> SUFFICES ASSUME NEW k \in K, is_expanded(ms[k + 1]), ~ms[k + 1].is_nodal
             PROVE  \E i \in BlockOf(ms, k) : ds[i + 1].index # 0
  BY DEF Touched
<1>4. k \in L /\ k \in Nat /\ k # Nobody /\ k \in Indices(ns)
  BY <1>1, LinkFacts DEF Nobody
<1>5. CASE k # n
  <2>1. ms[k + 1] = ns[k + 1] /\ BlockOf(ms, k) = BlockOf(ns, k)
    BY <1>2, <1>4, <1>5 DEF Reblocked
  <2>2. PICK i \in BlockOf(ns, k) : cs[i + 1].index # 0
    BY <1>4, <2>1 DEF Touched
  <2>3. ds[i + 1] = cs[i + 1]
    BY <1>1, <1>2, <1>4, VectorFacts DEF Reblocked
  <2> QED
    BY <2>1, <2>2, <2>3
<1>6. CASE k = n
  <2>1. PICK i \in chosen : TRUE
    BY <1>2 DEF Ripe
  <2> DEFINE c == cs[i + 1].index
             j == ns[c + 1].second - 1
  <2>2. j \in BlockOf(ns, c) /\ cs[j + 1].index # 0
    BY <1>3, <2>1 DEF Dissolves
  <2>3. PICK p \in 1..Len(new) : up[p] = i /\ down[p] = j
    BY <1>2, <2>1, <2>2 DEF Rolls
  <2>4. ComesFrom(ns, cs, n, chosen, new[p], i, j)
    BY <1>2, <2>3 DEF Rolls
  <2> HIDE DEF j
  <2>5. new[p].index = cs[j + 1].index
    BY <2>1, <2>4 DEF ComesFrom, Lifted
  <2> DEFINE q == Len(cs) + p - 1
  <2>6. q \in BlockOf(ms, n) /\ q - Len(cs) + 1 = p
    BY <1>2 DEF Reblocked
  <2> HIDE DEF q
  <2>7. ds[q + 1] = new[p]
    BY <1>2, <2>6 DEF Reblocked
  <2> QED
    BY <1>6, <2>2, <2>5, <2>6, <2>7
<1> QED
  BY <1>5, <1>6

-----------------------------------------------------------------------------
(* The way back, and the step.                                             *)

(* The stack without its last child leads to the node that child is of.    *)
LEMMA WayBack ==
  ASSUME NEW ns, NEW cs, NEW L, Vectors(ns, cs), Links(ns, cs, L),
         NEW stack, stack # <<>>, Way(ns, cs, L, stack, At(cs, stack, Len(stack))),
         NEW n, n = IF Len(stack) = 1 THEN 0 ELSE cs[Last(Front(stack)) + 1].index
  PROVE  /\ Way(ns, cs, L, Front(stack), n)
         /\ n = At(cs, Front(stack), Len(Front(stack)))
         /\ n \in L
<1> DEFINE w == Len(stack)
           f == Front(stack)
<1>1. stack \in Seq(Indices(cs))
  BY DEF Way
<1>2. /\ w \in Nat \ {0} /\ f \in Seq(Indices(cs)) /\ Len(f) = w - 1
      /\ \A k \in 1..(w - 1) : f[k] = stack[k]
  BY <1>1, FrontIs
<1>3. \A k \in 1..w : At(cs, stack, k - 1) \in L /\ stack[k] \in BlockOf(ns, At(cs, stack, k - 1)) /\ At(cs, stack, k) # 0
  BY DEF Way
<1>4. n = At(cs, f, Len(f))
  <2>1. CASE w = 1
    <3>1. Len(f) = 0
      BY <1>2, <2>1
    <3> QED
      BY <2>1, <3>1 DEF At
  <2>2. CASE w # 1
    <3>1. Len(f) # 0 /\ f # <<>>
      BY <1>2, <2>2
    <3>2. Last(f) = f[Len(f)]
      BY <1>2, <3>1, FrontIs
    <3> QED
      BY <2>2, <3>1, <3>2 DEF At
  <2> QED
    BY <2>1, <2>2
<1> HIDE DEF w, f
<1>5. \A k \in 0..(w - 1) : At(cs, f, k) = At(cs, stack, k)
  <2> TAKE k \in 0..(w - 1)
  <2>1. k # 0 => k \in 1..(w - 1)
    BY <1>2
  <2> QED
    BY <1>2, <2>1 DEF At
<1>6. \A k \in 1..Len(f) : At(cs, f, k - 1) \in L /\ f[k] \in BlockOf(ns, At(cs, f, k - 1)) /\ At(cs, f, k) # 0
  <2> TAKE k \in 1..Len(f)
  <2>1. k \in 1..w /\ k \in 1..(w - 1) /\ k \in 0..(w - 1) /\ k - 1 \in 0..(w - 1)
    BY <1>2
  <2> QED
    BY <1>2, <1>3, <1>5, <2>1
<1>7. n \in L
  <2>1. w - 1 \in 0..(w - 1) /\ w \in 1..w
    BY <1>2
  <2>2. n = At(cs, stack, w - 1)
    BY <1>2, <1>4, <1>5, <2>1
  <2> QED
    BY <1>3, <2>1, <2>2
<1> QED
  BY <1>2, <1>4, <1>6, <1>7 DEF Way, f

(* Rolling up the node it leads to keeps that way: the nodes above are     *)
(* older, so none of them is dissolved.                                    *)
LEMMA RollKeepsWay ==
  ASSUME NEW ns, NEW cs, NEW L, NEW root, NEW pos, Tree(ns, cs, L, root, pos),
         NEW n, NEW chosen, NEW new, NEW up, NEW down, NEW ms, NEW ds,
         RollsUp(ns, cs, L, n, chosen, new, up, down, ms, ds),
         NEW K, K = L \ Dissolved(cs, chosen),
         NEW stack, Way(ns, cs, L, stack, n)
  PROVE  Way(ms, ds, K, stack, At(ds, stack, Len(stack)))
<1>1. Vectors(ns, cs) /\ Links(ns, cs, L)
  BY DEF Tree
<1>2. Reblocked(ns, cs, L, n, chosen, new, ms, ds) /\ n \in L /\ Ripe(ns, cs, chosen, n)
  BY RolledBlocks DEF RollsUp
<1>3. \A i \in chosen : Dissolves(ns, cs, L, pos, n, i)
  BY <1>2, ChosenDissolve
<1> DEFINE w == Len(stack)
           A(k) == At(cs, stack, k)
<1>4. /\ w \in Nat
      /\ \A k \in 0..w : A(k) \in L
      /\ \A j, k \in 0..w : j < k => A(j) < A(k)
  BY <1>1, WayFacts
<1>5. /\ stack \in Seq(Indices(cs)) /\ n = A(w)
      /\ \A k \in 1..w : A(k - 1) \in L /\ stack[k] \in BlockOf(ns, A(k - 1)) /\ A(k) # 0
  BY DEF Way
<1>6. \A k \in 0..w : At(ds, stack, k) = A(k)
  <2> TAKE k \in 0..w
  <2>1. CASE k = 0
    BY <2>1 DEF At
  <2>2. CASE k # 0
    <3>1. stack[k] \in Indices(cs)
      BY <1>4, <1>5, <2>2
    <3>2. ds[stack[k] + 1] = cs[stack[k] + 1]
      BY <1>2, <3>1 DEF Reblocked
    <3> QED
      BY <2>2, <3>2 DEF At
  <2> QED
    BY <2>1, <2>2
<1> HIDE DEF w, A
<1>7. ASSUME NEW k \in 0..w PROVE A(k) \in K /\ A(k) \in Nat /\ n \in Nat /\ A(k) <= n
  <2>1. A(k) \in L /\ A(k) \in Nat /\ n \in Nat
    BY <1>1, <1>2, <1>4, LinkFacts
  <2>2. A(k) <= n
    <3>1. CASE k = w
      BY <1>5, <2>1, <3>1
    <3>2. CASE k # w
      <4>1. w \in 0..w /\ k < w
        BY <1>4, <3>2
      <4>2. A(k) < A(w)
        BY <1>4, <4>1
      <4> QED
        BY <1>5, <2>1, <4>2
    <3> QED
      BY <3>1, <3>2
  <2>3. \A c \in Dissolved(cs, chosen) : n < c /\ c \in Nat
    BY <1>3 DEF Dissolved, Dissolves
  <2> QED
    BY <2>1, <2>2, <2>3
<1>8. ASSUME NEW k \in 1..w
      PROVE  At(ds, stack, k - 1) \in K /\ stack[k] \in BlockOf(ms, At(ds, stack, k - 1)) /\ At(ds, stack, k) # 0
  <2>1. k - 1 \in 0..w /\ k \in 0..w /\ w \in 0..w /\ k - 1 < w
    BY <1>4
  <2>2. At(ds, stack, k - 1) = A(k - 1) /\ At(ds, stack, k) = A(k) /\ A(k - 1) \in K
    BY <1>6, <1>7, <2>1
  <2>3. A(k - 1) # n
    <3>1. A(k - 1) < A(w)
      BY <1>4, <2>1
    <3>2. A(k - 1) \in Nat /\ n \in Nat
      BY <1>7, <2>1
    <3> QED
      BY <1>5, <3>1, <3>2
  <2>4. A(k - 1) \in Indices(ns)
    BY <1>1, <1>5, LinkFacts
  <2>5. BlockOf(ms, A(k - 1)) = BlockOf(ns, A(k - 1))
    BY <1>2, <2>3, <2>4 DEF Reblocked
  <2> QED
    BY <1>5, <2>2, <2>5
<1>9. stack \in Seq(Indices(ds))
  <2>1. Indices(cs) \subseteq Indices(ds)
    BY <1>2 DEF Reblocked
  <2> QED
    BY <1>5, <2>1
<1> QED
  BY <1>8, <1>9 DEF Way, w

(* The vectors after a roll-up. *)
NodeRewrite(ns, p, a, b) == [ns EXCEPT ![p].first = a, ![p].second = b]

(* Two fields of one node change, and nothing else. *)
LEMMA NodeRewritten ==
  ASSUME NEW ns \in Seq(NodeRecord), NEW p \in 1..Len(ns), NEW a \in Nat, NEW b \in Nat,
         NEW ms, ms = NodeRewrite(ns, p, a, b)
  PROVE  /\ ms \in Seq(NodeRecord) /\ Len(ms) = Len(ns)
         /\ \A k \in 1..Len(ns) : k # p => ms[k] = ns[k]
         /\ ms[p] = [first |-> a, second |-> b, is_nodal |-> ns[p].is_nodal, status |-> ns[p].status]
<1> DEFINE r == ns[p]
           x == [r EXCEPT !.first = a]
           q == [ns EXCEPT ![p] = x]
           y == [x EXCEPT !.second = b]
           z == [first |-> a, second |-> b, is_nodal |-> r.is_nodal, status |-> r.status]
<1>1. r \in NodeRecord
  OBVIOUS
<1>10. x = [ns[p] EXCEPT !.first = a]
  OBVIOUS
<1> HIDE DEF r
<1>2. x = [first |-> a, second |-> r.second, is_nodal |-> r.is_nodal, status |-> r.status]
  BY <1>1 DEF NodeRecord
<1>3. y = z
  <2> HIDE DEF x
  <2>1. y = [first |-> a, second |-> b, is_nodal |-> r.is_nodal, status |-> r.status]
    BY <1>2
  <2> QED
    BY <2>1
<1>4. z \in NodeRecord /\ x \in NodeRecord
  BY <1>1, <1>2 DEF NodeRecord
<1>5. q = [ns EXCEPT ![p].first = a]
  BY <1>10
<1>6. ms = [q EXCEPT ![p].second = b]
  BY <1>5 DEF NodeRewrite
<1> HIDE DEF x
<1>7. q \in Seq(NodeRecord) /\ Len(q) = Len(ns) /\ q[p] = x /\ \A k \in 1..Len(ns) : k # p => q[k] = ns[k]
  BY <1>4
<1> HIDE DEF q
<1>8. ms = [q EXCEPT ![p] = y]
  BY <1>6, <1>7
<1>11. ms = [q EXCEPT ![p] = z]
  BY <1>3, <1>8
<1> HIDE DEF y, z
<1>9. ms \in Seq(NodeRecord) /\ Len(ms) = Len(ns) /\ ms[p] = z /\ \A k \in 1..Len(ns) : k # p => ms[k] = q[k]
  BY <1>4, <1>7, <1>11
<1> QED
  BY <1>7, <1>9 DEF z, r

Rewrites(ns, cs, n, new, ms, ds) ==
  /\ ms = NodeRewrite(ns, n + 1, Len(cs), Len(cs) + Len(new))
  /\ ds = cs \o new

(* A block at the end, and the node that refers to it. *)
LEMMA RebuiltIs ==
  ASSUME Vectors(nodes, children), NEW n \in Indices(nodes), NEW new \in Seq(ChildRecord),
         NEW ms, NEW ds, Rewrites(nodes, children, n, new, ms, ds)
  PROVE  Rebuilt(nodes, children, n, new, ms, ds)
<1> DEFINE a == Len(children)
           b == Len(children) + Len(new)
           p == n + 1
<1>1. /\ a \in Nat /\ b \in Nat /\ nodes \in Seq(NodeRecord) /\ children \in Seq(ChildRecord)
      /\ Len(nodes) \in Nat /\ n \in Nat /\ p \in 1..Len(nodes)
  BY VectorFacts DEF Vectors, Indices
<1>2. ms = NodeRewrite(nodes, p, a, b) /\ ds = children \o new
  BY DEF Rewrites
<1> HIDE DEF a, b, p
<1>3. /\ ms \in Seq(NodeRecord) /\ Len(ms) = Len(nodes)
      /\ \A k \in 1..Len(nodes) : k # p => ms[k] = nodes[k]
      /\ ms[p] = [first |-> a, second |-> b, is_nodal |-> nodes[p].is_nodal, status |-> nodes[p].status]
  BY <1>1, <1>2, NodeRewritten
<1>4. /\ ds \in Seq(ChildRecord) /\ Len(ds) = Len(children) + Len(new)
      /\ \A k \in 1..Len(children) : ds[k] = children[k]
      /\ \A k \in 1..Len(new) : ds[Len(children) + k] = new[k]
  BY <1>1, <1>2, JoinParts
<1>5. \A k \in Indices(nodes) : k # n => ms[k + 1] = nodes[k + 1]
  <2> TAKE k \in Indices(nodes)
  <2>1. k + 1 \in 1..Len(nodes) /\ (k # n => k + 1 # p)
    BY <1>1 DEF Indices, p
  <2> QED
    BY <1>3, <2>1
<1>6. \A i \in Indices(children) : ds[i + 1] = children[i + 1]
  <2> TAKE i \in Indices(children)
  <2>1. i + 1 \in 1..Len(children)
    BY <1>1 DEF Indices, a
  <2> QED
    BY <1>4, <2>1
<1> QED
  BY <1>3, <1>4, <1>5, <1>6 DEF Rebuilt, a, b, p

(* What a roll-up keeps of the invariant, for the vectors it leaves. *)
LEMMA RolledHolds ==
  ASSUME GETTER = "S", NEW L, NEW pos, Tree(nodes, children, L, root_state, pos),
         NEW total \in Nat, NEW rolled, Loose(rolled), Counted(nodes, children, L, total, rolled),
         Touched(nodes, children, L, Nobody),
         NEW n \in L, NEW chosen, Ripe(nodes, children, chosen, n),
         NEW new, new = RolledUp(n, chosen),
         NEW ms, NEW ds, Rewrites(nodes, children, n, new, ms, ds),
         NEW stack, Way(nodes, children, L, stack, n)
  PROVE  \E K, q : /\ Tree(ms, ds, K, root_state, q)
                   /\ Counted(ms, ds, K, total, rolled)
                   /\ Touched(ms, ds, K, Nobody)
                   /\ Way(ms, ds, K, stack, At(ds, stack, Len(stack)))
<1>1. Vectors(nodes, children) /\ Links(nodes, children, L)
  BY DEF Tree
<1>2. PICK up, down : Rolls(nodes, children, n, chosen, new, up, down)
  BY RolledUpIs
<1>3. NoMoreSims(nodes, children, n, new)
  BY RolledSims DEF NoMoreSims
<1>5. new \in Seq(ChildRecord) /\ n \in Indices(nodes)
  BY <1>1, <1>2, LinkFacts DEF Rolls
<1>6. Rebuilt(nodes, children, n, new, ms, ds)
  BY <1>1, <1>5, RebuiltIs
<1>7. RollsUp(nodes, children, L, n, chosen, new, up, down, ms, ds)
  BY <1>2, <1>6 DEF RollsUp
<1> DEFINE K == L \ Dissolved(children, chosen)
<1>8. K = L \ Dissolved(children, chosen)
  OBVIOUS
<1> HIDE DEF K
<1>9. Tree(ms, ds, K, root_state, Only(pos, K))
  BY <1>7, <1>8, RollKeepsTree
<1>10. Counted(ms, ds, K, total, rolled)
  BY <1>3, <1>7, <1>8, RollKeepsCounts
<1>11. Touched(ms, ds, K, Nobody)
  BY <1>7, <1>8, RollTouches
<1>12. Way(ms, ds, K, stack, At(ds, stack, Len(stack)))
  BY <1>7, <1>8, RollKeepsWay
<1> QED
  BY <1>9, <1>10, <1>11, <1>12

(* A roll-up on the way back keeps the invariant. *)
LEMMA RollUpStep ==
  ASSUME NEW rolled, Loose(rolled), NEW L, NEW pos, Inv(rolled, L, pos), RollUp
  PROVE  IInv(rolled)'
<1> DEFINE n == IF Len(children_stack) = 1 THEN 0 ELSE Child(Last(Front(children_stack))).index
           f == Front(children_stack)
<1>1. /\ GETTER = "S" /\ pc = "return" /\ pc' = "return" /\ children_stack # <<>> /\ children_stack' = f
      /\ root_sim_count' = root_sim_count /\ root_state' = root_state
      /\ state' = state /\ node_index' = node_index /\ node_sim_count' = node_sim_count
  BY DEF RollUp
<1>2. PICK chosen \in SUBSET RipeChildren(n) :
        IF chosen = {} THEN UNCHANGED vectors
        ELSE /\ children' = children \o RolledUp(n, chosen)
             /\ nodes' = [nodes EXCEPT ![n + 1].first = Len(children),
                                       ![n + 1].second = Len(children) + Len(RolledUp(n, chosen))]
  BY DEF RollUp
<1>3. /\ Tree(nodes, children, L, root_state, pos)
      /\ Counted(nodes, children, L, root_sim_count, rolled)
      /\ Touched(nodes, children, L, Nobody)
      /\ root_sim_count \in 0..MaxSims
      /\ Returning(L)
  BY <1>1 DEF Inv, Idling, Descending
<1>10. root_sim_count \in Nat
  BY <1>3
<1>4. Vectors(nodes, children) /\ Links(nodes, children, L) /\ AtRest
      /\ Way(nodes, children, L, children_stack, At(children, children_stack, Len(children_stack)))
  BY <1>3 DEF Tree, Returning
<1>5. n = IF Len(children_stack) = 1 THEN 0 ELSE children[Last(Front(children_stack)) + 1].index
  BY DEF Child
<1> HIDE DEF n
<1>6. Way(nodes, children, L, f, n) /\ n = At(children, f, Len(f)) /\ n \in L
  BY <1>1, <1>4, <1>5, WayBack
<1> HIDE DEF f
<1>7. ASSUME NEW K, NEW q, Tree(nodes', children', K, root_state, q),
             Counted(nodes', children', K, root_sim_count, rolled), Touched(nodes', children', K, Nobody),
             Way(nodes', children', K, f, At(children', f, Len(f)))
      PROVE  Inv(rolled, K, q)'
  BY <1>1, <1>3, <1>4, <1>7 DEF Inv, Returning, AtRest
<1>8. CASE chosen = {}
  <2>1. nodes' = nodes /\ children' = children
    BY <1>2, <1>8 DEF vectors
  <2> QED
    BY <1>3, <1>6, <1>7, <2>1 DEF IInv
<1>9. CASE chosen # {}
  <2> DEFINE new == RolledUp(n, chosen)
  <2>1. /\ children' = children \o new
        /\ nodes' = NodeRewrite(nodes, n + 1, Len(children), Len(children) + Len(new))
    BY <1>2, <1>9 DEF NodeRewrite
  <2>4. new = RolledUp(n, chosen)
    OBVIOUS
  <2> HIDE DEF new
  <2>2. Ripe(nodes, children, chosen, n)
    BY <1>2, <1>9 DEF Ripe, RipeChildren, BlockOf, Node, Child, is_node_fully_expanded
  <2> DEFINE ms == NodeRewrite(nodes, n + 1, Len(children), Len(children) + Len(new))
             ds == children \o new
  <2>5. Rewrites(nodes, children, n, new, ms, ds)
    BY DEF Rewrites
  <2>6. nodes' = ms /\ children' = ds
    BY <2>1
  <2> HIDE DEF ms, ds
  <2>3. PICK K, q : /\ Tree(ms, ds, K, root_state, q)
                    /\ Counted(ms, ds, K, root_sim_count, rolled)
                    /\ Touched(ms, ds, K, Nobody)
                    /\ Way(ms, ds, K, f, At(ds, f, Len(f)))
    BY <1>1, <1>3, <1>6, <1>10, <2>2, <2>4, <2>5, RolledHolds
  <2>7. Inv(rolled, K, q)'
    BY <1>7, <2>3, <2>6
  <2> QED
    BY <2>7 DEF IInv
<1> QED
  BY <1>8, <1>9

-----------------------------------------------------------------------------
(* The roll-up tree.                                                       *)

(* Its invariant: that of the semisplit tree, but a count may exceed what  *)
(* is below by any number: the dissolved nodes took theirs away.           *)
RollupInv == IInv(TRUE)

(* The invariant is inductive for the roll-up tree. *)
LEMMA RollupKeeps ==
  RollupInv /\ [RollupNext]_vars => RollupInv'
<1> SUFFICES ASSUME IInv(TRUE), RollupNext \/ UNCHANGED vars PROVE IInv(TRUE)'
  BY DEF RollupInv
<1> DEFINE rolled == TRUE
<1>1. PICK L, pos : Inv(rolled, L, pos)
  BY DEF IInv
<1>2. Loose(rolled)
  BY DEF Loose, Surplus
<1> HIDE DEF rolled
<1>3. SimulationStep \/ RollUp \/ (FinishSimulation \/ OpponentMove \/ ChooseBestMove \/ ResetTree \/ UNCHANGED vars)
  BY DEF RollupNext, FinishRollup
<1>4. IInv(rolled)'
  BY <1>1, <1>2, <1>3, SimulationKeeps, OtherStepsKeep, RollUpStep
<1> QED
  BY <1>4 DEF rolled

(* The roll-up tree keeps its invariant, whatever the game, and whichever  *)
(* of the ripe children are rolled up.                                     *)
THEOREM RollupInvariant == RollupSpec => []RollupInv
<1>1. Init => RollupInv
  BY InitInv DEF RollupInv
<1> QED
  BY <1>1, RollupKeeps, PTL DEF RollupSpec

(* What it tells of the properties. *)
LEMMA RollupTells ==
  RollupInv => TypeOK /\ VisitedFirst /\ StatusesTrue /\ EdgesCoverMoves
<1> SUFFICES ASSUME IInv(TRUE) PROVE TypeOK /\ VisitedFirst /\ StatusesTrue /\ EdgesCoverMoves
  BY DEF RollupInv
<1> DEFINE rolled == TRUE
<1>1. PICK L, pos : Inv(rolled, L, pos)
  BY DEF IInv
<1> HIDE DEF rolled
<1> QED
  BY <1>1, InvTypeOK, InvVisited, InvStatuses, InvCovers

(* Where edges are semimoves, a move chosen is legal after roll-ups, too. *)
LEMMA RollupChooses ==
  ASSUME GETTER = "S"
  PROVE  RollupInv => ChosenMoveLegal
<1> SUFFICES ASSUME IInv(TRUE) PROVE ChosenMoveLegal
  BY DEF RollupInv
<1> DEFINE rolled == TRUE
<1>1. PICK L, pos : Inv(rolled, L, pos)
  BY DEF IInv
<1> HIDE DEF rolled
<1> QED
  BY <1>1, InvChosen

(* No roll-up leaves a block outside the vector or a child without node:   *)
(* the types of the roll-up tree.                                          *)
THEOREM RollupTypeCorrect == RollupSpec => []TypeOK
BY RollupInvariant, RollupTells, PTL

(* The children that move up come in an order that keeps the visited ones  *)
(* in front of the block.                                                  *)
THEOREM RollupVisitedFirst == RollupSpec => []VisitedFirst
BY RollupInvariant, RollupTells, PTL

(* Every node still knows what it stands for: whether a turn is over there,*)
(* and whether the game is.                                                *)
THEOREM RollupStatusesTrue == RollupSpec => []StatusesTrue
BY RollupInvariant, RollupTells, PTL

(* Rolled up or not, the children of an expanded node offer every legal    *)
(* move of the turn, each through exactly one of them.                     *)
THEOREM RollupEdgesCoverMoves == RollupSpec => []EdgesCoverMoves
BY RollupInvariant, RollupTells, PTL

(* The move read off a rolled-up tree is a legal one. *)
THEOREM RollupChosenMoveLegal ==
  ASSUME GETTER = "S"
  PROVE  RollupSpec => []ChosenMoveLegal
<1>1. RollupInv => ChosenMoveLegal
  BY RollupChooses
<1> QED
  BY <1>1, RollupInvariant, PTL

-----------------------------------------------------------------------------
(* What the tree knows about whole turns, for any vectors.                 *)
SeenIn(ns, cs, n) == {k \in BlockOf(ns, n) : cs[k + 1].index # 0}
TurnsAt(ns, cs, f, k) ==
  LET next == cs[k + 1].index
      text == Written(cs[k + 1].semimove)
  IN IF ns[next + 1].is_nodal THEN {<<text, cs[k + 1].sim_count, f[next]>>}
     ELSE {<<text \o x[1], x[2], x[3]>> : x \in f[next]}
TurnsBelow(ns, cs, f, n) == UNION {TurnsAt(ns, cs, f, k) : k \in SeenIn(ns, cs, n)}
TurnsStep(ns, cs, f) == f = [n \in Indices(ns) |-> TurnsBelow(ns, cs, f, n)]
TurnsOf(ns, cs) == CHOOSE f : TurnsStep(ns, cs, f)

(* Turns is that, of the vectors there are. *)
LEMMA TurnsIs ==
  Turns = TurnsOf(nodes, children)
BY DEF Turns, TurnsOf, TurnsStep, TurnsBelow, TurnsAt, SeenIn, Visited, Nodes, Indices, BlockOf, Node, Child

(* What is below a node depends on younger nodes only. *)
LEMMA TurnsYounger ==
  ASSUME NEW ns, NEW cs, Vectors(ns, cs), NEW i \in Indices(ns), NEW f, NEW g,
         \A n \in Indices(ns) : i < n => f[n] = g[n]
  PROVE  TurnsBelow(ns, cs, f, i) = TurnsBelow(ns, cs, g, i)
<1>1. \A k \in SeenIn(ns, cs, i) : f[cs[k + 1].index] = g[cs[k + 1].index]
  <2> TAKE k \in SeenIn(ns, cs, i)
  <2>1. k \in BlockOf(ns, i) /\ cs[k + 1].index # 0
    BY DEF SeenIn
  <2>2. k \in Indices(cs)
    BY <2>1, VectorFacts
  <2>3. cs[k + 1].index \in Indices(ns)
    BY <2>2, VectorFacts
  <2>4. i < cs[k + 1].index
    BY <2>1 DEF Vectors
  <2> QED
    BY <2>3, <2>4
<1>2. \A k \in SeenIn(ns, cs, i) : TurnsAt(ns, cs, f, k) = TurnsAt(ns, cs, g, k)
  BY <1>1 DEF TurnsAt
<1> QED
  BY <1>2 DEF TurnsBelow

(* So there is such a function, from the youngest nodes on, *)
LEMMA TurnsExist ==
  ASSUME NEW ns, NEW cs, Vectors(ns, cs)
  PROVE  TurnsStep(ns, cs, TurnsOf(ns, cs))
<1> DEFINE N == Len(ns)
           Young(m) == {i \in Indices(ns) : N <= i + m}
           T == {m \in Nat : \E b : b = [i \in Young(m) |-> TurnsBelow(ns, cs, b, i)]}
<1>1. N \in Nat /\ Indices(ns) \subseteq Nat /\ \A i \in Indices(ns) : i < N
  BY DEF Vectors, Indices
<1> HIDE DEF N
<1>2. 0 \in T
  <2>1. Young(0) = {}
    <3>1. \A i \in Indices(ns) : ~ (N <= i + 0)
      BY <1>1
    <3> QED
      BY <3>1
  <2> DEFINE b == [i \in {} |-> 0]
  <2>2. b = [i \in Young(0) |-> TurnsBelow(ns, cs, b, i)]
    BY <2>1
  <2> HIDE DEF b, Young
  <2> QED
    BY <2>2
<1>3. ASSUME NEW m \in Nat, m \in T
      PROVE  m + 1 \in T
  <2>1. PICK b : b = [i \in Young(m) |-> TurnsBelow(ns, cs, b, i)]
    BY <1>3
  <2> DEFINE c == [i \in Young(m + 1) |-> TurnsBelow(ns, cs, b, i)]
  <2>2. \A i \in Young(m) : i \in Young(m + 1)
    BY <1>1
  <2>3. \A i \in Young(m + 1), n \in Indices(ns) : i < n => n \in Young(m)
    BY <1>1
  <2>4. \A i \in Young(m + 1) : i \in Indices(ns)
    OBVIOUS
  <2> HIDE DEF Young
  <2>5. \A n \in Young(m) : c[n] = b[n]
    BY <2>1, <2>2
  <2>6. \A i \in Young(m + 1) : TurnsBelow(ns, cs, b, i) = TurnsBelow(ns, cs, c, i)
    <3> TAKE i \in Young(m + 1)
    <3>1. \A n \in Indices(ns) : i < n => b[n] = c[n]
      BY <2>3, <2>5
    <3> HIDE DEF c
    <3> QED
      BY <2>4, <3>1, TurnsYounger
  <2>7. c = [i \in Young(m + 1) |-> TurnsBelow(ns, cs, c, i)]
    BY <2>6
  <2> HIDE DEF c
  <2> QED
    BY <2>7
<1> HIDE DEF T
<1>4. N \in T
  BY <1>1, <1>2, <1>3, SetInduction
<1>5. Young(N) = Indices(ns)
  <2>1. \A i \in Indices(ns) : N <= i + N
    BY <1>1
  <2> QED
    BY <2>1
<1>6. PICK b : b = [i \in Young(N) |-> TurnsBelow(ns, cs, b, i)]
  BY <1>4 DEF T
<1>7. TurnsStep(ns, cs, b)
  <2> HIDE DEF Young
  <2> QED
    BY <1>5, <1>6 DEF TurnsStep
<1> QED
  BY <1>7 DEF TurnsOf

(* What holds of a node whenever it holds of the younger ones holds of all.*)
LEMMA YoungestFirst ==
  ASSUME NEW ns, Len(ns) \in Nat, NEW P, \A i \in Indices(ns) : (\A n \in Indices(ns) : i < n => n \in P) => i \in P
  PROVE  \A i \in Indices(ns) : i \in P
<1> DEFINE N == Len(ns)
           T == {m \in Nat : \A i \in Indices(ns) : N <= i + m => i \in P}
<1>1. N \in Nat /\ Indices(ns) \subseteq Nat /\ \A i \in Indices(ns) : i < N
  BY DEF Indices
<1> HIDE DEF N
<1>2. 0 \in T
  BY <1>1
<1>3. ASSUME NEW m \in Nat, m \in T PROVE m + 1 \in T
  <2> SUFFICES ASSUME NEW i \in Indices(ns), N <= i + (m + 1) PROVE i \in P
    OBVIOUS
  <2>1. \A n \in Indices(ns) : i < n => n \in P
    BY <1>1, <1>3
  <2> QED
    BY <2>1
<1> HIDE DEF T
<1>4. N \in T
  BY <1>1, <1>2, <1>3, SetInduction
<1> QED
  BY <1>1, <1>4 DEF T

(* and only one. *)
LEMMA TurnsUnique ==
  ASSUME NEW ns, NEW cs, Vectors(ns, cs), NEW f, TurnsStep(ns, cs, f), NEW g, TurnsStep(ns, cs, g)
  PROVE  f = g
<1> DEFINE P == {i \in Indices(ns) : f[i] = g[i]}
<1>1. \A i \in Indices(ns) : f[i] = TurnsBelow(ns, cs, f, i) /\ g[i] = TurnsBelow(ns, cs, g, i)
  BY DEF TurnsStep
<1>2. ASSUME NEW i \in Indices(ns), \A n \in Indices(ns) : i < n => n \in P
      PROVE  i \in P
  <2>1. TurnsBelow(ns, cs, f, i) = TurnsBelow(ns, cs, g, i)
    BY <1>2, TurnsYounger
  <2> QED
    BY <1>1, <2>1
<1>3. Len(ns) \in Nat
  BY VectorFacts
<1> HIDE DEF P
<1>4. \A i \in Indices(ns) : i \in P
  BY <1>2, <1>3, YoungestFirst
<1>5. \A i \in Indices(ns) : f[i] = g[i]
  BY <1>4 DEF P
<1>6. f = [i \in Indices(ns) |-> f[i]] /\ g = [i \in Indices(ns) |-> g[i]]
  BY DEF TurnsStep
<1> QED
  BY <1>5, <1>6

(* The texts of turns are sequences of actions. *)
LEMMA TurnTexts ==
  ASSUME NEW ns, NEW cs, Vectors(ns, cs), NEW f, TurnsStep(ns, cs, f)
  PROVE  \A i \in Indices(ns) : \A x \in f[i] : x[1] \in Seq(Action)
<1> DEFINE P == {i \in Indices(ns) : \A x \in f[i] : x[1] \in Seq(Action)}
<1>1. ASSUME NEW i \in Indices(ns), \A n \in Indices(ns) : i < n => n \in P
      PROVE  i \in P
  <2> SUFFICES ASSUME NEW x \in f[i] PROVE x[1] \in Seq(Action)
    OBVIOUS
  <2>10. f[i] = TurnsBelow(ns, cs, f, i)
    BY DEF TurnsStep
  <2>1. PICK k \in SeenIn(ns, cs, i) : x \in TurnsAt(ns, cs, f, k)
    BY <2>10 DEF TurnsBelow
  <2> DEFINE next == cs[k + 1].index
             text == Written(cs[k + 1].semimove)
  <2>2. k \in BlockOf(ns, i) /\ next # 0
    BY DEF SeenIn
  <2>3. k \in Indices(cs)
    BY <2>2, VectorFacts
  <2>4. next \in Indices(ns) /\ i < next /\ cs[k + 1].semimove \in Seq(Action)
    BY <2>2, <2>3, VectorFacts DEF Vectors
  <2>5. text \in Seq(Action)
    BY <2>4, WrittenSeq
  <2>6. \A y \in f[next] : y[1] \in Seq(Action)
    BY <1>1, <2>4
  <2> HIDE DEF next, text
  <2>7. IF ns[next + 1].is_nodal THEN x \in {<<text, cs[k + 1].sim_count, f[next]>>}
        ELSE x \in {<<text \o y[1], y[2], y[3]>> : y \in f[next]}
    BY <2>1 DEF TurnsAt, next, text
  <2>8. CASE ns[next + 1].is_nodal
    <3>1. x = <<text, cs[k + 1].sim_count, f[next]>>
      BY <2>7, <2>8
    <3>2. x[1] = text
      BY <3>1
    <3> QED
      BY <2>5, <3>2
  <2>9. CASE ~ns[next + 1].is_nodal
    <3>1. PICK y \in f[next] : x = <<text \o y[1], y[2], y[3]>>
      BY <2>7, <2>9
    <3>2. x[1] = text \o y[1] /\ y[1] \in Seq(Action)
      BY <2>6, <3>1
    <3> QED
      BY <2>5, <3>2
  <2> QED
    BY <2>8, <2>9
<1>2. Len(ns) \in Nat
  BY VectorFacts
<1> HIDE DEF P
<1>3. \A i \in Indices(ns) : i \in P
  BY <1>1, <1>2, YoungestFirst
<1> QED
  BY <1>3 DEF P

(* A chosen child's turns are those of the children that moved up. *)
Under(text, S) == {<<text \o x[1], x[2], x[3]>> : x \in S}

(* Texts put in front one after the other are put in front joined. *)
LEMMA UnderUnder ==
  ASSUME NEW a \in Seq(Action), NEW b \in Seq(Action), NEW S, \A x \in S : x[1] \in Seq(Action)
  PROVE  Under(a, Under(b, S)) = Under(a \o b, S)
<1>1. ASSUME NEW y \in Under(a, Under(b, S)) PROVE y \in Under(a \o b, S)
  <2>1. PICK z \in Under(b, S) : y = <<a \o z[1], z[2], z[3]>>
    BY DEF Under
  <2>2. PICK x \in S : z = <<b \o x[1], x[2], x[3]>>
    BY DEF Under
  <2>3. z[1] = b \o x[1] /\ z[2] = x[2] /\ z[3] = x[3] /\ x[1] \in Seq(Action)
    BY <2>2
  <2> DEFINE t == x[1]
  <2>6. t \in Seq(Action)
    BY <2>3
  <2> HIDE DEF t
  <2>7. a \o (b \o t) = (a \o b) \o t
    BY <2>6, ConcatThree
  <2>4. a \o (b \o x[1]) = (a \o b) \o x[1]
    BY <2>7 DEF t
  <2>5. y = <<(a \o b) \o x[1], x[2], x[3]>>
    BY <2>1, <2>3, <2>4
  <2> QED
    BY <2>5 DEF Under
<1>2. ASSUME NEW y \in Under(a \o b, S) PROVE y \in Under(a, Under(b, S))
  <2>1. PICK x \in S : y = <<(a \o b) \o x[1], x[2], x[3]>>
    BY DEF Under
  <2> DEFINE z == <<b \o x[1], x[2], x[3]>>
  <2>2. z \in Under(b, S) /\ z[1] = b \o x[1] /\ z[2] = x[2] /\ z[3] = x[3] /\ x[1] \in Seq(Action)
    BY DEF Under
  <2> HIDE DEF z
  <2> DEFINE t == x[1]
  <2>6. t \in Seq(Action)
    BY <2>2
  <2> HIDE DEF t
  <2>7. a \o (b \o t) = (a \o b) \o t
    BY <2>6, ConcatThree
  <2>3. a \o (b \o x[1]) = (a \o b) \o x[1]
    BY <2>7 DEF t
  <2>4. y = <<a \o z[1], z[2], z[3]>>
    BY <2>1, <2>2, <2>3
  <2> QED
    BY <2>2, <2>4 DEF Under
<1> QED
  BY <1>1, <1>2

(* Child q of the new vectors is child j raised under the edge e. *)
RaisedFrom(ns, cs, ms, ds, f, e, j, q) ==
  /\ e \in Seq(Action) /\ cs[j + 1].semimove \in Seq(Action) /\ Lifted(e, cs[j + 1], ds[q + 1])
  /\ ms[cs[j + 1].index + 1].is_nodal = ns[cs[j + 1].index + 1].is_nodal
  /\ \A x \in f[cs[j + 1].index] : x[1] \in Seq(Action)

(* The turns through it are those through j, with the text of e in front. *)
LEMMA RaisedTurns ==
  ASSUME NEW ns, NEW cs, NEW ms, NEW ds, NEW f, NEW e, NEW j, NEW q, RaisedFrom(ns, cs, ms, ds, f, e, j, q)
  PROVE  TurnsAt(ms, ds, f, q) = Under(Written(e), TurnsAt(ns, cs, f, j))
<1>0. /\ e \in Seq(Action) /\ cs[j + 1].semimove \in Seq(Action) /\ Lifted(e, cs[j + 1], ds[q + 1])
      /\ ms[cs[j + 1].index + 1].is_nodal = ns[cs[j + 1].index + 1].is_nodal
      /\ \A x \in f[cs[j + 1].index] : x[1] \in Seq(Action)
  BY DEF RaisedFrom
<1> DEFINE a == Written(e)
           b == Written(cs[j + 1].semimove)
           next == cs[j + 1].index
           sims == cs[j + 1].sim_count
<1>1. a \in Seq(Action) /\ b \in Seq(Action) /\ NoDots(a)
  BY <1>0, WrittenSeq, NoneWritten
<1>2. /\ ds[q + 1].semimove = a \o cs[j + 1].semimove
      /\ ds[q + 1].index = next /\ ds[q + 1].sim_count = sims
  BY <1>0 DEF Lifted
<1>3. Written(ds[q + 1].semimove) = a \o b
  <2>1. Written(a) = a
    BY <1>1, WrittenNoDots
  <2>2. Written(a \o cs[j + 1].semimove) = Written(a) \o b
    BY <1>0, <1>1, WrittenConcat
  <2> QED
    BY <1>2, <2>1, <2>2
<1> DEFINE nodal == ns[next + 1].is_nodal
<1>4. TurnsAt(ms, ds, f, q) = IF nodal THEN {<<a \o b, sims, f[next]>>} ELSE Under(a \o b, f[next])
  BY <1>0, <1>2, <1>3 DEF TurnsAt, Under
<1>5. TurnsAt(ns, cs, f, j) = IF nodal THEN {<<b, sims, f[next]>>} ELSE Under(b, f[next])
  BY DEF TurnsAt, Under
<1>6. \A x \in f[next] : x[1] \in Seq(Action)
  BY <1>0
<1> HIDE DEF a, b, next, sims, nodal
<1>7. CASE nodal
  <2>1. Under(a, {<<b, sims, f[next]>>}) = {<<a \o b, sims, f[next]>>}
    BY DEF Under
  <2> QED
    BY <1>4, <1>5, <1>7, <2>1 DEF a
<1>8. CASE ~nodal
  <2>1. Under(a, Under(b, f[next])) = Under(a \o b, f[next])
    BY <1>1, <1>6, UnderUnder
  <2> QED
    BY <1>4, <1>5, <1>8, <2>1 DEF a
<1> QED
  BY <1>7, <1>8

(* The new block of n gives the turns the old one gave. *)
LEMMA RollKeepsTurnsBelow ==
  ASSUME NEW ns, NEW cs, NEW L, NEW root, NEW pos, Tree(ns, cs, L, root, pos),
         NEW n, NEW chosen, NEW new, NEW up, NEW down, NEW ms, NEW ds,
         RollsUp(ns, cs, L, n, chosen, new, up, down, ms, ds),
         NEW f, TurnsStep(ns, cs, f)
  PROVE  TurnsBelow(ms, ds, f, n) = TurnsBelow(ns, cs, f, n)
<1>1. Vectors(ns, cs) /\ Links(ns, cs, L) /\ Statuses(ns, L, pos)
  BY DEF Tree
<1>2. n \in L /\ Ripe(ns, cs, chosen, n) /\ Rolls(ns, cs, n, chosen, new, up, down) /\ n \in Indices(ns)
  BY <1>1, LinkFacts DEF RollsUp
<1>3. \A i \in chosen : Dissolves(ns, cs, L, pos, n, i)
  BY <1>2, ChosenDissolve
<1>4. Reblocked(ns, cs, L, n, chosen, new, ms, ds)
  BY RolledBlocks
<1>5. \A i \in Indices(ns) : ms[i + 1].is_nodal = ns[i + 1].is_nodal
  BY <1>4 DEF Reblocked
<1>6. \A i \in Indices(ns) : \A x \in f[i] : x[1] \in Seq(Action)
  BY <1>1, TurnTexts
<1>7. \A i \in Indices(ns) : f[i] = TurnsBelow(ns, cs, f, i)
  BY DEF TurnsStep
<1> DEFINE c(i) == cs[i + 1].index
           e(i) == cs[i + 1].semimove
           at(i) == TurnsAt(ns, cs, f, i)
           AT(q) == TurnsAt(ms, ds, f, q)
<1>8. ASSUME NEW i \in chosen
      PROVE  /\ i \in SeenIn(ns, cs, n) /\ e(i) \in Seq(Action)
             /\ SeenIn(ns, cs, c(i)) = BlockOf(ns, c(i))
             /\ at(i) = Under(Written(e(i)), f[c(i)])
             /\ f[c(i)] = UNION {at(j) : j \in BlockOf(ns, c(i))}
  <2>1. /\ i \in BlockOf(ns, n) /\ i \in Indices(cs) /\ c(i) \in Indices(ns) /\ c(i) # 0
        /\ \A j \in BlockOf(ns, c(i)) : cs[j + 1].index # 0
    BY <1>3 DEF Dissolves
  <2>2. ~ns[c(i) + 1].is_nodal
    BY <1>2 DEF Ripe
  <2>3. SeenIn(ns, cs, c(i)) = BlockOf(ns, c(i)) /\ i \in SeenIn(ns, cs, n)
    BY <2>1 DEF SeenIn
  <2>4. at(i) = Under(Written(e(i)), f[c(i)])
    BY <2>2 DEF TurnsAt, Under
  <2>5. f[c(i)] = UNION {at(j) : j \in BlockOf(ns, c(i))}
    BY <1>7, <2>1, <2>3 DEF TurnsBelow
  <2>6. e(i) \in Seq(Action)
    BY <1>1, <2>1, VectorFacts
  <2> QED
    BY <2>3, <2>4, <2>5, <2>6
<1>9. ASSUME NEW p \in 1..Len(new), NEW q, q = Len(cs) + p - 1
      PROVE  /\ q \in BlockOf(ms, n) /\ up[p] \in BlockOf(ns, n)
             /\ up[p] \notin chosen => AT(q) = at(up[p]) /\ ds[q + 1].index = c(up[p])
             /\ up[p] \in chosen => /\ down[p] \in BlockOf(ns, c(up[p])) /\ ds[q + 1].index # 0
                                    /\ AT(q) = Under(Written(e(up[p])), at(down[p]))
  <2>1. q \in BlockOf(ms, n) /\ q - Len(cs) + 1 = p
    BY <1>4, <1>9 DEF Reblocked
  <2>2. ds[q + 1] = new[p]
    BY <1>4, <2>1 DEF Reblocked
  <2> DEFINE i == up[p]
             j == down[p]
  <2>3. ComesFrom(ns, cs, n, chosen, ds[q + 1], i, j)
    BY <1>2, <2>2 DEF Rolls
  <2>4. i \in BlockOf(ns, n)
    BY <2>3 DEF ComesFrom
  <2> HIDE DEF i, j
  <2>5. CASE i \notin chosen
    <3>1. ds[q + 1] = cs[i + 1]
      BY <2>3, <2>5 DEF ComesFrom
    <3>2. i \in Indices(cs)
      BY <1>1, <1>2, <2>4, LinkFacts
    <3>3. c(i) \in Indices(ns)
      BY <1>1, <3>2, VectorFacts
    <3>4. AT(q) = at(i)
      BY <1>5, <3>1, <3>3 DEF TurnsAt
    <3> QED
      BY <2>1, <2>4, <2>5, <3>1, <3>4 DEF i
  <2>6. CASE i \in chosen
    <3>1. j \in BlockOf(ns, c(i)) /\ Lifted(e(i), cs[j + 1], ds[q + 1])
      BY <2>3, <2>6 DEF ComesFrom
    <3>2. c(i) \in Indices(ns) /\ cs[j + 1].index # 0
      BY <1>3, <2>6, <3>1 DEF Dissolves
    <3>3. j \in Indices(cs)
      BY <1>1, <3>1, <3>2, VectorFacts
    <3>4. cs[j + 1].index \in Indices(ns) /\ cs[j + 1].semimove \in Seq(Action)
      BY <1>1, <3>3, VectorFacts
    <3>5. /\ ms[cs[j + 1].index + 1].is_nodal = ns[cs[j + 1].index + 1].is_nodal
          /\ \A x \in f[cs[j + 1].index] : x[1] \in Seq(Action)
      BY <1>5, <1>6, <3>4
    <3>6. e(i) \in Seq(Action)
      BY <1>8, <2>6
    <3>9. RaisedFrom(ns, cs, ms, ds, f, e(i), j, q)
      BY <3>1, <3>4, <3>5, <3>6 DEF RaisedFrom
    <3>7. AT(q) = Under(Written(e(i)), at(j))
      <4> DEFINE d == e(i)
      <4>1. RaisedFrom(ns, cs, ms, ds, f, d, j, q)
        BY <3>9
      <4> HIDE DEF d
      <4>2. TurnsAt(ms, ds, f, q) = Under(Written(d), TurnsAt(ns, cs, f, j))
        BY <4>1, RaisedTurns
      <4> QED
        BY <4>2 DEF d
    <3>8. ds[q + 1].index # 0
      BY <3>1, <3>2 DEF Lifted
    <3> QED
      BY <2>1, <2>4, <2>6, <3>1, <3>7, <3>8 DEF i, j
  <2> QED
    BY <2>5, <2>6 DEF i
<1>10. ASSUME NEW x \in TurnsBelow(ms, ds, f, n) PROVE x \in TurnsBelow(ns, cs, f, n)
  <2>1. PICK q \in SeenIn(ms, ds, n) : x \in AT(q)
    BY DEF TurnsBelow
  <2>2. q \in BlockOf(ms, n) /\ ds[q + 1].index # 0
    BY DEF SeenIn
  <2> DEFINE p == q - Len(cs) + 1
             i == up[p]
             j == down[p]
  <2>3. p \in 1..Len(new) /\ q = Len(cs) + p - 1
    BY <1>4, <2>2 DEF Reblocked
  <2> HIDE DEF p
  <2>4. CASE i \notin chosen
    <3>1. i \in SeenIn(ns, cs, n) /\ x \in at(i)
      BY <1>9, <2>1, <2>2, <2>3, <2>4 DEF SeenIn
    <3> QED
      BY <3>1 DEF TurnsBelow
  <2>5. CASE i \in chosen
    <3>1. x \in Under(Written(e(i)), at(j)) /\ j \in BlockOf(ns, c(i))
      BY <1>9, <2>1, <2>3, <2>5
    <3>2. at(j) \subseteq f[c(i)]
      BY <1>8, <2>5, <3>1
    <3>3. x \in Under(Written(e(i)), f[c(i)])
      BY <3>1, <3>2 DEF Under
    <3>4. x \in at(i) /\ i \in SeenIn(ns, cs, n)
      BY <1>8, <2>5, <3>3
    <3> QED
      BY <3>4 DEF TurnsBelow
  <2> QED
    BY <2>4, <2>5
<1>11. ASSUME NEW x \in TurnsBelow(ns, cs, f, n) PROVE x \in TurnsBelow(ms, ds, f, n)
  <2>1. PICK i \in SeenIn(ns, cs, n) : x \in at(i)
    BY DEF TurnsBelow
  <2>2. i \in BlockOf(ns, n) /\ c(i) # 0
    BY DEF SeenIn
  <2>3. ASSUME NEW p \in 1..Len(new), NEW q, q = Len(cs) + p - 1, x \in AT(q), ds[q + 1].index # 0
        PROVE  x \in TurnsBelow(ms, ds, f, n)
    BY <1>9, <2>3 DEF TurnsBelow, SeenIn
  <2>4. CASE i \notin chosen
    <3>1. PICK p \in 1..Len(new) : up[p] = i
      BY <1>2, <2>2, <2>4 DEF Rolls
    <3> QED
      BY <1>9, <2>1, <2>2, <2>3, <2>4, <3>1
  <2>5. CASE i \in chosen
    <3>1. x \in Under(Written(e(i)), f[c(i)])
      BY <1>8, <2>1, <2>5
    <3>2. PICK y \in f[c(i)] : x = <<Written(e(i)) \o y[1], y[2], y[3]>>
      BY <3>1 DEF Under
    <3>3. PICK j \in BlockOf(ns, c(i)) : y \in at(j)
      BY <1>8, <2>5
    <3>4. x \in Under(Written(e(i)), at(j))
      BY <3>2, <3>3 DEF Under
    <3>5. PICK p \in 1..Len(new) : up[p] = i /\ down[p] = j
      BY <1>2, <2>5, <3>3 DEF Rolls
    <3> QED
      BY <1>9, <2>3, <2>5, <3>4, <3>5
  <2> QED
    BY <2>4, <2>5
<1> QED
  BY <1>10, <1>11

(* No other block changes, so all turns are kept, at any depth. *)
LEMMA RollKeepsTurns ==
  ASSUME NEW ns, NEW cs, NEW L, NEW root, NEW pos, Tree(ns, cs, L, root, pos),
         NEW n, NEW chosen, NEW new, NEW up, NEW down, NEW ms, NEW ds,
         RollsUp(ns, cs, L, n, chosen, new, up, down, ms, ds)
  PROVE  TurnsOf(ms, ds) = TurnsOf(ns, cs)
<1> DEFINE f == TurnsOf(ns, cs)
<1>1. Vectors(ns, cs) /\ Links(ns, cs, L) /\ Vectors(ms, ds)
  <2> DEFINE K == L \ Dissolved(cs, chosen)
  <2>1. K = L \ Dissolved(cs, chosen)
    OBVIOUS
  <2> HIDE DEF K
  <2>2. Vectors(ms, ds)
    BY <2>1, RollKeepsLinks
  <2> QED
    BY <2>2 DEF Tree
<1>2. Reblocked(ns, cs, L, n, chosen, new, ms, ds)
  BY RolledBlocks
<1>3. TurnsStep(ns, cs, f) /\ TurnsStep(ms, ds, TurnsOf(ms, ds))
  BY <1>1, TurnsExist
<1> HIDE DEF f
<1>4. ASSUME NEW k \in Indices(ns)
      PROVE  TurnsBelow(ms, ds, f, k) = TurnsBelow(ns, cs, f, k)
  <2>1. CASE k = n
    BY <1>3, <2>1, RollKeepsTurnsBelow
  <2>2. CASE k # n
    <3>1. BlockOf(ms, k) = BlockOf(ns, k)
      BY <1>2, <2>2 DEF Reblocked
    <3>2. ASSUME NEW i \in BlockOf(ns, k)
          PROVE  ds[i + 1] = cs[i + 1] /\ TurnsAt(ms, ds, f, i) = TurnsAt(ns, cs, f, i)
      <4>1. i \in Indices(cs)
        BY <1>1, VectorFacts
      <4>2. ds[i + 1] = cs[i + 1] /\ cs[i + 1].index \in Indices(ns)
        BY <1>1, <1>2, <4>1, VectorFacts DEF Reblocked
      <4>3. ms[cs[i + 1].index + 1].is_nodal = ns[cs[i + 1].index + 1].is_nodal
        BY <1>2, <4>2 DEF Reblocked
      <4> QED
        BY <4>2, <4>3 DEF TurnsAt
    <3>3. SeenIn(ms, ds, k) = SeenIn(ns, cs, k)
      BY <3>1, <3>2 DEF SeenIn
    <3>4. \A i \in SeenIn(ns, cs, k) : TurnsAt(ms, ds, f, i) = TurnsAt(ns, cs, f, i)
      BY <3>2 DEF SeenIn
    <3> QED
      BY <3>3, <3>4 DEF TurnsBelow
  <2> QED
    BY <2>1, <2>2
<1>5. f = [k \in Indices(ms) |-> TurnsBelow(ms, ds, f, k)]
  <2>1. f = [k \in Indices(ns) |-> TurnsBelow(ns, cs, f, k)]
    BY <1>3 DEF TurnsStep
  <2>2. Indices(ms) = Indices(ns)
    BY <1>2 DEF Reblocked
  <2> QED
    BY <1>4, <2>1, <2>2
<1>6. TurnsStep(ms, ds, f)
  BY <1>5 DEF TurnsStep
<1> QED
  BY <1>1, <1>3, <1>6, TurnsUnique DEF f

(* A turn of the loop that rolls up keeps what is known of turns. *)
LEMMA RollUpKeeps ==
  ASSUME NEW rolled, NEW L, NEW pos, Inv(rolled, L, pos), RollUp
  PROVE  Turns' = Turns
<1> DEFINE n == IF Len(children_stack) = 1 THEN 0 ELSE Child(Last(Front(children_stack))).index
           f == Front(children_stack)
<1>1. GETTER = "S" /\ pc = "return" /\ children_stack # <<>>
  BY DEF RollUp
<1>2. PICK chosen \in SUBSET RipeChildren(n) :
        IF chosen = {} THEN UNCHANGED vectors
        ELSE /\ children' = children \o RolledUp(n, chosen)
             /\ nodes' = [nodes EXCEPT ![n + 1].first = Len(children),
                                       ![n + 1].second = Len(children) + Len(RolledUp(n, chosen))]
  BY DEF RollUp
<1>3. Turns = TurnsOf(nodes, children) /\ Turns' = TurnsOf(nodes', children')
  BY TurnsIs DEF Turns, TurnsOf, TurnsStep, TurnsBelow, TurnsAt, SeenIn, Visited, Nodes, Indices, BlockOf, Node, Child
<1>4. Tree(nodes, children, L, root_state, pos) /\ Returning(L)
  BY <1>1 DEF Inv, Idling, Descending
<1>5. Vectors(nodes, children) /\ Links(nodes, children, L)
      /\ Way(nodes, children, L, children_stack, At(children, children_stack, Len(children_stack)))
  BY <1>4 DEF Tree, Returning
<1>6. n = IF Len(children_stack) = 1 THEN 0 ELSE children[Last(Front(children_stack)) + 1].index
  BY DEF Child
<1> HIDE DEF n
<1>7. n \in L
  BY <1>1, <1>5, <1>6, WayBack
<1>8. CASE chosen = {}
  <2>1. nodes' = nodes /\ children' = children
    BY <1>2, <1>8 DEF vectors
  <2> QED
    BY <1>3, <2>1
<1>9. CASE chosen # {}
  <2> DEFINE new == RolledUp(n, chosen)
             ms == NodeRewrite(nodes, n + 1, Len(children), Len(children) + Len(new))
             ds == children \o new
  <2>1. nodes' = ms /\ children' = ds
    BY <1>2, <1>9 DEF NodeRewrite
  <2>2. Ripe(nodes, children, chosen, n)
    BY <1>2, <1>9 DEF Ripe, RipeChildren, BlockOf, Node, Child, is_node_fully_expanded
  <2>3. Rewrites(nodes, children, n, new, ms, ds)
    BY DEF Rewrites
  <2>4. \E up, down : Rolls(nodes, children, n, chosen, new, up, down)
    BY <1>4, <1>7, <2>2, RolledUpIs
  <2> HIDE DEF new, ms, ds
  <2>5. PICK up, down : Rolls(nodes, children, n, chosen, new, up, down)
    BY <2>4
  <2>6. new \in Seq(ChildRecord) /\ n \in Indices(nodes)
    BY <1>5, <1>7, <2>5, LinkFacts DEF Rolls
  <2>7. Rebuilt(nodes, children, n, new, ms, ds)
    BY <1>5, <2>3, <2>6, RebuiltIs
  <2>8. RollsUp(nodes, children, L, n, chosen, new, up, down, ms, ds)
    BY <1>7, <2>2, <2>5, <2>7 DEF RollsUp
  <2>9. TurnsOf(ms, ds) = TurnsOf(nodes, children)
    BY <1>4, <2>8, RollKeepsTurns
  <2> QED
    BY <1>3, <2>1, <2>9
<1> QED
  BY <1>8, <1>9

(* At the end of a simulation, children are moved up: no step there loses, *)
(* renames or counts anew anything the tree knows about whole turns, at    *)
(* whatever depth, for every game and for every set of ripe children.      *)
THEOREM RollupKeepsTurns == RollupSpec => RollUpKeepsTurns
<1>1. ASSUME RollupInv, [RollupNext]_vars, pc = "return"
      PROVE  Turns' = Turns
  <2> DEFINE rolled == TRUE
  <2>1. PICK L, pos : Inv(rolled, L, pos)
    BY <1>1 DEF RollupInv, IInv
  <2> HIDE DEF rolled
  <2>2. CASE RollUp
    BY <2>1, <2>2, RollUpKeeps
  <2>3. CASE FinishRollup \/ UNCHANGED vars
    <3>1. nodes' = nodes /\ children' = children
      BY <2>3 DEF FinishRollup, FinishSimulation, vars, vectors
    <3> QED
      BY <3>1 DEF Turns, Visited, Nodes, Node, Child
  <2>4. ~ (SimulationStep \/ OpponentMove \/ ChooseBestMove \/ ResetTree)
    BY <1>1 DEF SimulationStep, BeginSimulation, Descend, Expand, ScoreTerminal, RemoveDeadEnd, VisitChild, AtUnvisited,
       OpponentMove, ChooseBestMove, ResetTree
  <2> QED
    BY <1>1, <2>2, <2>3, <2>4 DEF RollupNext
<1>2. RollupInv /\ [RollupNext]_vars => [pc = "return" => Turns[0]' = Turns[0]]_vars
  BY <1>1
<1> QED
  BY <1>2, RollupInvariant, PTL DEF RollupSpec, RollUpKeepsTurns

-----------------------------------------------------------------------------
(* The steps of the tree as steps of SearchTree.                           *)

(* The children of the root remember at most the simulations of the root,  *)
(* and exactly their own number may stand for the total.                   *)
LEMMA RootCounts ==
  ASSUME NEW L, NEW pos, Inv(FALSE, L, pos)
  PROVE  /\ ChildSims(0) = RootSims
         /\ RootSims \in 0..root_sim_count
         /\ RootSims \in 0..MaxSims
         /\ Counted(nodes, children, L, RootSims, FALSE)
         /\ Counted(nodes, children, L, RootSims + 1, FALSE)
<1> DEFINE rolled == FALSE
           b == RootSims
<1>0. \A node : Surplus(rolled, TRUE, node) = {0, 1}
  BY DEF Surplus
<1>1. /\ Tree(nodes, children, L, root_state, pos)
      /\ Counted(nodes, children, L, root_sim_count, rolled)
      /\ root_sim_count \in 0..MaxSims
  BY DEF Inv
<1> HIDE DEF rolled
<1>2. /\ Vectors(nodes, children) /\ Links(nodes, children, L)
      /\ 0 \in L /\ nodes[0 + 1] = nodes[1]
  BY <1>1 DEF Tree, Links
<1>3. ChildSims(0) = b
  <2>1. ChildSims(0) = BlockSims(children, nodes[0 + 1])
    BY <1>2, ChildSimsAre
  <2> QED
    BY <1>2, <2>1 DEF RootSims
<1>4. b \in 0..root_sim_count
  BY <1>1, TreeSims DEF RootSims
<1> HIDE DEF b
<1>5. b \in Nat /\ b \in 0..MaxSims
  BY <1>1, <1>4, SemisplitAssumption
<1>6. (b - b) - 0 \in {0, 1} /\ ((b + 1) - b) - 0 \in {0, 1}
  BY <1>5
<1>7. Counted(nodes, children, L, b, rolled) /\ Counted(nodes, children, L, b + 1, rolled)
  <2>1. Extra(Nobody, 0) = 0
    BY DEF Extra, Nobody
  <2>2. BlockSims(children, nodes[1]) = b
    BY DEF b, RootSims
  <2> QED
    BY <1>0, <1>1, <1>6, <2>1, <2>2 DEF Counted, CountedBut
<1> QED
  BY <1>3, <1>4, <1>5, <1>7 DEF b, rolled

(* The same after a step. *)
LEMMA RootCountsAfter ==
  SemisplitInv' => ChildSims(0)' = RootSims' /\ RootSims' \in 0..MaxSims
<1>1. SemisplitInv => ChildSims(0) = RootSims /\ RootSims \in 0..MaxSims
  BY RootCounts DEF SemisplitInv, IInv
<1>2. (SemisplitInv => ChildSims(0) = RootSims /\ RootSims \in 0..MaxSims)'
  BY <1>1, PTL
<1> QED
  BY <1>2

(* A child visited for the first time is below exactly one child of the    *)
(* root: the counts fit both to all simulations and to one more than the   *)
(* children of the root remember, so that nothing is left to either.       *)
LEMMA VisitCounts ==
  ASSUME NEW L, NEW pos, Inv(FALSE, L, pos), VisitChild, SemisplitInv'
  PROVE  RootSims' = RootSims + 1
<1> DEFINE rolled == FALSE
           b == RootSims
           c == RootSims'
           ms == nodes'
           ds == children'
<1>0. \A node : Surplus(rolled, TRUE, node) = {0, 1}
  BY DEF Surplus
<1>1. /\ Inv(rolled, L, pos) /\ pc = "descend"
      /\ Counted(nodes, children, L, b, rolled) /\ Counted(nodes, children, L, b + 1, rolled)
      /\ b \in Nat /\ b + 1 \in Nat
  <2>1. pc = "descend"
    BY DEF VisitChild, AtUnvisited
  <2>2. Counted(nodes, children, L, RootSims, FALSE) /\ Counted(nodes, children, L, RootSims + 1, FALSE)
    BY RootCounts
  <2>3. RootSims \in 0..MaxSims
    BY RootCounts
  <2>4. RootSims \in Nat /\ RootSims + 1 \in Nat
    BY <2>3, SemisplitAssumption
  <2> QED
    BY <2>1, <2>2, <2>4
<1>2. c \in Nat /\ c = BlockSims(ds, ms[1])
  BY RootCountsAfter DEF RootSims
<1> HIDE DEF rolled, b, c
<1>3. \A total \in Nat : Counted(nodes, children, L, total, rolled) =>
        \E K, q : Tree(ms, ds, K, root_state, q) /\ Counted(ms, ds, K, total + 1, rolled)
  BY <1>1, VisitStep
<1> HIDE DEF ms, ds
<1>4. ~is_terminal(nodes[1]) /\ TrueStatus(root_state) # "terminal"
  <2>1. Tree(nodes, children, L, root_state, pos) /\ ~is_terminal(nodes[1])
    BY <1>1, DescentFacts DEF Descending
  <2>2. 0 \in L /\ pos[0] = root_state /\ nodes[0 + 1] = nodes[1]
    BY <2>1 DEF Tree, Links, Stands
  <2>3. nodes[1].status = TrueStatus(root_state)
    BY <2>1, <2>2 DEF Tree, Statuses
  <2> QED
    BY <2>1, <2>3 DEF is_terminal
<1>5. \A K, q : Tree(ms, ds, K, root_state, q) => ~is_terminal(ms[1])
  <2> SUFFICES ASSUME NEW K, NEW q, Tree(ms, ds, K, root_state, q)
               PROVE  ~is_terminal(ms[1])
    OBVIOUS
  <2>1. 0 \in K /\ q[0] = root_state /\ ms[0 + 1] = ms[1]
    BY DEF Tree, Links, Stands
  <2>2. ms[1].status = TrueStatus(root_state)
    BY <2>1 DEF Tree, Statuses
  <2> QED
    BY <1>4, <2>2 DEF is_terminal
<1>6. \A K, total : Counted(ms, ds, K, total, rolled) /\ ~is_terminal(ms[1]) => (total - c) - 0 \in {0, 1}
  <2>1. Extra(Nobody, 0) = 0
    BY DEF Extra, Nobody
  <2> QED
    BY <1>0, <1>2, <2>1 DEF Counted, CountedBut
<1>7. ((b + 1) - c) - 0 \in {0, 1}
  BY <1>1, <1>3, <1>5, <1>6
<1>8. (((b + 1) + 1) - c) - 0 \in {0, 1}
  BY <1>1, <1>3, <1>5, <1>6
<1>9. c = b + 1
  BY <1>1, <1>2, <1>7, <1>8
<1> QED
  BY <1>9 DEF b, c

(* A simulation that ends is a Simulate: where one began, the game goes on.*)
LEMMA SimulateStep ==
  ASSUME NEW L, NEW pos, Inv(FALSE, L, pos), pc = "descend", SemisplitInv',
         RootSims' = RootSims + 1, root_state' = root_state
  PROVE  Search!Simulate
<1> DEFINE rolled == FALSE
<1>1. ChildSims(0) = RootSims /\ RootSims \in 0..MaxSims
  BY RootCounts
<1>2. Inv(rolled, L, pos)
  OBVIOUS
<1> HIDE DEF rolled
<1>3. root_state \in Nodal /\ Moves(root_state) # {}
  <2>1. Tree(nodes, children, L, root_state, pos) /\ ~is_terminal(nodes[1])
    BY <1>2, DescentFacts DEF Descending
  <2>2. 0 \in L /\ pos[0] = root_state /\ nodes[0 + 1] = nodes[1] /\ Statuses(nodes, L, pos)
    BY <2>1 DEF Tree, Links, Stands
  <2>3. Moves(pos[0]) # {}
    BY <2>1, <2>2, MovesLeft
  <2> QED
    BY <2>1, <2>2, <2>3 DEF Tree, Stands
<1>4. [s \in Nodal |-> Moves(s)][root_state] # {}
  BY <1>3
<1>5. ChildSims(0)' \in 0..MaxSims /\ ChildSims(0)' = ChildSims(0) + 1
  BY <1>1, RootCountsAfter
<1>6. ChildSims(0)' = Search!Saturate(ChildSims(0) + 1)
  BY <1>1, <1>5, SemisplitAssumption DEF Search!Saturate
<1> QED
  BY <1>4, <1>6 DEF Search!Simulate

(* Re-rooting leaves the children of the root with nothing, or with fewer  *)
(* simulations than before: the new root was simulated once on its own.    *)
LEMMA ReparentCounts ==
  ASSUME NEW L, NEW pos, Inv(FALSE, L, pos), pc = "idle",
         NEW m \in Moves(root_state), ReparentAlongMove(m), RootSims' \in Nat
  PROVE  RootSims' = 0 \/ RootSims' < RootSims
<1> DEFINE rolled == FALSE
           k == Walk(m)
           s == AfterMove(root_state, m)
           b == RootSims
           c == RootSims'
<1>0. \A node : node.is_nodal => Surplus(rolled, FALSE, node) = {1}
  BY DEF Surplus
<1>1. Inv(rolled, L, pos) /\ Counted(nodes, children, L, b, rolled) /\ b \in Nat /\ c \in Nat
  <2>1. Counted(nodes, children, L, RootSims, FALSE)
    BY RootCounts
  <2>2. RootSims \in 0..MaxSims
    BY RootCounts
  <2>3. RootSims \in Nat
    BY <2>2, SemisplitAssumption
  <2> QED
    BY <2>1, <2>3
<1> HIDE DEF rolled, b
<1>2. /\ Tree(nodes, children, L, root_state, pos)
      /\ Vectors(nodes, children) /\ Links(nodes, children, L)
      /\ Touched(nodes, children, L, Nobody)
      /\ root_state \in Nodal /\ root_state \in State
  BY <1>1, AtIdle
<1>3. s \in Nodal /\ s \in State /\ m # <<>>
  BY <1>2, MoveLeads
<1>4. StateAfter(m) = s
  BY <1>3 DEF StateAfter
<1>5. CASE NodeBelow(k) = 0
  <2>1. nodes' = FreshTree(s).nodes /\ children' = FreshTree(s).children
    BY <1>4, <1>5 DEF ReparentAlongMove
  <2> DEFINE ns == FreshTree(s).nodes
             cs == FreshTree(s).children
  <2>2. c = BlockSims(cs, ns[1])
    BY <2>1 DEF RootSims
  <2>3. Sound(ns, cs, s, 0, rolled)
    BY <1>3, FreshTreeIs
  <2> HIDE DEF ns, cs
  <2>4. BlockSims(cs, ns[1]) \in 0..0
    BY <2>3, SoundSims
  <2>5. c = 0
    BY <2>2, <2>4
  <2> QED
    BY <2>5
<1>6. CASE NodeBelow(k) # 0
  <2>1. k # NoChild
    BY <1>6 DEF NodeBelow
  <2>2. /\ \E p \in L : k \in BlockOf(nodes, p)
        /\ Child(k).index # 0 /\ s = pos[Child(k).index]
    BY <1>2, <2>1, WalkFinds
  <2>3. PICK p \in L : k \in BlockOf(nodes, p)
    BY <2>2
  <2>4. nodes' = Rerooted(k, s).nodes /\ children' = Rerooted(k, s).children
    BY <1>4, <1>6 DEF ReparentAlongMove
  <2>5. c = BlockSims(Rerooted(k, s).children, Rerooted(k, s).nodes[1])
    BY <2>4 DEF RootSims
  <2> HIDE DEF k, s, c
  <2> DEFINE r == Child(k).index
             below == BlockSims(children, nodes[r + 1])
             sims == Child(k).sim_count
  <2>6. c \in {0, below}
    BY <1>1, <1>2, <1>3, <2>2, <2>3, <2>5, RerootedSound
  <2>7. r \in L /\ r \in Indices(nodes) /\ k \in Indices(children)
    BY <1>2, <2>2, <2>3, LinkFacts DEF Child
  <2>8. sims \in Nat /\ below \in Nat /\ (BlockOf(nodes, r) = {} => below = 0)
    BY <1>2, <2>7, VectorFacts, BlockSimsNat DEF Child
  <2>9. sims <= b
    BY <1>1, <1>2, <2>3, SimsBounded DEF Child
  <2>10. CASE is_terminal(nodes[r + 1])
    <3>1. nodes[r + 1].first = nodes[r + 1].second /\ nodes[r + 1].first \in Nat
      BY <1>2, <2>7, <2>10, VectorFacts DEF Tree, Statuses
    <3>2. BlockOf(nodes, r) = {}
      <4> DEFINE x == nodes[r + 1].first
      <4>1. x \in Nat /\ BlockOf(nodes, r) = x..(x - 1)
        BY <3>1 DEF BlockOf, ChildIndices
      <4> HIDE DEF x
      <4> QED
        BY <4>1
    <3>3. c = 0
      BY <2>6, <2>8, <3>2
    <3> QED
      BY <3>3 DEF c
  <2>11. CASE ~is_terminal(nodes[r + 1])
    <3>1. nodes[r + 1].is_nodal
      BY <1>2, <1>3, <2>2, <2>7 DEF Tree, Statuses
    <3>2. (sims - below) - Extra(Nobody, r) \in {1}
      BY <1>0, <1>1, <2>2, <2>3, <2>11, <3>1 DEF Counted, CountedBut, CountAt, Child
    <3>3. Extra(Nobody, r) = 0
      <4>1. r # Nobody
        BY <2>7 DEF Indices, Nobody
      <4> QED
        BY <4>1 DEF Extra
    <3> HIDE DEF r, below, sims
    <3>4. below < b
      BY <1>1, <2>8, <2>9, <3>2, <3>3
    <3>5. c = 0 \/ c < b
      BY <2>6, <3>4 DEF below
    <3> QED
      BY <3>5 DEF b, c
  <2> QED
    BY <2>10, <2>11 DEF c
<1> QED
  BY <1>5, <1>6 DEF b

(* A legal move that re-roots is a Reparent. *)
LEMMA ReparentPromised ==
  ASSUME NEW L, NEW pos, Inv(FALSE, L, pos), pc = "idle", SemisplitInv',
         NEW m \in Moves(root_state), ReparentAlongMove(m)
  PROVE  Search!TreeNext
<1>1. /\ ChildSims(0) = RootSims /\ RootSims \in 0..MaxSims
      /\ ChildSims(0)' = RootSims' /\ RootSims' \in 0..MaxSims
  BY RootCounts, RootCountsAfter
<1>2. RootSims' = 0 \/ RootSims' < RootSims
  <2>1. RootSims' \in Nat
    BY <1>1, SemisplitAssumption
  <2> QED
    BY <2>1, ReparentCounts
<1>3. ChildSims(0)' \in Search!Kept(ChildSims(0))
  BY <1>1, <1>2, SemisplitAssumption DEF Search!Kept
<1>4. root_state \in Nodal
  BY DEF Inv, Tree, Stands
<1>5. m \in AllMoves /\ m \in [s \in Nodal |-> Moves(s)][root_state]
  BY <1>4 DEF AllMoves
<1>6. root_state' = AfterMove(root_state, m)
  <2>1. m # <<>>
    BY <1>4, MovesSeq, SplitGameAssumption
  <2> QED
    BY <2>1 DEF ReparentAlongMove, StateAfter
<1>7. root_state' =
        [s \in Nodal |-> [x \in AllMoves |-> IF x \in Moves(s) THEN AfterMove(s, x) ELSE s]][root_state][m]
  BY <1>4, <1>5, <1>6
<1>8. Search!Reparent(m)
  BY <1>3, <1>7 DEF Search!Reparent
<1> QED
  BY <1>5, <1>8 DEF Search!TreeNext

(* However many semimoves a turn has, and whatever the tree goes through,  *)
(* the worker sees the tree SearchTree describes: a simulation adds one    *)
(* visit to a child of the root, a whole legal move re-roots it and leaves *)
(* fewer, a finished game brings a new tree.  Where edges are actions and  *)
(* turns are added edge by edge, the move chosen may be empty: that tree   *)
(* keeps no such promise.                                                  *)
THEOREM SemisplitKeepsSearchTree ==
  ASSUME GETTER = "S" \/ IS_NODAL
  PROVE  Spec => ImplementsSearchTree
<1>1. Init => Search!Create
  <2> SUFFICES ASSUME Init PROVE Search!Create
    OBVIOUS
  <2> DEFINE rolled == FALSE
  <2>1. PICK L, pos : Inv(rolled, L, pos)
    BY InitInv DEF IInv
  <2>2. RootSims \in 0..root_sim_count /\ ChildSims(0) = RootSims
    BY <2>1, RootCounts
  <2>3. ChildSims(0) = 0
    BY <2>2 DEF Init
  <2> QED
    BY <2>3 DEF Init, Search!Create
<1>2. SemisplitInv /\ [Next]_vars => [Search!TreeNext]_(Search!treeVars)
  <2> SUFFICES ASSUME SemisplitInv, Next \/ UNCHANGED vars
               PROVE  Search!TreeNext \/ UNCHANGED Search!treeVars
    OBVIOUS
  <2> DEFINE rolled == FALSE
  <2>1. PICK L, pos : Inv(rolled, L, pos)
    BY DEF SemisplitInv, IInv
  <2>2. /\ SemisplitInv'
        /\ ChildSims(0) = RootSims /\ ChildSims(0)' = RootSims'
    BY <2>1, SemisplitKeeps, RootCounts, RootCountsAfter
  <2>3. RootSims' = RootSims /\ root_state' = root_state => UNCHANGED Search!treeVars
    BY <2>2 DEF Search!treeVars
  <2>4. CASE BeginSimulation \/ Descend \/ FinishSimulation \/ UNCHANGED vars
    <3>1. nodes' = nodes /\ children' = children /\ root_state' = root_state
      BY <2>4 DEF BeginSimulation, Descend, FinishSimulation, vectors, vars
    <3> QED
      BY <2>3, <3>1 DEF RootSims
  <2>5. CASE Expand \/ RemoveDeadEnd
    <3>1. root_state' = root_state
      BY <2>5 DEF Expand, RemoveDeadEnd
    <3>2. RootSims' = RootSims
      <4> HIDE DEF rolled
      <4> QED
        BY <2>1, <2>5, ExpandStep, RemoveStep
    <3> QED
      BY <2>3, <3>1, <3>2
  <2>6. CASE ScoreTerminal \/ VisitChild
    <3>1. root_state' = root_state /\ pc = "descend"
      BY <2>6 DEF ScoreTerminal, VisitChild, AtUnvisited, EndSimulation
    <3>2. RootSims' = RootSims + 1
      <4>1. CASE ScoreTerminal
        <5> HIDE DEF rolled
        <5> QED
          BY <2>1, <4>1, ScoreStep
      <4>2. CASE VisitChild
        BY <2>1, <2>2, <4>2, VisitCounts
      <4> QED
        BY <2>6, <4>1, <4>2
    <3>3. Search!Simulate
      BY <2>1, <2>2, <3>1, <3>2, SimulateStep
    <3> QED
      BY <3>3 DEF Search!TreeNext
  <2>7. CASE OpponentMove \/ ChooseBestMove
    <3>1. pc = "idle" /\ \E m \in Moves(root_state) : ReparentAlongMove(m)
      <4>1. CASE OpponentMove
        BY <4>1 DEF OpponentMove
      <4>2. CASE ChooseBestMove
        <5>1. PICK saved \in SavedPaths : \E m \in MovesFromPath(saved) : ReparentAlongMove(m)
          BY <4>2 DEF ChooseBestMove
        <5>2. pc = "idle"
          BY <4>2 DEF ChooseBestMove
        <5>6. IS_NODAL => WholeTurns(L)
          BY <2>1, TurnsWhole
        <5> HIDE DEF rolled
        <5>3. /\ Tree(nodes, children, L, root_state, pos) /\ Counted(nodes, children, L, root_sim_count, rolled)
              /\ root_state \in Nodal /\ root_state \in State
          BY <2>1, <5>2, AtIdle
        <5>4. SavedFrom(L, root_state, saved)
          BY <5>1, <5>3, SavedPathsFit
        <5>5. MovesFromPath(saved) \subseteq Moves(root_state)
          BY <5>3, <5>4, <5>6, MovesFromPathLegal
        <5> QED
          BY <5>1, <5>2, <5>5
      <4> QED
        BY <2>7, <4>1, <4>2
    <3>2. PICK m \in Moves(root_state) : ReparentAlongMove(m)
      BY <3>1
    <3> QED
      BY <2>1, <2>2, <3>1, <3>2, ReparentPromised
  <2>8. CASE ResetTree
    <3>1. root_state' = InitState /\ root_sim_count' = 0
      BY <2>8 DEF ResetTree
    <3>2. RootSims' = 0
      <4>1. nodes' = FreshTree(InitState).nodes /\ children' = FreshTree(InitState).children
        BY <2>8 DEF ResetTree
      <4> DEFINE ns == FreshTree(InitState).nodes
                 cs == FreshTree(InitState).children
      <4>2. RootSims' = BlockSims(cs, ns[1])
        BY <4>1 DEF RootSims
      <4> HIDE DEF rolled
      <4>3. Sound(ns, cs, InitState, 0, rolled)
        BY FreshTreeIs, SplitGameAssumption
      <4> HIDE DEF ns, cs
      <4>4. BlockSims(cs, ns[1]) \in 0..0
        BY <4>3, SoundSims
      <4> QED
        BY <4>2, <4>4
    <3>3. Search!Rebuild
      BY <2>2, <3>1, <3>2 DEF Search!Rebuild
    <3> QED
      BY <3>3 DEF Search!TreeNext
  <2> QED
    BY <2>4, <2>5, <2>6, <2>7, <2>8 DEF Next, SimulationStep
<1> QED
  BY <1>1, <1>2, SemisplitInvariant, PTL DEF Spec, ImplementsSearchTree, Search!TreeSpec

-----------------------------------------------------------------------------
(* What the tree knows below its nodes, for any vectors.                   *)
KnownEdge(cs, b, i) == <<cs[i + 1].semimove, cs[i + 1].sim_count, b[cs[i + 1].index]>>
KnownBelow(ns, cs, b, n) == {KnownEdge(cs, b, i) : i \in SeenIn(ns, cs, n)}
KnowledgeStep(ns, cs, b) == b = [n \in Indices(ns) |-> KnownBelow(ns, cs, b, n)]
KnowledgeOf(ns, cs) == CHOOSE b : KnowledgeStep(ns, cs, b)

(* The nodes behind the children of a node are younger. *)
LEMMA SeenFacts ==
  ASSUME NEW ns, NEW cs, Vectors(ns, cs), NEW n \in Indices(ns), NEW k \in SeenIn(ns, cs, n)
  PROVE  /\ k \in Indices(cs) /\ k \in Nat
         /\ cs[k + 1].index \in Indices(ns) /\ n < cs[k + 1].index
         /\ cs[k + 1].semimove \in Seq(Action)
<1>1. k \in BlockOf(ns, n) /\ cs[k + 1].index # 0
  BY DEF SeenIn
<1>2. k \in Indices(cs)
  BY <1>1, VectorFacts
<1>3. n < cs[k + 1].index
  BY <1>1 DEF Vectors
<1> QED
  BY <1>2, <1>3, VectorFacts

(* What is known below a node depends on younger nodes only. *)
LEMMA KnownYounger ==
  ASSUME NEW ns, NEW cs, Vectors(ns, cs), NEW i \in Indices(ns), NEW f, NEW g,
         \A n \in Indices(ns) : i < n => f[n] = g[n]
  PROVE  KnownBelow(ns, cs, f, i) = KnownBelow(ns, cs, g, i)
<1>1. \A k \in SeenIn(ns, cs, i) : f[cs[k + 1].index] = g[cs[k + 1].index]
  BY SeenFacts
<1>2. \A k \in SeenIn(ns, cs, i) : KnownEdge(cs, f, k) = KnownEdge(cs, g, k)
  BY <1>1 DEF KnownEdge
<1> QED
  BY <1>2 DEF KnownBelow

(* So there is such a function. *)
LEMMA KnowledgeExists ==
  ASSUME NEW ns, NEW cs, Vectors(ns, cs)
  PROVE  KnowledgeStep(ns, cs, KnowledgeOf(ns, cs))
<1> DEFINE N == Len(ns)
           Young(m) == {i \in Indices(ns) : N <= i + m}
           T == {m \in Nat : \E b : b = [i \in Young(m) |-> KnownBelow(ns, cs, b, i)]}
<1>1. N \in Nat /\ Indices(ns) \subseteq Nat /\ \A i \in Indices(ns) : i < N
  BY DEF Vectors, Indices
<1> HIDE DEF N
<1>2. 0 \in T
  <2>1. Young(0) = {}
    <3>1. \A i \in Indices(ns) : ~ (N <= i + 0)
      BY <1>1
    <3> QED
      BY <3>1
  <2> DEFINE b == [i \in {} |-> 0]
  <2>2. b = [i \in Young(0) |-> KnownBelow(ns, cs, b, i)]
    BY <2>1
  <2> HIDE DEF b, Young
  <2> QED
    BY <2>2
<1>3. ASSUME NEW m \in Nat, m \in T
      PROVE  m + 1 \in T
  <2>1. PICK b : b = [i \in Young(m) |-> KnownBelow(ns, cs, b, i)]
    BY <1>3
  <2> DEFINE c == [i \in Young(m + 1) |-> KnownBelow(ns, cs, b, i)]
  <2>2. \A i \in Young(m) : i \in Young(m + 1)
    BY <1>1
  <2>3. \A i \in Young(m + 1), n \in Indices(ns) : i < n => n \in Young(m)
    BY <1>1
  <2>4. \A i \in Young(m + 1) : i \in Indices(ns)
    OBVIOUS
  <2> HIDE DEF Young
  <2>5. \A n \in Young(m) : c[n] = b[n]
    BY <2>1, <2>2
  <2>6. \A i \in Young(m + 1) : KnownBelow(ns, cs, b, i) = KnownBelow(ns, cs, c, i)
    <3> TAKE i \in Young(m + 1)
    <3>1. \A n \in Indices(ns) : i < n => b[n] = c[n]
      BY <2>3, <2>5
    <3> HIDE DEF c
    <3> QED
      BY <2>4, <3>1, KnownYounger
  <2>7. c = [i \in Young(m + 1) |-> KnownBelow(ns, cs, c, i)]
    BY <2>6
  <2> HIDE DEF c
  <2> QED
    BY <2>7
<1> HIDE DEF T
<1>4. N \in T
  BY <1>1, <1>2, <1>3, SetInduction
<1>5. Young(N) = Indices(ns)
  <2>1. \A i \in Indices(ns) : N <= i + N
    BY <1>1
  <2> QED
    BY <2>1
<1>6. PICK b : b = [i \in Young(N) |-> KnownBelow(ns, cs, b, i)]
  BY <1>4 DEF T
<1>7. KnowledgeStep(ns, cs, b)
  <2> HIDE DEF Young
  <2> QED
    BY <1>5, <1>6 DEF KnowledgeStep
<1> QED
  BY <1>7 DEF KnowledgeOf

(* Where no child was visited nothing is known. *)
LEMMA NothingKnown ==
  ASSUME NEW ns, NEW cs, Vectors(ns, cs), NEW n \in Indices(ns), \A i \in BlockOf(ns, n) : cs[i + 1].index = 0
  PROVE  KnowledgeOf(ns, cs)[n] = {}
<1>1. KnowledgeOf(ns, cs)[n] = KnownBelow(ns, cs, KnowledgeOf(ns, cs), n)
  BY KnowledgeExists DEF KnowledgeStep
<1>2. SeenIn(ns, cs, n) = {}
  BY DEF SeenIn
<1> QED
  BY <1>1, <1>2 DEF KnownBelow

(* In a tree whose root's children remember nothing, the root knows        *)
(* nothing.                                                                *)
LEMMA NothingRemembered ==
  ASSUME NEW ns, NEW cs, NEW s, NEW total, NEW rolled, Sound(ns, cs, s, total, rolled),
         BlockSims(cs, ns[1]) = 0
  PROVE  KnowledgeOf(ns, cs)[0] = {}
<1>1. PICK L, pos : Tree(ns, cs, L, s, pos) /\ Counted(ns, cs, L, total, rolled)
  BY DEF Sound
<1>2. Vectors(ns, cs) /\ 0 \in Indices(ns) /\ ns[0 + 1] = ns[1]
  BY <1>1 DEF Tree, Vectors
<1>3. ASSUME NEW i \in BlockOf(ns, 0)
      PROVE  cs[i + 1].index = 0
  <2>1. cs[i + 1].sim_count <= 0
    BY <1>2, BlockSimsNat
  <2>2. i \in Indices(cs) /\ cs[i + 1].sim_count \in Nat
    BY <1>2, VectorFacts
  <2>3. cs[i + 1].sim_count = 0
    BY <2>1, <2>2
  <2> QED
    BY <1>1, <2>2, <2>3 DEF Counted, CountedBut
<1> QED
  BY <1>2, <1>3, NothingKnown

(* A copy knows what the original knew. *)
LEMMA CopyKeepsKnowledge ==
  ASSUME NEW ns, NEW cs, NEW L, Vectors(ns, cs), Links(ns, cs, L), NEW ms, NEW ds, NEW old, NEW from,
         IsCopy(ns, cs, L, ms, ds, old, from)
  PROVE  \A m \in Indices(ms) : KnowledgeOf(ms, ds)[m] = KnowledgeOf(ns, cs)[old[m]]
<1> DEFINE b == KnowledgeOf(ns, cs)
           c == KnowledgeOf(ms, ds)
           P == {m \in Indices(ms) : c[m] = b[old[m]]}
<1>1. /\ Vectors(ms, ds)
      /\ \A m \in Indices(ms) :
           /\ old[m] \in Indices(ns)
           /\ \A i \in BlockOf(ms, m) : i \in Indices(ds) /\ from[i] \in BlockOf(ns, old[m])
           /\ \A j \in BlockOf(ns, old[m]) : \E i \in BlockOf(ms, m) : from[i] = j
  BY CopyKeepsBlocks
<1>2. KnowledgeStep(ns, cs, b) /\ KnowledgeStep(ms, ds, c)
  BY <1>1, KnowledgeExists
<1> HIDE DEF b, c
<1>3. /\ \A n \in Indices(ns) : b[n] = KnownBelow(ns, cs, b, n)
      /\ \A m \in Indices(ms) : c[m] = KnownBelow(ms, ds, c, m)
  BY <1>2 DEF KnowledgeStep
<1>4. ASSUME NEW m \in Indices(ms), \A n \in Indices(ms) : m < n => n \in P
      PROVE  m \in P
  <2>1. ASSUME NEW i \in BlockOf(ms, m)
        PROVE  /\ ds[i + 1].semimove = cs[from[i] + 1].semimove
               /\ ds[i + 1].sim_count = cs[from[i] + 1].sim_count
               /\ ds[i + 1].index = 0 <=> cs[from[i] + 1].index = 0
               /\ ds[i + 1].index # 0 => old[ds[i + 1].index] = cs[from[i] + 1].index
    BY <1>1 DEF IsCopy
  <2>2. \A i \in SeenIn(ms, ds, m) : from[i] \in SeenIn(ns, cs, old[m])
    BY <1>1, <2>1 DEF SeenIn
  <2>3. \A i \in SeenIn(ms, ds, m) : KnownEdge(ds, c, i) = KnownEdge(cs, b, from[i])
    <3> TAKE i \in SeenIn(ms, ds, m)
    <3>1. i \in BlockOf(ms, m) /\ ds[i + 1].index # 0
      BY DEF SeenIn
    <3>2. ds[i + 1].index \in Indices(ms) /\ m < ds[i + 1].index
      BY <1>1, SeenFacts
    <3>3. c[ds[i + 1].index] = b[old[ds[i + 1].index]]
      BY <1>4, <3>2
    <3> QED
      BY <2>1, <3>1, <3>3 DEF KnownEdge
  <2>4. \A j \in SeenIn(ns, cs, old[m]) : \E i \in SeenIn(ms, ds, m) : from[i] = j
    BY <1>1, <2>1 DEF SeenIn
  <2>5. KnownBelow(ms, ds, c, m) = KnownBelow(ns, cs, b, old[m])
    BY <2>2, <2>3, <2>4 DEF KnownBelow
  <2> QED
    BY <1>1, <1>3, <2>5
<1>5. Len(ms) \in Nat
  BY <1>1, VectorFacts
<1> HIDE DEF P
<1>6. \A m \in Indices(ms) : m \in P
  BY <1>4, <1>5, YoungestFirst
<1> QED
  BY <1>6 DEF P, b, c

(* What root_at_index makes of a nodal node knows what the node knew. *)
LEMMA RerootedKnows ==
  ASSUME NEW L, NEW root, NEW pos, Tree(nodes, children, L, root, pos),
         NEW all, NEW rolled, Counted(nodes, children, L, all, rolled), Touched(nodes, children, L, Nobody),
         NEW p \in L, NEW k \in BlockOf(nodes, p), Child(k).index # 0,
         NEW s, s = pos[Child(k).index], s \in Nodal
  PROVE  KnowledgeOf(Rerooted(k, s).nodes, Rerooted(k, s).children)[0] =
           KnowledgeOf(nodes, children)[Child(k).index]
<1> DEFINE r == Child(k).index
           order == Preorder(r)
           ms == FixedNodes(order)
           ds == FixedChildren(order)
<1>1. Vectors(nodes, children) /\ Links(nodes, children, L)
  BY DEF Tree
<1>2. r \in L /\ r # 0 /\ r \in Indices(nodes)
  BY <1>1, LinkFacts DEF Child
<1>3. Linked /\ Joined(L)
  BY <1>1, TreeIsLinked
<1> HIDE DEF r
<1>4. Listing(L, r, order)
  BY <1>2, <1>3, PreorderLists
<1> HIDE DEF order
<1>5. PICK old, from : IsCopy(nodes, children, L, ms, ds, old, from) /\ old[0] = r
  BY <1>1, <1>2, <1>4, FixedIsCopy
<1> HIDE DEF ms, ds
<1>6. pos[old[0]] = s /\ pos[old[0]] \in Nodal
  BY <1>5 DEF r
<1>7. Tree(ms, ds, Indices(ms), s, [m \in Indices(ms) |-> pos[old[m]]])
  BY <1>5, <1>6, CopyKeepsTree
<1>8. /\ Vectors(ms, ds) /\ 0 \in Indices(ms) /\ ms[0 + 1] = ms[1]
      /\ Statuses(ms, Indices(ms), [m \in Indices(ms) |-> pos[old[m]]])
  BY <1>7 DEF Tree, Vectors
<1>9. KnowledgeOf(ms, ds)[0] = KnowledgeOf(nodes, children)[r]
  BY <1>1, <1>5, <1>8, CopyKeepsKnowledge
<1>10. ms[1].status # "unknown" /\ Head(ms) = ms[1] /\ <<ms[1]>> \o Tail(ms) = ms
  <2>1. ms \in Seq(NodeRecord) /\ Len(ms) \in Nat \ {0}
    BY <1>8, VectorFacts DEF Vectors
  <2>2. ms[1].status # "unknown"
    BY <1>8 DEF Statuses, TrueStatus
  <2> QED
    BY <2>1, <2>2
<1> DEFINE t == [nodes |-> <<ms[1]>> \o Tail(ms), children |-> ds]
<1>11. Rerooted(k, s) = IF is_expanded(ms[1]) THEN t ELSE create_children(t, 0, SetToSeq(Semimoves[s]))
  BY <1>10 DEF Rerooted, ms, ds, order, r
<1>12. t.nodes = ms /\ t.children = ds
  BY <1>10
<1> HIDE DEF t
<1>13. CASE is_expanded(ms[1])
  BY <1>9, <1>11, <1>12, <1>13 DEF r
<1>14. CASE ~is_expanded(ms[1])
  <2>1. is_expanded(ms[0 + 1]) <=> is_expanded(nodes[old[0] + 1])
    BY <1>1, <1>5, <1>8, CopyKeepsBlocks
  <2>2. ~is_expanded(nodes[r + 1])
    BY <1>5, <1>8, <1>14, <2>1
  <2>3. BlockOf(nodes, r) = {}
    BY <1>1, <1>2, <2>2, VectorFacts
  <2>4. KnowledgeOf(nodes, children)[r] = {}
    BY <1>1, <1>2, <2>3, NothingKnown
  <2>5. BlockSims(children, nodes[r + 1]) = 0
    BY <1>1, <1>2, <2>3, BlockSimsNat
  <2> DEFINE vs == Rerooted(k, s).nodes
             xs == Rerooted(k, s).children
  <2>6. /\ Sound(vs, xs, s, Child(k).sim_count, rolled)
        /\ BlockSims(xs, vs[1]) \in {0, BlockSims(children, nodes[r + 1])}
    BY RerootedSound DEF r
  <2> HIDE DEF vs, xs
  <2>7. KnowledgeOf(vs, xs)[0] = {}
    BY <2>5, <2>6, NothingRemembered
  <2> QED
    BY <2>4, <2>7 DEF vs, xs, r
<1> QED
  BY <1>13, <1>14

-----------------------------------------------------------------------------
(* Where the turns known below a node end, for any vectors.                *)
Hides(e) == Len(e) > 1 /\ Last(e) \in Dot
EndsAt(ns, cs, f, k) ==
  LET e == cs[k + 1].semimove
      next == cs[k + 1].index
  IN IF ns[next + 1].is_nodal THEN {[text |-> Written(e), child |-> k, hidden |-> Hides(e)]}
     ELSE {[text |-> Written(e) \o x.text, child |-> x.child, hidden |-> Hides(e) \/ x.hidden] : x \in f[next]}
EndsBelow(ns, cs, f, n) == UNION {EndsAt(ns, cs, f, k) : k \in SeenIn(ns, cs, n)}
EndsStep(ns, cs, f) == f = [n \in Indices(ns) |-> EndsBelow(ns, cs, f, n)]
EndsOf(ns, cs) == CHOOSE f : EndsStep(ns, cs, f)

(* TurnEnds is that, of the vectors there are. *)
LEMMA TurnEndsIs ==
  TurnEnds = EndsOf(nodes, children)
BY DEF TurnEnds, EndsOf, EndsStep, EndsBelow, EndsAt, Hides, SeenIn, Visited, Nodes, Indices, BlockOf, Node, Child

(* It depends on younger nodes only. *)
LEMMA EndsYounger ==
  ASSUME NEW ns, NEW cs, Vectors(ns, cs), NEW i \in Indices(ns), NEW f, NEW g,
         \A n \in Indices(ns) : i < n => f[n] = g[n]
  PROVE  EndsBelow(ns, cs, f, i) = EndsBelow(ns, cs, g, i)
<1>1. \A k \in SeenIn(ns, cs, i) : f[cs[k + 1].index] = g[cs[k + 1].index]
  BY SeenFacts
<1>2. \A k \in SeenIn(ns, cs, i) : EndsAt(ns, cs, f, k) = EndsAt(ns, cs, g, k)
  BY <1>1 DEF EndsAt
<1> QED
  BY <1>2 DEF EndsBelow

(* So there is such a function. *)
LEMMA EndsExist ==
  ASSUME NEW ns, NEW cs, Vectors(ns, cs)
  PROVE  EndsStep(ns, cs, EndsOf(ns, cs))
<1> DEFINE N == Len(ns)
           Young(m) == {i \in Indices(ns) : N <= i + m}
           T == {m \in Nat : \E b : b = [i \in Young(m) |-> EndsBelow(ns, cs, b, i)]}
<1>1. N \in Nat /\ Indices(ns) \subseteq Nat /\ \A i \in Indices(ns) : i < N
  BY DEF Vectors, Indices
<1> HIDE DEF N
<1>2. 0 \in T
  <2>1. Young(0) = {}
    <3>1. \A i \in Indices(ns) : ~ (N <= i + 0)
      BY <1>1
    <3> QED
      BY <3>1
  <2> DEFINE b == [i \in {} |-> 0]
  <2>2. b = [i \in Young(0) |-> EndsBelow(ns, cs, b, i)]
    BY <2>1
  <2> HIDE DEF b, Young
  <2> QED
    BY <2>2
<1>3. ASSUME NEW m \in Nat, m \in T
      PROVE  m + 1 \in T
  <2>1. PICK b : b = [i \in Young(m) |-> EndsBelow(ns, cs, b, i)]
    BY <1>3
  <2> DEFINE c == [i \in Young(m + 1) |-> EndsBelow(ns, cs, b, i)]
  <2>2. \A i \in Young(m) : i \in Young(m + 1)
    BY <1>1
  <2>3. \A i \in Young(m + 1), n \in Indices(ns) : i < n => n \in Young(m)
    BY <1>1
  <2>4. \A i \in Young(m + 1) : i \in Indices(ns)
    OBVIOUS
  <2> HIDE DEF Young
  <2>5. \A n \in Young(m) : c[n] = b[n]
    BY <2>1, <2>2
  <2>6. \A i \in Young(m + 1) : EndsBelow(ns, cs, b, i) = EndsBelow(ns, cs, c, i)
    <3> TAKE i \in Young(m + 1)
    <3>1. \A n \in Indices(ns) : i < n => b[n] = c[n]
      BY <2>3, <2>5
    <3> HIDE DEF c
    <3> QED
      BY <2>4, <3>1, EndsYounger
  <2>7. c = [i \in Young(m + 1) |-> EndsBelow(ns, cs, c, i)]
    BY <2>6
  <2> HIDE DEF c
  <2> QED
    BY <2>7
<1> HIDE DEF T
<1>4. N \in T
  BY <1>1, <1>2, <1>3, SetInduction
<1>5. Young(N) = Indices(ns)
  <2>1. \A i \in Indices(ns) : N <= i + N
    BY <1>1
  <2> QED
    BY <2>1
<1>6. PICK b : b = [i \in Young(N) |-> EndsBelow(ns, cs, b, i)]
  BY <1>4 DEF T
<1>7. EndsStep(ns, cs, b)
  <2> HIDE DEF Young
  <2> QED
    BY <1>5, <1>6 DEF EndsStep
<1> QED
  BY <1>7 DEF EndsOf

(* Texts of ends are sequences of actions. *)
LEMMA EndTexts ==
  ASSUME NEW ns, NEW cs, Vectors(ns, cs), NEW f, EndsStep(ns, cs, f)
  PROVE  \A i \in Indices(ns) : \A x \in f[i] : x.text \in Seq(Action)
<1> DEFINE P == {i \in Indices(ns) : \A x \in f[i] : x.text \in Seq(Action)}
<1>1. ASSUME NEW i \in Indices(ns), \A n \in Indices(ns) : i < n => n \in P
      PROVE  i \in P
  <2> SUFFICES ASSUME NEW x \in f[i] PROVE x.text \in Seq(Action)
    OBVIOUS
  <2>1. f[i] = EndsBelow(ns, cs, f, i)
    BY DEF EndsStep
  <2>2. PICK k \in SeenIn(ns, cs, i) : x \in EndsAt(ns, cs, f, k)
    BY <2>1 DEF EndsBelow
  <2> DEFINE next == cs[k + 1].index
             text == Written(cs[k + 1].semimove)
             hides == Hides(cs[k + 1].semimove)
  <2>3. next \in Indices(ns) /\ i < next /\ cs[k + 1].semimove \in Seq(Action)
    BY SeenFacts
  <2>4. text \in Seq(Action)
    BY <2>3, WrittenSeq
  <2>5. \A y \in f[next] : y.text \in Seq(Action)
    BY <1>1, <2>3
  <2> HIDE DEF next, text, hides
  <2>6. IF ns[next + 1].is_nodal THEN x \in {[text |-> text, child |-> k, hidden |-> hides]}
        ELSE x \in {[text |-> text \o y.text, child |-> y.child, hidden |-> hides \/ y.hidden] : y \in f[next]}
    BY <2>2 DEF EndsAt, next, text, hides
  <2>7. CASE ns[next + 1].is_nodal
    BY <2>4, <2>6, <2>7
  <2>8. CASE ~ns[next + 1].is_nodal
    <3>1. PICK y \in f[next] : x = [text |-> text \o y.text, child |-> y.child, hidden |-> hides \/ y.hidden]
      BY <2>6, <2>8
    <3>2. x.text = text \o y.text /\ y.text \in Seq(Action)
      BY <2>5, <3>1
    <3> QED
      BY <2>4, <3>2
  <2> QED
    BY <2>7, <2>8
<1>2. Len(ns) \in Nat
  BY VectorFacts
<1> HIDE DEF P
<1>3. \A i \in Indices(ns) : i \in P
  BY <1>1, <1>2, YoungestFirst
<1> QED
  BY <1>3 DEF P

(* What a child seen adds: an end, or text in front of those behind it. *)
Adds(f, n, k, e, next, over) ==
  /\ over => \E y \in f[n] : y.child = k /\ y.text = Written(e)
  /\ ~over => \A x \in f[next] : \E y \in f[n] : y.child = x.child /\ y.text = Written(e) \o x.text
(* Every child seen does so. *)
LEMMA EndsThrough ==
  ASSUME NEW ns, NEW cs, Vectors(ns, cs), NEW f, EndsStep(ns, cs, f), NEW n \in Indices(ns), NEW k \in SeenIn(ns, cs, n)
  PROVE  Adds(f, n, k, cs[k + 1].semimove, cs[k + 1].index, ns[cs[k + 1].index + 1].is_nodal)
<1> DEFINE next == cs[k + 1].index
           text == Written(cs[k + 1].semimove)
           hides == Hides(cs[k + 1].semimove)
<1>1. EndsAt(ns, cs, f, k) \subseteq f[n]
  <2>1. f[n] = EndsBelow(ns, cs, f, n)
    BY DEF EndsStep
  <2> QED
    BY <2>1 DEF EndsBelow
<1>2. EndsAt(ns, cs, f, k) =
        IF ns[next + 1].is_nodal THEN {[text |-> text, child |-> k, hidden |-> hides]}
        ELSE {[text |-> text \o x.text, child |-> x.child, hidden |-> hides \/ x.hidden] : x \in f[next]}
  BY DEF EndsAt
<1> HIDE DEF next, text, hides
<1>3. ASSUME ns[next + 1].is_nodal
      PROVE  \E y \in f[n] : y.child = k /\ y.text = text
  <2> DEFINE y == [text |-> text, child |-> k, hidden |-> hides]
  <2>1. y \in f[n]
    BY <1>1, <1>2, <1>3
  <2>2. y.child = k /\ y.text = text
    OBVIOUS
  <2> QED
    BY <2>1, <2>2
<1>4. ASSUME ~ns[next + 1].is_nodal, NEW x \in f[next]
      PROVE  \E y \in f[n] : y.child = x.child /\ y.text = text \o x.text
  <2> DEFINE y == [text |-> text \o x.text, child |-> x.child, hidden |-> hides \/ x.hidden]
  <2>1. y \in f[n]
    BY <1>1, <1>2, <1>4
  <2>2. y.child = x.child /\ y.text = text \o x.text
    OBVIOUS
  <2> HIDE DEF y
  <2> QED
    BY <2>1, <2>2
<1> QED
  BY <1>3, <1>4 DEF next, text, Adds

-----------------------------------------------------------------------------
(* The search for a move, and the ends of turns.  Child c, or no child, was*)
(* reached where the move was read up to its action i: it is one of the    *)
(* ends, or in front of those below it stands what was read.               *)
EndsFrom(f, m, c, i) ==
  IF c # NoChild /\ Node(NodeBelow(c)).is_nodal
  THEN \E e \in f[0] : e.child = c /\ e.text = ReadTo(m, i)
  ELSE \A x \in f[NodeBelow(c)] : \E e \in f[0] : e.child = x.child /\ e.text = ReadTo(m, i) \o x.text
EndsKnown(f, m, c, i) == (c = NoChild /\ i > Len(m)) \/ EndsFrom(f, m, c, i)
WalkKnows(f, m, w) ==
  /\ EndsKnown(f, m, w.child, w.i)
  /\ \A t \in 1..Len(w.trials) : EndsKnown(f, m, w.trials[t].child, w.i)

(* A child that is entered was reached so if its node was. *)
LEMMA EntersKnown ==
  ASSUME NEW L, NEW pos, Tree(nodes, children, L, root_state, pos), NEW m \in Moves(root_state),
         NEW f, EndsStep(nodes, children, f),
         NEW i \in 1..Len(m), NEW b, WalkStands(L, pos, m, b, i), EndsFrom(f, m, b, i),
         NEW c \in BlockOf(nodes, NodeBelow(b)), Child(c).index # 0,
         IsDot(Child(c).semimove) \/ IsPrefix(Child(c).semimove, SubSeq(m, i, Len(m))),
         NEW j, j = IF IsDot(Child(c).semimove) THEN i ELSE i + Len(Child(c).semimove)
  PROVE  EndsFrom(f, m, c, j)
<1> DEFINE n == NodeBelow(b)
           e == Child(c).semimove
           next == Child(c).index
           x == ReadTo(m, i)
           y == ReadTo(m, j)
           text == Written(e)
<1>1. /\ Vectors(nodes, children) /\ Links(nodes, children, L) /\ Statuses(nodes, L, pos) /\ root_state \in State
  <2>1. root_state \in Nodal
    BY DEF Tree, Stands
  <2> QED
    BY <2>1, SplitGameAssumption DEF Tree
<1>2. m \in Seq(Action) /\ NoDots(m) /\ Len(m) \in Nat
  BY <1>1, MoveLeads
<1>3. n \in L /\ n \in Indices(nodes) /\ (b # NoChild => pos[n] \notin Nodal)
  <2>1. n \in L /\ (b = NoChild \/ pos[n] \notin Nodal)
    BY WalkNode
  <2> QED
    BY <1>1, <2>1, LinkFacts
<1>4. \A z \in f[n] : \E q \in f[0] : q.child = z.child /\ q.text = x \o z.text
  <2>1. b # NoChild => ~nodes[n + 1].is_nodal
    BY <1>1, <1>3 DEF Statuses
  <2> QED
    BY <2>1 DEF EndsFrom, Node
<1>5. c \in SeenIn(nodes, children, n)
  BY DEF SeenIn, Child
<1>6. /\ c \in Nat /\ c # NoChild /\ NodeBelow(c) = next
      /\ e \in Seq(Action) /\ next \in Indices(nodes)
      /\ e = children[c + 1].semimove /\ next = children[c + 1].index
  <2>1. c \in Nat /\ children[c + 1].semimove \in Seq(Action) /\ children[c + 1].index \in Indices(nodes)
    BY <1>1, <1>3, <1>5, SeenFacts
  <2>2. c # NoChild
    BY <2>1 DEF NoChild
  <2> QED
    BY <2>1, <2>2 DEF NodeBelow, Child
<1>7. Adds(f, n, c, e, next, nodes[next + 1].is_nodal)
  <2> HIDE DEF n, e, next
  <2>1. Adds(f, n, c, children[c + 1].semimove, children[c + 1].index, nodes[children[c + 1].index + 1].is_nodal)
    BY <1>1, <1>3, <1>5, EndsThrough
  <2> QED
    BY <1>6, <2>1
<1>8. x \o text = y
  <2> HIDE DEF e
  <2>1. IsDot(e) \/ IsPrefix(e, SubSeq(m, i, Len(m)))
    BY DEF e
  <2>2. j = IF IsDot(e) THEN i ELSE i + Len(e)
    BY DEF e
  <2>3. e \in Seq(Action)
    BY <1>6
  <2>4. ReadTo(m, i) \o Written(e) = ReadTo(m, j)
    BY <1>2, <2>1, <2>2, <2>3, ReadMore
  <2> QED
    BY <2>4
<1>9. x \in Seq(Action) /\ text \in Seq(Action)
  <2>1. x \in Seq(Action)
    BY <1>2 DEF ReadTo
  <2> QED
    BY <1>6, <2>1, WrittenSeq
<1>10. \A v \in f[next] : v.text \in Seq(Action)
  BY <1>1, <1>6, EndTexts
<1> HIDE DEF n, e, next, x, y, text
<1>11. CASE nodes[next + 1].is_nodal
  <2>1. PICK z \in f[n] : z.child = c /\ z.text = text
    BY <1>7, <1>11 DEF Adds, text
  <2>2. PICK q \in f[0] : q.child = z.child /\ q.text = x \o z.text
    BY <1>4
  <2>3. q.child = c /\ q.text = y
    BY <1>8, <2>1, <2>2
  <2> QED
    BY <1>6, <1>11, <2>3 DEF EndsFrom, Node, y
<1>12. CASE ~nodes[next + 1].is_nodal
  <2>1. ASSUME NEW v \in f[next]
        PROVE  \E q \in f[0] : q.child = v.child /\ q.text = y \o v.text
    <3>1. PICK z \in f[n] : z.child = v.child /\ z.text = text \o v.text
      BY <1>7, <1>12 DEF Adds, text
    <3>2. PICK q \in f[0] : q.child = z.child /\ q.text = x \o z.text
      BY <1>4
    <3> DEFINE u == v.text
    <3>3. x \in Seq(Action) /\ text \in Seq(Action) /\ u \in Seq(Action)
      BY <1>9, <1>10
    <3> HIDE DEF u
    <3>4. (x \o text) \o u = x \o (text \o u)
      BY <3>3, ConcatThree
    <3>5. q.child = v.child /\ q.text = y \o u
      BY <1>8, <3>1, <3>2, <3>4 DEF u
    <3> QED
      BY <3>5 DEF u
  <2> QED
    BY <1>6, <1>12, <2>1 DEF EndsFrom, Node, y
<1> QED
  BY <1>11, <1>12

(* A turn of the loop goes on only to children reached so. *)
LEMMA WalkTurnKnows ==
  ASSUME NEW L, NEW pos, Tree(nodes, children, L, root_state, pos), NEW m \in Moves(root_state),
         NEW f, EndsStep(nodes, children, f),
         NEW w, WalkHolds(L, pos, m, w), WalkKnows(f, m, w)
  PROVE  WalkKnows(f, m, WalkTurn(m, w))
<1> DEFINE n == NodeBelow(w.child)
           Trial(c) == [child |-> w.child, tried |-> c]
           Known(c) == EndsKnown(f, m, c, w.i)
<1>1. Vectors(nodes, children) /\ Links(nodes, children, L) /\ root_state \in State
  <2>1. root_state \in Nodal
    BY DEF Tree, Stands
  <2> QED
    BY <2>1, SplitGameAssumption DEF Tree
<1>2. m \in Seq(Action) /\ Len(m) \in Nat
  BY <1>1, MoveLeads
<1>3. PICK c, trials, j :
           /\ Goes(m, w, c, trials, j)
           /\ \/ w.i > Len(m) /\ WalkTurn(m, w) = w
              \/ ~(w.i > Len(m)) /\ WalkTurn(m, w) = GivenUp(m)
              \/ /\ ~(w.i > Len(m))
                 /\ Hits(m, w) # {} /\ Child(c).index # 0
                 /\ WalkTurn(m, w) = [i |-> j, child |-> c, first |-> Node(Child(c).index).first, trials |-> trials]
              \/ /\ ~(w.i > Len(m))
                 /\ trials # <<>>
                 /\ WalkTurn(m, w) = [i |-> j, child |-> Last(trials).child, first |-> Last(trials).tried + 1,
                                      trials |-> Front(trials)]
  BY WalkTurnCases
<1>4. WalkKnows(f, m, GivenUp(m))
  <2> DEFINE g == GivenUp(m)
  <2>1. g.i = Len(m) + 1 /\ g.child = NoChild /\ g.trials = <<>> /\ Len(<<>>) = 0 /\ Len(m) + 1 > Len(m)
    BY <1>2 DEF GivenUp
  <2> QED
    BY <2>1 DEF WalkKnows, EndsKnown
<1>5. CASE w.i > Len(m) \/ WalkTurn(m, w) = GivenUp(m)
  BY <1>3, <1>4, <1>5
<1>6. CASE ~(w.i > Len(m)) /\ WalkTurn(m, w) # GivenUp(m)
  <2>1. /\ w.i \in 1..Len(m) /\ w.child \in Int /\ WalkStands(L, pos, m, w.child, w.i)
        /\ w.trials \in Seq([child : Int, tried : Nat])
        /\ Known(w.child) /\ \A t \in 1..Len(w.trials) : Known(w.trials[t].child)
    BY <1>2, <1>6 DEF WalkHolds, WalkRecord, WalkKnows
  <2>2. n \in L /\ EndsFrom(f, m, w.child, w.i)
    BY <1>6, <2>1, WalkNode DEF EndsKnown
  <2>3. Hits(m, w) # {} =>
          /\ c \in BlockOf(nodes, n) /\ c \in Nat
          /\ IsDot(Child(c).semimove) \/ IsPrefix(Child(c).semimove, SubSeq(m, w.i, Len(m)))
    <3> SUFFICES ASSUME Hits(m, w) # {}
                 PROVE  /\ c \in BlockOf(nodes, n) /\ c \in Nat
                        /\ IsDot(Child(c).semimove) \/ IsPrefix(Child(c).semimove, SubSeq(m, w.i, Len(m)))
      OBVIOUS
    <3>1. \A x \in BlockOf(nodes, n) : x \in Nat
      BY <1>1, <2>2, LinkFacts, VectorFacts
    <3>2. /\ Hits(m, w) \subseteq BlockOf(nodes, n)
          /\ \A x \in Hits(m, w) : IsDot(Child(x).semimove) \/ IsPrefix(Child(x).semimove, SubSeq(m, w.i, Len(m)))
      BY DEF Hits, BlockOf, Node
    <3>3. c \in Hits(m, w)
      <4>1. Hits(m, w) \subseteq Nat
        BY <3>1, <3>2
      <4> QED
        BY <1>3, <4>1, MinIn DEF Goes
    <3> QED
      BY <3>1, <3>2, <3>3
  <2>4. /\ trials \in Seq([child : Int, tried : Nat])
        /\ trials # <<>> => j = w.i
        /\ \A t \in 1..Len(trials) : Known(trials[t].child)
    <3>1. CASE Hits(m, w) = {}
      BY <1>3, <2>1, <3>1 DEF Goes
    <3>2. CASE Hits(m, w) # {} /\ IsDot(Child(c).semimove)
      <4> HIDE DEF Known
      <4>1. trials = Append(w.trials, Trial(c)) /\ j = w.i
        BY <1>3, <3>2 DEF Goes
      <4>2. Trial(c) \in [child : Int, tried : Nat] /\ Trial(c).child = w.child
        BY <2>1, <2>3, <3>2
      <4>3. /\ trials \in Seq([child : Int, tried : Nat]) /\ Len(trials) = Len(w.trials) + 1
            /\ Len(w.trials) \in Nat
            /\ trials[Len(w.trials) + 1] = Trial(c) /\ \A t \in 1..Len(w.trials) : trials[t] = w.trials[t]
        BY <2>1, <4>1, <4>2
      <4>4. \A t \in 1..Len(trials) : Known(trials[t].child)
        <5> TAKE t \in 1..Len(trials)
        <5>1. t \in 1..Len(w.trials) \/ t = Len(w.trials) + 1
          BY <4>3
        <5> QED
          BY <2>1, <4>2, <4>3, <5>1
      <4> QED
        BY <4>1, <4>3, <4>4
    <3>3. CASE Hits(m, w) # {} /\ ~IsDot(Child(c).semimove)
      <4>1. trials = <<>>
        BY <1>3, <3>3 DEF Goes
      <4>2. Len(<<>>) = 0 /\ <<>> \in Seq([child : Int, tried : Nat])
        OBVIOUS
      <4> QED
        BY <4>1, <4>2
    <3> QED
      BY <3>1, <3>2, <3>3
  <2>5. CASE /\ Hits(m, w) # {} /\ Child(c).index # 0
             /\ WalkTurn(m, w) = [i |-> j, child |-> c, first |-> Node(Child(c).index).first, trials |-> trials]
    <3> DEFINE v == [i |-> j, child |-> c, first |-> Node(Child(c).index).first, trials |-> trials]
    <3>1. j = IF IsDot(Child(c).semimove) THEN w.i ELSE w.i + Len(Child(c).semimove)
      BY <1>3, <2>5 DEF Goes
    <3>2. EndsFrom(f, m, c, j)
      BY <2>1, <2>2, <2>3, <2>5, <3>1, EntersKnown
    <3>3. v.i = j /\ v.child = c /\ v.trials = trials
      OBVIOUS
    <3>4. \A t \in 1..Len(trials) : EndsKnown(f, m, trials[t].child, j)
      <4> TAKE t \in 1..Len(trials)
      <4>1. trials # <<>>
        BY <2>4
      <4> QED
        BY <2>4, <4>1
    <3> HIDE DEF v
    <3>5. WalkKnows(f, m, v)
      BY <3>2, <3>3, <3>4 DEF WalkKnows, EndsKnown
    <3> QED
      BY <2>5, <3>5 DEF v
  <2>6. CASE /\ trials # <<>>
             /\ WalkTurn(m, w) = [i |-> j, child |-> Last(trials).child, first |-> Last(trials).tried + 1,
                                  trials |-> Front(trials)]
    <3> DEFINE v == [i |-> j, child |-> Last(trials).child, first |-> Last(trials).tried + 1, trials |-> Front(trials)]
    <3>1. /\ Len(trials) \in Nat \ {0}
          /\ Len(Front(trials)) = Len(trials) - 1
          /\ Last(trials) = trials[Len(trials)]
          /\ \A t \in 1..(Len(trials) - 1) : Front(trials)[t] = trials[t]
      BY <2>4, <2>6, FrontIs
    <3>2. v.i = w.i /\ v.child = trials[Len(trials)].child /\ v.trials = Front(trials)
      BY <2>4, <2>6, <3>1
    <3>3. Len(trials) \in 1..Len(trials) /\ \A t \in 1..(Len(trials) - 1) : t \in 1..Len(trials)
      BY <3>1
    <3>4. Known(v.child) /\ \A t \in 1..Len(Front(trials)) : Known(Front(trials)[t].child)
      <4> HIDE DEF Known, v
      <4>1. Known(v.child)
        BY <2>4, <3>2, <3>3
      <4>2. \A t \in 1..Len(Front(trials)) : Known(Front(trials)[t].child)
        BY <2>4, <3>1, <3>3
      <4> QED
        BY <4>1, <4>2
    <3> HIDE DEF v
    <3>5. WalkKnows(f, m, v)
      BY <3>2, <3>4 DEF WalkKnows
    <3> QED
      BY <2>6, <3>5 DEF v
  <2> QED
    BY <1>3, <1>6, <2>5, <2>6
<1> QED
  BY <1>5, <1>6

(* The child Walk finds is where a turn known to the tree ends, and the    *)
(* text of that turn is the move.                                          *)
LEMMA WalkEndsTurn ==
  ASSUME NEW L, NEW pos, Tree(nodes, children, L, root_state, pos), NEW m \in Moves(root_state)
  PROVE  Walk(m) = NoChild \/ \E e \in TurnEnds[0] : e.child = Walk(m) /\ e.text = m
<1> DEFINE f == EndsOf(nodes, children)
           S == {w \in WalkRecord : WalkHolds(L, pos, m, w) /\ WalkKnows(f, m, w)}
<1>1. Vectors(nodes, children) /\ Links(nodes, children, L) /\ Statuses(nodes, L, pos) /\ root_state \in State
  <2>1. root_state \in Nodal
    BY DEF Tree, Stands
  <2> QED
    BY <2>1, SplitGameAssumption DEF Tree
<1>2. /\ m \in Seq(Action) /\ Len(m) \in Nat /\ m # <<>>
      /\ Leads(root_state, m, AfterMove(root_state, m)) /\ AfterMove(root_state, m) \in Nodal
  BY <1>1, MoveLeads
<1>3. EndsStep(nodes, children, f) /\ TurnEnds = f
  BY <1>1, EndsExist, TurnEndsIs
<1> HIDE DEF f
<1>4. \A x \in f[0] : x.text \in Seq(Action)
  <2>1. 0 \in Indices(nodes)
    BY <1>1 DEF Vectors
  <2> QED
    BY <1>1, <1>3, <2>1, EndTexts
<1>5. WalkStart \in S
  <2>1. Node(0).first \in Nat
    BY <1>1, VectorFacts DEF Node, Vectors
  <2>2. WalkStart \in WalkRecord /\ WalkStart.i = 1 /\ WalkStart.child = NoChild /\ WalkStart.trials = <<>>
    BY <2>1 DEF WalkStart, WalkRecord, NoChild
  <2>3. Len(<<>>) = 0 /\ 1 \in 1..(Len(m) + 1)
    BY <1>2
  <2>4. WalkHolds(L, pos, m, WalkStart)
    BY <2>2, <2>3 DEF WalkHolds, WalkStands
  <2>5. ReadTo(m, 1) = <<>> /\ NodeBelow(NoChild) = 0
    BY <1>2 DEF ReadTo, NodeBelow
  <2>6. \A x \in f[0] : <<>> \o x.text = x.text
    BY <1>4
  <2>7. EndsFrom(f, m, NoChild, 1)
    BY <2>5, <2>6 DEF EndsFrom
  <2>8. WalkKnows(f, m, WalkStart)
    BY <2>2, <2>3, <2>7 DEF WalkKnows, EndsKnown
  <2> QED
    BY <2>2, <2>4, <2>8
<1>6. \A w \in S : WalkTurn(m, w) \in S
  <2> TAKE w \in S
  <2>1. WalkHolds(L, pos, m, WalkTurn(m, w))
    BY WalkTurnHolds
  <2>2. WalkKnows(f, m, WalkTurn(m, w))
    BY <1>3, WalkTurnKnows
  <2> QED
    BY <2>1, <2>2 DEF WalkHolds
<1> HIDE DEF S
<1>7. PICK w \in S : Walk(m) = IF w.i > Len(m) THEN w.child ELSE NoChild
  <2>1. Len(children) \in Nat
    BY <1>1, VectorFacts
  <2> QED
    BY <1>5, <1>6, <2>1, WalkIs
<1>8. WalkHolds(L, pos, m, w) /\ EndsKnown(f, m, w.child, w.i)
  BY <1>7 DEF S, WalkKnows
<1>9. CASE w.i > Len(m) /\ w.child # NoChild
  <2> DEFINE next == Child(w.child).index
  <2>1. Reads(L, pos, m, w.child, w.i) /\ w.i \in 1..(Len(m) + 1) /\ EndsFrom(f, m, w.child, w.i)
    BY <1>8, <1>9 DEF WalkHolds, WalkStands, EndsKnown
  <2>2. PICK x : Leads(root_state, x, pos[next]) /\ x = m
    BY <1>9, <2>1 DEF Reads
  <2>3. pos[next] = AfterMove(root_state, m)
    BY <1>1, <1>2, <2>2, LeadsFacts
  <2>4. next \in L
    BY <1>1, <2>1, LinkFacts DEF Reads, Child
  <2>5. NodeBelow(w.child) = next /\ Node(next).is_nodal
    BY <1>1, <1>2, <1>9, <2>3, <2>4 DEF NodeBelow, Node, Statuses
  <2>6. ReadTo(m, w.i) = m
    <3>1. w.i - 1 = Len(m)
      BY <1>2, <1>9, <2>1
    <3> QED
      BY <1>2, <3>1 DEF ReadTo
  <2>7. \E e \in f[0] : e.child = w.child /\ e.text = m
    BY <1>9, <2>1, <2>5, <2>6 DEF EndsFrom
  <2> QED
    BY <1>3, <1>7, <1>9, <2>7
<1> QED
  BY <1>7, <1>9

(* Re-rooting keeps the count and the knowledge of a turn the tree knew    *)
(* whose text is the move played, or nothing at all.                       *)
KeepsTurn(m) ==
  \E e \in TurnEnds[0] :
    /\ e.text = m
    /\ root_sim_count' = Child(e.child).sim_count
    /\ Knowledge[0]' = Knowledge[Child(e.child).index]
ForgetsAll == root_sim_count' = 0 /\ Knowledge[0]' = {}
KeepsOrForgets ==
  [][/\ root_state' # root_state /\ ~is_terminal(Node(0)) =>
          \E m \in Moves(root_state) : ReparentAlongMove(m)
     /\ \A m \in Moves(root_state) : pc = "idle" /\ ReparentAlongMove(m) =>
          root_state' = AfterMove(root_state, m) /\ (KeepsTurn(m) \/ ForgetsAll)]_vars

(* So does each re-rooting by a legal move: it forgets where the search    *)
(* for the move has failed.                                                *)
LEMMA ReparentKeeps ==
  ASSUME NEW rolled, NEW L, NEW pos, Inv(rolled, L, pos), pc = "idle",
         NEW m \in Moves(root_state), ReparentAlongMove(m)
  PROVE  /\ root_state' = AfterMove(root_state, m)
         /\ KeepsTurn(m) \/ (NodeBelow(Walk(m)) = 0 /\ ForgetsAll)
<1> DEFINE k == Walk(m)
           s == StateAfter(m)
           t == IF NodeBelow(k) = 0 THEN FreshTree(s) ELSE Rerooted(k, s)
<1>1. /\ Tree(nodes, children, L, root_state, pos)
      /\ Counted(nodes, children, L, root_sim_count, rolled)
      /\ Touched(nodes, children, L, Nobody)
      /\ root_state \in Nodal /\ root_state \in State
  BY AtIdle
<1>2. m # <<>> /\ s = AfterMove(root_state, m) /\ s \in Nodal /\ s \in State
  <2>1. m # <<>> /\ AfterMove(root_state, m) \in Nodal /\ AfterMove(root_state, m) \in State
    BY <1>1, MoveLeads
  <2> QED
    BY <2>1 DEF StateAfter
<1>3. /\ nodes' = t.nodes /\ children' = t.children /\ root_state' = s
      /\ root_sim_count' = IF NodeBelow(k) = 0 THEN 0 ELSE Child(k).sim_count
  BY DEF ReparentAlongMove
<1>4. Knowledge = KnowledgeOf(nodes, children) /\ Knowledge' = KnowledgeOf(nodes', children')
  BY DEF Knowledge, KnowledgeOf, KnowledgeStep, KnownBelow, KnownEdge, SeenIn, Visited, Nodes, Indices, BlockOf, Node, Child
<1> HIDE DEF s, t, k
<1>5. Knowledge[0]' = KnowledgeOf(t.nodes, t.children)[0]
  BY <1>3, <1>4
<1>6. CASE NodeBelow(k) = 0
  <2>1. t = FreshTree(s)
    BY <1>6 DEF t
  <2>2. Sound(t.nodes, t.children, s, 0, rolled)
    BY <1>2, <2>1, FreshTreeIs
  <2>3. BlockSims(t.children, t.nodes[1]) \in 0..0
    BY <2>2, SoundSims
  <2>4. BlockSims(t.children, t.nodes[1]) = 0
    BY <2>3
  <2>5. KnowledgeOf(t.nodes, t.children)[0] = {}
    BY <2>2, <2>4, NothingRemembered
  <2> QED
    BY <1>2, <1>3, <1>5, <1>6, <2>5 DEF ForgetsAll, k
<1>7. CASE NodeBelow(k) # 0
  <2>1. k # NoChild /\ t = Rerooted(k, s)
    BY <1>7 DEF NodeBelow, t
  <2>2. /\ \E p \in L : k \in BlockOf(nodes, p)
        /\ Child(k).index # 0
        /\ pos[Child(k).index] = s
    BY <1>1, <1>2, <2>1, WalkFinds DEF k
  <2>3. PICK p \in L : k \in BlockOf(nodes, p)
    BY <2>2
  <2>4. KnowledgeOf(Rerooted(k, s).nodes, Rerooted(k, s).children)[0] =
          KnowledgeOf(nodes, children)[Child(k).index]
    BY <1>1, <1>2, <2>2, <2>3, RerootedKnows
  <2>5. PICK e \in TurnEnds[0] : e.child = k /\ e.text = m
    BY <1>1, <2>1, WalkEndsTurn DEF k
  <2>6. Knowledge[0]' = Knowledge[Child(e.child).index]
    BY <1>4, <1>5, <2>1, <2>4, <2>5
  <2>7. root_sim_count' = Child(e.child).sim_count
    BY <1>3, <1>7, <2>5
  <2> QED
    BY <1>2, <1>3, <2>5, <2>6, <2>7 DEF KeepsTurn
<1> QED
  BY <1>6, <1>7

(* A step of the tree either leaves the state of the root or is such a     *)
(* re-rooting: an empty move leads nowhere.                                *)
LEMMA StepReparents ==
  ASSUME NEW rolled, NEW L, NEW pos, Inv(rolled, L, pos),
         SimulationStep \/ FinishSimulation \/ RollUp \/ OpponentMove \/ ChooseBestMove \/ ResetTree \/ UNCHANGED vars,
         root_state' # root_state, ~is_terminal(Node(0))
  PROVE  \E m \in Moves(root_state) : ReparentAlongMove(m)
<1>1. ~ (SimulationStep \/ FinishSimulation \/ RollUp \/ ResetTree \/ UNCHANGED vars)
  BY DEF SimulationStep, BeginSimulation, Descend, Expand, ScoreTerminal, RemoveDeadEnd, VisitChild, EndSimulation,
     FinishSimulation, RollUp, ResetTree, vars
<1>2. pc = "idle" /\ \E m \in Moves(root_state) : ReparentAlongMove(m)
  <2>1. CASE OpponentMove
    BY <2>1 DEF OpponentMove
  <2>2. CASE ChooseBestMove
    <3>1. PICK saved \in SavedPaths : \E m \in MovesFromPath(saved) : ReparentAlongMove(m)
      BY <2>2 DEF ChooseBestMove
    <3>2. PICK m \in MovesFromPath(saved) : ReparentAlongMove(m)
      BY <3>1
    <3>3. pc = "idle"
      BY <2>2 DEF ChooseBestMove
    <3>4. /\ Tree(nodes, children, L, root_state, pos) /\ Counted(nodes, children, L, root_sim_count, rolled)
          /\ root_state \in Nodal /\ root_state \in State
      BY <3>3, AtIdle
    <3>5. SavedFrom(L, root_state, saved)
      BY <3>1, <3>4, SavedPathsFit
    <3>6. m \in Moves(root_state) \cup {<<>>}
      BY <3>2, <3>4, <3>5, MovesFromPathLegal
    <3>7. m # <<>>
      BY <3>2 DEF ReparentAlongMove, StateAfter
    <3> QED
      BY <3>2, <3>3, <3>6, <3>7
  <2> QED
    BY <1>1, <2>1, <2>2
<1> QED
  BY <1>2

(* Whatever the search for the move played goes through, it never keeps    *)
(* anything of another move: for every game, with actions or semimoves for *)
(* edges, whole turns or single nodes.                                     *)
THEOREM SemisplitKeepsOrForgets == Spec => KeepsOrForgets
<1>1. SemisplitInv /\ [Next]_vars =>
        [/\ root_state' # root_state /\ ~is_terminal(Node(0)) =>
              \E m \in Moves(root_state) : ReparentAlongMove(m)
         /\ \A m \in Moves(root_state) : pc = "idle" /\ ReparentAlongMove(m) =>
              root_state' = AfterMove(root_state, m) /\ (KeepsTurn(m) \/ ForgetsAll)]_vars
  <2> SUFFICES ASSUME SemisplitInv, Next \/ UNCHANGED vars
               PROVE  /\ root_state' # root_state /\ ~is_terminal(Node(0)) =>
                           \E m \in Moves(root_state) : ReparentAlongMove(m)
                      /\ \A m \in Moves(root_state) : pc = "idle" /\ ReparentAlongMove(m) =>
                           root_state' = AfterMove(root_state, m) /\ (KeepsTurn(m) \/ ForgetsAll)
    OBVIOUS
  <2> DEFINE rolled == FALSE
  <2>1. PICK L, pos : Inv(rolled, L, pos)
    BY DEF SemisplitInv, IInv
  <2> HIDE DEF rolled
  <2> QED
    BY <2>1, StepReparents, ReparentKeeps DEF Next
<1> QED
  BY <1>1, SemisplitInvariant, PTL DEF Spec, KeepsOrForgets

(* Nor does it in a tree that rolls up, whose edges are joined and whose   *)
(* vectors hold blocks and nodes out of use.                               *)
THEOREM RollupKeepsOrForgets == RollupSpec => KeepsOrForgets
<1>1. RollupInv /\ [RollupNext]_vars =>
        [/\ root_state' # root_state /\ ~is_terminal(Node(0)) =>
              \E m \in Moves(root_state) : ReparentAlongMove(m)
         /\ \A m \in Moves(root_state) : pc = "idle" /\ ReparentAlongMove(m) =>
              root_state' = AfterMove(root_state, m) /\ (KeepsTurn(m) \/ ForgetsAll)]_vars
  <2> SUFFICES ASSUME RollupInv, RollupNext \/ UNCHANGED vars
               PROVE  /\ root_state' # root_state /\ ~is_terminal(Node(0)) =>
                           \E m \in Moves(root_state) : ReparentAlongMove(m)
                      /\ \A m \in Moves(root_state) : pc = "idle" /\ ReparentAlongMove(m) =>
                           root_state' = AfterMove(root_state, m) /\ (KeepsTurn(m) \/ ForgetsAll)
    OBVIOUS
  <2> DEFINE rolled == TRUE
  <2>1. PICK L, pos : Inv(rolled, L, pos)
    BY DEF RollupInv, IInv
  <2> HIDE DEF rolled
  <2> QED
    BY <2>1, StepReparents, ReparentKeeps DEF RollupNext, FinishRollup
<1> QED
  BY <1>1, RollupInvariant, PTL DEF RollupSpec, KeepsOrForgets

-----------------------------------------------------------------------------
(* Where the search for the move played never fails.                       *)

(* The actions of two texts joined. *)
LEMMA JoinTexts ==
  ASSUME NEW x \in Seq(Action), NEW y \in Seq(Action)
  PROVE  /\ x \o y \in Seq(Action) /\ Len(x \o y) = Len(x) + Len(y)
         /\ \A k \in 1..Len(x) : (x \o y)[k] = x[k]
         /\ \A k \in 1..Len(y) : (x \o y)[Len(x) + k] = y[k]
BY JoinParts

(* What comes after the same beginning is the same. *)
LEMMA LeftCancel ==
  ASSUME NEW x \in Seq(Action), NEW y \in Seq(Action), NEW z \in Seq(Action), x \o y = x \o z
  PROVE  y = z
<1>1. /\ Len(x \o y) = Len(x) + Len(y) /\ \A k \in 1..Len(y) : (x \o y)[Len(x) + k] = y[k]
      /\ Len(x \o z) = Len(x) + Len(z) /\ \A k \in 1..Len(z) : (x \o z)[Len(x) + k] = z[k]
  BY JoinParts
<1>2. Len(x) \in Nat /\ Len(y) \in Nat /\ Len(z) \in Nat
  OBVIOUS
<1> DEFINE v == x \o y
           w == x \o z
<1>3. v = w
  OBVIOUS
<1> HIDE DEF v, w
<1>4. Len(y) = Len(z)
  BY <1>1, <1>2, <1>3 DEF v, w
<1>5. \A k \in 1..Len(y) : y[k] = z[k]
  BY <1>1, <1>3, <1>4 DEF v, w
<1> QED
  BY <1>4, <1>5

(* A text is what was read and what is left of it. *)
RestOf(m, i) == SubSeq(m, i, Len(m))
(* Both together are the text, wherever it is split. *)
LEMMA SplitAt ==
  ASSUME NEW m \in Seq(Action), NEW i \in 1..(Len(m) + 1)
  PROVE  ReadTo(m, i) \in Seq(Action) /\ RestOf(m, i) \in Seq(Action) /\ ReadTo(m, i) \o RestOf(m, i) = m
<1> DEFINE x == ReadTo(m, i)
           y == RestOf(m, i)
           l == Len(m)
<1>1. l \in Nat /\ i \in Nat /\ 1 <= i /\ i <= l + 1
  OBVIOUS
<1>2. x \in Seq(Action) /\ Len(x) = i - 1 /\ \A k \in 1..(i - 1) : x[k] = m[k]
  BY <1>1 DEF ReadTo
<1>3. y \in Seq(Action) /\ Len(y) = (l - i) + 1 /\ \A k \in 1..((l - i) + 1) : y[k] = m[(i + k) - 1]
  BY <1>1 DEF RestOf
<1> HIDE DEF x, y
<1>4. /\ x \o y \in Seq(Action) /\ Len(x \o y) = Len(x) + Len(y)
      /\ \A k \in 1..Len(x) : (x \o y)[k] = x[k]
      /\ \A k \in 1..Len(y) : (x \o y)[Len(x) + k] = y[k]
  <2>1. x \in Seq(Action) /\ y \in Seq(Action)
    BY <1>2, <1>3
  <2> HIDE DEF l
  <2> QED
    BY <2>1, JoinParts
<1> DEFINE z == x \o y
<1>5. z \in Seq(Action) /\ Len(z) = l
  BY <1>1, <1>2, <1>3, <1>4
<1>6. \A k \in 1..l : z[k] = m[k]
  <2> TAKE k \in 1..l
  <2>1. CASE k <= i - 1
    BY <1>1, <1>2, <1>4, <2>1
  <2>2. CASE ~(k <= i - 1)
    <3>1. k - (i - 1) \in 1..((l - i) + 1) /\ (i - 1) + (k - (i - 1)) = k /\ (i + (k - (i - 1))) - 1 = k
      BY <1>1, <2>2
    <3>2. y[k - (i - 1)] = m[k]
      BY <1>3, <3>1
    <3>3. (x \o y)[(i - 1) + (k - (i - 1))] = y[k - (i - 1)]
      BY <1>2, <1>3, <1>4, <3>1
    <3> QED
      BY <3>1, <3>2, <3>3
  <2> QED
    BY <2>1, <2>2
<1> HIDE DEF z
<1>7. z = m
  BY <1>5, <1>6
<1> QED
  BY <1>2, <1>3, <1>7 DEF x, y, z

(* Before its end something is left. *)
LEMMA SomeLeft ==
  ASSUME NEW m \in Seq(Action), NEW i \in 1..Len(m)
  PROVE  RestOf(m, i) # <<>>
<1> DEFINE l == Len(m)
           y == RestOf(m, i)
<1>1. l \in Nat /\ i \in Nat /\ 1 <= i /\ i <= l
  OBVIOUS
<1>2. y \in Seq(Action) /\ Len(y) = (l - i) + 1 /\ \A k \in 1..((l - i) + 1) : y[k] = m[(i + k) - 1]
  BY <1>1 DEF RestOf
<1> HIDE DEF l, y
<1>3. Len(y) # 0
  BY <1>1, <1>2
<1>4. Len(<<>>) = 0
  OBVIOUS
<1>5. y # <<>>
  BY <1>3, <1>4
<1> QED
  BY <1>5 DEF y

(* A beginning of what is left leaves the rest after it. *)
LEMMA RestAfter ==
  ASSUME NEW m \in Seq(Action), NEW i \in 1..Len(m), NEW e \in Seq(Action), IsPrefix(e, RestOf(m, i))
  PROVE  i + Len(e) \in 1..(Len(m) + 1) /\ RestOf(m, i) = e \o RestOf(m, i + Len(e))
<1> DEFINE j == i + Len(e)
           x == ReadTo(m, i)
           y == RestOf(m, i)
           z == RestOf(m, j)
<1>1. j \in 1..(Len(m) + 1) /\ x \o e = ReadTo(m, j)
  BY ReadOn DEF RestOf
<1>2. i \in 1..(Len(m) + 1)
  OBVIOUS
<1>3. x \in Seq(Action) /\ y \in Seq(Action) /\ x \o y = m
  BY <1>2, SplitAt
<1>4. ReadTo(m, j) \in Seq(Action) /\ z \in Seq(Action) /\ ReadTo(m, j) \o z = m
  BY <1>1, SplitAt
<1> HIDE DEF x, y, z
<1>5. (x \o e) \o z = x \o (e \o z)
  <2>1. x \in Seq(Action) /\ e \in Seq(Action) /\ z \in Seq(Action)
    BY <1>3, <1>4
  <2> HIDE DEF j
  <2> QED
    BY <2>1
<1>6. x \o y = x \o (e \o z)
  BY <1>1, <1>3, <1>4, <1>5
<1>7. e \o z \in Seq(Action)
  BY <1>4
<1>8. y = e \o z
  BY <1>3, <1>6, <1>7, LeftCancel
<1> QED
  BY <1>1, <1>8 DEF y, z

(* A text begins with what it is continued from. *)
LEMMA PrefixOfJoin ==
  ASSUME NEW x \in Seq(Action), NEW y \in Seq(Action)
  PROVE  IsPrefix(x, x \o y)
<1>1. /\ x \o y \in Seq(Action) /\ Len(x \o y) = Len(x) + Len(y)
      /\ \A k \in 1..Len(x) : (x \o y)[k] = x[k]
  BY JoinParts
<1> DEFINE z == x \o y
<1>2. z \in Seq(Action) /\ Len(z) \in Nat /\ Len(x) \in Nat /\ Len(y) \in Nat /\ Len(z) = Len(x) + Len(y)
      /\ \A k \in 1..Len(x) : z[k] = x[k]
  BY <1>1
<1> HIDE DEF z
<1>3. Len(x) <= Len(z)
  BY <1>2
<1>4. SubSeq(x, 1, Len(x)) = SubSeq(z, 1, Len(x))
  BY <1>2, <1>3
<1> QED
  BY <1>3, <1>4 DEF IsPrefix, z

(* A text, split in two ways; and once more where it begins with one action. *)
SplitTwice(x, y, u, v) == x \o y = u \o v
SplitAgain(one, x, u, v) == \E t \in Seq(Action) : u = one \o t /\ x = t \o v
(* A text that begins with one action, split anywhere. *)
LEMMA SplitAfterOne ==
  ASSUME NEW one \in Seq(Action), Len(one) = 1,
         NEW x \in Seq(Action), NEW u \in Seq(Action), NEW v \in Seq(Action),
         u # <<>>, SplitTwice(one, x, u, v)
  PROVE  SplitAgain(one, x, u, v)
<1> DEFINE t == Tail(u)
           a == one[1]
<1>1. one \in Seq(Action) /\ Len(one) = 1 /\ one[1] = a
  OBVIOUS
<1>2. t \in Seq(Action) /\ Len(t) = Len(u) - 1 /\ Len(u) \in Nat \ {0} /\ \A k \in 1..Len(t) : t[k] = u[k + 1]
  OBVIOUS
<1>3. one \o x = u \o v
  BY DEF SplitTwice
<1> HIDE DEF a, t
<1>4. u[1] = a
  <2>1. \A k \in 1..Len(one) : (one \o x)[k] = one[k]
    BY JoinParts
  <2>2. \A k \in 1..Len(u) : (u \o v)[k] = u[k]
    BY JoinParts
  <2> DEFINE y == one \o x
             w == u \o v
  <2>3. y = w
    BY <1>3
  <2> HIDE DEF y, w
  <2>4. y[1] = a
    <3>1. 1 \in 1..Len(one)
      BY <1>1
    <3>2. (one \o x)[1] = one[1]
      BY <2>1, <3>1
    <3> QED
      BY <1>1, <3>2 DEF y
  <2>5. w[1] = u[1]
    <3>1. 1 \in 1..Len(u)
      BY <1>2
    <3>2. (u \o v)[1] = u[1]
      BY <2>2, <3>1
    <3> QED
      BY <3>2 DEF w
  <2> QED
    BY <2>3, <2>4, <2>5
<1>5. u = one \o t
  <2>1. /\ one \o t \in Seq(Action) /\ Len(one \o t) = Len(one) + Len(t)
        /\ \A k \in 1..Len(one) : (one \o t)[k] = one[k]
        /\ \A k \in 1..Len(t) : (one \o t)[Len(one) + k] = t[k]
    <3>1. t \in Seq(Action)
      BY <1>2
    <3>2. \A z \in Seq(Action) :
            /\ one \o z \in Seq(Action) /\ Len(one \o z) = Len(one) + Len(z)
            /\ \A k \in 1..Len(one) : (one \o z)[k] = one[k]
            /\ \A k \in 1..Len(z) : (one \o z)[Len(one) + k] = z[k]
      BY JoinTexts
    <3> QED
      BY <3>1, <3>2
  <2> DEFINE p == one \o t
  <2>2. p \in Seq(Action) /\ Len(p) = Len(u) /\ p[1] = a /\ \A k \in 1..Len(t) : p[1 + k] = t[k]
    BY <1>1, <1>2, <2>1
  <2> HIDE DEF p
  <2>3. \A k \in 1..Len(u) : p[k] = u[k]
    <3> TAKE k \in 1..Len(u)
    <3>1. CASE k = 1
      BY <1>4, <2>2, <3>1
    <3>2. CASE k # 1
      <4>1. k - 1 \in 1..Len(t) /\ 1 + (k - 1) = k /\ (k - 1) + 1 = k
        BY <1>2, <3>2
      <4>2. p[1 + (k - 1)] = t[k - 1] /\ t[k - 1] = u[(k - 1) + 1]
        BY <1>2, <2>2, <4>1
      <4> QED
        BY <4>1, <4>2
    <3> QED
      BY <3>1, <3>2
  <2>4. p = u
    BY <1>2, <2>2, <2>3
  <2> QED
    BY <2>4 DEF p
<1>6. x = t \o v
  <2>1. (one \o t) \o v = one \o (t \o v)
    <3>1. one \in Seq(Action) /\ t \in Seq(Action) /\ v \in Seq(Action)
      BY <1>1, <1>2
    <3> QED
      BY <3>1
  <2>2. one \o x = one \o (t \o v) /\ t \o v \in Seq(Action)
    BY <1>2, <1>3, <1>5, <2>1
  <2> QED
    BY <1>1, <2>2, LeftCancel
<1> QED
  BY <1>2, <1>5, <1>6 DEF SplitAgain

(* A single action: a dot, of which nothing is written, or written as it is. *)
LEMMA OneAction ==
  ASSUME NEW e \in Seq(Action), Len(e) = 1
  PROVE  \/ e[1] \in Dot /\ Written(e) = <<>>
         \/ e[1] \notin Dot /\ e[1] \in Action /\ e = <<e[1]>> /\ Written(e) = e
<1>1. e = Append(<<>>, e[1]) /\ e[1] \in Action /\ <<>> \in Seq(Action) /\ e = <<e[1]>>
  OBVIOUS
<1>2. Written(Append(<<>>, e[1])) = IF e[1] \in Dot THEN Written(<<>>) ELSE Append(Written(<<>>), e[1])
  BY <1>1, WrittenAppend
<1> QED
  BY <1>1, <1>2, WrittenEmpty

(* A way to the text u from s, after which a turn may go on with v; that   *)
(* there is one wherever u and v make up a move.                           *)
WayTo(s, u, v) == \E r \in Reachable[s] : r.actions = u /\ v \in Rests(r.state)
Begins(s) ==
  \A q \in Reachable[s] : q.state \in Nodal =>
    \A u, v \in Seq(Action) : u # <<>> /\ Written(q.actions) = u \o v => WayTo(s, u, v)
(* Of edges that are actions, every beginning of a move is such a way.     *)
LEMMA Beginnings ==
  ASSUME GETTER = "A"
  PROVE  \A s \in State : Begins(s)
<1> DEFINE T == {d \in Nat : \A s \in State : Depth[s] = d => Begins(s)}
<1>1. ASSUME NEW d \in Nat, \A k \in 0..(d - 1) : k \in T
      PROVE  d \in T
  <2> SUFFICES ASSUME NEW s \in State, Depth[s] = d, NEW q \in Reachable[s], q.state \in Nodal,
                      NEW u \in Seq(Action), NEW v \in Seq(Action), u # <<>>, Written(q.actions) = u \o v
               PROVE  WayTo(s, u, v)
    BY DEF Begins
  <2>1. PICK e \in Semimoves[s] :
              \/ q = One(s, e)
              \/ Successor[s][e] \notin Nodal /\ \E p \in Reachable[Successor[s][e]] : q = Before(e, p)
    BY ReachableCases
  <2> DEFINE t == Successor[s][e]
  <2>2. /\ e \in Seq(Action) /\ t \in State /\ (t \in Nodal => Last(e) \notin Dot)
        /\ (t \notin Nodal => Depth[t] < Depth[s]) /\ Len(e) = 1 /\ Last(e) = e[1]
    <3>1. e \in Seq(Action) /\ t \in State /\ (t \in Nodal => Last(e) \notin Dot) /\ (t \notin Nodal => Depth[t] < Depth[s])
      BY SemimoveFacts
    <3>2. Len(e) = 1
      BY SemisplitAssumption
    <3> QED
      BY <3>1, <3>2 DEF Last
  <2> DEFINE a == e[1]
  <2>3. \/ a \in Dot /\ Written(e) = <<>>
        \/ a \notin Dot /\ a \in Action /\ e = <<a>> /\ Written(e) = e
    BY <2>2, OneAction
  <2>20. Last(e) = a
    BY <2>2
  <2> HIDE DEF a
  <2>4. One(s, e) \in Reachable[s] /\ One(s, e).actions = e /\ One(s, e).state = t
    BY ReachableCases DEF One
  <2>5. CASE q = One(s, e)
    <3>1. t \in Nodal /\ Written(e) = e /\ a \in Action /\ e = <<a>>
      BY <2>2, <2>3, <2>4, <2>5, <2>20
    <3>2. e = u \o v
      BY <2>4, <2>5, <3>1
    <3>3. e \o <<>> = u \o v /\ <<>> \in Seq(Action)
      <4>1. e \o <<>> = e
        BY <2>2
      <4> QED
        BY <3>2, <4>1
    <3>4. PICK w \in Seq(Action) : u = e \o w /\ <<>> = w \o v
      <4>1. SplitTwice(e, <<>>, u, v)
        BY <3>3 DEF SplitTwice
      <4>2. SplitAgain(e, <<>>, u, v)
        BY <2>2, <3>3, <4>1, SplitAfterOne
      <4> QED
        BY <4>2 DEF SplitAgain
    <3>5. w = <<>> /\ v = <<>>
      <4>1. Len(w \o v) = Len(w) + Len(v) /\ Len(<<>>) = 0
        BY JoinParts
      <4> DEFINE y == w \o v
      <4>3. y = <<>> /\ Len(y) = Len(w) + Len(v)
        <5>1. y = <<>>
          BY <3>4
        <5>2. Len(y) = Len(w) + Len(v)
          BY <4>1
        <5> QED
          BY <5>1, <5>2
      <4>4. Len(w) \in Nat /\ Len(v) \in Nat
        OBVIOUS
      <4> HIDE DEF y
      <4>2. Len(w) = 0 /\ Len(v) = 0
        BY <4>1, <4>3, <4>4
      <4> QED
        BY <4>2
    <3>6. u = e
      BY <2>2, <3>4, <3>5
    <3>7. v \in Rests(t)
      BY <3>1, <3>5 DEF Rests
    <3> QED
      BY <2>4, <3>6, <3>7 DEF WayTo
  <2>6. CASE t \notin Nodal /\ \E p \in Reachable[t] : q = Before(e, p)
    <3>1. PICK p \in Reachable[t] : q = Before(e, p)
      BY <2>6
    <3>2. q.actions = Written(e) \o p.actions /\ p.state = q.state
      BY <3>1 DEF Before
    <3>3. p.state \in Nodal /\ p.actions \in Seq(Action)
      BY <2>2, <3>2, ReachableFacts DEF WellFormed, DotLast
    <3>4. Depth[t] \in 0..(d - 1)
      BY <2>2, <2>6, DepthNat
    <3>5. Begins(t)
      BY <1>1, <2>2, <3>4
    <3>6. \A r \in Reachable[t] : Before(e, r) \in Reachable[s] /\ Before(e, r).state = r.state
                                  /\ Before(e, r).actions = Written(e) \o r.actions
      BY <2>6, ReachableCases DEF Before
    <3>7. CASE a \in Dot /\ Written(e) = <<>>
      <4>1. <<>> \o p.actions = p.actions
        BY <3>3
      <4>2. Written(p.actions) = u \o v
        BY <3>2, <3>7, <4>1
      <4>3. PICK r \in Reachable[t] : r.actions = u /\ v \in Rests(r.state)
        BY <3>1, <3>3, <3>5, <4>2 DEF Begins, WayTo
      <4>4. <<>> \o u = u
        OBVIOUS
      <4> QED
        BY <3>6, <3>7, <4>3, <4>4 DEF WayTo
    <3>8. CASE a \notin Dot /\ a \in Action /\ e = <<a>> /\ Written(e) = e
      <4> DEFINE x == Written(p.actions)
      <4>1. x \in Seq(Action) /\ x \in Rests(t)
        BY <2>6, <3>3, WrittenSeq DEF Rests, Moves
      <4>2. Written(q.actions) = e \o x
        <5>1. Written(e \o p.actions) = Written(e) \o Written(p.actions)
          BY <2>2, <3>3, WrittenConcat
        <5> QED
          BY <3>2, <3>8, <5>1
      <4> HIDE DEF x
      <4>3. e \o x = u \o v
        BY <4>2
      <4>4. PICK w \in Seq(Action) : u = e \o w /\ x = w \o v
        <5>1. SplitTwice(e, x, u, v)
          BY <4>3 DEF SplitTwice
        <5>2. SplitAgain(e, x, u, v)
          BY <2>2, <4>1, <5>1, SplitAfterOne
        <5> QED
          BY <5>2 DEF SplitAgain
      <4>5. CASE w = <<>>
        <5>1. u = e /\ x = v
          BY <2>2, <3>8, <4>4, <4>5
        <5> QED
          BY <2>4, <4>1, <5>1 DEF WayTo
      <4>6. CASE w # <<>>
        <5>1. PICK r \in Reachable[t] : r.actions = w /\ v \in Rests(r.state)
          BY <3>1, <3>3, <3>5, <4>4, <4>6 DEF x, Begins, WayTo
        <5> QED
          BY <3>6, <3>8, <4>4, <5>1 DEF WayTo
      <4> QED
        BY <4>5, <4>6
    <3> QED
      BY <2>3, <3>7, <3>8
  <2> QED
    BY <2>1, <2>5, <2>6
<1> HIDE DEF T
<1>2. \A d \in Nat : d \in T
  BY <1>1, StrongInduction
<1>3. \A s \in State : Depth[s] \in T
  BY <1>2, DepthNat
<1> QED
  BY <1>3 DEF T

(* With actions for edges every game is telling: actions tell apart all    *)
(* ways through a turn.                                                    *)
LEMMA ActionsTelling ==
  ASSUME GETTER = "A"
  PROVE  Telling
<1> SUFFICES ASSUME NEW s \in Nodal, NEW r \in Reachable[s], NEW m \in Moves(s), IsPrefix(r.actions, m)
             PROVE  \E z \in Rests(r.state) : m = r.actions \o z
  BY DEF Telling
<1>1. s \in State
  BY SplitGameAssumption
<1>2. PICK q \in Reachable[s] : q.state \in Nodal /\ m = Written(q.actions)
  BY DEF Moves
<1>3. r.actions \in Seq(Action) /\ r.actions # <<>>
  BY <1>1, ReachableFacts DEF WellFormed, DotLast
<1>4. m \in Seq(Action)
  BY <1>1, MovesSeq
<1>5. PICK z \in Seq(Action) : m = r.actions \o z
  <2>1. Len(m) \in Nat \ {0} /\ 1 \in 1..Len(m) /\ RestOf(m, 1) = m
    <3>1. m # <<>>
      BY <1>1, MovesSeq
    <3> QED
      BY <1>4, <3>1 DEF RestOf
  <2>2. /\ 1 + Len(r.actions) \in 1..(Len(m) + 1)
        /\ RestOf(m, 1) = r.actions \o RestOf(m, 1 + Len(r.actions))
    BY <1>3, <1>4, <2>1, RestAfter
  <2> QED
    BY <1>4, <2>1, <2>2, SplitAt
<1>6. PICK p \in Reachable[s] : p.actions = r.actions /\ z \in Rests(p.state)
  <2> DEFINE u == r.actions
  <2>1. Begins(s)
    BY <1>1, Beginnings
  <2>2. u \in Seq(Action) /\ u # <<>> /\ Written(q.actions) = u \o z
    BY <1>2, <1>3, <1>5
  <2> HIDE DEF u
  <2>3. WayTo(s, u, z)
    BY <1>2, <2>1, <2>2 DEF Begins
  <2> QED
    BY <2>3 DEF WayTo, u
<1>7. p = r
  BY <1>1, <1>6, ActionsTell
<1> QED
  BY <1>5, <1>6, <1>7

(* The semimoves of a game stop at split points only, or where a move      *)
(* ends; and so do its ways through a turn.                                *)
StopsAtDots == \A s \in State : \A e \in Semimoves[s] : Successor[s][e] \in Nodal \/ Last(e) \in Dot
WaysStop(s) == \A r \in Reachable[s] : r.state \in Nodal \/ Last(r.actions) \in Dot
(* The ways are made of semimoves, and each ends like its last one.        *)
LEMMA WaysStopAtDots ==
  ASSUME StopsAtDots
  PROVE  \A s \in State : WaysStop(s)
<1> DEFINE T == {d \in Nat : \A s \in State : Depth[s] = d => WaysStop(s)}
<1>1. ASSUME NEW d \in Nat, \A k \in 0..(d - 1) : k \in T
      PROVE  d \in T
  <2> SUFFICES ASSUME NEW s \in State, Depth[s] = d, NEW r \in Reachable[s], r.state \notin Nodal
               PROVE  Last(r.actions) \in Dot
    BY DEF WaysStop
  <2>1. PICK e \in Semimoves[s] :
              \/ r = One(s, e)
              \/ Successor[s][e] \notin Nodal /\ \E q \in Reachable[Successor[s][e]] : r = Before(e, q)
    BY ReachableCases
  <2>2. CASE r = One(s, e)
    BY <2>2 DEF One, StopsAtDots
  <2>3. CASE Successor[s][e] \notin Nodal /\ \E q \in Reachable[Successor[s][e]] : r = Before(e, q)
    <3> DEFINE t == Successor[s][e]
    <3>1. PICK q \in Reachable[t] : r = Before(e, q)
      BY <2>3
    <3>2. t \in State /\ Depth[t] \in 0..(d - 1) /\ e \in Seq(Action)
      BY <2>3, SemimoveFacts, DepthNat
    <3>3. Depth[t] \in T
      BY <1>1, <3>2
    <3>4. WaysStop(t)
      BY <3>2, <3>3
    <3>5. r.actions = Written(e) \o q.actions /\ r.state = q.state
      BY <3>1 DEF Before
    <3>6. Last(q.actions) \in Dot
      BY <3>1, <3>4, <3>5 DEF WaysStop
    <3>7. DotLast(q.actions)
      BY <3>2, ReachableFacts DEF WellFormed
    <3>8. Written(e) \in Seq(Action) /\ NoDots(Written(e))
      BY <3>2, WrittenSeq, NoneWritten
    <3>9. Last(Written(e) \o q.actions) = Last(q.actions)
      BY <3>7, <3>8, DotLastConcat
    <3> QED
      BY <3>5, <3>6, <3>9
  <2> QED
    BY <2>1, <2>2, <2>3
<1> HIDE DEF T
<1>2. \A d \in Nat : d \in T
  BY <1>1, StrongInduction
<1>3. \A s \in State : Depth[s] \in T
  BY <1>2, DepthNat
<1> QED
  BY <1>3 DEF T

(* Such a game is telling, too: a way that stops within a turn ends in a   *)
(* dot, and no move holds one.                                             *)
LEMMA SplitsTelling ==
  ASSUME StopsAtDots
  PROVE  Telling
<1> SUFFICES ASSUME NEW s \in Nodal, NEW r \in Reachable[s], NEW m \in Moves(s), IsPrefix(r.actions, m)
             PROVE  \E z \in Rests(r.state) : m = r.actions \o z
  BY DEF Telling
<1> DEFINE u == r.actions
           l == Len(u)
<1>1. s \in State
  BY SplitGameAssumption
<1>2. PICK q \in Reachable[s] : q.state \in Nodal /\ q.actions = m
  BY <1>1, MoveLeads DEF Leads
<1>3. m \in Seq(Action) /\ NoDots(m) /\ Written(q.actions) = m
  BY <1>1, <1>2, MoveLeads, NodalWritten
<1>4. u \in Seq(Action) /\ u # <<>>
  BY <1>1, ReachableFacts DEF WellFormed, DotLast
<1>5. l \in Nat \ {0} /\ l <= Len(m) /\ Len(m) \in Nat /\ u[l] = m[l] /\ Last(u) = u[l]
  <2>1. l \in Nat \ {0} /\ Len(m) \in Nat /\ Last(u) = u[l]
    BY <1>3, <1>4 DEF Last
  <2>2. l <= Len(m) /\ SubSeq(u, 1, l) = SubSeq(m, 1, l)
    BY DEF IsPrefix
  <2>3. \A k \in 1..l : SubSeq(u, 1, l)[k] = u[k]
    BY <1>4, <2>1
  <2>4. \A k \in 1..l : SubSeq(m, 1, l)[k] = m[k]
    BY <1>3, <2>1, <2>2
  <2>5. l \in 1..l
    BY <2>1
  <2> HIDE DEF l, u
  <2> QED
    BY <2>1, <2>2, <2>3, <2>4, <2>5
<1>6. r.state \in Nodal
  <2> SUFFICES ASSUME r.state \notin Nodal PROVE FALSE
    OBVIOUS
  <2>1. Last(u) \in Dot
    BY <1>1, WaysStopAtDots DEF WaysStop
  <2>2. l \in 1..Len(m)
    BY <1>5
  <2> QED
    BY <1>3, <1>5, <2>1, <2>2 DEF NoDots
<1>7. Written(u) = u
  BY <1>1, <1>6, NodalWritten
<1>8. u = m
  <2>1. ~IsStrictPrefix(u, m)
    BY <1>1, <1>2, <1>3, <1>6, <1>7, SplitGameAssumption
  <2> HIDE DEF u
  <2> QED
    BY <2>1 DEF IsStrictPrefix, u
<1>9. u \o <<>> = m /\ <<>> \in Rests(r.state)
  <2>1. u \o <<>> = u
    BY <1>4
  <2> QED
    BY <1>6, <1>8, <2>1 DEF Rests
<1> QED
  BY <1>9

(* The least of some numbers is none greater than any. *)
LEMMA MinLeast ==
  ASSUME NEW T, T \subseteq Nat, T # {}
  PROVE  Min(T) \in T /\ \A y \in T : Min(T) <= y
<1>1. \E x \in T : \A y \in T : x <= y
  BY LeastNat
<1> QED
  BY <1>1 DEF Min

(* The children seen, and what they stand for. *)
LEMMA ChildStands ==
  ASSUME NEW L, NEW pos, Tree(nodes, children, L, root_state, pos), NEW n \in L, NEW k \in BlockOf(nodes, n)
  PROVE  /\ k \in Indices(children) /\ k \in Nat /\ Child(k) = children[k + 1]
         /\ Child(k).semimove \in Seq(Action)
         /\ is_expanded(Node(n)) /\ n \in Indices(nodes) /\ n \in Nat /\ pos[n] \in State
         /\ \E t \in State : /\ Leads(pos[n], Child(k).semimove, t)
                             /\ (Child(k).index # 0 =>
                                   /\ pos[Child(k).index] = t /\ Child(k).index \in L /\ n < Child(k).index
                                   /\ Child(k).index \in Indices(nodes)
                                   /\ (Node(Child(k).index).is_nodal <=> t \in Nodal))
<1>1. Vectors(nodes, children) /\ Links(nodes, children, L) /\ Stands(nodes, children, L, root_state, pos)
      /\ Statuses(nodes, L, pos)
  BY DEF Tree
<1>2. /\ n \in Indices(nodes) /\ n \in Nat /\ k \in Indices(children)
      /\ (children[k + 1].index # 0 => children[k + 1].index \in L /\ n < children[k + 1].index)
  BY <1>1, LinkFacts
<1>3. k \in Nat /\ children[k + 1].semimove \in Seq(Action) /\ is_expanded(nodes[n + 1])
  BY <1>1, <1>2, VectorFacts
<1>4. pos[n] \in State /\ Fits(pos, pos[n], children[k + 1])
  BY <1>1 DEF Stands
<1>5. Child(k) = children[k + 1] /\ Node(n) = nodes[n + 1]
  BY DEF Child, Node
<1>6. \A i \in L : i \in Indices(nodes) /\ (Node(i).is_nodal <=> pos[i] \in Nodal)
  BY <1>1, LinkFacts DEF Statuses, Node
<1> QED
  BY <1>2, <1>3, <1>4, <1>5, <1>6 DEF Fits

(* A turn known to end below a child is one of the moves through it. *)
LEMMA EndMovesAt ==
  ASSUME NEW L, NEW pos, Tree(nodes, children, L, root_state, pos), NEW f,
         NEW n \in L, NEW k \in BlockOf(nodes, n), Child(k).index # 0,
         \A y \in f[Child(k).index] : y.text \in Moves(pos[Child(k).index])
  PROVE  \A x \in EndsAt(nodes, children, f, k) : x.text \in Through(pos[n], Child(k).semimove)
<1> DEFINE e == Child(k).semimove
           next == Child(k).index
<1>1. PICK t \in State : /\ Leads(pos[n], e, t) /\ pos[next] = t /\ (Node(next).is_nodal <=> t \in Nodal)
  BY ChildStands
<1>2. e \in Seq(Action) /\ Written(e) \in Seq(Action) /\ pos[n] \in State
  BY ChildStands, WrittenSeq
<1>3. EndsAt(nodes, children, f, k) =
        IF Node(next).is_nodal THEN {[text |-> Written(e), child |-> k, hidden |-> Hides(e)]}
        ELSE {[text |-> Written(e) \o x.text, child |-> x.child, hidden |-> Hides(e) \/ x.hidden] : x \in f[next]}
  BY DEF EndsAt, Child, Node
<1>4. \A y \in f[next] : y.text \in Moves(t)
  BY <1>1
<1> HIDE DEF e, next
<1>5. Through(pos[n], e) = {Written(e) \o x : x \in Rests(t)}
  BY <1>1, <1>2, ThroughIs
<1>6. CASE t \in Nodal
  <2>1. <<>> \in Rests(t) /\ Written(e) \o <<>> = Written(e)
    BY <1>2, <1>6 DEF Rests
  <2>2. Written(e) \in Through(pos[n], e)
    BY <1>5, <2>1
  <2>3. EndsAt(nodes, children, f, k) = {[text |-> Written(e), child |-> k, hidden |-> Hides(e)]}
    BY <1>1, <1>3, <1>6
  <2> SUFFICES ASSUME NEW x \in EndsAt(nodes, children, f, k) PROVE x.text \in Through(pos[n], e)
    BY DEF e
  <2>4. x.text = Written(e)
    BY <2>3
  <2> QED
    BY <2>2, <2>4
<1>7. CASE t \notin Nodal
  <2>1. Rests(t) = Moves(t)
    BY <1>7 DEF Rests
  <2>2. EndsAt(nodes, children, f, k) =
          {[text |-> Written(e) \o x.text, child |-> x.child, hidden |-> Hides(e) \/ x.hidden] : x \in f[next]}
    BY <1>1, <1>3, <1>7
  <2> SUFFICES ASSUME NEW x \in EndsAt(nodes, children, f, k) PROVE x.text \in Through(pos[n], e)
    BY DEF e
  <2>3. PICK y \in f[next] : x.text = Written(e) \o y.text
    BY <2>2
  <2> QED
    BY <1>4, <1>5, <2>1, <2>3
<1> QED
  BY <1>6, <1>7 DEF e

(* So are those known below a node the moves of its state. *)
LEMMA EndMoves ==
  ASSUME NEW L, NEW pos, Tree(nodes, children, L, root_state, pos), NEW f, EndsStep(nodes, children, f)
  PROVE  \A n \in L : \A x \in f[n] : x.text \in Moves(pos[n])
<1> DEFINE P == {n \in Indices(nodes) : n \in L => \A x \in f[n] : x.text \in Moves(pos[n])}
<1>1. ASSUME NEW n \in Indices(nodes), \A i \in Indices(nodes) : n < i => i \in P
      PROVE  n \in P
  <2> SUFFICES ASSUME n \in L, NEW x \in f[n] PROVE x.text \in Moves(pos[n])
    OBVIOUS
  <2>1. f[n] = EndsBelow(nodes, children, f, n)
    BY DEF EndsStep
  <2>2. PICK k \in SeenIn(nodes, children, n) : x \in EndsAt(nodes, children, f, k)
    BY <2>1 DEF EndsBelow
  <2>3. k \in BlockOf(nodes, n) /\ Child(k).index # 0
    BY DEF SeenIn, Child
  <2>4. PICK t \in State : /\ Leads(pos[n], Child(k).semimove, t)
                           /\ Child(k).index \in L /\ n < Child(k).index /\ Child(k).index \in Indices(nodes)
    BY <2>3, ChildStands
  <2>5. \A y \in f[Child(k).index] : y.text \in Moves(pos[Child(k).index])
    BY <1>1, <2>4
  <2>6. x.text \in Through(pos[n], Child(k).semimove) /\ pos[n] \in State
    BY <2>2, <2>3, <2>5, EndMovesAt, ChildStands
  <2> QED
    BY <2>4, <2>6, ThroughIs
<1>2. Len(nodes) \in Nat /\ L \subseteq Indices(nodes)
  BY VectorFacts DEF Tree, Links
<1> HIDE DEF P
<1>3. \A n \in Indices(nodes) : n \in P
  BY <1>1, <1>2, YoungestFirst
<1> QED
  BY <1>2, <1>3 DEF P

(* What is left of the move is a turn known to end, shown by its text,     *)
(* below a child of node n that the search has still to come to; or it is  *)
(* no way to go on from there at all.                                      *)
OnTrack(f, n, from, z) ==
  \E k \in BlockOf(nodes, n) :
    /\ from <= k /\ Child(k).index # 0
    /\ \E x \in EndsAt(nodes, children, f, k) : x.text = z /\ ~x.hidden
OffTrack(pos, n, z) == pos[n] \notin Nodal /\ z \notin Rests(pos[n])

(* The search looks at a child where such an end lies below it: its edge   *)
(* is a dot, or all of it is in the text.                                  *)
LEMMA ShownHits ==
  ASSUME NEW L, NEW pos, Tree(nodes, children, L, root_state, pos), NEW f, EndsStep(nodes, children, f),
         NEW n \in L, NEW k \in BlockOf(nodes, n), Child(k).index # 0,
         NEW x \in EndsAt(nodes, children, f, k), ~x.hidden
  PROVE  /\ IsDot(Child(k).semimove) \/ IsPrefix(Child(k).semimove, x.text)
         /\ ~IsDot(Child(k).semimove) => Written(Child(k).semimove) = Child(k).semimove
<1> DEFINE e == Child(k).semimove
           next == Child(k).index
<1>1. PICK t \in State : Leads(pos[n], e, t) /\ next \in L
  BY ChildStands
<1>2. e \in Seq(Action) /\ Written(e) \in Seq(Action) /\ pos[n] \in State /\ next \in Indices(nodes)
  BY ChildStands, WrittenSeq
<1>3. EndsAt(nodes, children, f, k) =
        IF Node(next).is_nodal THEN {[text |-> Written(e), child |-> k, hidden |-> Hides(e)]}
        ELSE {[text |-> Written(e) \o y.text, child |-> y.child, hidden |-> Hides(e) \/ y.hidden] : y \in f[next]}
  BY DEF EndsAt, Child, Node
<1>4. \A y \in f[next] : y.text \in Seq(Action)
  BY <1>2, EndTexts DEF Tree
<1> HIDE DEF e, next
<1>5. ~Hides(e) /\ \E y \in Seq(Action) : x.text = Written(e) \o y
  <2>1. CASE Node(next).is_nodal
    <3>1. x.text = Written(e) /\ x.hidden = Hides(e)
      BY <1>3, <2>1
    <3>2. Written(e) \o <<>> = Written(e) /\ <<>> \in Seq(Action)
      BY <1>2
    <3> QED
      BY <3>1, <3>2
  <2>2. CASE ~Node(next).is_nodal
    <3>1. PICK y \in f[next] : x = [text |-> Written(e) \o y.text, child |-> y.child, hidden |-> Hides(e) \/ y.hidden]
      BY <1>3, <2>2
    <3>2. x.text = Written(e) \o y.text /\ x.hidden = (Hides(e) \/ y.hidden)
      BY <3>1
    <3> QED
      BY <1>4, <3>2
  <2> QED
    BY <2>1, <2>2
<1>6. DotLast(e) /\ Len(e) \in Nat \ {0}
  <2>1. DotLast(e)
    BY <1>1, <1>2, LeadsFacts
  <2> QED
    BY <1>2, <2>1 DEF DotLast
<1>7. IsDot(e) \/ Last(e) \notin Dot
  <2>1. Len(e) = 1 => Last(e) = e[1]
    BY <1>2 DEF Last
  <2> DEFINE l == Len(e)
  <2>4. l \in Nat \ {0}
    BY <1>6
  <2> HIDE DEF l
  <2>5. l = 1 \/ l > 1
    BY <2>4
  <2>2. Len(e) = 1 \/ Len(e) > 1
    BY <2>5 DEF l
  <2>3. ~(Len(e) > 1 /\ Last(e) \in Dot)
    BY <1>5 DEF Hides
  <2> QED
    BY <2>1, <2>2, <2>3 DEF IsDot
<1>8. ~IsDot(e) => Written(e) = e
  BY <1>6, <1>7, WrittenDotLast
<1>9. IsDot(e) \/ IsPrefix(e, x.text)
  <2> SUFFICES ASSUME ~IsDot(e) PROVE IsPrefix(e, x.text)
    OBVIOUS
  <2>1. PICK y \in Seq(Action) : x.text = e \o y
    BY <1>5, <1>8
  <2> QED
    BY <1>2, <2>1, PrefixOfJoin
<1> QED
  BY <1>8, <1>9 DEF e

(* Of a dot nothing is written, and it leads on within the turn. *)
LEMMA DotGoesOn ==
  ASSUME NEW s \in State, NEW e \in Seq(Action), NEW t, Leads(s, e, t), IsDot(e)
  PROVE  /\ Written(e) = <<>> /\ t \notin Nodal
         /\ Through(s, e) = Rests(t)
<1>1. Len(e) = 1 /\ e[1] \in Dot
  BY DEF IsDot
<1>2. Written(e) = <<>>
  BY <1>1, OneAction
<1>3. t \notin Nodal
  <2>1. Last(e) = e[1]
    BY <1>1 DEF Last
  <2> QED
    BY <1>1, <2>1, LeadsFacts
<1>4. Through(s, e) = {Written(e) \o x : x \in Rests(t)} /\ t \in State
  BY ThroughIs, LeadsFacts
<1>5. \A x \in Rests(t) : <<>> \o x = x
  BY <1>4, MovesSeq
<1> QED
  BY <1>2, <1>3, <1>4, <1>5

(* Behind a dot that the move does not take the search is off the track. *)
LEMMA DotOff ==
  ASSUME NEW L, NEW pos, Tree(nodes, children, L, root_state, pos),
         NEW n \in L, NEW c \in BlockOf(nodes, n), Child(c).index # 0, IsDot(Child(c).semimove),
         NEW z, z \notin Through(pos[n], Child(c).semimove)
  PROVE  OffTrack(pos, Child(c).index, z)
<1>1. PICK t \in State : Leads(pos[n], Child(c).semimove, t) /\ pos[Child(c).index] = t
  BY ChildStands
<1>2. Child(c).semimove \in Seq(Action) /\ pos[n] \in State
  BY ChildStands
<1> QED
  BY <1>1, <1>2, DotGoesOn DEF OffTrack

(* The child an end is known below, entered: it is still ahead, or the     *)
(* move is found.                                                          *)
LEMMA EnterOn ==
  ASSUME NEW L, NEW pos, Tree(nodes, children, L, root_state, pos), NEW f, EndsStep(nodes, children, f),
         NEW m \in Seq(Action), NEW i \in 1..Len(m),
         NEW n \in L, NEW k \in BlockOf(nodes, n), Child(k).index # 0,
         NEW x \in EndsAt(nodes, children, f, k), x.text = RestOf(m, i), ~x.hidden,
         NEW j, j = IF IsDot(Child(k).semimove) THEN i ELSE i + Len(Child(k).semimove)
  PROVE  /\ j \in 1..(Len(m) + 1)
         /\ j \in 1..Len(m) => OnTrack(f, Child(k).index, Node(Child(k).index).first, RestOf(m, j))
<1> DEFINE e == Child(k).semimove
           next == Child(k).index
<1>1. PICK t \in State : /\ Leads(pos[n], e, t) /\ pos[next] = t /\ (Node(next).is_nodal <=> t \in Nodal)
                         /\ next \in L /\ next \in Indices(nodes)
  BY ChildStands
<1>2. e \in Seq(Action) /\ Written(e) \in Seq(Action) /\ pos[n] \in State
  BY ChildStands, WrittenSeq
<1>3. EndsAt(nodes, children, f, k) =
        IF Node(next).is_nodal THEN {[text |-> Written(e), child |-> k, hidden |-> Hides(e)]}
        ELSE {[text |-> Written(e) \o y.text, child |-> y.child, hidden |-> Hides(e) \/ y.hidden] : y \in f[next]}
  BY DEF EndsAt, Child, Node
<1>4. f[next] = EndsBelow(nodes, children, f, next) /\ \A y \in f[next] : y.text \in Seq(Action)
  BY <1>1, EndTexts DEF EndsStep, Tree
<1>5. IsDot(e) \/ (IsPrefix(e, RestOf(m, i)) /\ Written(e) = e)
  BY ShownHits
<1>6. j = IF IsDot(e) THEN i ELSE i + Len(e)
  OBVIOUS
<1> HIDE DEF e, next
<1>7. /\ j \in 1..(Len(m) + 1)
      /\ RestOf(m, i) = Written(e) \o RestOf(m, j)
  <2>1. CASE IsDot(e)
    <3>1. Written(e) = <<>> /\ j = i
      BY <1>1, <1>2, <1>6, <2>1, DotGoesOn
    <3>2. i \in 1..(Len(m) + 1)
      OBVIOUS
    <3>3. RestOf(m, i) \in Seq(Action)
      BY <3>2, SplitAt
    <3>4. <<>> \o RestOf(m, i) = RestOf(m, i)
      BY <3>3
    <3> QED
      BY <3>1, <3>2, <3>4
  <2>2. CASE ~IsDot(e)
    BY <1>2, <1>5, <1>6, <2>2, RestAfter
  <2> QED
    BY <2>1, <2>2
<1>8. RestOf(m, j) \in Seq(Action)
  BY <1>7, SplitAt
<1>9. ASSUME j \in 1..Len(m)
      PROVE  OnTrack(f, next, Node(next).first, RestOf(m, j))
  <2>1. RestOf(m, j) # <<>>
    BY <1>9, SomeLeft
  <2>2. ~Node(next).is_nodal
    <3> SUFFICES ASSUME Node(next).is_nodal PROVE FALSE
      OBVIOUS
    <3>1. x.text = Written(e)
      BY <1>3
    <3>2. Written(e) \o <<>> = Written(e) /\ <<>> \in Seq(Action)
      BY <1>2
    <3>3. Written(e) \o <<>> = Written(e) \o RestOf(m, j)
      BY <1>7, <3>1, <3>2
    <3>4. <<>> = RestOf(m, j)
      BY <1>2, <1>8, <3>2, <3>3, LeftCancel
    <3> QED
      BY <2>1, <3>4
  <2>3. PICK y \in f[next] : x = [text |-> Written(e) \o y.text, child |-> y.child, hidden |-> Hides(e) \/ y.hidden]
    BY <1>3, <2>2
  <2>4. x.text = Written(e) \o y.text /\ ~y.hidden /\ y.text \in Seq(Action)
    BY <1>4, <2>3
  <2>5. y.text = RestOf(m, j)
    <3>1. Written(e) \o y.text = Written(e) \o RestOf(m, j)
      BY <1>7, <2>4
    <3> QED
      BY <1>2, <1>8, <2>4, <3>1, LeftCancel
  <2>6. PICK l \in SeenIn(nodes, children, next) : y \in EndsAt(nodes, children, f, l)
    BY <1>4 DEF EndsBelow
  <2>7. l \in BlockOf(nodes, next) /\ Child(l).index # 0 /\ Node(next).first <= l
    <3>1. l \in BlockOf(nodes, next) /\ Child(l).index # 0
      BY DEF SeenIn, Child
    <3>2. nodes[next + 1].first <= l
      BY <1>1, <3>1, VectorFacts DEF Tree
    <3> QED
      BY <3>1, <3>2 DEF Node
  <2> QED
    BY <2>4, <2>5, <2>6, <2>7 DEF OnTrack
<1> QED
  BY <1>7, <1>9 DEF e, next

(* In a telling game a semimove read by the search is one the move takes.  *)
LEMMA MatchTrue ==
  ASSUME Telling,
         NEW L, NEW pos, Tree(nodes, children, L, root_state, pos), NEW m \in Moves(root_state),
         NEW i \in 1..Len(m), NEW b, WalkStands(L, pos, m, b, i),
         NEW c \in BlockOf(nodes, NodeBelow(b)), ~IsDot(Child(c).semimove),
         IsPrefix(Child(c).semimove, RestOf(m, i))
  PROVE  RestOf(m, i) \in Through(pos[NodeBelow(b)], Child(c).semimove)
<1> DEFINE n == NodeBelow(b)
           e == Child(c).semimove
           j == i + Len(e)
<1>1. /\ n \in L
      /\ \/ b = NoChild /\ n = 0 /\ i = 1
         \/ \E x : Leads(root_state, x, pos[n]) /\ Written(x) = ReadTo(m, i) /\ pos[n] \notin Nodal
  BY WalkNode
<1>2. root_state \in Nodal /\ root_state \in State /\ pos[0] = root_state
  <2>1. root_state \in Nodal /\ pos[0] = root_state
    BY DEF Tree, Stands
  <2> QED
    BY <2>1, SplitGameAssumption
<1>3. m \in Seq(Action) /\ NoDots(m) /\ Len(m) \in Nat
  BY <1>2, MoveLeads
<1>4. PICK t \in State : Leads(pos[n], e, t)
  BY <1>1, ChildStands
<1>5. e \in Seq(Action) /\ pos[n] \in State
  BY <1>1, ChildStands
<1>6. IsPrefix(e, SubSeq(m, i, Len(m)))
  BY DEF RestOf
<1> HIDE DEF n, e
<1>7. /\ j \in 1..(Len(m) + 1) /\ ReadTo(m, i) \o e = ReadTo(m, j) /\ NoDots(e)
  BY <1>3, <1>5, <1>6, ReadOn
<1>8. RestOf(m, i) = e \o RestOf(m, j)
  <2>1. IsPrefix(e, RestOf(m, i))
    BY <1>6 DEF RestOf
  <2> QED
    BY <1>3, <1>5, <2>1, RestAfter
<1> HIDE DEF j
<1>9. Leads(root_state, ReadTo(m, j), t)
  <2>1. CASE n = 0 /\ i = 1
    <3>1. ReadTo(m, i) = <<>>
      BY <1>3, <2>1 DEF ReadTo
    <3>2. <<>> \o e = e
      BY <1>5
    <3> QED
      BY <1>2, <1>4, <1>7, <2>1, <3>1, <3>2
  <2>2. CASE \E x : Leads(root_state, x, pos[n]) /\ Written(x) = ReadTo(m, i) /\ pos[n] \notin Nodal
    <3>1. PICK x : Leads(root_state, x, pos[n]) /\ Written(x) = ReadTo(m, i)
      BY <2>2
    <3>2. Leads(root_state, Written(x) \o e, t)
      BY <1>2, <1>4, <2>2, <3>1, LeadsJoin
    <3> QED
      BY <1>7, <3>1, <3>2
  <2> QED
    BY <1>1, <2>1, <2>2 DEF n
<1>10. PICK r \in Reachable[root_state] : r.actions = ReadTo(m, j) /\ r.state = t
  BY <1>9 DEF Leads
<1>11. ReadTo(m, j) \in Seq(Action) /\ RestOf(m, j) \in Seq(Action) /\ ReadTo(m, j) \o RestOf(m, j) = m
  BY <1>3, <1>7, SplitAt
<1>12. IsPrefix(ReadTo(m, j), m)
  <2>1. IsPrefix(ReadTo(m, j), ReadTo(m, j) \o RestOf(m, j))
    BY <1>11, PrefixOfJoin
  <2> QED
    BY <1>11, <2>1
<1>13. PICK z \in Rests(t) : m = ReadTo(m, j) \o z
  <2>1. \E z \in Rests(r.state) : m = r.actions \o z
    BY <1>2, <1>10, <1>12 DEF Telling
  <2> QED
    BY <1>10, <2>1
<1>14. z = RestOf(m, j)
  <2>1. z \in Seq(Action)
    BY <1>4, MovesSeq
  <2>2. ReadTo(m, j) \o z = ReadTo(m, j) \o RestOf(m, j)
    BY <1>11, <1>13
  <2> QED
    BY <1>11, <2>1, <2>2, LeftCancel
<1>15. Written(e) = e
  BY <1>5, <1>7, WrittenNoDots
<1>16. RestOf(m, i) \in Through(pos[n], e)
  <2>1. Through(pos[n], e) = {Written(e) \o x : x \in Rests(t)}
    BY <1>4, <1>5, ThroughIs
  <2> QED
    BY <1>8, <1>13, <1>14, <1>15, <2>1
<1> QED
  BY <1>16 DEF n, e

(* The nodes of the tree are live, and so is what they stand for. *)
LEMMA LiveReaches ==
  ASSUME NEW L, NEW pos, Tree(nodes, children, L, root_state, pos)
  PROVE  \A n \in L : \E x \in Live : x.node = n /\ x.state = pos[n]
<1> DEFINE w == Len(nodes) - 1
           f == CHOOSE g : LevelStep(w, g)
<1>1. /\ Vectors(nodes, children) /\ Links(nodes, children, L) /\ pos[0] = root_state
      /\ Len(nodes) \in Nat \ {0}
  BY VectorFacts DEF Tree, Stands
<1>2. w \in Nat /\ Nodes = 0..w /\ Indices(nodes) = 0..w
  BY <1>1 DEF Nodes, Indices
<1>3. Live = UNION {f[d] : d \in 0..w}
  BY DEF Live, LevelStep, NextLevel, LiveBelow, LiveRoot, Nodes
<1> HIDE DEF w
<1>4. LevelStep(w, f)
  <2>1. \E g : LevelStep(w, g)
    BY <1>2, LevelsExist
  <2> QED
    BY <2>1
<1> HIDE DEF f
<1>5. \A d \in 0..w : f[d] = IF d = 0 THEN {LiveRoot} ELSE NextLevel(f[d - 1])
  BY <1>4 DEF LevelStep
<1> DEFINE T == {n \in Nat : n \in L => \E d \in 0..w : d <= n /\ \E x \in f[d] : x.node = n /\ x.state = pos[n]}
<1>6. ASSUME NEW n \in Nat, \A k \in 0..(n - 1) : k \in T
      PROVE  n \in T
  <2> SUFFICES ASSUME n \in L
               PROVE  \E d \in 0..w : d <= n /\ \E x \in f[d] : x.node = n /\ x.state = pos[n]
    OBVIOUS
  <2>1. CASE n = 0
    <3>1. 0 \in 0..w /\ 0 <= n
      BY <1>2, <2>1
    <3>2. LiveRoot \in f[0] /\ LiveRoot.node = 0 /\ LiveRoot.state = root_state
      BY <1>5, <3>1 DEF LiveRoot
    <3> QED
      BY <1>1, <2>1, <3>1, <3>2
  <2>2. CASE n # 0
    <3>1. PICK p \in L : \E i \in BlockOf(nodes, p) : children[i + 1].index = n
      BY <1>1, <2>2 DEF Links
    <3>2. PICK k \in BlockOf(nodes, p) : children[k + 1].index = n
      BY <3>1
    <3>3. /\ Child(k) = children[k + 1] /\ pos[p] \in State /\ p \in Nat /\ p < n
          /\ \E t \in State : Leads(pos[p], Child(k).semimove, t) /\ pos[n] = t
      BY <2>2, <3>2, ChildStands
    <3>4. p \in 0..(n - 1)
      BY <3>3
    <3>5. PICK d \in 0..w : d <= p /\ \E x \in f[d] : x.node = p /\ x.state = pos[p]
      BY <1>6, <3>4
    <3>6. PICK x \in f[d] : x.node = p /\ x.state = pos[p]
      BY <3>5
    <3>7. d + 1 \in 0..w /\ d + 1 # 0 /\ (d + 1) - 1 = d /\ d + 1 <= n
      <4>1. n \in 0..w
        BY <1>1, <1>2 DEF Links
      <4> QED
        BY <1>2, <3>3, <3>5, <4>1
    <3>8. k \in Visited(p)
      BY <2>2, <3>2, <3>3 DEF Visited, BlockOf, Node
    <3>9. LiveBelow(x, k) \in f[d + 1]
      <4>1. f[d + 1] = NextLevel(f[d])
        BY <1>5, <3>7
      <4> QED
        BY <3>6, <3>8, <4>1 DEF NextLevel
    <3>10. LiveBelow(x, k).node = n /\ LiveBelow(x, k).state = pos[n]
      <4>1. apply(pos[p], Child(k).semimove) = pos[n]
        BY <3>3, LeadsFacts
      <4> QED
        BY <3>2, <3>3, <3>6, <4>1 DEF LiveBelow
    <3> QED
      BY <3>7, <3>9, <3>10
  <2> QED
    BY <2>1, <2>2
<1> HIDE DEF T
<1>7. \A n \in Nat : n \in T
  BY <1>6, StrongInduction
<1>8. \A n \in L : n \in Nat
  BY <1>1, LinkFacts
<1> QED
  BY <1>3, <1>7, <1>8 DEF T

(* Off the track the search is within a turn, whose nodes are expanded if  *)
(* no turn of the tree is unfinished.                                      *)
LEMMA OffExpanded ==
  ASSUME NEW L, NEW pos, Tree(nodes, children, L, root_state, pos), ~Unfinished,
         NEW n \in L, NEW z, OffTrack(pos, n, z)
  PROVE  is_expanded(Node(n))
<1>1. PICK x \in Live : x.node = n /\ x.state = pos[n]
  BY LiveReaches
<1> QED
  BY <1>1 DEF Unfinished, OffTrack

(* Among the trials, nodes the search may come back to, one is on track,   *)
(* and those above it, which it comes back to before, are off it.          *)
TrialRecord == [child : Int, tried : Nat]
TrialOn(f, x, z) == OnTrack(f, NodeBelow(x.child), x.tried + 1, z)
Waits(f, pos, trials, z) ==
  \E t \in 1..Len(trials) :
    /\ TrialOn(f, trials[t], z)
    /\ \A u \in 1..Len(trials) : t < u => OffTrack(pos, NodeBelow(trials[u].child), z)

(* One trial more, on track, or off it above one that is. *)
LEMMA WaitsMore ==
  ASSUME NEW f, NEW pos, NEW z, NEW trials \in Seq(TrialRecord), NEW x \in TrialRecord,
         TrialOn(f, x, z) \/ (OffTrack(pos, NodeBelow(x.child), z) /\ Waits(f, pos, trials, z))
  PROVE  Waits(f, pos, Append(trials, x), z)
<1> DEFINE more == Append(trials, x)
           l == Len(trials)
<1>1. l \in Nat /\ Len(more) = l + 1 /\ more[l + 1] = x /\ \A t \in 1..l : more[t] = trials[t]
  OBVIOUS
<1> HIDE DEF more, l
<1>2. l + 1 \in 1..Len(more) /\ \A t \in 1..Len(more) : t \in 1..l \/ t = l + 1
  BY <1>1
<1>3. CASE TrialOn(f, x, z)
  <2>1. \A u \in 1..Len(more) : ~(l + 1 < u)
    BY <1>1
  <2>2. TrialOn(f, more[l + 1], z)
    BY <1>1, <1>3
  <2>3. Waits(f, pos, more, z)
    BY <1>2, <2>1, <2>2 DEF Waits
  <2> QED
    BY <2>3 DEF more
<1>4. CASE OffTrack(pos, NodeBelow(x.child), z) /\ Waits(f, pos, trials, z)
  <2>1. PICK t \in 1..l : /\ TrialOn(f, trials[t], z)
                          /\ \A u \in 1..l : t < u => OffTrack(pos, NodeBelow(trials[u].child), z)
    BY <1>4 DEF Waits, l
  <2>2. t \in 1..Len(more) /\ TrialOn(f, more[t], z)
    BY <1>1, <2>1
  <2>3. \A u \in 1..Len(more) : t < u => OffTrack(pos, NodeBelow(more[u].child), z)
    <3> TAKE u \in 1..Len(more)
    <3>1. CASE u \in 1..l
      BY <1>1, <2>1, <3>1
    <3>2. CASE u = l + 1
      BY <1>1, <1>4, <3>2
    <3> QED
      BY <1>2, <3>1, <3>2
  <2>4. Waits(f, pos, more, z)
    BY <2>2, <2>3 DEF Waits
  <2> QED
    BY <2>4 DEF more
<1> QED
  BY <1>3, <1>4

(* The search comes back to the last trial: it is on track, or off it and  *)
(* another one still waits.                                                *)
LEMMA WaitsLess ==
  ASSUME NEW f, NEW pos, NEW z, NEW trials \in Seq(TrialRecord), Waits(f, pos, trials, z)
  PROVE  /\ trials # <<>>
         /\ \/ TrialOn(f, Last(trials), z)
            \/ OffTrack(pos, NodeBelow(Last(trials).child), z) /\ Waits(f, pos, Front(trials), z)
<1> DEFINE l == Len(trials)
           less == Front(trials)
           x == Last(trials)
<1>1. PICK t \in 1..l : /\ TrialOn(f, trials[t], z)
                        /\ \A u \in 1..l : t < u => OffTrack(pos, NodeBelow(trials[u].child), z)
  BY DEF Waits
<1>2. trials # <<>>
  <2>1. l # 0
    BY <1>1
  <2>2. Len(<<>>) = 0
    OBVIOUS
  <2> QED
    BY <2>1, <2>2
<1>3. l \in Nat \ {0} /\ Len(less) = l - 1 /\ x = trials[l] /\ \A u \in 1..(l - 1) : less[u] = trials[u]
  BY <1>2, FrontIs
<1> HIDE DEF l, less, x
<1>4. CASE t = l
  BY <1>1, <1>2, <1>3, <1>4 DEF x
<1>5. CASE t # l
  <2>1. t < l /\ l \in 1..l /\ t \in 1..(l - 1)
    BY <1>1, <1>3, <1>5
  <2>2. OffTrack(pos, NodeBelow(x.child), z)
    BY <1>1, <1>3, <2>1
  <2>3. TrialOn(f, less[t], z) /\ t \in 1..Len(less)
    BY <1>1, <1>3, <2>1
  <2>4. \A u \in 1..Len(less) : t < u => OffTrack(pos, NodeBelow(less[u].child), z)
    <3> TAKE u \in 1..Len(less)
    <3>1. u \in 1..l /\ less[u] = trials[u]
      BY <1>3
    <3> QED
      BY <1>1, <3>1
  <2>5. Waits(f, pos, less, z)
    BY <2>3, <2>4 DEF Waits
  <2> QED
    BY <1>2, <2>2, <2>5 DEF less, x
<1> QED
  BY <1>4, <1>5

(* An element appended is the last one, behind those there were. *)
LEMMA AppendedBack ==
  ASSUME NEW S, NEW s \in Seq(S), NEW x \in S
  PROVE  Append(s, x) # <<>> /\ Last(Append(s, x)) = x /\ Front(Append(s, x)) = s
<1> DEFINE t == Append(s, x)
           l == Len(s)
           g == Front(t)
<1>1. l \in Nat /\ t \in Seq(S) /\ Len(t) = l + 1 /\ t[l + 1] = x /\ \A k \in 1..l : t[k] = s[k]
  OBVIOUS
<1> HIDE DEF t, l
<1>2. t # <<>>
  <2>1. Len(<<>>) = 0
    OBVIOUS
  <2> QED
    BY <1>1, <2>1
<1>3. /\ g \in Seq(S) /\ Len(g) = Len(t) - 1 /\ Last(t) = t[Len(t)]
      /\ \A k \in 1..(Len(t) - 1) : g[k] = t[k]
  BY <1>1, <1>2, FrontIs
<1> HIDE DEF g
<1>4. Len(t) - 1 = l /\ Len(g) = l
  BY <1>1, <1>3
<1>5. \A k \in 1..l : g[k] = s[k]
  BY <1>1, <1>3, <1>4
<1>6. g = s
  BY <1>3, <1>4, <1>5 DEF l
<1> QED
  BY <1>1, <1>2, <1>3, <1>6 DEF t, g

(* A turn of the loop, in full. *)
Turned(m, w, c, trials, j) ==
  IF w.i > Len(m) THEN w
  ELSE IF ~is_expanded(Node(NodeBelow(w.child))) THEN GivenUp(m)
  ELSE IF Hits(m, w) # {} /\ Child(c).index # 0
       THEN [i |-> j, child |-> c, first |-> Node(Child(c).index).first, trials |-> trials]
  ELSE IF trials # <<>>
       THEN [i |-> j, child |-> Last(trials).child, first |-> Last(trials).tried + 1, trials |-> Front(trials)]
  ELSE GivenUp(m)
(* It is this. *)
LEMMA WalkTurnIs ==
  ASSUME NEW m, NEW w
  PROVE  \E c, trials, j : Goes(m, w, c, trials, j) /\ WalkTurn(m, w) = Turned(m, w, c, trials, j)
<1> DEFINE c == Min(Hits(m, w))
           dot == IsDot(Child(c).semimove)
           trials == IF Hits(m, w) = {} THEN w.trials
                     ELSE IF dot THEN Append(w.trials, [child |-> w.child, tried |-> c]) ELSE <<>>
           j == IF Hits(m, w) = {} \/ dot THEN w.i ELSE w.i + Len(Child(c).semimove)
<1>1. Goes(m, w, c, trials, j)
  BY DEF Goes
<1>2. WalkTurn(m, w) = Turned(m, w, c, trials, j)
  BY DEF WalkTurn, Turned
<1> HIDE DEF c, trials, j
<1> QED
  BY <1>1, <1>2

(* The children a turn of the loop looks at. *)
LEMMA HitFacts ==
  ASSUME NEW L, NEW pos, Tree(nodes, children, L, root_state, pos), NEW m, NEW w, NodeBelow(w.child) \in L
  PROVE  /\ Hits(m, w) \subseteq BlockOf(nodes, NodeBelow(w.child)) /\ Hits(m, w) \subseteq Nat
         /\ \A c \in Hits(m, w) :
              /\ w.first <= c
              /\ IsDot(Child(c).semimove) \/ IsPrefix(Child(c).semimove, RestOf(m, w.i))
         /\ \A c \in BlockOf(nodes, NodeBelow(w.child)) :
              /\ w.first <= c
              /\ IsDot(Child(c).semimove) \/ IsPrefix(Child(c).semimove, RestOf(m, w.i))
              => c \in Hits(m, w)
<1>1. \A c \in BlockOf(nodes, NodeBelow(w.child)) : c \in Nat
  BY ChildStands
<1> QED
  BY <1>1 DEF Hits, RestOf, BlockOf, Node

(* The search for the move has found it, or is on the way to find it.      *)
Tracks(f, pos, m, w) ==
  \/ w.i > Len(m) /\ w.child # NoChild
  \/ /\ w.i \in 1..Len(m)
     /\ \/ OnTrack(f, NodeBelow(w.child), w.first, RestOf(m, w.i))
        \/ /\ OffTrack(pos, NodeBelow(w.child), RestOf(m, w.i))
           /\ Waits(f, pos, w.trials, RestOf(m, w.i))

(* On track, the turn of the loop enters the child the move goes through,  *)
(* or a dot before it, which leads off the track.                          *)
LEMMA TurnOnTrack ==
  ASSUME Telling,
         NEW L, NEW pos, Tree(nodes, children, L, root_state, pos), NEW m \in Moves(root_state),
         NEW f, EndsStep(nodes, children, f), NEW w, WalkHolds(L, pos, m, w), w.i \in 1..Len(m),
         OnTrack(f, NodeBelow(w.child), w.first, RestOf(m, w.i))
  PROVE  Tracks(f, pos, m, WalkTurn(m, w))
<1> DEFINE n == NodeBelow(w.child)
           z == RestOf(m, w.i)
           v == WalkTurn(m, w)
<1>1. root_state \in State /\ Covers(nodes, children, L, pos) /\ VisitedOnTop(nodes, children, L)
  <2>1. root_state \in Nodal
    BY DEF Tree, Stands
  <2> QED
    BY <2>1, SplitGameAssumption DEF Tree
<1>2. m \in Seq(Action) /\ Len(m) \in Nat
  BY <1>1, MoveLeads
<1>3. WalkStands(L, pos, m, w.child, w.i) /\ w.trials \in Seq(TrialRecord) /\ w.child \in Int
  BY DEF WalkHolds, WalkRecord, TrialRecord
<1>4. n \in L
  BY <1>3, WalkNode
<1>5. PICK k \in BlockOf(nodes, n) :
        /\ w.first <= k /\ Child(k).index # 0
        /\ \E x \in EndsAt(nodes, children, f, k) : x.text = z /\ ~x.hidden
  BY DEF OnTrack
<1>6. PICK x \in EndsAt(nodes, children, f, k) : x.text = z /\ ~x.hidden
  BY <1>5
<1>7. /\ Hits(m, w) \subseteq BlockOf(nodes, n) /\ Hits(m, w) \subseteq Nat
      /\ \A c \in Hits(m, w) : IsDot(Child(c).semimove) \/ IsPrefix(Child(c).semimove, z)
  BY <1>4, HitFacts
<1>8. k \in Hits(m, w)
  <2>1. IsDot(Child(k).semimove) \/ IsPrefix(Child(k).semimove, z)
    BY <1>4, <1>5, <1>6, ShownHits
  <2> QED
    BY <1>4, <1>5, <2>1, HitFacts
<1>9. PICK c, trials, j : Goes(m, w, c, trials, j) /\ v = Turned(m, w, c, trials, j)
  BY WalkTurnIs
<1>10. c \in Hits(m, w) /\ c <= k /\ c \in BlockOf(nodes, n) /\ c \in Nat /\ k \in Nat
  <2>1. c = Min(Hits(m, w))
    BY <1>9 DEF Goes
  <2>2. c \in Hits(m, w) /\ c <= k
    BY <1>7, <1>8, <2>1, MinLeast
  <2> QED
    BY <1>7, <1>8, <2>2
<1>11. Child(c).index # 0
  BY <1>1, <1>4, <1>5, <1>10 DEF VisitedOnTop, Child
<1>12. v = [i |-> j, child |-> c, first |-> Node(Child(c).index).first, trials |-> trials]
  <2>1. is_expanded(Node(n))
    BY <1>4, <1>5, ChildStands
  <2>2. ~(w.i > Len(m))
    BY <1>2
  <2> QED
    BY <1>9, <1>10, <1>11, <2>1, <2>2 DEF Turned
<1>13. v.i = j /\ v.child = c /\ v.first = Node(Child(c).index).first /\ v.trials = trials
  BY <1>12
<1>14. c # NoChild /\ NodeBelow(c) = Child(c).index
  BY <1>10 DEF NoChild, NodeBelow
<1>15. j = IF IsDot(Child(c).semimove) THEN w.i ELSE w.i + Len(Child(c).semimove)
  BY <1>9, <1>10 DEF Goes
<1> HIDE DEF v, n, z
<1>16. CASE c = k
  <2>1. /\ j \in 1..(Len(m) + 1)
        /\ j \in 1..Len(m) => OnTrack(f, Child(c).index, Node(Child(c).index).first, RestOf(m, j))
    BY <1>2, <1>4, <1>5, <1>6, <1>15, <1>16, EnterOn DEF z
  <2>2. j > Len(m) \/ j \in 1..Len(m)
    BY <1>2, <2>1
  <2>3. Tracks(f, pos, m, v)
    BY <1>13, <1>14, <2>1, <2>2 DEF Tracks
  <2> QED
    BY <2>3 DEF v
<1>17. CASE c # k
  <2>1. z \in Through(pos[n], Child(k).semimove)
    <3>1. PICK t \in State : Child(k).index \in L
      BY <1>4, <1>5, ChildStands
    <3>2. \A y \in f[Child(k).index] : y.text \in Moves(pos[Child(k).index])
      BY <3>1, EndMoves
    <3>3. x.text \in Through(pos[n], Child(k).semimove)
      BY <1>4, <1>5, <1>6, <3>2, EndMovesAt
    <3> QED
      BY <1>6, <3>3
  <2>2. z \notin Through(pos[n], Child(c).semimove)
    <3>1. is_expanded(nodes[n + 1])
      BY <1>4, <1>5, ChildStands DEF Node
    <3>2. Cover(EdgesOf(children), BlockOf(nodes, n), pos[n])
      BY <1>1, <1>4, <3>1 DEF Covers
    <3>3. Through(pos[n], EdgesOf(children)[c]) \cap Through(pos[n], EdgesOf(children)[k]) = {}
      BY <1>5, <1>10, <1>17, <3>2 DEF Cover
    <3>4. EdgesOf(children)[c] = Child(c).semimove /\ EdgesOf(children)[k] = Child(k).semimove
      <4>1. c \in Indices(children) /\ k \in Indices(children)
        BY <1>4, <1>5, <1>10, ChildStands
      <4> QED
        BY <4>1 DEF EdgesOf, Child
    <3> QED
      BY <2>1, <3>3, <3>4
  <2>3. IsDot(Child(c).semimove)
    <3> SUFFICES ASSUME ~IsDot(Child(c).semimove) PROVE FALSE
      OBVIOUS
    <3>1. IsPrefix(Child(c).semimove, z)
      BY <1>7, <1>10
    <3>2. z \in Through(pos[n], Child(c).semimove)
      BY <1>3, <1>10, <3>1, MatchTrue DEF n, z
    <3> QED
      BY <2>2, <3>2
  <2>4. OffTrack(pos, Child(c).index, z)
    BY <1>4, <1>10, <1>11, <2>2, <2>3, DotOff
  <2> DEFINE y == [child |-> w.child, tried |-> c]
  <2>5. y \in TrialRecord /\ y.child = w.child /\ y.tried = c
    BY <1>3, <1>10 DEF TrialRecord
  <2>6. trials = Append(w.trials, y) /\ j = w.i
    BY <1>9, <1>10, <2>3 DEF Goes
  <2> HIDE DEF y
  <2>7. TrialOn(f, y, z)
    <3>1. c + 1 <= k
      BY <1>10, <1>17
    <3>2. OnTrack(f, n, c + 1, z)
      BY <1>5, <3>1 DEF OnTrack
    <3> QED
      BY <2>5, <3>2 DEF TrialOn, n
  <2>8. Waits(f, pos, trials, z)
    BY <1>3, <2>5, <2>6, <2>7, WaitsMore
  <2>9. Tracks(f, pos, m, v)
    BY <1>13, <1>14, <2>4, <2>6, <2>8 DEF Tracks, z
  <2> QED
    BY <2>9 DEF v
<1> QED
  BY <1>16, <1>17

(* Off the track it passes dots or goes back, until it comes to the node   *)
(* that waits.                                                             *)
LEMMA TurnOffTrack ==
  ASSUME Telling, ~Unfinished,
         NEW L, NEW pos, Tree(nodes, children, L, root_state, pos), NEW m \in Moves(root_state),
         NEW f, NEW w, WalkHolds(L, pos, m, w), w.i \in 1..Len(m),
         OffTrack(pos, NodeBelow(w.child), RestOf(m, w.i)), Waits(f, pos, w.trials, RestOf(m, w.i))
  PROVE  Tracks(f, pos, m, WalkTurn(m, w))
<1> DEFINE n == NodeBelow(w.child)
           z == RestOf(m, w.i)
           v == WalkTurn(m, w)
<1>1. root_state \in State
  <2>1. root_state \in Nodal
    BY DEF Tree, Stands
  <2> QED
    BY <2>1, SplitGameAssumption
<1>2. m \in Seq(Action) /\ Len(m) \in Nat
  BY <1>1, MoveLeads
<1>3. WalkStands(L, pos, m, w.child, w.i) /\ w.trials \in Seq(TrialRecord) /\ w.child \in Int
  BY DEF WalkHolds, WalkRecord, TrialRecord
<1>4. n \in L
  BY <1>3, WalkNode
<1>5. OffTrack(pos, n, z) /\ Waits(f, pos, w.trials, z)
  OBVIOUS
<1>6. is_expanded(Node(n)) /\ ~(w.i > Len(m))
  BY <1>2, <1>4, <1>5, OffExpanded
<1>7. /\ Hits(m, w) \subseteq BlockOf(nodes, n) /\ Hits(m, w) \subseteq Nat
      /\ \A c \in Hits(m, w) : IsDot(Child(c).semimove) \/ IsPrefix(Child(c).semimove, z)
  BY <1>4, HitFacts
<1>8. PICK c, trials, j : Goes(m, w, c, trials, j) /\ v = Turned(m, w, c, trials, j)
  BY WalkTurnIs
<1>9. v = IF Hits(m, w) # {} /\ Child(c).index # 0
          THEN [i |-> j, child |-> c, first |-> Node(Child(c).index).first, trials |-> trials]
          ELSE IF trials # <<>>
          THEN [i |-> j, child |-> Last(trials).child, first |-> Last(trials).tried + 1, trials |-> Front(trials)]
          ELSE GivenUp(m)
  BY <1>6, <1>8 DEF Turned
<1> HIDE DEF v
<1>10. CASE Hits(m, w) = {}
  <2>1. trials = w.trials /\ j = w.i
    BY <1>8, <1>10 DEF Goes
  <2>2. /\ trials # <<>>
        /\ \/ TrialOn(f, Last(trials), z)
           \/ OffTrack(pos, NodeBelow(Last(trials).child), z) /\ Waits(f, pos, Front(trials), z)
    BY <1>3, <1>5, <2>1, WaitsLess
  <2>3. v = [i |-> j, child |-> Last(trials).child, first |-> Last(trials).tried + 1, trials |-> Front(trials)]
    BY <1>9, <1>10, <2>2
  <2>4. v.i = w.i /\ v.child = Last(trials).child /\ v.first = Last(trials).tried + 1 /\ v.trials = Front(trials)
    BY <2>1, <2>3
  <2>5. Tracks(f, pos, m, v)
    BY <2>2, <2>4 DEF Tracks, TrialOn
  <2> QED
    BY <2>5 DEF v
<1>11. CASE Hits(m, w) # {}
  <2>1. c \in Hits(m, w) /\ c \in BlockOf(nodes, n) /\ c \in Nat
    <3>1. c = Min(Hits(m, w))
      BY <1>8 DEF Goes
    <3>2. c \in Hits(m, w)
      BY <1>7, <1>11, <3>1, MinLeast
    <3> QED
      BY <1>7, <3>2
  <2>2. z \notin Through(pos[n], Child(c).semimove)
    <3>1. PICK t \in State : Leads(pos[n], Child(c).semimove, t) /\ pos[n] \in State
      BY <1>4, <2>1, ChildStands
    <3>2. Through(pos[n], Child(c).semimove) \subseteq Moves(pos[n])
      BY <3>1, ThroughIs
    <3> QED
      BY <1>5, <3>2 DEF OffTrack, Rests
  <2>3. IsDot(Child(c).semimove)
    <3> SUFFICES ASSUME ~IsDot(Child(c).semimove) PROVE FALSE
      OBVIOUS
    <3>1. IsPrefix(Child(c).semimove, z)
      BY <1>7, <2>1
    <3>2. z \in Through(pos[n], Child(c).semimove)
      BY <1>3, <2>1, <3>1, MatchTrue
    <3> QED
      BY <2>2, <3>2
  <2> DEFINE y == [child |-> w.child, tried |-> c]
  <2>4. y \in TrialRecord /\ y.child = w.child /\ y.tried = c
    BY <1>3, <2>1 DEF TrialRecord
  <2>5. trials = Append(w.trials, y) /\ j = w.i
    BY <1>8, <1>11, <2>3 DEF Goes
  <2> HIDE DEF y
  <2>6. CASE Child(c).index # 0
    <3>1. v = [i |-> j, child |-> c, first |-> Node(Child(c).index).first, trials |-> trials]
      BY <1>9, <1>11, <2>6
    <3>2. v.i = w.i /\ v.child = c /\ v.trials = trials
      BY <2>5, <3>1
    <3>3. NodeBelow(c) = Child(c).index
      BY <2>1 DEF NoChild, NodeBelow
    <3>4. OffTrack(pos, Child(c).index, z)
      BY <1>4, <2>1, <2>2, <2>3, <2>6, DotOff
    <3>5. Waits(f, pos, trials, z)
      BY <1>3, <1>5, <2>4, <2>5, WaitsMore
    <3>6. Tracks(f, pos, m, v)
      BY <3>2, <3>3, <3>4, <3>5 DEF Tracks
    <3> QED
      BY <3>6 DEF v
  <2>7. CASE Child(c).index = 0
    <3>1. trials # <<>> /\ Last(trials) = y /\ Front(trials) = w.trials
      BY <1>3, <2>4, <2>5, AppendedBack
    <3>2. v = [i |-> j, child |-> Last(trials).child, first |-> Last(trials).tried + 1, trials |-> Front(trials)]
      BY <1>9, <2>7, <3>1
    <3>3. v.i = w.i /\ v.child = w.child /\ v.trials = w.trials
      BY <2>4, <2>5, <3>1, <3>2
    <3>4. Tracks(f, pos, m, v)
      BY <1>5, <3>3 DEF Tracks
    <3> QED
      BY <3>4 DEF v
  <2> QED
    BY <2>6, <2>7
<1> QED
  BY <1>10, <1>11

(* However the loop turns, where turns of the tree are finished the search *)
(* for a move the tree knows, shown by its text, stays on its way.         *)
LEMMA TracksTurn ==
  ASSUME Telling, ~Unfinished,
         NEW L, NEW pos, Tree(nodes, children, L, root_state, pos), NEW m \in Moves(root_state),
         NEW f, EndsStep(nodes, children, f), NEW w, WalkHolds(L, pos, m, w), Tracks(f, pos, m, w)
  PROVE  Tracks(f, pos, m, WalkTurn(m, w))
<1>1. CASE w.i > Len(m)
  <2>1. WalkTurn(m, w) = w
    BY <1>1 DEF WalkTurn
  <2> QED
    BY <2>1
<1>2. CASE ~(w.i > Len(m))
  <2>1. w.i \in 1..Len(m)
    BY <1>2 DEF Tracks
  <2>2. \/ OnTrack(f, NodeBelow(w.child), w.first, RestOf(m, w.i))
        \/ OffTrack(pos, NodeBelow(w.child), RestOf(m, w.i)) /\ Waits(f, pos, w.trials, RestOf(m, w.i))
    BY <1>2 DEF Tracks
  <2> QED
    BY <2>1, <2>2, TurnOnTrack, TurnOffTrack
<1> QED
  BY <1>1, <1>2

(* The children D the search is done with: those it entered and those it   *)
(* passed by without a node.  It never looks at one of them again, and the *)
(* nodes it may come back to lie above each other.                         *)
Looked(D, b) == b = NoChild \/ b \in D
Past(L, D, b, first, trials) ==
  /\ D \subseteq Indices(children)
  /\ Looked(D, b) /\ NodeBelow(b) \in L
  /\ \A d \in D : \E p \in L : d \in BlockOf(nodes, p) /\ (p = 0 \/ \E a \in D : Child(a).index = p)
  /\ \A d \in D : d \in BlockOf(nodes, NodeBelow(b)) => d < first
  /\ trials \in Seq(TrialRecord)
  /\ \A t \in 1..Len(trials) :
       /\ Looked(D, trials[t].child) /\ NodeBelow(trials[t].child) \in L
       /\ NodeBelow(trials[t].child) < NodeBelow(b)
       /\ \A d \in D : d \in BlockOf(nodes, NodeBelow(trials[t].child)) => d <= trials[t].tried
       /\ \A u \in 1..Len(trials) : u < t => NodeBelow(trials[u].child) < NodeBelow(trials[t].child)

(* A child passed by is one more. *)
LEMMA PastSkip ==
  ASSUME NEW L, NEW pos, Tree(nodes, children, L, root_state, pos),
         NEW D, NEW b, NEW first, NEW trials, Past(L, D, b, first, trials),
         NEW c \in BlockOf(nodes, NodeBelow(b)), first \in Nat, first <= c
  PROVE  c \notin D /\ Past(L, D \cup {c}, b, c + 1, trials)
<1> DEFINE n == NodeBelow(b)
           E == D \cup {c}
<1>1. n \in L /\ Links(nodes, children, L) /\ c \in Nat /\ c \in Indices(children) /\ Looked(D, b)
  BY ChildStands DEF Past, Tree
<1>2. \A d \in D : d \in Nat
  <2>1. \A d \in D : \E p \in L : d \in BlockOf(nodes, p)
    BY DEF Past
  <2> QED
    BY <2>1, ChildStands
<1>3. c \notin D
  <2> SUFFICES ASSUME c \in D PROVE FALSE
    OBVIOUS
  <2>1. c < first
    BY DEF Past
  <2> QED
    BY <1>1, <2>1
<1>4. n = 0 \/ \E a \in D : Child(a).index = n
  BY <1>1 DEF NodeBelow, Looked
<1>5. \A d \in E : \E p \in L : d \in BlockOf(nodes, p) /\ (p = 0 \/ \E a \in E : Child(a).index = p)
  <2> TAKE d \in E
  <2>1. CASE d \in D
    BY <2>1 DEF Past
  <2>2. CASE d = c
    BY <1>1, <1>4, <2>2
  <2> QED
    BY <2>1, <2>2
<1>6. \A d \in E : d \in BlockOf(nodes, n) => d < c + 1
  <2> TAKE d \in E
  <2> HAVE d \in BlockOf(nodes, n)
  <2>1. CASE d \in D
    <3>1. d < first /\ d \in Nat
      BY <1>2, <2>1 DEF Past
    <3> QED
      BY <1>1, <3>1
  <2>2. CASE d = c
    BY <1>1, <2>2
  <2> QED
    BY <2>1, <2>2
<1>7. \A t \in 1..Len(trials) : \A d \in E : d \in BlockOf(nodes, NodeBelow(trials[t].child)) => d <= trials[t].tried
  <2> TAKE t \in 1..Len(trials)
  <2> TAKE d \in E
  <2> HAVE d \in BlockOf(nodes, NodeBelow(trials[t].child))
  <2>1. NodeBelow(trials[t].child) \in L /\ NodeBelow(trials[t].child) < n
    BY DEF Past
  <2>2. CASE d \in D
    BY <2>2 DEF Past
  <2>3. CASE d = c
    <3>1. NodeBelow(trials[t].child) = n
      BY <1>1, <2>1, <2>3 DEF Links
    <3>2. n \in Nat
      BY <1>1, LinkFacts DEF Tree
    <3> QED
      BY <2>1, <3>1, <3>2
  <2> QED
    BY <2>2, <2>3
<1>8. E \subseteq Indices(children) /\ \A a : Looked(D, a) => Looked(E, a)
  BY <1>1 DEF Past, Looked
<1> HIDE DEF E, n
<1>9. Past(L, E, b, c + 1, trials)
  BY <1>1, <1>5, <1>6, <1>7, <1>8 DEF Past, n
<1> QED
  BY <1>3, <1>9 DEF E

(* So is a child entered, and it is done with none of its children yet.    *)
LEMMA PastEnter ==
  ASSUME NEW L, NEW pos, Tree(nodes, children, L, root_state, pos),
         NEW D, NEW b \in Int, NEW first, NEW trials, Past(L, D, b, first, trials),
         NEW c \in BlockOf(nodes, NodeBelow(b)), first \in Nat, first <= c, Child(c).index # 0
  PROVE  /\ c \notin D
         /\ Past(L, D \cup {c}, c, Node(Child(c).index).first, Append(trials, [child |-> b, tried |-> c]))
         /\ Past(L, D \cup {c}, c, Node(Child(c).index).first, <<>>)
<1> DEFINE n == NodeBelow(b)
           E == D \cup {c}
           next == Child(c).index
           from == Node(next).first
           x == [child |-> b, tried |-> c]
           more == Append(trials, x)
           l == Len(trials)
<1>1. c \notin D /\ Past(L, E, b, c + 1, trials)
  BY PastSkip
<1>2. n \in L /\ Links(nodes, children, L) /\ Vectors(nodes, children)
  BY DEF Past, Tree
<1>3. /\ c \in Nat /\ Child(c) = children[c + 1] /\ next \in L /\ n < next /\ next \in Nat /\ n \in Nat
      /\ NodeBelow(c) = next
  <2>1. c \in Nat /\ Child(c) = children[c + 1] /\ next \in L /\ n < next
    BY <1>2, ChildStands
  <2>2. \A i \in L : i \in Nat
    BY <1>2, LinkFacts
  <2> QED
    BY <1>2, <2>1, <2>2 DEF NodeBelow, NoChild
<1>4. x \in TrialRecord /\ x.child = b /\ x.tried = c
  BY <1>3 DEF TrialRecord
<1> HIDE DEF x
<1>5. /\ l \in Nat /\ more \in Seq(TrialRecord) /\ Len(more) = l + 1
      /\ more[l + 1] = x /\ \A t \in 1..l : more[t] = trials[t]
  <2>1. trials \in Seq(TrialRecord)
    BY DEF Past
  <2> QED
    BY <1>4, <2>1
<1>6. Looked(E, c) /\ Looked(E, b)
  BY <1>1 DEF Looked, Past
<1>7. \A d \in E : d \notin BlockOf(nodes, next)
  <2> SUFFICES ASSUME NEW d \in E, d \in BlockOf(nodes, next) PROVE FALSE
    OBVIOUS
  <2>1. CASE d = c
    <3>1. n = next
      BY <1>2, <1>3, <2>1 DEF Links
    <3> QED
      BY <1>3, <3>1
  <2>2. CASE d \in D
    <3>1. PICK p \in L : d \in BlockOf(nodes, p) /\ (p = 0 \/ \E a \in D : Child(a).index = p)
      BY <2>2 DEF Past
    <3>2. p = next
      BY <1>2, <1>3, <3>1 DEF Links
    <3>3. PICK a \in D : Child(a).index = next
      BY <3>1, <3>2
    <3>4. PICK q \in L : a \in BlockOf(nodes, q)
      BY DEF Past
    <3>5. children[a + 1].index = children[c + 1].index /\ children[c + 1].index # 0
      BY <1>3, <3>3 DEF Child
    <3>6. a = c
      BY <1>2, <3>4, <3>5 DEF Links
    <3> QED
      BY <1>1, <3>6
  <2> QED
    BY <2>1, <2>2
<1>8. /\ E \subseteq Indices(children)
      /\ \A d \in E : \E p \in L : d \in BlockOf(nodes, p) /\ (p = 0 \/ \E a \in E : Child(a).index = p)
      /\ \A d \in E : d \in BlockOf(nodes, n) => d < c + 1
      /\ \A t \in 1..l :
           /\ Looked(E, trials[t].child) /\ NodeBelow(trials[t].child) \in L
           /\ NodeBelow(trials[t].child) < n
           /\ \A d \in E : d \in BlockOf(nodes, NodeBelow(trials[t].child)) => d <= trials[t].tried
           /\ \A u \in 1..l : u < t => NodeBelow(trials[u].child) < NodeBelow(trials[t].child)
  BY <1>1 DEF Past
<1> HIDE DEF E, more, l, from
<1>9. \A d \in E : d \in BlockOf(nodes, n) => d <= c
  <2> TAKE d \in E
  <2> HAVE d \in BlockOf(nodes, n)
  <2>1. d < c + 1 /\ d \in Nat
    BY <1>2, <1>8, ChildStands
  <2> QED
    BY <1>3, <2>1
<1>10. \A t \in 1..l : NodeBelow(trials[t].child) \in Nat
  BY <1>2, <1>8, LinkFacts
<1> DEFINE Lies(t) ==
             /\ Looked(E, more[t].child) /\ NodeBelow(more[t].child) \in L
             /\ NodeBelow(more[t].child) < NodeBelow(c)
             /\ \A d \in E : d \in BlockOf(nodes, NodeBelow(more[t].child)) => d <= more[t].tried
             /\ \A u \in 1..Len(more) : u < t => NodeBelow(more[u].child) < NodeBelow(more[t].child)
<1>11. \A t \in 1..Len(more) : Lies(t)
  <2> TAKE t \in 1..Len(more)
  <2>1. CASE t \in 1..l
    <3>1. more[t] = trials[t]
      BY <1>5, <2>1
    <3>2. \A u \in 1..Len(more) : u < t => u \in 1..l /\ more[u] = trials[u]
      BY <1>5, <2>1
    <3>3. NodeBelow(trials[t].child) < NodeBelow(c)
      BY <1>3, <1>8, <1>10, <2>1
    <3> QED
      BY <1>8, <2>1, <3>1, <3>2, <3>3
  <2>2. CASE t = l + 1
    <3>1. more[t] = x /\ NodeBelow(x.child) = n
      BY <1>4, <1>5, <2>2
    <3>2. \A u \in 1..Len(more) : u < t => u \in 1..l /\ more[u] = trials[u]
      BY <1>5, <2>2
    <3>3. \A u \in 1..Len(more) : u < t => NodeBelow(more[u].child) < n
      BY <1>8, <3>2
    <3>4. Looked(E, more[t].child) /\ NodeBelow(more[t].child) \in L /\ NodeBelow(more[t].child) < NodeBelow(c)
      BY <1>2, <1>3, <1>4, <1>6, <3>1
    <3>5. \A d \in E : d \in BlockOf(nodes, NodeBelow(more[t].child)) => d <= more[t].tried
      BY <1>4, <1>9, <3>1
    <3> QED
      BY <3>1, <3>3, <3>4, <3>5
  <2>3. t \in 1..l \/ t = l + 1
    BY <1>5
  <2> QED
    BY <2>1, <2>2, <2>3
<1>12. Past(L, E, c, from, more)
  BY <1>3, <1>5, <1>6, <1>7, <1>8, <1>11 DEF Past
<1>13. Past(L, E, c, from, <<>>)
  <2>1. <<>> \in Seq(TrialRecord) /\ Len(<<>>) = 0
    OBVIOUS
  <2>2. \A t \in 1..Len(<<>>) : FALSE
    BY <2>1
  <2> QED
    BY <1>3, <1>6, <1>7, <1>8, <2>1, <2>2 DEF Past
<1> QED
  BY <1>1, <1>12, <1>13 DEF E, more, from, x

(* Going back to a trial it goes on behind the dot tried. *)
LEMMA PastBack ==
  ASSUME NEW L, NEW pos, Tree(nodes, children, L, root_state, pos),
         NEW D, NEW b, NEW first, NEW trials, Past(L, D, b, first, trials), trials # <<>>
  PROVE  Past(L, D, Last(trials).child, Last(trials).tried + 1, Front(trials))
<1> DEFINE l == Len(trials)
           less == Front(trials)
           x == Last(trials)
<1>1. trials \in Seq(TrialRecord)
  BY DEF Past
<1>2. /\ l \in Nat \ {0} /\ less \in Seq(TrialRecord) /\ Len(less) = l - 1
      /\ x = trials[l] /\ x \in TrialRecord /\ \A u \in 1..(l - 1) : less[u] = trials[u]
  BY <1>1, FrontIs
<1>3. /\ D \subseteq Indices(children)
      /\ \A d \in D : \E p \in L : d \in BlockOf(nodes, p) /\ (p = 0 \/ \E a \in D : Child(a).index = p)
      /\ \A t \in 1..l :
           /\ Looked(D, trials[t].child) /\ NodeBelow(trials[t].child) \in L
           /\ \A d \in D : d \in BlockOf(nodes, NodeBelow(trials[t].child)) => d <= trials[t].tried
           /\ \A u \in 1..l : u < t => NodeBelow(trials[u].child) < NodeBelow(trials[t].child)
  BY DEF Past
<1> HIDE DEF l, less, x
<1>4. l \in 1..l /\ \A t \in 1..Len(less) : t \in 1..l /\ t < l /\ less[t] = trials[t]
  BY <1>2
<1>5. x.tried \in Nat
  BY <1>2 DEF TrialRecord
<1>6. \A d \in D : d \in BlockOf(nodes, NodeBelow(x.child)) => d < x.tried + 1
  <2> TAKE d \in D
  <2> HAVE d \in BlockOf(nodes, NodeBelow(x.child))
  <2>1. d <= x.tried
    BY <1>2, <1>3, <1>4
  <2>2. d \in Nat
    <3>1. NodeBelow(x.child) \in L
      BY <1>2, <1>3, <1>4
    <3> QED
      BY <3>1, ChildStands
  <2> QED
    BY <1>5, <2>1, <2>2
<1>7. \A t \in 1..Len(less) :
        /\ Looked(D, less[t].child) /\ NodeBelow(less[t].child) \in L
        /\ NodeBelow(less[t].child) < NodeBelow(x.child)
        /\ \A d \in D : d \in BlockOf(nodes, NodeBelow(less[t].child)) => d <= less[t].tried
        /\ \A u \in 1..Len(less) : u < t => NodeBelow(less[u].child) < NodeBelow(less[t].child)
  BY <1>2, <1>3, <1>4
<1>8. Looked(D, x.child) /\ NodeBelow(x.child) \in L
  BY <1>2, <1>3, <1>4
<1>9. Past(L, D, x.child, x.tried + 1, less)
  BY <1>2, <1>3, <1>6, <1>7, <1>8 DEF Past
<1> QED
  BY <1>9 DEF x, less

(* After n turns the children D are enough: two turns for each, the one    *)
(* that enters it and the one that comes back from it; dots not come back  *)
(* from are saved up.                                                      *)
Budget(n, D, trials) == n + Len(trials) <= 2 * Cardinality(D)
(* A turn that is done with one more child may save up one more.           *)
LEMMA BudgetMore ==
  ASSUME NEW n \in Nat, NEW D, IsFiniteSet(D), NEW c, c \notin D, NEW ts, Len(ts) \in Nat, Budget(n, D, ts),
         NEW left, Len(left) \in 0..(Len(ts) + 1)
  PROVE  Budget(n + 1, D \cup {c}, left)
<1> DEFINE d == Cardinality(D)
           e == Cardinality(D \cup {c})
           t == Len(ts)
           u == Len(left)
<1>1. d \in Nat
  BY FS_CardinalityType
<1>2. e = d + 1
  BY FS_AddElement
<1>3. n + t <= 2 * d
  BY DEF Budget
<1>4. t \in Nat /\ u \in 0..(t + 1)
  OBVIOUS
<1> HIDE DEF d, e, t, u
<1>5. (n + 1) + u <= 2 * e
  BY <1>1, <1>2, <1>3, <1>4
<1> QED
  BY <1>5 DEF Budget, u, e

(* A turn that comes back from a dot spends what was saved up.             *)
LEMMA BudgetBack ==
  ASSUME NEW n \in Nat, NEW D, IsFiniteSet(D), NEW ts, Len(ts) \in Nat \ {0}, Budget(n, D, ts),
         NEW left, Len(left) = Len(ts) - 1
  PROVE  Budget(n + 1, D, left)
<1> DEFINE d == Cardinality(D)
           t == Len(ts)
           u == Len(left)
<1>1. d \in Nat
  BY FS_CardinalityType
<1>2. n + t <= 2 * d
  BY DEF Budget
<1>3. t \in Nat /\ u = t - 1
  OBVIOUS
<1> HIDE DEF d, t, u
<1>4. (n + 1) + u <= 2 * d
  BY <1>1, <1>2, <1>3
<1> QED
  BY <1>4 DEF Budget, u, d

(* The search is never done with more children than there are.             *)
LEMMA PastFinite ==
  ASSUME Vectors(nodes, children),
         NEW L, NEW D, NEW b, NEW first, NEW trials, Past(L, D, b, first, trials)
  PROVE  IsFiniteSet(D) /\ Cardinality(D) \in Nat /\ Cardinality(D) <= Len(children)
<1> DEFINE l == Len(children)
           C == 0..(l - 1)
<1>1. l \in Nat
  BY VectorFacts
<1>2. D \in SUBSET C
  BY DEF Past, Indices
<1> HIDE DEF l
<1>3. IsFiniteSet(C) /\ Cardinality(C) <= l
  <2>1. 0 \in Int /\ l - 1 \in Int
    BY <1>1
  <2>2. IsFiniteSet(0..(l - 1)) /\ Cardinality(0..(l - 1)) = IF 0 > l - 1 THEN 0 ELSE (l - 1) - 0 + 1
    BY <2>1, FS_Interval
  <2> QED
    BY <1>1, <2>2
<1> HIDE DEF C
<1>4. IsFiniteSet(D) /\ Cardinality(D) <= Cardinality(C)
  BY <1>2, <1>3, FS_Subset
<1>5. Cardinality(D) \in Nat /\ Cardinality(C) \in Nat
  BY <1>3, <1>4, FS_CardinalityType
<1> QED
  BY <1>1, <1>3, <1>4, <1>5 DEF l

(* Each turn of the search that does not end it is done with one more      *)
(* child, or comes back from a dot.                                        *)
LEMMA PastTurn ==
  ASSUME NEW L, NEW pos, Tree(nodes, children, L, root_state, pos), NEW m \in Moves(root_state),
         NEW w, WalkHolds(L, pos, m, w), ~(w.i > Len(m)), ~(WalkTurn(m, w).i > Len(m)),
         NEW D, Past(L, D, w.child, w.first, w.trials), NEW n \in Nat, Budget(n, D, w.trials)
  PROVE  \E E : /\ Past(L, E, WalkTurn(m, w).child, WalkTurn(m, w).first, WalkTurn(m, w).trials)
                /\ Budget(n + 1, E, WalkTurn(m, w).trials)
<1> DEFINE v == WalkTurn(m, w)
           p == NodeBelow(w.child)
           ts == w.trials
<1>1. root_state \in State /\ Vectors(nodes, children)
  <2>1. root_state \in Nodal
    BY DEF Tree, Stands
  <2> QED
    BY <2>1, SplitGameAssumption DEF Tree
<1>2. m \in Seq(Action) /\ Len(m) \in Nat
  BY <1>1, MoveLeads
<1>3. w.child \in Int /\ w.first \in Nat /\ ts \in Seq(TrialRecord) /\ Len(ts) \in Nat
  <2>1. w.child \in Int /\ w.first \in Nat /\ ts \in Seq(TrialRecord)
    BY DEF WalkHolds, WalkRecord, TrialRecord
  <2> QED
    BY <2>1
<1>4. p \in L /\ IsFiniteSet(D)
  <2>1. p \in L
    BY DEF Past
  <2> QED
    BY <1>1, <2>1, PastFinite
<1>5. PICK c, trials, j : Goes(m, w, c, trials, j) /\ v = Turned(m, w, c, trials, j)
  BY WalkTurnIs
<1>6. GivenUp(m).i > Len(m)
  BY <1>2 DEF GivenUp
<1>7. /\ Hits(m, w) # {} => c \in BlockOf(nodes, p) /\ w.first <= c /\ c \in Nat
      /\ Hits(m, w) = {} => trials = ts
      /\ Hits(m, w) # {} => trials = <<>> \/ trials = Append(ts, [child |-> w.child, tried |-> c])
  <2>1. c = Min(Hits(m, w))
    BY <1>5 DEF Goes
  <2>2. Hits(m, w) \subseteq BlockOf(nodes, p) /\ Hits(m, w) \subseteq Nat /\ \A x \in Hits(m, w) : w.first <= x
    BY <1>4, HitFacts
  <2>3. Hits(m, w) # {} => c \in Hits(m, w)
    BY <2>1, <2>2, MinLeast
  <2> QED
    BY <1>5, <2>2, <2>3 DEF Goes
<1>8. \/ /\ Hits(m, w) # {} /\ Child(c).index # 0
         /\ v = [i |-> j, child |-> c, first |-> Node(Child(c).index).first, trials |-> trials]
      \/ /\ ~(Hits(m, w) # {} /\ Child(c).index # 0) /\ trials # <<>>
         /\ v = [i |-> j, child |-> Last(trials).child, first |-> Last(trials).tried + 1, trials |-> Front(trials)]
  BY <1>5, <1>6 DEF Turned
<1> HIDE DEF v, ts
<1>9. CASE /\ Hits(m, w) # {} /\ Child(c).index # 0
           /\ v = [i |-> j, child |-> c, first |-> Node(Child(c).index).first, trials |-> trials]
  <2>1. v.child = c /\ v.first = Node(Child(c).index).first /\ v.trials = trials
    BY <1>9
  <2>2. /\ c \notin D
        /\ Past(L, D \cup {c}, c, Node(Child(c).index).first, Append(ts, [child |-> w.child, tried |-> c]))
        /\ Past(L, D \cup {c}, c, Node(Child(c).index).first, <<>>)
    BY <1>3, <1>7, <1>9, PastEnter DEF ts
  <2>3. Past(L, D \cup {c}, v.child, v.first, v.trials)
    BY <1>7, <1>9, <2>1, <2>2
  <2>4. Len(v.trials) \in 0..(Len(ts) + 1)
    <3>1. CASE trials = <<>>
      BY <1>3, <2>1, <3>1
    <3>2. CASE trials = Append(ts, [child |-> w.child, tried |-> c])
      <4>1. Len(trials) = Len(ts) + 1
        BY <1>3, <3>2
      <4> QED
        BY <1>3, <2>1, <4>1
    <3> QED
      BY <1>7, <1>9, <3>1, <3>2
  <2>5. Budget(n + 1, D \cup {c}, v.trials)
    BY <1>3, <1>4, <2>2, <2>4, BudgetMore DEF ts
  <2> QED
    BY <2>3, <2>5 DEF v
<1>10. CASE /\ ~(Hits(m, w) # {} /\ Child(c).index # 0) /\ trials # <<>>
            /\ v = [i |-> j, child |-> Last(trials).child, first |-> Last(trials).tried + 1, trials |-> Front(trials)]
  <2>1. v.child = Last(trials).child /\ v.first = Last(trials).tried + 1 /\ v.trials = Front(trials)
    BY <1>10
  <2>2. CASE Hits(m, w) = {}
    <3>1. trials = ts
      BY <1>7, <2>2
    <3>2. Past(L, D, v.child, v.first, v.trials)
      BY <1>10, <2>1, <3>1, PastBack DEF ts
    <3>3. Len(ts) \in Nat \ {0} /\ Len(v.trials) = Len(ts) - 1
      BY <1>3, <1>10, <2>1, <3>1, FrontIs
    <3>4. Budget(n + 1, D, v.trials)
      BY <1>4, <3>3, BudgetBack DEF ts
    <3> QED
      BY <3>2, <3>4 DEF v
  <2>3. CASE Hits(m, w) # {}
    <3> DEFINE x == [child |-> w.child, tried |-> c]
    <3>1. trials = Append(ts, x) /\ c \in BlockOf(nodes, p) /\ w.first <= c /\ c \in Nat
      BY <1>7, <1>10, <2>3
    <3>2. x \in TrialRecord /\ x.child = w.child /\ x.tried = c
      BY <1>3, <3>1 DEF TrialRecord
    <3> HIDE DEF x
    <3>3. Last(trials) = x /\ Front(trials) = ts
      BY <1>3, <3>1, <3>2, AppendedBack
    <3>4. v.child = w.child /\ v.first = c + 1 /\ v.trials = ts
      BY <2>1, <3>2, <3>3
    <3>5. c \notin D /\ Past(L, D \cup {c}, w.child, c + 1, ts)
      BY <1>3, <3>1, PastSkip DEF ts
    <3>6. Len(ts) \in 0..(Len(ts) + 1)
      BY <1>3
    <3>7. Budget(n + 1, D \cup {c}, ts)
      BY <1>3, <1>4, <3>5, <3>6, BudgetMore DEF ts
    <3> QED
      BY <3>4, <3>5, <3>7 DEF v
  <2> QED
    BY <2>2, <2>3
<1> QED
  BY <1>8, <1>9, <1>10

(* What holds of each turn of the loop of Walk by its number, too.         *)
LEMMA WalkRuns ==
  ASSUME NEW m, Len(children) \in Nat, NEW S, WalkStart \in S[0],
         \A n \in Nat : \A w \in S[n] : WalkTurn(m, w) \in S[n + 1]
  PROVE  \E w \in S[2 * Len(children) + 1] : Walk(m) = IF w.i > Len(m) THEN w.child ELSE NoChild
<1> DEFINE top == 2 * Len(children) + 1
           f == CHOOSE g : WalkSteps(m, WalkStart, top, g)
<1>1. top \in Nat
  OBVIOUS
<1>2. Walk(m) = IF f[top].i > Len(m) THEN f[top].child ELSE NoChild
  BY DEF Walk, WalkSteps, WalkStart
<1> HIDE DEF top
<1>3. WalkSteps(m, WalkStart, top, f)
  <2>1. \E g : WalkSteps(m, WalkStart, top, g)
    BY <1>1, WalkStepsExist
  <2> QED
    BY <2>1
<1> HIDE DEF f
<1>4. \A n \in 0..top : f[n] = IF n = 0 THEN WalkStart ELSE WalkTurn(m, f[n - 1])
  BY <1>3 DEF WalkSteps
<1> DEFINE T == {n \in Nat : n <= top => f[n] \in S[n]}
<1>5. 0 \in T
  <2>1. f[0] = WalkStart
    BY <1>1, <1>4
  <2> QED
    BY <2>1
<1>6. ASSUME NEW n \in Nat, n \in T PROVE n + 1 \in T
  <2> SUFFICES ASSUME n + 1 <= top PROVE f[n + 1] \in S[n + 1]
    OBVIOUS
  <2>1. n + 1 \in 0..top /\ n + 1 # 0 /\ (n + 1) - 1 = n /\ n <= top
    BY <1>1
  <2>2. f[n + 1] = WalkTurn(m, f[n])
    BY <1>4, <2>1
  <2> QED
    BY <1>6, <2>1, <2>2
<1> HIDE DEF T
<1>7. \A n \in Nat : n \in T
  BY <1>5, <1>6, SetInduction
<1>8. f[top] \in S[top]
  BY <1>1, <1>7 DEF T
<1> QED
  BY <1>2, <1>8 DEF top

(* After n turns the search for the move m is over, or has done with       *)
(* enough children for them.                                               *)
Searches(f, L, pos, m, n, w) ==
  /\ WalkHolds(L, pos, m, w)
  /\ Tracks(f, pos, m, w)
  /\ \/ w.i > Len(m)
     \/ \E D : Past(L, D, w.child, w.first, w.trials) /\ Budget(n, D, w.trials)

(* The search begins on track.                                             *)
LEMMA SearchBegins ==
  ASSUME NEW L, NEW pos, Tree(nodes, children, L, root_state, pos), NEW m \in Moves(root_state),
         NEW f, EndsStep(nodes, children, f), NEW e \in f[0], e.text = m, ~e.hidden
  PROVE  Searches(f, L, pos, m, 0, WalkStart)
<1>1. Vectors(nodes, children) /\ Links(nodes, children, L) /\ root_state \in State /\ 0 \in L /\ 0 \in Indices(nodes)
  <2>1. root_state \in Nodal
    BY DEF Tree, Stands
  <2> QED
    BY <2>1, SplitGameAssumption DEF Tree, Links
<1>2. m \in Seq(Action) /\ Len(m) \in Nat /\ Len(m) # 0 /\ m # <<>>
  <2>1. m \in Seq(Action) /\ m # <<>>
    BY <1>1, MoveLeads
  <2> QED
    BY <2>1
<1>3. WalkStart.i = 1 /\ WalkStart.child = NoChild /\ WalkStart.first = Node(0).first /\ WalkStart.trials = <<>>
  BY DEF WalkStart
<1>4. NodeBelow(NoChild) = 0 /\ Node(0) = nodes[1] /\ Node(0).first \in Nat /\ NoChild \in Int
  BY <1>1, VectorFacts DEF NodeBelow, Node, NoChild
<1>5. Len(<<>>) = 0 /\ <<>> \in Seq(TrialRecord) /\ \A t \in 1..Len(<<>>) : FALSE
  OBVIOUS
<1>6. WalkHolds(L, pos, m, WalkStart)
  <2>1. WalkStart \in WalkRecord
    BY <1>4 DEF WalkStart, WalkRecord
  <2>2. 1 \in 1..(Len(m) + 1)
    BY <1>2
  <2> QED
    BY <1>3, <1>5, <2>1, <2>2 DEF WalkHolds, WalkStands
<1>7. PICK k \in SeenIn(nodes, children, 0) : e \in EndsAt(nodes, children, f, k)
  <2>1. f[0] = EndsBelow(nodes, children, f, 0)
    BY <1>1 DEF EndsStep
  <2> QED
    BY <2>1 DEF EndsBelow
<1>8. k \in BlockOf(nodes, 0) /\ Child(k).index # 0 /\ Node(0).first <= k
  <2>1. k \in BlockOf(nodes, 0) /\ children[k + 1].index # 0
    BY <1>7 DEF SeenIn
  <2>2. nodes[0 + 1].first <= k
    BY <2>1 DEF BlockOf, ChildIndices
  <2> QED
    BY <1>4, <2>1, <2>2 DEF Child
<1>9. RestOf(m, 1) = m
  BY <1>2 DEF RestOf
<1>10. OnTrack(f, 0, Node(0).first, RestOf(m, 1))
  BY <1>7, <1>8, <1>9 DEF OnTrack
<1>11. Tracks(f, pos, m, WalkStart)
  <2>1. 1 \in 1..Len(m)
    BY <1>2
  <2> QED
    BY <1>3, <1>4, <1>10, <2>1 DEF Tracks
<1>12. Past(L, {}, NoChild, Node(0).first, <<>>)
  BY <1>1, <1>4, <1>5 DEF Past, Looked
<1>13. Budget(0, {}, <<>>)
  BY FS_EmptySet DEF Budget
<1> QED
  BY <1>3, <1>6, <1>11, <1>12, <1>13 DEF Searches

(* It goes on so with each turn.                                           *)
LEMMA SearchTurns ==
  ASSUME Telling, ~Unfinished,
         NEW L, NEW pos, Tree(nodes, children, L, root_state, pos), NEW m \in Moves(root_state),
         NEW f, EndsStep(nodes, children, f), NEW n \in Nat, NEW w, Searches(f, L, pos, m, n, w)
  PROVE  Searches(f, L, pos, m, n + 1, WalkTurn(m, w))
<1> DEFINE v == WalkTurn(m, w)
<1>1. WalkHolds(L, pos, m, w) /\ Tracks(f, pos, m, w)
  BY DEF Searches
<1>2. WalkHolds(L, pos, m, v) /\ Tracks(f, pos, m, v)
  BY <1>1, WalkTurnHolds, TracksTurn
<1>3. w.i > Len(m) => v = w
  BY DEF WalkTurn
<1>4. \/ v.i > Len(m)
      \/ \E E : Past(L, E, v.child, v.first, v.trials) /\ Budget(n + 1, E, v.trials)
  <2>1. CASE w.i > Len(m)
    BY <1>3, <2>1
  <2>2. CASE ~(w.i > Len(m)) /\ ~(v.i > Len(m))
    <3>1. PICK D : Past(L, D, w.child, w.first, w.trials) /\ Budget(n, D, w.trials)
      BY <2>2 DEF Searches
    <3> QED
      BY <1>1, <2>2, <3>1, PastTurn
  <2> QED
    BY <2>1, <2>2
<1> QED
  BY <1>2, <1>4 DEF Searches

(* A move seen to its end is found, if nothing hides it and the tree is    *)
(* open nowhere.                                                           *)
LEMMA SearchFinds ==
  ASSUME Telling, ~Unfinished,
         NEW L, NEW pos, Tree(nodes, children, L, root_state, pos), NEW m \in Moves(root_state),
         NEW e \in TurnEnds[0], e.text = m, ~e.hidden
  PROVE  NodeBelow(Walk(m)) # 0
<1> DEFINE f == EndsOf(nodes, children)
           top == 2 * Len(children) + 1
           S == [n \in Nat |-> {w \in WalkRecord : Searches(f, L, pos, m, n, w)}]
<1>1. Vectors(nodes, children) /\ Len(children) \in Nat
  BY VectorFacts DEF Tree
<1>2. EndsStep(nodes, children, f) /\ e \in f[0]
  BY <1>1, EndsExist, TurnEndsIs
<1> HIDE DEF f
<1>3. WalkStart \in S[0]
  <2>1. Searches(f, L, pos, m, 0, WalkStart)
    BY <1>2, SearchBegins
  <2> QED
    BY <2>1 DEF Searches, WalkHolds
<1>4. \A n \in Nat : \A w \in S[n] : WalkTurn(m, w) \in S[n + 1]
  <2> TAKE n \in Nat
  <2> TAKE w \in S[n]
  <2>1. Searches(f, L, pos, m, n + 1, WalkTurn(m, w))
    BY <1>2, SearchTurns
  <2>2. WalkTurn(m, w) \in WalkRecord /\ n + 1 \in Nat
    BY <2>1 DEF Searches, WalkHolds
  <2> QED
    BY <2>1, <2>2
<1>5. \A w \in S[top] : Searches(f, L, pos, m, top, w)
  <2>1. top \in Nat
    BY <1>1
  <2> HIDE DEF top
  <2> QED
    BY <2>1
<1> HIDE DEF S
<1>6. PICK w \in S[top] : Walk(m) = IF w.i > Len(m) THEN w.child ELSE NoChild
  BY <1>1, <1>3, <1>4, WalkRuns
<1>7. Searches(f, L, pos, m, top, w)
  BY <1>5
<1>8. w.i > Len(m)
  <2> SUFFICES ASSUME ~(w.i > Len(m)) PROVE FALSE
    OBVIOUS
  <2>1. PICK D : Past(L, D, w.child, w.first, w.trials) /\ Budget(top, D, w.trials)
    BY <1>7 DEF Searches
  <2>2. Cardinality(D) \in Nat /\ Cardinality(D) <= Len(children)
    BY <1>1, <2>1, PastFinite
  <2>3. Len(w.trials) \in Nat
    <3>1. w.trials \in Seq(TrialRecord)
      BY <2>1 DEF Past
    <3> QED
      BY <3>1
  <2>4. top + Len(w.trials) <= 2 * Cardinality(D)
    BY <2>1 DEF Budget
  <2> DEFINE d == Cardinality(D)
             l == Len(children)
             t == Len(w.trials)
  <2>5. d \in Nat /\ l \in Nat /\ t \in Nat /\ d <= l /\ (2 * l + 1) + t <= 2 * d
    BY <1>1, <2>2, <2>3, <2>4
  <2> HIDE DEF d, l, t
  <2> QED
    BY <2>5
<1>9. w.child # NoChild
  <2>1. ~(w.i \in 1..Len(m))
    <3>1. w.i \in Nat /\ Len(m) \in Nat
      <4>1. root_state \in State
        <5>1. root_state \in Nodal
          BY DEF Tree, Stands
        <5> QED
          BY <5>1, SplitGameAssumption
      <4> QED
        BY <1>7, <4>1, MoveLeads DEF Searches, WalkHolds, WalkRecord
    <3> QED
      BY <1>8, <3>1
  <2> QED
    BY <1>7, <2>1 DEF Searches, Tracks
<1>10. Walk(m) # NoChild
  BY <1>6, <1>8, <1>9
<1>11. Child(Walk(m)).index # 0
  BY <1>10, WalkFinds
<1> QED
  BY <1>10, <1>11 DEF NodeBelow

(* So where a search fails, nothing was known of the move played, it hides,*)
(* or the tree is open somewhere.                                          *)
KeptOrForgotten(m) ==
  LET ends == {e \in TurnEnds[0] : e.text = m}
  IN /\ root_state' = AfterMove(root_state, m)
     /\ \/ \E e \in ends : /\ root_sim_count' = Child(e.child).sim_count
                           /\ Knowledge[0]' = Knowledge[Child(e.child).index]
        \/ /\ Unfinished \/ \A e \in ends : e.hidden
           /\ root_sim_count' = 0
           /\ Knowledge[0]' = {}
(* This holds of each move the tree is re-rooted along.                    *)
LEMMA MoveKept ==
  ASSUME Telling, NEW rolled, NEW L, NEW pos, Inv(rolled, L, pos), pc = "idle",
         NEW m \in Moves(root_state), ReparentAlongMove(m)
  PROVE  KeptOrForgotten(m)
<1>2. /\ root_state' = AfterMove(root_state, m)
      /\ KeepsTurn(m) \/ (NodeBelow(Walk(m)) = 0 /\ ForgetsAll)
  BY ReparentKeeps
<1>3. Tree(nodes, children, L, root_state, pos)
  BY AtIdle
<1>4. CASE KeepsTurn(m)
  BY <1>2, <1>4 DEF KeepsTurn, KeptOrForgotten
<1>5. CASE NodeBelow(Walk(m)) = 0 /\ ForgetsAll
  <2>1. Unfinished \/ \A e \in TurnEnds[0] : e.text = m => e.hidden
    BY <1>3, <1>5, SearchFinds
  <2> QED
    BY <1>2, <1>5, <2>1 DEF ForgetsAll, KeptOrForgotten
<1> QED
  BY <1>2, <1>4, <1>5

(* What KeepsSubtree says of a step. *)
PlayedAndKept ==
  /\ root_state' # root_state /\ ~is_terminal(Node(0)) =>
       \E m \in Moves(root_state) : ReparentAlongMove(m)
  /\ \A m \in Moves(root_state) : pc = "idle" /\ ReparentAlongMove(m) => KeptOrForgotten(m)

(* Re-rooting keeps what was known of the move played.  It finds that move *)
(* wherever the tree knows a way to it that nothing hides, if no leaf is   *)
(* open within a turn: of actions in every game, of semimoves in every game*)
(* where the beginning of a move tells the state it leads to.              *)
THEOREM SemisplitKeepsSubtree ==
  ASSUME GETTER = "A" \/ Telling
  PROVE  Spec => KeepsSubtree
<1>1. SemisplitInv /\ [Next]_vars => [PlayedAndKept]_vars
  <2> SUFFICES ASSUME SemisplitInv, Next \/ UNCHANGED vars
               PROVE  PlayedAndKept
    OBVIOUS
  <2> DEFINE rolled == FALSE
  <2>1. PICK L, pos : Inv(rolled, L, pos)
    BY DEF SemisplitInv, IInv
  <2>2. Telling
    BY ActionsTelling
  <2> HIDE DEF rolled
  <2> QED
    BY <2>1, <2>2, StepReparents, MoveKept DEF Next, PlayedAndKept
<1>2. [][PlayedAndKept]_vars => KeepsSubtree
  BY PTL DEF KeepsSubtree, PlayedAndKept, KeptOrForgotten
<1> QED
  BY <1>1, <1>2, SemisplitInvariant, PTL DEF Spec

(* So does the tree that rolls up. *)
THEOREM RollupKeepsSubtree ==
  ASSUME GETTER = "A" \/ Telling
  PROVE  RollupSpec => KeepsSubtree
<1>1. RollupInv /\ [RollupNext]_vars => [PlayedAndKept]_vars
  <2> SUFFICES ASSUME RollupInv, RollupNext \/ UNCHANGED vars
               PROVE  PlayedAndKept
    OBVIOUS
  <2> DEFINE rolled == TRUE
  <2>1. PICK L, pos : Inv(rolled, L, pos)
    BY DEF RollupInv, IInv
  <2>2. Telling
    BY ActionsTelling
  <2> HIDE DEF rolled
  <2> QED
    BY <2>1, <2>2, StepReparents, MoveKept DEF RollupNext, FinishRollup, PlayedAndKept
<1>2. [][PlayedAndKept]_vars => KeepsSubtree
  BY PTL DEF KeepsSubtree, PlayedAndKept, KeptOrForgotten
<1> QED
  BY <1>1, <1>2, RollupInvariant, PTL DEF RollupSpec
=============================================================================
