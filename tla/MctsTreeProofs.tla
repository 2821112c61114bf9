--------------------------- MODULE MctsTreeProofs ---------------------------
(***************************************************************************)
(* The lemmas all proofs about sequences and trees share.  First natural   *)
(* numbers, sequences and sums; induction is by the least counterexample:  *)
(* the library's theorem about well-founded orders is about sets, and a    *)
(* set can be instantiated by every prover.  Then what fix_tree does to a  *)
(* tree: the preorder it copies lists the subtree of a node, every node    *)
(* once and after its parent, and the copy has the same children in the    *)
(* same order under every node.                                            *)
(***************************************************************************)
EXTENDS MctsTree, FiniteSetTheorems, TLAPS

-----------------------------------------------------------------------------
(* Natural numbers, sequences, sums.                                       *)

(* A set of natural numbers that is not empty has a least element.         *)
LEMMA LeastNat ==
  ASSUME NEW T, T \subseteq Nat, T # {}
  PROVE  \E x \in T : \A y \in T : x <= y
<1> DEFINE R == OpToRel(<, Nat)
<1>1. \A x, y \in Nat : x < y => <<x, y>> \in R
  BY DEF OpToRel
<1>2. IsWellFoundedOn(R, Nat)
  BY NatLessThanWellFounded
<1> HIDE DEF R
<1>3. PICK x \in T : \A y \in T : ~ (<<y, x>> \in R)
  BY <1>2, WFMin
<1>4. \A y \in T : ~ (y < x)
  BY <1>1, <1>3
<1> QED
  BY <1>4

(* Induction: a set that holds 0 and every successor holds Nat.            *)
LEMMA SetInduction ==
  ASSUME NEW S, 0 \in S, \A n \in Nat : n \in S => n + 1 \in S
  PROVE  \A n \in Nat : n \in S
<1> DEFINE T == Nat \ S
<1> SUFFICES ASSUME T # {} PROVE FALSE
  OBVIOUS
<1>1. PICK x \in T : \A y \in T : x <= y
  BY LeastNat
<1>2. x - 1 \in Nat
  OBVIOUS
<1>3. x - 1 \in S
  BY <1>1, <1>2
<1>4. (x - 1) + 1 \in S
  BY <1>2, <1>3
<1> QED
  BY <1>4

(* Course-of-values induction.                                             *)
LEMMA StrongInduction ==
  ASSUME NEW S, \A n \in Nat : (\A k \in 0..(n - 1) : k \in S) => n \in S
  PROVE  \A n \in Nat : n \in S
<1> DEFINE T == Nat \ S
<1> SUFFICES ASSUME T # {} PROVE FALSE
  OBVIOUS
<1>1. PICK x \in T : \A y \in T : x <= y
  BY LeastNat
<1>2. \A k \in 0..(x - 1) : k \in S
  BY <1>1
<1> QED
  BY <1>2
-----------------------------------------------------------------------------
(* FlattenSeq, block by block.                                             *)

FlatStep(seqs, n, g) ==
  g = [i \in 1..n |-> IF i = 1 THEN seqs[i] ELSE g[i - 1] \o seqs[i]]

(* FlattenSeq is defined by a function on the number of sequences; there   *)
(* is one.                                                                 *)
LEMMA FlatFunction ==
  ASSUME NEW seqs
  PROVE  \A n \in Nat : \E g : FlatStep(seqs, n, g)
<1> DEFINE S == {n \in Nat : \E g : FlatStep(seqs, n, g)}
<1>1. 0 \in S
  <2>1. FlatStep(seqs, 0, <<>>)
    BY DEF FlatStep
  <2> QED
    BY <2>1
<1>2. ASSUME NEW n \in Nat, n \in S
      PROVE  n + 1 \in S
  <2>1. PICK g : FlatStep(seqs, n, g)
    BY <1>2
  <2> DEFINE last == IF n = 0 THEN seqs[1] ELSE g[n] \o seqs[n + 1]
             h == [i \in 1..(n + 1) |-> IF i = n + 1 THEN last ELSE g[i]]
  <2>2. \A i \in 1..n : h[i] = g[i]
    OBVIOUS
  <2>3. \A i \in 1..n : g[i] = IF i = 1 THEN seqs[i] ELSE g[i - 1] \o seqs[i]
    BY <2>1 DEF FlatStep
  <2>4. h[n + 1] = last
    OBVIOUS
  <2>5. h = [i \in 1..(n + 1) |-> h[i]]
    OBVIOUS
  <2> HIDE DEF h
  <2>6. \A i \in 1..(n + 1) : h[i] = IF i = 1 THEN seqs[i] ELSE h[i - 1] \o seqs[i]
    <3> TAKE i \in 1..(n + 1)
    <3>1. CASE i = n + 1 /\ n = 0
      BY <3>1, <2>4
    <3>2. CASE i = n + 1 /\ n # 0
      <4>1. i - 1 = n /\ n \in 1..n /\ i # 1
        BY <3>2
      <4>2. h[i - 1] = g[n]
        BY <4>1, <2>2
      <4> QED
        BY <3>2, <2>4, <4>1, <4>2
    <3>3. CASE i # n + 1
      <4>1. i \in 1..n /\ (i # 1 => i - 1 \in 1..n)
        BY <3>3
      <4>2. h[i] = g[i] /\ (i # 1 => h[i - 1] = g[i - 1])
        BY <4>1, <2>2
      <4> QED
        BY <4>1, <4>2, <2>3
    <3> QED
      BY <3>1, <3>2, <3>3
  <2>7. FlatStep(seqs, n + 1, h)
    BY <2>5, <2>6 DEF FlatStep
  <2> QED
    BY <2>7
<1> HIDE DEF S
<1>3. \A n \in Nat : n \in S
  BY <1>1, <1>2, SetInduction
<1> QED
  BY <1>3 DEF S

(* The flattened sequence, prefix by prefix. *)
Flat(seqs) == CHOOSE g : FlatStep(seqs, Len(seqs), g)

(* The function FlattenSeq chooses does what its definition asks of it. *)
LEMMA FlatIsFunction ==
  ASSUME NEW seqs, Len(seqs) \in Nat
  PROVE  FlatStep(seqs, Len(seqs), Flat(seqs))
<1>1. \E g : FlatStep(seqs, Len(seqs), g)
  BY FlatFunction
<1> QED
  BY <1>1 DEF Flat

(* No sequences, no elements. *)
LEMMA FlattenEmpty ==
  FlattenSeq(<<>>) = <<>>
BY DEF FlattenSeq

(* One sequence more goes to the end. *)
LEMMA FlattenAppend ==
  ASSUME NEW S, NEW seqs \in Seq(Seq(S)), NEW s \in Seq(S)
  PROVE  FlattenSeq(Append(seqs, s)) = FlattenSeq(seqs) \o s
<1> DEFINE more == Append(seqs, s)
           n == Len(seqs)
           g == Flat(seqs)
           h == Flat(more)
<1>1. more \in Seq(Seq(S)) /\ Len(more) = n + 1 /\ n \in Nat
  OBVIOUS
<1>2. \A i \in 1..n : more[i] = seqs[i]
  OBVIOUS
<1>3. more[n + 1] = s
  OBVIOUS
<1> HIDE DEF more, n
<1>4. FlatStep(seqs, n, g) /\ FlatStep(more, n + 1, h)
  BY <1>1, FlatIsFunction DEF n
<1>5. FlattenSeq(more) = h[n + 1]
  BY <1>1 DEF FlattenSeq, Flat, FlatStep
<1>6. FlattenSeq(seqs) = IF n = 0 THEN seqs ELSE g[n]
  BY <1>1 DEF FlattenSeq, Flat, FlatStep, n
<1> HIDE DEF g, h
<1>7. \A i \in 1..n : g[i] = IF i = 1 THEN seqs[i] ELSE g[i - 1] \o seqs[i]
  BY <1>4 DEF FlatStep
<1>8. \A i \in 1..(n + 1) : h[i] = IF i = 1 THEN more[i] ELSE h[i - 1] \o more[i]
  BY <1>4 DEF FlatStep
<1>9. \A i \in Nat : i \in {k \in Nat : k \in 1..n => h[k] = g[k]}
  <2> DEFINE Same == {k \in Nat : k \in 1..n => h[k] = g[k]}
  <2>1. 0 \in Same
    OBVIOUS
  <2>2. ASSUME NEW i \in Nat, i \in Same
        PROVE  i + 1 \in Same
    <3> SUFFICES ASSUME i + 1 \in 1..n PROVE h[i + 1] = g[i + 1]
      OBVIOUS
    <3>1. CASE i = 0
      BY <3>1, <1>1, <1>2, <1>7, <1>8
    <3>2. CASE i # 0
      <4>1. i \in 1..n /\ i + 1 \in 1..(n + 1) /\ (i + 1) - 1 = i /\ i + 1 # 1
        BY <3>2, <1>1
      <4>2. h[i] = g[i]
        BY <4>1, <2>2
      <4>3. h[i + 1] = h[i] \o more[i + 1]
        BY <4>1, <1>8
      <4>4. g[i + 1] = g[i] \o seqs[i + 1]
        BY <4>1, <1>7
      <4> QED
        BY <4>2, <4>3, <4>4, <1>2
    <3> QED
      BY <3>1, <3>2
  <2> HIDE DEF Same
  <2>3. \A i \in Nat : i \in Same
    BY <2>1, <2>2, SetInduction
  <2> QED
    BY <2>3 DEF Same
<1>10. CASE n = 0
  <2>1. seqs = <<>>
    BY <1>10 DEF n
  <2>2. h[n + 1] = s
    BY <1>10, <1>8, <1>3, <1>1
  <2>3. <<>> \o s = s
    OBVIOUS
  <2> QED
    BY <1>5, <1>6, <1>10, <2>1, <2>2, <2>3 DEF more
<1>11. CASE n # 0
  <2>1. n \in 1..n /\ n + 1 \in 1..(n + 1) /\ n + 1 # 1 /\ (n + 1) - 1 = n
    BY <1>11, <1>1
  <2>2. h[n + 1] = h[n] \o s
    BY <2>1, <1>8, <1>3
  <2>3. h[n] = g[n]
    BY <2>1, <1>9, <1>1
  <2> QED
    BY <1>5, <1>6, <1>11, <2>2, <2>3 DEF more
<1> QED
  BY <1>10, <1>11
(* Where the blocks of a flattened sequence begin. *)
Offset(seqs, k) == Len(FlattenSeq(SubSeq(seqs, 1, k)))

(* The same for the prefixes of a list of sequences. *)
LEMMA FlattenPrefix ==
  ASSUME NEW S, NEW seqs \in Seq(Seq(S)), NEW k \in 0..(Len(seqs) - 1)
  PROVE  FlattenSeq(SubSeq(seqs, 1, k + 1)) =
           FlattenSeq(SubSeq(seqs, 1, k)) \o seqs[k + 1]
<1>1. SubSeq(seqs, 1, k) \in Seq(Seq(S)) /\ seqs[k + 1] \in Seq(S)
  OBVIOUS
<1>2. SubSeq(seqs, 1, k + 1) = Append(SubSeq(seqs, 1, k), seqs[k + 1])
  OBVIOUS
<1> QED
  BY <1>1, <1>2, FlattenAppend

(* Offsets of the sequences add up their lengths. *)
LEMMA FlattenTypes ==
  ASSUME NEW S, NEW seqs \in Seq(Seq(S))
  PROVE  /\ Offset(seqs, 0) = 0
         /\ \A k \in 0..Len(seqs) :
              /\ FlattenSeq(SubSeq(seqs, 1, k)) \in Seq(S)
              /\ Offset(seqs, k) \in Nat
         /\ \A k \in 0..(Len(seqs) - 1) :
              Offset(seqs, k + 1) = Offset(seqs, k) + Len(seqs[k + 1])
<1>1. SubSeq(seqs, 1, 0) = <<>>
  OBVIOUS
<1>2. FlattenSeq(SubSeq(seqs, 1, 0)) = <<>>
  BY <1>1, FlattenEmpty
<1> DEFINE T == {k \in Nat : k <= Len(seqs) => FlattenSeq(SubSeq(seqs, 1, k)) \in Seq(S)}
<1>3. 0 \in T
  <2>1. <<>> \in Seq(S)
    OBVIOUS
  <2> QED
    BY <1>2, <2>1
<1>4. ASSUME NEW k \in Nat, k \in T
      PROVE  k + 1 \in T
  <2> SUFFICES ASSUME k + 1 <= Len(seqs)
               PROVE  FlattenSeq(SubSeq(seqs, 1, k + 1)) \in Seq(S)
    OBVIOUS
  <2>1. k \in 0..(Len(seqs) - 1) /\ seqs[k + 1] \in Seq(S)
    OBVIOUS
  <2>2. FlattenSeq(SubSeq(seqs, 1, k)) \in Seq(S)
    BY <1>4
  <2>3. FlattenSeq(SubSeq(seqs, 1, k)) \o seqs[k + 1] \in Seq(S)
    BY <2>1, <2>2
  <2> QED
    BY <2>1, <2>3, FlattenPrefix
<1> HIDE DEF T
<1>5. \A k \in Nat : k \in T
  BY <1>3, <1>4, SetInduction
<1>6. \A k \in 0..Len(seqs) : FlattenSeq(SubSeq(seqs, 1, k)) \in Seq(S)
  BY <1>5 DEF T
<1>7. ASSUME NEW k \in 0..(Len(seqs) - 1)
      PROVE  Offset(seqs, k + 1) = Offset(seqs, k) + Len(seqs[k + 1])
  <2> DEFINE before == FlattenSeq(SubSeq(seqs, 1, k))
  <2>1. FlattenSeq(SubSeq(seqs, 1, k + 1)) = before \o seqs[k + 1]
    BY FlattenPrefix
  <2>2. before \in Seq(S) /\ seqs[k + 1] \in Seq(S)
    BY <1>6
  <2> HIDE DEF before
  <2>3. Len(before \o seqs[k + 1]) = Len(before) + Len(seqs[k + 1])
    BY <2>2
  <2> QED
    BY <2>1, <2>3 DEF Offset, before
<1>8. Offset(seqs, 0) = 0
  BY <1>2 DEF Offset
<1>9. \A k \in 0..Len(seqs) : Offset(seqs, k) \in Nat
  BY <1>6 DEF Offset
<1> QED
  BY <1>6, <1>7, <1>8, <1>9

(* The length of the whole is its last offset. *)
LEMMA FlattenWhole ==
  ASSUME NEW S, NEW seqs \in Seq(Seq(S))
  PROVE  /\ FlattenSeq(seqs) \in Seq(S)
         /\ Len(FlattenSeq(seqs)) = Offset(seqs, Len(seqs))
<1>1. SubSeq(seqs, 1, Len(seqs)) = seqs
  OBVIOUS
<1>2. Len(seqs) \in 0..Len(seqs)
  OBVIOUS
<1>3. FlattenSeq(SubSeq(seqs, 1, Len(seqs))) \in Seq(S)
  BY <1>2, FlattenTypes
<1> QED
  BY <1>1, <1>3 DEF Offset

(* The elements of block k of a flattened prefix stay where they are. *)
LEMMA FlattenElements ==
  ASSUME NEW S, NEW seqs \in Seq(Seq(S))
  PROVE  \A n \in Nat : n <= Len(seqs) =>
           \A k \in 0..(n - 1) : \A t \in 1..Len(seqs[k + 1]) :
             /\ Offset(seqs, k) + t \in 1..Offset(seqs, n)
             /\ FlattenSeq(SubSeq(seqs, 1, n))[Offset(seqs, k) + t] = seqs[k + 1][t]
<1> DEFINE At(n, k, t) ==
             /\ Offset(seqs, k) + t \in 1..Offset(seqs, n)
             /\ FlattenSeq(SubSeq(seqs, 1, n))[Offset(seqs, k) + t] = seqs[k + 1][t]
           T == {n \in Nat : n <= Len(seqs) =>
                   \A k \in 0..(n - 1) : \A t \in 1..Len(seqs[k + 1]) : At(n, k, t)}
<1> HIDE DEF At
<1>1. 0 \in T
  OBVIOUS
<1>2. ASSUME NEW n \in Nat, n \in T
      PROVE  n + 1 \in T
  <2> SUFFICES ASSUME n + 1 <= Len(seqs),
                      NEW k \in 0..n, NEW t \in 1..Len(seqs[k + 1])
               PROVE  At(n + 1, k, t)
    <3>1. (n + 1) - 1 = n /\ n + 1 \in Nat
      OBVIOUS
    <3> QED
      BY <3>1
  <2> DEFINE before == FlattenSeq(SubSeq(seqs, 1, n))
             after == FlattenSeq(SubSeq(seqs, 1, n + 1))
             block == seqs[n + 1]
             o == Offset(seqs, k)
  <2>1. before \in Seq(S) /\ after \in Seq(S) /\ block \in Seq(S)
    BY FlattenTypes
  <2>2. after = before \o block
    <3>1. n \in 0..(Len(seqs) - 1)
      OBVIOUS
    <3> QED
      BY <3>1, FlattenPrefix
  <2>3. Len(before) = Offset(seqs, n) /\ Len(after) = Offset(seqs, n + 1)
    BY DEF Offset
  <2>4. o \in Nat /\ t \in Nat
    <3>1. Len(seqs[k + 1]) \in Nat
      OBVIOUS
    <3> QED
      BY <3>1, FlattenTypes
  <2>5. CASE k = n
    <3>1. o = Len(before)
      BY <2>5, <2>3
    <3> HIDE DEF before, after, block, o
    <3>2. t \in 1..Len(block)
      BY <2>5 DEF block
    <3>3. o + t \in 1..Len(after) /\ after[o + t] = block[t]
      BY <2>1, <2>2, <2>4, <3>1, <3>2
    <3> QED
      BY <2>3, <2>5, <3>3 DEF At, o, after, block
  <2>6. CASE k # n
    <3>1. k \in 0..(n - 1) /\ n <= Len(seqs)
      BY <2>6
    <3>2. At(n, k, t)
      BY <1>2, <3>1
    <3> HIDE DEF before, after, block
    <3>3. o + t \in 1..Len(before) /\ before[o + t] = seqs[k + 1][t]
      BY <2>3, <3>2 DEF At, before
    <3> HIDE DEF o
    <3>4. o + t \in 1..Len(after) /\ after[o + t] = before[o + t]
      BY <2>1, <2>2, <2>4, <3>3
    <3> QED
      BY <2>3, <3>3, <3>4 DEF At, o, after
  <2> QED
    BY <2>5, <2>6
<1> HIDE DEF T
<1>3. \A n \in Nat : n \in T
  BY <1>1, <1>2, SetInduction
<1> QED
  BY <1>3 DEF T, At

Placed(seqs, k, t) ==
  /\ Offset(seqs, k) + t \in 1..Len(FlattenSeq(seqs))
  /\ FlattenSeq(seqs)[Offset(seqs, k) + t] = seqs[k + 1][t]

(* Element t of sequence k + 1 lies t places behind its offset. *)
LEMMA FlattenPlaced ==
  ASSUME NEW S, NEW seqs \in Seq(Seq(S)),
         NEW k \in 0..(Len(seqs) - 1), NEW t \in 1..Len(seqs[k + 1])
  PROVE  Placed(seqs, k, t)
<1> DEFINE n == Len(seqs)
<1>1. n \in Nat /\ k \in 0..(n - 1)
  OBVIOUS
<1>2. SubSeq(seqs, 1, n) = seqs
  OBVIOUS
<1>3. Offset(seqs, n) = Len(FlattenSeq(seqs))
  BY <1>2 DEF Offset
<1>4. n <= Len(seqs)
  BY <1>1
<1> HIDE DEF n
<1>5. /\ Offset(seqs, k) + t \in 1..Offset(seqs, n)
      /\ FlattenSeq(SubSeq(seqs, 1, n))[Offset(seqs, k) + t] = seqs[k + 1][t]
  BY <1>1, <1>4, FlattenElements
<1> QED
  BY <1>2, <1>3, <1>5 DEF Placed

(* Every place lies in one block. *)
LEMMA FlattenPlaces ==
  ASSUME NEW S, NEW seqs \in Seq(Seq(S)),
         NEW p \in 1..Offset(seqs, Len(seqs))
  PROVE  \E k \in 0..(Len(seqs) - 1) : \E t \in 1..Len(seqs[k + 1]) :
           p = Offset(seqs, k) + t
<1> DEFINE T == {k \in 0..Len(seqs) : p <= Offset(seqs, k)}
<1>1. Len(seqs) \in T /\ T \subseteq Nat
  OBVIOUS
<1>2. PICK k \in T : \A j \in T : k <= j
  <2> HIDE DEF T
  <2> QED
    BY <1>1, LeastNat
<1>3. k # 0
  BY FlattenTypes
<1>4. k - 1 \in 0..(Len(seqs) - 1) /\ (k - 1) + 1 = k
  BY <1>3
<1>5. k - 1 \notin T
  BY <1>2, <1>4
<1>6. Offset(seqs, k - 1) \in Nat /\ Offset(seqs, k - 1) < p
  BY <1>4, <1>5, FlattenTypes
<1>7. Offset(seqs, k) = Offset(seqs, k - 1) + Len(seqs[k])
  BY <1>4, FlattenTypes
<1>8. p <= Offset(seqs, k) /\ Len(seqs[k]) \in Nat
  BY <1>4
<1> DEFINE t == p - Offset(seqs, k - 1)
<1>9. t \in 1..Len(seqs[k]) /\ p = Offset(seqs, k - 1) + t
  BY <1>6, <1>7, <1>8
<1> HIDE DEF t
<1> QED
  BY <1>4, <1>9
-----------------------------------------------------------------------------
(* MapThenSumSet adds in an order nobody knows: any order will do.         *)

Pick(s) == CHOOSE x \in s : TRUE
SumStep(f, S, g) ==
  g = [s \in SUBSET S |-> IF s = {} THEN 0 ELSE f[Pick(s)] + g[s \ {Pick(s)}]]
SumsOf(f, S) == CHOOSE g : SumStep(f, S, g)
SumOver(f, S) == MapThenSumSet(LAMBDA x : f[x], S)

(* A sequence ends in its last element. *)
LEMMA FrontIs ==
  ASSUME NEW S, NEW s \in Seq(S), s # <<>>
  PROVE  /\ Len(s) \in Nat \ {0}
         /\ Front(s) \in Seq(S)
         /\ Len(Front(s)) = Len(s) - 1
         /\ Last(s) \in S
         /\ Last(s) = s[Len(s)]
         /\ \A k \in 1..(Len(s) - 1) : Front(s)[k] = s[k]
         /\ s = Append(Front(s), Last(s))
<1>1. Len(s) \in Nat \ {0}
  OBVIOUS
<1>2. PICK k \in Nat : Len(s) = k + 1
  <2>1. Len(s) - 1 \in Nat /\ Len(s) = (Len(s) - 1) + 1
    BY <1>1
  <2> QED
    BY <2>1
<1>3. Front(s) = [i \in 1..k |-> s[i]]
  BY <1>2 DEF Front
<1>4. \A i \in 1..(k + 1) : s[i] \in S
  BY <1>2
<1>5. [i \in 1..k |-> s[i]] \in Seq(S) /\ Len([i \in 1..k |-> s[i]]) = k
  BY <1>2, <1>4
<1>6. Last(s) = s[k + 1] /\ Last(s) \in S
  BY <1>2, <1>4 DEF Last
<1>7. s = Append(Front(s), Last(s))
  <2> DEFINE f == Front(s)
             l == Last(s)
  <2>1. f \in Seq(S) /\ Len(f) = k /\ \A i \in 1..k : f[i] = s[i]
    BY <1>3, <1>5
  <2> HIDE DEF f, l
  <2>2. Append(f, l) \in Seq(S) /\ Len(Append(f, l)) = k + 1
    BY <1>6, <2>1 DEF l
  <2>3. \A i \in 1..(k + 1) : Append(f, l)[i] = s[i]
    BY <1>6, <2>1 DEF l
  <2>4. Append(f, l) = s
    BY <1>2, <2>2, <2>3
  <2> QED
    BY <2>4 DEF f, l
<1> QED
  BY <1>1, <1>2, <1>3, <1>5, <1>6, <1>7

(* Joining three sequences. *)
LEMMA ConcatThree ==
  ASSUME NEW S, NEW x \in Seq(S), NEW y \in Seq(S), NEW z \in Seq(S)
  PROVE  (x \o y) \o z = x \o (y \o z)
OBVIOUS

(* What is proved for nothing and for one element more holds of every      *)
(* sequence.                                                               *)
LEMMA SequenceInduction ==
  ASSUME NEW S, NEW T, <<>> \in T,
         \A s \in Seq(S) : \A x \in S : s \in T => Append(s, x) \in T
  PROVE  \A s \in Seq(S) : s \in T
<1> DEFINE U == {n \in Nat : \A s \in Seq(S) : Len(s) = n => s \in T}
<1>1. 0 \in U
  <2>1. \A s \in Seq(S) : Len(s) = 0 => s = <<>>
    OBVIOUS
  <2> QED
    BY <2>1
<1>2. ASSUME NEW n \in Nat, n \in U
      PROVE  n + 1 \in U
  <2> SUFFICES ASSUME NEW s \in Seq(S), Len(s) = n + 1 PROVE s \in T
    OBVIOUS
  <2>1. s # <<>>
    OBVIOUS
  <2>2. /\ Front(s) \in Seq(S) /\ Len(Front(s)) = Len(s) - 1 /\ Last(s) \in S
        /\ s = Append(Front(s), Last(s))
    BY <2>1, FrontIs
  <2>3. Len(Front(s)) = n
    BY <2>2
  <2>4. Front(s) \in T
    BY <1>2, <2>2, <2>3
  <2>5. Append(Front(s), Last(s)) \in T
    BY <2>2, <2>4
  <2> QED
    BY <2>2, <2>5
<1> HIDE DEF U
<1>3. \A n \in Nat : n \in U
  BY <1>1, <1>2, SetInduction
<1>4. \A s \in Seq(S) : Len(s) \in U
  BY <1>3
<1> QED
  BY <1>4 DEF U

(* Joining semimoves joins what they say. *)
LEMMA FlattenConcat ==
  ASSUME NEW S, NEW p \in Seq(Seq(S)), NEW q \in Seq(Seq(S))
  PROVE  FlattenSeq(p \o q) = FlattenSeq(p) \o FlattenSeq(q)
<1> DEFINE T == {u \in Seq(Seq(S)) : FlattenSeq(p \o u) = FlattenSeq(p) \o FlattenSeq(u)}
<1>1. FlattenSeq(p) \in Seq(S)
  BY FlattenWhole
<1>2. <<>> \in T
  <2>1. p \o <<>> = p /\ FlattenSeq(p) \o <<>> = FlattenSeq(p) /\ <<>> \in Seq(Seq(S))
    BY <1>1
  <2>2. FlattenSeq(p \o <<>>) = FlattenSeq(p) \o FlattenSeq(<<>>)
    BY <2>1, FlattenEmpty, Zenon
  <2> QED
    BY <2>1, <2>2
<1>3. ASSUME NEW u \in Seq(Seq(S)), NEW a \in Seq(S), u \in T
      PROVE  Append(u, a) \in T
  <2>1. p \o u \in Seq(Seq(S)) /\ FlattenSeq(u) \in Seq(S) /\ Append(u, a) \in Seq(Seq(S))
    BY FlattenWhole
  <2>2. p \o Append(u, a) = Append(p \o u, a)
    OBVIOUS
  <2>3. FlattenSeq(Append(p \o u, a)) = FlattenSeq(p \o u) \o a
    BY <2>1, FlattenAppend
  <2>4. FlattenSeq(Append(u, a)) = FlattenSeq(u) \o a
    BY FlattenAppend
  <2>5. FlattenSeq(p \o u) = FlattenSeq(p) \o FlattenSeq(u)
    BY <1>3
  <2> DEFINE x == FlattenSeq(p)
             y == FlattenSeq(u)
  <2>6. (x \o y) \o a = x \o (y \o a)
    BY <1>1, <2>1, ConcatThree
  <2>7. FlattenSeq(p \o Append(u, a)) = x \o FlattenSeq(Append(u, a))
    BY <2>2, <2>3, <2>4, <2>5, <2>6
  <2> QED
    BY <2>1, <2>7
<1> HIDE DEF T
<1>4. \A u \in Seq(Seq(S)) : u \in T
  BY <1>2, <1>3, SequenceInduction
<1> QED
  BY <1>4 DEF T

(* Two sequences joined. *)
LEMMA JoinParts ==
  ASSUME NEW S, NEW a \in Seq(S), NEW b \in Seq(S)
  PROVE  /\ a \o b \in Seq(S)
         /\ Len(a \o b) = Len(a) + Len(b)
         /\ \A k \in 1..Len(a) : (a \o b)[k] = a[k]
         /\ \A k \in 1..Len(b) : (a \o b)[Len(a) + k] = b[k]
<1>1. a \o b \in Seq(S)
  OBVIOUS
<1>2. Len(a \o b) = Len(a) + Len(b)
  OBVIOUS
<1>3. \A k \in 1..Len(a) : (a \o b)[k] = a[k]
  OBVIOUS
<1>4. \A k \in 1..Len(b) : (a \o b)[Len(a) + k] = b[k]
  OBVIOUS
<1> QED
  BY <1>1, <1>2, <1>3, <1>4

(* A semimove alone says what it says. *)
LEMMA FlattenOne ==
  ASSUME NEW S, NEW e \in Seq(S)
  PROVE  FlattenSeq(<<e>>) = e
<1>1. <<>> \in Seq(Seq(S)) /\ <<e>> = Append(<<>>, e)
  OBVIOUS
<1>2. FlattenSeq(Append(<<>>, e)) = FlattenSeq(<<>>) \o e
  BY <1>1, FlattenAppend
<1>3. <<>> \o e = e
  OBVIOUS
<1> QED
  BY <1>1, <1>2, <1>3, FlattenEmpty

(* What is behind a common beginning tells sequences apart. *)
LEMMA SameBeginning ==
  ASSUME NEW S, NEW x \in Seq(S), NEW y \in Seq(S), NEW z \in Seq(S), x \o y = x \o z
  PROVE  y = z
<1>1. Len(x \o y) = Len(x) + Len(y) /\ Len(x \o z) = Len(x) + Len(z)
  OBVIOUS
<1>2. Len(y) = Len(z)
  BY <1>1
<1>3. \A i \in 1..Len(y) : y[i] = z[i]
  <2> TAKE i \in 1..Len(y)
  <2>1. (x \o y)[Len(x) + i] = y[i] /\ (x \o z)[Len(x) + i] = z[i]
    BY <1>2
  <2> QED
    BY <2>1
<1> QED
  BY <1>2, <1>3

(* A last element replaced. *)
LEMMA LastReplaced ==
  ASSUME NEW S, NEW a \in Seq(S), NEW x \in S, NEW y \in S
  PROVE  [Append(a, x) EXCEPT ![Len(Append(a, x))] = y] = Append(a, y)
<1> DEFINE n == Len(a) + 1
           c == Append(a, x)
           d == [c EXCEPT ![n] = y]
           f == Append(a, y)
<1>1. Len(a) \in Nat /\ n \in Nat
  OBVIOUS
<1>2. c \in Seq(S) /\ Len(c) = n /\ \A k \in 1..Len(a) : c[k] = a[k]
  OBVIOUS
<1>3. f \in Seq(S) /\ Len(f) = n /\ f[n] = y /\ \A k \in 1..Len(a) : f[k] = a[k]
  OBVIOUS
<1>4. n \in 1..n /\ \A k \in 1..n : k # n => k \in 1..Len(a)
  BY <1>1
<1> HIDE DEF c, f, n
<1>5. d \in Seq(S) /\ Len(d) = n /\ d[n] = y /\ \A k \in 1..n : k # n => d[k] = c[k]
  BY <1>1, <1>2, <1>4
<1> HIDE DEF d
<1>6. \A k \in 1..n : d[k] = f[k]
  BY <1>2, <1>3, <1>4, <1>5
<1>7. d = f
  BY <1>3, <1>5, <1>6
<1> QED
  BY <1>2, <1>7 DEF d, c, f, n

(* The least of some numbers is one of them. *)
LEMMA MinIn ==
  ASSUME NEW T, T \subseteq Nat, T # {}
  PROVE  Min(T) \in T
<1>1. \E x \in T : \A y \in T : x <= y
  BY LeastNat
<1> QED
  BY <1>1 DEF Min

(* What CHOOSE picks is in the set. *)
LEMMA PickIn ==
  ASSUME NEW s, s # {}
  PROVE  Pick(s) \in s
BY DEF Pick

(* Without one of its elements a finite set is smaller by one. *)
LEMMA FewerElements ==
  ASSUME NEW S, IsFiniteSet(S), NEW s \in SUBSET S, NEW x \in s
  PROVE  /\ IsFiniteSet(s)
         /\ Cardinality(s) \in Nat \ {0}
         /\ Cardinality(s \ {x}) = Cardinality(s) - 1
<1>1. IsFiniteSet(s)
  BY FS_Subset
<1>2. Cardinality(s) \in Nat
  BY <1>1, FS_CardinalityType
<1>3. Cardinality(s) # 0
  BY <1>1, FS_EmptySet
<1>4. Cardinality(s \ {x}) = Cardinality(s) - 1
  BY <1>1, FS_RemoveElement
<1> QED
  BY <1>1, <1>2, <1>3, <1>4

(* Induction on the size of a subset. *)
LEMMA SubsetInduction ==
  ASSUME NEW S, IsFiniteSet(S), NEW T, {} \in T,
         \A s \in SUBSET S : s # {} /\ (\A x \in s : s \ {x} \in T) => s \in T
  PROVE  \A s \in SUBSET S : s \in T
<1> DEFINE N == {n \in Nat : \A s \in SUBSET S : Cardinality(s) = n => s \in T}
<1>1. 0 \in N
  <2>1. \A s \in SUBSET S : Cardinality(s) = 0 => s = {}
    BY FS_Subset, FS_EmptySet
  <2> QED
    BY <2>1
<1>2. ASSUME NEW n \in Nat, n \in N
      PROVE  n + 1 \in N
  <2> SUFFICES ASSUME NEW s \in SUBSET S, Cardinality(s) = n + 1
               PROVE  s \in T
    OBVIOUS
  <2>1. CASE s = {}
    BY <2>1
  <2>2. CASE s # {}
    <3>1. \A x \in s : Cardinality(s \ {x}) = n
      BY FewerElements
    <3>2. \A x \in s : s \ {x} \in SUBSET S
      OBVIOUS
    <3>3. \A x \in s : s \ {x} \in T
      BY <1>2, <3>1, <3>2
    <3> QED
      BY <2>2, <3>3
  <2> QED
    BY <2>1, <2>2
<1> HIDE DEF N
<1>3. \A n \in Nat : n \in N
  BY <1>1, <1>2, SetInduction
<1>4. \A s \in SUBSET S : Cardinality(s) \in Nat
  BY FS_Subset, FS_CardinalityType
<1> QED
  BY <1>3, <1>4 DEF N

(* MapThenSumSet is defined by a function on subsets; there is one, *)
LEMMA SumFunctionExists ==
  ASSUME NEW S, IsFiniteSet(S), NEW f
  PROVE  \E g : SumStep(f, S, g)
<1> DEFINE Small(n) == {s \in SUBSET S : Cardinality(s) <= n}
           Value(g, s) == IF s = {} THEN 0 ELSE f[Pick(s)] + g[s \ {Pick(s)}]
           N == {n \in Nat : \E g : g = [s \in Small(n) |-> Value(g, s)]}
<1>1. \A s \in SUBSET S : Cardinality(s) \in Nat
  BY FS_Subset, FS_CardinalityType
<1>2. \A s \in SUBSET S : s # {} =>
        /\ Cardinality(s) # 0
        /\ s \ {Pick(s)} \in SUBSET S
        /\ Cardinality(s \ {Pick(s)}) = Cardinality(s) - 1
  BY PickIn, FewerElements
<1>3. 0 \in N
  <2> DEFINE g == [s \in Small(0) |-> 0]
  <2>1. \A s \in Small(0) : s = {}
    <3> SUFFICES ASSUME NEW s \in SUBSET S, Cardinality(s) <= 0, s # {} PROVE FALSE
      OBVIOUS
    <3>1. Cardinality(s) = 0
      BY <1>1
    <3> QED
      BY <3>1, <1>2
  <2>2. g = [s \in Small(0) |-> Value(g, s)]
    BY <2>1
  <2> QED
    BY <2>2
<1>4. ASSUME NEW n \in Nat, n \in N
      PROVE  n + 1 \in N
  <2>1. PICK g : g = [s \in Small(n) |-> Value(g, s)]
    BY <1>4
  <2> DEFINE h == [s \in Small(n + 1) |-> Value(g, s)]
  <2>2. \A s \in Small(n) : s \in Small(n + 1) /\ h[s] = g[s]
    <3> TAKE s \in Small(n)
    <3>1. Cardinality(s) \in Nat /\ Cardinality(s) <= n + 1
      BY <1>1
    <3>2. s \in Small(n + 1)
      BY <3>1
    <3>3. g[s] = Value(g, s)
      <4> HIDE DEF Value, Small
      <4> QED
        BY <2>1
    <3> QED
      BY <3>2, <3>3
  <2>3. \A s \in Small(n + 1) : s # {} => s \ {Pick(s)} \in Small(n)
    BY <1>1, <1>2
  <2>4. \A s \in Small(n + 1) : Value(g, s) = Value(h, s)
    <3> TAKE s \in Small(n + 1)
    <3>1. CASE s = {}
      BY <3>1
    <3>2. CASE s # {}
      <4>1. h[s \ {Pick(s)}] = g[s \ {Pick(s)}]
        BY <2>2, <2>3, <3>2
      <4> HIDE DEF h
      <4> QED
        BY <4>1, <3>2
    <3> QED
      BY <3>1, <3>2
  <2>5. h = [s \in Small(n + 1) |-> Value(h, s)]
    <3> HIDE DEF Small, Value
    <3> QED
      BY <2>4
  <2> HIDE DEF h, Small, Value
  <2> QED
    BY <2>5
<1> HIDE DEF N
<1>5. \A n \in Nat : n \in N
  BY <1>3, <1>4, SetInduction
<1>6. Small(Cardinality(S)) = SUBSET S
  <2>1. \A s \in SUBSET S : Cardinality(s) <= Cardinality(S)
    BY FS_Subset
  <2> QED
    BY <2>1
<1>7. PICK g : g = [s \in Small(Cardinality(S)) |-> Value(g, s)]
  BY <1>5, <1>1 DEF N
<1>8. g = [s \in SUBSET S |-> Value(g, s)]
  <2> HIDE DEF Small, Value
  <2> QED
    BY <1>6, <1>7
<1> QED
  BY <1>8 DEF SumStep

(* only one, *)
LEMMA SumFunctionUnique ==
  ASSUME NEW S, IsFiniteSet(S), NEW f, NEW g, NEW h,
         SumStep(f, S, g), SumStep(f, S, h)
  PROVE  g = h
<1>1. \A s \in SUBSET S : g[s] = IF s = {} THEN 0 ELSE f[Pick(s)] + g[s \ {Pick(s)}]
  BY DEF SumStep
<1>2. \A s \in SUBSET S : h[s] = IF s = {} THEN 0 ELSE f[Pick(s)] + h[s \ {Pick(s)}]
  BY DEF SumStep
<1> DEFINE T == {s \in SUBSET S : g[s] = h[s]}
<1>3. {} \in T
  BY <1>1, <1>2
<1>4. \A s \in SUBSET S : s # {} /\ (\A x \in s : s \ {x} \in T) => s \in T
  BY <1>1, <1>2, PickIn
<1> HIDE DEF T
<1>5. \A s \in SUBSET S : s \in T
  BY <1>3, <1>4, SubsetInduction
<1>6. \A s \in SUBSET S : g[s] = h[s]
  BY <1>5 DEF T
<1>7. g = [s \in SUBSET S |-> g[s]] /\ h = [s \in SUBSET S |-> h[s]]
  BY DEF SumStep
<1> QED
  BY <1>6, <1>7

(* and the sum is its value. *)
LEMMA SumFunctionIs ==
  ASSUME NEW S, IsFiniteSet(S), NEW f
  PROVE  /\ SumStep(f, S, SumsOf(f, S))
         /\ SumOver(f, S) = SumsOf(f, S)[S]
<1>1. SumStep(f, S, SumsOf(f, S))
  BY SumFunctionExists DEF SumsOf
<1>2. SumOver(f, S) = SumsOf(f, S)[S]
  BY DEF SumOver, SumsOf, SumStep, Pick, MapThenSumSet, MapThenFoldSet
<1> QED
  BY <1>1, <1>2

(* The sum of an empty set; adding one element adds its value. *)
LEMMA SumEmpty ==
  ASSUME NEW f
  PROVE  SumOver(f, {}) = 0
<1>1. IsFiniteSet({})
  BY FS_EmptySet
<1>2. SumStep(f, {}, SumsOf(f, {})) /\ SumOver(f, {}) = SumsOf(f, {})[{}]
  BY <1>1, SumFunctionIs
<1> QED
  BY <1>2 DEF SumStep

(* Sums of natural numbers are natural numbers. *)
LEMMA SumInt ==
  ASSUME NEW S, IsFiniteSet(S), NEW f, \A x \in S : f[x] \in Nat,
         NEW g, SumStep(f, S, g)
  PROVE  \A s \in SUBSET S : g[s] \in Nat
<1> DEFINE T == {s \in SUBSET S : g[s] \in Nat}
<1>1. \A s \in SUBSET S : g[s] = IF s = {} THEN 0 ELSE f[Pick(s)] + g[s \ {Pick(s)}]
  BY DEF SumStep
<1>2. {} \in T
  BY <1>1
<1>3. ASSUME NEW s \in SUBSET S, s # {}, \A x \in s : s \ {x} \in T
      PROVE  s \in T
  <2>1. Pick(s) \in s
    BY <1>3, PickIn
  <2>2. g[s \ {Pick(s)}] \in Nat /\ f[Pick(s)] \in Nat
    BY <1>3, <2>1
  <2>3. g[s] = f[Pick(s)] + g[s \ {Pick(s)}]
    BY <1>1, <1>3
  <2> QED
    BY <2>2, <2>3
<1> HIDE DEF T
<1>4. \A s \in SUBSET S : s \in T
  BY <1>2, <1>3, SubsetInduction
<1> QED
  BY <1>4 DEF T

(* Whichever element is taken out first, the sum is the same. *)
LEMMA SumAnyOrder ==
  ASSUME NEW S, IsFiniteSet(S), NEW f, \A x \in S : f[x] \in Nat,
         NEW g, SumStep(f, S, g)
  PROVE  \A s \in SUBSET S : \A x \in s : g[s] = f[x] + g[s \ {x}]
<1> DEFINE T == {s \in SUBSET S : \A x \in s : g[s] = f[x] + g[s \ {x}]}
<1>1. \A s \in SUBSET S : s # {} => g[s] = f[Pick(s)] + g[s \ {Pick(s)}]
  BY DEF SumStep
<1>2. {} \in T
  OBVIOUS
<1>3. ASSUME NEW s \in SUBSET S, s # {}, \A x \in s : s \ {x} \in T
      PROVE  s \in T
  <2> SUFFICES ASSUME NEW x \in s PROVE g[s] = f[x] + g[s \ {x}]
    OBVIOUS
  <2> DEFINE c == Pick(s)
  <2>1. c \in s /\ g[s] = f[c] + g[s \ {c}]
    BY <1>1, <1>3, PickIn
  <2> HIDE DEF c
  <2>2. CASE x = c
    BY <2>1, <2>2
  <2>3. CASE x # c
    <3>1. x \in s \ {c} /\ c \in s \ {x}
      BY <2>1, <2>3
    <3>2. g[s \ {c}] = f[x] + g[(s \ {c}) \ {x}]
      BY <1>3, <2>1, <3>1
    <3>3. g[s \ {x}] = f[c] + g[(s \ {x}) \ {c}]
      BY <1>3, <3>1
    <3>4. (s \ {c}) \ {x} = (s \ {x}) \ {c}
      OBVIOUS
    <3> DEFINE rest == g[(s \ {x}) \ {c}]
    <3>5. rest \in Nat /\ f[x] \in Nat /\ f[c] \in Nat
      BY <2>1, SumInt
    <3>6. g[s] = f[c] + (f[x] + rest) /\ g[s \ {x}] = f[c] + rest
      BY <2>1, <3>2, <3>3, <3>4
    <3> HIDE DEF rest
    <3> QED
      BY <3>5, <3>6
  <2> QED
    BY <2>2, <2>3
<1> HIDE DEF T
<1>4. \A s \in SUBSET S : s \in T
  BY <1>2, <1>3, SubsetInduction
<1> QED
  BY <1>4 DEF T

(* A finite sum of natural numbers is one. *)
LEMMA SumNat ==
  ASSUME NEW S, IsFiniteSet(S), NEW f, \A x \in S : f[x] \in Nat
  PROVE  SumOver(f, S) \in Nat
BY SumFunctionIs, SumInt

(* One more summand. *)
LEMMA SumAdd ==
  ASSUME NEW S, IsFiniteSet(S), NEW x, x \notin S,
         NEW f, \A y \in S \cup {x} : f[y] \in Nat
  PROVE  SumOver(f, S \cup {x}) = SumOver(f, S) + f[x]
<1> DEFINE R == S \cup {x}
           g == SumsOf(f, R)
           h == [s \in SUBSET S |-> g[s]]
<1>1. IsFiniteSet(R)
  BY FS_AddElement
<1>2. SumStep(f, R, g) /\ SumOver(f, R) = g[R]
  BY <1>1, SumFunctionIs
<1> HIDE DEF g
<1>3. R \in SUBSET R /\ x \in R /\ R \ {x} = S
  OBVIOUS
<1>4. g[R] = f[x] + g[S]
  <2>1. \A y \in R : f[y] \in Nat
    OBVIOUS
  <2> HIDE DEF R
  <2> QED
    BY <1>1, <1>2, <1>3, <2>1, SumAnyOrder
<1>5. \A s \in SUBSET S : g[s] = IF s = {} THEN 0 ELSE f[Pick(s)] + g[s \ {Pick(s)}]
  <2>1. SUBSET S \subseteq SUBSET R
    OBVIOUS
  <2> HIDE DEF R
  <2> QED
    BY <1>2, <2>1 DEF SumStep
<1>6. \A s \in SUBSET S : h[s] = IF s = {} THEN 0 ELSE f[Pick(s)] + h[s \ {Pick(s)}]
  BY <1>5
<1>7. SumStep(f, S, h)
  <2>1. h = [s \in SUBSET S |-> h[s]]
    OBVIOUS
  <2> HIDE DEF h
  <2> QED
    BY <1>6, <2>1 DEF SumStep
<1>8. SumsOf(f, S) = h
  BY <1>7, SumFunctionIs, SumFunctionUnique
<1>9. SumOver(f, S) = g[S]
  BY <1>8, SumFunctionIs
<1>10. SumOver(f, S) \in Nat /\ f[x] \in Nat
  BY SumNat
<1> HIDE DEF R, h
<1> QED
  BY <1>2, <1>4, <1>9, <1>10 DEF R
-----------------------------------------------------------------------------
(* Sums over the range lo to hi - 1 of a function of the integers.         *)

(* A range of integers is finite. *)
LEMMA RangeFinite ==
  ASSUME NEW lo \in Int, NEW hi \in Int
  PROVE  IsFiniteSet(lo..(hi - 1))
<1>1. hi - 1 \in Int
  OBVIOUS
<1> HIDE <1>1
<1> QED
  BY <1>1, FS_Interval

(* A sum over a range is a natural number. *)
LEMMA RangeSumNat ==
  ASSUME NEW lo \in Int, NEW hi \in Int, NEW f, \A i \in lo..(hi - 1) : f[i] \in Nat
  PROVE  SumOver(f, lo..(hi - 1)) \in Nat
<1> DEFINE S == lo..(hi - 1)
<1>1. IsFiniteSet(S)
  BY RangeFinite
<1> HIDE DEF S
<1>2. \A i \in S : f[i] \in Nat
  BY DEF S
<1>3. SumOver(f, S) \in Nat
  BY <1>1, <1>2, SumNat
<1> QED
  BY <1>3 DEF S

(* A sum over no numbers is 0. *)
LEMMA RangeSumEmpty ==
  ASSUME NEW lo \in Int, NEW f
  PROVE  SumOver(f, lo..(lo - 1)) = 0
<1>1. lo..(lo - 1) = {}
  OBVIOUS
<1> QED
  BY <1>1, SumEmpty

(* A range that is longer by one. *)
LEMMA RangeSumNext ==
  ASSUME NEW lo \in Int, NEW n \in Nat, NEW f, \A i \in lo..(lo + n) : f[i] \in Nat
  PROVE  SumOver(f, lo..((lo + (n + 1)) - 1)) = SumOver(f, lo..((lo + n) - 1)) + f[lo + n]
<1> DEFINE S == lo..((lo + n) - 1)
           x == lo + n
<1>1. lo..((lo + (n + 1)) - 1) = S \cup {x} /\ x \notin S
  OBVIOUS
<1>2. IsFiniteSet(S)
  <2>1. lo + n \in Int
    OBVIOUS
  <2> QED
    BY <2>1, RangeFinite
<1>3. \A y \in S \cup {x} : f[y] \in Nat
  OBVIOUS
<1> HIDE DEF S, x
<1>4. SumOver(f, S \cup {x}) = SumOver(f, S) + f[x]
  BY <1>1, <1>2, <1>3, SumAdd
<1> QED
  BY <1>1, <1>4 DEF S, x

(* The sum of n values from lo on. *)
RangeSum(f, lo, n) == SumOver(f, lo..((lo + n) - 1))

SameValues(f, lo, g, mo, n) ==
  \A k \in 0..(n - 1) : f[lo + k] \in Nat /\ g[mo + k] = f[lo + k]

OneMoreAt(j, f, g, lo, n) ==
  \A k \in 0..(n - 1) :
    f[lo + k] \in Nat /\ g[lo + k] = IF k = j THEN f[lo + k] + 1 ELSE f[lo + k]

(* Two ranges that hold the same values have the same sum. *)
LEMMA RangeSumSame ==
  ASSUME NEW n \in Nat, NEW lo \in Int, NEW mo \in Int, NEW f, NEW g,
         SameValues(f, lo, g, mo, n)
  PROVE  RangeSum(g, mo, n) = RangeSum(f, lo, n)
<1>0. \A k \in 0..(n - 1) : f[lo + k] \in Nat /\ g[mo + k] = f[lo + k]
  BY DEF SameValues
<1> DEFINE T == {k \in Nat : k <= n =>
                   SumOver(g, mo..((mo + k) - 1)) = SumOver(f, lo..((lo + k) - 1))}
<1>1. 0 \in T
  <2>1. SumOver(g, mo..((mo + 0) - 1)) = 0 /\ SumOver(f, lo..((lo + 0) - 1)) = 0
    BY RangeSumEmpty
  <2> QED
    BY <2>1
<1>2. ASSUME NEW k \in Nat, k \in T
      PROVE  k + 1 \in T
  <2> SUFFICES ASSUME k + 1 <= n
               PROVE  SumOver(g, mo..((mo + (k + 1)) - 1)) = SumOver(f, lo..((lo + (k + 1)) - 1))
    OBVIOUS
  <2>1. \A i \in lo..(lo + k) : f[i] \in Nat
    <3> TAKE i \in lo..(lo + k)
    <3>1. i - lo \in 0..(n - 1) /\ lo + (i - lo) = i
      OBVIOUS
    <3> QED
      BY <1>0, <3>1
  <2>2. \A i \in mo..(mo + k) : g[i] \in Nat
    <3> TAKE i \in mo..(mo + k)
    <3>1. i - mo \in 0..(n - 1) /\ mo + (i - mo) = i
      OBVIOUS
    <3> QED
      BY <1>0, <3>1
  <2>3. SumOver(f, lo..((lo + (k + 1)) - 1)) = SumOver(f, lo..((lo + k) - 1)) + f[lo + k]
    BY <2>1, RangeSumNext
  <2>4. SumOver(g, mo..((mo + (k + 1)) - 1)) = SumOver(g, mo..((mo + k) - 1)) + g[mo + k]
    BY <2>2, RangeSumNext
  <2>5. SumOver(g, mo..((mo + k) - 1)) = SumOver(f, lo..((lo + k) - 1))
    BY <1>2
  <2>6. g[mo + k] = f[lo + k]
    BY <1>0
  <2> QED
    BY <2>3, <2>4, <2>5, <2>6
<1> HIDE DEF T
<1>3. n \in T
  BY <1>1, <1>2, SetInduction
<1> QED
  BY <1>3 DEF T, RangeSum

(* One more at one place is one more in the sum. *)
LEMMA RangeSumPlusOne ==
  ASSUME NEW n \in Nat, NEW lo \in Int, NEW j \in 0..(n - 1), NEW f, NEW g,
         OneMoreAt(j, f, g, lo, n)
  PROVE  RangeSum(g, lo, n) = RangeSum(f, lo, n) + 1
<1> DEFINE F(k) == SumOver(f, lo..((lo + k) - 1))
           G(k) == SumOver(g, lo..((lo + k) - 1))
           T == {k \in Nat : k <= n => G(k) = IF k <= j THEN F(k) ELSE F(k) + 1}
<1>0. \A k \in 0..(n - 1) :
        f[lo + k] \in Nat /\ g[lo + k] = IF k = j THEN f[lo + k] + 1 ELSE f[lo + k]
  BY DEF OneMoreAt
<1>1. \A k \in 0..(n - 1) : f[lo + k] \in Nat /\ g[lo + k] \in Nat
  BY <1>0
<1>2. ASSUME NEW k \in Nat, k < n
      PROVE  F(k + 1) = F(k) + f[lo + k] /\ G(k + 1) = G(k) + g[lo + k] /\ F(k) \in Nat
  <2>1. \A i \in lo..(lo + k) : f[i] \in Nat /\ g[i] \in Nat
    <3> TAKE i \in lo..(lo + k)
    <3>1. i - lo \in 0..(n - 1) /\ lo + (i - lo) = i
      BY <1>2
    <3> QED
      BY <3>1, <1>1
  <2>2. \A i \in lo..((lo + k) - 1) : f[i] \in Nat
    BY <2>1
  <2>3. F(k) \in Nat
    <3>1. lo + k \in Int
      OBVIOUS
    <3> QED
      BY <2>2, <3>1, RangeSumNat
  <2> QED
    BY <2>1, <2>3, RangeSumNext
<1>3. 0 \in T
  <2>1. F(0) = 0 /\ G(0) = 0
    BY RangeSumEmpty
  <2> HIDE DEF F, G
  <2> QED
    BY <2>1
<1> HIDE DEF F, G
<1>4. ASSUME NEW k \in Nat, k \in T
      PROVE  k + 1 \in T
  <2> SUFFICES ASSUME k + 1 <= n
               PROVE  G(k + 1) = IF k + 1 <= j THEN F(k + 1) ELSE F(k + 1) + 1
    OBVIOUS
  <2>1. F(k + 1) = F(k) + f[lo + k] /\ G(k + 1) = G(k) + g[lo + k] /\ F(k) \in Nat
    BY <1>2
  <2>2. k \in 0..(n - 1) /\ f[lo + k] \in Nat
    BY <1>0
  <2>3. g[lo + k] = IF k = j THEN f[lo + k] + 1 ELSE f[lo + k]
    BY <1>0, <2>2
  <2>4. G(k) = IF k <= j THEN F(k) ELSE F(k) + 1
    BY <1>4
  <2> QED
    BY <2>1, <2>2, <2>3, <2>4
<1> HIDE DEF T
<1>5. n \in T
  BY <1>3, <1>4, SetInduction
<1>6. G(n) = F(n) + 1
  BY <1>5 DEF T
<1> QED
  BY <1>6 DEF F, G, RangeSum

(* The sum is at least any value, and at least the number of those above 0 *)
(* when these come first.                                                  *)
LEMMA RangeSumBounds ==
  ASSUME NEW n \in Nat, NEW lo \in Int, NEW f, NEW v \in 0..n,
         \A k \in 0..(n - 1) : f[lo + k] \in Nat,
         \A k \in 0..(v - 1) : f[lo + k] > 0
  PROVE  /\ SumOver(f, lo..((lo + n) - 1)) >= v
         /\ \A k \in 0..(n - 1) : f[lo + k] <= SumOver(f, lo..((lo + n) - 1))
<1> DEFINE F(k) == SumOver(f, lo..((lo + k) - 1))
           T == {k \in Nat : k <= n =>
                   /\ F(k) \in Nat
                   /\ F(k) >= IF k <= v THEN k ELSE v
                   /\ \A i \in 0..(k - 1) : f[lo + i] <= F(k)}
<1>1. ASSUME NEW k \in Nat, k < n
      PROVE  F(k + 1) = F(k) + f[lo + k]
  <2>1. \A i \in lo..(lo + k) : f[i] \in Nat
    <3> TAKE i \in lo..(lo + k)
    <3>1. i - lo \in 0..(n - 1) /\ lo + (i - lo) = i
      BY <1>1
    <3> QED
      BY <3>1
  <2> QED
    BY <2>1, RangeSumNext
<1>2. 0 \in T
  <2>1. F(0) = 0
    BY RangeSumEmpty
  <2> HIDE DEF F
  <2> QED
    BY <2>1
<1> HIDE DEF F
<1>3. ASSUME NEW k \in Nat, k \in T
      PROVE  k + 1 \in T
  <2> SUFFICES ASSUME k + 1 <= n
               PROVE  /\ F(k + 1) \in Nat
                      /\ F(k + 1) >= IF k + 1 <= v THEN k + 1 ELSE v
                      /\ \A i \in 0..((k + 1) - 1) : f[lo + i] <= F(k + 1)
    OBVIOUS
  <2>1. F(k + 1) = F(k) + f[lo + k]
    BY <1>1
  <2>2. f[lo + k] \in Nat /\ (k + 1 <= v => f[lo + k] > 0)
    OBVIOUS
  <2>3. F(k) \in Nat /\ F(k) >= (IF k <= v THEN k ELSE v)
    BY <1>3
  <2>4. \A i \in 0..(k - 1) : f[lo + i] <= F(k) /\ f[lo + i] \in Nat
    BY <1>3
  <2>5. F(k + 1) \in Nat /\ F(k + 1) >= F(k) /\ F(k + 1) >= f[lo + k]
    BY <2>1, <2>2, <2>3
  <2>6. F(k + 1) >= IF k + 1 <= v THEN k + 1 ELSE v
    BY <2>1, <2>2, <2>3
  <2>7. \A i \in 0..((k + 1) - 1) : f[lo + i] <= F(k + 1)
    <3> TAKE i \in 0..((k + 1) - 1)
    <3>1. CASE i = k
      BY <3>1, <2>5, <2>2
    <3>2. CASE i # k
      <4>1. i \in 0..(k - 1)
        BY <3>2
      <4>2. f[lo + i] <= F(k) /\ f[lo + i] \in Nat
        BY <4>1, <2>4
      <4> QED
        BY <4>2, <2>3, <2>5
    <3> QED
      BY <3>1, <3>2
  <2> QED
    BY <2>5, <2>6, <2>7
<1> HIDE DEF T
<1>4. n \in T
  BY <1>2, <1>3, SetInduction
<1>5. F(n) >= v /\ \A i \in 0..(n - 1) : f[lo + i] <= F(n)
  BY <1>4 DEF T
<1> QED
  BY <1>5 DEF F

(* A sum of zeros is 0. *)
LEMMA RangeSumZero ==
  ASSUME NEW n \in Nat, NEW lo \in Int, NEW f, \A k \in 0..(n - 1) : f[lo + k] = 0
  PROVE  SumOver(f, lo..((lo + n) - 1)) = 0
<1> DEFINE F(k) == SumOver(f, lo..((lo + k) - 1))
           T == {k \in Nat : k <= n => F(k) = 0}
<1>1. 0 \in T
  BY RangeSumEmpty
<1>2. ASSUME NEW k \in Nat, k \in T, k + 1 <= n
      PROVE  F(k + 1) = 0
  <2>1. \A i \in lo..(lo + k) : f[i] = 0
    <3> TAKE i \in lo..(lo + k)
    <3>1. i - lo \in 0..(n - 1) /\ lo + (i - lo) = i
      BY <1>2
    <3> QED
      BY <3>1
  <2>2. F(k + 1) = F(k) + f[lo + k]
    <3>1. \A i \in lo..(lo + k) : f[i] \in Nat
      BY <2>1
    <3> QED
      BY <3>1, RangeSumNext
  <2>3. f[lo + k] = 0
    BY <1>2
  <2>4. F(k) = 0
    BY <1>2
  <2> HIDE DEF F
  <2> QED
    BY <2>2, <2>3, <2>4
<1> HIDE DEF F
<1>3. \A k \in Nat : k \in T => k + 1 \in T
  BY <1>2
<1> HIDE DEF T
<1>4. n \in T
  BY <1>1, <1>3, SetInduction
<1> QED
  BY <1>4 DEF T, F
-----------------------------------------------------------------------------
(* SetToSeq lists a finite set, every element once.                        *)
LEMMA SetToSeqLists ==
  ASSUME NEW S, IsFiniteSet(S)
  PROVE  /\ SetToSeq(S) \in Seq(S)
         /\ Len(SetToSeq(S)) = Cardinality(S)
         /\ Cardinality(S) \in Nat
         /\ \A i, j \in 1..Cardinality(S) : SetToSeq(S)[i] = SetToSeq(S)[j] => i = j
         /\ \A x \in S : \E i \in 1..Cardinality(S) : SetToSeq(S)[i] = x
<1> DEFINE n == Cardinality(S)
           f == SetToSeq(S)
<1>1. n \in Nat /\ ExistsBijection(1..n, S)
  BY FS_CardinalityType
<1>2. \E g \in [1..n -> S] : IsInjective(g)
  BY <1>1 DEF ExistsBijection, Bijection, Injection
<1>3. f \in [1..n -> S] /\ IsInjective(f)
  BY <1>2 DEF SetToSeq
<1>4. IsFiniteSet(1..n) /\ Cardinality(1..n) = n
  <2>1. 1 \in Int /\ n \in Int
    BY <1>1
  <2> HIDE DEF n
  <2>2. IsFiniteSet(1..n) /\ Cardinality(1..n) = IF 1 > n THEN 0 ELSE n - 1 + 1
    BY <2>1, FS_Interval
  <2> QED
    BY <1>1, <2>2
<1> HIDE DEF f
<1>5. f \in Injection(1..n, S)
  BY <1>3 DEF Injection
<1>6. f \in Surjection(1..n, S)
  <2>1. Cardinality(1..n) = Cardinality(S)
    BY <1>4
  <2> HIDE DEF n
  <2> QED
    BY <2>1, <1>5, FS_Injection
<1> HIDE DEF n
<1>7. f \in Seq(S) /\ Len(f) = n
  BY <1>1, <1>3
<1>8. \A i, j \in 1..n : f[i] = f[j] => i = j
  BY <1>3 DEF IsInjective
<1>9. \A x \in S : \E i \in 1..n : f[i] = x
  BY <1>6 DEF Surjection
<1> QED
  BY <1>1, <1>7, <1>8, <1>9 DEF f, n

-----------------------------------------------------------------------------
(* fix_tree.                                                               *)

(* Node c hangs from a child of node p, one of the nodes L of the tree.    *)
EdgeTo(L, p, c) ==
  /\ p \in L
  /\ is_expanded(Node(p))
  /\ \E i \in ChildIndices(Node(p)) : Child(i).index = c

(* What every vector guarantees of its indices: a node is younger than its *)
(* parent.                                                                 *)
Linked ==
  /\ Len(nodes) \in Nat
  /\ \A n \in Nodes : Node(n).first \in Nat /\ Node(n).second \in Nat
  /\ \A n \in Nodes : is_expanded(Node(n)) =>
       \A i \in ChildIndices(Node(n)) :
         /\ Child(i).index \in Nat
         /\ Child(i).index # 0 => n < Child(i).index /\ Child(i).index < Len(nodes)

(* The nodes L belong together, whatever else is left in the vectors: no   *)
(* edge leads out of them, and a node hangs from one child only.           *)
Joined(L) ==
  /\ L \subseteq Nodes
  /\ \A n \in L : is_expanded(Node(n)) =>
       \A i \in ChildIndices(Node(n)) : Child(i).index # 0 => Child(i).index \in L
  /\ \A p, q \in L : is_expanded(Node(p)) /\ is_expanded(Node(q)) =>
       \A i \in ChildIndices(Node(p)), j \in ChildIndices(Node(q)) :
         Child(i).index = Child(j).index /\ Child(i).index # 0 => p = q /\ i = j
-----------------------------------------------------------------------------
(* Preorder is the function that its definition says it is.                *)

Subtrees(b, i) ==
  [k \in 1..Cardinality(ChildIndices(Node(i))) |->
     IF Child(Node(i).first + k - 1).index = 0 THEN <<>>
     ELSE b[Child(Node(i).first + k - 1).index]]

Below(b, i) ==
  IF ~is_expanded(Node(i)) THEN <<i>> ELSE <<i>> \o FlattenSeq(Subtrees(b, i))

PreorderStep(b) == b = [i \in Nodes |-> Below(b, i)]
PreorderFunction == CHOOSE b : PreorderStep(b)

(* Preorder is a value of the function it chooses. *)
LEMMA PreorderIs ==
  ASSUME NEW r
  PROVE  Preorder(r) = PreorderFunction[r]
BY DEF Preorder, PreorderFunction, PreorderStep, Below, Subtrees, Nodes

(* An expanded node has as many children as there are indices in its block. *)
LEMMA ChildCountIs ==
  ASSUME Linked, NEW i \in Nodes, is_expanded(Node(i))
  PROVE  /\ ChildCount(i) \in Nat
         /\ ChildCount(i) = Node(i).second - Node(i).first
         /\ Cardinality(ChildIndices(Node(i))) = ChildCount(i)
         /\ \A k \in 1..ChildCount(i) : Node(i).first + k - 1 \in ChildIndices(Node(i))
         /\ \A j \in ChildIndices(Node(i)) :
              /\ j - Node(i).first + 1 \in 1..ChildCount(i)
              /\ Node(i).first + (j - Node(i).first + 1) - 1 = j
<1> DEFINE a == Node(i).first
           b == Node(i).second
<1>1. a \in Nat /\ b \in Nat /\ a <= b
  BY DEF Linked, is_expanded
<1>2. ChildCount(i) = b - a /\ ChildIndices(Node(i)) = a..(b - 1)
  BY DEF ChildCount, ChildIndices
<1> HIDE DEF a, b
<1>3. Cardinality(a..(b - 1)) = b - a
  <2>1. a \in Int /\ b - 1 \in Int
    BY <1>1
  <2>2. Cardinality(a..(b - 1)) = IF a > b - 1 THEN 0 ELSE b - 1 - a + 1
    <3> DEFINE z == b - 1
    <3>1. z \in Int
      BY <2>1
    <3> HIDE DEF z
    <3>2. Cardinality(a..z) = IF a > z THEN 0 ELSE z - a + 1
      BY <2>1, <3>1, FS_Interval
    <3> QED
      BY <3>2 DEF z
  <2> QED
    BY <1>1, <2>2
<1>4. \A k \in 1..(b - a) : a + k - 1 \in a..(b - 1)
  BY <1>1
<1>5. \A j \in a..(b - 1) : j - a + 1 \in 1..(b - a) /\ a + (j - a + 1) - 1 = j
  BY <1>1
<1>6. b - a \in Nat
  BY <1>1
<1> QED
  BY <1>2, <1>3, <1>4, <1>5, <1>6 DEF a, b

(* A subtree looks at younger nodes only. *)
LEMMA SubtreesYounger ==
  ASSUME Linked, NEW i \in Nodes, NEW b, NEW c,
         \A n \in Nodes : i < n => b[n] = c[n]
  PROVE  Below(b, i) = Below(c, i)
<1>1. CASE ~is_expanded(Node(i))
  BY <1>1 DEF Below
<1>2. CASE is_expanded(Node(i))
  <2>1. \A k \in 1..Cardinality(ChildIndices(Node(i))) :
          Node(i).first + k - 1 \in ChildIndices(Node(i))
    BY <1>2, ChildCountIs
  <2>2. \A j \in ChildIndices(Node(i)) :
          Child(j).index # 0 => b[Child(j).index] = c[Child(j).index]
    <3> TAKE j \in ChildIndices(Node(i))
    <3> HAVE Child(j).index # 0
    <3>1. Child(j).index \in Nodes /\ i < Child(j).index
      BY <1>2 DEF Linked, Nodes
    <3> QED
      BY <3>1
  <2>3. \A k \in 1..Cardinality(ChildIndices(Node(i))) :
          Child(Node(i).first + k - 1).index # 0 =>
            b[Child(Node(i).first + k - 1).index] = c[Child(Node(i).first + k - 1).index]
    BY <2>1, <2>2
  <2>4. Subtrees(b, i) = Subtrees(c, i)
    BY <2>3 DEF Subtrees
  <2> QED
    BY <2>4 DEF Below
<1> QED
  BY <1>1, <1>2

(* Every node being younger than its parent, the function exists. *)
LEMMA PreorderFunctionExists ==
  ASSUME Linked
  PROVE  PreorderStep(PreorderFunction)
<1> DEFINE L == Len(nodes)
           Young(m) == {i \in Nodes : L <= i + m}
           T == {m \in Nat : \E b : b = [i \in Young(m) |-> Below(b, i)]}
<1>1. L \in Nat /\ Nodes \subseteq Nat /\ \A i \in Nodes : i < L
  BY DEF Linked, Nodes
<1> HIDE DEF L
<1>2. 0 \in T
  <2>1. Young(0) = {}
    <3>1. \A i \in Nodes : ~ (L <= i + 0)
      BY <1>1
    <3> QED
      BY <3>1
  <2> DEFINE b == [i \in {} |-> 0]
  <2>2. b = [i \in Young(0) |-> Below(b, i)]
    BY <2>1
  <2> HIDE DEF b, Young
  <2> QED
    BY <2>2
<1>3. ASSUME NEW m \in Nat, m \in T
      PROVE  m + 1 \in T
  <2>1. PICK b : b = [i \in Young(m) |-> Below(b, i)]
    BY <1>3
  <2> DEFINE c == [i \in Young(m + 1) |-> Below(b, i)]
  <2>2. \A i \in Young(m) : i \in Young(m + 1)
    BY <1>1
  <2>3. \A i \in Young(m + 1), n \in Nodes : i < n => n \in Young(m)
    BY <1>1
  <2>4. \A i \in Young(m + 1) : i \in Nodes
    OBVIOUS
  <2> HIDE DEF Young
  <2>5. \A n \in Young(m) : c[n] = b[n]
    BY <2>1, <2>2
  <2>6. \A i \in Young(m + 1) : Below(b, i) = Below(c, i)
    <3> TAKE i \in Young(m + 1)
    <3>1. \A n \in Nodes : i < n => b[n] = c[n]
      BY <2>3, <2>5
    <3> HIDE DEF c
    <3> QED
      BY <2>4, <3>1, SubtreesYounger
  <2>7. c = [i \in Young(m + 1) |-> Below(c, i)]
    BY <2>6
  <2> HIDE DEF c
  <2> QED
    BY <2>7
<1> HIDE DEF T
<1>4. L \in T
  BY <1>1, <1>2, <1>3, SetInduction
<1>5. Young(L) = Nodes
  <2>1. \A i \in Nodes : L <= i + L
    BY <1>1
  <2> QED
    BY <2>1
<1>6. PICK b : b = [i \in Young(L) |-> Below(b, i)]
  BY <1>4 DEF T
<1>7. PreorderStep(b)
  <2> HIDE DEF Young
  <2> QED
    BY <1>5, <1>6 DEF PreorderStep
<1> QED
  BY <1>7 DEF PreorderFunction
-----------------------------------------------------------------------------
(* Sequence s lists the subtree of node i: every node once, and between    *)
(* its parent and its children.                                            *)
Listing(L, i, s) ==
  /\ s \in Seq(L)
  /\ Len(s) \in Nat \ {0}
  /\ s[1] = i
  /\ \A x \in 1..Len(s) : i <= s[x]
  /\ \A x \in 2..Len(s) : \E w \in 1..(x - 1) : EdgeTo(L, s[w], s[x])
  /\ \A x \in 1..Len(s) : \A c \in Nat \ {0} :
       EdgeTo(L, s[x], c) => \E y \in (x + 1)..Len(s) : s[y] = c
  /\ \A x, y \in 1..Len(s) : s[x] = s[y] => x = y

(* Edges lead to younger nodes, and only one leads to each. *)
LEMMA EdgeFacts ==
  ASSUME Linked, NEW L, Joined(L)
  PROVE  \A p, q : \A c \in Nat \ {0} : EdgeTo(L, p, c) =>
           /\ p < c
           /\ c \in L
           /\ EdgeTo(L, q, c) => p = q
<1>1. \A p, q : \A c \in Nat \ {0} : EdgeTo(L, p, c) => p < c /\ c \in L
  BY DEF EdgeTo, Linked, Joined
<1>2. \A p, q : \A c \in Nat \ {0} : EdgeTo(L, p, c) /\ EdgeTo(L, q, c) => p = q
  BY DEF EdgeTo, Joined
<1> QED
  BY <1>1, <1>2

(* The subtrees of two children have no node in common. *)
LEMMA SiblingsDisjoint ==
  ASSUME Linked, NEW L, Joined(L), NEW i \in L, is_expanded(Node(i)),
         NEW j \in ChildIndices(Node(i)), NEW k \in ChildIndices(Node(i)), j # k,
         Child(j).index # 0, Child(k).index # 0,
         NEW s, NEW u, Listing(L, Child(j).index, s), Listing(L, Child(k).index, u)
  PROVE  \A x \in 1..Len(s), y \in 1..Len(u) : s[x] # u[y]
<1> DEFINE a == Child(j).index
           b == Child(k).index
           Common == {n \in L : (\E x \in 1..Len(s) : s[x] = n) /\ (\E y \in 1..Len(u) : u[y] = n)}
<1>1. a \in Nat \ {0} /\ b \in Nat \ {0} /\ EdgeTo(L, i, a) /\ EdgeTo(L, i, b)
  BY DEF Linked, Joined, EdgeTo
<1>2. a # b
  BY DEF Linked, Joined
<1>3. Listing(L, a, s) /\ Listing(L, b, u)
  OBVIOUS
<1>4. i < a /\ i < b
  BY <1>1, EdgeFacts
<1>5. L \subseteq Nat
  BY DEF Linked, Joined, Nodes
<1> HIDE DEF a, b
<1> SUFFICES ASSUME Common # {} PROVE FALSE
  <2>1. \A x \in 1..Len(s) : s[x] \in L
    BY <1>3 DEF Listing
  <2> QED
    BY <2>1
<1>6. PICK n \in Common : \A m \in Common : n <= m
  BY <1>5, LeastNat
<1>7. PICK x \in 1..Len(s) : s[x] = n
  OBVIOUS
<1>8. PICK y \in 1..Len(u) : u[y] = n
  OBVIOUS
<1>9. n \in Nat \ {0} /\ a <= n /\ b <= n
  BY <1>1, <1>3, <1>5, <1>7, <1>8 DEF Listing
<1>10. ASSUME NEW m \in 1..Len(s), NEW w \in 1..Len(u), s[m] = u[w], s[m] < n
       PROVE  FALSE
  <2>1. s[m] \in L
    BY <1>3 DEF Listing
  <2>2. s[m] \in Common
    BY <1>10, <2>1
  <2>3. n <= s[m]
    BY <1>6, <2>2
  <2> DEFINE z == s[m]
  <2>4. z \in Nat /\ n \in Nat
    BY <1>5, <1>9, <2>1
  <2>5. z < n /\ n <= z
    BY <1>10, <2>3
  <2> HIDE DEF z, Common
  <2> QED
    BY <2>4, <2>5
<1>11. CASE x = 1
  <2>1. n = a
    BY <1>3, <1>7, <1>11 DEF Listing
  <2>2. y # 1
    BY <1>2, <1>3, <1>8, <2>1 DEF Listing
  <2>3. PICK w \in 1..(y - 1) : EdgeTo(L, u[w], u[y])
    <3>1. y \in 2..Len(u)
      BY <2>2
    <3> QED
      BY <1>3, <3>1 DEF Listing
  <2>4. u[w] = i
    <3>1. EdgeTo(L, u[w], a)
      BY <1>8, <2>1, <2>3
    <3> QED
      BY <1>1, <3>1, EdgeFacts
  <2>5. b <= u[w]
    BY <1>3, <2>3 DEF Listing
  <2> QED
    BY <1>1, <1>4, <1>5, <2>4, <2>5
<1>12. CASE y = 1
  <2>1. n = b
    BY <1>3, <1>8, <1>12 DEF Listing
  <2>2. x # 1
    BY <1>2, <1>3, <1>7, <2>1 DEF Listing
  <2>3. PICK w \in 1..(x - 1) : EdgeTo(L, s[w], s[x])
    <3>1. x \in 2..Len(s)
      BY <2>2
    <3> QED
      BY <1>3, <3>1 DEF Listing
  <2>4. s[w] = i
    <3>1. EdgeTo(L, s[w], b)
      BY <1>7, <2>1, <2>3
    <3> QED
      BY <1>1, <3>1, EdgeFacts
  <2>5. a <= s[w]
    BY <1>3, <2>3 DEF Listing
  <2> QED
    BY <1>1, <1>4, <1>5, <2>4, <2>5
<1>13. CASE x # 1 /\ y # 1
  <2>1. x \in 2..Len(s) /\ y \in 2..Len(u)
    BY <1>13
  <2>2. PICK w \in 1..(x - 1) : EdgeTo(L, s[w], s[x])
    BY <1>3, <2>1 DEF Listing
  <2>3. PICK v \in 1..(y - 1) : EdgeTo(L, u[v], u[y])
    BY <1>3, <2>1 DEF Listing
  <2>4. s[w] = u[v] /\ s[w] < n
    BY <1>7, <1>8, <1>9, <2>2, <2>3, EdgeFacts
  <2>5. w \in 1..Len(s) /\ v \in 1..Len(u)
    BY <2>1, <2>2, <2>3
  <2> QED
    BY <2>4, <2>5, <1>10
<1> QED
  BY <1>11, <1>12, <1>13

(* A node in front of the listings of its children's subtrees is a listing *)
(* of its own subtree.                                                     *)
LEMMA ListingStep ==
  ASSUME Linked, NEW L, Joined(L), NEW i \in L, NEW b,
         \A n \in L : i < n => Listing(L, n, b[n])
  PROVE  Listing(L, i, Below(b, i))
<1>1. i \in Nat /\ i \in Nodes /\ L \subseteq Nat
  BY DEF Linked, Joined, Nodes
<1> USE <1>1
<1>2. CASE ~is_expanded(Node(i))
  <2> DEFINE s == <<i>>
  <2>1. Below(b, i) = s
    BY <1>2 DEF Below
  <2>2. \A c : ~EdgeTo(L, s[1], c)
    BY <1>2 DEF EdgeTo
  <2>3. s \in Seq(L) /\ Len(s) = 1 /\ s[1] = i
    OBVIOUS
  <2> HIDE DEF s
  <2>4. \A x \in 1..Len(s) : x = 1
    BY <2>3
  <2>5. Listing(L, i, s)
    BY <1>1, <2>2, <2>3, <2>4 DEF Listing
  <2> QED
    BY <2>1, <2>5
<1>3. CASE is_expanded(Node(i))
  <2> DEFINE n == ChildCount(i)
             a == Node(i).first
             Index(k) == Child(a + k - 1).index
             seqs == Subtrees(b, i)
             F == FlattenSeq(seqs)
             s == <<i>> \o F
             o(k) == Offset(seqs, k)
  <2>1. n \in Nat /\ a \in Nat
    BY <1>3, ChildCountIs DEF Linked, Joined
  <2>2. seqs = [k \in 1..n |-> IF Index(k) = 0 THEN <<>> ELSE b[Index(k)]]
    BY <1>3, ChildCountIs DEF Subtrees
  <2>3. \A k \in 1..n : Index(k) # 0 =>
          /\ Index(k) \in L \ {0}
          /\ i < Index(k)
          /\ EdgeTo(L, i, Index(k))
          /\ Listing(L, Index(k), b[Index(k)])
    <3> TAKE k \in 1..n
    <3> HAVE Index(k) # 0
    <3>1. a + k - 1 \in ChildIndices(Node(i))
      BY <1>3, ChildCountIs
    <3>2. Index(k) \in L \ {0} /\ i < Index(k)
      BY <1>3, <3>1 DEF Linked, Joined, Nodes
    <3>3. EdgeTo(L, i, Index(k))
      BY <1>3, <3>1 DEF EdgeTo
    <3> HIDE DEF Index
    <3> QED
      BY <3>2, <3>3
  <2>4. \A c \in Nat \ {0} : EdgeTo(L, i, c) => \E k \in 1..n : Index(k) = c
    <3> TAKE c \in Nat \ {0}
    <3> HAVE EdgeTo(L, i, c)
    <3>1. PICK j \in ChildIndices(Node(i)) : Child(j).index = c
      BY DEF EdgeTo
    <3>2. j - a + 1 \in 1..n /\ a + (j - a + 1) - 1 = j
      BY <1>3, ChildCountIs
    <3>3. Index(j - a + 1) = c
      BY <3>1, <3>2
    <3> HIDE DEF Index
    <3> QED
      BY <3>2, <3>3
  <2>5. \A k, m \in 1..n : k # m /\ Index(k) # 0 /\ Index(m) # 0 =>
          \A x \in 1..Len(b[Index(k)]), y \in 1..Len(b[Index(m)]) :
            b[Index(k)][x] # b[Index(m)][y]
    <3> TAKE k, m \in 1..n
    <3> HAVE k # m /\ Index(k) # 0 /\ Index(m) # 0
    <3>1. a + k - 1 \in ChildIndices(Node(i)) /\ a + m - 1 \in ChildIndices(Node(i))
      BY <1>3, ChildCountIs
    <3>2. a + k - 1 # a + m - 1
      BY <2>1
    <3>3. Listing(L, Index(k), b[Index(k)]) /\ Listing(L, Index(m), b[Index(m)])
      BY <2>3
    <3> QED
      BY <1>3, <3>1, <3>2, <3>3, SiblingsDisjoint
  <2> HIDE DEF n, a, Index, seqs
  <2>6. seqs \in Seq(Seq(L)) /\ Len(seqs) = n
    <3>1. \A k \in 1..n : seqs[k] \in Seq(L)
      BY <2>2, <2>3 DEF Listing
    <3> QED
      BY <2>1, <2>2, <3>1
  <2>7. \A k \in 1..n : \A t \in 1..Len(seqs[k]) : Index(k) # 0 /\ seqs[k] = b[Index(k)]
    BY <2>2
  <2>8. F \in Seq(L) /\ Len(F) = o(n) /\ Len(F) \in Nat
    BY <2>6, FlattenWhole
  <2>9. \A k \in 1..n : o(k - 1) \in Nat /\ o(k) = o(k - 1) + Len(seqs[k])
    <3> TAKE k \in 1..n
    <3>1. k - 1 \in 0..(Len(seqs) - 1) /\ (k - 1) + 1 = k
      BY <2>1, <2>6
    <3> QED
      BY <2>6, <3>1, FlattenTypes
  <2>10. \A k \in 1..n : \A t \in 1..Len(seqs[k]) :
           /\ o(k - 1) + t \in 1..Len(F)
           /\ F[o(k - 1) + t] = seqs[k][t]
    <3> TAKE k \in 1..n
    <3>1. k - 1 \in 0..(n - 1) /\ (k - 1) + 1 = k
      BY <2>1
    <3>2. \A t \in 1..Len(seqs[(k - 1) + 1]) : Placed(seqs, k - 1, t)
      BY <2>6, <3>1, FlattenPlaced
    <3> QED
      BY <3>1, <3>2 DEF Placed
  <2>11. \A p \in 1..Len(F) : \E k \in 1..n : \E t \in 1..Len(seqs[k]) : p = o(k - 1) + t
    <3> TAKE p \in 1..Len(F)
    <3>1. p \in 1..Offset(seqs, Len(seqs))
      BY <2>6, <2>8
    <3>2. PICK k \in 0..(Len(seqs) - 1) : \E t \in 1..Len(seqs[k + 1]) : p = Offset(seqs, k) + t
      BY <2>6, <3>1, FlattenPlaces
    <3>3. k + 1 \in 1..n /\ (k + 1) - 1 = k
      BY <2>1, <2>6, <3>2
    <3> QED
      BY <3>2, <3>3
  <2> HIDE DEF F, o
  <2>12. /\ s \in Seq(L)
         /\ Len(s) = Len(F) + 1
         /\ s[1] = i
         /\ \A p \in 1..Len(F) : s[p + 1] = F[p]
    BY <2>8
  <2>13. Below(b, i) = s
    BY <1>3 DEF Below, seqs, F
  <2> HIDE DEF s
  <2>14. \A x \in 2..Len(s) : \E k \in 1..n : \E t \in 1..Len(b[Index(k)]) :
           /\ x = o(k - 1) + t + 1
           /\ Index(k) # 0
           /\ s[x] = b[Index(k)][t]
    <3> TAKE x \in 2..Len(s)
    <3>1. x - 1 \in 1..Len(F) /\ (x - 1) + 1 = x
      BY <2>8, <2>12
    <3>2. PICK k \in 1..n : \E t \in 1..Len(seqs[k]) : x - 1 = o(k - 1) + t
      BY <2>11, <3>1
    <3>3. PICK t \in 1..Len(seqs[k]) : x - 1 = o(k - 1) + t
      BY <3>2
    <3>4. Index(k) # 0 /\ seqs[k] = b[Index(k)]
      BY <2>7
    <3>5. s[x] = seqs[k][t]
      BY <2>10, <2>12, <3>1, <3>3
    <3>6. x = o(k - 1) + t + 1
      BY <2>9, <3>3, <3>1
    <3> QED
      BY <3>4, <3>5, <3>6
  <2>15. \A k \in 1..n : Index(k) # 0 =>
           \A t \in 1..Len(b[Index(k)]) :
             /\ o(k - 1) + t + 1 \in 2..Len(s)
             /\ s[o(k - 1) + t + 1] = b[Index(k)][t]
    <3> TAKE k \in 1..n
    <3> HAVE Index(k) # 0
    <3> TAKE t \in 1..Len(b[Index(k)])
    <3>1. seqs[k] = b[Index(k)]
      BY <2>2
    <3>2. o(k - 1) + t \in 1..Len(F) /\ F[o(k - 1) + t] = b[Index(k)][t]
      BY <2>10, <3>1
    <3> QED
      BY <2>8, <2>12, <3>2
  <2> HIDE DEF o
  <2>16. \A x \in 2..Len(s) : i < s[x]
    <3> TAKE x \in 2..Len(s)
    <3>1. PICK k \in 1..n : \E t \in 1..Len(b[Index(k)]) :
             Index(k) # 0 /\ s[x] = b[Index(k)][t]
      BY <2>14
    <3>2. Index(k) <= s[x] /\ i < Index(k)
      BY <2>3, <3>1 DEF Listing
    <3>3. x \in 1..Len(s)
      BY <2>8, <2>12
    <3>4. s[x] \in L /\ Index(k) \in L
      BY <2>3, <2>12, <3>1, <3>3
    <3>5. s[x] \in Nat /\ Index(k) \in Nat
      BY <1>1, <3>4
    <3> QED
      BY <1>1, <3>2, <3>5
  <2>17. \A x \in 1..Len(s) : i <= s[x]
    <3> TAKE x \in 1..Len(s)
    <3>1. CASE x = 1
      BY <1>1, <2>12, <3>1
    <3>2. CASE x # 1
      <4>1. x \in 2..Len(s)
        BY <3>2
      <4>2. i < s[x]
        BY <2>16, <4>1
      <4>3. s[x] \in L
        BY <2>12
      <4>4. s[x] \in Nat
        BY <1>1, <4>3
      <4> QED
        BY <1>1, <4>2, <4>4
    <3> QED
      BY <3>1, <3>2
  <2>18. \A x \in 2..Len(s) : \E w \in 1..(x - 1) : EdgeTo(L, s[w], s[x])
    <3> TAKE x \in 2..Len(s)
    <3>1. PICK k \in 1..n : \E t \in 1..Len(b[Index(k)]) :
             /\ x = o(k - 1) + t + 1
             /\ Index(k) # 0
             /\ s[x] = b[Index(k)][t]
      BY <2>14
    <3>2. PICK t \in 1..Len(b[Index(k)]) :
             x = o(k - 1) + t + 1 /\ s[x] = b[Index(k)][t]
      BY <3>1
    <3>3. Listing(L, Index(k), b[Index(k)]) /\ EdgeTo(L, i, Index(k))
      BY <2>3, <3>1
    <3>4. CASE t = 1
      <4>1. s[x] = Index(k)
        BY <3>2, <3>3, <3>4 DEF Listing
      <4>2. 1 \in 1..(x - 1)
        OBVIOUS
      <4> QED
        BY <2>12, <3>3, <4>1, <4>2
    <3>5. CASE t # 1
      <4>1. t \in 2..Len(b[Index(k)])
        BY <3>5
      <4>2. PICK w \in 1..(t - 1) : EdgeTo(L, b[Index(k)][w], b[Index(k)][t])
        BY <3>3, <4>1 DEF Listing
      <4>3. w \in 1..Len(b[Index(k)])
        BY <4>1, <4>2
      <4>4. s[o(k - 1) + w + 1] = b[Index(k)][w]
        BY <2>15, <3>1, <4>3
      <4>5. o(k - 1) + w + 1 \in 1..(x - 1)
        BY <2>9, <3>2, <4>1, <4>2
      <4> QED
        BY <3>2, <4>2, <4>4, <4>5
    <3> QED
      BY <3>4, <3>5
  <2>19. \A x \in 1..Len(s) : \A c \in Nat \ {0} :
           EdgeTo(L, s[x], c) => \E y \in (x + 1)..Len(s) : s[y] = c
    <3> TAKE x \in 1..Len(s)
    <3> TAKE c \in Nat \ {0}
    <3> HAVE EdgeTo(L, s[x], c)
    <3>1. CASE x = 1
      <4>1. EdgeTo(L, i, c)
        BY <2>12, <3>1
      <4>2. PICK k \in 1..n : Index(k) = c
        BY <2>4, <4>1
      <4>3. 1 \in 1..Len(b[Index(k)]) /\ b[Index(k)][1] = c
        BY <2>3, <4>2 DEF Listing
      <4>4. o(k - 1) + 1 + 1 \in 2..Len(s) /\ s[o(k - 1) + 1 + 1] = c
        BY <2>15, <4>2, <4>3
      <4> QED
        BY <3>1, <4>4
    <3>2. CASE x # 1
      <4>1. x \in 2..Len(s)
        BY <3>2
      <4>2. PICK k \in 1..n : \E t \in 1..Len(b[Index(k)]) :
               /\ x = o(k - 1) + t + 1
               /\ Index(k) # 0
               /\ s[x] = b[Index(k)][t]
        BY <2>14, <4>1
      <4>3. PICK t \in 1..Len(b[Index(k)]) :
               x = o(k - 1) + t + 1 /\ s[x] = b[Index(k)][t]
        BY <4>2
      <4>4. Listing(L, Index(k), b[Index(k)])
        BY <2>3, <4>2
      <4>5. PICK u \in (t + 1)..Len(b[Index(k)]) : b[Index(k)][u] = c
        BY <4>3, <4>4 DEF Listing
      <4>6. u \in 1..Len(b[Index(k)])
        BY <4>3, <4>5
      <4>7. s[o(k - 1) + u + 1] = c /\ o(k - 1) + u + 1 \in 2..Len(s)
        BY <2>15, <4>2, <4>5, <4>6
      <4>8. o(k - 1) + u + 1 \in (x + 1)..Len(s)
        BY <2>9, <4>3, <4>5, <4>7
      <4> QED
        BY <4>7, <4>8
    <3> QED
      BY <3>1, <3>2
  <2>20. ASSUME NEW x \in 2..Len(s), NEW y \in 2..Len(s), s[x] = s[y]
         PROVE  x = y
    <3>1. PICK k \in 1..n : \E t \in 1..Len(b[Index(k)]) :
             /\ x = o(k - 1) + t + 1
             /\ Index(k) # 0
             /\ s[x] = b[Index(k)][t]
      BY <2>14
    <3>2. PICK t \in 1..Len(b[Index(k)]) :
             x = o(k - 1) + t + 1 /\ s[x] = b[Index(k)][t]
      BY <3>1
    <3>3. PICK m \in 1..n : \E u \in 1..Len(b[Index(m)]) :
             /\ y = o(m - 1) + u + 1
             /\ Index(m) # 0
             /\ s[y] = b[Index(m)][u]
      BY <2>14
    <3>4. PICK u \in 1..Len(b[Index(m)]) :
             y = o(m - 1) + u + 1 /\ s[y] = b[Index(m)][u]
      BY <3>3
    <3>5. k = m
      BY <2>5, <2>20, <3>1, <3>2, <3>3, <3>4
    <3>6. t = u
      BY <2>3, <2>20, <3>1, <3>2, <3>4, <3>5 DEF Listing
    <3> QED
      BY <3>2, <3>4, <3>5, <3>6
  <2>21. \A x, y \in 1..Len(s) : s[x] = s[y] => x = y
    <3> TAKE x, y \in 1..Len(s)
    <3> HAVE s[x] = s[y]
    <3>1. CASE x = 1 \/ y = 1
      <4>1. i < i => FALSE
        BY <1>1
      <4>2. (x # 1 => i < s[x]) /\ (y # 1 => i < s[y])
        BY <2>16
      <4> QED
        BY <2>12, <3>1, <4>1, <4>2
    <3>2. CASE x # 1 /\ y # 1
      BY <2>20, <3>2
    <3> QED
      BY <3>1, <3>2
  <2>22. Len(s) \in Nat \ {0}
    BY <2>8, <2>12
  <2>23. Listing(L, i, s)
    BY <2>12, <2>17, <2>18, <2>19, <2>21, <2>22 DEF Listing
  <2> QED
    BY <2>13, <2>23
<1> QED
  BY <1>2, <1>3

(* Preorder lists the subtree of its root. *)
LEMMA PreorderLists ==
  ASSUME Linked, NEW L, Joined(L), NEW r \in L
  PROVE  Listing(L, r, Preorder(r))
<1> DEFINE len == Len(nodes)
           b == PreorderFunction
           T == {m \in Nat : \A i \in L : len = i + m => Listing(L, i, b[i])}
<1>1. b = [i \in Nodes |-> Below(b, i)]
  BY PreorderFunctionExists DEF PreorderStep
<1> HIDE DEF b
<1>2. \A i \in Nodes : b[i] = Below(b, i)
  BY <1>1
<1>3. len \in Nat /\ L \subseteq Nodes /\ \A i \in Nodes : i \in Nat /\ i < len
  BY DEF Linked, Joined, Nodes
<1> HIDE DEF len
<1>4. ASSUME NEW m \in Nat, \A k \in 0..(m - 1) : k \in T
      PROVE  m \in T
  <2> SUFFICES ASSUME NEW i \in L, len = i + m PROVE Listing(L, i, b[i])
    OBVIOUS
  <2>1. \A n \in L : i < n => Listing(L, n, b[n])
    <3> TAKE n \in L
    <3> HAVE i < n
    <3>1. len - n \in 0..(m - 1) /\ len = n + (len - n)
      BY <1>3
    <3>2. len - n \in T
      BY <1>4, <3>1
    <3> QED
      BY <3>1, <3>2
  <2> QED
    BY <1>2, <1>3, <2>1, ListingStep
<1>5. len - r \in Nat /\ len = r + (len - r)
  BY <1>3
<1>6. len - r \in T
  <2> HIDE DEF T
  <2>1. \A m \in Nat : m \in T
    BY <1>4, StrongInduction
  <2> QED
    BY <1>5, <2>1
<1>7. Listing(L, r, b[r])
  BY <1>5, <1>6
<1> QED
  BY <1>7, PreorderIs DEF b

(* When every node but the root has a parent, the listing of the root is a *)
(* listing of the whole vector.                                            *)
LEMMA PreorderOfRoot ==
  ASSUME Linked, Joined(Nodes), 0 \in Nodes,
         \A n \in Nodes \ {0} : \E p \in Nodes : EdgeTo(Nodes, p, n)
  PROVE  /\ Len(Preorder(0)) = Len(nodes)
         /\ ToSet(Preorder(0)) = Nodes
<1> DEFINE s == Preorder(0)
           D == 1..Len(s)
           T == {n \in Nat : n \in Nodes => \E x \in D : s[x] = n}
<1>1. Listing(Nodes, 0, s)
  BY PreorderLists
<1> HIDE DEF s
<1>2. s \in [D -> Nodes] /\ Len(s) \in Nat /\ DOMAIN s = D
  BY <1>1 DEF Listing
<1>3. Nodes \subseteq Nat /\ Nodes = 0..(Len(nodes) - 1) /\ Len(nodes) \in Nat \ {0}
  BY DEF Linked, Joined, Nodes
<1>4. ASSUME NEW n \in Nat, \A k \in 0..(n - 1) : k \in T
      PROVE  n \in T
  <2> SUFFICES ASSUME n \in Nodes PROVE \E x \in D : s[x] = n
    OBVIOUS
  <2>1. CASE n = 0
    BY <1>1, <2>1 DEF Listing
  <2>2. CASE n # 0
    <3>1. PICK p \in Nodes : EdgeTo(Nodes, p, n)
      BY <2>2
    <3>2. p < n
      BY <2>2, <3>1, EdgeFacts
    <3>3. p \in 0..(n - 1)
      BY <1>3, <3>2
    <3>4. PICK x \in D : s[x] = p
      BY <1>4, <3>3
    <3>5. PICK y \in (x + 1)..Len(s) : s[y] = n
      BY <1>1, <2>2, <3>1, <3>4 DEF Listing
    <3>6. y \in D
      BY <1>2, <3>5
    <3> QED
      BY <3>5, <3>6
  <2> QED
    BY <2>1, <2>2
<1> HIDE DEF T
<1>5. \A n \in Nat : n \in T
  BY <1>4, StrongInduction
<1>6. \A n \in Nodes : \E x \in D : s[x] = n
  BY <1>3, <1>5 DEF T
<1>7. ToSet(s) = Nodes
  BY <1>2, <1>6 DEF ToSet
<1>8. \A x, y \in D : s[x] = s[y] => x = y
  BY <1>1 DEF Listing
<1>9. s \in Surjection(D, Nodes)
  BY <1>2, <1>6 DEF Surjection
<1>10. s \in Injection(D, Nodes)
  BY <1>2, <1>8 DEF Injection, IsInjective
<1>11. IsFiniteSet(D) /\ Cardinality(D) = Len(s)
  <2> DEFINE l == Len(s)
  <2>1. 1 \in Int /\ l \in Int /\ l \in Nat
    BY <1>2
  <2> HIDE DEF l
  <2>2. IsFiniteSet(1..l) /\ Cardinality(1..l) = IF 1 > l THEN 0 ELSE l - 1 + 1
    BY <2>1, FS_Interval
  <2>3. IsFiniteSet(1..l) /\ Cardinality(1..l) = l
    BY <2>1, <2>2
  <2> QED
    BY <2>3 DEF l
<1>12. Cardinality(Nodes) = Len(nodes)
  <2> DEFINE l == Len(nodes) - 1
  <2>1. 0 \in Int /\ l \in Int /\ l \in Nat
    BY <1>3
  <2> HIDE DEF l
  <2>2. Cardinality(0..l) = IF 0 > l THEN 0 ELSE l - 0 + 1
    BY <2>1, FS_Interval
  <2>3. Cardinality(0..l) = l + 1
    BY <2>1, <2>2
  <2>4. l + 1 = Len(nodes)
    BY <1>3 DEF l
  <2> QED
    BY <1>3, <2>3, <2>4 DEF l
<1>13. Cardinality(Nodes) = Cardinality(D)
  <2> HIDE DEF D
  <2> QED
    BY <1>9, <1>10, <1>11, FS_Surjection
<1> QED
  BY <1>7, <1>11, <1>12, <1>13 DEF s
-----------------------------------------------------------------------------
(* The copy: where the block of each copied node begins, and what is there.*)

CopyOffset(order, k) == Len(CopiedBlocks(SubSeq(order, 1, k)))

InVector == \A n \in Nodes : is_expanded(Node(n)) => Node(n).second <= Len(children)

(* The blocks of a copy follow one another, each with the children it had. *)
LEMMA CopyBlocks ==
  ASSUME Linked, InVector, NEW C, children \in Seq(C), NEW order \in Seq(Nodes)
  PROVE  /\ CopyOffset(order, 0) = 0
         /\ \A k \in 0..Len(order) : CopyOffset(order, k) \in Nat
         /\ \A k \in 1..Len(order) :
              /\ ChildCount(order[k]) \in Nat
              /\ CopyOffset(order, k) = CopyOffset(order, k - 1) + ChildCount(order[k])
         /\ CopiedBlocks(order) \in Seq(C)
         /\ Len(CopiedBlocks(order)) = CopyOffset(order, Len(order))
         /\ \A k \in 1..Len(order) : \A t \in 1..ChildCount(order[k]) :
              /\ CopyOffset(order, k - 1) + t \in 1..Len(CopiedBlocks(order))
              /\ CopiedBlocks(order)[CopyOffset(order, k - 1) + t]
                   = Child(Node(order[k]).first + t - 1)
         /\ \A p \in 1..Len(CopiedBlocks(order)) :
              \E k \in 1..Len(order) : \E t \in 1..ChildCount(order[k]) :
                p = CopyOffset(order, k - 1) + t
<1> DEFINE m == Len(order)
           seqs == [k \in 1..m |-> Block(order[k])]
<1>1. m \in Nat /\ \A k \in 1..m : order[k] \in Nodes
  OBVIOUS
<1>2. \A i \in Nodes :
        /\ ChildCount(i) \in Nat
        /\ Block(i) \in Seq(C)
        /\ Len(Block(i)) = ChildCount(i)
        /\ \A t \in 1..ChildCount(i) : Block(i)[t] = Child(Node(i).first + t - 1)
  <2> TAKE i \in Nodes
  <2>1. ChildCount(i) \in Nat
    <3>1. CASE is_expanded(Node(i))
      BY <3>1, ChildCountIs
    <3>2. CASE ~is_expanded(Node(i))
      BY <3>2 DEF ChildCount
    <3> QED
      BY <3>1, <3>2
  <2>2. \A t \in 1..ChildCount(i) : Child(Node(i).first + t - 1) \in C
    <3> TAKE t \in 1..ChildCount(i)
    <3>1. is_expanded(Node(i))
      BY DEF ChildCount
    <3>2. Node(i).first \in Nat /\ Node(i).second \in Nat /\ Node(i).second <= Len(children)
      BY <3>1 DEF Linked, InVector
    <3>3. ChildCount(i) = Node(i).second - Node(i).first
      BY <3>1 DEF ChildCount
    <3>4. (Node(i).first + t - 1) + 1 \in 1..Len(children)
      BY <3>2, <3>3
    <3> QED
      BY <3>4 DEF Child
  <2> QED
    BY <2>1, <2>2 DEF Block
<1>3. seqs \in Seq(Seq(C)) /\ Len(seqs) = m
  BY <1>1, <1>2
<1>4. \A k \in 1..m : seqs[k] = Block(order[k])
  OBVIOUS
<1>5. ASSUME NEW k \in 0..m
      PROVE  CopiedBlocks(SubSeq(order, 1, k)) = FlattenSeq(SubSeq(seqs, 1, k))
  <2> DEFINE some == SubSeq(order, 1, k)
  <2>1. Len(some) = k /\ \A j \in 1..k : some[j] = order[j]
    BY <1>1
  <2>2. SubSeq(seqs, 1, k) = [j \in 1..k |-> Block(order[j])]
    BY <1>1, <1>3, <1>4
  <2> HIDE DEF some, seqs
  <2>3. [j \in 1..Len(some) |-> Block(some[j])] = [j \in 1..k |-> Block(order[j])]
    BY <2>1
  <2> QED
    BY <2>2, <2>3 DEF CopiedBlocks, some
<1>6. CopiedBlocks(order) = FlattenSeq(seqs)
  BY DEF CopiedBlocks
<1>7. \A k \in 0..m : CopyOffset(order, k) = Offset(seqs, k)
  BY <1>5 DEF CopyOffset, Offset
<1> HIDE DEF seqs, m
<1>8. /\ Offset(seqs, 0) = 0
      /\ \A k \in 0..m : Offset(seqs, k) \in Nat
      /\ \A k \in 0..(m - 1) : Offset(seqs, k + 1) = Offset(seqs, k) + Len(seqs[k + 1])
  BY <1>3, FlattenTypes
<1>9. FlattenSeq(seqs) \in Seq(C) /\ Len(FlattenSeq(seqs)) = Offset(seqs, m)
  BY <1>3, FlattenWhole
<1>10. \A k \in 1..m : k - 1 \in 0..(m - 1) /\ (k - 1) + 1 = k /\ k - 1 \in 0..m /\ k \in 0..m
  BY <1>1
<1>11. \A k \in 1..m :
         /\ ChildCount(order[k]) \in Nat
         /\ CopyOffset(order, k) = CopyOffset(order, k - 1) + ChildCount(order[k])
  <2> TAKE k \in 1..m
  <2>1. Offset(seqs, (k - 1) + 1) = Offset(seqs, k - 1) + Len(seqs[(k - 1) + 1])
    BY <1>8, <1>10
  <2>2. Len(seqs[k]) = ChildCount(order[k]) /\ ChildCount(order[k]) \in Nat
    BY <1>1, <1>2, <1>4
  <2> QED
    BY <1>7, <1>10, <2>1, <2>2
<1>12. ASSUME NEW k \in 1..m, NEW t \in 1..ChildCount(order[k])
       PROVE  /\ CopyOffset(order, k - 1) + t \in 1..Len(CopiedBlocks(order))
              /\ CopiedBlocks(order)[CopyOffset(order, k - 1) + t]
                   = Child(Node(order[k]).first + t - 1)
  <2>1. t \in 1..Len(seqs[(k - 1) + 1])
    BY <1>1, <1>2, <1>4, <1>10
  <2>2. k - 1 \in 0..(Len(seqs) - 1)
    BY <1>3, <1>10
  <2>3. Placed(seqs, k - 1, t)
    BY <1>3, <2>1, <2>2, FlattenPlaced
  <2>4. seqs[k][t] = Child(Node(order[k]).first + t - 1)
    BY <1>1, <1>2, <1>4
  <2> QED
    BY <1>6, <1>7, <1>10, <2>3, <2>4 DEF Placed
<1>13. ASSUME NEW p \in 1..Len(CopiedBlocks(order))
       PROVE  \E k \in 1..m : \E t \in 1..ChildCount(order[k]) : p = CopyOffset(order, k - 1) + t
  <2>1. p \in 1..Offset(seqs, Len(seqs))
    BY <1>3, <1>6, <1>9
  <2>2. PICK k \in 0..(Len(seqs) - 1) : \E t \in 1..Len(seqs[k + 1]) : p = Offset(seqs, k) + t
    BY <1>3, <2>1, FlattenPlaces
  <2>3. k + 1 \in 1..m /\ (k + 1) - 1 = k /\ k \in 0..m
    BY <1>1, <1>3, <2>2
  <2>4. Len(seqs[k + 1]) = ChildCount(order[k + 1])
    BY <1>1, <1>2, <1>4, <2>3
  <2> QED
    BY <1>7, <2>2, <2>3, <2>4
<1> QED
  BY <1>1, <1>6, <1>7, <1>8, <1>9, <1>11, <1>12, <1>13 DEF m
-----------------------------------------------------------------------------
(* Simulation counts of children, and the sum over a block of them.        *)

(* The blocks of a copy lie in the order of their nodes. *)
LEMMA OffsetsGrow ==
  ASSUME Linked, InVector, NEW C, children \in Seq(C), NEW order \in Seq(Nodes),
         NEW k \in 0..Len(order), NEW l \in 0..Len(order), k <= l
  PROVE  CopyOffset(order, k) <= CopyOffset(order, l)
<1> DEFINE m == Len(order)
           o(j) == CopyOffset(order, j)
           T == {d \in Nat : k + d <= m => o(k) <= o(k + d)}
<1>1. m \in Nat /\ k \in Nat /\ k <= m
  OBVIOUS
<1>2. /\ \A j \in 0..m : o(j) \in Nat
      /\ \A j \in 1..m : ChildCount(order[j]) \in Nat /\ o(j) = o(j - 1) + ChildCount(order[j])
  BY CopyBlocks
<1> HIDE DEF o
<1>3. 0 \in T
  BY <1>1, <1>2
<1>4. ASSUME NEW d \in Nat, d \in T
      PROVE  d + 1 \in T
  <2> SUFFICES ASSUME k + (d + 1) <= m PROVE o(k) <= o(k + (d + 1))
    OBVIOUS
  <2> DEFINE j == k + (d + 1)
  <2>1. j \in 1..m /\ j - 1 = k + d /\ k + d \in 0..m /\ k \in 0..m
    BY <1>1
  <2>2. o(k) <= o(j - 1)
    BY <1>4, <2>1
  <2> HIDE DEF j
  <2>3. o(k) \in Nat /\ o(j - 1) \in Nat /\ o(j) \in Nat
    BY <1>2, <2>1
  <2>4. o(k) <= o(j)
    BY <1>2, <2>1, <2>2, <2>3
  <2> QED
    BY <2>4 DEF j
<1> HIDE DEF T
<1>5. \A d \in Nat : d \in T
  BY <1>3, <1>4, SetInduction
<1>6. l - k \in Nat /\ k + (l - k) = l
  OBVIOUS
<1>7. l - k \in T
  BY <1>5, <1>6
<1> QED
  BY <1>6, <1>7 DEF T, o

SimCounts(cs) == [i \in 0..(Len(cs) - 1) |-> cs[i + 1].sim_count]
BlockSims(cs, node) == SumOver(SimCounts(cs), ChildIndices(node))

(* ChildSims as a sum over a block. *)
LEMMA ChildSimsIs ==
  ASSUME NEW n, IsFiniteSet(ChildIndices(Node(n))), ChildIndices(Node(n)) \subseteq Children
  PROVE  ChildSims(n) = BlockSims(children, Node(n))
<1> DEFINE S == ChildIndices(Node(n))
           f == SimCounts(children)
           Step(g) == g = [s \in SUBSET S |->
                             IF s = {} THEN 0
                             ELSE Child(Pick(s)).sim_count + g[s \ {Pick(s)}]]
           Chosen == CHOOSE g : Step(g)
<1>1. ChildSims(n) = Chosen[S]
  BY DEF ChildSims, MapThenSumSet, MapThenFoldSet, Pick
<1>2. \A s \in SUBSET S : s # {} => f[Pick(s)] = Child(Pick(s)).sim_count
  <2> TAKE s \in SUBSET S
  <2> HAVE s # {}
  <2>1. Pick(s) \in 0..(Len(children) - 1)
    BY PickIn DEF Children
  <2> HIDE DEF S
  <2> QED
    BY <2>1 DEF SimCounts, Child
<1> HIDE DEF S, f
<1>3. ASSUME NEW g
      PROVE  Step(g) <=> SumStep(f, S, g)
  <2>1. [s \in SUBSET S |-> IF s = {} THEN 0 ELSE Child(Pick(s)).sim_count + g[s \ {Pick(s)}]]
        = [s \in SUBSET S |-> IF s = {} THEN 0 ELSE f[Pick(s)] + g[s \ {Pick(s)}]]
    BY <1>2
  <2> QED
    BY <2>1 DEF SumStep
<1>4. IsFiniteSet(S)
  BY DEF S
<1>5. SumStep(f, S, SumsOf(f, S)) /\ SumOver(f, S) = SumsOf(f, S)[S]
  BY <1>4, SumFunctionIs
<1>6. Step(SumsOf(f, S))
  BY <1>3, <1>5
<1> HIDE DEF Step
<1>7. Step(Chosen)
  BY <1>6
<1>8. SumStep(f, S, Chosen)
  BY <1>3, <1>7
<1>9. Chosen = SumsOf(f, S)
  BY <1>4, <1>5, <1>8, SumFunctionUnique
<1> QED
  BY <1>1, <1>5, <1>9 DEF BlockSims, S, f

(* The sum over a block looks at the counts in it only. *)
LEMMA BlockSimsSame ==
  ASSUME NEW cs, NEW ds, NEW node, NEW other,
         node.first \in Nat, node.second \in Nat, node.first <= node.second,
         other.first \in Nat, other.second \in Nat,
         other.second - other.first = node.second - node.first,
         Len(cs) \in Nat, node.second <= Len(cs),
         Len(ds) \in Nat, other.second <= Len(ds),
         \A k \in 0..((node.second - node.first) - 1) :
           /\ cs[node.first + k + 1].sim_count \in Nat
           /\ ds[other.first + k + 1].sim_count = cs[node.first + k + 1].sim_count
  PROVE  BlockSims(ds, other) = BlockSims(cs, node)
<1> DEFINE a == node.first
           b == node.second
           c == other.first
           d == other.second
           n == b - a
           f == SimCounts(cs)
           g == SimCounts(ds)
<1>1. a \in Nat /\ b \in Nat /\ c \in Nat /\ d \in Nat /\ n \in Nat /\ b = a + n /\ d = c + n
  OBVIOUS
<1>2. ChildIndices(node) = a..(b - 1) /\ ChildIndices(other) = c..(d - 1)
  BY DEF ChildIndices
<1>3. \A k \in 0..(n - 1) : cs[a + k + 1].sim_count \in Nat /\ ds[c + k + 1].sim_count = cs[a + k + 1].sim_count
  OBVIOUS
<1>4. b <= Len(cs) /\ d <= Len(ds)
  OBVIOUS
<1> HIDE DEF a, b, c, d, n
<1>5. \A k \in 0..(n - 1) : f[a + k] \in Nat /\ g[c + k] = f[a + k]
  <2> TAKE k \in 0..(n - 1)
  <2>1. a + k \in 0..(Len(cs) - 1) /\ c + k \in 0..(Len(ds) - 1)
    BY <1>1, <1>4
  <2>2. f[a + k] = cs[a + k + 1].sim_count /\ g[c + k] = ds[c + k + 1].sim_count
    BY <2>1 DEF SimCounts
  <2> QED
    BY <1>3, <2>2
<1> HIDE DEF f, g
<1>6. SameValues(f, a, g, c, n)
  BY <1>5 DEF SameValues
<1>7. RangeSum(g, c, n) = RangeSum(f, a, n)
  BY <1>1, <1>6, RangeSumSame
<1>8. RangeSum(g, c, n) = SumOver(g, c..(d - 1)) /\ RangeSum(f, a, n) = SumOver(f, a..(b - 1))
  BY <1>1 DEF RangeSum
<1> QED
  BY <1>2, <1>7, <1>8 DEF BlockSims, f, g

(* Of the same blocks with the same counts. *)
LEMMA BlockSimsKept ==
  ASSUME NEW cs, NEW ds, NEW node,
         node.first \in Nat, node.second \in Nat, node.first <= node.second,
         Len(cs) \in Nat, node.second <= Len(cs), Len(ds) \in Nat, node.second <= Len(ds),
         \A i \in ChildIndices(node) :
           cs[i + 1].sim_count \in Nat /\ ds[i + 1].sim_count = cs[i + 1].sim_count
  PROVE  BlockSims(ds, node) = BlockSims(cs, node)
<1>1. \A k \in 0..((node.second - node.first) - 1) : node.first + k \in ChildIndices(node)
  BY DEF ChildIndices
<1>2. \A k \in 0..((node.second - node.first) - 1) :
        /\ cs[node.first + k + 1].sim_count \in Nat
        /\ ds[node.first + k + 1].sim_count = cs[node.first + k + 1].sim_count
  BY <1>1
<1> QED
  BY <1>2, BlockSimsSame

(* Visited children come first, as many as the parent was simulated at     *)
(* most: then the guess finds the first one that was not.                  *)
LEMMA FirstUnvisitedFound ==
  ASSUME NEW cs, NEW node, node.first \in Nat, node.second \in Nat,
         NEW sims \in Nat, NEW v \in Nat,
         node.first + v < node.second, v <= sims,
         \A i \in ChildIndices(node) : cs[i + 1].index = 0 <=> node.first + v <= i
  PROVE  /\ FirstUnvisited(cs, node, sims) = node.first + v
         /\ Min({i \in ChildIndices(node) : cs[i + 1].index = 0}) = node.first + v
<1> DEFINE a == node.first
           b == node.second
           T == {i \in a..(b - 1) : i <= a + sims /\ (i = a \/ cs[i].index # 0)}
           U == {i \in a..(b - 1) : cs[i + 1].index = 0}
           x == a + v
<1>1. a \in Nat /\ b \in Nat /\ ChildIndices(node) = a..(b - 1)
  BY DEF ChildIndices
<1>2. \A i \in a..(b - 1) : cs[i + 1].index = 0 <=> x <= i
  BY DEF ChildIndices
<1>3. x \in a..(b - 1) /\ x <= a + sims /\ x \in Nat /\ (x = a \/ x - 1 \in a..(b - 1))
  OBVIOUS
<1> HIDE DEF a, b, x
<1>4. x \in T
  <2>1. CASE x = a
    BY <1>3, <2>1
  <2>2. CASE x # a
    <3>1. cs[(x - 1) + 1].index # 0
      BY <1>2, <1>3, <2>2
    <3>2. (x - 1) + 1 = x
      BY <1>3
    <3> QED
      BY <1>3, <3>1, <3>2
  <2> QED
    BY <2>1, <2>2
<1>5. \A i \in T : i <= x
  <2> SUFFICES ASSUME NEW i \in T, ~ (i <= x) PROVE FALSE
    OBVIOUS
  <2>1. i \in a..(b - 1) /\ i # a /\ cs[i].index # 0
    BY <1>1, <1>3
  <2>2. i - 1 \in a..(b - 1) /\ x <= i - 1 /\ (i - 1) + 1 = i
    BY <1>1, <1>3, <2>1
  <2>3. cs[(i - 1) + 1].index = 0
    BY <1>2, <2>2
  <2> QED
    BY <2>1, <2>2, <2>3
<1>6. T \subseteq Int /\ U \subseteq Int
  BY <1>1
<1>7. x \in U /\ \A i \in U : x <= i
  BY <1>2, <1>3
<1> HIDE DEF T, U
<1>8. Max(T) = x
  <2>1. \A y \in T : (\A z \in T : y >= z) => y = x
    BY <1>3, <1>4, <1>5, <1>6
  <2>2. \A z \in T : x >= z
    BY <1>3, <1>5, <1>6
  <2> QED
    BY <1>4, <2>1, <2>2 DEF Max
<1>9. Min(U) = x
  <2>1. \A y \in U : (\A z \in U : y =< z) => y = x
    BY <1>3, <1>7, <1>6
  <2> QED
    BY <1>7, <2>1 DEF Min
<1> QED
  BY <1>1, <1>8, <1>9 DEF FirstUnvisited, T, U, a, b, x
-----------------------------------------------------------------------------
(* get_top_ranked_child_index is a fold over the children of a node: what  *)
(* it holds after each of them is the best of those before.                *)

RankStart == [score |-> 0, sims |-> 0, indices |-> {}]
ListedFrom(a, m) == [k \in 1..m |-> a + k - 1]

Greatest(s) == Max(s)
RankValue(g, a, s) ==
  IF s = {} THEN RankStart ELSE Rank(g[s \ {Greatest(s)}], a + Greatest(s) - 1)
RankStep(g, a, m) == g = [s \in SUBSET (1..m) |-> RankValue(g, a, s)]
RanksOf(a, m) == CHOOSE g : RankStep(g, a, m)

(* A set of indices has a greatest one. *)
LEMMA GreatestIn ==
  ASSUME NEW m \in Nat, NEW s \in SUBSET (1..m), s # {}
  PROVE  Greatest(s) \in s /\ \A y \in s : Greatest(s) >= y
<1> DEFINE T == {d \in Nat : m - d \in s}
<1>1. PICK x \in s : TRUE
  OBVIOUS
<1>2. m - x \in T
  OBVIOUS
<1>3. \A y \in s : y \in Nat /\ m - y \in T /\ m - (m - y) = y
  OBVIOUS
<1>4. \A d \in T : d \in Nat /\ m - d \in s
  OBVIOUS
<1> HIDE DEF T
<1>5. PICK d \in T : \A e \in T : d <= e
  BY <1>2, <1>4, LeastNat
<1>6. \A y \in s : d <= m - y
  BY <1>3, <1>5
<1>7. m - d \in s /\ d \in Nat
  BY <1>4, <1>5
<1>8. \A y \in s : m - d >= y
  BY <1>3, <1>6, <1>7
<1> QED
  BY <1>7, <1>8 DEF Greatest, Max

(* There is a function that FoldLeft may choose. *)
LEMMA RankFunctionExists ==
  ASSUME NEW a, NEW m \in Nat
  PROVE  \E g : RankStep(g, a, m)
<1> DEFINE S == 1..m
           Small(n) == {s \in SUBSET S : Cardinality(s) <= n}
           N == {n \in Nat : \E g : g = [s \in Small(n) |-> RankValue(g, a, s)]}
<1>0. IsFiniteSet(S)
  BY FS_Interval
<1>1. \A s \in SUBSET S : Cardinality(s) \in Nat
  BY <1>0, FS_Subset, FS_CardinalityType
<1>2. \A s \in SUBSET S : s # {} =>
        /\ Cardinality(s) # 0
        /\ s \ {Greatest(s)} \in SUBSET S
        /\ Cardinality(s \ {Greatest(s)}) = Cardinality(s) - 1
  BY <1>0, GreatestIn, FewerElements
<1> HIDE DEF S
<1>3. 0 \in N
  <2> DEFINE g == [s \in Small(0) |-> RankStart]
  <2>1. \A s \in Small(0) : s = {}
    <3> SUFFICES ASSUME NEW s \in SUBSET S, Cardinality(s) <= 0, s # {} PROVE FALSE
      OBVIOUS
    <3>1. Cardinality(s) = 0
      BY <1>1
    <3> QED
      BY <3>1, <1>2
  <2>2. g = [s \in Small(0) |-> RankValue(g, a, s)]
    BY <2>1 DEF RankValue
  <2> QED
    BY <2>2
<1>4. ASSUME NEW n \in Nat, n \in N
      PROVE  n + 1 \in N
  <2>1. PICK g : g = [s \in Small(n) |-> RankValue(g, a, s)]
    BY <1>4
  <2> DEFINE h == [s \in Small(n + 1) |-> RankValue(g, a, s)]
  <2>2. \A s \in Small(n) : s \in Small(n + 1) /\ h[s] = g[s]
    <3> TAKE s \in Small(n)
    <3>1. Cardinality(s) \in Nat /\ Cardinality(s) <= n + 1
      BY <1>1
    <3>2. s \in Small(n + 1)
      BY <3>1
    <3>3. g[s] = RankValue(g, a, s)
      <4> HIDE DEF Small
      <4> QED
        BY <2>1
    <3> QED
      BY <3>2, <3>3
  <2>3. \A s \in Small(n + 1) : s # {} => s \ {Greatest(s)} \in Small(n)
    BY <1>1, <1>2
  <2>4. \A s \in Small(n + 1) : RankValue(g, a, s) = RankValue(h, a, s)
    <3> TAKE s \in Small(n + 1)
    <3>1. CASE s = {}
      BY <3>1 DEF RankValue
    <3>2. CASE s # {}
      <4>1. h[s \ {Greatest(s)}] = g[s \ {Greatest(s)}]
        BY <2>2, <2>3, <3>2
      <4> HIDE DEF h
      <4> QED
        BY <4>1, <3>2, Zenon DEF RankValue
    <3> QED
      BY <3>1, <3>2
  <2>5. h = [s \in Small(n + 1) |-> RankValue(h, a, s)]
    <3> HIDE DEF Small
    <3> QED
      BY <2>4
  <2> HIDE DEF h, Small
  <2> QED
    BY <2>5
<1> HIDE DEF N
<1>5. \A n \in Nat : n \in N
  BY <1>3, <1>4, SetInduction
<1>6. Small(Cardinality(S)) = SUBSET S
  <2>1. \A s \in SUBSET S : Cardinality(s) <= Cardinality(S)
    BY <1>0, FS_Subset
  <2> QED
    BY <2>1
<1>7. PICK g : g = [s \in Small(Cardinality(S)) |-> RankValue(g, a, s)]
  BY <1>5, <1>1 DEF N
<1>8. g = [s \in SUBSET S |-> RankValue(g, a, s)]
  <2> HIDE DEF Small
  <2> QED
    BY <1>6, <1>7
<1> QED
  BY <1>8 DEF RankStep, S

(* After k children: one more is ranked against the best so far. *)
BestOf(a, m, k) == RanksOf(a, m)[1..k]

(* The fold goes through the children from the first to the last. *)
LEMMA RanksInOrder ==
  ASSUME NEW a \in Nat, NEW m \in Nat
  PROVE  /\ BestOf(a, m, 0) = RankStart
         /\ \A k \in 1..m : BestOf(a, m, k) = Rank(BestOf(a, m, k - 1), a + k - 1)
<1> DEFINE g == RanksOf(a, m)
<1>1. RankStep(g, a, m)
  BY RankFunctionExists DEF RanksOf
<1> HIDE DEF g
<1>2. \A s \in SUBSET (1..m) : g[s] = RankValue(g, a, s)
  BY <1>1 DEF RankStep
<1>3. g[1..0] = RankStart
  <2>1. 1..0 = {} /\ {} \in SUBSET (1..m)
    OBVIOUS
  <2> QED
    BY <1>2, <2>1 DEF RankValue
<1>4. ASSUME NEW k \in 1..m
      PROVE  g[1..k] = Rank(g[1..(k - 1)], a + k - 1)
  <2>1. 1..k \in SUBSET (1..m) /\ 1..k # {} /\ (1..k) \ {k} = 1..(k - 1)
    OBVIOUS
  <2>2. Greatest(1..k) = k
    <3>1. Greatest(1..k) \in 1..k /\ \A y \in 1..k : Greatest(1..k) >= y
      BY <2>1, GreatestIn
    <3> QED
      BY <3>1
  <2>3. g[1..k] = RankValue(g, a, 1..k)
    BY <1>2, <2>1
  <2> QED
    BY <2>1, <2>2, <2>3, Zenon DEF RankValue
<1> QED
  BY <1>3, <1>4 DEF BestOf, g

(* TopRanked is the value of the fold at the last child. *)
LEMMA TopRankedFolds ==
  ASSUME NEW node, node.first \in Nat, node.second \in Nat, node.first <= node.second
  PROVE  TopRanked(node) = BestOf(node.first, node.second - node.first, node.second - node.first).indices
<1> DEFINE a == node.first
           m == node.second - node.first
           seq == ListedFrom(a, m)
<1>1. m \in Nat
  OBVIOUS
<1>2. DOMAIN seq = 1..m /\ \A k \in 1..m : seq[k] = a + k - 1
  BY DEF ListedFrom
<1> DEFINE FoldStep(g) == g = [s \in SUBSET (DOMAIN seq) |->
             IF s = {} THEN RankStart ELSE Rank(g[s \ {Max(s)}], seq[Max(s)])]
<1>3. TopRanked(node) = (CHOOSE g : FoldStep(g))[DOMAIN seq].indices
  BY DEF TopRanked, FoldLeft, MapThenFoldSet, RankStart, ListedFrom
<1>4. ASSUME NEW g
      PROVE  FoldStep(g) <=> RankStep(g, a, m)
  <2>1. \A s \in SUBSET (1..m) : s # {} => seq[Max(s)] = a + Max(s) - 1
    BY <1>1, <1>2, GreatestIn DEF Greatest
  <2> DEFINE F(s) == IF s = {} THEN RankStart ELSE Rank(g[s \ {Max(s)}], seq[Max(s)])
  <2>2. \A s \in SUBSET (1..m) : F(s) = RankValue(g, a, s)
    <3> TAKE s \in SUBSET (1..m)
    <3>1. CASE s = {}
      BY <3>1 DEF RankValue
    <3>2. CASE s # {}
      <4>1. seq[Max(s)] = a + Max(s) - 1
        BY <2>1, <3>2
      <4> HIDE DEF seq, a, m
      <4> QED
        BY <4>1, <3>2, Zenon DEF RankValue, Greatest
    <3> QED
      BY <3>1, <3>2
  <2>3. FoldStep(g) <=> g = [s \in SUBSET (1..m) |-> F(s)]
    BY <1>2
  <2> HIDE DEF F, FoldStep, seq, a, m
  <2> QED
    BY <2>2, <2>3 DEF RankStep
<1>5. (CHOOSE g : FoldStep(g)) = (CHOOSE g : RankStep(g, a, m))
  <2> HIDE DEF FoldStep, a, m
  <2> QED
    BY <1>4
<1> HIDE DEF FoldStep, seq
<1> QED
  BY <1>2, <1>3, <1>5 DEF BestOf, RanksOf

-----------------------------------------------------------------------------
(* Averages compared by cross-multiplication: t out of n simulations are   *)
(* not better than T out of N.                                             *)
NoBetter(t, n, T, N) == t * N < T * n \/ (t * N = T * n /\ n <= N)

(* Products keep and reflect the order of their factors. *)
LEMMA Products ==
  ASSUME NEW x \in Nat, NEW y \in Nat, NEW z \in Nat
  PROVE  /\ x * z \in Nat
         /\ x <= y => x * z <= y * z
         /\ x < y /\ z # 0 => x * z < y * z
         /\ x * z <= y * z /\ z # 0 => x <= y
         /\ x * z = y * z /\ z # 0 => x = y
<1>1. ASSUME NEW u \in Nat, NEW v \in Nat, NEW w \in Nat
      PROVE  /\ u * w \in Nat
             /\ u <= v => u * w <= v * w
             /\ u < v /\ w # 0 => u * w < v * w
  <2>1. u * w \in Nat /\ v * w \in Nat
    OBVIOUS
  <2>2. ASSUME u <= v PROVE u * w <= v * w
    <3>1. (v - u) \in Nat
      BY <2>2
    <3>2. (v - u) * w \in Nat
      BY <3>1
    <3>3. v * w = u * w + (v - u) * w
      OBVIOUS
    <3> QED
      BY <2>1, <3>2, <3>3
  <2>3. ASSUME u < v, w # 0 PROVE u * w < v * w
    <3>1. (v - u) \in Nat \ {0}
      BY <2>3
    <3>2. (v - u) * w \in Nat \ {0}
      BY <3>1, <2>3
    <3>3. v * w = u * w + (v - u) * w
      OBVIOUS
    <3> QED
      BY <2>1, <3>2, <3>3
  <2> QED
    BY <2>1, <2>2, <2>3
<1>2. x * z \in Nat /\ y * z \in Nat
  OBVIOUS
<1>3. /\ x <= y => x * z <= y * z
      /\ x < y /\ z # 0 => x * z < y * z
      /\ y < x /\ z # 0 => y * z < x * z
  BY <1>1
<1> QED
  BY <1>2, <1>3

(* What is no better than the best so far is no better than a better one. *)
LEMMA NoBetterThanNext ==
  ASSUME NEW t \in Nat, NEW n \in Nat \ {0}, NEW T \in Nat, NEW N \in Nat \ {0},
         NEW V \in Nat, NEW M \in Nat \ {0},
         NoBetter(t, n, T, N), T * M < V * N \/ (T * M = V * N /\ N < M)
  PROVE  NoBetter(t, n, V, M)
<1> DEFINE tN == t * N
           Tn == T * n
           TM == T * M
           VN == V * N
           tM == t * M
           Vn == V * n
<1>1. tN \in Nat /\ Tn \in Nat /\ TM \in Nat /\ VN \in Nat /\ tM \in Nat /\ Vn \in Nat
  BY Products
<1>2. tN * M = tM * N /\ Tn * M = TM * n /\ VN * n = Vn * N
  OBVIOUS
<1>3. tN <= Tn /\ TM <= VN /\ (TM < VN \/ (TM = VN /\ N < M)) /\ (tN < Tn \/ (tN = Tn /\ n <= N))
  BY <1>1 DEF NoBetter
<1> HIDE DEF tN, Tn, TM, VN, tM, Vn
<1>4. tM * N <= TM * n /\ TM * n <= Vn * N
  <2>1. tN * M <= Tn * M
    BY <1>1, <1>3, Products
  <2>2. TM * n <= VN * n
    BY <1>1, <1>3, Products
  <2> QED
    BY <1>2, <2>1, <2>2
<1>5. tM * N \in Nat /\ TM * n \in Nat /\ Vn * N \in Nat
  BY <1>1, Products
<1>6. tM <= Vn
  <2>1. tM * N <= Vn * N
    BY <1>4, <1>5
  <2> QED
    BY <1>1, <2>1, Products
<1>7. ASSUME tM = Vn PROVE n <= M
  <2>1. tM * N = TM * n /\ TM * n = Vn * N
    BY <1>4, <1>5, <1>7
  <2>2. tN * M = Tn * M /\ TM * n = VN * n
    BY <1>2, <2>1
  <2>3. tN = Tn /\ TM = VN
    BY <1>1, <2>2, Products
  <2> QED
    BY <1>1, <1>3, <2>3
<1> QED
  BY <1>1, <1>6, <1>7 DEF NoBetter, tM, Vn

(* What get_top_ranked_child_index holds after the children of a set:      *)
(* nothing, or the best average of those visited, the most simulations of  *)
(* it and the children that have both.                                     *)
VisitedIn(S) == {i \in S : Child(i).sim_count # 0}
Holds(b, S) ==
  /\ b.score \in Nat
  /\ b.sims \in Nat
  /\ b.sims = 0 => VisitedIn(S) = {} /\ b.indices = {}
  /\ b.sims # 0 =>
       /\ b.indices = {i \in VisitedIn(S) : Child(i).total_score = b.score /\ Child(i).sim_count = b.sims}
       /\ b.indices # {}
       /\ \A j \in VisitedIn(S) : NoBetter(Child(j).total_score, Child(j).sim_count, b.score, b.sims)

(* One turn of its loop. *)
LEMMA RankHolds ==
  ASSUME NEW S, NEW b, Holds(b, S), NEW i, i \notin S,
         Child(i).sim_count \in Nat, Child(i).total_score \in Nat,
         \A j \in S : Child(j).sim_count \in Nat /\ Child(j).total_score \in Nat
  PROVE  Holds(Rank(b, i), S \cup {i})
<1> DEFINE t(j) == Child(j).total_score
           n(j) == Child(j).sim_count
           R == S \cup {i}
           here == t(i) * b.sims
           there == b.score * n(i)
           new == [score |-> t(i), sims |-> n(i), indices |-> {i}]
           more == [b EXCEPT !.indices = @ \union {i}]
<1> SUFFICES Holds(Rank(b, i), R)
  OBVIOUS
<1>1. /\ n(i) \in Nat /\ t(i) \in Nat /\ \A j \in S : n(j) \in Nat /\ t(j) \in Nat
      /\ b.score \in Nat /\ b.sims \in Nat
      /\ VisitedIn(S) = {j \in S : n(j) # 0} /\ VisitedIn(R) = {j \in R : n(j) # 0}
      /\ b.sims = 0 => VisitedIn(S) = {} /\ b.indices = {}
      /\ b.sims # 0 => b.indices = {j \in VisitedIn(S) : t(j) = b.score /\ n(j) = b.sims}
      /\ b.sims # 0 => b.indices # {}
      /\ b.sims # 0 => \A j \in VisitedIn(S) : NoBetter(t(j), n(j), b.score, b.sims)
  BY DEF Holds, VisitedIn
<1>2. here \in Nat /\ there \in Nat
  BY <1>1, Products
<1>3. /\ new.score = t(i) /\ new.sims = n(i) /\ new.indices = {i}
  OBVIOUS
<1>4. Rank(b, i) = IF n(i) = 0 THEN b
                   ELSE IF b.sims = 0 \/ here > there \/ (here = there /\ n(i) > b.sims) THEN new
                   ELSE IF here = there /\ n(i) = b.sims THEN more ELSE b
  BY DEF Rank
<1>5. Holds(b, R) <=>
        /\ b.sims = 0 => VisitedIn(R) = {} /\ b.indices = {}
        /\ b.sims # 0 =>
             /\ b.indices = {j \in VisitedIn(R) : t(j) = b.score /\ n(j) = b.sims}
             /\ b.indices # {}
             /\ \A j \in VisitedIn(R) : NoBetter(t(j), n(j), b.score, b.sims)
  BY <1>1 DEF Holds
<1>6. ASSUME n(i) # 0,
             {i} = {j \in VisitedIn(R) : t(j) = t(i) /\ n(j) = n(i)},
             \A j \in VisitedIn(R) : NoBetter(t(j), n(j), t(i), n(i))
      PROVE  Holds(new, R)
  <2> HIDE DEF new, R
  <2> QED
    BY <1>1, <1>3, <1>6 DEF Holds
<1> HIDE DEF here, there, new
<1>7. CASE n(i) = 0
  <2>1. VisitedIn(R) = VisitedIn(S)
    BY <1>1, <1>7
  <2> QED
    BY <1>1, <1>4, <1>5, <1>7, <2>1
<1>8. CASE n(i) # 0
  <2>1. VisitedIn(R) = VisitedIn(S) \cup {i} /\ i \notin VisitedIn(S)
    BY <1>1, <1>8
  <2>2. NoBetter(t(i), n(i), t(i), n(i))
    BY <1>1, Products DEF NoBetter
  <2>3. CASE b.sims = 0
    <3>1. VisitedIn(R) = {i}
      BY <1>1, <2>1, <2>3
    <3>2. Rank(b, i) = new
      BY <1>4, <1>8, <2>3
    <3>3. \A j \in VisitedIn(R) : NoBetter(t(j), n(j), t(i), n(i))
      BY <2>2, <3>1
    <3>4. {i} = {j \in VisitedIn(R) : t(j) = t(i) /\ n(j) = n(i)}
      BY <3>1
    <3> HIDE DEF R, t, n
    <3> QED
      BY <1>6, <1>8, <3>2, <3>3, <3>4
  <2>4. CASE b.sims # 0 /\ (here > there \/ (here = there /\ n(i) > b.sims))
    <3>1. Rank(b, i) = new
      BY <1>4, <1>8, <2>4
    <3>2. b.score * n(i) < t(i) * b.sims \/ (b.score * n(i) = t(i) * b.sims /\ b.sims < n(i))
      BY <1>1, <1>2, <2>4 DEF here, there
    <3>3. \A j \in VisitedIn(S) : NoBetter(t(j), n(j), t(i), n(i))
      <4> SUFFICES ASSUME NEW j \in VisitedIn(S) PROVE NoBetter(t(j), n(j), t(i), n(i))
        OBVIOUS
      <4>1. /\ t(j) \in Nat /\ n(j) \in Nat \ {0} /\ b.score \in Nat /\ b.sims \in Nat \ {0}
            /\ t(i) \in Nat /\ n(i) \in Nat \ {0}
            /\ NoBetter(t(j), n(j), b.score, b.sims)
        BY <1>1, <1>8, <2>4
      <4> HIDE DEF t, n
      <4> QED
        BY <3>2, <4>1, NoBetterThanNext
    <3>4. \A j \in VisitedIn(S) : ~ (t(j) = t(i) /\ n(j) = n(i))
      <4> SUFFICES ASSUME NEW j \in VisitedIn(S), t(j) = t(i), n(j) = n(i) PROVE FALSE
        OBVIOUS
      <4>1. NoBetter(t(i), n(i), b.score, b.sims)
        BY <1>1, <2>4
      <4>2. t(i) * b.sims \in Nat /\ b.score * n(i) \in Nat
        BY <1>1, Products
      <4> HIDE DEF t, n
      <4> QED
        BY <1>1, <3>2, <4>1, <4>2 DEF NoBetter
    <3>5. {i} = {j \in VisitedIn(R) : t(j) = t(i) /\ n(j) = n(i)}
      BY <2>1, <3>4
    <3>6. \A j \in VisitedIn(R) : NoBetter(t(j), n(j), t(i), n(i))
      BY <2>1, <2>2, <3>3
    <3> HIDE DEF R, t, n
    <3> QED
      BY <1>6, <1>8, <3>1, <3>5, <3>6
  <2>5. CASE b.sims # 0 /\ here = there /\ n(i) = b.sims
    <3>1. Rank(b, i) = more
      BY <1>2, <1>4, <1>8, <2>5
    <3>2. t(i) = b.score
      <4>1. t(i) * b.sims = b.score * b.sims
        BY <2>5 DEF here, there
      <4> HIDE DEF t, n
      <4> QED
        BY <1>1, <2>5, <4>1, Products
    <3>3. more.score = b.score /\ more.sims = b.sims /\ more.indices = b.indices \cup {i}
      <4>1. b.indices # {}
        BY <1>1, <2>5
      <4> QED
        BY <4>1
    <3>4. {j \in VisitedIn(R) : t(j) = b.score /\ n(j) = b.sims} = b.indices \cup {i}
      BY <1>1, <2>1, <2>5, <3>2
    <3>5. \A j \in VisitedIn(R) : NoBetter(t(j), n(j), b.score, b.sims)
      BY <1>1, <2>1, <2>2, <2>5, <3>2
    <3> HIDE DEF R, t, n, more
    <3> QED
      BY <1>1, <2>5, <3>1, <3>3, <3>4, <3>5 DEF Holds, t, n
  <2>6. CASE /\ b.sims # 0
             /\ ~ (here > there \/ (here = there /\ n(i) > b.sims))
             /\ ~ (here = there /\ n(i) = b.sims)
    <3>1. Rank(b, i) = b
      BY <1>4, <1>8, <2>6
    <3>2. NoBetter(t(i), n(i), b.score, b.sims)
      BY <1>1, <1>2, <2>6 DEF NoBetter, here, there
    <3>3. ~ (t(i) = b.score /\ n(i) = b.sims)
      BY <2>6 DEF here, there
    <3>4. b.indices = {j \in VisitedIn(R) : t(j) = b.score /\ n(j) = b.sims}
      BY <1>1, <2>1, <2>6, <3>3
    <3> HIDE DEF R
    <3> QED
      BY <1>1, <1>5, <2>1, <2>6, <3>1, <3>2, <3>4
  <2> QED
    BY <2>3, <2>4, <2>5, <2>6
<1> QED
  BY <1>7, <1>8

(* Child i has a higher average than child j, or the same average and more *)
(* simulations: what RankingOptimal compares by.                           *)
Better(i, j) ==
  LET x == Child(i).total_score * Child(j).sim_count
      y == Child(j).total_score * Child(i).sim_count
  IN x > y \/ (x = y /\ Child(i).sim_count > Child(j).sim_count)

(* What the loop holds of a set of children are the best of the set.       *)
LEMMA HoldsBest ==
  ASSUME NEW S, \A j \in S : Child(j).sim_count \in Nat /\ Child(j).total_score \in Nat,
         NEW b, Holds(b, S)
  PROVE  b.indices = {i \in VisitedIn(S) : \A j \in VisitedIn(S) : ~ Better(j, i)}
<1> DEFINE t(j) == Child(j).total_score
           n(j) == Child(j).sim_count
           V == VisitedIn(S)
<1>1. /\ \A j \in V : t(j) \in Nat /\ n(j) \in Nat \ {0}
      /\ b.score \in Nat /\ b.sims \in Nat
  BY DEF VisitedIn, Holds
<1>2. CASE b.sims = 0
  BY <1>2 DEF Holds
<1>3. CASE b.sims # 0
  <2>1. /\ b.indices = {i \in V : t(i) = b.score /\ n(i) = b.sims}
        /\ b.indices # {}
        /\ \A j \in V : NoBetter(t(j), n(j), b.score, b.sims)
    BY <1>3 DEF Holds
  <2>2. \A i, j : Better(i, j) <=>
          t(i) * n(j) > t(j) * n(i) \/ (t(i) * n(j) = t(j) * n(i) /\ n(i) > n(j))
    BY DEF Better
  <2>3. \A i, j \in V : t(i) * n(j) \in Nat
    BY <1>1, Products
  <2>4. ASSUME NEW i \in b.indices, NEW j \in V
        PROVE  ~ Better(j, i)
    <3>1. i \in V /\ t(i) = b.score /\ n(i) = b.sims /\ NoBetter(t(j), n(j), t(i), n(i))
      BY <2>1
    <3>2. t(j) * n(i) \in Nat /\ t(i) * n(j) \in Nat /\ n(i) \in Nat /\ n(j) \in Nat
      BY <1>1, <2>3, <3>1
    <3> HIDE DEF t, n
    <3> QED
      BY <2>2, <3>1, <3>2 DEF NoBetter
  <2>5. ASSUME NEW i \in V, \A j \in V : ~ Better(j, i)
        PROVE  i \in b.indices
    <3>1. PICK w \in V : t(w) = b.score /\ n(w) = b.sims
      BY <2>1
    <3>2. ~ Better(w, i) /\ NoBetter(t(i), n(i), t(w), n(w))
      BY <2>1, <2>5, <3>1
    <3>3. /\ t(i) \in Nat /\ t(w) \in Nat /\ n(i) \in Nat /\ n(w) \in Nat \ {0}
          /\ t(i) * n(w) \in Nat /\ t(w) * n(i) \in Nat
      BY <1>1, <2>3, <3>1
    <3> HIDE DEF t, n
    <3>4. t(i) * n(w) = t(w) * n(i) /\ n(i) = n(w)
      BY <2>2, <3>2, <3>3 DEF NoBetter
    <3>5. t(i) = t(w)
      <4>1. t(i) * n(w) = t(w) * n(w)
        BY <3>4
      <4> QED
        BY <3>3, <4>1, Products
    <3> QED
      BY <2>1, <3>1, <3>4, <3>5
  <2>6. b.indices \subseteq V
    BY <2>1
  <2> HIDE DEF V
  <2>7. b.indices = {i \in V : \A j \in V : ~ Better(j, i)}
    BY <2>4, <2>5, <2>6
  <2> QED
    BY <2>7 DEF V
<1> QED
  BY <1>1, <1>2, <1>3

(* So it ends with the best children of the node.                          *)
LEMMA TopRankedBest ==
  ASSUME NEW node, node.first \in Nat, node.second \in Nat, node.first <= node.second,
         \A i \in ChildIndices(node) : Child(i).sim_count \in Nat /\ Child(i).total_score \in Nat
  PROVE  TopRanked(node) = {i \in VisitedIn(ChildIndices(node)) :
                              \A j \in VisitedIn(ChildIndices(node)) : ~ Better(j, i)}
<1> DEFINE a == node.first
           m == node.second - node.first
           S(k) == a..(a + k - 1)
           K == {k \in Nat : k <= m => Holds(BestOf(a, m, k), S(k))}
<1>1. /\ a \in Nat /\ m \in Nat /\ S(m) = ChildIndices(node)
      /\ TopRanked(node) = BestOf(a, m, m).indices
  BY TopRankedFolds DEF ChildIndices
<1>2. /\ BestOf(a, m, 0) = RankStart
      /\ \A k \in 1..m : BestOf(a, m, k) = Rank(BestOf(a, m, k - 1), a + k - 1)
  BY <1>1, RanksInOrder
<1>3. \A i \in S(m) : Child(i).sim_count \in Nat /\ Child(i).total_score \in Nat
  BY <1>1
<1> HIDE DEF a, m
<1>4. 0 \in K
  <2>1. S(0) = {}
    BY <1>1
  <2>2. Holds(RankStart, {})
    BY DEF Holds, RankStart, VisitedIn
  <2> QED
    BY <1>2, <2>1, <2>2
<1>5. ASSUME NEW k \in Nat, k \in K
      PROVE  k + 1 \in K
  <2> SUFFICES ASSUME k + 1 <= m
               PROVE  Holds(BestOf(a, m, k + 1), S(k + 1))
    OBVIOUS
  <2>1. Holds(BestOf(a, m, k), S(k))
    BY <1>1, <1>5
  <2>2. k + 1 \in 1..m /\ (k + 1) - 1 = k /\ a + (k + 1) - 1 = a + k
    BY <1>1
  <2>3. BestOf(a, m, k + 1) = Rank(BestOf(a, m, k), a + k)
    BY <1>2, <2>2
  <2>4. S(k + 1) = S(k) \cup {a + k} /\ a + k \notin S(k)
    BY <1>1
  <2>5. S(k + 1) \subseteq S(m)
    BY <1>1
  <2> HIDE DEF S
  <2>6. /\ Child(a + k).sim_count \in Nat /\ Child(a + k).total_score \in Nat
        /\ \A j \in S(k) : Child(j).sim_count \in Nat /\ Child(j).total_score \in Nat
    BY <1>3, <2>4, <2>5
  <2>7. Holds(Rank(BestOf(a, m, k), a + k), S(k) \cup {a + k})
    BY <2>1, <2>4, <2>6, RankHolds
  <2> QED
    BY <2>3, <2>4, <2>7
<1> HIDE DEF K
<1>6. m \in K
  BY <1>1, <1>4, <1>5, SetInduction
<1>7. Holds(BestOf(a, m, m), S(m))
  BY <1>1, <1>6 DEF K
<1> HIDE DEF S
<1> QED
  BY <1>1, <1>3, <1>7, HoldsBest
=============================================================================
