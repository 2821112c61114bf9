------------------------ MODULE ContextPlayoutProofs ------------------------
(***************************************************************************)
(* The hash tables of moves never lose or confuse a bucket, the contexts   *)
(* of a turn stand for its actions, and every look-up finds the updates    *)
(* made for what it looks up, for every game, every HASH_PRIMES and every  *)
(* number of playouts.                                                     *)
(*                                                                         *)
(* Links lead forward and contexts are older than their buckets, so that   *)
(* every recursion along links or contexts ends; what a recursive function *)
(* is follows from a lemma that there is one.  IsGood is what a table is   *)
(* at any time, InContext and Scored are the inductive invariant.          *)
(* (Of MctsTreeProofs only the lemmas on sequences are used: a playout has *)
(* no nodes.)                                                              *)
(***************************************************************************)
EXTENDS ContextPlayout, MctsTreeProofs

-----------------------------------------------------------------------------
(* Walking along links.                                                    *)

(* f follows the links next from each i up to the first place to stop at.  *)
WalkStep(n, next, stop, f) == f = [i \in 0..n |-> IF stop[i] THEN i ELSE f[next[i]]]

(* Links lead forward, or to 0 where a walk stops. *)
GoesForward(n, next, stop) ==
  \A i \in 0..n : stop[i] \/ next[i] \in (i + 1)..n \/ (next[i] = 0 /\ stop[0])

(* The walk as far as it is known from lo on. *)
WalkFrom(n, next, stop, lo, g) ==
  /\ g = [i \in 0..n |-> g[i]]
  /\ \A i \in lo..n : g[i] = IF stop[i] THEN i ELSE IF next[i] = 0 THEN 0 ELSE g[next[i]]

(* Links that lead forward can be followed from everywhere. *)
LEMMA WalkExists ==
  ASSUME NEW n \in Nat, NEW next, NEW stop, GoesForward(n, next, stop)
  PROVE  \E f : WalkStep(n, next, stop, f)
<1> DEFINE S == {k \in Nat : k <= n + 1 => \E g : WalkFrom(n, next, stop, n + 1 - k, g)}
<1>1. 0 \in S
  <2>1. WalkFrom(n, next, stop, n + 1, [i \in 0..n |-> 0])
    BY DEF WalkFrom
  <2> QED
    BY <2>1
<1>2. ASSUME NEW k \in Nat, k \in S
      PROVE  k + 1 \in S
  <2> SUFFICES ASSUME k + 1 <= n + 1
               PROVE  \E g : WalkFrom(n, next, stop, n - k, g)
    OBVIOUS
  <2>1. PICK g : WalkFrom(n, next, stop, n + 1 - k, g)
    BY <1>2
  <2> DEFINE lo == n - k
             value == IF stop[lo] THEN lo ELSE IF next[lo] = 0 THEN 0 ELSE g[next[lo]]
             h == [i \in 0..n |-> IF i = lo THEN value ELSE g[i]]
  <2>2. lo \in 0..n /\ n + 1 - k = lo + 1
    OBVIOUS
  <2>3. h = [i \in 0..n |-> h[i]]
    OBVIOUS
  <2>4. h[lo] = value /\ \A i \in 0..n : i # lo => h[i] = g[i]
    BY <2>2
  <2> HIDE DEF h
  <2>5. ASSUME NEW i \in lo..n
        PROVE  h[i] = IF stop[i] THEN i ELSE IF next[i] = 0 THEN 0 ELSE h[next[i]]
    <3>1. stop[i] \/ next[i] \in (i + 1)..n \/ next[i] = 0
      BY <2>2 DEF GoesForward
    <3>2. ~ stop[i] /\ next[i] # 0 => h[next[i]] = g[next[i]]
      BY <3>1, <2>2, <2>4
    <3>3. CASE i = lo
      BY <3>2, <3>3, <2>4
    <3>4. CASE i # lo
      <4>1. i \in (n + 1 - k)..n /\ i \in 0..n
        BY <3>4, <2>2
      <4> QED
        BY <4>1, <3>4, <3>2, <2>1, <2>4 DEF WalkFrom
    <3> QED
      BY <3>3, <3>4
  <2>6. WalkFrom(n, next, stop, lo, h)
    BY <2>3, <2>5 DEF WalkFrom
  <2> QED
    BY <2>6
<1> HIDE DEF S
<1>3. n + 1 \in S
  BY <1>1, <1>2, SetInduction
<1>4. PICK f : WalkFrom(n, next, stop, 0, f)
  BY <1>3 DEF S
<1>5. ASSUME NEW i \in 0..n
      PROVE  f[i] = IF stop[i] THEN i ELSE f[next[i]]
  <2>1. ASSUME ~ stop[i], next[i] = 0
        PROVE  f[next[i]] = 0
    <3>1. stop[0]
      BY <2>1 DEF GoesForward
    <3>2. 0 \in 0..n
      OBVIOUS
    <3> QED
      BY <2>1, <3>1, <3>2, <1>4 DEF WalkFrom
  <2> QED
    BY <2>1, <1>4 DEF WalkFrom
<1>6. WalkStep(n, next, stop, f)
  BY <1>4, <1>5 DEF WalkFrom, WalkStep
<1> QED
  BY <1>6

(* Induction from the last index down. *)
LEMMA Downward ==
  ASSUME NEW n \in Nat, NEW T,
         \A i \in 0..n : (\A j \in (i + 1)..n : j \in T) => i \in T
  PROVE  \A i \in 0..n : i \in T
<1> DEFINE S == {k \in Nat : k <= n => n - k \in T}
<1>1. ASSUME NEW k \in Nat, \A j \in 0..(k - 1) : j \in S
      PROVE  k \in S
  <2> SUFFICES ASSUME k <= n
               PROVE  n - k \in T
    OBVIOUS
  <2>1. ASSUME NEW j \in (n - k + 1)..n
        PROVE  j \in T
    <3>1. n - j \in 0..(k - 1) /\ n - (n - j) = j
      OBVIOUS
    <3> QED
      BY <3>1, <1>1
  <2> QED
    BY <2>1
<1> HIDE DEF S
<1>2. \A k \in Nat : k \in S
  BY <1>1, StrongInduction
<1> TAKE i \in 0..n
<1>3. n - i \in S /\ n - (n - i) = i
  BY <1>2
<1> QED
  BY <1>3 DEF S
-----------------------------------------------------------------------------
(* The hash table.                                                         *)

AnyMove == Action \union {CHOOSE a \in Action : TRUE}
Entry == [move : AnyMove, context : Nat, next : Nat, weight : Nat]

Index(t) == 0..(Len(t.buckets) - 1)
Equals(t, i, a, c) == Bucket(t, i).move = a /\ Bucket(t, i).context = c

(* What the fields of a table are, and that links lead forward. *)
IsTable(t) ==
  /\ t.capacity_level \in DOMAIN HASH_PRIMES
  /\ t \in [buckets : Seq(Entry), capacity_level : Nat,
            hashtable : [0..(HASH_PRIMES[t.capacity_level] - 1) -> Nat]]
  /\ Len(t.buckets) >= 1
  /\ \A i \in Index(t) \ {0} : Bucket(t, i).move \in Action
  /\ \A i \in Index(t) : Bucket(t, i).next = 0 \/ Bucket(t, i).next \in (i + 1)..(Len(t.buckets) - 1)
  /\ \A h \in DOMAIN t.hashtable : t.hashtable[h] \in Index(t)

(* The links of the slots and of the first m buckets stay among these. *)
LinkedUpTo(t, m) ==
  /\ \A i \in 1..m : Bucket(t, i).next <= m
  /\ \A h \in DOMAIN t.hashtable : t.hashtable[h] <= m

(* Each of the first m buckets is found. *)
FindsUpTo(t, m) ==
  \A i \in 1..m : find_or_get_default(t, Bucket(t, i).move, Bucket(t, i).context) = i

(* The function that find_or_get_default chooses. *)
MeetStep(t, a, c, f) ==
  f = [i \in Index(t) |-> IF i = 0 \/ Equals(t, i, a, c) THEN i ELSE f[Bucket(t, i).next]]
Meet(t, a, c) == CHOOSE f : MeetStep(t, a, c, f)

(* The function that EndOfLinks chooses. *)
EndStep(t, f) == f = [i \in Index(t) |-> IF Bucket(t, i).next = 0 THEN i ELSE f[Bucket(t, i).next]]
End(t) == CHOOSE f : EndStep(t, f)

(* A look-up follows the links from the slot. *)
LEMMA FindIs ==
  ASSUME NEW t, NEW a, NEW c
  PROVE  find_or_get_default(t, a, c) = Meet(t, a, c)[t.hashtable[Slot(t, a, c)]]
BY Zenon DEF find_or_get_default, Meet, MeetStep, Index, Equals

(* EndOfLinks follows the links from a bucket. *)
LEMMA EndIs ==
  ASSUME NEW t, NEW i
  PROVE  EndOfLinks(t, i) = End(t)[i]
BY Zenon DEF EndOfLinks, End, EndStep, Index

(* In a table there is what the look-up follows. *)
LEMMA MeetExists ==
  ASSUME NEW t, IsTable(t), NEW a, NEW c
  PROVE  MeetStep(t, a, c, Meet(t, a, c))
<1> DEFINE n == Len(t.buckets) - 1
           next == [i \in 0..n |-> Bucket(t, i).next]
           stop == [i \in 0..n |-> i = 0 \/ Equals(t, i, a, c)]
<1>1. n \in Nat
  BY DEF IsTable
<1>2. GoesForward(n, next, stop)
  <2>1. \A i \in 0..n : Bucket(t, i).next = 0 \/ Bucket(t, i).next \in (i + 1)..n
    BY DEF IsTable, Index
  <2>2. \A i \in 0..n : next[i] = Bucket(t, i).next /\ (stop[i] <=> i = 0 \/ Equals(t, i, a, c))
    OBVIOUS
  <2> HIDE DEF next, stop
  <2>3. 0 \in 0..n
    BY <1>1
  <2> QED
    BY <2>1, <2>2, <2>3 DEF GoesForward
<1>3. PICK f : WalkStep(n, next, stop, f)
  BY <1>1, <1>2, WalkExists
<1>4. \A i \in 0..n : next[i] = Bucket(t, i).next /\ (stop[i] <=> i = 0 \/ Equals(t, i, a, c))
  OBVIOUS
<1> HIDE DEF next, stop
<1>5. MeetStep(t, a, c, f)
  BY <1>3, <1>4 DEF WalkStep, MeetStep, Index
<1> QED
  BY <1>5 DEF Meet

(* In a table there is what EndOfLinks follows.                            *)
LEMMA EndExists ==
  ASSUME NEW t, IsTable(t)
  PROVE  EndStep(t, End(t))
<1> DEFINE n == Len(t.buckets) - 1
           next == [i \in 0..n |-> Bucket(t, i).next]
           stop == [i \in 0..n |-> Bucket(t, i).next = 0]
<1>1. n \in Nat
  BY DEF IsTable
<1>2. GoesForward(n, next, stop)
  <2>1. \A i \in 0..n : Bucket(t, i).next = 0 \/ Bucket(t, i).next \in (i + 1)..n
    BY DEF IsTable, Index
  <2>2. \A i \in 0..n : next[i] = Bucket(t, i).next /\ (stop[i] <=> Bucket(t, i).next = 0)
    OBVIOUS
  <2> HIDE DEF next, stop
  <2> QED
    BY <2>1, <2>2 DEF GoesForward
<1>3. PICK f : WalkStep(n, next, stop, f)
  BY <1>1, <1>2, WalkExists
<1>4. \A i \in 0..n : next[i] = Bucket(t, i).next /\ (stop[i] <=> Bucket(t, i).next = 0)
  OBVIOUS
<1> HIDE DEF next, stop
<1>5. EndStep(t, f)
  BY <1>3, <1>4 DEF WalkStep, EndStep, Index
<1> QED
  BY <1>5 DEF End

(* Both walks, step by step. *)
LEMMA MeetStepIs ==
  ASSUME NEW t, IsTable(t), NEW a, NEW c, NEW i \in Index(t)
  PROVE  Meet(t, a, c)[i] = IF i = 0 \/ Equals(t, i, a, c) THEN i ELSE Meet(t, a, c)[Bucket(t, i).next]
<1> DEFINE f == Meet(t, a, c)
<1>1. MeetStep(t, a, c, f)
  BY MeetExists
<1> HIDE DEF f
<1>2. f[i] = IF i = 0 \/ Equals(t, i, a, c) THEN i ELSE f[Bucket(t, i).next]
  BY <1>1 DEF MeetStep
<1> QED
  BY <1>2 DEF f

(* EndOfLinks goes on where a link leads to.                               *)
LEMMA EndStepIs ==
  ASSUME NEW t, IsTable(t), NEW i \in Index(t)
  PROVE  End(t)[i] = IF Bucket(t, i).next = 0 THEN i ELSE End(t)[Bucket(t, i).next]
<1> DEFINE f == End(t)
<1>1. EndStep(t, f)
  BY EndExists
<1> HIDE DEF f
<1>2. f[i] = IF Bucket(t, i).next = 0 THEN i ELSE f[Bucket(t, i).next]
  BY <1>1 DEF EndStep
<1> QED
  BY <1>2 DEF f

(* The link of a bucket. *)
LEMMA NextIn ==
  ASSUME NEW t, IsTable(t), NEW i \in Index(t)
  PROVE  Bucket(t, i).next = 0 \/ Bucket(t, i).next \in (i + 1)..(Len(t.buckets) - 1)
BY DEF IsTable

(* The table's size. *)
LEMMA SizeIs ==
  ASSUME NEW t, IsTable(t)
  PROVE  /\ Len(t.buckets) \in Nat /\ Len(t.buckets) >= 1
         /\ t.buckets \in Seq(Entry)
         /\ 0 \in Index(t) /\ Index(t) \subseteq Nat
         /\ \A i \in Index(t) : Bucket(t, i) \in Entry /\ i + 1 \in DOMAIN t.buckets
<1>1. t.buckets \in Seq(Entry) /\ Len(t.buckets) >= 1
  BY DEF IsTable
<1>2. \A i \in Index(t) : i + 1 \in DOMAIN t.buckets
  BY <1>1 DEF Index
<1> QED
  BY <1>1, <1>2 DEF Index, Bucket

(* A look-up ends at 0 or at a bucket that holds what is looked for. *)
LEMMA MeetSound ==
  ASSUME NEW t, IsTable(t), NEW a, NEW c
  PROVE  \A i \in Index(t) : /\ Meet(t, a, c)[i] \in Index(t)
                             /\ Meet(t, a, c)[i] # 0 => Equals(t, Meet(t, a, c)[i], a, c)
<1> DEFINE n == Len(t.buckets) - 1
           f == Meet(t, a, c)
           T == {i \in 0..n : f[i] \in Index(t) /\ (f[i] # 0 => Equals(t, f[i], a, c))}
<1>1. n \in Nat /\ Index(t) = 0..n
  BY SizeIs DEF Index
<1>2. ASSUME NEW i \in 0..n, \A j \in (i + 1)..n : j \in T
      PROVE  i \in T
  <2>1. f[i] = IF i = 0 \/ Equals(t, i, a, c) THEN i ELSE f[Bucket(t, i).next]
    BY <1>1, MeetStepIs
  <2>2. f[0] = 0
    BY <1>1, MeetStepIs
  <2>3. Bucket(t, i).next = 0 \/ Bucket(t, i).next \in (i + 1)..n
    BY <1>1, NextIn
  <2> HIDE DEF f
  <2>4. CASE i = 0 \/ Equals(t, i, a, c)
    BY <2>1, <2>4, <1>1
  <2>5. CASE ~ (i = 0 \/ Equals(t, i, a, c)) /\ Bucket(t, i).next = 0
    BY <2>1, <2>2, <2>5, <1>1
  <2>6. CASE ~ (i = 0 \/ Equals(t, i, a, c)) /\ Bucket(t, i).next \in (i + 1)..n
    <3>1. Bucket(t, i).next \in T
      BY <2>6, <1>2
    <3> QED
      BY <3>1, <2>1, <2>6
  <2> QED
    BY <2>3, <2>4, <2>5, <2>6
<1> HIDE DEF T
<1>3. \A i \in 0..n : i \in T
  BY <1>1, <1>2, Downward
<1> QED
  BY <1>1, <1>3 DEF T

(* The bucket at the end of the links is the last one of them. *)
LEMMA EndSound ==
  ASSUME NEW t, IsTable(t), NEW m \in Index(t), LinkedUpTo(t, m)
  PROVE  \A i \in 1..m : End(t)[i] \in i..m /\ Bucket(t, End(t)[i]).next = 0
<1> DEFINE f == End(t)
           T == {i \in 0..m : i # 0 => f[i] \in i..m /\ Bucket(t, f[i]).next = 0}
<1>1. m \in Nat /\ 0..m \subseteq Index(t)
  BY SizeIs DEF Index
<1>2. ASSUME NEW i \in 0..m, \A j \in (i + 1)..m : j \in T
      PROVE  i \in T
  <2>1. f[i] = IF Bucket(t, i).next = 0 THEN i ELSE f[Bucket(t, i).next]
    BY <1>1, EndStepIs
  <2> HIDE DEF f
  <2>2. CASE i = 0 \/ Bucket(t, i).next = 0
    BY <2>1, <2>2
  <2>3. CASE i # 0 /\ Bucket(t, i).next # 0
    <3>1. Bucket(t, i).next \in (i + 1)..(Len(t.buckets) - 1)
      BY <2>3, <1>1, NextIn
    <3>2. Bucket(t, i).next <= m
      BY <2>3 DEF LinkedUpTo
    <3>3. Bucket(t, i).next \in (i + 1)..m
      BY <3>1, <3>2
    <3>4. Bucket(t, i).next \in T
      BY <3>3, <1>2
    <3> QED
      BY <3>3, <3>4, <2>1, <2>3
  <2> QED
    BY <2>2, <2>3
<1> HIDE DEF T
<1>3. \A i \in 0..m : i \in T
  BY <1>1, <1>2, Downward
<1> QED
  BY <1>3 DEF T

(* Actions have a slot. *)
LEMMA SlotIn ==
  ASSUME NEW t, IsTable(t), NEW a \in Action, NEW c \in Nat
  PROVE  Slot(t, a, c) \in DOMAIN t.hashtable
<1> DEFINE n == HASH_PRIMES[t.capacity_level]
<1>1. n \in Nat \ {0}
  BY PlayoutAssumption DEF IsTable
<1>2. DOMAIN t.hashtable = 0..(n - 1)
  BY DEF IsTable
<1>3. hash(a, c) \in Nat
  BY PlayoutAssumption DEF hash
<1> HIDE DEF n
<1>4. hash(a, c) % n \in 0..(n - 1)
  BY <1>1, <1>3
<1> QED
  BY <1>2, <1>4 DEF Slot, n

(* What find_or_get_default returns. *)
LEMMA FindSound ==
  ASSUME NEW t, IsTable(t), NEW a \in Action, NEW c \in Nat
  PROVE  /\ find_or_get_default(t, a, c) \in Index(t)
         /\ find_or_get_default(t, a, c) # 0 => Equals(t, find_or_get_default(t, a, c), a, c)
<1> DEFINE h == t.hashtable[Slot(t, a, c)]
<1>1. h \in Index(t)
  BY SlotIn DEF IsTable
<1>2. find_or_get_default(t, a, c) = Meet(t, a, c)[h]
  BY FindIs
<1> HIDE DEF h
<1>3. \A i \in Index(t) : /\ Meet(t, a, c)[i] \in Index(t)
                          /\ Meet(t, a, c)[i] # 0 => Equals(t, Meet(t, a, c)[i], a, c)
  BY MeetSound
<1> DEFINE f == Meet(t, a, c)
<1> HIDE DEF f
<1>4. f[h] \in Index(t) /\ (f[h] # 0 => Equals(t, f[h], a, c))
  BY <1>1, <1>3 DEF f
<1> QED
  BY <1>2, <1>4 DEF f

(* u has the buckets of t, but for their links, and its size of the slots. *)
SameKeys(t, u) ==
  /\ Len(u.buckets) = Len(t.buckets)
  /\ \A i \in Index(t) : /\ Bucket(u, i).move = Bucket(t, i).move
                         /\ Bucket(u, i).context = Bucket(t, i).context
                         /\ Bucket(u, i).weight = Bucket(t, i).weight

(* Bucket i waits to be linked behind the buckets before it, which are all *)
(* linked and hold something else.                                         *)
Waiting(t, i) ==
  /\ IsTable(t)
  /\ i \in Index(t) \ {0}
  /\ LinkedUpTo(t, i - 1) /\ FindsUpTo(t, i - 1)
  /\ Bucket(t, i).next = 0
  /\ \A j \in 1..(i - 1) : ~ Equals(t, j, Bucket(t, i).move, Bucket(t, i).context)

(* Bucket i is linked in u, which was t. *)
IsLinked(t, u, i) ==
  /\ IsTable(u)
  /\ SameKeys(t, u) /\ u.capacity_level = t.capacity_level
  /\ LinkedUpTo(u, i) /\ FindsUpTo(u, i)

(* What is known of a bucket that waits. *)
LEMMA WaitingIs ==
  ASSUME NEW t, NEW i, Waiting(t, i)
  PROVE  /\ i \in Nat /\ i >= 1 /\ i <= Len(t.buckets) - 1
         /\ Bucket(t, i).move \in Action /\ Bucket(t, i).context \in Nat
         /\ SlotOf(t, i) \in DOMAIN t.hashtable
         /\ t.hashtable[SlotOf(t, i)] \in 0..(i - 1)
         /\ \A j \in 1..(i - 1) : j \in Index(t) /\ Bucket(t, j).move \in Action /\ Bucket(t, j).context \in Nat
<1>1. IsTable(t) /\ i \in Index(t) \ {0} /\ LinkedUpTo(t, i - 1)
  BY DEF Waiting
<1>2. Len(t.buckets) \in Nat /\ i \in Nat /\ i >= 1 /\ i <= Len(t.buckets) - 1
  BY <1>1, SizeIs DEF Index
<1>3. \A j \in Index(t) \ {0} : Bucket(t, j).move \in Action
  BY <1>1 DEF IsTable
<1>4. \A j \in Index(t) : Bucket(t, j).context \in Nat
  <2> TAKE j \in Index(t)
  <2>1. Bucket(t, j) \in Entry
    BY <1>1, SizeIs
  <2> QED
    BY <2>1 DEF Entry
<1>5. \A j \in 1..(i - 1) : j \in Index(t) \ {0}
  BY <1>2 DEF Index
<1>6. Bucket(t, i).move \in Action /\ Bucket(t, i).context \in Nat
  BY <1>1, <1>3, <1>4
<1>7. SlotOf(t, i) \in DOMAIN t.hashtable
  BY <1>1, <1>6, SlotIn DEF SlotOf
<1>8. t.hashtable[SlotOf(t, i)] \in 0..(i - 1)
  <2>1. t.hashtable[SlotOf(t, i)] \in Index(t) /\ t.hashtable[SlotOf(t, i)] <= i - 1
    BY <1>1, <1>7 DEF IsTable, LinkedUpTo
  <2> QED
    BY <2>1, <1>2 DEF Index
<1> QED
  BY <1>2, <1>3, <1>4, <1>5, <1>6, <1>7, <1>8

(* An empty slot takes the bucket. *)
LEMMA LinkFirst ==
  ASSUME NEW t, NEW i, Waiting(t, i), t.hashtable[SlotOf(t, i)] = 0
  PROVE  IsLinked(t, Link(t, i), i)
<1> DEFINE h == SlotOf(t, i)
           u == [t EXCEPT !.hashtable[h] = i]
           a == Bucket(t, i).move
           c == Bucket(t, i).context
           n == HASH_PRIMES[t.capacity_level]
<1>1. Link(t, i) = u
  BY DEF Link
<1>2. /\ IsTable(t) /\ i \in Index(t) \ {0} /\ LinkedUpTo(t, i - 1) /\ FindsUpTo(t, i - 1)
      /\ Bucket(t, i).next = 0
  BY DEF Waiting
<1>3. /\ i \in Nat /\ i >= 1 /\ i <= Len(t.buckets) - 1 /\ a \in Action /\ c \in Nat
      /\ h \in DOMAIN t.hashtable
      /\ \A j \in 1..(i - 1) : j \in Index(t) /\ Bucket(t, j).move \in Action /\ Bucket(t, j).context \in Nat
  BY WaitingIs
<1>4. t \in [buckets : Seq(Entry), capacity_level : Nat, hashtable : [0..(n - 1) -> Nat]]
  BY <1>2 DEF IsTable
<1>5. /\ u.buckets = t.buckets /\ u.capacity_level = t.capacity_level
      /\ u.hashtable = [t.hashtable EXCEPT ![h] = i]
      /\ u \in [buckets : Seq(Entry), capacity_level : Nat, hashtable : [0..(n - 1) -> Nat]]
  BY <1>3, <1>4
<1>6. DOMAIN u.hashtable = DOMAIN t.hashtable
  BY <1>5
<1>7. u.hashtable[h] = i /\ \A g \in DOMAIN t.hashtable : g # h => u.hashtable[g] = t.hashtable[g]
  BY <1>3, <1>5
<1> HIDE DEF u
<1>8. Index(u) = Index(t) /\ \A j : Bucket(u, j) = Bucket(t, j)
  BY <1>5 DEF Index, Bucket
<1>9. IsTable(u)
  <2>1. \A g \in DOMAIN u.hashtable : u.hashtable[g] \in Index(u)
    BY <1>2, <1>6, <1>7, <1>8 DEF IsTable
  <2>2. /\ u.capacity_level \in DOMAIN HASH_PRIMES
        /\ u \in [buckets : Seq(Entry), capacity_level : Nat,
                  hashtable : [0..(HASH_PRIMES[u.capacity_level] - 1) -> Nat]]
        /\ Len(u.buckets) >= 1
    BY <1>2, <1>5 DEF IsTable
  <2>3. /\ \A j \in Index(u) \ {0} : Bucket(u, j).move \in Action
        /\ \A j \in Index(u) : Bucket(u, j).next = 0 \/ Bucket(u, j).next \in (j + 1)..(Len(u.buckets) - 1)
    BY <1>2, <1>5, <1>8 DEF IsTable
  <2> QED
    BY <2>1, <2>2, <2>3 DEF IsTable
<1>10. LinkedUpTo(u, i)
  <2>1. ASSUME NEW j \in 1..i
        PROVE  Bucket(u, j).next <= i
    <3>1. CASE j = i
      BY <3>1, <1>2, <1>3, <1>8
    <3>2. CASE j # i
      <4>1. j \in 1..(i - 1)
        BY <3>2, <1>3
      <4>2. Bucket(t, j).next <= i - 1 /\ Bucket(t, j) \in Entry
        BY <4>1, <1>2, <1>3, SizeIs DEF LinkedUpTo
      <4> QED
        BY <4>2, <1>3, <1>8 DEF Entry
    <3> QED
      BY <3>1, <3>2
  <2>2. ASSUME NEW g \in DOMAIN u.hashtable
        PROVE  u.hashtable[g] <= i
    <3>1. t.hashtable[g] <= i - 1 /\ t.hashtable[g] \in Nat
      BY <1>2, <1>4, <1>6 DEF LinkedUpTo
    <3> QED
      BY <3>1, <1>3, <1>6, <1>7
  <2> QED
    BY <2>1, <2>2 DEF LinkedUpTo
<1>11. \A b, d : Slot(u, b, d) = Slot(t, b, d) /\ Meet(u, b, d) = Meet(t, b, d)
  BY <1>5, <1>8 DEF Slot, Meet, MeetStep, Equals
<1>12. FindsUpTo(u, i)
  <2> SUFFICES ASSUME NEW j \in 1..i
               PROVE  find_or_get_default(u, Bucket(u, j).move, Bucket(u, j).context) = j
    BY DEF FindsUpTo
  <2> DEFINE b == Bucket(t, j).move
             d == Bucket(t, j).context
  <2>1. find_or_get_default(u, Bucket(u, j).move, Bucket(u, j).context)
          = Meet(t, b, d)[u.hashtable[Slot(t, b, d)]]
    BY <1>8, <1>11, FindIs
  <2>2. CASE j = i
    <3>1. u.hashtable[Slot(t, b, d)] = i
      BY <2>2, <1>7 DEF SlotOf
    <3>2. Meet(t, b, d)[i] = i
      BY <2>2, <1>2, MeetStepIs DEF Equals
    <3> QED
      BY <2>1, <2>2, <3>1, <3>2
  <2>3. CASE j # i
    <3>1. j \in 1..(i - 1)
      BY <2>3, <1>3
    <3>2. Meet(t, b, d)[t.hashtable[Slot(t, b, d)]] = j
      BY <3>1, <1>2, FindIs DEF FindsUpTo
    <3>3. 0 \in Index(t) /\ Meet(t, b, d)[0] = 0
      BY <1>2, SizeIs, MeetStepIs
    <3>4. Slot(t, b, d) # h
      BY <3>1, <3>2, <3>3
    <3>5. Slot(t, b, d) \in DOMAIN t.hashtable
      BY <3>1, <1>2, <1>3, SlotIn
    <3> QED
      BY <2>1, <3>2, <3>4, <3>5, <1>7
  <2> QED
    BY <2>2, <2>3
<1>13. SameKeys(t, u)
  BY <1>5, <1>8 DEF SameKeys
<1> QED
  BY <1>1, <1>5, <1>9, <1>10, <1>12, <1>13 DEF IsLinked

(* The table with bucket e linked to bucket i. *)
WithLink(t, e, i) == [t EXCEPT !.buckets[e + 1].next = i]

(* What a link changes. *)
LEMMA WithLinkIs ==
  ASSUME NEW t, IsTable(t), NEW e \in Index(t), NEW i \in Index(t), i = 0 \/ e < i
  PROVE  LET u == WithLink(t, e, i)
         IN /\ Len(u.buckets) = Len(t.buckets) /\ Index(u) = Index(t)
            /\ u.capacity_level = t.capacity_level /\ u.hashtable = t.hashtable
            /\ \A j \in Index(t) : /\ Bucket(u, j).move = Bucket(t, j).move
                                   /\ Bucket(u, j).context = Bucket(t, j).context
                                   /\ Bucket(u, j).weight = Bucket(t, j).weight
                                   /\ Bucket(u, j).next = IF j = e THEN i ELSE Bucket(t, j).next
            /\ IsTable(u)
<1> DEFINE u == WithLink(t, e, i)
           n == HASH_PRIMES[t.capacity_level]
           b == t.buckets
           linked == [b EXCEPT ![e + 1].next = i]
<1>1. /\ Len(b) \in Nat /\ Len(b) >= 1 /\ b \in Seq(Entry)
      /\ i \in Nat /\ e \in Nat /\ e + 1 \in DOMAIN b
      /\ \A j \in Index(t) : Bucket(t, j) \in Entry /\ j + 1 \in DOMAIN b
  BY SizeIs DEF Index
<1>2. t \in [buckets : Seq(Entry), capacity_level : Nat, hashtable : [0..(n - 1) -> Nat]]
  BY DEF IsTable
<1>3. u.buckets = linked /\ u.capacity_level = t.capacity_level /\ u.hashtable = t.hashtable
  BY <1>2 DEF WithLink
<1>4. b[e + 1] \in Entry
  BY <1>1
<1>5. [b[e + 1] EXCEPT !.next = i] \in Entry
  BY <1>1, <1>4 DEF Entry
<1>6. linked = [b EXCEPT ![e + 1] = [b[e + 1] EXCEPT !.next = i]]
  OBVIOUS
<1>7. linked \in Seq(Entry) /\ Len(linked) = Len(b)
  BY <1>1, <1>5, <1>6
<1>8. /\ linked[e + 1] = [b[e + 1] EXCEPT !.next = i]
      /\ \A k \in DOMAIN b : k # e + 1 => linked[k] = b[k]
  BY <1>1
<1> HIDE DEF linked
<1>9. u \in [buckets : Seq(Entry), capacity_level : Nat, hashtable : [0..(n - 1) -> Nat]]
  <2>1. u = [t EXCEPT !.buckets = linked]
    BY <1>2 DEF WithLink, linked
  <2> QED
    BY <2>1, <1>2, <1>7
<1> HIDE DEF u
<1>10. Index(u) = Index(t) /\ Len(u.buckets) = Len(t.buckets)
  BY <1>3, <1>7 DEF Index
<1>11. ASSUME NEW j \in Index(t)
       PROVE  /\ Bucket(u, j).move = Bucket(t, j).move
              /\ Bucket(u, j).context = Bucket(t, j).context
              /\ Bucket(u, j).weight = Bucket(t, j).weight
              /\ Bucket(u, j).next = IF j = e THEN i ELSE Bucket(t, j).next
  <2>1. CASE j = e
    BY <2>1, <1>3, <1>4, <1>8 DEF Bucket, Entry
  <2>2. CASE j # e
    <3>1. j + 1 # e + 1 /\ j + 1 \in DOMAIN b
      BY <2>2, <1>1 DEF Index
    <3> QED
      BY <3>1, <2>2, <1>3, <1>8 DEF Bucket
  <2> QED
    BY <2>1, <2>2
<1>12. IsTable(u)
  <2>1. ASSUME NEW j \in Index(u)
        PROVE  Bucket(u, j).next = 0 \/ Bucket(u, j).next \in (j + 1)..(Len(u.buckets) - 1)
    <3>1. CASE j = e
      <4>1. Bucket(u, j).next = i
        BY <3>1, <1>10, <1>11
      <4>2. i = 0 \/ i \in (e + 1)..(Len(t.buckets) - 1)
        BY <1>1 DEF Index
      <4> QED
        BY <4>1, <4>2, <3>1, <1>10
    <3>2. CASE j # e
      BY <3>2, <1>10, <1>11, NextIn
    <3> QED
      BY <3>1, <3>2
  <2>2. \A j \in Index(u) \ {0} : Bucket(u, j).move \in Action
    BY <1>10, <1>11 DEF IsTable
  <2>3. \A h \in DOMAIN u.hashtable : u.hashtable[h] \in Index(u)
    BY <1>3, <1>10 DEF IsTable
  <2>4. Len(u.buckets) >= 1 /\ u.capacity_level \in DOMAIN HASH_PRIMES
    BY <1>3, <1>10 DEF IsTable
  <2> QED
    BY <1>3, <1>9, <2>1, <2>2, <2>3, <2>4 DEF IsTable
<1> QED
  BY <1>3, <1>10, <1>11, <1>12 DEF u

(* Behind the last one of its slot the bucket is found, and what was found *)
(* still is.                                                               *)
LEMMA LinkLast ==
  ASSUME NEW t, NEW i, Waiting(t, i), t.hashtable[SlotOf(t, i)] # 0
  PROVE  IsLinked(t, Link(t, i), i)
<1> DEFINE first == t.hashtable[SlotOf(t, i)]
           e == End(t)[first]
           u == WithLink(t, e, i)
           a == Bucket(t, i).move
           c == Bucket(t, i).context
           n == Len(t.buckets) - 1
<1>1. Link(t, i) = u
  BY EndIs DEF Link, WithLink
<1>2. /\ IsTable(t) /\ i \in Index(t) /\ i # 0 /\ LinkedUpTo(t, i - 1) /\ FindsUpTo(t, i - 1)
      /\ Bucket(t, i).next = 0
      /\ \A j \in 1..(i - 1) : ~ Equals(t, j, a, c)
  BY DEF Waiting
<1>3. /\ i \in Nat /\ i >= 1 /\ i <= n /\ a \in Action /\ c \in Nat
      /\ SlotOf(t, i) \in DOMAIN t.hashtable
      /\ first \in 1..(i - 1)
      /\ \A j \in 1..(i - 1) : j \in Index(t) /\ Bucket(t, j).move \in Action /\ Bucket(t, j).context \in Nat
  BY WaitingIs
<1>4. n \in Nat /\ Index(t) = 0..n /\ i - 1 \in Index(t)
  BY <1>2, <1>3, SizeIs DEF Index
<1>5. e \in 1..(i - 1) /\ Bucket(t, e).next = 0
  <2>1. End(t)[first] \in first..(i - 1) /\ Bucket(t, End(t)[first]).next = 0
    BY <1>2, <1>3, <1>4, EndSound
  <2> QED
    BY <2>1, <1>3
<1> HIDE DEF e
<1>6. /\ Len(u.buckets) = Len(t.buckets) /\ Index(u) = Index(t)
      /\ u.capacity_level = t.capacity_level /\ u.hashtable = t.hashtable
      /\ \A j \in Index(t) : /\ Bucket(u, j).move = Bucket(t, j).move
                             /\ Bucket(u, j).context = Bucket(t, j).context
                             /\ Bucket(u, j).weight = Bucket(t, j).weight
                             /\ Bucket(u, j).next = IF j = e THEN i ELSE Bucket(t, j).next
      /\ IsTable(u)
  <2>1. e \in Index(t) /\ e < i
    BY <1>3, <1>5
  <2> QED
    BY <2>1, <1>2, WithLinkIs DEF u
<1> HIDE DEF u
<1>7. \A j \in Index(t) : \A b, d : Equals(u, j, b, d) <=> Equals(t, j, b, d)
  BY <1>6 DEF Equals
<1>8. LinkedUpTo(u, i)
  <2>1. ASSUME NEW j \in 1..i
        PROVE  Bucket(u, j).next <= i
    <3>1. j \in Index(t)
      BY <1>3, <1>4
    <3>2. CASE j = e
      BY <3>1, <3>2, <1>3, <1>6
    <3>3. CASE j = i
      BY <3>1, <3>3, <1>2, <1>3, <1>5, <1>6
    <3>4. CASE j # e /\ j # i
      <4>1. j \in 1..(i - 1)
        BY <3>4, <1>3
      <4>2. Bucket(t, j).next <= i - 1 /\ Bucket(t, j) \in Entry
        BY <4>1, <3>1, <1>2, SizeIs DEF LinkedUpTo
      <4> QED
        BY <4>2, <3>1, <3>4, <1>3, <1>6 DEF Entry
    <3> QED
      BY <3>2, <3>3, <3>4
  <2>2. ASSUME NEW g \in DOMAIN u.hashtable
        PROVE  u.hashtable[g] <= i
    <3>1. t.hashtable[g] <= i - 1 /\ t.hashtable[g] \in Index(t)
      BY <1>2, <1>6 DEF LinkedUpTo, IsTable
    <3> QED
      BY <3>1, <1>3, <1>4, <1>6
  <2> QED
    BY <2>1, <2>2 DEF LinkedUpTo
(* Walks that met something still meet it, *)
<1>9. ASSUME NEW b, NEW d
      PROVE  \A j \in 0..n : Meet(t, b, d)[j] # 0 => Meet(u, b, d)[j] = Meet(t, b, d)[j]
  <2> DEFINE f == Meet(t, b, d)
             g == Meet(u, b, d)
             T == {j \in 0..n : f[j] # 0 => g[j] = f[j]}
  <2>1. \A j \in 0..n : f[j] = IF j = 0 \/ Equals(t, j, b, d) THEN j ELSE f[Bucket(t, j).next]
    BY <1>2, <1>4, MeetStepIs
  <2>2. ASSUME NEW j \in 0..n
        PROVE  g[j] = IF j = 0 \/ Equals(t, j, b, d) THEN j ELSE g[Bucket(u, j).next]
    <3>1. g[j] = IF j = 0 \/ Equals(u, j, b, d) THEN j ELSE g[Bucket(u, j).next]
      BY <1>4, <1>6, MeetStepIs
    <3> QED
      BY <3>1, <1>4, <1>7
  <2> HIDE DEF f, g
  <2>3. ASSUME NEW j \in 0..n, \A k \in (j + 1)..n : k \in T
        PROVE  j \in T
    <3> SUFFICES ASSUME f[j] # 0, ~ (j = 0 \/ Equals(t, j, b, d))
                 PROVE  g[j] = f[j]
      BY <2>1, <2>2
    <3>1. f[j] = f[Bucket(t, j).next] /\ f[0] = 0
      BY <2>1, <1>4
    <3>2. Bucket(t, j).next # 0
      BY <3>1
    <3>3. Bucket(t, j).next \in (j + 1)..n
      BY <3>2, <1>2, <1>4, NextIn
    <3>4. j # e
      BY <3>2, <1>5
    <3>5. Bucket(u, j).next = Bucket(t, j).next
      BY <3>4, <1>4, <1>6
    <3>6. g[Bucket(t, j).next] = f[Bucket(t, j).next]
      BY <3>1, <3>3, <2>3
    <3> QED
      BY <3>1, <3>5, <3>6, <2>2
  <2> HIDE DEF T
  <2>4. \A j \in 0..n : j \in T
    BY <2>3, <1>4, Downward
  <2> QED
    BY <2>4 DEF T, f, g
(* and walks that came to the end of the links of the slot meet bucket i. *)
<1>10. \A j \in 0..(i - 1) : j # 0 /\ End(t)[j] = e => Meet(u, a, c)[j] = i
  <2> DEFINE g == Meet(u, a, c)
             T == {j \in 0..(i - 1) : j # 0 /\ End(t)[j] = e => g[j] = i}
  <2>1. \A j \in 0..n : g[j] = IF j = 0 \/ Equals(t, j, a, c) THEN j ELSE g[Bucket(u, j).next]
    BY <1>4, <1>6, <1>7, MeetStepIs
  <2>2. g[i] = i
    BY <2>1, <1>3, <1>4 DEF Equals
  <2> HIDE DEF g
  <2>3. ASSUME NEW j \in 0..(i - 1), \A k \in (j + 1)..(i - 1) : k \in T
        PROVE  j \in T
    <3> SUFFICES ASSUME j # 0, End(t)[j] = e
                 PROVE  g[j] = i
      OBVIOUS
    <3>1. j \in 1..(i - 1) /\ j \in Index(t) /\ ~ Equals(t, j, a, c)
      BY <1>2, <1>3
    <3>2. g[j] = g[Bucket(u, j).next]
      BY <3>1, <2>1, <1>4
    <3>3. CASE j = e
      BY <3>1, <3>2, <3>3, <2>2, <1>6
    <3>4. CASE j # e
      <4>1. End(t)[j] = IF Bucket(t, j).next = 0 THEN j ELSE End(t)[Bucket(t, j).next]
        BY <3>1, <1>2, EndStepIs
      <4>2. Bucket(t, j).next # 0 /\ End(t)[Bucket(t, j).next] = e
        BY <4>1, <3>4
      <4>3. Bucket(t, j).next \in (j + 1)..n
        BY <4>2, <3>1, <1>2, NextIn
      <4>4. Bucket(t, j).next <= i - 1
        BY <3>1, <1>2 DEF LinkedUpTo
      <4>5. Bucket(t, j).next \in (j + 1)..(i - 1)
        BY <4>3, <4>4
      <4>6. g[Bucket(t, j).next] = i
        BY <4>2, <4>5, <2>3
      <4> QED
        BY <4>6, <3>1, <3>2, <3>4, <1>6
    <3> QED
      BY <3>3, <3>4
  <2> HIDE DEF T
  <2>4. i - 1 \in Nat
    BY <1>3
  <2>5. \A j \in 0..(i - 1) : j \in T
    BY <2>3, <2>4, Downward
  <2> QED
    BY <2>5 DEF T, g
<1>11. FindsUpTo(u, i)
  <2> SUFFICES ASSUME NEW j \in 1..i
               PROVE  find_or_get_default(u, Bucket(u, j).move, Bucket(u, j).context) = j
    BY DEF FindsUpTo
  <2> DEFINE b == Bucket(t, j).move
             d == Bucket(t, j).context
             h == t.hashtable[Slot(t, b, d)]
  <2>1. j \in Index(t)
    BY <1>3, <1>4
  <2>2. find_or_get_default(u, Bucket(u, j).move, Bucket(u, j).context) = Meet(u, b, d)[h]
    <3>1. Bucket(u, j).move = b /\ Bucket(u, j).context = d
      BY <2>1, <1>6
    <3>2. u.hashtable[Slot(u, b, d)] = h
      BY <1>6 DEF Slot
    <3> QED
      BY <3>1, <3>2, FindIs
  <2>3. CASE j = i
    <3>1. h = first
      BY <2>3 DEF SlotOf
    <3>2. End(t)[first] = e /\ first \in 0..(i - 1) /\ first # 0
      BY <1>3 DEF e
    <3> HIDE DEF first
    <3>3. Meet(u, a, c)[first] = i
      BY <3>2, <1>10
    <3> QED
      BY <2>2, <2>3, <3>1, <3>3
  <2>4. CASE j # i
    <3>1. j \in 1..(i - 1)
      BY <2>4, <1>3
    <3>2. Meet(t, b, d)[h] = j
      BY <3>1, <1>2, FindIs DEF FindsUpTo
    <3>3. Slot(t, b, d) \in DOMAIN t.hashtable
      BY <3>1, <1>2, <1>3, SlotIn
    <3>4. h \in 0..n
      BY <3>3, <1>2, <1>4 DEF IsTable
    <3>5. Meet(u, b, d)[h] = j
      BY <3>1, <3>2, <3>4, <1>9
    <3> QED
      BY <2>2, <3>5
  <2> QED
    BY <2>3, <2>4
<1>12. SameKeys(t, u)
  BY <1>6 DEF SameKeys
<1> QED
  BY <1>1, <1>6, <1>8, <1>11, <1>12 DEF IsLinked

(* Link links a bucket that waits. *)
LEMMA LinkLinks ==
  ASSUME NEW t, NEW i, Waiting(t, i)
  PROVE  IsLinked(t, Link(t, i), i)
BY LinkFirst, LinkLast

(* A table that holds buckets, whatever became of its slots. *)
IsRecord(t, l) == \E b, h : t = [buckets |-> b, capacity_level |-> l, hashtable |-> h]

(* Links change no level. *)
LEMMA LinkLevel ==
  ASSUME NEW t, NEW l, IsRecord(t, l), NEW e, NEW i
  PROVE  IsRecord(Link(t, i), l) /\ IsRecord(WithLink(t, e, 0), l)
<1>1. PICK b, h : t = [buckets |-> b, capacity_level |-> l, hashtable |-> h]
  BY DEF IsRecord
<1> DEFINE k == SlotOf(t, i)
           m == EndOfLinks(t, t.hashtable[k]) + 1
<1>2. [t EXCEPT !.hashtable[k] = i]
        = [buckets |-> b, capacity_level |-> l, hashtable |-> [h EXCEPT ![k] = i]]
  BY <1>1
<1>3. [t EXCEPT !.buckets[m].next = i]
        = [buckets |-> [b EXCEPT ![m].next = i], capacity_level |-> l, hashtable |-> h]
  BY <1>1
<1>4. WithLink(t, e, 0)
        = [buckets |-> [b EXCEPT ![e + 1].next = 0], capacity_level |-> l, hashtable |-> h]
  BY <1>1 DEF WithLink
<1>5. Link(t, i) = [t EXCEPT !.hashtable[k] = i] \/ Link(t, i) = [t EXCEPT !.buckets[m].next = i]
  BY DEF Link
<1> HIDE DEF k, m
<1> QED
  BY <1>2, <1>3, <1>4, <1>5 DEF IsRecord

(* grow_hashtable, bucket by bucket. *)
Cleared(t) == [t EXCEPT !.capacity_level = @ + 1, !.hashtable = EmptySlots(t.capacity_level + 1)]
Relinked(u, i) == Link(WithLink(u, i, 0), i)
GrowStep(t, n, f) == f = [i \in 0..n |-> IF i = 0 THEN Cleared(t) ELSE Relinked(f[i - 1], i)]
Grow(t) == CHOOSE f : GrowStep(t, Len(t.buckets) - 1, f)

(* A table grows bucket by bucket,                                         *)
LEMMA GrowIs ==
  ASSUME NEW t
  PROVE  grow_hashtable(t) = Grow(t)[Len(t.buckets) - 1]
BY Zenon DEF grow_hashtable, Grow, GrowStep, Cleared, Relinked, WithLink

(* there is what it becomes,                                               *)
LEMMA GrowExists ==
  ASSUME NEW t
  PROVE  \A n \in Nat : \E f : GrowStep(t, n, f)
<1> DEFINE S == {n \in Nat : \E f : GrowStep(t, n, f)}
<1>1. 0 \in S
  <2>1. GrowStep(t, 0, [i \in 0..0 |-> Cleared(t)])
    BY DEF GrowStep
  <2> QED
    BY <2>1
<1>2. ASSUME NEW n \in Nat, n \in S
      PROVE  n + 1 \in S
  <2>1. PICK f : GrowStep(t, n, f)
    BY <1>2
  <2> DEFINE last == Relinked(f[n], n + 1)
             g == [i \in 0..(n + 1) |-> IF i = n + 1 THEN last ELSE f[i]]
  <2>2. g[n + 1] = last /\ \A i \in 0..n : g[i] = f[i]
    OBVIOUS
  <2>3. g = [i \in 0..(n + 1) |-> g[i]]
    OBVIOUS
  <2> HIDE DEF g
  <2>4. ASSUME NEW i \in 0..(n + 1)
        PROVE  g[i] = IF i = 0 THEN Cleared(t) ELSE Relinked(g[i - 1], i)
    <3>1. CASE i = n + 1
      <4>1. g[i - 1] = f[n] /\ i # 0
        BY <3>1, <2>2
      <4> QED
        BY <4>1, <3>1, <2>2
    <3>2. CASE i # n + 1
      <4>1. i \in 0..n /\ (i # 0 => i - 1 \in 0..n)
        BY <3>2
      <4>2. f[i] = IF i = 0 THEN Cleared(t) ELSE Relinked(f[i - 1], i)
        BY <4>1, <2>1 DEF GrowStep
      <4> QED
        BY <4>1, <4>2, <2>2
    <3> QED
      BY <3>1, <3>2
  <2>5. GrowStep(t, n + 1, g)
    BY <2>3, <2>4 DEF GrowStep
  <2> QED
    BY <2>5
<1> HIDE DEF S
<1>3. \A n \in Nat : n \in S
  BY <1>1, <1>2, SetInduction
<1> QED
  BY <1>3 DEF S

(* and each step relinks one bucket.                                       *)
LEMMA GrowStepIs ==
  ASSUME NEW t, IsTable(t)
  PROVE  /\ Grow(t)[0] = Cleared(t)
         /\ \A i \in Index(t) \ {0} : Grow(t)[i] = Relinked(Grow(t)[i - 1], i)
<1> DEFINE n == Len(t.buckets) - 1
<1>1. n \in Nat /\ Index(t) = 0..n
  BY SizeIs DEF Index
<1>2. PICK f : GrowStep(t, n, f)
  BY <1>1, GrowExists
<1>3. GrowStep(t, n, Grow(t))
  BY <1>2 DEF Grow
<1> HIDE DEF n
<1>4. \A i \in 0..n : Grow(t)[i] = IF i = 0 THEN Cleared(t) ELSE Relinked(Grow(t)[i - 1], i)
  BY <1>3 DEF GrowStep
<1> QED
  BY <1>1, <1>4

(* A table grows by one level. *)
LEMMA GrowLevel ==
  ASSUME NEW t, IsTable(t)
  PROVE  IsRecord(grow_hashtable(t), t.capacity_level + 1)
<1> DEFINE l == t.capacity_level + 1
           n == Len(t.buckets) - 1
           S == {i \in Nat : i <= n => IsRecord(Grow(t)[i], l)}
<1>1. n \in Nat /\ Index(t) = 0..n
  BY SizeIs DEF Index
<1>2. 0 \in S
  <2>1. PICK b, k, h : t = [buckets |-> b, capacity_level |-> k, hashtable |-> h]
    BY DEF IsTable
  <2>2. Cleared(t) = [buckets |-> b, capacity_level |-> k + 1, hashtable |-> EmptySlots(t.capacity_level + 1)]
    <3> DEFINE e == EmptySlots(t.capacity_level + 1)
    <3>1. Cleared(t) = [t EXCEPT !.capacity_level = t.capacity_level + 1, !.hashtable = e]
      BY DEF Cleared
    <3> HIDE DEF e
    <3> DEFINE r == [t EXCEPT !.capacity_level = t.capacity_level + 1]
    <3>2. [t EXCEPT !.capacity_level = t.capacity_level + 1, !.hashtable = e] = [r EXCEPT !.hashtable = e]
      BY <2>1
    <3>3. r = [buckets |-> b, capacity_level |-> k + 1, hashtable |-> h]
      BY <2>1
    <3> HIDE DEF r
    <3>4. [r EXCEPT !.hashtable = e] = [buckets |-> b, capacity_level |-> k + 1, hashtable |-> e]
      BY <3>3
    <3> QED
      BY <3>1, <3>2, <3>4 DEF e
  <2>3. IsRecord(Cleared(t), l)
    BY <2>1, <2>2 DEF IsRecord
  <2> QED
    BY <2>3, GrowStepIs
<1>3. ASSUME NEW i \in Nat, i \in S
      PROVE  i + 1 \in S
  <2> SUFFICES ASSUME i + 1 <= n
               PROVE  IsRecord(Grow(t)[i + 1], l)
    OBVIOUS
  <2>1. IsRecord(Grow(t)[i], l)
    BY <1>1, <1>3
  <2>2. i + 1 \in Index(t) \ {0} /\ (i + 1) - 1 = i
    BY <1>1
  <2>3. Grow(t)[i + 1] = Relinked(Grow(t)[i], i + 1)
    BY <2>2, GrowStepIs
  <2>4. IsRecord(WithLink(Grow(t)[i], i + 1, 0), l)
    BY <2>1, LinkLevel
  <2>5. IsRecord(Relinked(Grow(t)[i], i + 1), l)
    BY <2>4, LinkLevel DEF Relinked
  <2> QED
    BY <2>3, <2>5
<1> HIDE DEF S
<1>4. n \in S
  BY <1>1, <1>2, <1>3, SetInduction
<1>5. IsRecord(Grow(t)[n], l)
  BY <1>1, <1>4 DEF S
<1>6. grow_hashtable(t) = Grow(t)[n]
  BY GrowIs
<1> QED
  BY <1>5, <1>6

(* A look-up that stays among the first m buckets needs no others. *)
LEMMA MeetSame ==
  ASSUME NEW u, NEW v, IsTable(u), IsTable(v), NEW m \in Index(u), Index(u) \subseteq Index(v),
         LinkedUpTo(u, m),
         \A j \in 1..m : /\ Bucket(v, j).move = Bucket(u, j).move
                         /\ Bucket(v, j).context = Bucket(u, j).context
                         /\ Bucket(v, j).next = Bucket(u, j).next,
         NEW a, NEW c
  PROVE  \A j \in 0..m : Meet(v, a, c)[j] = Meet(u, a, c)[j]
<1> DEFINE f == Meet(u, a, c)
           g == Meet(v, a, c)
           T == {j \in 0..m : g[j] = f[j]}
<1>1. m \in Nat /\ \A j \in 0..m : j \in Index(u)
  BY SizeIs DEF Index
<1>2. \A j \in Index(u) : f[j] = IF j = 0 \/ Equals(u, j, a, c) THEN j ELSE f[Bucket(u, j).next]
  BY MeetStepIs
<1>3. \A j \in Index(u) : g[j] = IF j = 0 \/ Equals(v, j, a, c) THEN j ELSE g[Bucket(v, j).next]
  BY MeetStepIs
<1> HIDE DEF f, g
<1>4. ASSUME NEW j \in 0..m, \A k \in (j + 1)..m : k \in T
      PROVE  j \in T
  <2>1. CASE j = 0
    BY <2>1, <1>1, <1>2, <1>3
  <2>2. CASE j # 0
    <3>1. j \in 1..m
      BY <2>2
    <3>2. Equals(v, j, a, c) <=> Equals(u, j, a, c)
      BY <3>1 DEF Equals
    <3>3. Bucket(v, j).next = Bucket(u, j).next
      BY <3>1
    <3>4. Bucket(u, j).next = 0 \/ Bucket(u, j).next \in (j + 1)..(Len(u.buckets) - 1)
      BY <1>1, NextIn
    <3>5. Bucket(u, j).next <= m
      BY <3>1 DEF LinkedUpTo
    <3>6. g[Bucket(u, j).next] = f[Bucket(u, j).next]
      <4>1. CASE Bucket(u, j).next = 0
        <5>1. 0 \in Index(u)
          BY SizeIs
        <5> QED
          BY <4>1, <5>1, <1>2, <1>3
      <4>2. CASE Bucket(u, j).next # 0
        <5>1. Bucket(u, j).next \in (j + 1)..m
          BY <4>2, <3>4, <3>5
        <5> QED
          BY <5>1, <1>4
      <4> QED
        BY <4>1, <4>2
    <3>7. f[j] = IF Equals(u, j, a, c) THEN j ELSE f[Bucket(u, j).next]
      BY <2>2, <1>1, <1>2
    <3>8. g[j] = IF Equals(u, j, a, c) THEN j ELSE g[Bucket(u, j).next]
      BY <2>2, <1>1, <1>3, <3>2, <3>3
    <3> QED
      BY <3>6, <3>7, <3>8
  <2> QED
    BY <2>1, <2>2
<1> HIDE DEF T
<1>5. \A j \in 0..m : j \in T
  BY <1>1, <1>4, Downward
<1> QED
  BY <1>5 DEF T, f, g

(* The stale link of a bucket is taken away before the bucket is linked    *)
(* anew: nothing of those before it changes.                               *)
LEMMA Unlink ==
  ASSUME NEW u, IsTable(u), NEW i \in Index(u) \ {0}, LinkedUpTo(u, i - 1), FindsUpTo(u, i - 1)
  PROVE  /\ IsTable(WithLink(u, i, 0)) /\ SameKeys(u, WithLink(u, i, 0))
         /\ LinkedUpTo(WithLink(u, i, 0), i - 1) /\ FindsUpTo(WithLink(u, i, 0), i - 1)
         /\ WithLink(u, i, 0).capacity_level = u.capacity_level
         /\ Bucket(WithLink(u, i, 0), i).next = 0
<1> DEFINE v == WithLink(u, i, 0)
<1>1. /\ Len(u.buckets) \in Nat /\ 0 \in Index(u) /\ i \in Nat /\ i >= 1 /\ i - 1 \in Index(u)
      /\ \A j \in 0..(i - 1) : j \in Index(u)
  BY SizeIs DEF Index
<1>2. /\ Len(v.buckets) = Len(u.buckets) /\ Index(v) = Index(u)
      /\ v.capacity_level = u.capacity_level /\ v.hashtable = u.hashtable
      /\ \A j \in Index(u) : /\ Bucket(v, j).move = Bucket(u, j).move
                             /\ Bucket(v, j).context = Bucket(u, j).context
                             /\ Bucket(v, j).weight = Bucket(u, j).weight
                             /\ Bucket(v, j).next = IF j = i THEN 0 ELSE Bucket(u, j).next
      /\ IsTable(v)
  BY <1>1, WithLinkIs
<1> HIDE DEF v
<1>3. \A j \in 1..(i - 1) : /\ Bucket(v, j).move = Bucket(u, j).move
                            /\ Bucket(v, j).context = Bucket(u, j).context
                            /\ Bucket(v, j).next = Bucket(u, j).next
  <2> TAKE j \in 1..(i - 1)
  <2>1. j \in Index(u) /\ j # i
    BY <1>1
  <2> QED
    BY <2>1, <1>2
<1>4. LinkedUpTo(v, i - 1)
  BY <1>2, <1>3 DEF LinkedUpTo
<1>5. FindsUpTo(v, i - 1)
  <2> SUFFICES ASSUME NEW j \in 1..(i - 1)
               PROVE  find_or_get_default(v, Bucket(v, j).move, Bucket(v, j).context) = j
    BY DEF FindsUpTo
  <2> DEFINE b == Bucket(u, j).move
             d == Bucket(u, j).context
             h == u.hashtable[Slot(u, b, d)]
  <2>1. j \in Index(u) \ {0}
    BY <1>1
  <2>2. b \in Action /\ d \in Nat
    <3>1. Bucket(u, j) \in Entry
      BY <2>1, SizeIs
    <3> QED
      BY <3>1, <2>1 DEF Entry, IsTable
  <2>3. h \in 0..(i - 1)
    <3>1. Slot(u, b, d) \in DOMAIN u.hashtable
      BY <2>2, SlotIn
    <3>2. h <= i - 1 /\ h \in Index(u)
      BY <3>1 DEF LinkedUpTo, IsTable
    <3> QED
      BY <3>2, <1>1 DEF Index
  <2>4. Bucket(v, j).move = b /\ Bucket(v, j).context = d
    BY <1>3
  <2>5. v.hashtable[Slot(v, b, d)] = h
    BY <1>2 DEF Slot
  <2>6. Meet(u, b, d)[h] = j
    BY FindIs DEF FindsUpTo
  <2> HIDE DEF b, d, h
  <2>7. \A k \in 0..(i - 1) : Meet(v, b, d)[k] = Meet(u, b, d)[k]
    BY <1>1, <1>2, <1>3, MeetSame
  <2>8. Meet(v, b, d)[h] = j
    BY <2>3, <2>6, <2>7
  <2> QED
    BY <2>4, <2>5, <2>8, FindIs
<1>6. SameKeys(u, v)
  BY <1>2 DEF SameKeys
<1> QED
  BY <1>2, <1>4, <1>5, <1>6 DEF v

(* A table in which every bucket is found. *)
IsWhole(t) == IsTable(t) /\ FindsUpTo(t, Len(t.buckets) - 1)

(* Its buckets differ. *)
LEMMA BucketsDiffer ==
  ASSUME NEW t, IsWhole(t), NEW i \in Index(t) \ {0}, NEW j \in Index(t) \ {0}, i # j
  PROVE  ~ Equals(t, j, Bucket(t, i).move, Bucket(t, i).context)
<1>1. i \in 1..(Len(t.buckets) - 1) /\ j \in 1..(Len(t.buckets) - 1)
  BY SizeIs DEF Index, IsWhole
<1>2. /\ find_or_get_default(t, Bucket(t, i).move, Bucket(t, i).context) = i
      /\ find_or_get_default(t, Bucket(t, j).move, Bucket(t, j).context) = j
  BY <1>1 DEF IsWhole, FindsUpTo
<1> QED
  BY <1>2 DEF Equals

(* u is t grown, with i buckets linked so far. *)
Regrown(t, u, i) ==
  /\ IsTable(u)
  /\ SameKeys(t, u) /\ u.capacity_level = t.capacity_level + 1
  /\ LinkedUpTo(u, i) /\ FindsUpTo(u, i)

(* It begins with empty slots. *)
LEMMA GrowBegins ==
  ASSUME NEW t, IsTable(t), t.capacity_level + 1 \in DOMAIN HASH_PRIMES
  PROVE  Regrown(t, Cleared(t), 0)
<1> DEFINE l == t.capacity_level + 1
           e == EmptySlots(l)
           n == HASH_PRIMES[l]
           u == Cleared(t)
<1>1. PICK b, k, h : t = [buckets |-> b, capacity_level |-> k, hashtable |-> h]
  BY DEF IsTable
<1>2. t.buckets \in Seq(Entry) /\ t.capacity_level \in Nat
  BY DEF IsTable
<1>3. u.buckets = t.buckets /\ u.capacity_level = l /\ u.hashtable = e
  BY <1>1 DEF Cleared
<1>4. u \in [buckets : Seq(Entry), capacity_level : Nat, hashtable : [0..(n - 1) -> Nat]]
  <2>1. e \in [0..(n - 1) -> Nat]
    BY DEF EmptySlots
  <2>2. l \in Nat
    BY <1>2
  <2> DEFINE r == [t EXCEPT !.capacity_level = l]
  <2>3. u = [r EXCEPT !.hashtable = e]
    BY <1>1 DEF Cleared
  <2>4. r = [buckets |-> b, capacity_level |-> l, hashtable |-> h]
    BY <1>1
  <2> HIDE DEF r, e, l, u
  <2>5. u = [buckets |-> b, capacity_level |-> l, hashtable |-> e]
    BY <2>3, <2>4
  <2> QED
    BY <2>1, <2>2, <2>5, <1>1, <1>2
<1>5. \A g \in DOMAIN u.hashtable : u.hashtable[g] = 0
  BY <1>3 DEF EmptySlots
<1> HIDE DEF u
<1>6. Index(u) = Index(t) /\ \A j : Bucket(u, j) = Bucket(t, j)
  BY <1>3 DEF Index, Bucket
<1>7. IsTable(u)
  <2>1. 0 \in Index(t)
    BY SizeIs
  <2>2. \A g \in DOMAIN u.hashtable : u.hashtable[g] \in Index(u)
    BY <2>1, <1>5, <1>6
  <2>3. u.capacity_level \in DOMAIN HASH_PRIMES /\ Len(u.buckets) >= 1
    BY <1>3 DEF IsTable
  <2>4. /\ \A j \in Index(u) \ {0} : Bucket(u, j).move \in Action
        /\ \A j \in Index(u) : Bucket(u, j).next = 0 \/ Bucket(u, j).next \in (j + 1)..(Len(u.buckets) - 1)
    BY <1>3, <1>6 DEF IsTable
  <2> QED
    BY <1>3, <1>4, <2>2, <2>3, <2>4 DEF IsTable
<1>8. SameKeys(t, u)
  BY <1>3, <1>6 DEF SameKeys
<1>9. LinkedUpTo(u, 0) /\ FindsUpTo(u, 0)
  BY <1>5 DEF LinkedUpTo, FindsUpTo
<1> QED
  BY <1>3, <1>7, <1>8, <1>9 DEF Regrown, u

(* Every bucket in turn is linked. *)
LEMMA GrowGoesOn ==
  ASSUME NEW t, IsWhole(t), NEW u, NEW i \in Index(t) \ {0}, Regrown(t, u, i - 1)
  PROVE  Regrown(t, Relinked(u, i), i)
<1> DEFINE v == WithLink(u, i, 0)
           w == Link(v, i)
<1>1. /\ IsTable(u) /\ SameKeys(t, u) /\ u.capacity_level = t.capacity_level + 1
      /\ LinkedUpTo(u, i - 1) /\ FindsUpTo(u, i - 1)
  BY DEF Regrown
<1>2. Index(u) = Index(t)
  BY <1>1 DEF SameKeys, Index
<1>3. /\ IsTable(v) /\ SameKeys(u, v) /\ LinkedUpTo(v, i - 1) /\ FindsUpTo(v, i - 1)
      /\ v.capacity_level = u.capacity_level /\ Bucket(v, i).next = 0
  BY <1>1, <1>2, Unlink
<1> HIDE DEF v
<1>4. Index(v) = Index(t) /\ SameKeys(t, v)
  BY <1>1, <1>2, <1>3 DEF SameKeys, Index
<1>5. ASSUME NEW j \in 1..(i - 1)
      PROVE  ~ Equals(v, j, Bucket(v, i).move, Bucket(v, i).context)
  <2>1. j \in Index(t) \ {0} /\ i # j
    BY SizeIs DEF Index, IsWhole
  <2>2. ~ Equals(t, j, Bucket(t, i).move, Bucket(t, i).context)
    BY <2>1, BucketsDiffer
  <2> QED
    BY <2>1, <2>2, <1>4 DEF SameKeys, Equals
<1>6. Waiting(v, i)
  BY <1>3, <1>4, <1>5 DEF Waiting
<1>7. IsLinked(v, w, i)
  BY <1>6, LinkLinks
<1> HIDE DEF w
<1>8. SameKeys(t, w)
  BY <1>4, <1>7 DEF IsLinked, SameKeys
<1>9. Regrown(t, w, i)
  BY <1>1, <1>3, <1>7, <1>8 DEF IsLinked, Regrown
<1> QED
  BY <1>9 DEF w, v, Relinked

(* In a grown table everything is found that was. *)
LEMMA GrowKeeps ==
  ASSUME NEW t, IsWhole(t), t.capacity_level + 1 \in DOMAIN HASH_PRIMES
  PROVE  /\ IsWhole(grow_hashtable(t)) /\ SameKeys(t, grow_hashtable(t))
<1> DEFINE n == Len(t.buckets) - 1
           S == {i \in Nat : i <= n => Regrown(t, Grow(t)[i], i)}
<1>1. IsTable(t) /\ n \in Nat /\ Index(t) = 0..n
  BY SizeIs DEF Index, IsWhole
<1>2. 0 \in S
  BY <1>1, GrowBegins, GrowStepIs
<1>3. ASSUME NEW i \in Nat, i \in S
      PROVE  i + 1 \in S
  <2> SUFFICES ASSUME i + 1 <= n
               PROVE  Regrown(t, Grow(t)[i + 1], i + 1)
    OBVIOUS
  <2>1. i + 1 \in Index(t) \ {0} /\ (i + 1) - 1 = i
    BY <1>1
  <2>2. Regrown(t, Grow(t)[i], (i + 1) - 1)
    BY <2>1, <1>1, <1>3
  <2>3. Regrown(t, Relinked(Grow(t)[i], i + 1), i + 1)
    BY <2>1, <2>2, GrowGoesOn
  <2>4. Grow(t)[i + 1] = Relinked(Grow(t)[(i + 1) - 1], i + 1)
    BY <2>1, <1>1, GrowStepIs
  <2> QED
    BY <2>1, <2>3, <2>4
<1> HIDE DEF S
<1>4. n \in S
  BY <1>1, <1>2, <1>3, SetInduction
<1>5. Regrown(t, Grow(t)[n], n)
  BY <1>1, <1>4 DEF S
<1>6. grow_hashtable(t) = Grow(t)[n]
  BY GrowIs
<1> QED
  BY <1>5, <1>6 DEF Regrown, IsWhole, SameKeys

-----------------------------------------------------------------------------
(* What the player's tables are at any time.                               *)

IsGood(t) ==
  /\ IsWhole(t)
  /\ \A i \in Index(t) \ {0} : Bucket(t, i).context < i
  /\ Bucket(t, 0).weight = 0

(* u is t with what was updated or inserted since. *)
Extends(t, u) ==
  /\ Len(t.buckets) <= Len(u.buckets)
  /\ \A i \in Index(t) : /\ Bucket(u, i).move = Bucket(t, i).move
                         /\ Bucket(u, i).context = Bucket(t, i).context

(* The counts of u are those of t, and 0 for new buckets. *)
SameCounts(t, u) ==
  \A i \in Index(u) : Bucket(u, i).weight = IF i \in Index(t) THEN Bucket(t, i).weight ELSE 0

(* All links of a table stay in it. *)
LEMMA AllLinked ==
  ASSUME NEW t, IsTable(t)
  PROVE  Len(t.buckets) - 1 \in Index(t) /\ LinkedUpTo(t, Len(t.buckets) - 1)
<1> DEFINE n == Len(t.buckets) - 1
<1>1. n \in Nat /\ Index(t) = 0..n
  BY SizeIs DEF Index
<1>2. \A i \in 1..n : Bucket(t, i).next <= n
  <2> TAKE i \in 1..n
  <2>1. Bucket(t, i).next = 0 \/ Bucket(t, i).next \in (i + 1)..n
    BY <1>1, NextIn
  <2> QED
    BY <2>1, <1>1
<1>3. \A h \in DOMAIN t.hashtable : t.hashtable[h] <= n
  <2> TAKE h \in DOMAIN t.hashtable
  <2>1. t.hashtable[h] \in Index(t)
    BY DEF IsTable
  <2> QED
    BY <2>1, <1>1
<1> QED
  BY <1>1, <1>2, <1>3 DEF LinkedUpTo

(* Look-ups depend on slots, links and keys alone. *)
LEMMA FindSame ==
  ASSUME NEW t, NEW u, IsTable(t), IsTable(u), Index(t) \subseteq Index(u),
         u.capacity_level = t.capacity_level, u.hashtable = t.hashtable,
         \A j \in Index(t) : /\ Bucket(u, j).move = Bucket(t, j).move
                             /\ Bucket(u, j).context = Bucket(t, j).context
                             /\ Bucket(u, j).next = Bucket(t, j).next,
         NEW a \in Action, NEW c \in Nat
  PROVE  find_or_get_default(u, a, c) = find_or_get_default(t, a, c)
<1> DEFINE n == Len(t.buckets) - 1
           h == t.hashtable[Slot(t, a, c)]
<1>1. n \in Index(t) /\ n \in Nat /\ Index(t) = 0..n /\ LinkedUpTo(t, n)
  BY AllLinked, SizeIs DEF Index
<1> HIDE DEF n
<1>2. \A j \in 0..n : Meet(u, a, c)[j] = Meet(t, a, c)[j]
  BY <1>1, MeetSame
<1>3. h \in 0..n
  BY <1>1, SlotIn DEF IsTable
<1>4. u.hashtable[Slot(u, a, c)] = h
  BY DEF Slot
<1> HIDE DEF h
<1>5. Meet(u, a, c)[h] = Meet(t, a, c)[h]
  BY <1>2, <1>3
<1>6. find_or_get_default(t, a, c) = Meet(t, a, c)[h]
  BY FindIs DEF h
<1> QED
  BY <1>4, <1>5, <1>6, FindIs

(* The table with a bucket more that is not linked yet. *)
WithBucket(t, a, c) == [t EXCEPT !.buckets = Append(@, NewBucket(a, c))]

(* Such a bucket waits to be linked; the table has all it had.             *)
LEMMA WithBucketIs ==
  ASSUME NEW t, IsGood(t), NEW a \in Action, NEW c \in Index(t), find_or_get_default(t, a, c) = 0
  PROVE  LET u == WithBucket(t, a, c)
         IN /\ Len(u.buckets) = Len(t.buckets) + 1 /\ u.capacity_level = t.capacity_level
            /\ Extends(t, u) /\ SameCounts(t, u)
            /\ Equals(u, Len(t.buckets), a, c)
            /\ Waiting(u, Len(t.buckets))
<1> DEFINE u == WithBucket(t, a, c)
           n == HASH_PRIMES[t.capacity_level]
           b == t.buckets
           m == Len(b)
           new == NewBucket(a, c)
<1>1. IsTable(t) /\ IsWhole(t)
  BY DEF IsGood, IsWhole
<1>2. m \in Nat /\ m >= 1 /\ b \in Seq(Entry) /\ Index(t) = 0..(m - 1) /\ c \in Nat
      /\ \A i \in Index(t) : Bucket(t, i) \in Entry
  BY <1>1, SizeIs DEF Index
<1>3. t \in [buckets : Seq(Entry), capacity_level : Nat, hashtable : [0..(n - 1) -> Nat]]
  BY <1>1 DEF IsTable
<1>4. new \in Entry /\ new.move = a /\ new.context = c /\ new.next = 0 /\ new.weight = 0
  BY <1>2 DEF NewBucket, Entry, AnyMove
<1>5. u.buckets = Append(b, new) /\ u.capacity_level = t.capacity_level /\ u.hashtable = t.hashtable
  BY <1>3 DEF WithBucket
<1> HIDE DEF new
<1>6. Append(b, new) \in Seq(Entry) /\ Len(Append(b, new)) = m + 1
      /\ Append(b, new)[m + 1] = new /\ \A i \in 1..m : Append(b, new)[i] = b[i]
  BY <1>2, <1>4
<1>7. u \in [buckets : Seq(Entry), capacity_level : Nat, hashtable : [0..(n - 1) -> Nat]]
  <2> DEFINE s == Append(b, new)
  <2>1. u = [t EXCEPT !.buckets = s]
    BY <1>3 DEF WithBucket, new
  <2> HIDE DEF s
  <2> QED
    BY <2>1, <1>3, <1>6 DEF s
<1> HIDE DEF u
<1>8. Index(u) = 0..m /\ Bucket(u, m) = new /\ \A i \in Index(t) : Bucket(u, i) = Bucket(t, i)
  <2>1. Index(u) = 0..m /\ Bucket(u, m) = new
    BY <1>2, <1>5, <1>6 DEF Index, Bucket
  <2>2. ASSUME NEW i \in Index(t)
        PROVE  Bucket(u, i) = Bucket(t, i)
    <3>1. i + 1 \in 1..m
      BY <1>2
    <3> QED
      BY <3>1, <1>5, <1>6 DEF Bucket
  <2> QED
    BY <2>1, <2>2
<1>9. Index(t) \subseteq Index(u) /\ \A i \in Index(u) : i = m \/ i \in Index(t)
  BY <1>2, <1>8
<1>10. IsTable(u)
  <2>1. ASSUME NEW j \in Index(u)
        PROVE  Bucket(u, j).next = 0 \/ Bucket(u, j).next \in (j + 1)..(Len(u.buckets) - 1)
    <3>1. CASE j = m
      BY <3>1, <1>4, <1>8
    <3>2. CASE j # m
      <4>1. j \in Index(t)
        BY <3>2, <1>9
      <4>2. Bucket(t, j).next = 0 \/ Bucket(t, j).next \in (j + 1)..(m - 1)
        BY <4>1, <1>1, NextIn
      <4> QED
        BY <4>1, <4>2, <1>2, <1>5, <1>6, <1>8
    <3> QED
      BY <3>1, <3>2
  <2>2. ASSUME NEW j \in Index(u) \ {0}
        PROVE  Bucket(u, j).move \in Action
    <3>1. CASE j = m
      BY <3>1, <1>4, <1>8
    <3>2. CASE j # m
      BY <3>2, <1>1, <1>8, <1>9 DEF IsTable
    <3> QED
      BY <3>1, <3>2
  <2>3. \A h \in DOMAIN u.hashtable : u.hashtable[h] \in Index(u)
    BY <1>1, <1>5, <1>9 DEF IsTable
  <2>4. Len(u.buckets) >= 1 /\ u.capacity_level \in DOMAIN HASH_PRIMES
    BY <1>1, <1>2, <1>5, <1>6 DEF IsTable
  <2> QED
    BY <1>5, <1>7, <2>1, <2>2, <2>3, <2>4 DEF IsTable
<1>11. LinkedUpTo(t, m - 1)
  BY <1>1, AllLinked
<1>12. LinkedUpTo(u, m - 1)
  <2>1. \A i \in 1..(m - 1) : i \in Index(t)
    BY <1>2
  <2> QED
    BY <2>1, <1>5, <1>8, <1>11 DEF LinkedUpTo
<1>13. ASSUME NEW i \in Index(t) \ {0}
       PROVE  Bucket(t, i).move \in Action /\ Bucket(t, i).context \in Nat
  BY <1>1, <1>2 DEF IsTable, Entry
<1>14. \A x \in Action, d \in Nat : find_or_get_default(u, x, d) = find_or_get_default(t, x, d)
  BY <1>1, <1>5, <1>8, <1>9, <1>10, FindSame
<1>15. FindsUpTo(u, m - 1)
  <2> SUFFICES ASSUME NEW i \in 1..(m - 1)
               PROVE  find_or_get_default(u, Bucket(u, i).move, Bucket(u, i).context) = i
    BY DEF FindsUpTo
  <2>1. i \in Index(t) \ {0}
    BY <1>2
  <2>2. find_or_get_default(t, Bucket(t, i).move, Bucket(t, i).context) = i
    BY <1>1 DEF IsWhole, FindsUpTo
  <2> QED
    BY <2>1, <2>2, <1>8, <1>13, <1>14
<1>16. ASSUME NEW j \in 1..(m - 1)
       PROVE  ~ Equals(u, j, a, c)
  <2> SUFFICES ASSUME Equals(u, j, a, c)
               PROVE  FALSE
    OBVIOUS
  <2>1. j \in Index(t) \ {0}
    BY <1>2
  <2>2. find_or_get_default(t, Bucket(t, j).move, Bucket(t, j).context) = j
    BY <1>1 DEF IsWhole, FindsUpTo
  <2>3. Bucket(t, j).move = a /\ Bucket(t, j).context = c
    BY <2>1, <1>8 DEF Equals
  <2> QED
    BY <2>1, <2>2, <2>3
<1>17. Equals(u, m, a, c)
  BY <1>4, <1>8 DEF Equals
<1>18. Waiting(u, m)
  <2>1. m \in Index(u) \ {0} /\ Bucket(u, m).next = 0 /\ Bucket(u, m).move = a /\ Bucket(u, m).context = c
    BY <1>2, <1>4, <1>8
  <2> QED
    BY <2>1, <1>10, <1>12, <1>15, <1>16 DEF Waiting
<1>19. Extends(t, u) /\ SameCounts(t, u)
  <2>1. m \notin Index(t)
    BY <1>2
  <2> QED
    BY <2>1, <1>2, <1>4, <1>5, <1>6, <1>8, <1>9 DEF Extends, SameCounts
<1> QED
  BY <1>5, <1>6, <1>17, <1>18, <1>19 DEF u

(* A relinked table extends what its buckets were taken from. *)
LEMMA ExtendsSame ==
  ASSUME NEW t, NEW u, NEW w, IsTable(t), Extends(t, u), SameCounts(t, u), SameKeys(u, w), IsTable(u)
  PROVE  Extends(t, w) /\ SameCounts(t, w) /\ Index(w) = Index(u)
<1>1. Index(w) = Index(u) /\ Len(w.buckets) = Len(u.buckets)
  BY DEF SameKeys, Index
<1>2. Index(t) \subseteq Index(u)
  BY SizeIs DEF Extends, Index
<1> QED
  BY <1>1, <1>2 DEF Extends, SameCounts, SameKeys

(* Where a table has no room to grow it is still a record. *)
LEMMA InsertRecord ==
  ASSUME NEW t, IsGood(t), NEW a \in Action, NEW c \in Index(t)
  PROVE  \E l : IsRecord(find_or_insert(t, a, c).table, l)
<1> DEFINE m == Len(t.buckets)
           u == WithBucket(t, a, c)
           v == Link(u, m)
<1>1. IsTable(t) /\ IsRecord(t, t.capacity_level)
  BY DEF IsGood, IsWhole, IsTable, IsRecord
<1>2. CASE find_or_get_default(t, a, c) # 0
  <2>1. find_or_insert(t, a, c).table = t
    BY <1>2 DEF find_or_insert
  <2> QED
    BY <1>1, <2>1
<1>3. CASE find_or_get_default(t, a, c) = 0
  <2>1. Waiting(u, m)
    BY <1>3, WithBucketIs
  <2> HIDE DEF u
  <2>2. IsTable(v)
    BY <2>1, LinkLinks DEF IsLinked
  <2> HIDE DEF v
  <2>3. IsRecord(v, v.capacity_level)
    BY <2>2 DEF IsTable, IsRecord
  <2>4. IsRecord(grow_hashtable(v), v.capacity_level + 1)
    BY <2>2, GrowLevel
  <2>5. find_or_insert(t, a, c).table \in {v, grow_hashtable(v)}
    BY <1>3 DEF find_or_insert, v, u, WithBucket
  <2> QED
    BY <2>3, <2>4, <2>5
<1> QED
  BY <1>2, <1>3

(* find_or_insert returns a bucket that holds the action and its context,  *)
(* in a table that has what it had; it grows by one level or by none.      *)
LEMMA InsertIs ==
  ASSUME NEW t, IsGood(t), NEW a \in Action, NEW c \in Index(t),
         find_or_insert(t, a, c).table.capacity_level \in DOMAIN HASH_PRIMES
  PROVE  LET r == find_or_insert(t, a, c)
         IN /\ IsGood(r.table)
            /\ Extends(t, r.table) /\ SameCounts(t, r.table)
            /\ r.index \in Index(r.table) \ {0} /\ Equals(r.table, r.index, a, c)
            /\ r = [table |-> r.table, index |-> r.index]
<1> DEFINE m == Len(t.buckets)
           found == find_or_get_default(t, a, c)
           u == WithBucket(t, a, c)
           v == Link(u, m)
           full == (m + 1) * HASH_OVERLOAD_FACTOR >= HASH_PRIMES[t.capacity_level]
           w == IF full THEN grow_hashtable(v) ELSE v
           r == find_or_insert(t, a, c)
<1>1. IsTable(t) /\ IsWhole(t)
  BY DEF IsGood, IsWhole
<1>2. m \in Nat /\ m >= 1 /\ Index(t) = 0..(m - 1) /\ c \in Nat
  BY <1>1, SizeIs DEF Index
<1>3. CASE found # 0
  <2>1. r = [table |-> t, index |-> found]
    BY <1>3 DEF find_or_insert
  <2>2. found \in Index(t) \ {0} /\ Equals(t, found, a, c)
    BY <1>1, <1>2, <1>3, FindSound
  <2>3. Extends(t, t) /\ SameCounts(t, t)
    BY <1>2 DEF Extends, SameCounts
  <2> HIDE DEF r, found
  <2> QED
    BY <2>1, <2>2, <2>3 DEF r
<1>4. CASE found = 0
  <2>1. r = [table |-> w, index |-> m]
    BY <1>4 DEF find_or_insert, WithBucket
  <2>2. /\ Len(u.buckets) = m + 1 /\ u.capacity_level = t.capacity_level
        /\ Extends(t, u) /\ SameCounts(t, u)
        /\ Equals(u, m, a, c)
        /\ Waiting(u, m)
    BY <1>4, WithBucketIs
  <2> HIDE DEF u
  <2>3. IsLinked(u, v, m)
    BY <2>2, LinkLinks
  <2>4. IsTable(u) /\ Index(u) = 0..m
    BY <2>2, <1>2 DEF Waiting, Index
  <2> HIDE DEF v
  <2>5. IsTable(v) /\ SameKeys(u, v) /\ v.capacity_level = t.capacity_level /\ IsWhole(v)
    <3>1. Len(v.buckets) - 1 = m
      BY <2>2, <2>3, <1>2 DEF IsLinked, SameKeys
    <3> QED
      BY <3>1, <2>2, <2>3 DEF IsLinked, IsWhole
  <2>6. IsWhole(w) /\ SameKeys(u, w)
    <3>1. CASE ~ full
      BY <3>1, <2>5
    <3>2. CASE full
      <4>1. w = grow_hashtable(v)
        BY <3>2
      <4>2. grow_hashtable(v).capacity_level = t.capacity_level + 1
        BY <2>5, GrowLevel DEF IsRecord
      <4>3. t.capacity_level + 1 \in DOMAIN HASH_PRIMES
        BY <4>1, <4>2, <2>1
      <4>4. IsWhole(grow_hashtable(v)) /\ SameKeys(v, grow_hashtable(v))
        BY <4>3, <2>5, GrowKeeps
      <4>5. SameKeys(u, grow_hashtable(v))
        BY <4>4, <2>5 DEF SameKeys, Index
      <4> QED
        BY <4>1, <4>4, <4>5
    <3> QED
      BY <3>1, <3>2
  <2> HIDE DEF w, full
  <2>7. Extends(t, w) /\ SameCounts(t, w) /\ Index(w) = 0..m
    BY <1>1, <2>2, <2>4, <2>6, ExtendsSame
  <2>8. Equals(w, m, a, c) /\ m \in Index(w) \ {0}
    BY <2>2, <2>4, <2>6, <2>7, <1>2 DEF SameKeys, Equals
  <2>9. ASSUME NEW i \in Index(w) \ {0}
        PROVE  Bucket(w, i).context < i
    <3>1. CASE i = m
      BY <3>1, <2>8, <1>2 DEF Equals
    <3>2. CASE i # m
      <4>1. i \in Index(t) \ {0}
        BY <3>2, <2>7, <1>2
      <4> QED
        BY <4>1, <2>7 DEF IsGood, Extends
    <3> QED
      BY <3>1, <3>2
  <2>10. Bucket(w, 0).weight = 0
    <3>1. 0 \in Index(t) /\ 0 \in Index(w)
      BY <2>7, <1>2
    <3> QED
      BY <3>1, <2>7 DEF SameCounts, IsGood
  <2>11. IsGood(w)
    BY <2>6, <2>9, <2>10 DEF IsGood
  <2> HIDE DEF r
  <2> QED
    BY <2>1, <2>7, <2>8, <2>11 DEF r
<1> QED
  BY <1>3, <1>4

(* The table with a bucket's count raised. *)
WithCount(t, i) == [t EXCEPT !.buckets[i + 1].weight = @ + 1]

(* It changes nothing but the count.                                       *)
LEMMA WithCountIs ==
  ASSUME NEW t, IsGood(t), NEW i \in Index(t) \ {0}
  PROVE  LET u == WithCount(t, i)
         IN /\ IsGood(u) /\ Index(u) = Index(t) /\ Extends(t, u)
            /\ u.capacity_level = t.capacity_level
            /\ \A j \in Index(t) : Bucket(u, j).weight = IF j = i THEN Bucket(t, j).weight + 1
                                                        ELSE Bucket(t, j).weight
<1> DEFINE u == WithCount(t, i)
           n == HASH_PRIMES[t.capacity_level]
           b == t.buckets
           more == [b[i + 1] EXCEPT !.weight = @ + 1]
           c == [b EXCEPT ![i + 1] = more]
<1>1. IsTable(t) /\ IsWhole(t)
  BY DEF IsGood, IsWhole
<1>2. /\ Len(b) \in Nat /\ Len(b) >= 1 /\ b \in Seq(Entry)
      /\ i \in Nat /\ i + 1 \in DOMAIN b /\ 0 \in Index(t)
      /\ \A j \in Index(t) : j \in Nat /\ Bucket(t, j) \in Entry /\ j + 1 \in DOMAIN b
  BY <1>1, SizeIs DEF Index
<1>3. t \in [buckets : Seq(Entry), capacity_level : Nat, hashtable : [0..(n - 1) -> Nat]]
  BY <1>1 DEF IsTable
<1>4. b[i + 1] \in Entry
  BY <1>2
<1>5. more \in Entry
  BY <1>4 DEF Entry
<1>6. /\ more.move = b[i + 1].move /\ more.context = b[i + 1].context
      /\ more.next = b[i + 1].next /\ more.weight = b[i + 1].weight + 1
  BY <1>4 DEF Entry
<1>7. u = [t EXCEPT !.buckets = c]
  BY <1>3 DEF WithCount
<1> HIDE DEF more
<1>8. c \in Seq(Entry) /\ Len(c) = Len(b) /\ c[i + 1] = more /\ \A k \in DOMAIN b : k # i + 1 => c[k] = b[k]
  BY <1>2, <1>5
<1> HIDE DEF c, u
<1>9. /\ u.buckets = c /\ u.capacity_level = t.capacity_level /\ u.hashtable = t.hashtable
      /\ u \in [buckets : Seq(Entry), capacity_level : Nat, hashtable : [0..(n - 1) -> Nat]]
  BY <1>3, <1>7, <1>8
<1>10. Index(u) = Index(t) /\ Len(u.buckets) = Len(t.buckets)
  BY <1>8, <1>9 DEF Index
<1>11. ASSUME NEW j \in Index(t)
       PROVE  /\ Bucket(u, j).move = Bucket(t, j).move
              /\ Bucket(u, j).context = Bucket(t, j).context
              /\ Bucket(u, j).next = Bucket(t, j).next
              /\ Bucket(u, j).weight = IF j = i THEN Bucket(t, j).weight + 1 ELSE Bucket(t, j).weight
  <2>1. CASE j = i
    BY <2>1, <1>6, <1>8, <1>9 DEF Bucket
  <2>2. CASE j # i
    <3>1. j + 1 # i + 1 /\ j + 1 \in DOMAIN b
      BY <2>2, <1>2
    <3> QED
      BY <3>1, <2>2, <1>8, <1>9 DEF Bucket
  <2> QED
    BY <2>1, <2>2
<1>12. IsTable(u)
  BY <1>1, <1>9, <1>10, <1>11 DEF IsTable
<1>13. \A x \in Action, d \in Nat : find_or_get_default(u, x, d) = find_or_get_default(t, x, d)
  BY <1>1, <1>9, <1>10, <1>11, <1>12, FindSame
<1>14. FindsUpTo(u, Len(u.buckets) - 1)
  <2> SUFFICES ASSUME NEW j \in 1..(Len(t.buckets) - 1)
               PROVE  find_or_get_default(u, Bucket(u, j).move, Bucket(u, j).context) = j
    BY <1>10 DEF FindsUpTo
  <2>1. j \in Index(t) \ {0}
    BY <1>2 DEF Index
  <2>2. Bucket(t, j).move \in Action /\ Bucket(t, j).context \in Nat
    BY <2>1, <1>1, <1>2 DEF IsTable, Entry
  <2>3. find_or_get_default(t, Bucket(t, j).move, Bucket(t, j).context) = j
    BY <1>1 DEF IsWhole, FindsUpTo
  <2> QED
    BY <2>1, <2>2, <2>3, <1>11, <1>13
<1>15. IsGood(u)
  <2>1. \A j \in Index(u) \ {0} : Bucket(u, j).context < j
    BY <1>10, <1>11 DEF IsGood
  <2>2. Bucket(u, 0).weight = 0
    BY <1>2, <1>11 DEF IsGood
  <2> QED
    BY <2>1, <2>2, <1>12, <1>14 DEF IsGood, IsWhole
<1>16. Extends(t, u)
  BY <1>2, <1>10, <1>11 DEF Extends
<1> QED
  BY <1>9, <1>10, <1>11, <1>15, <1>16 DEF u

(* insert_or_update finds or inserts the action and raises its count. *)
LEMMA UpdateIs ==
  ASSUME NEW t, IsGood(t), NEW a \in Action, NEW c \in Index(t),
         insert_or_update(t, a, c).table.capacity_level \in DOMAIN HASH_PRIMES
  PROVE  LET r == insert_or_update(t, a, c)
         IN /\ IsGood(r.table) /\ Extends(t, r.table)
            /\ r.index \in Index(r.table) \ {0} /\ Equals(r.table, r.index, a, c)
            /\ \A i \in Index(r.table) :
                 Bucket(r.table, i).weight = (IF i \in Index(t) THEN Bucket(t, i).weight ELSE 0)
                                               + (IF i = r.index THEN 1 ELSE 0)
<1> DEFINE q == find_or_insert(t, a, c)
           u == WithCount(q.table, q.index)
           r == insert_or_update(t, a, c)
<1>1. \E x, y : q = [table |-> x, index |-> y]
  BY DEF find_or_insert
<1>2. r = [table |-> u, index |-> q.index]
  <2>1. r = [q EXCEPT !.table.buckets[q.index + 1].weight = @ + 1]
    BY DEF insert_or_update
  <2> HIDE DEF q
  <2> QED
    BY <1>1, <2>1 DEF WithCount
<1> HIDE DEF r
<1>3. u.capacity_level = q.table.capacity_level
  <2>1. PICK l : IsRecord(q.table, l)
    BY InsertRecord
  <2> HIDE DEF q
  <2>2. PICK b, h : q.table = [buckets |-> b, capacity_level |-> l, hashtable |-> h]
    BY <2>1 DEF IsRecord
  <2>3. u = [buckets |-> [b EXCEPT ![q.index + 1].weight = @ + 1], capacity_level |-> l, hashtable |-> h]
    BY <2>2 DEF WithCount
  <2> QED
    BY <2>2, <2>3
<1>4. q.table.capacity_level \in DOMAIN HASH_PRIMES
  BY <1>2, <1>3 DEF r
<1>5. /\ IsGood(q.table) /\ Extends(t, q.table) /\ SameCounts(t, q.table)
      /\ q.index \in Index(q.table) \ {0} /\ Equals(q.table, q.index, a, c)
  BY <1>4, InsertIs
<1> HIDE DEF q
<1>6. /\ IsGood(u) /\ Index(u) = Index(q.table) /\ Extends(q.table, u)
      /\ \A j \in Index(q.table) : Bucket(u, j).weight = IF j = q.index THEN Bucket(q.table, j).weight + 1
                                                        ELSE Bucket(q.table, j).weight
  BY <1>5, WithCountIs
<1> HIDE DEF u
<1>7. IsTable(t) /\ IsTable(q.table)
  BY <1>5 DEF IsGood, IsWhole
<1>8. Index(t) \subseteq Index(q.table)
  BY <1>5, <1>7, SizeIs DEF Extends, Index
<1>9. Extends(t, u)
  <2>1. Len(t.buckets) <= Len(u.buckets)
    BY <1>5, <1>6, <1>7, SizeIs DEF Extends, IsGood, IsWhole
  <2> QED
    BY <2>1, <1>5, <1>6, <1>8 DEF Extends
<1>10. Equals(u, q.index, a, c)
  BY <1>5, <1>6 DEF Extends, Equals
<1>11. ASSUME NEW i \in Index(u)
       PROVE  Bucket(u, i).weight = (IF i \in Index(t) THEN Bucket(t, i).weight ELSE 0)
                                       + (IF i = q.index THEN 1 ELSE 0)
  <2>1. Bucket(q.table, i).weight = IF i \in Index(t) THEN Bucket(t, i).weight ELSE 0
    BY <1>5, <1>6 DEF SameCounts
  <2>2. Bucket(q.table, i).weight \in Nat
    BY <1>6, <1>7, SizeIs DEF Entry
  <2> QED
    BY <2>1, <2>2, <1>6
<1> QED
  BY <1>2, <1>5, <1>6, <1>9, <1>10, <1>11 DEF r

-----------------------------------------------------------------------------
(* What the buckets stand for.                                             *)

NameStep(t, n, f) ==
  f = [j \in 0..n |-> IF j = 0 THEN <<>> ELSE Append(f[Bucket(t, j).context], Bucket(t, j).move)]
Names(t) == CHOOSE f : NameStep(t, Len(t.buckets) - 1, f)

(* A name is told by the names of older buckets.                           *)
LEMMA NamedIs ==
  ASSUME NEW t, NEW i
  PROVE  Named(t, i) = Names(t)[i]
BY Zenon DEF Named, Names, NameStep

(* Contexts are older than their buckets, so names can be told. *)
LEMMA NamesExist ==
  ASSUME NEW t, IsGood(t)
  PROVE  NameStep(t, Len(t.buckets) - 1, Names(t))
<1> DEFINE m == Len(t.buckets) - 1
           S == {n \in Nat : n <= m => \E f : NameStep(t, n, f)}
<1>1. m \in Nat /\ Index(t) = 0..m
  BY SizeIs DEF IsGood, IsWhole, Index
<1>2. 0 \in S
  <2>1. NameStep(t, 0, [j \in 0..0 |-> <<>>])
    BY DEF NameStep
  <2> QED
    BY <2>1
<1>3. ASSUME NEW n \in Nat, n \in S
      PROVE  n + 1 \in S
  <2> SUFFICES ASSUME n + 1 <= m
               PROVE  \E f : NameStep(t, n + 1, f)
    OBVIOUS
  <2>1. PICK f : NameStep(t, n, f)
    BY <1>1, <1>3
  <2> DEFINE last == Append(f[Bucket(t, n + 1).context], Bucket(t, n + 1).move)
             g == [j \in 0..(n + 1) |-> IF j = n + 1 THEN last ELSE f[j]]
  <2>2. g[n + 1] = last /\ \A j \in 0..n : g[j] = f[j]
    OBVIOUS
  <2>3. g = [j \in 0..(n + 1) |-> g[j]]
    OBVIOUS
  <2> HIDE DEF g
  <2>4. ASSUME NEW j \in 0..(n + 1)
        PROVE  g[j] = IF j = 0 THEN <<>> ELSE Append(g[Bucket(t, j).context], Bucket(t, j).move)
    <3>1. j \in Index(t)
      BY <1>1
    <3>2. j # 0 => Bucket(t, j).context \in 0..(j - 1)
      <4>1. Bucket(t, j) \in Entry
        BY <3>1, SizeIs DEF IsGood, IsWhole
      <4>2. j # 0 => Bucket(t, j).context < j
        BY <3>1 DEF IsGood
      <4> QED
        BY <4>1, <4>2 DEF Entry
    <3>3. j # 0 => Bucket(t, j).context \in 0..n
      BY <3>2
    <3>4. CASE j = n + 1
      BY <3>3, <3>4, <2>2
    <3>5. CASE j # n + 1
      <4>1. j \in 0..n
        BY <3>5
      <4>2. f[j] = IF j = 0 THEN <<>> ELSE Append(f[Bucket(t, j).context], Bucket(t, j).move)
        BY <4>1, <2>1 DEF NameStep
      <4> QED
        BY <4>1, <4>2, <3>3, <2>2
    <3> QED
      BY <3>4, <3>5
  <2>5. NameStep(t, n + 1, g)
    BY <2>3, <2>4 DEF NameStep
  <2> QED
    BY <2>5
<1> HIDE DEF S
<1>4. m \in S
  BY <1>1, <1>2, <1>3, SetInduction
<1>5. \E f : NameStep(t, m, f)
  BY <1>1, <1>4 DEF S
<1> QED
  BY <1>5 DEF Names

(* What a bucket stands for: the actions of its context and its own. *)
LEMMA NamedStepIs ==
  ASSUME NEW t, IsGood(t), NEW i \in Index(t)
  PROVE  Named(t, i) = IF i = 0 THEN <<>> ELSE Append(Named(t, Bucket(t, i).context), Bucket(t, i).move)
<1> DEFINE f == Names(t)
           m == Len(t.buckets) - 1
<1>1. NameStep(t, m, f)
  BY NamesExist
<1>2. i \in 0..m
  BY DEF Index
<1> HIDE DEF f, m
<1>3. f[i] = IF i = 0 THEN <<>> ELSE Append(f[Bucket(t, i).context], Bucket(t, i).move)
  BY <1>1, <1>2 DEF NameStep
<1>4. Named(t, i) = f[i] /\ Named(t, Bucket(t, i).context) = f[Bucket(t, i).context]
  BY NamedIs DEF f
<1> QED
  BY <1>3, <1>4

(* The contexts and moves of a good table. *)
LEMMA KeysIn ==
  ASSUME NEW t, IsGood(t), NEW i \in Index(t) \ {0}
  PROVE  /\ i \in Nat /\ i >= 1
         /\ Bucket(t, i).move \in Action
         /\ Bucket(t, i).context \in Index(t) /\ Bucket(t, i).context \in 0..(i - 1)
<1>1. IsTable(t)
  BY DEF IsGood, IsWhole
<1>2. Bucket(t, i) \in Entry /\ Len(t.buckets) \in Nat
  BY <1>1, SizeIs
<1>3. Bucket(t, i).context \in Nat /\ Bucket(t, i).context < i
  BY <1>2 DEF IsGood, Entry
<1>4. i \in Nat /\ i <= Len(t.buckets) - 1
  BY <1>2 DEF Index
<1> QED
  BY <1>1, <1>3, <1>4 DEF Index, IsTable

(* Names are sequences of actions, and only bucket 0 has the empty one. *)
LEMMA NamedSeq ==
  ASSUME NEW t, IsGood(t)
  PROVE  \A i \in Index(t) : Named(t, i) \in Seq(Action) /\ (Named(t, i) = <<>> <=> i = 0)
<1> DEFINE S == {i \in Nat : i \in Index(t) => Named(t, i) \in Seq(Action) /\ (Named(t, i) = <<>> <=> i = 0)}
<1>1. ASSUME NEW i \in Nat, \A j \in 0..(i - 1) : j \in S
      PROVE  i \in S
  <2> SUFFICES ASSUME i \in Index(t)
               PROVE  Named(t, i) \in Seq(Action) /\ (Named(t, i) = <<>> <=> i = 0)
    OBVIOUS
  <2>1. CASE i = 0
    <3>1. Named(t, i) = <<>>
      BY <2>1, NamedStepIs
    <3>2. <<>> \in Seq(Action)
      OBVIOUS
    <3> QED
      BY <2>1, <3>1, <3>2
  <2>2. CASE i # 0
    <3>1. /\ Bucket(t, i).move \in Action
          /\ Bucket(t, i).context \in Index(t) /\ Bucket(t, i).context \in 0..(i - 1)
      BY <2>2, KeysIn
    <3>2. Named(t, Bucket(t, i).context) \in Seq(Action)
      BY <3>1, <1>1
    <3>3. Named(t, i) = Append(Named(t, Bucket(t, i).context), Bucket(t, i).move)
      BY <2>2, NamedStepIs
    <3> QED
      BY <3>1, <3>2, <3>3, <2>2
  <2> QED
    BY <2>1, <2>2
<1> HIDE DEF S
<1>2. \A i \in Nat : i \in S
  BY <1>1, StrongInduction
<1>3. Index(t) \subseteq Nat
  BY SizeIs DEF IsGood, IsWhole
<1> QED
  BY <1>2, <1>3 DEF S

(* A table that is extended keeps its names. *)
LEMMA NamedKept ==
  ASSUME NEW t, NEW u, IsGood(t), IsGood(u), Extends(t, u)
  PROVE  Index(t) \subseteq Index(u) /\ \A i \in Index(t) : Named(u, i) = Named(t, i)
<1> DEFINE S == {i \in Nat : i \in Index(t) => Named(u, i) = Named(t, i)}
<1>1. Index(t) \subseteq Index(u) /\ Index(t) \subseteq Nat
  BY SizeIs DEF IsGood, IsWhole, Extends, Index
<1>2. ASSUME NEW i \in Nat, \A j \in 0..(i - 1) : j \in S
      PROVE  i \in S
  <2> SUFFICES ASSUME i \in Index(t)
               PROVE  Named(u, i) = Named(t, i)
    OBVIOUS
  <2>1. /\ Named(t, i) = IF i = 0 THEN <<>> ELSE Append(Named(t, Bucket(t, i).context), Bucket(t, i).move)
        /\ Named(u, i) = IF i = 0 THEN <<>> ELSE Append(Named(u, Bucket(u, i).context), Bucket(u, i).move)
    BY <1>1, NamedStepIs
  <2>2. Bucket(u, i).move = Bucket(t, i).move /\ Bucket(u, i).context = Bucket(t, i).context
    BY DEF Extends
  <2>3. i # 0 => Bucket(t, i).context \in Index(t) /\ Bucket(t, i).context \in 0..(i - 1)
    BY KeysIn
  <2>4. i # 0 => Named(u, Bucket(t, i).context) = Named(t, Bucket(t, i).context)
    BY <2>3, <1>2
  <2> QED
    BY <2>1, <2>2, <2>4
<1> HIDE DEF S
<1>3. \A i \in Nat : i \in S
  BY <1>2, StrongInduction
<1> QED
  BY <1>1, <1>3 DEF S

(* Sequences tell what was appended to what. *)
LEMMA AppendSame ==
  ASSUME NEW x \in Seq(Action), NEW y \in Seq(Action), NEW a \in Action, NEW b \in Action,
         Append(x, a) = Append(y, b)
  PROVE  x = y /\ a = b
<1>1. Len(x) = Len(y)
  OBVIOUS
<1>2. a = Append(x, a)[Len(x) + 1] /\ b = Append(y, b)[Len(y) + 1]
  OBVIOUS
<1>3. \A k \in 1..Len(x) : x[k] = Append(x, a)[k] /\ y[k] = Append(y, b)[k]
  BY <1>1
<1> QED
  BY <1>1, <1>2, <1>3

(* No two buckets stand for the same actions. *)
LEMMA NamesDiffer ==
  ASSUME NEW t, IsGood(t)
  PROVE  \A i, j \in Index(t) : Named(t, i) = Named(t, j) => i = j
<1> DEFINE S == {i \in Nat : i \in Index(t) => \A j \in Index(t) : Named(t, i) = Named(t, j) => i = j}
<1>1. ASSUME NEW i \in Nat, \A k \in 0..(i - 1) : k \in S
      PROVE  i \in S
  <2> SUFFICES ASSUME i \in Index(t), NEW j \in Index(t), Named(t, i) = Named(t, j)
               PROVE  i = j
    OBVIOUS
  <2>1. i = 0 <=> j = 0
    BY NamedSeq
  <2>2. CASE i = 0
    BY <2>1, <2>2
  <2>3. CASE i # 0
    <3> DEFINE p == Bucket(t, i).context
               q == Bucket(t, j).context
    <3>1. j # 0
      BY <2>1, <2>3
    <3>2. p \in Index(t) /\ p \in 0..(i - 1) /\ q \in Index(t)
      BY <2>3, <3>1, KeysIn
    <3>3. /\ Named(t, i) = Append(Named(t, p), Bucket(t, i).move)
          /\ Named(t, j) = Append(Named(t, q), Bucket(t, j).move)
      BY <2>3, <3>1, NamedStepIs
    <3>4. Named(t, p) \in Seq(Action) /\ Named(t, q) \in Seq(Action)
      BY <3>2, NamedSeq
    <3>5. Bucket(t, i).move \in Action /\ Bucket(t, j).move \in Action
      BY <2>3, <3>1, KeysIn
    <3> HIDE DEF p, q
    <3>6. Append(Named(t, p), Bucket(t, i).move) = Append(Named(t, q), Bucket(t, j).move)
      BY <3>3
    <3>7. Named(t, p) = Named(t, q) /\ Bucket(t, i).move = Bucket(t, j).move
      BY <3>4, <3>5, <3>6, AppendSame
    <3>8. p = q
      BY <3>2, <3>7, <1>1
    <3>9. Equals(t, j, Bucket(t, i).move, Bucket(t, i).context)
      BY <3>7, <3>8 DEF Equals, p, q
    <3> QED
      BY <2>3, <3>1, <3>9, BucketsDiffer DEF IsGood
  <2> QED
    BY <2>2, <2>3
<1> HIDE DEF S
<1>2. \A i \in Nat : i \in S
  BY <1>1, StrongInduction
<1>3. Index(t) \subseteq Nat
  BY SizeIs DEF IsGood, IsWhole
<1> QED
  BY <1>2, <1>3 DEF S

-----------------------------------------------------------------------------
(* Following the contexts of actions in a row.                             *)

AtStep(t, s, n, f) ==
  f = [k \in 0..n |-> IF k = 0 \/ (k > 1 /\ f[k - 1] = 0) THEN 0
                      ELSE find_or_get_default(t, s[k], f[k - 1])]
At(t, s) == CHOOSE f : AtStep(t, s, Len(s), f)

(* BucketOf goes from context to context,                                  *)
LEMMA BucketOfIs ==
  ASSUME NEW t, NEW s
  PROVE  BucketOf(t, s) = At(t, s)[Len(s)]
BY Zenon DEF BucketOf, At, AtStep

(* and there is where it goes.                                             *)
LEMMA AtExists ==
  ASSUME NEW t, NEW s
  PROVE  \A n \in Nat : \E f : AtStep(t, s, n, f)
<1> DEFINE S == {n \in Nat : \E f : AtStep(t, s, n, f)}
<1>1. 0 \in S
  <2>1. AtStep(t, s, 0, [k \in 0..0 |-> 0])
    BY DEF AtStep
  <2> QED
    BY <2>1
<1>2. ASSUME NEW n \in Nat, n \in S
      PROVE  n + 1 \in S
  <2>1. PICK f : AtStep(t, s, n, f)
    BY <1>2
  <2> DEFINE last == IF n + 1 > 1 /\ f[n] = 0 THEN 0 ELSE find_or_get_default(t, s[n + 1], f[n])
             g == [k \in 0..(n + 1) |-> IF k = n + 1 THEN last ELSE f[k]]
  <2>2. g[n + 1] = last /\ \A k \in 0..n : g[k] = f[k]
    OBVIOUS
  <2>3. g = [k \in 0..(n + 1) |-> g[k]]
    OBVIOUS
  <2> HIDE DEF g
  <2>4. ASSUME NEW k \in 0..(n + 1)
        PROVE  g[k] = IF k = 0 \/ (k > 1 /\ g[k - 1] = 0) THEN 0
                      ELSE find_or_get_default(t, s[k], g[k - 1])
    <3>1. CASE k = n + 1
      <4>1. g[k - 1] = f[n] /\ k # 0
        BY <3>1, <2>2
      <4> QED
        BY <4>1, <3>1, <2>2
    <3>2. CASE k # n + 1
      <4>1. k \in 0..n /\ (k # 0 => k - 1 \in 0..n)
        BY <3>2
      <4>2. f[k] = IF k = 0 \/ (k > 1 /\ f[k - 1] = 0) THEN 0
                   ELSE find_or_get_default(t, s[k], f[k - 1])
        BY <4>1, <2>1 DEF AtStep
      <4>3. g[k] = f[k] /\ (k # 0 => g[k - 1] = f[k - 1])
        BY <4>1, <2>2
      <4> QED
        BY <4>2, <4>3
    <3> QED
      BY <3>1, <3>2
  <2>5. AtStep(t, s, n + 1, g)
    BY <2>3, <2>4 DEF AtStep
  <2> QED
    BY <2>5
<1> HIDE DEF S
<1>3. \A n \in Nat : n \in S
  BY <1>1, <1>2, SetInduction
<1> QED
  BY <1>3 DEF S

(* Bucket i stands for the first k actions of s, or 0 says that none does. *)
StandsFor(t, s, k, i) ==
  /\ i \in Index(t)
  /\ i # 0 => Named(t, i) = SubSeq(s, 1, k)
  /\ i = 0 => \A j \in Index(t) \ {0} : Named(t, j) # SubSeq(s, 1, k)

(* One look-up more follows one action more. *)
LEMMA LookupGoesOn ==
  ASSUME NEW t, IsGood(t), NEW s \in Seq(Action), NEW k \in 1..Len(s), NEW c \in Index(t),
         Named(t, c) = SubSeq(s, 1, k - 1)
  PROVE  StandsFor(t, s, k, find_or_get_default(t, s[k], c))
<1> DEFINE r == find_or_get_default(t, s[k], c)
           p == SubSeq(s, 1, k - 1)
<1>1. IsTable(t) /\ IsWhole(t) /\ Index(t) \subseteq Nat
  BY SizeIs DEF IsGood, IsWhole
<1>2. s[k] \in Action /\ p \in Seq(Action) /\ SubSeq(s, 1, k) = Append(p, s[k])
  OBVIOUS
<1>3. r \in Index(t) /\ (r # 0 => Equals(t, r, s[k], c))
  BY <1>1, <1>2, FindSound
<1>4. r = 0 => \A j \in Index(t) \ {0} : ~ Equals(t, j, s[k], c)
  <2> SUFFICES ASSUME NEW j \in Index(t) \ {0}, Equals(t, j, s[k], c)
               PROVE  r = j
    OBVIOUS
  <2>1. j \in 1..(Len(t.buckets) - 1)
    BY <1>1, SizeIs DEF Index
  <2>2. find_or_get_default(t, Bucket(t, j).move, Bucket(t, j).context) = j
    BY <2>1, <1>1 DEF IsWhole, FindsUpTo
  <2> QED
    BY <2>2 DEF Equals
<1> HIDE DEF r, p
<1>5. r # 0 => Named(t, r) = SubSeq(s, 1, k)
  <2> SUFFICES ASSUME r # 0
               PROVE  Named(t, r) = SubSeq(s, 1, k)
    OBVIOUS
  <2>1. Named(t, r) = Append(Named(t, Bucket(t, r).context), Bucket(t, r).move)
    BY <1>3, NamedStepIs
  <2>2. Bucket(t, r).context = c /\ Bucket(t, r).move = s[k]
    BY <1>3 DEF Equals
  <2> QED
    BY <2>1, <2>2, <1>2 DEF p
<1>6. ASSUME r = 0, NEW j \in Index(t) \ {0}
      PROVE  Named(t, j) # SubSeq(s, 1, k)
  <2> SUFFICES ASSUME Named(t, j) = SubSeq(s, 1, k)
               PROVE  FALSE
    OBVIOUS
  <2> DEFINE q == Bucket(t, j).context
             x == Named(t, q)
  <2>1. q \in Index(t) /\ Bucket(t, j).move \in Action
    BY KeysIn
  <2>2. Named(t, j) = Append(x, Bucket(t, j).move)
    BY NamedStepIs
  <2>3. x \in Seq(Action)
    BY <2>1, NamedSeq
  <2> HIDE DEF x
  <2>4. Append(x, Bucket(t, j).move) = Append(p, s[k])
    BY <2>2, <1>2
  <2>5. x = p /\ Bucket(t, j).move = s[k]
    BY <2>1, <2>3, <2>4, <1>2, AppendSame
  <2>6. q = c
    BY <2>1, <2>5, NamesDiffer DEF p, x
  <2> QED
    BY <2>5, <2>6, <1>4, <1>6 DEF Equals
<1> QED
  BY <1>3, <1>5, <1>6 DEF StandsFor, r

(* BucketOf finds the bucket that stands for a sequence if there is one.   *)
LEMMA BucketOfFinds ==
  ASSUME NEW t, IsGood(t), NEW s \in Seq(Action), s # <<>>
  PROVE  StandsFor(t, s, Len(s), BucketOf(t, s))
<1> DEFINE n == Len(s)
           f == At(t, s)
           S == {k \in Nat : k \in 1..n => StandsFor(t, s, k, f[k])}
<1>1. n \in Nat /\ n >= 1 /\ 0 \in Index(t)
  BY SizeIs DEF IsGood, IsWhole
<1>2. AtStep(t, s, n, f)
  <2>1. \E g : AtStep(t, s, n, g)
    BY <1>1, AtExists
  <2> QED
    BY <2>1 DEF At
<1> HIDE DEF f
<1>3. \A k \in 0..n : f[k] = IF k = 0 \/ (k > 1 /\ f[k - 1] = 0) THEN 0
                             ELSE find_or_get_default(t, s[k], f[k - 1])
  BY <1>2 DEF AtStep
<1>4. Named(t, 0) = <<>>
  BY <1>1, NamedStepIs
<1>5. ASSUME NEW k \in Nat, k \in S
      PROVE  k + 1 \in S
  <2> SUFFICES ASSUME k + 1 \in 1..n
               PROVE  StandsFor(t, s, k + 1, f[k + 1])
    OBVIOUS
  <2>1. (k + 1) - 1 = k /\ k + 1 \in 0..n /\ k \in 0..n
    OBVIOUS
  <2>2. CASE k = 0
    <3>1. f[0] = 0
      BY <1>1, <1>3
    <3>2. f[k + 1] = find_or_get_default(t, s[k + 1], 0)
      BY <2>1, <2>2, <3>1, <1>3
    <3>3. Named(t, 0) = SubSeq(s, 1, (k + 1) - 1)
      <4>1. SubSeq(s, 1, 0) = <<>>
        OBVIOUS
      <4>2. (k + 1) - 1 = 0
        BY <2>2
      <4> QED
        BY Zenon, <4>1, <4>2, <1>4
    <3> QED
      BY <3>2, <3>3, <1>1, LookupGoesOn
  <2>3. CASE k # 0 /\ f[k] # 0
    <3>1. f[k + 1] = find_or_get_default(t, s[k + 1], f[k])
      BY <2>1, <2>3, <1>3
    <3>2. f[k] \in Index(t) /\ Named(t, f[k]) = SubSeq(s, 1, (k + 1) - 1)
      BY <2>1, <2>3, <1>5 DEF StandsFor
    <3> QED
      BY <3>1, <3>2, LookupGoesOn
  <2>4. CASE k # 0 /\ f[k] = 0
    <3>1. f[k + 1] = 0
      BY <2>1, <2>4, <1>3
    <3>2. \A j \in Index(t) \ {0} : Named(t, j) # SubSeq(s, 1, k)
      BY <2>1, <2>4, <1>5 DEF StandsFor
    <3>3. ASSUME NEW j \in Index(t) \ {0}
          PROVE  Named(t, j) # SubSeq(s, 1, k + 1)
      <4> SUFFICES ASSUME Named(t, j) = SubSeq(s, 1, k + 1)
                   PROVE  FALSE
        OBVIOUS
      <4> DEFINE x == Named(t, Bucket(t, j).context)
                 p == SubSeq(s, 1, k)
      <4>1. Bucket(t, j).context \in Index(t) /\ Bucket(t, j).move \in Action
        BY KeysIn
      <4>2. Named(t, j) = Append(x, Bucket(t, j).move) /\ x \in Seq(Action)
        BY <4>1, NamedStepIs, NamedSeq
      <4>3. SubSeq(s, 1, k + 1) = Append(p, s[k + 1]) /\ p \in Seq(Action) /\ s[k + 1] \in Action /\ p # <<>>
        BY <2>1, <2>4
      <4> HIDE DEF p, x
      <4>4. Append(x, Bucket(t, j).move) = Append(p, s[k + 1])
        BY <4>2, <4>3
      <4>5. x = p
        BY <4>1, <4>2, <4>3, <4>4, AppendSame
      <4>6. Bucket(t, j).context # 0
        BY <4>3, <4>5, <1>4 DEF x
      <4> QED
        BY <4>1, <4>5, <4>6, <3>2 DEF x, p
    <3> QED
      BY <3>1, <3>3, <1>1 DEF StandsFor
  <2> QED
    BY <2>2, <2>3, <2>4
<1>6. 0 \in S
  OBVIOUS
<1> HIDE DEF S
<1>7. n \in S
  BY <1>1, <1>5, <1>6, SetInduction
<1> QED
  BY <1>1, <1>7, BucketOfIs DEF S, f

-----------------------------------------------------------------------------
(* The actions of a turn without dots.                                     *)

Kept(a) == IF a \in Dot THEN <<>> ELSE <<a>>
KeptOnes(s) == [i \in DOMAIN s |-> Kept(s[i])]

(* What is written of a sequence of actions is one, *)
LEMMA WrittenSeq ==
  ASSUME NEW s \in Seq(Action)
  PROVE  KeptOnes(s) \in Seq(Seq(Action)) /\ Written(s) = FlattenSeq(KeptOnes(s)) /\ Written(s) \in Seq(Action)
<1>1. \A i \in DOMAIN s : Kept(s[i]) \in Seq(Action)
  BY DEF Kept
<1>2. KeptOnes(s) \in Seq(Seq(Action))
  BY <1>1 DEF KeptOnes
<1>3. Written(s) = FlattenSeq(KeptOnes(s))
  BY DEF Written, KeptOnes, Kept
<1>4. FlattenSeq(KeptOnes(s)) \in Seq(Action)
  BY <1>2, FlattenWhole
<1> QED
  BY <1>2, <1>3, <1>4

(* nothing of nothing, *)
LEMMA WrittenEmpty ==
  Written(<<>>) = <<>>
<1>1. <<>> \in Seq(Action)
  OBVIOUS
<1>2. KeptOnes(<<>>) = <<>>
  BY DEF KeptOnes
<1> QED
  BY <1>1, <1>2, WrittenSeq, FlattenEmpty

(* and an action more where it is no dot. *)
LEMMA WrittenAppend ==
  ASSUME NEW s \in Seq(Action), NEW a \in Action
  PROVE  Written(Append(s, a)) = IF a \in Dot THEN Written(s) ELSE Append(Written(s), a)
<1>1. Append(s, a) \in Seq(Action)
  OBVIOUS
<1>2. Kept(a) \in Seq(Action)
  BY DEF Kept
<1>3. KeptOnes(Append(s, a)) = Append(KeptOnes(s), Kept(a))
  BY DEF KeptOnes
<1>4. KeptOnes(s) \in Seq(Seq(Action)) /\ Written(s) = FlattenSeq(KeptOnes(s)) /\ Written(s) \in Seq(Action)
  BY WrittenSeq
<1>5. Written(Append(s, a)) = FlattenSeq(KeptOnes(Append(s, a)))
  BY <1>1, WrittenSeq
<1>6. FlattenSeq(Append(KeptOnes(s), Kept(a))) = FlattenSeq(KeptOnes(s)) \o Kept(a)
  BY <1>2, <1>4, FlattenAppend
<1>7. Written(Append(s, a)) = Written(s) \o Kept(a)
  BY <1>3, <1>4, <1>5, <1>6
<1>8. CASE a \in Dot
  BY <1>4, <1>7, <1>8 DEF Kept
<1>9. CASE a \notin Dot
  BY <1>4, <1>7, <1>9 DEF Kept
<1> QED
  BY <1>8, <1>9

(* A new table is good. *)
LEMMA FreshIsGood ==
  IsGood(FreshTable)
<1> DEFINE t == FreshTable
           n == HASH_PRIMES[HASHMAP_INITIAL_LEVEL]
<1>1. HASHMAP_INITIAL_LEVEL \in DOMAIN HASH_PRIMES /\ HASHMAP_INITIAL_LEVEL \in Nat /\ n \in Nat /\ n >= 1
  BY PlayoutAssumption
<1>2. NewBucket(CHOOSE a \in Action : TRUE, 0) \in Entry
  BY DEF NewBucket, Entry, AnyMove
<1>3. t.buckets \in Seq(Entry) /\ Len(t.buckets) = 1
  BY <1>2 DEF FreshTable
<1>4. t.hashtable = [h \in 0..(n - 1) |-> 0]
  BY DEF FreshTable, EmptySlots
<1>5. t.capacity_level = HASHMAP_INITIAL_LEVEL
  BY DEF FreshTable
<1>6. t = [buckets |-> t.buckets, capacity_level |-> t.capacity_level, hashtable |-> t.hashtable]
  BY DEF FreshTable
<1>7. Index(t) = {0} /\ Bucket(t, 0).next = 0 /\ Bucket(t, 0).weight = 0
  BY <1>3 DEF Index, Bucket, FreshTable, NewBucket
<1>8. IsTable(t)
  <2>1. t \in [buckets : Seq(Entry), capacity_level : Nat, hashtable : [0..(n - 1) -> Nat]]
    BY <1>1, <1>3, <1>4, <1>5, <1>6
  <2>2. \A h \in DOMAIN t.hashtable : t.hashtable[h] \in Index(t)
    BY <1>4, <1>7
  <2> QED
    BY <1>1, <1>3, <1>5, <1>7, <2>1, <2>2 DEF IsTable
<1>9. IsWhole(t)
  <2>1. 1..(Len(t.buckets) - 1) = {}
    BY <1>3
  <2> QED
    BY <1>8, <2>1 DEF IsWhole, FindsUpTo
<1> QED
  BY <1>7, <1>9 DEF IsGood
-----------------------------------------------------------------------------
(* The inductive invariant.                                                *)

AllGood(tables) ==
  /\ tables = [p \in Player |-> tables[p]]
  /\ \A p \in Player : IsGood(tables[p])

Step == [action : Action, player : Player]

Types ==
  /\ context \in Nat /\ context_stack \in Seq(Nat)
  /\ path \in Seq(Step)
  /\ state \in State /\ reverters \in Seq(State)
  /\ turn \in Seq(Action)
  /\ legal_actions \in Seq(SUBSET Seq(Action))
  /\ pc \in {"idle", "play", "update"}

(* What is as deep as the turn is long. *)
Depths ==
  /\ Len(context_stack) = Len(turn) /\ Len(reverters) = Len(turn)
  /\ pc = "play" => Len(legal_actions) = Len(turn) + 1
  /\ pc # "play" => turn = <<>> /\ context = 0
  /\ pc = "idle" => path = <<>>

(* The state at depth d of the turn. *)
Here(d) == Append(reverters, state)[d]

(* At every depth the same player has the choice of actions of its state. *)
Options ==
  pc = "play" =>
    /\ Mover[state] \in Player
    /\ \A d \in 1..(Len(turn) + 1) : /\ legal_actions[d] \subseteq Semimoves[Here(d)]
                                     /\ Mover[Here(d)] = Mover[state]

(* The path ends with the turn. *)
PathEnds ==
  /\ \A j \in 1..Len(turn) : turn[j] \notin Switch
  /\ Len(turn) <= Len(path)
  /\ \A j \in 1..Len(turn) :
       path[Len(path) - Len(turn) + j] = [action |-> turn[j], player |-> Mover[state]]
  /\ Len(path) > Len(turn) => path[Len(path) - Len(turn)].action \in Switch

(* A turn has one player. *)
OnePlayer ==
  \A i \in 1..(Len(path) - 1) : path[i].action \notin Switch => path[i + 1].player = path[i].player

Seen == Append(context_stack, context)

(* The contexts of the turn stand for its beginnings. *)
Contexts ==
  pc = "play" =>
    \A k \in 1..(Len(turn) + 1) :
      /\ Seen[k] \in Index(moves[Mover[state]])
      /\ Named(moves[Mover[state]], Seen[k]) = Written(SubSeq(turn, 1, k - 1))

Playing == Types /\ Depths /\ Options /\ PathEnds /\ OnePlayer
InContext == AllGood(moves) /\ Playing /\ Contexts

(* What a semimove is here: one action. *)
LEMMA SemimoveIs ==
  ASSUME NEW s \in State, NEW e \in Semimoves[s]
  PROVE  /\ e \in Seq(Action) /\ Len(e) = 1 /\ e = <<e[1]>> /\ e[1] \in Action
         /\ Successor[s][e] \in State
         /\ Mover[s] \in Player
         /\ Successor[s][e] \in Nodal <=> e[1] \in Switch
         /\ Successor[s][e] \notin Nodal => Mover[Successor[s][e]] = Mover[s]
<1>1. e \in Seq(Action) \ {<<>>} /\ Successor[s][e] \in State /\ Mover[s] # KEEPER
  BY SplitGameAssumption
<1>2. Len(e) = 1
  BY PlayoutAssumption
<1>3. e = <<e[1]>> /\ e[1] \in Action
  BY <1>1, <1>2
<1>4. Mover[s] \in Player
  <2>1. Mover \in [State -> Player \union {KEEPER}]
    BY SplitGameAssumption
  <2> QED
    BY <1>1, <2>1
<1>5. /\ Successor[s][e] \in Nodal <=> e[1] \in Switch
      /\ Successor[s][e] \notin Nodal => Mover[Successor[s][e]] = Mover[s]
  BY PlayoutAssumption
<1> QED
  BY <1>1, <1>2, <1>3, <1>4, <1>5

(* It begins with good tables and nothing played. *)
LEMMA InitPlaying ==
  Init => InContext
<1> SUFFICES ASSUME Init PROVE InContext
  OBVIOUS
<1>1. AllGood(moves)
  <2>1. moves = [p \in Player |-> FreshTable]
    BY DEF Init
  <2> QED
    BY <2>1, FreshIsGood DEF AllGood
<1>2. InitState \in State
  BY SplitGameAssumption
<1>3. Types /\ Depths
  BY <1>2 DEF Init, Types, Depths
<1>4. Options /\ Contexts /\ PathEnds /\ OnePlayer
  BY DEF Init, Options, Contexts, PathEnds, OnePlayer
<1> QED
  BY <1>1, <1>3, <1>4 DEF InContext, Playing

(* Where a turn begins no context is left. *)
LEMMA TurnBegins ==
  ASSUME NEW s \in Nodal, BeginTurn(s), AllGood(moves'),
         context' = 0, context_stack' = <<>>, path' \in Seq(Step), OnePlayer',
         path' = <<>> \/ path'[Len(path')].action \in Switch
  PROVE  InContext'
<1>1. s \in State /\ Mover[s] \in Player \union {KEEPER}
  BY SplitGameAssumption
<1>2. state' = s /\ reverters' = <<>> /\ turn' = <<>> /\ pc' \in {"play", "update"}
  BY DEF BeginTurn
<1>3. legal_actions' \in Seq(SUBSET Seq(Action))
  <2>1. Semimoves[s] \in SUBSET Seq(Action)
    BY <1>1, SplitGameAssumption
  <2>2. legal_actions' = <<>> \/ legal_actions' = <<Semimoves[s]>>
    BY DEF BeginTurn
  <2> DEFINE X == SUBSET Seq(Action)
             m == Semimoves[s]
  <2>3. m \in X
    BY <2>1
  <2> HIDE DEF X, m
  <2>4. <<>> \in Seq(X) /\ <<m>> \in Seq(X)
    BY <2>3
  <2> QED
    BY <2>2, <2>4 DEF X, m
<1>4. Types'
  BY <1>1, <1>2, <1>3 DEF Types
<1>5. CASE pc' = "play"
  <2>1. legal_actions' = <<Semimoves[s]>> /\ Mover[s] \in Player
    BY <1>1, <1>5 DEF BeginTurn
  <2>2. Depths'
    BY <1>2, <1>5, <2>1 DEF Depths
  <2>3. Options'
    BY <1>2, <1>5, <2>1 DEF Options, Here
  <2>4. PathEnds'
    BY <1>2 DEF PathEnds
  <2>5. Contexts'
    <3> DEFINE t == moves'[Mover[s]]
    <3>1. IsGood(t)
      BY <2>1 DEF AllGood
    <3>2. 0 \in Index(t) /\ Named(t, 0) = <<>>
      BY <3>1, NamedSeq, SizeIs DEF IsGood, IsWhole
    <3>3. \A k \in 1..1 : Append(<<>>, 0)[k] = 0 /\ SubSeq(<<>>, 1, k - 1) = <<>>
      OBVIOUS
    <3> HIDE DEF t
    <3>4. \A k \in 1..1 : /\ Append(<<>>, 0)[k] \in Index(t)
                          /\ Named(t, Append(<<>>, 0)[k]) = Written(SubSeq(<<>>, 1, k - 1))
      BY <3>2, <3>3, WrittenEmpty
    <3> QED
      BY <1>2, <3>4 DEF Contexts, Seen, t
  <2> QED
    BY <1>4, <2>2, <2>3, <2>4, <2>5 DEF InContext, Playing
<1>6. CASE pc' = "update"
  <2>1. Depths' /\ Options' /\ Contexts'
    BY <1>2, <1>6 DEF Depths, Options, Contexts
  <2>2. PathEnds'
    BY <1>2 DEF PathEnds
  <2> QED
    BY <1>4, <2>1, <2>2 DEF InContext, Playing
<1> QED
  BY <1>2, <1>5, <1>6

Inserted(tables, p, a, c, new) ==
  LET r == find_or_insert(tables[p], a, c)
  IN /\ AllGood(new)
     /\ new[p] = r.table /\ \A q \in Player \ {p} : new[q] = tables[q]
     /\ Extends(tables[p], new[p]) /\ SameCounts(tables[p], new[p])
     /\ r.index \in Index(new[p]) \ {0}
     /\ Named(new[p], r.index) = Append(Named(tables[p], c), a)

(* An insertion into the table of a player keeps what all tables name and  *)
(* returns a bucket that stands for the action after its context.          *)
LEMMA InsertGood ==
  ASSUME NEW tables, AllGood(tables), NEW p \in Player, NEW a \in Action, NEW c \in Index(tables[p]),
         NEW new, new = [tables EXCEPT ![p] = find_or_insert(tables[p], a, c).table], Roomy(new)
  PROVE  Inserted(tables, p, a, c, new)
<1> DEFINE t == tables[p]
           r == find_or_insert(t, a, c)
           u == r.table
<1>1. new = [q \in Player |-> IF q = p THEN u ELSE tables[q]]
  BY DEF AllGood
<1>2. new[p] = u /\ \A q \in Player \ {p} : new[q] = tables[q]
  BY <1>1
<1>3. IsGood(t)
  BY DEF AllGood
<1>4. u.capacity_level \in DOMAIN HASH_PRIMES
  BY <1>2 DEF Roomy
<1> HIDE DEF t
<1>5. /\ IsGood(u) /\ Extends(t, u) /\ SameCounts(t, u)
      /\ r.index \in Index(u) \ {0} /\ Equals(u, r.index, a, c)
  BY <1>3, <1>4, InsertIs DEF t
<1> HIDE DEF r, u
<1>6. AllGood(new)
  BY <1>1, <1>2, <1>5 DEF AllGood
<1>7. Index(t) \subseteq Index(u) /\ Named(u, c) = Named(t, c)
  BY <1>3, <1>5, NamedKept DEF t
<1>8. Named(u, r.index) = Append(Named(u, c), a)
  BY <1>5, NamedStepIs DEF Equals
<1> QED
  BY <1>2, <1>5, <1>6, <1>7, <1>8 DEF t, r, u, Inserted

(* The contexts of a turn and of one action more. *)
InPlace(t, seen, acts) ==
  \A k \in 1..(Len(acts) + 1) : /\ seen[k] \in Index(t)
                                /\ Named(t, seen[k]) = Written(SubSeq(acts, 1, k - 1))

(* An action more adds one that stands for it all; the others are kept.    *)
LEMMA PlacesGoOn ==
  ASSUME NEW t, NEW u, IsGood(t), IsGood(u), Extends(t, u),
         NEW acts \in Seq(Action), NEW a \in Action,
         NEW seen \in Seq(Nat), Len(seen) = Len(acts) + 1, InPlace(t, seen, acts),
         NEW c \in Nat, c \in Index(u), Named(u, c) = Written(Append(acts, a))
  PROVE  InPlace(u, Append(seen, c), Append(acts, a))
<1> DEFINE n == Len(acts)
           more == Append(acts, a)
<1>1. n \in Nat /\ Len(more) = n + 1 /\ SubSeq(more, 1, n + 1) = more
  OBVIOUS
<1>2. \A k \in 1..(n + 1) : SubSeq(more, 1, k - 1) = SubSeq(acts, 1, k - 1) /\ Append(seen, c)[k] = seen[k]
  OBVIOUS
<1>3. Append(seen, c)[n + 2] = c
  OBVIOUS
<1>4. Index(t) \subseteq Index(u) /\ \A i \in Index(t) : Named(u, i) = Named(t, i)
  BY NamedKept
<1>5. \A k \in 1..(n + 1) : seen[k] \in Index(t) /\ Named(t, seen[k]) = Written(SubSeq(acts, 1, k - 1))
  BY DEF InPlace
<1> HIDE DEF more, n
<1>6. \A k \in 1..(n + 1) : /\ Append(seen, c)[k] \in Index(u)
                            /\ Named(u, Append(seen, c)[k]) = Written(SubSeq(more, 1, k - 1))
  BY <1>2, <1>4, <1>5
<1>7. (n + 2) - 1 = n + 1
  BY <1>1
<1>8. /\ Append(seen, c)[n + 2] \in Index(u)
      /\ Named(u, Append(seen, c)[n + 2]) = Written(SubSeq(more, 1, (n + 2) - 1))
  BY <1>1, <1>3, <1>7 DEF more
<1>9. \A k \in 1..(Len(more) + 1) : k \in 1..(n + 1) \/ k = n + 2
  BY <1>1
<1> QED
  BY <1>6, <1>8, <1>9 DEF InPlace, more

(* Taking an action that ends no turn goes on from the context it is in.   *)
LEMMA SwitchGoesOn ==
  ASSUME InContext, pc = "play", NEW a \in Action, a \notin Switch,
         switch_context(a, Mover[state]), Roomy(moves')
  PROVE  /\ AllGood(moves') /\ context' \in Nat /\ context_stack' = Append(context_stack, context)
         /\ InPlace(moves'[Mover[state]], Append(Append(context_stack, context), context'), Append(turn, a))
<1> DEFINE p == Mover[state]
           t == moves[p]
           u == moves'[p]
           n == Len(turn)
<1>1. /\ p \in Player /\ IsGood(t) /\ AllGood(moves)
      /\ turn \in Seq(Action) /\ n \in Nat /\ context \in Nat /\ context_stack \in Seq(Nat) /\ Len(context_stack) = n
  BY DEF InContext, Playing, Options, AllGood, Types, Depths
<1>2. Seen \in Seq(Nat) /\ Len(Seen) = n + 1 /\ Seen[n + 1] = context
  BY <1>1 DEF Seen
<1>3. InPlace(t, Seen, turn)
  BY DEF InContext, Contexts, InPlace
<1>4. SubSeq(turn, 1, (n + 1) - 1) = turn
  BY <1>1
<1>5. context \in Index(t) /\ Named(t, context) = Written(turn)
  <2>1. n + 1 \in 1..(n + 1)
    BY <1>1
  <2> HIDE DEF t
  <2> QED
    BY <1>2, <1>3, <1>4, <2>1 DEF InPlace
<1>6. Written(Append(turn, a)) = IF a \in Dot THEN Written(turn) ELSE Append(Written(turn), a)
  BY <1>1, WrittenAppend
<1>7. context_stack' = Append(context_stack, context)
  BY DEF switch_context
<1>8. CASE a \in Dot
  <2>1. context' = context /\ moves' = moves
    BY <1>8 DEF switch_context
  <2>2. Extends(t, t)
    BY DEF Extends
  <2>3. Named(t, context) = Written(Append(turn, a))
    BY <1>5, <1>6, <1>8
  <2> HIDE DEF t, p
  <2>4. InPlace(t, Append(Seen, context), Append(turn, a))
    BY <1>1, <1>2, <1>3, <1>5, <2>2, <2>3, PlacesGoOn
  <2> QED
    BY <1>1, <1>7, <2>1, <2>4 DEF Seen, t, p
<1>9. CASE a \notin Dot
  <2> DEFINE r == find_or_insert(t, a, context)
  <2>1. context' = r.index /\ moves' = [moves EXCEPT ![p] = r.table]
    BY <1>9 DEF switch_context
  <2>2. /\ AllGood(moves') /\ Extends(t, u)
        /\ r.index \in Index(u) \ {0}
        /\ Named(u, r.index) = Append(Named(t, context), a)
    <3> DEFINE new == moves'
    <3>1. Roomy(new) /\ AllGood(moves) /\ p \in Player /\ context \in Index(moves[p])
      BY <1>1, <1>5
    <3>2. new = [moves EXCEPT ![p] = find_or_insert(moves[p], a, context).table]
      BY <2>1
    <3> HIDE DEF new, p
    <3> QED
      <4>1. Inserted(moves, p, a, context, new)
        BY <3>1, <3>2, InsertGood
      <4> QED
        BY <4>1 DEF new, Inserted
  <2>3. IsGood(u)
    BY <1>1, <2>2 DEF AllGood
  <2> HIDE DEF r, t, u, p
  <2>4. context' \in Index(u) /\ Named(u, context') = Written(Append(turn, a))
    BY <1>5, <1>6, <1>9, <2>1, <2>2
  <2>5. context' \in Nat
    BY <2>3, <2>4, SizeIs DEF IsGood, IsWhole
  <2>6. InPlace(u, Append(Seen, context'), Append(turn, a))
    BY <1>1, <1>2, <1>3, <2>2, <2>3, <2>4, <2>5, PlacesGoOn
  <2> QED
    BY <1>7, <2>2, <2>5, <2>6 DEF Seen, u, p
<1> QED
  BY <1>8, <1>9

(* What can be tried is a semimove of the state. *)
LEMMA LastChoices ==
  ASSUME Playing, pc = "play"
  PROVE  /\ Last(legal_actions) = legal_actions[Len(turn) + 1]
         /\ Last(legal_actions) \subseteq Semimoves[state]
         /\ state \in State /\ Mover[state] \in Player
<1>1. /\ turn \in Seq(Action) /\ Len(turn) \in Nat /\ legal_actions \in Seq(SUBSET Seq(Action))
      /\ Len(legal_actions) = Len(turn) + 1
      /\ reverters \in Seq(State) /\ Len(reverters) = Len(turn) /\ state \in State
  BY DEF Playing, Types, Depths
<1>2. Last(legal_actions) = legal_actions[Len(turn) + 1]
  BY <1>1 DEF Last
<1>3. Here(Len(turn) + 1) = state
  BY <1>1 DEF Here
<1>4. Len(turn) + 1 \in 1..(Len(turn) + 1)
  BY <1>1
<1> QED
  BY <1>1, <1>2, <1>3, <1>4 DEF Playing, Options

(* The path with an action more. *)
LEMMA PathGoesOn ==
  ASSUME Playing, pc = "play", NEW a \in Action,
         path' = Append(path, [action |-> a, player |-> Mover[state]])
  PROVE  /\ path' \in Seq(Step) /\ Len(path') = Len(path) + 1
         /\ path'[Len(path) + 1] = [action |-> a, player |-> Mover[state]]
         /\ \A i \in 1..Len(path) : path'[i] = path[i]
         /\ OnePlayer'
<1> DEFINE n == Len(path)
           m == Len(turn)
           b == [action |-> a, player |-> Mover[state]]
<1>1. /\ path \in Seq(Step) /\ n \in Nat /\ turn \in Seq(Action) /\ m \in Nat
      /\ Mover[state] \in Player
  BY LastChoices DEF Playing, Types
<1>2. b \in Step
  BY <1>1 DEF Step
<1> HIDE DEF b
<1>3. /\ path' \in Seq(Step) /\ Len(path') = n + 1 /\ path'[n + 1] = b
      /\ \A i \in 1..n : path'[i] = path[i]
  BY <1>1, <1>2 DEF b
<1>4. \A i \in 1..(n - 1) : path'[i].action \notin Switch => path'[i + 1].player = path'[i].player
  <2>1. \A i \in 1..(n - 1) : i \in 1..n /\ i + 1 \in 1..n
    BY <1>1
  <2>2. \A i \in 1..(n - 1) : path[i].action \notin Switch => path[i + 1].player = path[i].player
    BY DEF Playing, OnePlayer
  <2> QED
    BY <1>3, <2>1, <2>2
<1>5. n >= 1 /\ path[n].action \notin Switch => path[n].player = Mover[state]
  <2> SUFFICES ASSUME n >= 1, path[n].action \notin Switch PROVE path[n].player = Mover[state]
    OBVIOUS
  <2>1. m \in 1..m /\ (n - m) + m = n
    <3>1. m # 0
      <4>1. n > m => path[n - m].action \in Switch
        BY DEF Playing, PathEnds
      <4>2. m = 0 => n > m /\ n - m = n
        BY <1>1
      <4> QED
        BY <4>1, <4>2
    <3> QED
      BY <1>1, <3>1
  <2>2. path[(n - m) + m] = [action |-> turn[m], player |-> Mover[state]]
    BY <2>1 DEF Playing, PathEnds
  <2> QED
    BY <2>1, <2>2
<1>6. b.player = Mover[state]
  BY DEF b
<1>7. \A i \in 1..((n + 1) - 1) : path'[i].action \notin Switch => path'[i + 1].player = path'[i].player
  <2> TAKE i \in 1..((n + 1) - 1)
  <2>1. i \in 1..(n - 1) \/ (i = n /\ n >= 1 /\ n \in 1..n)
    BY <1>1
  <2> QED
    BY <1>3, <1>4, <1>5, <1>6, <2>1
<1> QED
  BY <1>3, <1>7 DEF OnePlayer, b

(* An action that ends the turn keeps the invariant, *)
LEMMA TakeLast ==
  ASSUME InContext, NEW e, TakeAction(e), Successor[state][e] \in Nodal
  PROVE  InContext'
<1> DEFINE s == Successor[state][e]
           a == e[1]
<1>1. Playing /\ pc = "play" /\ AllGood(moves)
  BY DEF InContext, TakeAction
<1>2. e \in Semimoves[state] /\ state \in State
  BY <1>1, LastChoices DEF TakeAction
<1>3. a \in Action /\ a \in Switch
  BY <1>2, SemimoveIs
<1>4. path' = Append(path, [action |-> a, player |-> Mover[state]])
  BY DEF TakeAction
<1>5. path' \in Seq(Step) /\ OnePlayer' /\ path'[Len(path')].action \in Switch
  BY <1>1, <1>3, <1>4, PathGoesOn
<1>6. context' = 0 /\ context_stack' = <<>> /\ moves' = moves
  BY <1>3 DEF TakeAction, switch_context
<1>7. BeginTurn(s)
  BY DEF TakeAction
<1> QED
  BY <1>1, <1>5, <1>6, <1>7, TurnBegins

(* and so does one within it. *)
LEMMA TakeNext ==
  ASSUME InContext, NEW e, TakeAction(e), Successor[state][e] \notin Nodal
  PROVE  InContext'
<1> DEFINE s == Successor[state][e]
           a == e[1]
           n == Len(path)
           m == Len(turn)
           p == Mover[state]
<1>1. Playing /\ pc = "play" /\ AllGood(moves)
  BY DEF InContext, TakeAction
<1>2. e \in Semimoves[state] /\ state \in State /\ p \in Player
  BY <1>1, LastChoices DEF TakeAction
<1>3. a \in Action /\ a \notin Switch /\ s \in State /\ Mover[s] = p
  BY <1>2, SemimoveIs
<1>4. /\ state' = s /\ reverters' = Append(reverters, state)
      /\ turn' = Append(turn, a)
      /\ legal_actions' = Append(legal_actions, Semimoves[s])
      /\ pc' = pc
      /\ path' = Append(path, [action |-> a, player |-> p])
  BY DEF TakeAction
<1>5. /\ AllGood(moves') /\ context' \in Nat /\ context_stack' = Append(context_stack, context)
      /\ InPlace(moves'[p], Append(Append(context_stack, context), context'), Append(turn, a))
  BY <1>1, <1>3, SwitchGoesOn DEF TakeAction
<1>6. /\ path' \in Seq(Step) /\ Len(path') = n + 1
      /\ path'[n + 1] = [action |-> a, player |-> p]
      /\ \A i \in 1..n : path'[i] = path[i]
      /\ OnePlayer'
  BY <1>1, <1>3, <1>4, PathGoesOn
<1>7. /\ context \in Nat /\ context_stack \in Seq(Nat) /\ Len(context_stack) = m
      /\ reverters \in Seq(State) /\ Len(reverters) = m
      /\ turn \in Seq(Action) /\ m \in Nat /\ path \in Seq(Step) /\ n \in Nat
      /\ legal_actions \in Seq(SUBSET Seq(Action)) /\ Len(legal_actions) = m + 1
  BY <1>1 DEF Playing, Types, Depths
<1>8. Semimoves[s] \in SUBSET Seq(Action)
  BY <1>3, SplitGameAssumption
<1>9. /\ legal_actions' \in Seq(SUBSET Seq(Action)) /\ Len(legal_actions') = m + 2
      /\ legal_actions'[m + 2] = Semimoves[s]
      /\ \A d \in 1..(m + 1) : legal_actions'[d] = legal_actions[d]
  <2> DEFINE X == SUBSET Seq(Action)
             c == Semimoves[s]
  <2>1. c \in X /\ legal_actions \in Seq(X) /\ legal_actions' = Append(legal_actions, c)
    BY <1>4, <1>7, <1>8
  <2> HIDE DEF X, c
  <2>2. /\ legal_actions' \in Seq(X) /\ Len(legal_actions') = m + 2
        /\ legal_actions'[m + 2] = c
        /\ \A d \in 1..(m + 1) : legal_actions'[d] = legal_actions[d]
    BY <1>7, <2>1
  <2> QED
    BY <2>2 DEF X, c
<1>10. turn' \in Seq(Action) /\ Len(turn') = m + 1 /\ turn'[m + 1] = a /\ \A j \in 1..m : turn'[j] = turn[j]
  <2> HIDE DEF a
  <2> QED
    BY <1>3, <1>4, <1>7
<1>11. /\ reverters' \in Seq(State) /\ Len(reverters') = m + 1
       /\ \A d \in 1..(m + 1) : Append(reverters', state')[d] = Here(d)
       /\ Append(reverters', state')[m + 2] = s
  <2>1. \A d \in 1..(m + 1) : Append(reverters, state)[d] = Here(d)
    BY DEF Here
  <2> HIDE DEF s, m
  <2> DEFINE X == Append(reverters, state)
  <2>2. X \in Seq(State) /\ Len(X) = m + 1
    BY <1>2, <1>7
  <2>3. reverters' = X /\ state' = s
    BY <1>4
  <2> HIDE DEF X
  <2>4. \A d \in 1..(m + 1) : Append(X, s)[d] = X[d]
    BY <1>7, <2>2
  <2>5. Append(X, s)[m + 2] = s
    BY <1>7, <2>2
  <2> QED
    BY <2>1, <2>2, <2>3, <2>4, <2>5 DEF X
<1>12. context_stack' \in Seq(Nat) /\ Len(context_stack') = m + 1
  BY <1>5, <1>7
<1> HIDE DEF s, a
<1>13. Types' /\ Depths'
  BY <1>1, <1>3, <1>4, <1>5, <1>6, <1>9, <1>10, <1>11, <1>12 DEF Types, Depths
<1>14. Options'
  <2>1. \A d \in 1..(m + 1) : legal_actions[d] \subseteq Semimoves[Here(d)] /\ Mover[Here(d)] = p
    BY <1>1 DEF Playing, Options
  <2>2. \A d \in 1..((m + 1) + 1) : d \in 1..(m + 1) \/ d = m + 2
    BY <1>7
  <2>3. \A d \in 1..((m + 1) + 1) : /\ legal_actions'[d] \subseteq Semimoves[Append(reverters', state')[d]]
                                    /\ Mover[Append(reverters', state')[d]] = p
    BY <1>3, <1>9, <1>11, <2>1, <2>2
  <2> QED
    BY <1>2, <1>3, <1>4, <1>10, <2>3 DEF Options, Here
<1>15. PathEnds'
  <2>1. /\ \A j \in 1..m : turn[j] \notin Switch
        /\ m <= n
        /\ \A j \in 1..m : path[n - m + j] = [action |-> turn[j], player |-> p]
        /\ n > m => path[n - m].action \in Switch
    BY <1>1 DEF Playing, PathEnds
  <2>2. (n + 1) - (m + 1) = n - m /\ m + 1 <= n + 1 /\ (n + 1 > m + 1 => n > m /\ n - m \in 1..n)
    BY <1>7, <2>1
  <2>3. \A j \in 1..(m + 1) : j = m + 1 \/ (j \in 1..m /\ n - m + j \in 1..n)
    BY <1>7, <2>1
  <2>4. n - m + (m + 1) = n + 1
    BY <1>7
  <2>5. \A j \in 1..(m + 1) : turn'[j] \notin Switch
    BY <1>3, <1>10, <2>1, <2>3
  <2>6. \A j \in 1..(m + 1) : path'[n - m + j] = [action |-> turn'[j], player |-> p]
    BY <1>6, <1>10, <2>1, <2>3, <2>4
  <2>7. n + 1 > m + 1 => path'[n - m].action \in Switch
    BY <1>6, <2>1, <2>2
  <2>8. Len(path') - Len(turn') = n - m
    BY <1>6, <1>10, <2>2
  <2>9. Mover[state'] = p
    BY <1>3, <1>4
  <2> HIDE DEF n, m, p
  <2>10. \A j \in 1..Len(turn') :
           path'[Len(path') - Len(turn') + j] = [action |-> turn'[j], player |-> Mover[state']]
    BY <1>10, <2>6, <2>8, <2>9
  <2>11. Len(path') > Len(turn') => path'[Len(path') - Len(turn')].action \in Switch
    BY <1>6, <1>10, <2>7, <2>8
  <2> QED
    BY <1>6, <1>10, <2>2, <2>5, <2>10, <2>11 DEF PathEnds
<1>16. Contexts'
  <2>1. Seen' = Append(Append(context_stack, context), context')
    BY <1>5 DEF Seen
  <2> QED
    BY <1>3, <1>4, <1>5, <2>1 DEF Contexts, InPlace
<1> QED
  BY <1>5, <1>6, <1>13, <1>14, <1>15, <1>16 DEF InContext, Playing

(* A sequence without its last element. *)
LEMMA FrontParts ==
  ASSUME NEW S, NEW s \in Seq(S), NEW k \in Nat, Len(s) = k + 1
  PROVE  /\ Front(s) \in Seq(S) /\ Len(Front(s)) = k
         /\ \A i \in 1..k : Front(s)[i] = s[i]
         /\ Last(s) = s[k + 1] /\ Last(s) \in S
<1>1. Front(s) = [i \in 1..k |-> s[i]]
  BY DEF Front
<1>2. \A i \in 1..(k + 1) : s[i] \in S
  OBVIOUS
<1>3. [i \in 1..k |-> s[i]] \in Seq(S)
  BY <1>2
<1>4. Len([i \in 1..k |-> s[i]]) = k
  OBVIOUS
<1> QED
  BY <1>1, <1>2, <1>3, <1>4 DEF Last

(* Taking an action back restores the context before it. *)
LEMMA TakeBackKeeps ==
  ASSUME InContext, TakeBack
  PROVE  InContext'
<1> DEFINE m == Len(turn) - 1
           n == Len(path) - 1
           p == Mover[state]
           A == SUBSET Seq(Action)
           R == [action : Action, player : Player]
<1>1. Playing /\ pc = "play" /\ AllGood(moves)
  BY DEF InContext, TakeBack
<1>2. /\ turn \in Seq(Action) /\ path \in Seq(R) /\ reverters \in Seq(State)
      /\ context \in Nat /\ context_stack \in Seq(Nat) /\ legal_actions \in Seq(A) /\ state \in State
      /\ Len(context_stack) = Len(turn) /\ Len(reverters) = Len(turn) /\ Len(legal_actions) = Len(turn) + 1
  BY <1>1 DEF Playing, Types, Depths, Step
<1>3. Len(turn) <= Len(path) /\ turn # <<>>
  BY <1>1 DEF Playing, PathEnds, TakeBack
<1>4. m \in Nat /\ n \in Nat /\ Len(turn) = m + 1 /\ Len(path) = n + 1 /\ m <= n
  BY <1>2, <1>3
<1>5. /\ state' = Last(reverters) /\ reverters' = Front(reverters) /\ turn' = Front(turn)
      /\ path' = Front(path) /\ moves' = moves /\ pc' = pc
      /\ context' = Last(context_stack) /\ context_stack' = Front(context_stack)
      /\ legal_actions' = [Front(legal_actions) EXCEPT ![Len(turn)] = @ \ {<<Last(turn)>>}]
  BY DEF TakeBack, revert_context
<1> HIDE DEF m, n, A, R
<1>6. turn' \in Seq(Action) /\ Len(turn') = m /\ \A j \in 1..m : turn'[j] = turn[j]
  BY <1>2, <1>4, <1>5, FrontParts
<1>7. path' \in Seq(R) /\ Len(path') = n /\ \A i \in 1..n : path'[i] = path[i]
  BY <1>2, <1>4, <1>5, FrontParts
<1>8. /\ reverters' \in Seq(State) /\ Len(reverters') = m /\ \A j \in 1..m : reverters'[j] = reverters[j]
      /\ state' = reverters[m + 1] /\ state' \in State
  <2>1. reverters \in Seq(State) /\ Len(reverters) = m + 1 /\ m \in Nat
    BY <1>2, <1>4
  <2>2. /\ Front(reverters) \in Seq(State) /\ Len(Front(reverters)) = m
        /\ \A j \in 1..m : Front(reverters)[j] = reverters[j]
        /\ Last(reverters) = reverters[m + 1] /\ Last(reverters) \in State
    BY <2>1, FrontParts
  <2> QED
    BY <1>5, <2>2
<1>9. /\ context_stack' \in Seq(Nat) /\ Len(context_stack') = m
      /\ \A j \in 1..m : context_stack'[j] = context_stack[j]
      /\ context' = context_stack[m + 1] /\ context' \in Nat
  <2>1. context_stack \in Seq(Nat) /\ Len(context_stack) = m + 1 /\ m \in Nat
    BY <1>2, <1>4
  <2>2. /\ Front(context_stack) \in Seq(Nat) /\ Len(Front(context_stack)) = m
        /\ \A j \in 1..m : Front(context_stack)[j] = context_stack[j]
        /\ Last(context_stack) = context_stack[m + 1] /\ Last(context_stack) \in Nat
    BY <2>1, FrontParts
  <2> QED
    BY <1>5, <2>2
<1>10. /\ legal_actions' \in Seq(A) /\ Len(legal_actions') = m + 1
       /\ \A d \in 1..(m + 1) : legal_actions'[d] \subseteq legal_actions[d]
  <2> DEFINE l == Front(legal_actions)
             x == <<Last(turn)>>
  <2>1. l \in Seq(A) /\ Len(l) = m + 1 /\ \A d \in 1..(m + 1) : l[d] = legal_actions[d]
    <3>1. Len(legal_actions) = (m + 1) + 1 /\ m + 1 \in Nat
      BY <1>2, <1>4
    <3> QED
      BY <1>2, <3>1, FrontParts
  <2>2. legal_actions' = [l EXCEPT ![m + 1] = l[m + 1] \ {x}]
    BY <1>4, <1>5
  <2> HIDE DEF l, x
  <2>3. l[m + 1] \ {x} \in A
    <3>1. m + 1 \in 1..(m + 1)
      BY <1>4
    <3>2. l[m + 1] \in A
      BY <2>1, <3>1
    <3> QED
      BY <3>2 DEF A
  <2>4. \A y \in A : [l EXCEPT ![m + 1] = y] \in Seq(A) /\ Len([l EXCEPT ![m + 1] = y]) = m + 1
    BY <1>4, <2>1
  <2>5. \A d \in 1..(m + 1) : legal_actions'[d] = IF d = m + 1 THEN l[m + 1] \ {x} ELSE l[d]
    BY <2>1, <2>2
  <2> QED
    BY <2>1, <2>2, <2>3, <2>4, <2>5
<1>11. \A d \in 1..(m + 1) : Append(reverters', state')[d] = Here(d)
  <2>1. \A d \in 1..(m + 1) : Here(d) = reverters[d]
    BY <1>2, <1>4 DEF Here
  <2>2. \A d \in 1..(m + 1) : Append(reverters', state')[d] = reverters[d]
    <3>1. \A d \in 1..(m + 1) : d \in 1..m \/ d = m + 1
      BY <1>4
    <3>2. \A d \in 1..m : Append(reverters', state')[d] = reverters'[d]
      BY <1>8
    <3>3. Append(reverters', state')[m + 1] = state'
      BY <1>8
    <3> QED
      BY <1>8, <3>1, <3>2, <3>3
  <2> QED
    BY <2>1, <2>2
<1>12. \A d \in 1..(m + 1) : legal_actions[d] \subseteq Semimoves[Here(d)] /\ Mover[Here(d)] = p
  <2>1. \A d \in 1..(m + 1) : d \in 1..(Len(turn) + 1)
    BY <1>4
  <2> QED
    BY <1>1, <2>1 DEF Playing, Options
<1>13. Mover[state'] = p /\ p \in Player
  <2>1. m + 1 \in 1..(m + 1) /\ Append(reverters', state')[m + 1] = state'
    BY <1>4, <1>8
  <2>2. p \in Player
    BY <1>1 DEF Playing, Options
  <2> QED
    BY <1>11, <1>12, <2>1, <2>2
<1> HIDE DEF p
<1>14. Types' /\ Depths'
  BY <1>1, <1>5, <1>6, <1>7, <1>8, <1>9, <1>10 DEF Types, Depths, A, R, Step
<1>15. Options'
  <2>1. \A d \in 1..(m + 1) : /\ legal_actions'[d] \subseteq Semimoves[Append(reverters', state')[d]]
                              /\ Mover[Append(reverters', state')[d]] = p
    BY <1>10, <1>11, <1>12
  <2> QED
    BY <1>6, <1>13, <2>1 DEF Options, Here
<1>16. PathEnds'
  <2>1. /\ \A j \in 1..(m + 1) : turn[j] \notin Switch
        /\ \A j \in 1..(m + 1) : path[n + 1 - (m + 1) + j] = [action |-> turn[j], player |-> p]
        /\ n + 1 > m + 1 => path[n + 1 - (m + 1)].action \in Switch
    BY <1>1, <1>4 DEF Playing, PathEnds, p
  <2>2. n + 1 - (m + 1) = n - m /\ \A j \in 1..m : j \in 1..(m + 1) /\ n - m + j \in 1..n
    BY <1>4
  <2>3. n > m => n + 1 > m + 1 /\ n - m \in 1..n
    BY <1>4
  <2>4. \A j \in 1..m : turn'[j] \notin Switch
    BY <1>6, <2>1, <2>2
  <2>5. \A j \in 1..m : path'[n - m + j] = [action |-> turn'[j], player |-> p]
    BY <1>6, <1>7, <2>1, <2>2
  <2>6. n > m => path'[n - m].action \in Switch
    BY <1>7, <2>1, <2>2, <2>3
  <2> QED
    BY <1>4, <1>6, <1>7, <1>13, <2>4, <2>5, <2>6 DEF PathEnds
<1>17. OnePlayer'
  <2>1. \A i \in 1..n : path[i].action \notin Switch => path[i + 1].player = path[i].player
    <3>1. n = Len(path) - 1
      BY DEF n
    <3> QED
      BY <1>1, <3>1 DEF Playing, OnePlayer
  <2>2. \A i \in 1..(n - 1) : i \in 1..n /\ i + 1 \in 1..n
    BY <1>4
  <2> QED
    BY <1>7, <2>1, <2>2 DEF OnePlayer
<1>18. Contexts'
  <2>1. Seen' = Append(context_stack', context')
    BY DEF Seen
  <2>2. \A k \in 1..(m + 1) : Seen'[k] = Seen[k]
    <3>1. \A k \in 1..(m + 1) : Seen[k] = context_stack[k]
      BY <1>2, <1>4 DEF Seen
    <3>2. \A k \in 1..(m + 1) : k \in 1..m \/ k = m + 1
      BY <1>4
    <3>3. \A k \in 1..m : Append(context_stack', context')[k] = context_stack'[k]
      BY <1>9
    <3>4. Append(context_stack', context')[m + 1] = context'
      BY <1>9
    <3> QED
      BY <1>9, <2>1, <3>1, <3>2, <3>3, <3>4
  <2>3. \A k \in 1..(m + 1) : SubSeq(turn', 1, k - 1) = SubSeq(turn, 1, k - 1)
    BY <1>2, <1>4, <1>6
  <2>4. \A k \in 1..(m + 1) : k \in 1..(Len(turn) + 1)
    BY <1>4
  <2>5. \A k \in 1..(m + 1) : /\ Seen[k] \in Index(moves[p])
                              /\ Named(moves[p], Seen[k]) = Written(SubSeq(turn, 1, k - 1))
    BY <1>1, <2>4 DEF InContext, Contexts, p
  <2>6. \A k \in 1..(m + 1) : /\ Seen'[k] \in Index(moves'[p])
                              /\ Named(moves'[p], Seen'[k]) = Written(SubSeq(turn', 1, k - 1))
    BY <1>5, <2>2, <2>3, <2>5
  <2> QED
    BY <1>6, <1>13, <2>6 DEF Contexts
<1> QED
  BY <1>1, <1>5, <1>14, <1>15, <1>16, <1>17, <1>18 DEF InContext, Playing

(* Where nothing is left to try, there is no turn to take back. *)
LEMMA EndKeeps ==
  ASSUME InContext, EndPlayout
  PROVE  InContext'
<1>1. /\ pc = "play" /\ turn = <<>> /\ pc' = "update" /\ moves' = moves
      /\ context' = context /\ context_stack' = context_stack /\ path' = path
      /\ state' = state /\ legal_actions' = legal_actions /\ reverters' = reverters /\ turn' = turn
  BY DEF EndPlayout, chooser, recursion
<1>2. context = 0
  <2> DEFINE t == moves[Mover[state]]
  <2>1. IsGood(t)
    BY <1>1 DEF InContext, Playing, Options, AllGood
  <2>2. /\ Seen[1] \in Index(t) /\ Named(t, Seen[1]) = Written(SubSeq(turn, 1, 1 - 1))
    BY <1>1 DEF InContext, Contexts
  <2>3. Seen[1] = context
    BY <1>1 DEF InContext, Playing, Types, Depths, Seen
  <2>4. SubSeq(turn, 1, 1 - 1) = <<>>
    BY <1>1
  <2> HIDE DEF t
  <2> QED
    BY <2>1, <2>2, <2>3, <2>4, WrittenEmpty, NamedSeq
<1>3. Types' /\ Depths' /\ PathEnds' /\ OnePlayer'
  BY <1>1, <1>2 DEF InContext, Playing, Types, Depths, PathEnds, OnePlayer
<1>4. Options' /\ Contexts'
  BY <1>1 DEF Options, Contexts
<1> QED
  BY <1>1, <1>3, <1>4 DEF InContext, Playing

(* A playout begins in any nodal state. *)
LEMMA BeginKeeps ==
  ASSUME InContext, BeginPlayout
  PROVE  InContext'
<1>1. PICK s \in Nodal : BeginTurn(s)
  BY DEF BeginPlayout
<1>2. context' = 0 /\ context_stack' = <<>> /\ path' = <<>> /\ moves' = moves
  BY DEF BeginPlayout
<1>3. path' \in Seq(Step) /\ OnePlayer'
  BY <1>2 DEF OnePlayer
<1>4. AllGood(moves')
  BY <1>2 DEF InContext
<1> QED
  BY <1>1, <1>2, <1>3, <1>4, TurnBegins

-----------------------------------------------------------------------------
(* The updates after a playout, one after the other.                       *)

UpdatedStep(n, f) ==
  f = [k \in 0..n |-> IF k = 0 THEN [moves |-> moves, context |-> context]
                      ELSE update_move(f[k - 1], path[k])]

(* There is what they make of the tables. *)
LEMMA UpdatedExists ==
  \A n \in Nat : \E f : UpdatedStep(n, f)
<1> DEFINE S == {n \in Nat : \E f : UpdatedStep(n, f)}
           start == [moves |-> moves, context |-> context]
<1>1. 0 \in S
  <2>1. UpdatedStep(0, [k \in 0..0 |-> start])
    BY DEF UpdatedStep
  <2> QED
    BY <2>1
<1>2. ASSUME NEW n \in Nat, n \in S
      PROVE  n + 1 \in S
  <2>1. PICK f : UpdatedStep(n, f)
    BY <1>2
  <2> DEFINE last == update_move(f[n], path[n + 1])
             g == [k \in 0..(n + 1) |-> IF k = n + 1 THEN last ELSE f[k]]
  <2>2. g[n + 1] = last /\ \A k \in 0..n : g[k] = f[k]
    OBVIOUS
  <2>3. g = [k \in 0..(n + 1) |-> g[k]]
    OBVIOUS
  <2> HIDE DEF g
  <2>4. ASSUME NEW k \in 0..(n + 1)
        PROVE  g[k] = IF k = 0 THEN start ELSE update_move(g[k - 1], path[k])
    <3>1. CASE k = n + 1
      <4>1. g[k - 1] = f[n] /\ k # 0
        BY <3>1, <2>2
      <4> QED
        BY <4>1, <3>1, <2>2
    <3>2. CASE k # n + 1
      <4>1. k \in 0..n /\ (k # 0 => k - 1 \in 0..n)
        BY <3>2
      <4>2. f[k] = IF k = 0 THEN start ELSE update_move(f[k - 1], path[k])
        BY <4>1, <2>1 DEF UpdatedStep
      <4>3. g[k] = f[k] /\ (k # 0 => g[k - 1] = f[k - 1])
        BY <4>1, <2>2
      <4> QED
        BY <4>2, <4>3
    <3> QED
      BY <3>1, <3>2
  <2>5. UpdatedStep(n + 1, g)
    BY <2>3, <2>4 DEF UpdatedStep
  <2> QED
    BY <2>5
<1> HIDE DEF S
<1>3. \A n \in Nat : n \in S
  BY <1>1, <1>2, SetInduction
<1> QED
  BY <1>3 DEF S

(* Each update goes on from the one before. *)
LEMMA UpdatedIs ==
  ASSUME Len(path) \in Nat
  PROVE  /\ Updated[0] = [moves |-> moves, context |-> context]
         /\ \A k \in 1..Len(path) : Updated[k] = update_move(Updated[k - 1], path[k])
<1> DEFINE n == Len(path)
           f == CHOOSE f : UpdatedStep(n, f)
<1>1. Updated = f
  BY Zenon DEF Updated, UpdatedStep
<1>2. UpdatedStep(n, f)
  BY UpdatedExists
<1> HIDE DEF f
<1>3. /\ f[0] = [moves |-> moves, context |-> context]
      /\ \A k \in 1..n : f[k] = update_move(f[k - 1], path[k])
  <2>1. \A k \in 0..n : f[k] = IF k = 0 THEN [moves |-> moves, context |-> context]
                               ELSE update_move(f[k - 1], path[k])
    BY <1>2 DEF UpdatedStep
  <2>2. 0 \in 0..n /\ \A k \in 1..n : k \in 0..n /\ k # 0
    OBVIOUS
  <2> QED
    BY <2>1, <2>2
<1> QED
  BY <1>1, <1>3

(* Where the turn of the k-th action begins, *)
BeginsAt(i, k) ==
  /\ i = 1 \/ path[i - 1].action \in Switch
  /\ \A j \in i..(k - 1) : path[j].action \notin Switch
Since(k) == CHOOSE i \in 1..k : BeginsAt(i, k)

(* and what of the turn comes before it. *)
Part(k) == [j \in 1..(k - Since(k)) |-> path[Since(k) + j - 1].action]

(* A credit is for these, without dots, and the action.                    *)
LEMMA TurnUpToIs ==
  ASSUME NEW k
  PROVE  TurnUpTo(k) = Append(Written(Part(k)), path[k].action)
BY Zenon DEF TurnUpTo, Part, Since, BeginsAt

(* A turn begins somewhere, *)
LEMMA SinceExists ==
  \A k \in Nat : k >= 1 => Since(k) \in 1..k /\ BeginsAt(Since(k), k)
<1> DEFINE S == {k \in Nat : k >= 1 => \E i \in 1..k : BeginsAt(i, k)}
<1>1. 0 \in S
  OBVIOUS
<1>2. ASSUME NEW k \in Nat, k \in S
      PROVE  k + 1 \in S
  <2>1. CASE k = 0 \/ path[k].action \in Switch
    <3>1. BeginsAt(k + 1, k + 1)
      BY <2>1 DEF BeginsAt
    <3>2. k + 1 \in 1..(k + 1)
      OBVIOUS
    <3> QED
      BY <3>1, <3>2
  <2>2. CASE k >= 1 /\ path[k].action \notin Switch
    <3>1. PICK i \in 1..k : BeginsAt(i, k)
      BY <1>2, <2>2
    <3>2. BeginsAt(i, k + 1)
      BY <2>2, <3>1 DEF BeginsAt
    <3> QED
      BY <3>2
  <2> QED
    BY <2>1, <2>2
<1> HIDE DEF S
<1>3. \A k \in Nat : k \in S
  BY <1>1, <1>2, SetInduction
<1>4. ASSUME NEW k \in Nat, k >= 1
      PROVE  Since(k) \in 1..k /\ BeginsAt(Since(k), k)
  <2>1. \E i \in 1..k : BeginsAt(i, k)
    BY <1>3, <1>4 DEF S
  <2> QED
    BY <2>1 DEF Since
<1> QED
  BY <1>4

(* and at one place only. *)
LEMMA SinceUnique ==
  ASSUME NEW k \in Nat, NEW i \in 1..k, NEW j \in 1..k, BeginsAt(i, k), BeginsAt(j, k)
  PROVE  i = j
<1>1. ASSUME NEW x \in 1..k, NEW y \in 1..k, BeginsAt(x, k), BeginsAt(y, k), x < y
      PROVE  FALSE
  <2>1. y - 1 \in x..(k - 1) /\ y # 1
    BY <1>1
  <2> QED
    BY <1>1, <2>1 DEF BeginsAt
<1> QED
  BY <1>1

(* After a switch nothing comes before the next action, *)
LEMMA PartBegins ==
  ASSUME NEW k \in Nat, k = 0 \/ path[k].action \in Switch
  PROVE  Part(k + 1) = <<>>
<1>1. BeginsAt(k + 1, k + 1) /\ k + 1 \in 1..(k + 1)
  BY DEF BeginsAt
<1>2. Since(k + 1) \in 1..(k + 1) /\ BeginsAt(Since(k + 1), k + 1)
  BY SinceExists
<1>3. Since(k + 1) = k + 1
  BY <1>1, <1>2, SinceUnique
<1>4. (k + 1) - Since(k + 1) = 0
  BY <1>3
<1> QED
  BY <1>4 DEF Part

(* otherwise what came before the last one, and that. *)
LEMMA PartGoesOn ==
  ASSUME path \in Seq(Step), NEW k \in Nat, k >= 1, k <= Len(path), path[k].action \notin Switch
  PROVE  /\ Part(k) \in Seq(Action)
         /\ Part(k + 1) = Append(Part(k), path[k].action)
<1> DEFINE i == Since(k)
<1>1. i \in 1..k /\ BeginsAt(i, k)
  BY SinceExists
<1>2. BeginsAt(i, k + 1) /\ i \in 1..(k + 1)
  <2> HIDE DEF i
  <2> QED
    BY <1>1 DEF BeginsAt
<1>3. Since(k + 1) \in 1..(k + 1) /\ BeginsAt(Since(k + 1), k + 1)
  BY SinceExists
<1>4. Since(k + 1) = i
  <2> HIDE DEF i
  <2> QED
    BY <1>2, <1>3, SinceUnique
<1>5. /\ Part(k) = [j \in 1..(k - i) |-> path[i + j - 1].action]
      /\ Part(k + 1) = [j \in 1..((k + 1) - i) |-> path[i + j - 1].action]
  BY <1>4 DEF Part
<1> HIDE DEF i
<1>6. \A j \in 1..((k + 1) - i) : path[i + j - 1].action \in Action
  <2>1. \A j \in 1..((k + 1) - i) : i + j - 1 \in 1..Len(path)
    BY <1>1
  <2>2. \A x \in 1..Len(path) : path[x] \in Step
    OBVIOUS
  <2>3. \A x \in 1..Len(path) : path[x].action \in Action
    BY <2>2 DEF Step
  <2> QED
    BY <2>1, <2>3
<1>7. k - i \in Nat /\ (k + 1) - i = (k - i) + 1 /\ i + ((k - i) + 1) - 1 = k
  BY <1>1
<1>8. Part(k) \in Seq(Action) /\ Len(Part(k)) = k - i
  BY <1>5, <1>6, <1>7
<1> DEFINE a == path[k].action
<1>9. Part(k + 1) = [j \in 1..((k - i) + 1) |-> IF j = (k - i) + 1 THEN a ELSE Part(k)[j]]
  <2>1. \A j \in 1..((k - i) + 1) : j # (k - i) + 1 => j \in 1..(k - i)
    BY <1>7
  <2> QED
    BY <1>5, <1>7, <2>1
<1> HIDE DEF a
<1>10. Part(k + 1) = Append(Part(k), a)
  BY <1>7, <1>8, <1>9
<1> QED
  BY <1>8, <1>10 DEF a

-----------------------------------------------------------------------------
(* What the counts of a table tell.                                        *)

(* t counts w[b] updates for each b; no bucket is none. *)
Counts(t, w) ==
  /\ \A i \in Index(t) \ {0} : Bucket(t, i).weight = w[Named(t, i)]
  /\ \A b \in Seq(Action) : w[b] # 0 => \E i \in Index(t) \ {0} : Named(t, i) = b

(* Nothing was counted for what a new bucket stands for. *)
LEMMA NewUncounted ==
  ASSUME NEW t, NEW u, NEW w, IsGood(t), IsGood(u), Extends(t, u), Counts(t, w),
         NEW i \in Index(u) \ {0}
  PROVE  /\ Named(u, i) \in Seq(Action)
         /\ w[Named(u, i)] = IF i \in Index(t) THEN Bucket(t, i).weight ELSE 0
<1>1. Index(t) \subseteq Index(u) /\ \A j \in Index(t) : Named(u, j) = Named(t, j)
  BY NamedKept
<1>2. Named(u, i) \in Seq(Action)
  BY NamedSeq
<1>3. CASE i \in Index(t)
  BY <1>1, <1>2, <1>3 DEF Counts
<1>4. CASE i \notin Index(t)
  <2>1. SUFFICES ASSUME w[Named(u, i)] # 0 PROVE FALSE
    BY <1>2, <1>4
  <2>2. PICK j \in Index(t) \ {0} : Named(t, j) = Named(u, i)
    BY <1>2, <2>1 DEF Counts
  <2>3. Named(u, j) = Named(u, i) /\ j \in Index(u)
    BY <1>1, <2>2
  <2> QED
    BY <1>4, <2>2, <2>3, NamesDiffer
<1> QED
  BY <1>3, <1>4

(* A table into which a bucket was inserted counts the same, *)
LEMMA CountsKept ==
  ASSUME NEW t, NEW u, NEW w, IsGood(t), IsGood(u), Extends(t, u), SameCounts(t, u), Counts(t, w)
  PROVE  Counts(u, w)
<1>1. \A i \in Index(u) \ {0} : Bucket(u, i).weight = w[Named(u, i)]
  BY NewUncounted DEF SameCounts
<1>2. \A b \in Seq(Action) : w[b] # 0 => \E i \in Index(u) \ {0} : Named(u, i) = b
  BY NamedKept DEF Counts
<1> QED
  BY <1>1, <1>2 DEF Counts

(* u is t with one more counted in bucket r. *)
OneMoreIn(t, u, r) ==
  /\ r \in Index(u) \ {0}
  /\ \A i \in Index(u) :
       Bucket(u, i).weight = (IF i \in Index(t) THEN Bucket(t, i).weight ELSE 0)
                               + (IF i = r THEN 1 ELSE 0)

(* and one in which a bucket was updated one more for what it stands for. *)
LEMMA CountsMore ==
  ASSUME NEW t, NEW u, NEW w, NEW v, NEW r, IsGood(t), IsGood(u), Extends(t, u), Counts(t, w),
         OneMoreIn(t, u, r),
         \A b \in Seq(Action) : v[b] = w[b] + (IF b = Named(u, r) THEN 1 ELSE 0)
  PROVE  Counts(u, v)
<1>1. \A i \in Index(u) \ {0} : /\ Named(u, i) \in Seq(Action)
                               /\ w[Named(u, i)] = IF i \in Index(t) THEN Bucket(t, i).weight ELSE 0
  BY NewUncounted
<1>2. \A i \in Index(u) \ {0} : Named(u, i) = Named(u, r) <=> i = r
  BY NamesDiffer DEF OneMoreIn
<1>3. \A i \in Index(u) \ {0} : Bucket(u, i).weight = v[Named(u, i)]
  BY <1>1, <1>2 DEF OneMoreIn
<1>4. ASSUME NEW b \in Seq(Action), v[b] # 0
      PROVE  \E i \in Index(u) \ {0} : Named(u, i) = b
  <2>1. CASE b = Named(u, r)
    BY <2>1 DEF OneMoreIn
  <2>2. CASE b # Named(u, r)
    <3>1. v[b] = w[b] + 0
      BY <2>2
    <3>2. w[b] # 0
      BY <1>4, <3>1
    <3>3. PICK i \in Index(t) \ {0} : Named(t, i) = b
      BY <3>2 DEF Counts
    <3>4. i \in Index(u) \ {0} /\ Named(u, i) = b
      BY <3>3, NamedKept
    <3> QED
      BY <3>4
  <2> QED
    BY <2>1, <2>2
<1> QED
  BY <1>3, <1>4 DEF Counts

(* The updates made for c, with those of the first k actions of the path.  *)
CreditedBy(c, k) == {j \in 1..k : Credit(j) = c}
Tally(c, k) == Credited(c) + Cardinality(CreditedBy(c, k))
TallyOf(p, k) == [b \in Seq(Action) |-> Tally(<<p, b>>, k)]
CreditsOf(p) == [b \in Seq(Action) |-> Credited(<<p, b>>)]

CreditsAreCounts == \A c \in DOMAIN credits : credits[c] \in Nat

(* Only finitely many of the actions are credited to c. *)
LEMMA TallyIn ==
  ASSUME CreditsAreCounts, NEW c
  PROVE  /\ Credited(c) \in Nat
         /\ \A k \in Nat : /\ IsFiniteSet(CreditedBy(c, k))
                           /\ Cardinality(CreditedBy(c, k)) \in Nat
                           /\ Tally(c, k) \in Nat
<1>1. Credited(c) \in Nat
  BY DEF CreditsAreCounts, Credited
<1>2. ASSUME NEW k \in Nat
      PROVE  IsFiniteSet(CreditedBy(c, k)) /\ Cardinality(CreditedBy(c, k)) \in Nat
  <2>1. IsFiniteSet(1..k)
    BY FS_Interval
  <2>2. CreditedBy(c, k) \subseteq 1..k
    BY DEF CreditedBy
  <2>3. IsFiniteSet(CreditedBy(c, k))
    BY <2>1, <2>2, FS_Subset
  <2> QED
    BY <2>3, FS_CardinalityType
<1> QED
  BY <1>1, <1>2 DEF Tally

(* At first it is what was credited before, *)
LEMMA TallyFirst ==
  ASSUME CreditsAreCounts, NEW c
  PROVE  Tally(c, 0) = Credited(c)
<1>1. CreditedBy(c, 0) = {}
  BY DEF CreditedBy
<1>2. Cardinality({}) = 0
  BY FS_EmptySet
<1>3. Credited(c) \in Nat
  BY TallyIn
<1> QED
  BY <1>1, <1>2, <1>3 DEF Tally

(* and every action adds what it is credited with. *)
LEMMA TallyNext ==
  ASSUME CreditsAreCounts, NEW c, NEW k \in Nat
  PROVE  Tally(c, k + 1) = Tally(c, k) + (IF Credit(k + 1) = c THEN 1 ELSE 0)
<1> DEFINE S == CreditedBy(c, k)
           R == CreditedBy(c, k + 1)
<1>1. IsFiniteSet(S) /\ Cardinality(S) \in Nat /\ Credited(c) \in Nat
  BY TallyIn
<1>2. k + 1 \notin S /\ \A j \in 1..(k + 1) : j = k + 1 \/ j \in 1..k
  BY DEF CreditedBy
<1>3. R = IF Credit(k + 1) = c THEN S \cup {k + 1} ELSE S
  <2>1. \A j \in 1..k : j \in 1..(k + 1)
    OBVIOUS
  <2>2. k + 1 \in 1..(k + 1)
    OBVIOUS
  <2> QED
    BY <1>2, <2>1, <2>2 DEF CreditedBy
<1>4. Cardinality(S \cup {k + 1}) = Cardinality(S) + 1
  BY <1>1, <1>2, FS_AddElement
<1> HIDE DEF S, R
<1>5. Cardinality(R) = Cardinality(S) + (IF Credit(k + 1) = c THEN 1 ELSE 0)
  <2>1. CASE Credit(k + 1) = c
    BY <1>3, <1>4, <2>1
  <2>2. CASE Credit(k + 1) # c
    BY <1>1, <1>3, <2>2
  <2> QED
    BY <2>1, <2>2
<1>6. Tally(c, k) = Credited(c) + Cardinality(S) /\ Tally(c, k + 1) = Credited(c) + Cardinality(R)
  BY DEF Tally, S, R
<1> QED
  BY <1>1, <1>5, <1>6

(* What holds after the first k updates: the tables are good and count     *)
(* them, and the context stands for what comes before the next action.     *)
InIt(t, c, acts) == c \in Index(t) /\ Named(t, c) = Written(acts)

UpTo(k) ==
  LET x == Updated[k]
  IN /\ AllGood(x.moves)
     /\ \A p \in Player : Counts(x.moves[p], TallyOf(p, k))
     /\ k < Len(path) => InIt(x.moves[path[k + 1].player], x.context, Part(k + 1))

(* Before the first update. *)
LEMMA UpdatesBegin ==
  ASSUME InContext, CreditsAreCounts, pc = "update",
         \A p \in Player : Counts(moves[p], CreditsOf(p))
  PROVE  UpTo(0)
<1>1. path \in Seq(Step) /\ Len(path) \in Nat /\ context = 0 /\ AllGood(moves)
  BY DEF InContext, Playing, Types, Depths
<1>2. Updated[0] = [moves |-> moves, context |-> context]
  BY <1>1, UpdatedIs
<1>3. \A p \in Player : TallyOf(p, 0) = CreditsOf(p)
  BY TallyFirst DEF TallyOf, CreditsOf
<1>4. ASSUME 0 < Len(path)
      PROVE  InIt(moves[path[0 + 1].player], context, Part(0 + 1))
  <2>1. path[0 + 1].player \in Player
    <3>1. path[0 + 1] \in Step
      BY <1>1, <1>4
    <3> QED
      BY <3>1 DEF Step
  <2>2. IsGood(moves[path[0 + 1].player])
    BY <1>1, <2>1 DEF AllGood
  <2>3. Part(0 + 1) = <<>>
    BY PartBegins
  <2>4. 0 \in Index(moves[path[0 + 1].player])
    BY <2>2, SizeIs DEF IsGood, IsWhole
  <2>5. Named(moves[path[0 + 1].player], 0) = <<>>
    BY <2>2, <2>4, NamedSeq
  <2> QED
    BY <1>1, <2>3, <2>4, <2>5, WrittenEmpty DEF InIt
<1> QED
  BY <1>1, <1>2, <1>3, <1>4 DEF UpTo

(* Update k + 1 makes u of the table t of player p, counting in bucket i.  *)
UpdatedTable(k, p, a, t, u, i) ==
  /\ p = path[k + 1].player /\ a = path[k + 1].action /\ t = Updated[k].moves[p]
  /\ IsGood(t) /\ InIt(t, Updated[k].context, Part(k + 1))
  /\ IsGood(u) /\ Extends(t, u) /\ OneMoreIn(t, u, i)
  /\ Named(u, i) = TurnUpTo(k + 1)
  /\ AllGood(Updated[k + 1].moves)
  /\ Updated[k + 1].moves[p] = u
  /\ \A q \in Player \ {p} : Updated[k + 1].moves[q] = Updated[k].moves[q]
  /\ Updated[k + 1].context = IF a \in Switch THEN 0
                              ELSE IF a \in Dot THEN Updated[k].context ELSE i

(* What the next update makes of the tables. *)
LEMMA UpdateNext ==
  ASSUME path \in Seq(Step), NEW k \in Nat, k < Len(path), UpTo(k), Roomy(Updated[k + 1].moves)
  PROVE  \E p \in Player, a \in Action : \E t, u, i : UpdatedTable(k, p, a, t, u, i)
<1> DEFINE x == Updated[k]
           y == Updated[k + 1]
           p == path[k + 1].player
           a == path[k + 1].action
           t == x.moves[p]
           c == x.context
           r == insert_or_update(t, a, c)
           u == r.table
           i == r.index
<1>1. p \in Player /\ a \in Action /\ Len(path) \in Nat
  <2>1. path[k + 1] \in Step
    OBVIOUS
  <2> QED
    BY <2>1 DEF Step
<1>2. y = update_move(x, path[k + 1])
  <2>1. k + 1 \in 1..Len(path) /\ (k + 1) - 1 = k
    BY <1>1
  <2>2. Updated[k + 1] = update_move(Updated[(k + 1) - 1], path[k + 1])
    BY <1>1, <2>1, UpdatedIs
  <2> QED
    BY <2>1, <2>2
<1>3. /\ y.moves = [x.moves EXCEPT ![p] = u]
      /\ y.context = CASE a \in Switch -> 0 [] a \in Dot -> c [] OTHER -> i
  <2> HIDE DEF x, y
  <2> QED
    BY <1>2 DEF update_move
<1>4. AllGood(x.moves) /\ InIt(t, c, Part(k + 1))
  BY DEF UpTo
<1>5. x.moves = [q \in Player |-> x.moves[q]] /\ IsGood(t)
  BY <1>1, <1>4 DEF AllGood
<1>6. c \in Index(t) /\ Named(t, c) = Written(Part(k + 1))
  BY <1>4 DEF InIt
<1> HIDE DEF x, y, p, a
<1>7. y.moves = [q \in Player |-> IF q = p THEN u ELSE x.moves[q]]
  <2> HIDE DEF u
  <2> QED
    BY <1>3, <1>5
<1>8. y.moves[p] = u /\ \A q \in Player \ {p} : y.moves[q] = x.moves[q]
  BY <1>1, <1>7
<1>9. u.capacity_level \in DOMAIN HASH_PRIMES
  <2>1. Roomy(y.moves)
    BY DEF y
  <2> HIDE DEF u
  <2> QED
    BY <1>1, <1>8, <2>1 DEF Roomy
<1> HIDE DEF t, c
<1>10. /\ IsGood(u) /\ Extends(t, u)
       /\ i \in Index(u) \ {0} /\ Equals(u, i, a, c)
       /\ \A j \in Index(u) : Bucket(u, j).weight = (IF j \in Index(t) THEN Bucket(t, j).weight ELSE 0)
                                                      + (IF j = i THEN 1 ELSE 0)
  BY <1>1, <1>5, <1>6, <1>9, UpdateIs
<1> HIDE DEF r, u, i
<1>11. OneMoreIn(t, u, i)
  BY <1>10 DEF OneMoreIn
<1>12. Named(u, i) = TurnUpTo(k + 1)
  <2>1. Named(u, i) = Append(Named(u, c), a)
    BY <1>10, NamedStepIs DEF Equals
  <2>2. Named(u, c) = Named(t, c)
    BY <1>5, <1>6, <1>10, NamedKept
  <2>3. TurnUpTo(k + 1) = Append(Written(Part(k + 1)), a)
    BY TurnUpToIs DEF a
  <2> QED
    BY <1>6, <2>1, <2>2, <2>3
<1>13. AllGood(y.moves)
  BY <1>1, <1>4, <1>7, <1>8, <1>10 DEF AllGood
<1>14. y.context = IF a \in Switch THEN 0 ELSE IF a \in Dot THEN c ELSE i
  <2>1. a \in Switch => a \notin Dot
    BY PlayoutAssumption
  <2> QED
    BY <1>3, <2>1
<1>15. p = path[k + 1].player /\ a = path[k + 1].action /\ t = x.moves[p]
  BY DEF p, a, t
<1>16. UpdatedTable(k, p, a, t, u, i)
  BY <1>1, <1>4, <1>5, <1>8, <1>10, <1>11, <1>12, <1>13, <1>14, <1>15 DEF UpdatedTable, x, y, c
<1> QED
  BY <1>1, <1>16

(* Each update keeps what holds. *)
LEMMA UpdatesGoOn ==
  ASSUME path \in Seq(Step), OnePlayer, CreditsAreCounts,
         NEW k \in Nat, k < Len(path), UpTo(k), Roomy(Updated[k + 1].moves)
  PROVE  UpTo(k + 1)
<1>0. PICK p \in Player, a \in Action : \E t, u, i : UpdatedTable(k, p, a, t, u, i)
  BY UpdateNext
<1>1. PICK t, u, i :
           /\ p = path[k + 1].player /\ a = path[k + 1].action /\ t = Updated[k].moves[p]
           /\ IsGood(t) /\ InIt(t, Updated[k].context, Part(k + 1))
           /\ IsGood(u) /\ Extends(t, u) /\ OneMoreIn(t, u, i)
           /\ Named(u, i) = TurnUpTo(k + 1)
           /\ AllGood(Updated[k + 1].moves)
           /\ Updated[k + 1].moves[p] = u
           /\ \A q \in Player \ {p} : Updated[k + 1].moves[q] = Updated[k].moves[q]
           /\ Updated[k + 1].context = IF a \in Switch THEN 0
                                       ELSE IF a \in Dot THEN Updated[k].context ELSE i
  BY <1>0 DEF UpdatedTable
<1> DEFINE y == Updated[k + 1]
<1>2. Len(path) \in Nat
  OBVIOUS
<1>3. \A q \in Player : Counts(Updated[k].moves[q], TallyOf(q, k))
  BY DEF UpTo
<1>4. Credit(k + 1) = <<p, Named(u, i)>>
  BY <1>1 DEF Credit
<1>5. \A q \in Player : Counts(y.moves[q], TallyOf(q, k + 1))
  <2> TAKE q \in Player
  <2>1. CASE q = p
    <3> DEFINE w == TallyOf(p, k)
               v == TallyOf(p, k + 1)
    <3>1. Counts(t, w)
      BY <1>1, <1>3
    <3>2. \A b \in Seq(Action) : w[b] = Tally(<<p, b>>, k) /\ v[b] = Tally(<<p, b>>, k + 1)
      BY DEF TallyOf
    <3>3. \A b \in Seq(Action) : v[b] = w[b] + (IF b = Named(u, i) THEN 1 ELSE 0)
      <4> TAKE b \in Seq(Action)
      <4>1. Tally(<<p, b>>, k + 1) = Tally(<<p, b>>, k) + (IF Credit(k + 1) = <<p, b>> THEN 1 ELSE 0)
        BY TallyNext
      <4>2. Credit(k + 1) = <<p, b>> <=> b = Named(u, i)
        BY <1>4
      <4> QED
        BY <3>2, <4>1, <4>2
    <3> HIDE DEF w, v
    <3>4. Counts(u, v)
      BY <1>1, <3>1, <3>3, CountsMore
    <3> QED
      BY <1>1, <2>1, <3>4 DEF v
  <2>2. CASE q # p
    <3>1. \A b \in Seq(Action) : Tally(<<q, b>>, k + 1) = Tally(<<q, b>>, k)
      <4> TAKE b \in Seq(Action)
      <4>1. Tally(<<q, b>>, k + 1) = Tally(<<q, b>>, k) + (IF Credit(k + 1) = <<q, b>> THEN 1 ELSE 0)
        BY TallyNext
      <4>2. Credit(k + 1) # <<q, b>>
        BY <1>4, <2>2
      <4>3. Tally(<<q, b>>, k) \in Nat
        BY TallyIn
      <4> QED
        BY <4>1, <4>2, <4>3
    <3>2. TallyOf(q, k + 1) = TallyOf(q, k)
      BY <3>1 DEF TallyOf
    <3> QED
      BY <1>1, <1>3, <2>2, <3>2
  <2> QED
    BY <2>1, <2>2
<1>6. ASSUME k + 1 < Len(path)
      PROVE  InIt(y.moves[path[(k + 1) + 1].player], y.context, Part((k + 1) + 1))
  <2> DEFINE q == path[(k + 1) + 1].player
  <2>1. q \in Player
    <3>1. path[(k + 1) + 1] \in Step
      BY <1>2, <1>6
    <3> QED
      BY <3>1 DEF Step
  <2>2. CASE a \in Switch
    <3>1. y.context = 0 /\ Part((k + 1) + 1) = <<>>
      BY <1>1, <2>2, PartBegins
    <3>2. IsGood(y.moves[q])
      BY <1>1, <2>1 DEF AllGood
    <3> HIDE DEF q, y
    <3>3. 0 \in Index(y.moves[q]) /\ Named(y.moves[q], 0) = <<>>
      BY <3>2, SizeIs, NamedSeq DEF IsGood, IsWhole
    <3> QED
      BY <3>1, <3>3, WrittenEmpty DEF InIt, q
  <2>3. CASE a \notin Switch
    <3>1. q = p
      <4>1. k + 1 \in 1..(Len(path) - 1)
        BY <1>2, <1>6
      <4> QED
        BY <1>1, <2>3, <4>1 DEF OnePlayer
    <3>2. Part(k + 1) \in Seq(Action) /\ Part((k + 1) + 1) = Append(Part(k + 1), a)
      BY <1>1, <1>2, <1>6, <2>3, PartGoesOn
    <3>3. Written(Append(Part(k + 1), a)) = IF a \in Dot THEN Written(Part(k + 1)) ELSE Append(Written(Part(k + 1)), a)
      BY <3>2, WrittenAppend
    <3>4. Updated[k].context \in Index(t) /\ Named(t, Updated[k].context) = Written(Part(k + 1))
      BY <1>1 DEF InIt
    <3>5. CASE a \in Dot
      <4>1. y.context = Updated[k].context
        BY <1>1, <2>3, <3>5
      <4>2. y.context \in Index(u) /\ Named(u, y.context) = Named(t, y.context)
        BY <1>1, <3>4, <4>1, NamedKept
      <4> QED
        BY <1>1, <3>1, <3>2, <3>3, <3>4, <3>5, <4>1, <4>2 DEF InIt
    <3>6. CASE a \notin Dot
      <4>1. y.context = i
        BY <1>1, <2>3, <3>6
      <4>2. Named(u, i) = Append(Written(Part(k + 1)), a) /\ i \in Index(u)
        BY <1>1, TurnUpToIs DEF OneMoreIn
      <4> QED
        BY <1>1, <3>1, <3>2, <3>3, <3>6, <4>1, <4>2 DEF InIt
    <3> QED
      BY <3>5, <3>6
  <2> QED
    BY <2>2, <2>3
<1> HIDE DEF y
<1> QED
  BY <1>1, <1>5, <1>6 DEF UpTo, y

(* So it is after the last update. *)
LEMMA AllUpdated ==
  ASSUME InContext, CreditsAreCounts, pc = "update",
         \A p \in Player : Counts(moves[p], CreditsOf(p)),
         \A k \in DOMAIN path : Roomy(Updated[k].moves)
  PROVE  UpTo(Len(path))
<1> DEFINE S == {k \in Nat : k <= Len(path) => UpTo(k)}
<1>1. path \in Seq(Step) /\ Len(path) \in Nat /\ OnePlayer
  BY DEF InContext, Playing, Types
<1>2. 0 \in S
  BY UpdatesBegin
<1>3. ASSUME NEW k \in Nat, k \in S
      PROVE  k + 1 \in S
  <2> SUFFICES ASSUME k + 1 <= Len(path) PROVE UpTo(k + 1)
    OBVIOUS
  <2>1. k < Len(path) /\ UpTo(k) /\ k + 1 \in DOMAIN path
    BY <1>1, <1>3
  <2> QED
    BY <1>1, <2>1, UpdatesGoOn
<1> HIDE DEF S
<1>4. \A k \in Nat : k \in S
  BY <1>2, <1>3, SetInduction
<1>5. Len(path) \in S
  BY <1>1, <1>4
<1> QED
  BY <1>1, <1>5 DEF S

(* The counts of the tables are the credits. *)
Scored ==
  /\ CreditsAreCounts
  /\ \A p \in Player : Counts(moves[p], CreditsOf(p))

IInv == InContext /\ Scored

(* It begins with nothing counted, *)
LEMMA InitScored ==
  Init => Scored
<1> SUFFICES ASSUME Init PROVE Scored
  OBVIOUS
<1>1. credits = <<>> /\ moves = [p \in Player |-> FreshTable]
  BY DEF Init
<1>2. DOMAIN credits = {}
  BY <1>1
<1>3. \A c : Credited(c) = 0
  BY <1>2 DEF Credited
<1>4. CreditsAreCounts
  BY <1>2 DEF CreditsAreCounts
<1>5. Index(FreshTable) = {0}
  BY DEF Index, FreshTable
<1>6. \A p \in Player : Counts(FreshTable, CreditsOf(p))
  BY <1>3, <1>5 DEF Counts, CreditsOf
<1> QED
  BY <1>1, <1>4, <1>6 DEF Scored

(* inserting counts nothing, *)
LEMMA SameScored ==
  ASSUME AllGood(moves), AllGood(moves'), Scored, credits' = credits,
         \A p \in Player : moves'[p] = moves[p] \/ (Extends(moves[p], moves'[p]) /\ SameCounts(moves[p], moves'[p]))
  PROVE  Scored'
<1>1. CreditsAreCounts' /\ \A p \in Player : CreditsOf(p)' = CreditsOf(p)
  BY DEF Scored, CreditsAreCounts, CreditsOf, Credited
<1>2. ASSUME NEW p \in Player
      PROVE  Counts(moves'[p], CreditsOf(p))
  <2> DEFINE t == moves[p]
             u == moves'[p]
             w == CreditsOf(p)
  <2>1. Counts(t, w) /\ IsGood(t) /\ IsGood(u) /\ (u = t \/ (Extends(t, u) /\ SameCounts(t, u)))
    BY DEF Scored, AllGood
  <2> HIDE DEF t, u, w
  <2>2. Counts(u, w)
    BY <2>1, CountsKept
  <2> QED
    BY <2>2 DEF u, w
<1> QED
  BY <1>1, <1>2 DEF Scored

(* an action inserts at most, *)
LEMMA TakeScored ==
  ASSUME InContext, Scored, NEW e, TakeAction(e), AllGood(moves')
  PROVE  Scored'
<1> DEFINE p == Mover[state]
           a == e[1]
<1>1. Playing /\ pc = "play" /\ AllGood(moves)
  BY DEF InContext, TakeAction
<1>2. e \in Semimoves[state] /\ state \in State /\ p \in Player
  BY <1>1, LastChoices DEF TakeAction
<1>3. a \in Action
  BY <1>2, SemimoveIs
<1>4. switch_context(a, p) /\ Roomy(moves') /\ credits' = credits
  BY DEF TakeAction
<1>5. CASE moves' = moves
  BY <1>1, <1>4, <1>5, SameScored
<1>6. CASE moves' = [moves EXCEPT ![p] = find_or_insert(moves[p], a, context).table]
  <2>1. context \in Index(moves[p])
    <3> DEFINE n == Len(turn) + 1
    <3>1. n \in 1..(Len(turn) + 1) /\ Seen[n] = context
      BY <1>1 DEF Playing, Types, Depths, Seen
    <3> HIDE DEF n
    <3>2. Seen[n] \in Index(moves[Mover[state]])
      BY <1>1, <3>1 DEF InContext, Contexts
    <3> QED
      BY <3>1, <3>2
  <2> DEFINE new == moves'
             c == context
  <2>2. /\ Roomy(new) /\ AllGood(moves) /\ p \in Player /\ c \in Index(moves[p])
        /\ new = [moves EXCEPT ![p] = find_or_insert(moves[p], a, c).table]
    BY <1>1, <1>2, <1>4, <1>6, <2>1
  <2> HIDE DEF new, p, a, c
  <2>3. Inserted(moves, p, a, c, new)
    BY <1>3, <2>2, InsertGood
  <2>4. \A q \in Player : new[q] = moves[q] \/ (Extends(moves[q], new[q]) /\ SameCounts(moves[q], new[q]))
    BY <2>3 DEF Inserted
  <2> QED
    BY <1>1, <1>4, <2>4, SameScored DEF new
<1> QED
  BY <1>4, <1>5, <1>6 DEF switch_context

(* and the updates count what they are credited with. *)
LEMMA UpdateKeeps ==
  ASSUME InContext, Scored, UpdateAllMoves
  PROVE  InContext' /\ Scored'
<1> DEFINE n == Len(path)
<1>1. /\ pc = "update" /\ \A k \in DOMAIN path : Roomy(Updated[k].moves)
      /\ moves' = Updated[n].moves
      /\ context' = 0 /\ context_stack' = <<>> /\ path' = <<>> /\ pc' = "idle"
      /\ state' = state /\ legal_actions' = legal_actions /\ reverters' = reverters /\ turn' = turn
  BY DEF UpdateAllMoves, recursion
<1>2. path \in Seq(Step) /\ n \in Nat /\ turn = <<>> /\ DOMAIN path = 1..n
  BY <1>1 DEF InContext, Playing, Types, Depths
<1>3. CreditsAreCounts /\ UpTo(n)
  BY <1>1, AllUpdated DEF Scored
<1>4. /\ AllGood(moves')
      /\ \A p \in Player : Counts(moves'[p], TallyOf(p, n))
  BY <1>1, <1>3 DEF UpTo
<1>5. InContext'
  <2>1. Types' /\ Depths'
    BY <1>1, <1>2 DEF InContext, Playing, Types, Depths
  <2>2. PathEnds' /\ OnePlayer'
    BY <1>1, <1>2 DEF PathEnds, OnePlayer
  <2>3. Options' /\ Contexts'
    BY <1>1 DEF Options, Contexts
  <2> QED
    BY <1>4, <2>1, <2>2, <2>3 DEF InContext, Playing
<1>6. credits' = [c \in DOMAIN credits \union {Credit(k) : k \in 1..n} |-> Tally(c, n)]
  BY <1>2 DEF UpdateAllMoves, Tally, CreditedBy
<1> HIDE DEF n
<1>7. CreditsAreCounts'
  <2>1. \A c : Tally(c, n) \in Nat
    BY <1>2, <1>3, TallyIn
  <2> QED
    BY <1>6, <2>1 DEF CreditsAreCounts
<1>8. \A c : Credited(c)' = Tally(c, n)
  <2> TAKE c
  <2>1. CASE c \in DOMAIN credits \union {Credit(k) : k \in 1..n}
    BY <1>6, <2>1 DEF Credited
  <2>2. CASE c \notin DOMAIN credits \union {Credit(k) : k \in 1..n}
    <3>1. CreditedBy(c, n) = {}
      BY <2>2 DEF CreditedBy
    <3>2. Cardinality({}) = 0
      BY FS_EmptySet
    <3>3. Tally(c, n) = 0
      BY <2>2, <3>1, <3>2 DEF Tally, Credited
    <3>4. c \notin DOMAIN credits'
      BY <1>6, <2>2
    <3> QED
      BY <3>3, <3>4 DEF Credited
  <2> QED
    BY <2>1, <2>2
<1>9. \A p \in Player : CreditsOf(p)' = TallyOf(p, n)
  BY <1>8 DEF CreditsOf, TallyOf
<1> QED
  BY <1>4, <1>5, <1>7, <1>9 DEF Scored

(* The inductive invariant holds. *)
LEMMA Invariant ==
  Spec => []IInv
<1>1. Init => IInv
  BY InitPlaying, InitScored DEF IInv
<1>2. IInv /\ [Next]_vars => IInv'
  <2> SUFFICES ASSUME IInv, [Next]_vars PROVE IInv'
    OBVIOUS
  <2>1. InContext /\ Scored /\ AllGood(moves)
    BY DEF IInv, InContext
  <2>2. CASE BeginPlayout
    <3>1. InContext'
      BY <2>1, <2>2, BeginKeeps
    <3>2. moves' = moves /\ credits' = credits /\ AllGood(moves')
      BY <2>1, <2>2 DEF BeginPlayout
    <3> QED
      BY <2>1, <3>1, <3>2, SameScored DEF IInv
  <2>3. CASE TakeBack
    <3>1. InContext'
      BY <2>1, <2>3, TakeBackKeeps
    <3>2. moves' = moves /\ credits' = credits /\ AllGood(moves')
      BY <2>1, <2>3 DEF TakeBack
    <3> QED
      BY <2>1, <3>1, <3>2, SameScored DEF IInv
  <2>4. CASE EndPlayout
    <3>1. InContext'
      BY <2>1, <2>4, EndKeeps
    <3>2. moves' = moves /\ credits' = credits /\ AllGood(moves')
      BY <2>1, <2>4 DEF EndPlayout
    <3> QED
      BY <2>1, <3>1, <3>2, SameScored DEF IInv
  <2>5. CASE UpdateAllMoves
    BY <2>1, <2>5, UpdateKeeps DEF IInv
  <2>6. ASSUME NEW e \in UNION {Semimoves[s] : s \in State}, TakeAction(e)
        PROVE  IInv'
    <3>1. InContext'
      BY <2>1, <2>6, TakeLast, TakeNext
    <3>2. AllGood(moves')
      BY <3>1 DEF InContext
    <3> QED
      BY <2>1, <2>6, <3>1, <3>2, TakeScored DEF IInv
  <2>7. CASE UNCHANGED vars
    <3>1. /\ moves' = moves /\ credits' = credits /\ pc' = pc
          /\ context' = context /\ context_stack' = context_stack /\ path' = path
          /\ state' = state /\ legal_actions' = legal_actions /\ reverters' = reverters /\ turn' = turn
      BY <2>7 DEF vars, chooser, recursion
    <3>2. AllGood(moves')
      BY <2>1, <3>1
    <3>3. Scored'
      BY <2>1, <3>1, <3>2, SameScored
    <3>4. Types' /\ Depths' /\ PathEnds' /\ OnePlayer'
      BY <2>1, <3>1 DEF InContext, Playing, Types, Depths, PathEnds, OnePlayer
    <3>5. Options' /\ Contexts'
      BY <2>1, <3>1 DEF InContext, Playing, Options, Here, Contexts, Seen
    <3> QED
      BY <3>2, <3>3, <3>4, <3>5 DEF IInv, InContext, Playing
  <2> QED
    BY <2>2, <2>3, <2>4, <2>5, <2>6, <2>7 DEF Next
<1> QED
  BY <1>1, <1>2, PTL DEF Spec

(* Wherever a turn has got to, its contexts stand for exactly the actions  *)
(* before them: revert_context and switch_context of mast_context keep     *)
(* context and context_stack in step with apply_random_move_exhaustive.    *)
THEOREM ContextIsTurn ==
  Spec => []ContextNamesTurn
<1>1. IInv => ContextNamesTurn
  <2> SUFFICES ASSUME IInv PROVE ContextNamesTurn
    OBVIOUS
  <2> DEFINE m == Len(turn)
             t == moves[Mover[state]]
  <2>1. /\ Playing /\ AllGood(moves) /\ Contexts
        /\ turn \in Seq(Action) /\ m \in Nat /\ path \in Seq(Step) /\ Len(context_stack) = m
        /\ context_stack \in Seq(Nat) /\ context \in Nat
    BY DEF IInv, InContext, Playing, Types, Depths
  <2>2. CASE pc = "play"
    <3>1. IsGood(t)
      BY <2>1, <2>2 DEF AllGood, Playing, Options
    <3>2. \A k \in 1..(m + 1) : Seen[k] \in Index(t) /\ Named(t, Seen[k]) = Written(SubSeq(turn, 1, k - 1))
      BY <2>1, <2>2 DEF Contexts
    <3>3. CASE turn = <<>>
      <4>1. Seen[1] = context /\ SubSeq(turn, 1, 1 - 1) = <<>> /\ 1 \in 1..(m + 1)
        BY <2>1, <3>3 DEF Seen
      <4> HIDE DEF t, m
      <4>2. context \in Index(t) /\ Named(t, context) = <<>>
        BY <3>2, <4>1, WrittenEmpty
      <4>3. context = 0
        BY <3>1, <4>2, NamedSeq
      <4> QED
        BY <2>1, <3>3, <4>3 DEF ContextNamesTurn, m
    <3>4. CASE turn # <<>>
      <4>1. Last(path).player = Mover[state]
        <5>1. m >= 1 /\ m <= Len(path) /\ m \in 1..m /\ (Len(path) - m) + m = Len(path)
          BY <2>1, <3>4 DEF Playing, PathEnds
        <5>2. path[(Len(path) - m) + m] = [action |-> turn[m], player |-> Mover[state]]
          BY <2>1, <5>1 DEF Playing, PathEnds
        <5> QED
          BY <5>1, <5>2 DEF Last
      <4> QED
        BY <2>1, <3>2, <3>4, <4>1 DEF ContextNamesTurn, Seen
    <3> QED
      BY <3>3, <3>4
  <2>3. CASE pc # "play"
    BY <2>1, <2>3 DEF ContextNamesTurn, Playing, Depths
  <2> QED
    BY <2>2, <2>3
<1> QED
  BY <1>1, Invariant, PTL

(* However a hash table grew and whatever collided in it, a look-up of the *)
(* beginning of a turn after a playout finds the updates made for it, all  *)
(* of them and no others: find_or_get_default, find_or_insert, grow_hashtable *)
(* and update_all_moves agree on what a bucket stands for.                 *)
THEOREM ScoresAreCredits ==
  Spec => []ScoresInContext
<1>1. IInv => ScoresInContext
  <2> SUFFICES ASSUME IInv, NEW p \in Player, NEW b \in Beginnings
               PROVE  Score(moves[p], b) = Credited(<<p, b>>)
    BY DEF ScoresInContext
  <2>1. b \in Seq(Action) /\ b # <<>>
    <3>1. PICK s \in Nodal : \E r \in Reachable[s] : b = r.actions
      BY DEF Beginnings
    <3>2. s \in State
      BY SplitGameAssumption
    <3> QED
      BY <3>1, <3>2, SplitGameAssumption
  <2> DEFINE t == moves[p]
             i == BucketOf(t, b)
             w == CreditsOf(p)
  <2>2. IsGood(t) /\ Counts(t, w) /\ w[b] = Credited(<<p, b>>)
    BY <2>1 DEF IInv, InContext, AllGood, Scored, CreditsOf
  <2>3. StandsFor(t, b, Len(b), i)
    <3> HIDE DEF t
    <3> QED
      BY <2>1, <2>2, BucketOfFinds
  <2> HIDE DEF t, i, w
  <2>4. SubSeq(b, 1, Len(b)) = b
    BY <2>1
  <2>5. i \in Index(t) /\ (i # 0 => Named(t, i) = b) /\ (i = 0 => \A j \in Index(t) \ {0} : Named(t, j) # b)
    BY <2>3, <2>4 DEF StandsFor
  <2>6. Bucket(t, i).weight = w[b]
    <3>1. CASE i # 0
      BY <2>2, <2>5, <3>1 DEF Counts
    <3>2. CASE i = 0
      <4>1. w[b] = 0
        BY <2>1, <2>2, <2>5, <3>2 DEF Counts
      <4> QED
        BY <2>2, <3>2, <4>1 DEF IsGood
    <3> QED
      BY <3>1, <3>2
  <2> QED
    BY <2>2, <2>6 DEF Score, t, i
<1> QED
  BY <1>1, Invariant, PTL

(* The updates begin and end in no context, however the playout ended: the *)
(* assertion at the end of update_all_moves.                               *)
THEOREM UpdatesEndTurns ==
  Spec => [][UpdateAllMoves => Updated[0].context = 0 /\ Updated[Len(path)].context = 0]_vars
<1>1. IInv /\ UpdateAllMoves => Updated[0].context = 0 /\ Updated[Len(path)].context = 0
  <2> SUFFICES ASSUME IInv, UpdateAllMoves
               PROVE  Updated[0].context = 0 /\ Updated[Len(path)].context = 0
    OBVIOUS
  <2> DEFINE n == Len(path)
             y == Updated[n]
  <2>1. pc = "update" /\ \A k \in DOMAIN path : Roomy(Updated[k].moves)
    BY DEF UpdateAllMoves
  <2>2. path \in Seq(Step) /\ n \in Nat /\ turn = <<>> /\ context = 0 /\ InContext /\ PathEnds
    BY <2>1 DEF IInv, InContext, Playing, Types, Depths
  <2>3. Updated[0].context = 0
    BY <2>2, UpdatedIs
  <2>4. CASE n = 0
    BY <2>3, <2>4
  <2>5. CASE n > 0
    <3>1. path[n].action \in Switch
      <4>1. Len(turn) = 0 /\ n - 0 = n
        BY <2>2
      <4> QED
        BY <2>2, <2>5, <4>1 DEF PathEnds
    <3> DEFINE x == Updated[n - 1]
               i == insert_or_update(x.moves[path[n].player], path[n].action, x.context)
    <3>2. y = update_move(x, path[n])
      BY <2>2, <2>5, UpdatedIs
    <3> HIDE DEF x, y, n
    <3>3. y.context = CASE path[n].action \in Switch -> 0
                        [] path[n].action \in Dot -> x.context
                        [] OTHER -> i.index
      BY <3>2 DEF update_move
    <3>4. path[n].action \notin Dot
      BY <3>1, PlayoutAssumption
    <3>5. y.context = 0
      BY <3>1, <3>3, <3>4
    <3> QED
      BY <2>3, <3>5 DEF y, n
  <2> QED
    BY <2>2, <2>4, <2>5
<1> QED
  BY <1>1, Invariant, PTL
=============================================================================
