----------------------------- MODULE ProxyProofs -----------------------------
(***************************************************************************)
(* Proofs about Proxy for all texts, quotas and windows.                   *)
(***************************************************************************)
EXTENDS Proxy, SequenceTheorems, TLAPS

-----------------------------------------------------------------------------
(* What a stream of bytes carries.                                         *)

Word == Seq(Nat \ {NUL}) \ {<<>>}  \* whole texts

(* The bytes s are n texts and tail, the beginning of one more; part holds *)
(* the rests of s behind each of them.  The first pre of the texts and     *)
(* those in drop go nowhere; the others are texts[base + 1], ...,          *)
(* texts[top], which rank counts.                                          *)
CarriesBy(s, pre, drop, n, base, top, tail, texts, part, text, rank) ==
  /\ part[0] = s /\ part[n] = tail
  /\ rank[0] = base /\ rank[n] = top
  /\ \A i \in 1..n :
       /\ part[i - 1] = Framed(text[i]) \o part[i]
       /\ IF i <= pre \/ text[i] \in drop THEN rank[i] = rank[i - 1]
          ELSE rank[i] = rank[i - 1] + 1 /\ texts[rank[i]] = text[i]

Carries(s, pre, drop, n, base, top, tail, texts) ==
  \E part \in [0..n -> Seq(Nat)], text \in [1..n -> Word], rank \in [0..n -> 0..top] :
    CarriesBy(s, pre, drop, n, base, top, tail, texts, part, text, rank)

(* The first text of a stream is w: how many of those that go nowhere are  *)
(* left behind it, and the rank from which the rest counts.                *)
Left(pre) == IF pre = 0 THEN 0 ELSE pre - 1

Counted(w, pre, drop, base, next, texts) ==
  IF 1 <= pre \/ w \in drop THEN next = base ELSE next = base + 1 /\ texts[next] = w

(* Texts are read as bytes. *)
LEMMA Words ==
  /\ Word \subseteq Seq(Nat)
  /\ \A w \in Word : /\ Framed(w) \in Seq(Nat)
                     /\ Len(Framed(w)) = Len(w) + 1 /\ Len(w) \in Nat \ {0}
                     /\ \A i \in 1..Len(w) : Framed(w)[i] = w[i] /\ w[i] # NUL
                     /\ Framed(w)[Len(w) + 1] = NUL
<1>1. \A w \in Word : w \in Seq(Nat)
  <2> TAKE w \in Word
  <2>1. w \in Seq(Nat \ {NUL})
    BY DEF Word
  <2> QED BY <2>1, SeqMonotonic
<1>2. ASSUME NEW w \in Word
      PROVE /\ Framed(w) \in Seq(Nat)
            /\ Len(Framed(w)) = Len(w) + 1 /\ Len(w) \in Nat \ {0}
            /\ \A i \in 1..Len(w) : Framed(w)[i] = w[i] /\ w[i] # NUL
            /\ Framed(w)[Len(w) + 1] = NUL
  <2>1. w \in Seq(Nat) /\ NUL \in Nat
    BY <1>1 DEF NUL
  <2>2. Len(w) \in Nat \ {0}
    BY <2>1, EmptySeq DEF Word
  <2>3. \A i \in 1..Len(w) : w[i] # NUL
    BY ElementOfSeq DEF Word
  <2> QED BY <2>1, <2>2, <2>3, AppendProperties DEF Framed
<1> QED BY <1>1, <1>2

(* Concatenation may be read from either end. *)
LEMMA Associative ==
  \A a \in Seq(Nat), b \in Seq(Nat), c \in Seq(Nat) : (a \o b) \o c = a \o (b \o c)
BY ConcatAssociative

(* Nothing carries nothing. *)
LEMMA CarriesNothing ==
  ASSUME NEW base \in Nat, NEW tail \in Seq(Nat), NEW pre, NEW drop, NEW texts
  PROVE  Carries(tail, pre, drop, 0, base, base, tail, texts)
<1> DEFINE part == [i \in 0..0 |-> tail]
           text == [i \in 1..0 |-> <<NUL>>]
           rank == [i \in 0..0 |-> base]
<1>1. /\ part \in [0..0 -> Seq(Nat)] /\ part[0] = tail
      /\ rank \in [0..0 -> 0..base] /\ rank[0] = base
  OBVIOUS
<1>2. text \in [1..0 -> Word]
  OBVIOUS
<1>3. \A i \in 1..0 : FALSE
  OBVIOUS
<1> HIDE DEF part, text, rank
<1> QED BY <1>1, <1>2, <1>3 DEF Carries, CarriesBy

(* Texts may be exchanged for others that agree on what is carried. *)
LEMMA CarriesFurther ==
  ASSUME NEW s \in Seq(Nat), NEW pre \in Nat, NEW drop, NEW n \in Nat, NEW base \in Nat, NEW top \in Nat,
         NEW tail \in Seq(Nat), NEW texts, NEW more,
         Carries(s, pre, drop, n, base, top, tail, texts),
         \A k \in 1..top : more[k] = texts[k]
  PROVE  Carries(s, pre, drop, n, base, top, tail, more)
<1>1. PICK part \in [0..n -> Seq(Nat)], text \in [1..n -> Word], rank \in [0..n -> 0..top] :
        CarriesBy(s, pre, drop, n, base, top, tail, texts, part, text, rank)
  BY DEF Carries
<1>2. ASSUME NEW i \in 1..n, ~(i <= pre \/ text[i] \in drop)
      PROVE  more[rank[i]] = text[i]
  <2>1. rank[i] \in 0..top /\ rank[i - 1] \in 0..top
    OBVIOUS
  <2>2. rank[i] \in 1..top
    BY <1>1, <1>2, <2>1 DEF CarriesBy
  <2> QED BY <1>1, <1>2, <2>2 DEF CarriesBy
<1>3. \A i \in 1..n : IF i <= pre \/ text[i] \in drop THEN rank[i] = rank[i - 1]
                      ELSE rank[i] = rank[i - 1] + 1 /\ more[rank[i]] = text[i]
  BY <1>1, <1>2, Zenon DEF CarriesBy
<1>4. CarriesBy(s, pre, drop, n, base, top, tail, more, part, text, rank)
  BY <1>1, <1>3, Zenon DEF CarriesBy
<1> QED BY <1>4 DEF Carries

(* The beginning of a text is written behind whole ones. *)
LEMMA CarriesTorn ==
  ASSUME NEW s \in Seq(Nat), NEW pre \in Nat, NEW drop, NEW n \in Nat, NEW base \in Nat, NEW top \in Nat,
         NEW t \in Seq(Nat), NEW texts,
         Carries(s, pre, drop, n, base, top, <<>>, texts)
  PROVE  Carries(s \o t, pre, drop, n, base, top, t, texts)
<1>1. PICK part \in [0..n -> Seq(Nat)], text \in [1..n -> Word], rank \in [0..n -> 0..top] :
        CarriesBy(s, pre, drop, n, base, top, <<>>, texts, part, text, rank)
  BY DEF Carries
<1> DEFINE on == [i \in 0..n |-> part[i] \o t]
<1>0. \A i \in 0..n : on[i] = part[i] \o t
  BY Zenon
<1>2. on \in [0..n -> Seq(Nat)]
  BY ConcatProperties
<1> HIDE DEF on
<1>3. on[0] = s \o t /\ on[n] = t
  <2>1. 0 \in 0..n /\ n \in 0..n /\ <<>> \o t = t
    BY ConcatEmptySeq
  <2> QED BY <1>0, <1>1, <2>1, Zenon DEF CarriesBy
<1>4. ASSUME NEW i \in 1..n PROVE on[i - 1] = Framed(text[i]) \o on[i]
  <2>1. part[i] \in Seq(Nat) /\ text[i] \in Word /\ i \in 0..n /\ i - 1 \in 0..n
    OBVIOUS
  <2>2. (Framed(text[i]) \o part[i]) \o t = Framed(text[i]) \o (part[i] \o t)
    <3>1. Framed(text[i]) \in Seq(Nat)
      BY <2>1, Words, Zenon
    <3> QED BY <2>1, <3>1, Associative, Zenon
  <2> QED BY <1>0, <1>1, <2>1, <2>2, Zenon DEF CarriesBy
<1>5. CarriesBy(s \o t, pre, drop, n, base, top, t, texts, on, text, rank)
  BY <1>1, <1>3, <1>4, Zenon DEF CarriesBy
<1> QED BY <1>2, <1>5 DEF Carries

(* A whole text is written behind whole ones; drop and pre tell whether it *)
(* goes anywhere.                                                          *)
LEMMA CarriesMore ==
  ASSUME NEW s \in Seq(Nat), NEW pre \in Nat, NEW drop, NEW n \in Nat, NEW base \in Nat, NEW top \in Nat,
         NEW w \in Word, NEW texts,
         Carries(s, pre, drop, n, base, top, <<>>, texts),
         NEW next \in Nat,
         IF n + 1 <= pre \/ w \in drop THEN next = top ELSE next = top + 1 /\ texts[next] = w
  PROVE  Carries(s \o Framed(w), pre, drop, n + 1, base, next, <<>>, texts)
<1>1. PICK part \in [0..n -> Seq(Nat)], text \in [1..n -> Word], rank \in [0..n -> 0..top] :
        CarriesBy(s, pre, drop, n, base, top, <<>>, texts, part, text, rank)
  BY DEF Carries
<1> DEFINE on == [i \in 0..(n + 1) |-> IF i <= n THEN part[i] \o Framed(w) ELSE <<>>]
           all == [i \in 1..(n + 1) |-> IF i <= n THEN text[i] ELSE w]
           at == [i \in 0..(n + 1) |-> IF i <= n THEN rank[i] ELSE next]
<1>2. Framed(w) \in Seq(Nat) /\ <<>> \in Seq(Nat)
  BY Words
<1>3. on \in [0..(n + 1) -> Seq(Nat)]
  <2>1. ASSUME NEW i \in 0..(n + 1) PROVE on[i] \in Seq(Nat)
    <3>1. CASE i <= n
      <4>1. part[i] \in Seq(Nat)
        BY <3>1
      <4> QED BY <1>2, <3>1, <4>1, ConcatProperties
    <3> QED BY <1>2, <3>1
  <2> QED BY <2>1
<1>4. all \in [1..(n + 1) -> Word]
  OBVIOUS
<1>5. at \in [0..(n + 1) -> 0..next]
  <2>1. \A i \in 0..n : rank[i] \in 0..top
    OBVIOUS
  <2>2. top <= next
    BY <1>1, <2>1 DEF CarriesBy
  <2> QED BY <2>1, <2>2
<1>8. /\ \A i \in 0..n : on[i] = part[i] \o Framed(w) /\ at[i] = rank[i]
      /\ \A i \in 1..n : all[i] = text[i]
      /\ on[n + 1] = <<>> /\ all[n + 1] = w /\ at[n + 1] = next
  <2>1. \A i \in 0..n : i \in 0..(n + 1) /\ i <= n
    OBVIOUS
  <2>2. \A i \in 1..n : i \in 1..(n + 1) /\ i <= n
    OBVIOUS
  <2>3. n + 1 \in 0..(n + 1) /\ n + 1 \in 1..(n + 1) /\ ~(n + 1 <= n)
    OBVIOUS
  <2> QED BY <2>1, <2>2, <2>3, Zenon
<1> HIDE DEF on, all, at
<1>6. on[0] = s \o Framed(w) /\ on[n + 1] = <<>> /\ at[0] = base /\ at[n + 1] = next
  <2>1. 0 \in 0..n
    OBVIOUS
  <2> QED BY <1>1, <1>8, <2>1, Zenon DEF CarriesBy
<1>7. ASSUME NEW i \in 1..(n + 1)
      PROVE  /\ on[i - 1] = Framed(all[i]) \o on[i]
             /\ IF i <= pre \/ all[i] \in drop THEN at[i] = at[i - 1]
                ELSE at[i] = at[i - 1] + 1 /\ texts[at[i]] = all[i]
  <2>1. CASE i <= n
    <3>1. /\ i \in 1..n /\ i \in 0..n /\ i - 1 \in 0..n
          /\ part[i] \in Seq(Nat) /\ text[i] \in Word
      BY <2>1
    <3>2. (Framed(text[i]) \o part[i]) \o Framed(w) = Framed(text[i]) \o (part[i] \o Framed(w))
      <4>1. Framed(text[i]) \in Seq(Nat)
        BY <3>1, Words, Zenon
      <4> QED BY <1>2, <3>1, <4>1, Associative, Zenon
    <3> QED BY <1>1, <1>8, <3>1, <3>2, Zenon DEF CarriesBy
  <2>2. CASE i = n + 1
    <3>1. n \in 0..n /\ i - 1 = n
      BY <2>2
    <3>2. on[i - 1] = <<>> \o Framed(w) /\ on[i] = <<>> /\ all[i] = w /\ at[i] = next /\ at[i - 1] = top
      BY <1>1, <1>8, <2>2, <3>1, Zenon DEF CarriesBy
    <3>3. <<>> \o Framed(w) = Framed(w) \o <<>>
      BY <1>2, ConcatEmptySeq
    <3> QED BY <2>2, <3>2, <3>3
  <2>3. i <= n \/ i = n + 1
    OBVIOUS
  <2> QED BY <2>1, <2>2, <2>3, Zenon
<1>9. CarriesBy(s \o Framed(w), pre, drop, n + 1, base, next, <<>>, texts, on, all, at)
  BY <1>6, <1>7, Zenon DEF CarriesBy
<1> QED BY <1>3, <1>4, <1>5, <1>9 DEF Carries

(* One text, and a stream that carries the others. *)
BeginsWithWord(s, pre, drop, n, base, top, tail, texts) ==
  \E w \in Word, rest \in Seq(Nat), next \in 0..top :
    /\ s = Framed(w) \o rest
    /\ Carries(rest, Left(pre), drop, n - 1, next, top, tail, texts)
    /\ Counted(w, pre, drop, base, next, texts)

(* The first text is taken off. *)
LEMMA CarriesLess ==
  ASSUME NEW s \in Seq(Nat), NEW pre \in Nat, NEW drop, NEW n \in Nat, n # 0,
         NEW base \in Nat, NEW top \in Nat, NEW tail \in Seq(Nat), NEW texts,
         Carries(s, pre, drop, n, base, top, tail, texts)
  PROVE  BeginsWithWord(s, pre, drop, n, base, top, tail, texts)
<1>1. PICK part \in [0..n -> Seq(Nat)], text \in [1..n -> Word], rank \in [0..n -> 0..top] :
        CarriesBy(s, pre, drop, n, base, top, tail, texts, part, text, rank)
  BY DEF Carries
<1> DEFINE left == Left(pre)
           on == [i \in 0..(n - 1) |-> part[i + 1]]
           all == [i \in 1..(n - 1) |-> text[i + 1]]
           at == [i \in 0..(n - 1) |-> rank[i + 1]]
<1>2. text[1] \in Word /\ part[1] \in Seq(Nat) /\ rank[1] \in 0..top
  OBVIOUS
<1>3. /\ s = Framed(text[1]) \o part[1]
      /\ Counted(text[1], pre, drop, base, rank[1], texts)
  <2>1. 1 \in 1..n /\ 1 - 1 = 0
    OBVIOUS
  <2> QED BY <1>1, <2>1 DEF CarriesBy, Counted
<1>4. Carries(part[1], left, drop, n - 1, rank[1], top, tail, texts)
  <2>1. on \in [0..(n - 1) -> Seq(Nat)] /\ at \in [0..(n - 1) -> 0..top] /\ all \in [1..(n - 1) -> Word]
    OBVIOUS
  <2>2. on[0] = part[1] /\ on[n - 1] = tail /\ at[0] = rank[1] /\ at[n - 1] = top
    BY <1>1 DEF CarriesBy
  <2>3. ASSUME NEW i \in 1..(n - 1)
        PROVE  /\ on[i - 1] = Framed(all[i]) \o on[i]
               /\ IF i <= left \/ all[i] \in drop THEN at[i] = at[i - 1]
                  ELSE at[i] = at[i - 1] + 1 /\ texts[at[i]] = all[i]
    <3>1. i + 1 \in 1..n /\ (i + 1) - 1 = i /\ i \in 0..(n - 1) /\ i - 1 \in 0..(n - 1)
      OBVIOUS
    <3>2. (i + 1 <= pre) <=> (i <= left)
      BY DEF Left
    <3>3. on[i - 1] = part[i] /\ on[i] = part[i + 1] /\ all[i] = text[i + 1]
          /\ at[i - 1] = rank[i] /\ at[i] = rank[i + 1]
      BY <3>1
    <3> HIDE DEF on, all, at, left
    <3> QED BY <1>1, <3>1, <3>2, <3>3 DEF CarriesBy
  <2> HIDE DEF on, all, at, left
  <2>4. CarriesBy(part[1], left, drop, n - 1, rank[1], top, tail, texts, on, all, at)
    BY <2>2, <2>3, Zenon DEF CarriesBy
  <2> QED BY <2>1, <2>4, Zenon DEF Carries
<1> QED BY <1>2, <1>3, <1>4, Zenon DEF BeginsWithWord

-----------------------------------------------------------------------------
(* Reading from a stream.                                                  *)

(* Reading up to the first NUL takes off the first text. *)
LEMMA ReadsWord ==
  ASSUME NEW b \in Seq(Nat), NEW u \in Seq(Nat), NEW w \in Word, NEW rest \in Seq(Nat),
         b \o u = Framed(w) \o rest, Complete(b)
  PROVE  Text(b) = w /\ Rest(b) \in Seq(Nat) /\ Rest(b) \o u = rest
<1> DEFINE k == Len(w) + 1
           l == Len(b)
           z == b \o u
           f == Framed(w)
<1>0. /\ w \in Seq(Nat) /\ f \in Seq(Nat) /\ Len(f) = k
      /\ k \in Nat /\ k > 1 /\ l \in Nat /\ Len(u) \in Nat /\ Len(rest) \in Nat
      /\ \A i \in 1..Len(w) : f[i] = w[i] /\ w[i] # NUL
      /\ f[k] = NUL
      /\ Len(w) = k - 1
  BY Words, LenProperties
<1>1. \A i \in 1..(k - 1) : f[i] = w[i] /\ w[i] # NUL
  BY <1>0
<1>2. /\ Len(z) = l + Len(u)
      /\ \A i \in 1..(l + Len(u)) : z[i] = IF i <= l THEN b[i] ELSE u[i - l]
  BY ConcatProperties
<1>3. /\ Len(z) = k + Len(rest)
      /\ \A i \in 1..(k + Len(rest)) : z[i] = IF i <= k THEN f[i] ELSE rest[i - k]
  <2>1. z = f \o rest
    OBVIOUS
  <2> HIDE DEF z, f, k
  <2> QED BY <1>0, <2>1, ConcatProperties
<1>4. DOMAIN b = 1..l /\ \A i \in 1..l : b[i] \in Nat
  BY LenProperties, ElementOfSeq
<1> HIDE DEF k, l, z, f
<1>5. k \in 1..l /\ b[k] = NUL /\ \A j \in 1..(k - 1) : b[j] = w[j] /\ b[j] # NUL
  <2>1. PICK i \in 1..l : b[i] = NUL
    BY <1>4 DEF Complete
  <2>2. z[i] = NUL
    BY <1>0, <1>2, <2>1
  <2>3. i >= k
    <3>1. CASE i < k
      <4>1. i \in 1..(k - 1) /\ i \in 1..(k + Len(rest)) /\ i <= k
        BY <1>0, <3>1
      <4> QED BY <1>1, <1>3, <2>2, <4>1
    <3> QED BY <1>0, <3>1
  <2>4. ASSUME NEW j \in 1..k PROVE b[j] = f[j]
    <3>1. j \in 1..(l + Len(u)) /\ j <= l /\ j \in 1..(k + Len(rest)) /\ j <= k
      BY <1>0, <2>3
    <3> QED BY <1>2, <1>3, <3>1
  <2>5. k \in 1..l /\ k \in 1..k /\ \A j \in 1..(k - 1) : j \in 1..k
    BY <1>0, <2>3
  <2> QED BY <1>0, <1>1, <2>4, <2>5
<1>6. FirstNul(b) = k
  <2>1. ASSUME NEW i \in 1..l, b[i] = NUL, \A j \in 1..(i - 1) : b[j] # NUL PROVE i = k
    <3>1. ~(i \in 1..(k - 1)) /\ ~(k \in 1..(i - 1))
      BY <1>5, <2>1
    <3> QED BY <1>0, <3>1
  <2> QED BY <1>4, <1>5, <2>1 DEF FirstNul
<1>7. Text(b) = SubSeq(b, 1, k - 1) /\ Rest(b) = SubSeq(b, k + 1, l)
  BY <1>6 DEF Text, Rest, l
<1>8. Text(b) = w
  <2> DEFINE t == SubSeq(b, 1, k - 1)
  <2>1. /\ t \in Seq(Nat)
        /\ Len(t) = k - 1
        /\ \A i \in 1..(k - 1) : t[i] = b[i]
    <3>1. \A i \in 1..(k - 1) : b[i] \in Nat
      BY <1>0, <1>4, <1>5
    <3>2. /\ t \in Seq(Nat)
          /\ Len(t) = IF 1 <= k - 1 THEN (k - 1) - 1 + 1 ELSE 0
          /\ \A i \in 1..((k - 1) - 1 + 1) : t[i] = b[1 + i - 1]
      BY <1>0, <3>1, SubSeqProperties
    <3> HIDE DEF t
    <3> QED BY <1>0, <3>2
  <2> HIDE DEF t
  <2>2. /\ t \in Seq(Nat) /\ w \in Seq(Nat) /\ Len(t) = Len(w)
        /\ \A i \in 1..Len(t) : t[i] = w[i]
    BY <1>0, <1>5, <2>1
  <2>3. t = w
    BY <2>2, SeqEqual
  <2> QED BY <1>7, <2>3 DEF t
<1> DEFINE r == Rest(b)
<1>9. /\ r \in Seq(Nat)
      /\ Len(r) = l - k
      /\ \A i \in 1..(l - k) : r[i] = b[k + i]
  <2>1. \A i \in (k + 1)..l : b[i] \in Nat
    BY <1>0, <1>4
  <2>2. /\ r \in Seq(Nat)
        /\ Len(r) = IF k + 1 <= l THEN l - (k + 1) + 1 ELSE 0
        /\ \A i \in 1..(l - (k + 1) + 1) : r[i] = b[(k + 1) + i - 1]
    BY <1>0, <1>7, <2>1, SubSeqProperties
  <2> HIDE DEF r
  <2>3. \A i \in 1..(l - k) : (k + 1) + i - 1 = k + i /\ i \in 1..(l - (k + 1) + 1)
    BY <1>0
  <2> QED BY <1>0, <1>5, <2>2, <2>3
<1>10. r \o u = rest
  <2> DEFINE y == r \o u
  <2>1. /\ y \in Seq(Nat)
        /\ Len(y) = Len(r) + Len(u)
        /\ \A i \in 1..(Len(r) + Len(u)) :
             y[i] = IF i <= Len(r) THEN r[i] ELSE u[i - Len(r)]
    BY <1>9, ConcatProperties
  <2> HIDE DEF y, r
  <2>2. Len(y) = Len(rest)
    <3>1. l + Len(u) = k + Len(rest)
      BY <1>2, <1>3, Zenon
    <3>2. Len(y) = (l - k) + Len(u)
      BY <1>9, <2>1, Zenon
    <3>3. l \in Nat /\ k \in Nat /\ Len(u) \in Nat /\ Len(rest) \in Nat
      BY <1>0
    <3> QED BY <3>1, <3>2, <3>3
  <2>3. ASSUME NEW i \in 1..Len(rest) PROVE y[i] = rest[i]
    <3>1. /\ k + i \in 1..(k + Len(rest)) /\ k + i \in 1..(l + Len(u))
          /\ (k + i) - k = i /\ ~(k + i <= k)
          /\ (k + i) - l = i - (l - k)
          /\ i \in 1..(Len(r) + Len(u))
      BY <1>0, <1>2, <1>3, <1>9
    <3>2. rest[i] = IF k + i <= l THEN b[k + i] ELSE u[(k + i) - l]
      BY <1>2, <1>3, <3>1, Zenon
    <3>3. CASE k + i <= l
      <4>1. i \in 1..(l - k) /\ i <= Len(r)
        BY <1>0, <1>9, <3>3
      <4> QED BY <1>9, <2>1, <3>1, <3>2, <3>3, <4>1, Zenon
    <3>4. CASE ~(k + i <= l)
      <4>1. ~(i <= Len(r))
        BY <1>0, <1>9, <3>4
      <4> QED BY <1>9, <2>1, <3>1, <3>2, <3>4, <4>1, Zenon
    <3> QED BY <3>3, <3>4
  <2>4. y = rest
    BY <2>1, <2>2, <2>3, SeqEqual
  <2> QED BY <2>4 DEF y
<1> QED BY <1>8, <1>9, <1>10

(* A whole text has a NUL that is read with it. *)
LEMMA WordIsComplete ==
  ASSUME NEW w \in Word, NEW rest \in Seq(Nat)
  PROVE  Complete(Framed(w) \o rest)
<1>1. /\ Framed(w) \in Seq(Nat) /\ Len(Framed(w)) = Len(w) + 1 /\ Len(w) \in Nat
      /\ Framed(w)[Len(w) + 1] = NUL /\ Len(rest) \in Nat
  BY Words, LenProperties
<1>2. /\ Framed(w) \o rest \in Seq(Nat)
      /\ Len(Framed(w) \o rest) = Len(w) + 1 + Len(rest)
      /\ (Framed(w) \o rest)[Len(w) + 1] = NUL
  <2>1. Len(w) + 1 \in 1..(Len(Framed(w)) + Len(rest)) /\ Len(w) + 1 <= Len(Framed(w))
    BY <1>1
  <2> QED BY <1>1, <2>1, ConcatProperties
<1>3. Len(w) + 1 \in DOMAIN (Framed(w) \o rest)
  <2>1. DOMAIN (Framed(w) \o rest) = 1..Len(Framed(w) \o rest)
    BY <1>2, LenProperties
  <2> QED BY <1>1, <1>2, <2>1
<1> QED BY <1>2, <1>3 DEF Complete

(* The beginning of a text has none. *)
LEMMA TornIsNot ==
  ASSUME NEW t \in Seq(Nat \ {NUL})
  PROVE  t \in Seq(Nat) /\ ~Complete(t)
<1>1. t \in Seq(Nat)
  BY SeqMonotonic
<1>2. DOMAIN t = 1..Len(t) /\ \A i \in 1..Len(t) : t[i] # NUL
  BY LenProperties, ElementOfSeq
<1> QED BY <1>1, <1>2 DEF Complete

(* More bytes behind complete ones. *)
LEMMA StaysComplete ==
  ASSUME NEW b \in Seq(Nat), NEW u \in Seq(Nat), Complete(b)
  PROVE  Complete(b \o u)
<1>1. PICK i \in 1..Len(b) : b[i] = NUL
  BY LenProperties DEF Complete
<1>2. /\ b \o u \in Seq(Nat) /\ Len(b \o u) = Len(b) + Len(u) /\ Len(b) \in Nat /\ Len(u) \in Nat
      /\ (b \o u)[i] = b[i]
  BY ConcatProperties, LenProperties
<1>3. DOMAIN (b \o u) = 1..Len(b \o u)
  BY <1>2, LenProperties
<1> QED BY <1>1, <1>2, <1>3 DEF Complete

(* A read moves bytes from the wire to the buffer. *)
LEMMA MovesBytes ==
  ASSUME NEW b \in Seq(Nat), NEW u \in Seq(Nat), NEW k \in 1..Len(u)
  PROVE  /\ SubSeq(u, 1, k) \in Seq(Nat) /\ SubSeq(u, k + 1, Len(u)) \in Seq(Nat)
         /\ (b \o SubSeq(u, 1, k)) \o SubSeq(u, k + 1, Len(u)) = b \o u
<1>1. Len(u) \in Nat /\ \A i \in 1..Len(u) : u[i] \in Nat
  BY LenProperties, ElementOfSeq
<1>2. SubSeq(u, 1, k) \in Seq(Nat)
  <2>1. \A i \in 1..k : u[i] \in Nat
    BY <1>1
  <2> QED BY <1>1, <2>1, SubSeqProperties
<1>3. SubSeq(u, k + 1, Len(u)) \in Seq(Nat)
  <2>1. \A i \in (k + 1)..Len(u) : u[i] \in Nat
    BY <1>1
  <2> QED BY <1>1, <2>1, SubSeqProperties
<1>4. SubSeq(u, 1, k) \o SubSeq(u, k + 1, Len(u)) = SubSeq(u, 1, Len(u))
  <2>1. 1 \in 1..(Len(u) + 1) /\ k \in (1 - 1)..Len(u) /\ Len(u) \in k..Len(u)
    BY <1>1
  <2> QED BY <2>1, ConcatAdjacentSubSeq
<1>5. SubSeq(u, 1, Len(u)) = u
  BY SubSeqFull
<1>6. (b \o SubSeq(u, 1, k)) \o SubSeq(u, k + 1, Len(u)) = b \o (SubSeq(u, 1, k) \o SubSeq(u, k + 1, Len(u)))
  BY <1>2, <1>3, Associative, Zenon
<1> QED BY <1>2, <1>3, <1>4, <1>5, <1>6, Zenon

(* What is read from the buffer b while u is behind it on the wire: the    *)
(* first text, or what is left of one.                                     *)
FirstText(b, u, pre, drop, n, base, top, tail, texts) ==
  /\ n > 0
  /\ Text(b) \in Word
  /\ \E next \in Nat :
       /\ Carries(Rest(b) \o u, Left(pre), drop, n - 1, next, top, tail, texts)
       /\ next <= top
       /\ Counted(Text(b), pre, drop, base, next, texts)

LastText(b, u, n, base, top, tail) ==
  /\ n = 0 /\ u = <<>> /\ ~Complete(b) /\ base = top
  /\ Text(b) = tail /\ Rest(b) = <<>>

(* Reading a text, or the rest once nothing more comes, takes it from the  *)
(* front of the stream.                                                    *)
LEMMA Reads ==
  ASSUME NEW b \in Seq(Nat), NEW u \in Seq(Nat), NEW tail \in Seq(Nat \ {NUL}),
         NEW pre \in Nat, NEW drop, NEW n \in Nat, NEW base \in Nat, NEW top \in Nat, NEW texts,
         Carries(b \o u, pre, drop, n, base, top, tail, texts),
         Complete(b) \/ u = <<>>
  PROVE  /\ Rest(b) \in Seq(Nat)
         /\ \/ FirstText(b, u, pre, drop, n, base, top, tail, texts)
            \/ LastText(b, u, n, base, top, tail)
<1>1. CASE n = 0
  <2>1. PICK part \in [0..0 -> Seq(Nat)], text \in [1..0 -> Word], rank \in [0..0 -> 0..top] :
          CarriesBy(b \o u, pre, drop, 0, base, top, tail, texts, part, text, rank)
    BY <1>1 DEF Carries
  <2>2. b \o u = tail /\ base = top
    BY <2>1 DEF CarriesBy
  <2>3. ~Complete(b)
    BY <2>2, StaysComplete, TornIsNot, Zenon
  <2>4. u = <<>> /\ b = tail
    BY <2>2, <2>3, ConcatEmptySeq
  <2>5. Text(b) = tail /\ Rest(b) = <<>>
    BY <2>3, <2>4 DEF Text, Rest
  <2>6. <<>> \in Seq(Nat)
    OBVIOUS
  <2> QED BY <1>1, <2>2, <2>3, <2>4, <2>5, <2>6, Zenon DEF LastText
<1>2. CASE n # 0
  <2>0. n # 0 /\ n > 0 /\ tail \in Seq(Nat) /\ b \o u \in Seq(Nat)
    BY <1>2, TornIsNot, ConcatProperties
  <2>1. PICK w \in Word, rest \in Seq(Nat), next \in 0..top :
           /\ b \o u = Framed(w) \o rest
           /\ Carries(rest, Left(pre), drop, n - 1, next, top, tail, texts)
           /\ Counted(w, pre, drop, base, next, texts)
    <3>1. BeginsWithWord(b \o u, pre, drop, n, base, top, tail, texts)
      BY <2>0, CarriesLess
    <3> QED BY <3>1, Zenon DEF BeginsWithWord
  <2>2. Complete(b)
    <3>1. CASE u = <<>>
      <4>1. b \o u = b
        BY <3>1, ConcatEmptySeq
      <4> QED BY <2>1, <4>1, WordIsComplete, Zenon
    <3> QED BY <3>1
  <2>3. Text(b) = w /\ Rest(b) \in Seq(Nat) /\ Rest(b) \o u = rest
    BY <2>1, <2>2, ReadsWord, Zenon
  <2>4. next \in Nat /\ next <= top
    OBVIOUS
  <2> QED BY <2>0, <2>1, <2>3, <2>4, Zenon DEF FirstText
<1> QED BY <1>1, <1>2

-----------------------------------------------------------------------------
(* The way from a peer to play.py.                                         *)

(* How many of the texts p writes next are preparations still to be read. *)
Pre(p, read) == IF p = "manager" THEN 3 - read ELSE 0

(* What p wrote and play.py has not read: the buffer b, and u behind it,   *)
(* which is on the wire unless p has reset it.  A peer that has closed may *)
(* have torn its last text.                                                *)
Stream(p, status, b, wire, read, wrote, texts, base, u, n, top, tail) ==
  /\ Carries(b \o u, Pre(p, read), {Reset}, n, base, top, tail, texts)
  /\ top <= Len(texts)
  /\ IF status = "reset" THEN wire = <<>> ELSE u = wire
  /\ status = "open" => tail = <<>> /\ top = Len(texts)
  /\ status = "open" /\ p = "manager" => read + n = wrote \/ (read = 3 /\ wrote >= 3)
  /\ status = "closed" =>
       IF tail \in {<<>>, Reset} \/ n < Pre(p, read) THEN top = Len(texts)
       ELSE top + 1 = Len(texts) /\ texts[top + 1] = tail

(* The first base of the texts p wrote for the other side have been read. *)
ReadUpTo(p, status, b, wire, read, wrote, texts, base) ==
  \E u \in Seq(Nat), n \in Nat, top \in Nat, tail \in Seq(Nat \ {NUL}) :
    Stream(p, status, b, wire, read, wrote, texts, base, u, n, top, tail)

(* At first there is nothing. *)
LEMMA NothingToRead ==
  ASSUME NEW p \in Peer
  PROVE  ReadUpTo(p, "open", <<>>, <<>>, 0, 0, <<>>, 0)
<1>1. /\ <<>> \in Seq(Nat) /\ <<>> \in Seq(Nat \ {NUL}) /\ <<>> \o <<>> = <<>> /\ Len(<<>>) = 0
      /\ 0 \in Nat /\ 0 <= 0 /\ 0 + 0 = 0
  BY EmptySeq, ConcatEmptySeq
<1>2. Carries(<<>>, Pre(p, 0), {Reset}, 0, 0, 0, <<>>, <<>>)
  BY <1>1, CarriesNothing
<1>3. Stream(p, "open", <<>>, <<>>, 0, 0, <<>>, 0, <<>>, 0, 0, <<>>)
  BY <1>1, <1>2 DEF Stream
<1> QED BY <1>1, <1>3 DEF ReadUpTo

(* p writes a text, which the other side is to get or not. *)
LEMMA ReadUpToWritten ==
  ASSUME NEW p \in Peer, NEW b \in Seq(Nat), NEW wire \in Seq(Nat), NEW read \in 0..3,
         NEW wrote \in Nat, NEW texts \in Seq(Word), NEW base \in Nat, NEW w \in Word,
         ReadUpTo(p, "open", b, wire, read, wrote, texts, base),
         NEW more,
         more = IF w # Reset /\ (p = "manager" => wrote >= 3) THEN Append(texts, w) ELSE texts
  PROVE  ReadUpTo(p, "open", b, wire \o Framed(w), read, wrote + 1, more, base)
<1>1. PICK u \in Seq(Nat), n \in Nat, top \in Nat, tail \in Seq(Nat \ {NUL}) :
        Stream(p, "open", b, wire, read, wrote, texts, base, u, n, top, tail)
  BY DEF ReadUpTo
<1>2. /\ Carries(b \o wire, Pre(p, read), {Reset}, n, base, top, <<>>, texts)
      /\ top = Len(texts)
      /\ p = "manager" => read + n = wrote \/ (read = 3 /\ wrote >= 3)
  BY <1>1 DEF Stream
<1>3. /\ Framed(w) \in Seq(Nat) /\ wire \o Framed(w) \in Seq(Nat) /\ b \o wire \in Seq(Nat)
      /\ Pre(p, read) \in Nat /\ n + 1 \in Nat /\ <<>> \in Seq(Nat \ {NUL})
  BY Words, ConcatProperties DEF Pre
<1>4. (b \o wire) \o Framed(w) = b \o (wire \o Framed(w))
  BY <1>3, Associative, Zenon
<1> DEFINE next == IF w # Reset /\ (p = "manager" => wrote >= 3) THEN top + 1 ELSE top
<1>5. next \in Nat /\ next = Len(more) /\ \A k \in 1..top : more[k] = texts[k]
  BY <1>2, AppendProperties
<1>6. IF n + 1 <= Pre(p, read) \/ w \in {Reset} THEN next = top
      ELSE next = top + 1 /\ more[next] = w
  <2>1. (n + 1 <= Pre(p, read)) <=> (p = "manager" /\ wrote < 3)
    BY <1>2 DEF Pre
  <2>2. CASE w # Reset /\ (p = "manager" => wrote >= 3)
    BY <1>2, <2>1, <2>2, AppendProperties
  <2>3. CASE ~(w # Reset /\ (p = "manager" => wrote >= 3))
    BY <1>2, <2>1, <2>3
  <2> QED BY <2>2, <2>3
<1> HIDE DEF next
<1>7. Carries(b \o wire, Pre(p, read), {Reset}, n, base, top, <<>>, more)
  BY <1>2, <1>3, <1>5, CarriesFurther, EmptySeq
<1>8. Carries((b \o wire) \o Framed(w), Pre(p, read), {Reset}, n + 1, base, next, <<>>, more)
  BY <1>3, <1>5, <1>6, <1>7, CarriesMore
<1>9. p = "manager" => read + (n + 1) = wrote + 1 \/ (read = 3 /\ wrote + 1 >= 3)
  BY <1>2
<1>10. Stream(p, "open", b, wire \o Framed(w), read, wrote + 1, more, base, wire \o Framed(w), n + 1, next, <<>>)
  BY <1>4, <1>5, <1>8, <1>9 DEF Stream
<1> QED BY <1>3, <1>5, <1>10 DEF ReadUpTo

(* p closes its end behind the beginning of a text. *)
LEMMA ReadUpToClosed ==
  ASSUME NEW p \in Peer, NEW b \in Seq(Nat), NEW wire \in Seq(Nat), NEW read \in 0..3,
         NEW wrote \in Nat, NEW texts \in Seq(Word), NEW base \in Nat, NEW t \in Seq(Nat \ {NUL}),
         ReadUpTo(p, "open", b, wire, read, wrote, texts, base),
         NEW more,
         more = IF t \notin {<<>>, Reset} /\ (p = "manager" => wrote >= 3) THEN Append(texts, t) ELSE texts
  PROVE  ReadUpTo(p, "closed", b, wire \o t, read, wrote, more, base)
<1>1. PICK u \in Seq(Nat), n \in Nat, top \in Nat, tail \in Seq(Nat \ {NUL}) :
        Stream(p, "open", b, wire, read, wrote, texts, base, u, n, top, tail)
  BY DEF ReadUpTo
<1>2. /\ Carries(b \o wire, Pre(p, read), {Reset}, n, base, top, <<>>, texts)
      /\ top = Len(texts)
      /\ p = "manager" => read + n = wrote \/ (read = 3 /\ wrote >= 3)
  BY <1>1 DEF Stream
<1>3. /\ t \in Seq(Nat) /\ wire \o t \in Seq(Nat) /\ b \o wire \in Seq(Nat)
      /\ Pre(p, read) \in Nat
  BY TornIsNot, ConcatProperties DEF Pre
<1>4. (b \o wire) \o t = b \o (wire \o t)
  BY <1>3, Associative, Zenon
<1>5. (n < Pre(p, read)) <=> (p = "manager" /\ wrote < 3)
  BY <1>2 DEF Pre
<1>6. /\ top <= Len(more) /\ \A k \in 1..top : more[k] = texts[k]
      /\ IF t \in {<<>>, Reset} \/ n < Pre(p, read) THEN top = Len(more)
         ELSE top + 1 = Len(more) /\ more[top + 1] = t
  <2>1. CASE t \notin {<<>>, Reset} /\ (p = "manager" => wrote >= 3)
    <3>1. more = Append(texts, t) /\ t \in Word
      BY <2>1 DEF Word
    <3> QED BY <1>2, <1>5, <2>1, <3>1, AppendProperties
  <2>2. CASE ~(t \notin {<<>>, Reset} /\ (p = "manager" => wrote >= 3))
    BY <1>2, <1>5, <2>2
  <2> QED BY <2>1, <2>2
<1>7. Carries(b \o wire, Pre(p, read), {Reset}, n, base, top, <<>>, more)
  <2>1. \A k \in 1..top : more[k] = texts[k]
    BY <1>6
  <2> QED BY <1>2, <1>3, <2>1, CarriesFurther, EmptySeq
<1>8. Carries((b \o wire) \o t, Pre(p, read), {Reset}, n, base, top, t, more)
  BY <1>3, <1>7, CarriesTorn
<1>9. Stream(p, "closed", b, wire \o t, read, wrote, more, base, wire \o t, n, top, t)
  BY <1>4, <1>6, <1>8 DEF Stream
<1> QED BY <1>3, <1>9 DEF ReadUpTo

(* p resets its end. *)
LEMMA ReadUpToReset ==
  ASSUME NEW p, NEW b, NEW wire, NEW read, NEW wrote, NEW texts, NEW base,
         ReadUpTo(p, "open", b, wire, read, wrote, texts, base)
  PROVE  ReadUpTo(p, "reset", b, <<>>, read, wrote, texts, base)
BY DEF ReadUpTo, Stream

(* Bytes move from the wire to the buffer. *)
LEMMA ReadUpToMoved ==
  ASSUME NEW p, NEW status, NEW b \in Seq(Nat), NEW wire \in Seq(Nat), NEW read,
         NEW wrote, NEW texts, NEW base, NEW k \in 1..Len(wire),
         ReadUpTo(p, status, b, wire, read, wrote, texts, base)
  PROVE  ReadUpTo(p, status, b \o SubSeq(wire, 1, k), SubSeq(wire, k + 1, Len(wire)),
                  read, wrote, texts, base)
<1>1. PICK u \in Seq(Nat), n \in Nat, top \in Nat, tail \in Seq(Nat \ {NUL}) :
        Stream(p, status, b, wire, read, wrote, texts, base, u, n, top, tail)
  BY DEF ReadUpTo
<1>2. wire # <<>>
  BY EmptySeq
<1>3. status # "reset" /\ u = wire
  BY <1>1, <1>2 DEF Stream
<1> DEFINE start == SubSeq(wire, 1, k)
           rest == SubSeq(wire, k + 1, Len(wire))
<1>4. start \in Seq(Nat) /\ rest \in Seq(Nat) /\ (b \o start) \o rest = b \o wire
  BY MovesBytes, Zenon
<1> HIDE DEF start, rest
<1>5. Stream(p, status, b \o start, rest, read, wrote, texts, base, rest, n, top, tail)
  BY <1>1, <1>3, <1>4 DEF Stream
<1>6. ReadUpTo(p, status, b \o start, rest, read, wrote, texts, base)
  BY <1>4, <1>5 DEF ReadUpTo
<1> QED BY <1>6 DEF start, rest

(* A text is read behind the first base of texts: unless play.py does not  *)
(* forward it, it is the next one.                                         *)
Passes(text, base, next, texts) ==
  IF text \in {<<>>, Reset} THEN next = base
  ELSE next = base + 1 /\ next <= Len(texts) /\ texts[next] = text /\ text \in Word

(* play.py reads a text once the preparations are over. *)
LEMMA ReadUpToRead ==
  ASSUME NEW p \in Peer, NEW status, NEW b \in Seq(Nat), NEW wire \in Seq(Nat), NEW read \in 0..3,
         NEW wrote \in Nat, NEW texts \in Seq(Word), NEW base \in Nat,
         ReadUpTo(p, status, b, wire, read, wrote, texts, base),
         Pre(p, read) = 0,
         status \in {"open", "closed", "reset"},
         Complete(b) \/ (wire = <<>> /\ status # "reset")
  PROVE  /\ Rest(b) \in Seq(Nat)
         /\ Text(b) = <<>> => ~Complete(b)
         /\ \E next \in Nat :
              /\ ReadUpTo(p, status, Rest(b), wire, read, wrote, texts, next)
              /\ Passes(Text(b), base, next, texts)
<1>1. PICK u \in Seq(Nat), n \in Nat, top \in Nat, tail \in Seq(Nat \ {NUL}) :
        Stream(p, status, b, wire, read, wrote, texts, base, u, n, top, tail)
  BY DEF ReadUpTo
<1>2. /\ Carries(b \o u, 0, {Reset}, n, base, top, tail, texts)
      /\ top <= Len(texts)
      /\ Complete(b) \/ u = <<>>
      /\ Len(texts) \in Nat
  BY <1>1 DEF Stream
<1>3. /\ Rest(b) \in Seq(Nat)
      /\ \/ FirstText(b, u, 0, {Reset}, n, base, top, tail, texts)
         \/ LastText(b, u, n, base, top, tail)
  <2>1. 0 \in Nat
    OBVIOUS
  <2> QED BY <1>2, <2>1, Reads, Zenon
<1>4. CASE FirstText(b, u, 0, {Reset}, n, base, top, tail, texts)
  <2>0. n > 0 /\ Text(b) \in Word
    BY <1>4 DEF FirstText
  <2>1. PICK next \in Nat :
          /\ Carries(Rest(b) \o u, Left(0), {Reset}, n - 1, next, top, tail, texts)
          /\ next <= top
          /\ Counted(Text(b), 0, {Reset}, base, next, texts)
    BY <1>4 DEF FirstText
  <2>2. Left(0) = 0 /\ n - 1 \in Nat /\ Text(b) # <<>>
    BY <2>0 DEF Left, Word
  <2>3. Passes(Text(b), base, next, texts)
    BY <1>2, <2>0, <2>1, <2>2 DEF Counted, Passes
  <2>4. status = "open" /\ p = "manager" => read + (n - 1) = wrote \/ (read = 3 /\ wrote >= 3)
    BY <1>1, <2>0 DEF Stream, Pre
  <2>5. ~(n < 0) /\ ~(n - 1 < 0)
    BY <2>0
  <2>6. Stream(p, status, Rest(b), wire, read, wrote, texts, next, u, n - 1, top, tail)
    BY <1>1, <2>1, <2>2, <2>4, <2>5 DEF Stream
  <2>7. ReadUpTo(p, status, Rest(b), wire, read, wrote, texts, next)
    BY <2>2, <2>6 DEF ReadUpTo
  <2> QED BY <1>3, <2>2, <2>3, <2>7
<1>5. CASE LastText(b, u, n, base, top, tail)
  <2>0. /\ n = 0 /\ u = <<>> /\ ~Complete(b) /\ base = top /\ Text(b) = tail /\ Rest(b) = <<>>
    BY <1>5 DEF LastText
  <2>1. wire = <<>> /\ status \in {"open", "closed"}
    BY <2>0
  <2>2. /\ <<>> \in Seq(Nat) /\ <<>> \in Seq(Nat \ {NUL}) /\ <<>> \o <<>> = <<>>
    BY EmptySeq, ConcatEmptySeq
  <2> DEFINE next == IF tail \in {<<>>, Reset} THEN top ELSE top + 1
  <2>3. next \in Nat /\ next = Len(texts) /\ Passes(tail, base, next, texts)
    BY <1>1, <1>2, <2>0, <2>1 DEF Stream, Word, Passes
  <2> HIDE DEF next
  <2>4. Carries(<<>>, 0, {Reset}, 0, next, next, <<>>, texts)
    BY <2>2, <2>3, CarriesNothing
  <2>5. status = "open" /\ p = "manager" => read + 0 = wrote \/ (read = 3 /\ wrote >= 3)
    BY <1>1, <2>0 DEF Stream
  <2>6. Stream(p, status, <<>>, wire, read, wrote, texts, next, <<>>, 0, next, <<>>)
    BY <1>2, <2>1, <2>2, <2>3, <2>4, <2>5 DEF Stream
  <2>7. ReadUpTo(p, status, Rest(b), wire, read, wrote, texts, next)
    BY <2>0, <2>2, <2>3, <2>6 DEF ReadUpTo
  <2> QED BY <1>2, <1>3, <2>0, <2>3, <2>7
<1> QED BY <1>3, <1>4, <1>5

(* play.py reads a preparation, or the beginning of one that is all there  *)
(* is, or nothing.                                                         *)
LEMMA ReadUpToPrepared ==
  ASSUME NEW status, NEW b \in Seq(Nat), NEW wire \in Seq(Nat), NEW read \in 0..2,
         NEW wrote \in Nat, NEW texts \in Seq(Word), NEW base \in Nat,
         ReadUpTo("manager", status, b, wire, read, wrote, texts, base),
         status \in {"open", "closed", "reset"},
         Complete(b) \/ (wire = <<>> /\ status # "reset")
  PROVE  /\ Rest(b) \in Seq(Nat)
         /\ IF Text(b) = <<>> THEN ReadUpTo("manager", status, Rest(b), wire, read, wrote, texts, base)
            ELSE ReadUpTo("manager", status, Rest(b), wire, read + 1, wrote, texts, base)
<1>1. PICK u \in Seq(Nat), n \in Nat, top \in Nat, tail \in Seq(Nat \ {NUL}) :
        Stream("manager", status, b, wire, read, wrote, texts, base, u, n, top, tail)
  BY DEF ReadUpTo
<1>0. /\ Pre("manager", read) = 3 - read /\ 3 - read \in Nat
      /\ Left(3 - read) = 3 - (read + 1) /\ Pre("manager", read + 1) = 3 - (read + 1) /\ 1 <= 3 - read
  BY DEF Pre, Left
<1>2. /\ Carries(b \o u, 3 - read, {Reset}, n, base, top, tail, texts)
      /\ Complete(b) \/ u = <<>>
  BY <1>0, <1>1 DEF Stream
<1>3. /\ Rest(b) \in Seq(Nat)
      /\ \/ FirstText(b, u, 3 - read, {Reset}, n, base, top, tail, texts)
         \/ LastText(b, u, n, base, top, tail)
  BY <1>0, <1>2, Reads
<1>4. CASE FirstText(b, u, 3 - read, {Reset}, n, base, top, tail, texts)
  <2>0. n > 0 /\ Text(b) \in Word
    BY <1>4 DEF FirstText
  <2>1. PICK next \in Nat :
          /\ Carries(Rest(b) \o u, Left(3 - read), {Reset}, n - 1, next, top, tail, texts)
          /\ next <= top
          /\ Counted(Text(b), 3 - read, {Reset}, base, next, texts)
    BY <1>4 DEF FirstText
  <2>2. n - 1 \in Nat /\ Text(b) # <<>> /\ next = base
    BY <1>0, <2>0, <2>1 DEF Counted, Word
  <2>3. status = "open" => (read + 1) + (n - 1) = wrote \/ (read + 1 = 3 /\ wrote >= 3)
    BY <1>1 DEF Stream
  <2>4. (n < 3 - read) <=> (n - 1 < 3 - (read + 1))
    OBVIOUS
  <2>5. Stream("manager", status, Rest(b), wire, read + 1, wrote, texts, base, u, n - 1, top, tail)
    BY <1>0, <1>1, <2>1, <2>2, <2>3, <2>4 DEF Stream
  <2>6. ReadUpTo("manager", status, Rest(b), wire, read + 1, wrote, texts, base)
    BY <2>2, <2>5 DEF ReadUpTo
  <2> QED BY <1>3, <2>2, <2>6
<1>5. CASE LastText(b, u, n, base, top, tail)
  <2>0. /\ n = 0 /\ u = <<>> /\ ~Complete(b) /\ base = top /\ Text(b) = tail /\ Rest(b) = <<>>
    BY <1>5 DEF LastText
  <2>1. wire = <<>> /\ status \in {"open", "closed"}
    BY <2>0
  <2>2. /\ <<>> \in Seq(Nat) /\ <<>> \in Seq(Nat \ {NUL}) /\ <<>> \o <<>> = <<>>
    BY EmptySeq, ConcatEmptySeq
  <2>3. base = Len(texts) /\ (tail # <<>> => status = "closed")
    BY <1>0, <1>1, <2>0, <2>1 DEF Stream
  <2>4. \A pre \in Nat : Carries(<<>>, pre, {Reset}, 0, base, base, <<>>, texts)
    BY <2>2, CarriesNothing
  <2>5. CASE tail = <<>>
    <3>1. Stream("manager", status, <<>>, wire, read, wrote, texts, base, <<>>, 0, base, <<>>)
      BY <1>0, <1>1, <2>0, <2>1, <2>2, <2>3, <2>4, <2>5 DEF Stream
    <3> QED BY <1>3, <2>0, <2>2, <2>5, <3>1 DEF ReadUpTo
  <2>6. CASE tail # <<>>
    <3>1. status = "closed" /\ base <= Len(texts)
      BY <1>1, <2>0, <2>3, <2>6 DEF Stream
    <3>2. Carries(<<>>, 3 - (read + 1), {Reset}, 0, base, base, <<>>, texts)
      <4>1. 3 - (read + 1) \in Nat
        OBVIOUS
      <4> QED BY <2>4, <4>1, Zenon
    <3>3. Stream("manager", status, <<>>, wire, read + 1, wrote, texts, base, <<>>, 0, base, <<>>)
      BY <1>0, <2>1, <2>2, <2>3, <3>1, <3>2 DEF Stream
    <3> QED BY <1>3, <2>0, <2>2, <2>6, <3>3 DEF ReadUpTo
  <2> QED BY <2>5, <2>6
<1> QED BY <1>3, <1>4, <1>5

(* What a reset has left of a text is given up. *)
LEMMA ReadUpToGivenUp ==
  ASSUME NEW p \in Peer, NEW read \in 0..3, NEW wrote, NEW texts \in Seq(Word)
  PROVE  ReadUpTo(p, "reset", <<>>, <<>>, read, wrote, texts, 0)
<1>1. /\ <<>> \in Seq(Nat) /\ <<>> \in Seq(Nat \ {NUL}) /\ <<>> \o <<>> = <<>>
      /\ Pre(p, read) \in Nat /\ 0 <= Len(texts)
  BY EmptySeq, ConcatEmptySeq, LenProperties DEF Pre
<1>2. Carries(<<>>, Pre(p, read), {Reset}, 0, 0, 0, <<>>, texts)
  BY <1>1, CarriesNothing
<1>3. Stream(p, "reset", <<>>, <<>>, read, wrote, texts, 0, <<>>, 0, 0, <<>>)
  BY <1>1, <1>2 DEF Stream
<1> QED BY <1>1, <1>3 DEF ReadUpTo

-----------------------------------------------------------------------------
(* The way from play.py to the player.                                     *)

(* Of the first k texts, those the player has not heard are in its inbox   *)
(* and on the wire.                                                        *)
Forwarded(box, wire, number, k, texts) ==
  \E m \in Nat : Carries(box \o wire, 0, {}, m, number, k, <<>>, texts)

(* At first there is nothing. *)
LEMMA NothingForwarded ==
  ASSUME NEW texts
  PROVE  Forwarded(<<>>, <<>>, 0, 0, texts)
<1>1. <<>> \in Seq(Nat) /\ <<>> \o <<>> = <<>> /\ 0 \in Nat
  BY EmptySeq, ConcatEmptySeq
<1>2. Carries(<<>>, 0, {}, 0, 0, 0, <<>>, texts)
  BY <1>1, CarriesNothing, Zenon
<1> QED BY <1>1, <1>2 DEF Forwarded

(* play.py forwards the next text. *)
LEMMA ForwardedMore ==
  ASSUME NEW box \in Seq(Nat), NEW wire \in Seq(Nat), NEW number \in Nat, NEW k \in Nat,
         NEW texts, NEW w \in Word, texts[k + 1] = w,
         Forwarded(box, wire, number, k, texts)
  PROVE  Forwarded(box, wire \o Framed(w), number, k + 1, texts)
<1>1. PICK m \in Nat : Carries(box \o wire, 0, {}, m, number, k, <<>>, texts)
  BY DEF Forwarded
<1>2. /\ Framed(w) \in Seq(Nat) /\ box \o wire \in Seq(Nat)
      /\ m + 1 \in Nat /\ k + 1 \in Nat /\ 0 \in Nat
      /\ ~(m + 1 <= 0 \/ w \in {})
  BY Words, ConcatProperties
<1>3. Carries((box \o wire) \o Framed(w), 0, {}, m + 1, number, k + 1, <<>>, texts)
  <2> DEFINE z == box \o wire
  <2>1. z \in Seq(Nat) /\ Carries(z, 0, {}, m, number, k, <<>>, texts)
    BY <1>1, <1>2
  <2> HIDE DEF z
  <2>2. Carries(z \o Framed(w), 0, {}, m + 1, number, k + 1, <<>>, texts)
    BY <1>2, <2>1, CarriesMore
  <2> QED BY <2>2 DEF z
<1>4. (box \o wire) \o Framed(w) = box \o (wire \o Framed(w))
  BY <1>2, Associative, Zenon
<1> QED BY <1>2, <1>3, <1>4 DEF Forwarded

(* The manager goes on writing. *)
LEMMA ForwardedFurther ==
  ASSUME NEW box \in Seq(Nat), NEW wire \in Seq(Nat), NEW number \in Nat, NEW k \in Nat,
         NEW texts, NEW more, \A i \in 1..k : more[i] = texts[i],
         Forwarded(box, wire, number, k, texts)
  PROVE  Forwarded(box, wire, number, k, more)
<1>1. PICK m \in Nat : Carries(box \o wire, 0, {}, m, number, k, <<>>, texts)
  BY DEF Forwarded
<1>2. box \o wire \in Seq(Nat) /\ 0 \in Nat /\ <<>> \in Seq(Nat)
  BY ConcatProperties
<1>3. Carries(box \o wire, 0, {}, m, number, k, <<>>, more)
  BY <1>1, <1>2, CarriesFurther, Zenon
<1> QED BY <1>3 DEF Forwarded

(* Bytes move from the wire to the inbox. *)
LEMMA ForwardedMoved ==
  ASSUME NEW box \in Seq(Nat), NEW wire \in Seq(Nat), NEW number, NEW k, NEW texts,
         NEW n \in 1..Len(wire),
         Forwarded(box, wire, number, k, texts)
  PROVE  Forwarded(box \o SubSeq(wire, 1, n), SubSeq(wire, n + 1, Len(wire)), number, k, texts)
<1>1. (box \o SubSeq(wire, 1, n)) \o SubSeq(wire, n + 1, Len(wire)) = box \o wire
  BY MovesBytes, Zenon
<1> QED BY <1>1, Zenon DEF Forwarded

(* The player hears the next text, even if it reads to the end. *)
LEMMA ForwardedHeard ==
  ASSUME NEW box \in Seq(Nat), NEW wire \in Seq(Nat), NEW number \in Nat, NEW k \in Nat, NEW texts,
         Forwarded(box, wire, number, k, texts),
         Complete(box) \/ (box # <<>> /\ wire = <<>>)
  PROVE  /\ Rest(box) \in Seq(Nat) /\ Text(box) \in Word
         /\ number + 1 <= k /\ texts[number + 1] = Text(box)
         /\ Forwarded(Rest(box), wire, number + 1, k, texts)
<1>1. PICK m \in Nat : Carries(box \o wire, 0, {}, m, number, k, <<>>, texts)
  BY DEF Forwarded
<1>2. /\ Rest(box) \in Seq(Nat)
      /\ \/ FirstText(box, wire, 0, {}, m, number, k, <<>>, texts)
         \/ LastText(box, wire, m, number, k, <<>>)
  <2>1. 0 \in Nat /\ <<>> \in Seq(Nat \ {NUL}) /\ (Complete(box) \/ wire = <<>>)
    BY EmptySeq
  <2> QED BY <1>1, <2>1, Reads, Zenon
<1>3. ~LastText(box, wire, m, number, k, <<>>)
  BY DEF LastText, Text
<1>4. /\ m > 0 /\ Text(box) \in Word
      /\ \E next \in Nat :
           /\ Carries(Rest(box) \o wire, Left(0), {}, m - 1, next, k, <<>>, texts)
           /\ next <= k
           /\ Counted(Text(box), 0, {}, number, next, texts)
  BY <1>2, <1>3 DEF FirstText
<1>5. PICK next \in Nat : /\ Carries(Rest(box) \o wire, Left(0), {}, m - 1, next, k, <<>>, texts)
                          /\ next <= k
                          /\ Counted(Text(box), 0, {}, number, next, texts)
  BY <1>4
<1>6. Left(0) = 0 /\ m - 1 \in Nat /\ next = number + 1 /\ texts[next] = Text(box)
  BY <1>4, <1>5 DEF Left, Counted
<1> QED BY <1>2, <1>4, <1>5, <1>6 DEF Forwarded

-----------------------------------------------------------------------------
(* The inductive invariant.                                                *)

Types ==
  /\ alive \in [Peer -> {"open", "closed", "reset"}]
  /\ shut \in [Peer -> BOOLEAN]
  /\ up \in [Peer -> Seq(Nat)]
  /\ down \in Seq(Nat)
  /\ buffer \in [Peer -> Seq(Nat)]
  /\ inbox \in Seq(Nat)
  /\ thread \in [Peer -> {"new", "read", "done"}]
  /\ main \in {"prepare", "failed", "forward", "exited"}
  /\ told \in 0..3
  /\ written \in [Peer -> Nat]
  /\ sent \in [Peer -> Seq(Word)]
  /\ heard \in [Peer -> Seq(Word)]

Gone(p) == alive[p] # "open" \/ shut[p]

(* What main is doing, and what that says of the rest; play.py shuts one   *)
(* side down when it has come to the end of the other.                     *)
Phase ==
  /\ main \in {"prepare", "failed"} => heard["manager"] = <<>>
  /\ main \in {"forward", "exited"} => heard["manager"] # <<>> /\ heard["manager"][1] = Ready
  /\ main = "prepare" => told < 3 /\ \A p \in Peer : ~shut[p]
  /\ main = "forward" => told = 3
  /\ \A p \in Peer : thread[p] = "read" => main = "forward"
  /\ \A p \in Peer : shut[p] => Gone(Other(p))

(* k of the texts of p have been read and, while the other side is there   *)
(* to get them, forwarded.                                                 *)
Upstream(p, k) ==
  \E base \in Nat :
    /\ ReadUpTo(p, alive[p], buffer[p], up[p], told, written[p], sent[p], base)
    /\ ~Gone(Other(p)) => base = k

(* The texts the manager has heard without Ready. *)
Passed == IF heard["manager"] = <<>> THEN 0 ELSE Len(heard["manager"]) - 1

ToPlayer ==
  \E k \in Nat :
    /\ k <= Len(sent["manager"])
    /\ Forwarded(inbox, down, Len(heard["player"]), k, sent["manager"])
    /\ Upstream("manager", k)

ToManager == \E k \in Nat : k = Passed /\ Upstream("player", k)

(* The invariant to be proved, text by text. *)
HeardIsSent ==
  /\ Len(heard["player"]) <= Len(sent["manager"])
  /\ \A i \in 1..Len(heard["player"]) : heard["player"][i] = sent["manager"][i]
  /\ Passed <= Len(sent["player"])
  /\ \A i \in 1..Passed : heard["manager"][i + 1] = sent["player"][i]

IInv == Types /\ Phase /\ ToPlayer /\ ToManager /\ HeardIsSent

(* There are two sides, each the other one of the other. *)
LEMMA Others ==
  /\ Peer = {"manager", "player"} /\ "manager" # "player"
  /\ Other("manager") = "player" /\ Other("player") = "manager"
  /\ \A p \in Peer : Other(p) \in Peer /\ Other(p) # p /\ Other(Other(p)) = p
<1>1. Other("manager") = "player" /\ Other("player") = "manager"
  BY DEF Other, Peer
<1> QED BY <1>1 DEF Peer

(* The texts are whole ones. *)
LEMMA Texts ==
  /\ Message \subseteq Word /\ Reset \in Word /\ Ready \in Word
  /\ Preparation \in Seq(Word) /\ Len(Preparation) = 3
BY ProxyAssumption DEF Word

(* At first. *)
LEMMA InitIInv == Init => IInv
<1> SUFFICES ASSUME Init PROVE IInv
  OBVIOUS
<1> USE DEF Init
<1>1. /\ alive["manager"] = "open" /\ alive["player"] = "open"
      /\ buffer["manager"] = <<>> /\ buffer["player"] = <<>>
      /\ up["manager"] = <<>> /\ up["player"] = <<>>
      /\ written["manager"] = 0 /\ written["player"] = 0
      /\ sent["manager"] = <<>> /\ sent["player"] = <<>>
      /\ heard["manager"] = <<>> /\ heard["player"] = <<>>
      /\ \A p \in Peer : shut[p] = FALSE /\ thread[p] = "new"
  BY Others
<1>2. Types
  BY EmptySeq DEF Types
<1>3. Phase
  BY <1>1 DEF Phase
<1>4. Upstream("manager", 0) /\ Upstream("player", 0)
  <2>1. \A p \in Peer : ReadUpTo(p, "open", <<>>, <<>>, 0, 0, <<>>, 0)
    BY NothingToRead
  <2>2. 0 \in Nat /\ told = 0
    OBVIOUS
  <2> QED BY <1>1, <2>1, <2>2, Others DEF Upstream
<1>5. ToPlayer
  <2>1. Forwarded(<<>>, <<>>, 0, 0, <<>>)
    BY NothingForwarded
  <2>2. inbox = <<>> /\ down = <<>> /\ Len(<<>>) = 0 /\ 0 \in Nat
    BY EmptySeq
  <2> QED BY <1>1, <1>4, <2>1, <2>2 DEF ToPlayer
<1>6. ToManager /\ HeardIsSent
  <2>1. Passed = 0
    BY <1>1 DEF Passed
  <2> QED BY <1>1, <1>4, <2>1 DEF ToManager, HeardIsSent
<1> QED BY <1>2, <1>3, <1>5, <1>6 DEF IInv

(* A step that concerns only what is read from the peers. *)
LEMMA Kept ==
  ASSUME IInv, Types', Phase', UNCHANGED <<down, inbox, heard>>,
         \A q \in Peer : /\ Len(sent[q]) <= Len(sent'[q])
                         /\ \A i \in 1..Len(sent[q]) : sent'[q][i] = sent[q][i],
         \A q \in Peer, k \in Nat : Upstream(q, k) => Upstream(q, k)'
  PROVE  IInv'
<1>1. /\ "manager" \in Peer /\ "player" \in Peer
      /\ down \in Seq(Nat) /\ inbox \in Seq(Nat)
      /\ Len(heard["player"]) \in Nat /\ Len(heard["manager"]) \in Nat
      /\ \A q \in Peer : Len(sent[q]) \in Nat /\ Len(sent'[q]) \in Nat
  BY Others DEF IInv, Types
<1>2. ToPlayer'
  <2>1. PICK k \in Nat :
          /\ k <= Len(sent["manager"])
          /\ Forwarded(inbox, down, Len(heard["player"]), k, sent["manager"])
          /\ Upstream("manager", k)
    BY DEF IInv, ToPlayer
  <2>2. \A i \in 1..k : sent'["manager"][i] = sent["manager"][i]
    BY <1>1, <2>1
  <2>3. Forwarded(inbox, down, Len(heard["player"]), k, sent'["manager"])
    BY <1>1, <2>1, <2>2, ForwardedFurther, Zenon
  <2>4. k <= Len(sent'["manager"])
    BY <1>1, <2>1
  <2> QED BY <1>1, <2>1, <2>3, <2>4 DEF ToPlayer
<1>3. Passed' = Passed
  BY DEF Passed
<1>4. ToManager'
  BY <1>1, <1>3 DEF IInv, ToManager
<1>5. HeardIsSent'
  <2>1. Passed \in Nat
    BY <1>1, EmptySeq DEF Passed, IInv, Types
  <2> QED BY <1>1, <1>3, <2>1 DEF IInv, HeardIsSent
<1> QED BY <1>2, <1>4, <1>5 DEF IInv

(* Nothing is written. *)
LEMMA SentKept ==
  ASSUME IInv, sent' = sent
  PROVE  \A q \in Peer : /\ Len(sent[q]) <= Len(sent'[q])
                         /\ \A i \in 1..Len(sent[q]) : sent'[q][i] = sent[q][i]
<1>1. \A q \in Peer : Len(sent[q]) \in Nat
  BY DEF IInv, Types
<1> QED BY <1>1

(* What is read from q does not change. *)
LEMMA UpstreamKept ==
  ASSUME NEW q \in Peer, NEW k \in Nat, Upstream(q, k),
         alive'[q] = alive[q], buffer'[q] = buffer[q], up'[q] = up[q],
         written'[q] = written[q], sent'[q] = sent[q], told' = told,
         Gone(Other(q)) => Gone(Other(q))'
  PROVE  Upstream(q, k)'
BY Zenon DEF Upstream

-----------------------------------------------------------------------------
(* Every step keeps it.                                                    *)

(* One recv. *)
LEMMA ExtendBufferStep ==
  ASSUME IInv, NEW p \in Peer, ExtendBuffer(p)
  PROVE  IInv'
<1> USE DEF ExtendBuffer, Extend, sockets, history
<1>1. PICK n \in 1..Len(up[p]) :
        /\ buffer' = [buffer EXCEPT ![p] = @ \o SubSeq(up[p], 1, n)]
        /\ up' = [up EXCEPT ![p] = SubSeq(@, n + 1, Len(@))]
  OBVIOUS
<1>2. Types /\ up[p] \in Seq(Nat) /\ buffer[p] \in Seq(Nat)
  BY DEF IInv, Types
<1>3. /\ SubSeq(up[p], 1, n) \in Seq(Nat) /\ SubSeq(up[p], n + 1, Len(up[p])) \in Seq(Nat)
      /\ buffer[p] \o SubSeq(up[p], 1, n) \in Seq(Nat)
  BY <1>2, MovesBytes, ConcatProperties
<1>4. /\ buffer'[p] = buffer[p] \o SubSeq(up[p], 1, n)
      /\ up'[p] = SubSeq(up[p], n + 1, Len(up[p]))
      /\ \A q \in Peer : q # p => buffer'[q] = buffer[q] /\ up'[q] = up[q]
      /\ UNCHANGED <<alive, shut, down, inbox, thread, main, told, written, sent, heard>>
  BY <1>1, <1>2 DEF Types
<1>5. Types'
  BY <1>1, <1>2, <1>3, <1>4 DEF Types
<1>6. Phase' /\ \A q \in Peer : Gone(q)' <=> Gone(q)
  BY <1>4 DEF IInv, Phase, Gone
<1>7. ASSUME NEW q \in Peer, NEW k \in Nat, Upstream(q, k) PROVE Upstream(q, k)'
  <2>1. CASE q = p
    <3>1. PICK base \in Nat :
            /\ ReadUpTo(p, alive[p], buffer[p], up[p], told, written[p], sent[p], base)
            /\ ~Gone(Other(p)) => base = k
      BY <1>7, <2>1 DEF Upstream
    <3>2. ReadUpTo(p, alive[p], buffer'[p], up'[p], told, written[p], sent[p], base)
      BY <1>2, <1>4, <3>1, ReadUpToMoved
    <3> QED BY <1>4, <1>6, <2>1, <3>1, <3>2, Others DEF Upstream
  <2>2. CASE q # p
    BY <1>4, <1>6, <1>7, <2>2, UpstreamKept, Others
  <2> QED BY <2>1, <2>2
<1> QED BY <1>4, <1>5, <1>6, <1>7, SentKept, Kept

(* A reset is noticed. *)
LEMMA ReceiveRaisesStep ==
  ASSUME IInv, NEW p \in Peer, ReceiveRaises(p)
  PROVE  IInv'
<1>1. /\ UNCHANGED <<alive, shut, up, down, buffer, inbox, told, written, sent, heard>>
      /\ thread' = [thread EXCEPT ![p] = "done"]
      /\ main' = IF main = "prepare" THEN "failed" ELSE main
  BY DEF ReceiveRaises, sockets, history
<1>2. Types'
  BY <1>1 DEF IInv, Types
<1>3. Phase' /\ \A q \in Peer : Gone(q)' <=> Gone(q)
  BY <1>1 DEF IInv, Phase, Gone, Types
<1>4. \A q \in Peer, k \in Nat : Upstream(q, k) => Upstream(q, k)'
  BY <1>1, <1>3, UpstreamKept, Others
<1> QED BY <1>1, <1>2, <1>3, <1>4, SentKept, Kept

(* A peer writes a text. *)
LEMMA SendTextStep ==
  ASSUME IInv, NEW p \in Peer, NEW m, SendText(p, m)
  PROVE  IInv'
<1> USE DEF SendText, Extend, sockets
<1>1. m \in Word
  <2>1. CASE p = "manager" /\ written[p] < Len(Preparation)
    <3>1. written[p] + 1 \in 1..Len(Preparation)
      <4>1. written[p] \in Nat /\ written[p] < 3 /\ Len(Preparation) = 3
        BY <2>1, Texts DEF IInv, Types
      <4> QED BY <4>1
    <3> QED BY <2>1, <3>1, Texts, ElementOfSeq
  <2>2. CASE ~(p = "manager" /\ written[p] < Len(Preparation))
    BY <2>2, Texts
  <2> QED BY <2>1, <2>2
<1>2. /\ up[p] \in Seq(Nat) /\ buffer[p] \in Seq(Nat) /\ written[p] \in Nat /\ sent[p] \in Seq(Word)
      /\ alive[p] = "open" /\ told \in 0..3
      /\ Framed(m) \in Seq(Nat) /\ up[p] \o Framed(m) \in Seq(Nat)
  <2>1. Framed(m) \in Seq(Nat) /\ up[p] \in Seq(Nat)
    BY <1>1, Words DEF IInv, Types
  <2> QED BY <2>1, ConcatProperties DEF IInv, Types
<1>3. /\ up' = [up EXCEPT ![p] = up[p] \o Framed(m)]
      /\ written' = [written EXCEPT ![p] = written[p] + 1]
      /\ sent' = [sent EXCEPT ![p] = IF m # Reset /\ (p = "manager" => written[p] >= 3)
                                     THEN Append(sent[p], m) ELSE sent[p]]
      /\ UNCHANGED <<alive, shut, down, buffer, inbox, thread, main, told, heard>>
  BY <1>1, Texts DEF Record, Due, IInv, Types, Word
<1>4. /\ up'[p] = up[p] \o Framed(m) /\ written'[p] = written[p] + 1
      /\ sent'[p] = IF m # Reset /\ (p = "manager" => written[p] >= 3) THEN Append(sent[p], m) ELSE sent[p]
      /\ \A q \in Peer : q # p => up'[q] = up[q] /\ written'[q] = written[q] /\ sent'[q] = sent[q]
  BY <1>3 DEF IInv, Types
<1>5. /\ sent'[p] \in Seq(Word) /\ Len(sent[p]) <= Len(sent'[p])
      /\ \A i \in 1..Len(sent[p]) : sent'[p][i] = sent[p][i]
  BY <1>1, <1>2, <1>4, AppendProperties
<1>6. Types'
  BY <1>2, <1>3, <1>4, <1>5 DEF IInv, Types
<1>7. Phase' /\ \A q \in Peer : Gone(q)' <=> Gone(q)
  BY <1>3 DEF IInv, Phase, Gone
<1>8. ASSUME NEW q \in Peer, NEW k \in Nat, Upstream(q, k) PROVE Upstream(q, k)'
  <2>1. CASE q = p
    <3>1. PICK base \in Nat :
            /\ ReadUpTo(p, "open", buffer[p], up[p], told, written[p], sent[p], base)
            /\ ~Gone(Other(p)) => base = k
      BY <1>2, <1>8, <2>1 DEF Upstream
    <3>2. ReadUpTo(p, "open", buffer[p], up'[p], told, written'[p], sent'[p], base)
      <4>1. ReadUpTo(p, "open", buffer[p], up[p] \o Framed(m), told, written[p] + 1, sent'[p], base)
        BY <1>1, <1>2, <1>4, <3>1, ReadUpToWritten
      <4> QED BY <1>4, <4>1, Zenon
    <3> QED BY <1>2, <1>3, <1>7, <2>1, <3>1, <3>2, Others DEF Upstream
  <2>2. CASE q # p
    BY <1>3, <1>4, <1>7, <1>8, <2>2, UpstreamKept, Others
  <2> QED BY <2>1, <2>2
<1>9. \A q \in Peer : /\ Len(sent[q]) <= Len(sent'[q])
                      /\ \A i \in 1..Len(sent[q]) : sent'[q][i] = sent[q][i]
  <2>1. \A q \in Peer : Len(sent[q]) \in Nat
    BY DEF IInv, Types
  <2> TAKE q \in Peer
  <2>2. CASE q = p
    BY <1>5, <2>2, Zenon
  <2>3. CASE q # p
    BY <1>4, <2>1, <2>3
  <2> QED BY <2>2, <2>3
<1> QED BY <1>3, <1>6, <1>7, <1>8, <1>9, Kept

(* A peer closes its end. *)
LEMMA CloseStep ==
  ASSUME IInv, NEW p \in Peer, Close(p)
  PROVE  IInv'
<1>0. PICK m \in Message : \E n \in 0..Len(m) :
        Record(p, SubSeq(m, 1, n)) /\ up' = Extend(up, p, SubSeq(m, 1, n))
  BY Zenon DEF Close
<1>1. PICK n \in 0..Len(m) :
        Record(p, SubSeq(m, 1, n)) /\ up' = Extend(up, p, SubSeq(m, 1, n))
  BY <1>0, Zenon
<1> USE DEF Close, Extend, history
<1> DEFINE t == SubSeq(m, 1, n)
<1>2. t \in Seq(Nat \ {NUL})
  <2>1. m \in Seq(Nat \ {NUL})
    BY Texts DEF Word
  <2>2. \A i \in 1..n : m[i] \in Nat \ {NUL}
    BY <2>1, ElementOfSeq
  <2> QED BY <2>1, <2>2, SubSeqProperties
<1> HIDE DEF t
<1>3. /\ up[p] \in Seq(Nat) /\ buffer[p] \in Seq(Nat) /\ written[p] \in Nat /\ sent[p] \in Seq(Word)
      /\ alive[p] = "open" /\ told \in 0..3
      /\ up[p] \o t \in Seq(Nat)
  <2>1. t \in Seq(Nat) /\ up[p] \in Seq(Nat)
    BY <1>2, TornIsNot DEF IInv, Types
  <2> QED BY <2>1, ConcatProperties DEF IInv, Types
<1>4. /\ up' = [up EXCEPT ![p] = up[p] \o t]
      /\ alive' = [alive EXCEPT ![p] = "closed"]
      /\ sent' = [sent EXCEPT ![p] = IF t \notin {<<>>, Reset} /\ (p = "manager" => written[p] >= 3)
                                     THEN Append(sent[p], t) ELSE sent[p]]
      /\ UNCHANGED <<shut, down, buffer, inbox, thread, main, told, written, heard>>
  BY <1>1, Texts DEF Record, Due, IInv, Types, t
<1>5. /\ up'[p] = up[p] \o t /\ alive'[p] = "closed"
      /\ sent'[p] = IF t \notin {<<>>, Reset} /\ (p = "manager" => written[p] >= 3)
                    THEN Append(sent[p], t) ELSE sent[p]
      /\ \A q \in Peer : q # p => up'[q] = up[q] /\ alive'[q] = alive[q] /\ sent'[q] = sent[q]
  BY <1>4 DEF IInv, Types
<1>6. /\ sent'[p] \in Seq(Word) /\ Len(sent[p]) <= Len(sent'[p])
      /\ \A i \in 1..Len(sent[p]) : sent'[p][i] = sent[p][i]
  <2>1. CASE t \in Word
    BY <1>3, <1>5, <2>1, AppendProperties
  <2>2. CASE t \notin Word
    BY <1>2, <1>3, <1>5, <2>2 DEF Word
  <2> QED BY <2>1, <2>2
<1>7. Types'
  BY <1>3, <1>4, <1>5, <1>6 DEF IInv, Types
<1>8. Phase' /\ \A q \in Peer : Gone(q) => Gone(q)'
  <2>1. \A q \in Peer : Gone(q) => Gone(q)'
    BY <1>4, <1>5 DEF Gone
  <2> QED BY <1>4, <2>1, Others DEF IInv, Phase
<1>9. ASSUME NEW q \in Peer, NEW k \in Nat, Upstream(q, k) PROVE Upstream(q, k)'
  <2>1. CASE q = p
    <3>1. PICK base \in Nat :
            /\ ReadUpTo(p, "open", buffer[p], up[p], told, written[p], sent[p], base)
            /\ ~Gone(Other(p)) => base = k
      BY <1>3, <1>9, <2>1 DEF Upstream
    <3>2. ReadUpTo(p, "closed", buffer[p], up'[p], told, written[p], sent'[p], base)
      <4>1. ReadUpTo(p, "closed", buffer[p], up[p] \o t, told, written[p], sent'[p], base)
        BY <1>2, <1>3, <1>5, <3>1, ReadUpToClosed
      <4> QED BY <1>5, <4>1, Zenon
    <3> QED BY <1>4, <1>5, <1>8, <2>1, <3>1, <3>2, Others DEF Upstream
  <2>2. CASE q # p
    BY <1>4, <1>5, <1>8, <1>9, <2>2, UpstreamKept, Others
  <2> QED BY <2>1, <2>2
<1>10. \A q \in Peer : /\ Len(sent[q]) <= Len(sent'[q])
                       /\ \A i \in 1..Len(sent[q]) : sent'[q][i] = sent[q][i]
  <2>1. \A q \in Peer : Len(sent[q]) \in Nat
    BY DEF IInv, Types
  <2> TAKE q \in Peer
  <2>2. CASE q = p
    BY <1>6, <2>2, Zenon
  <2>3. CASE q # p
    BY <1>5, <2>1, <2>3
  <2> QED BY <2>2, <2>3
<1> QED BY <1>4, <1>7, <1>8, <1>9, <1>10, Kept

(* A peer resets its end. *)
LEMMA ResetConnectionStep ==
  ASSUME IInv, NEW p \in Peer, ResetConnection(p)
  PROVE  IInv'
<1>1. /\ alive[p] = "open"
      /\ alive' = [alive EXCEPT ![p] = "reset"] /\ up' = [up EXCEPT ![p] = <<>>]
      /\ UNCHANGED <<shut, down, buffer, inbox, thread, main, told, written, sent, heard>>
  BY DEF ResetConnection, history
<1>2. /\ up'[p] = <<>> /\ alive'[p] = "reset"
      /\ \A q \in Peer : q # p => up'[q] = up[q] /\ alive'[q] = alive[q]
  BY <1>1 DEF IInv, Types
<1>3. Types'
  <2>1. <<>> \in Seq(Nat)
    BY EmptySeq
  <2> QED BY <1>1, <2>1 DEF IInv, Types
<1>4. Phase' /\ \A q \in Peer : Gone(q) => Gone(q)'
  <2>1. \A q \in Peer : Gone(q) => Gone(q)'
    BY <1>1, <1>2 DEF Gone
  <2> QED BY <1>1, <2>1, Others DEF IInv, Phase
<1>5. ASSUME NEW q \in Peer, NEW k \in Nat, Upstream(q, k) PROVE Upstream(q, k)'
  <2>1. CASE q = p
    <3>1. PICK base \in Nat :
            /\ ReadUpTo(p, "open", buffer[p], up[p], told, written[p], sent[p], base)
            /\ ~Gone(Other(p)) => base = k
      BY <1>1, <1>5, <2>1 DEF Upstream
    <3>2. ReadUpTo(p, "reset", buffer[p], <<>>, told, written[p], sent[p], base)
      BY <3>1, ReadUpToReset
    <3> QED BY <1>1, <1>2, <1>4, <2>1, <3>1, <3>2, Others DEF Upstream
  <2>2. CASE q # p
    BY <1>1, <1>2, <1>4, <1>5, <2>2, UpstreamKept, Others
  <2> QED BY <2>1, <2>2
<1> QED BY <1>1, <1>3, <1>4, <1>5, SentKept, Kept

(* play.py ends. *)
LEMMA JoinStep ==
  ASSUME IInv, Join
  PROVE  IInv'
<1>1. /\ main = "forward" /\ main' = "exited" /\ \A p \in Peer : thread[p] = "done"
      /\ shut' = [p \in Peer |-> TRUE]
      /\ alive' = [alive EXCEPT !["player"] = IF @ = "open" THEN "closed" ELSE @]
      /\ UNCHANGED <<up, down, buffer, inbox, thread, told, written, sent, heard>>
  BY DEF Join, history
<1>2. /\ alive'["player"] = IF alive["player"] = "open" THEN "closed" ELSE alive["player"]
      /\ alive'["manager"] = alive["manager"]
      /\ alive["player"] \in {"open", "closed", "reset"}
  BY <1>1, Others DEF IInv, Types
<1>3. Types'
  BY <1>1, <1>2 DEF IInv, Types
<1>4. Phase' /\ \A q \in Peer : Gone(q)'
  BY <1>1, Others DEF IInv, Phase, Gone
<1>5. ASSUME NEW q \in Peer, NEW k \in Nat, Upstream(q, k) PROVE Upstream(q, k)'
  <2>1. CASE q = "player" /\ alive[q] = "open"
    <3>1. /\ up[q] \in Seq(Nat) /\ buffer[q] \in Seq(Nat) /\ written[q] \in Nat /\ sent[q] \in Seq(Word)
          /\ told \in 0..3 /\ <<>> \in Seq(Nat \ {NUL}) /\ up[q] \o <<>> = up[q]
      BY ConcatEmptySeq, EmptySeq DEF IInv, Types
    <3>2. PICK base \in Nat :
            ReadUpTo(q, "open", buffer[q], up[q], told, written[q], sent[q], base)
      BY <1>5, <2>1 DEF Upstream
    <3>3. ReadUpTo(q, "closed", buffer[q], up[q] \o <<>>, told, written[q], sent[q], base)
      BY <3>1, <3>2, ReadUpToClosed
    <3> QED BY <1>1, <1>2, <1>4, <2>1, <3>1, <3>3, Others DEF Upstream
  <2>2. CASE ~(q = "player" /\ alive[q] = "open")
    BY <1>1, <1>2, <1>4, <1>5, <2>2, UpstreamKept, Others
  <2> QED BY <2>1, <2>2
<1> QED BY <1>1, <1>3, <1>4, <1>5, SentKept, Kept

(* What main reads as a preparation. *)
LEMMA PrepareStep ==
  ASSUME IInv, Prepare
  PROVE  IInv'
<1> DEFINE b == buffer["manager"]
<1>1. /\ main = "prepare"
      /\ Complete(b) \/ AtEnd("manager")
      /\ buffer' = [buffer EXCEPT !["manager"] = Rest(b)]
      /\ UNCHANGED <<alive, shut, up, inbox, written, sent>>
  BY DEF Prepare, ReceiveMessage, sockets, history
<1>2. \/ /\ Text(b) = <<>> /\ main' = "failed"
         /\ UNCHANGED <<told, thread, down, heard>>
      \/ /\ Text(b) # <<>> /\ told' = told + 1 /\ told' # 3
         /\ UNCHANGED <<main, thread, down, heard>>
      \/ /\ Text(b) # <<>> /\ told' = told + 1 /\ told' = 3
         /\ main' = "forward" /\ thread' = [p \in Peer |-> "read"] /\ Send("manager", Ready)
  BY Texts, Zenon DEF Prepare
<1>3. /\ Types /\ Phase /\ told \in 0..2 /\ heard["manager"] = <<>>
      /\ \A p \in Peer : ~shut[p]
      /\ "manager" \in Peer /\ "player" \in Peer
  BY <1>1, Others DEF IInv, Types, Phase
<1>4. /\ b \in Seq(Nat) /\ up["manager"] \in Seq(Nat) /\ sent["manager"] \in Seq(Word)
      /\ written["manager"] \in Nat /\ alive["manager"] \in {"open", "closed", "reset"}
      /\ Complete(b) \/ (up["manager"] = <<>> /\ alive["manager"] # "reset")
  BY <1>1, <1>3 DEF Types, AtEnd
<1> HIDE DEF b
<1>5. Rest(b) \in Seq(Nat)
  <2>1. PICK k \in Nat : Upstream("manager", k)
    BY DEF IInv, ToPlayer
  <2>2. PICK base \in Nat :
          ReadUpTo("manager", alive["manager"], b, up["manager"], told, written["manager"], sent["manager"], base)
    BY <2>1 DEF Upstream, b
  <2> QED BY <1>3, <1>4, <2>2, ReadUpToPrepared
<1>6. /\ buffer'["manager"] = Rest(b) /\ buffer'["player"] = buffer["player"]
      /\ told' = IF Text(b) = <<>> THEN told ELSE told + 1
  BY <1>1, <1>2, <1>3, Others DEF Types
<1>7. \A q \in Peer : Gone(q)' <=> Gone(q)
  BY <1>1 DEF Gone
<1>8. ASSUME NEW q \in Peer, NEW k \in Nat, Upstream(q, k) PROVE Upstream(q, k)'
  <2>1. PICK base \in Nat :
          /\ ReadUpTo(q, alive[q], buffer[q], up[q], told, written[q], sent[q], base)
          /\ ~Gone(Other(q)) => base = k
    BY <1>8 DEF Upstream
  <2>2. CASE q = "manager"
    <3>1. ReadUpTo("manager", alive["manager"], b, up["manager"], told, written["manager"], sent["manager"], base)
      BY <2>1, <2>2 DEF b
    <3>2. ReadUpTo("manager", alive["manager"], Rest(b), up["manager"], told', written["manager"], sent["manager"], base)
      BY <1>3, <1>4, <1>6, <3>1, ReadUpToPrepared
    <3> QED BY <1>1, <1>6, <1>7, <2>1, <2>2, <3>2, Others DEF Upstream
  <2>3. CASE q = "player"
    <3>1. ReadUpTo("player", alive[q], buffer[q], up[q], told', written[q], sent[q], base)
      BY <2>1, <2>3 DEF ReadUpTo, Stream, Pre
    <3> QED BY <1>1, <1>6, <1>7, <2>1, <2>3, <3>1, Others DEF Upstream
  <2> QED BY <2>2, <2>3, Others
<1>9. told' \in 0..3 /\ buffer' \in [Peer -> Seq(Nat)]
  BY <1>1, <1>3, <1>5, <1>6 DEF Types
<1>10. CASE told' # 3
  <2>1. UNCHANGED <<thread, down, heard>> /\ main' \in {"prepare", "failed"}
    BY <1>1, <1>2, <1>10
  <2>2. main' = "prepare" => told' < 3
    BY <1>9, <1>10
  <2>3. Types'
    BY <1>1, <1>3, <1>9, <2>1 DEF Types
  <2>4. Phase'
    BY <1>1, <1>3, <1>7, <2>1, <2>2 DEF Phase
  <2> QED BY <1>1, <1>8, <2>1, <2>3, <2>4, SentKept, Kept
<1>11. CASE told' = 3
  <2>1. /\ main' = "forward" /\ thread' = [p \in Peer |-> "read"]
        /\ heard' = [heard EXCEPT !["manager"] = Append(<<>>, Ready)] /\ UNCHANGED down
    BY <1>2, <1>3, <1>11 DEF Send
  <2>2. /\ Append(<<>>, Ready) \in Seq(Word) /\ Append(<<>>, Ready) # <<>>
        /\ Append(<<>>, Ready)[1] = Ready /\ Len(Append(<<>>, Ready)) = 1
    BY Texts, EmptySeq, AppendProperties
  <2>3. heard'["manager"] = Append(<<>>, Ready) /\ heard'["player"] = heard["player"]
    BY <1>3, <2>1, Others DEF Types
  <2>4. Types'
    BY <1>1, <1>3, <1>9, <2>1, <2>2 DEF Types
  <2>5. Phase'
    BY <1>1, <1>3, <1>7, <1>11, <2>1, <2>2, <2>3 DEF Phase
  <2>6. Passed = 0 /\ Passed' = 0
    BY <1>3, <2>2, <2>3 DEF Passed
  <2>7. ToPlayer' /\ ToManager' /\ HeardIsSent'
    BY <1>1, <1>3, <1>8, <2>1, <2>3, <2>6 DEF IInv, ToPlayer, ToManager, HeardIsSent
  <2> QED BY <2>4, <2>5, <2>7 DEF IInv
<1> QED BY <1>10, <1>11

(* The player's receiver fills its buffer. *)
LEMMA ExtendInboxStep ==
  ASSUME IInv, ExtendInbox
  PROVE  IInv'
<1>1. PICK n \in 1..Len(down) :
        inbox' = inbox \o SubSeq(down, 1, n) /\ down' = SubSeq(down, n + 1, Len(down))
  BY Zenon DEF ExtendInbox
<1>2. UNCHANGED <<alive, shut, up, buffer, thread, main, told, written, sent, heard>>
  BY DEF ExtendInbox, sockets, history
<1>3. inbox \in Seq(Nat) /\ down \in Seq(Nat) /\ inbox' \in Seq(Nat) /\ down' \in Seq(Nat)
  BY <1>1, MovesBytes, ConcatProperties DEF IInv, Types
<1>4. Types'
  BY <1>2, <1>3 DEF IInv, Types
<1>5. Phase' /\ Passed' = Passed /\ \A q \in Peer : Gone(q)' <=> Gone(q)
  BY <1>2 DEF IInv, Phase, Gone, Passed
<1>6. \A q \in Peer, k \in Nat : Upstream(q, k) => Upstream(q, k)'
  BY <1>2, <1>5, UpstreamKept, Others
<1>7. ToPlayer'
  <2>1. PICK k \in Nat :
          /\ k <= Len(sent["manager"])
          /\ Forwarded(inbox, down, Len(heard["player"]), k, sent["manager"])
          /\ Upstream("manager", k)
    BY DEF IInv, ToPlayer
  <2>2. Forwarded(inbox', down', Len(heard["player"]), k, sent["manager"])
    <3>1. Forwarded(inbox \o SubSeq(down, 1, n), SubSeq(down, n + 1, Len(down)),
                    Len(heard["player"]), k, sent["manager"])
      BY <1>3, <2>1, ForwardedMoved
    <3> QED BY <1>1, <3>1, Zenon
  <2> QED BY <1>2, <1>6, <2>1, <2>2, Others DEF ToPlayer
<1>8. ToManager' /\ HeardIsSent'
  BY <1>2, <1>5, <1>6, Others DEF IInv, ToManager, HeardIsSent
<1> QED BY <1>4, <1>5, <1>7, <1>8 DEF IInv

(* The player's receiver returns a text. *)
LEMMA PlayerHearsStep ==
  ASSUME IInv, PlayerHears
  PROVE  IInv'
<1>1. /\ Complete(inbox) \/ (inbox # <<>> /\ down = <<>>)
      /\ heard' = [heard EXCEPT !["player"] = Append(@, Text(inbox))]
      /\ inbox' = Rest(inbox)
      /\ UNCHANGED <<alive, shut, up, down, buffer, thread, main, told, written, sent>>
  BY DEF PlayerHears, sockets, history
<1>2. /\ inbox \in Seq(Nat) /\ down \in Seq(Nat) /\ heard["player"] \in Seq(Word)
      /\ Len(heard["player"]) \in Nat /\ Len(sent["manager"]) \in Nat
  BY Others DEF IInv, Types
<1> DEFINE number == Len(heard["player"])
<1>3. PICK k \in Nat :
        /\ k <= Len(sent["manager"])
        /\ Forwarded(inbox, down, number, k, sent["manager"])
        /\ Upstream("manager", k)
  BY DEF IInv, ToPlayer
<1>4. /\ Rest(inbox) \in Seq(Nat) /\ Text(inbox) \in Word
      /\ number + 1 <= k /\ sent["manager"][number + 1] = Text(inbox)
      /\ Forwarded(Rest(inbox), down, number + 1, k, sent["manager"])
  BY <1>1, <1>2, <1>3, ForwardedHeard
<1>5. /\ heard'["player"] = Append(heard["player"], Text(inbox)) /\ heard'["manager"] = heard["manager"]
      /\ heard'["player"] \in Seq(Word) /\ Len(heard'["player"]) = number + 1
      /\ \A i \in 1..number : heard'["player"][i] = heard["player"][i]
      /\ heard'["player"][number + 1] = Text(inbox)
  <2>1. heard'["player"] = Append(heard["player"], Text(inbox)) /\ heard'["manager"] = heard["manager"]
    BY <1>1, Others DEF IInv, Types
  <2> QED BY <1>2, <1>4, <2>1, AppendProperties
<1>6. Types'
  BY <1>1, <1>4, <1>5 DEF IInv, Types
<1>7. Phase' /\ Passed' = Passed /\ \A q \in Peer : Gone(q)' <=> Gone(q)
  BY <1>1, <1>5 DEF IInv, Phase, Gone, Passed
<1>8. \A q \in Peer, i \in Nat : Upstream(q, i) => Upstream(q, i)'
  BY <1>1, <1>7, UpstreamKept, Others
<1>9. ToPlayer'
  <2>1. Forwarded(inbox', down', Len(heard'["player"]), k, sent'["manager"])
    BY <1>1, <1>4, <1>5, Zenon
  <2> QED BY <1>1, <1>3, <1>8, <2>1, Others DEF ToPlayer
<1>10. ToManager'
  BY <1>7, <1>8, Others DEF IInv, ToManager
<1>11. HeardIsSent'
  <2>1. Len(heard'["player"]) <= Len(sent["manager"])
    BY <1>2, <1>3, <1>4, <1>5
  <2>2. \A i \in 1..Len(heard'["player"]) : heard'["player"][i] = sent["manager"][i]
    <3> TAKE i \in 1..Len(heard'["player"])
    <3>1. i \in 1..number \/ i = number + 1
      BY <1>2, <1>5
    <3> QED BY <1>4, <1>5, <3>1 DEF IInv, HeardIsSent
  <2> QED BY <1>1, <1>5, <1>7, <2>1, <2>2 DEF IInv, HeardIsSent
<1> QED BY <1>6, <1>7, <1>9, <1>10, <1>11 DEF IInv

(* One turn of forward_and_log: what is read, whatever comes of it. *)
LEMMA ForwardReads ==
  ASSUME IInv, NEW p \in Peer, Forward(p), NEW k \in Nat, Upstream(p, k)
  PROVE  /\ Rest(buffer[p]) \in Seq(Nat)
         /\ Text(buffer[p]) = <<>> => Gone(p)
         /\ \E next \in Nat :
              /\ ReadUpTo(p, alive[p], Rest(buffer[p]), up[p], told, written[p], sent[p], next)
              /\ ~Gone(Other(p)) => Passes(Text(buffer[p]), k, next, sent[p])
<1> DEFINE b == buffer[p]
<1>1. thread[p] = "read" /\ (Complete(b) \/ AtEnd(p))
  BY DEF Forward, ReceiveMessage
<1>2. /\ b \in Seq(Nat) /\ up[p] \in Seq(Nat) /\ sent[p] \in Seq(Word) /\ written[p] \in Nat
      /\ alive[p] \in {"open", "closed", "reset"} /\ told = 3 /\ told \in 0..3
      /\ shut[p] => Gone(Other(p))
  BY <1>1 DEF IInv, Types, Phase
<1>3. PICK base \in Nat :
        /\ ReadUpTo(p, alive[p], b, up[p], told, written[p], sent[p], base)
        /\ ~Gone(Other(p)) => base = k
  BY DEF Upstream
<1>4. Pre(p, told) = 0
  BY <1>2 DEF Pre
<1> HIDE DEF b
<1>5. ~Complete(b) => Gone(p)
  BY <1>1 DEF AtEnd, Gone
<1>6. CASE Complete(b) \/ (up[p] = <<>> /\ alive[p] # "reset")
  <2>1. /\ Rest(b) \in Seq(Nat)
        /\ Text(b) = <<>> => ~Complete(b)
        /\ \E next \in Nat :
             /\ ReadUpTo(p, alive[p], Rest(b), up[p], told, written[p], sent[p], next)
             /\ Passes(Text(b), base, next, sent[p])
    BY <1>2, <1>3, <1>4, <1>6, ReadUpToRead
  <2> QED BY <1>3, <1>5, <2>1, Zenon DEF b
<1>7. CASE ~Complete(b) /\ ~(up[p] = <<>> /\ alive[p] # "reset")
  <2>1. up[p] = <<>> /\ alive[p] = "reset" /\ Gone(Other(p))
    BY <1>1, <1>2, <1>7 DEF AtEnd
  <2>2. Rest(b) = <<>> /\ <<>> \in Seq(Nat) /\ 0 \in Nat
    BY <1>7, EmptySeq DEF Rest
  <2>3. ReadUpTo(p, "reset", <<>>, <<>>, told, written[p], sent[p], 0)
    BY <1>2, ReadUpToGivenUp
  <2> QED BY <1>5, <1>7, <2>1, <2>2, <2>3, Zenon DEF b
<1> QED BY <1>6, <1>7

(* A step of a forwarding thread keeps the invariant. *)
LEMMA ForwardStep ==
  ASSUME IInv, NEW p \in Peer, Forward(p)
  PROVE  IInv'
<1> DEFINE data == Text(buffer[p])
           q == Other(p)
<1>1. /\ thread[p] = "read"
      /\ buffer' = [buffer EXCEPT ![p] = Rest(buffer[p])]
      /\ UNCHANGED <<alive, up, inbox, main, told, written, sent>>
  BY DEF Forward, ReceiveMessage, history
<1>2. \/ /\ data = <<>>
         /\ shut' = [shut EXCEPT ![q] = TRUE] /\ thread' = [thread EXCEPT ![p] = "done"]
         /\ UNCHANGED <<down, heard>>
      \/ /\ data = Reset \/ (data \notin {<<>>, Reset} /\ Gone(q))
         /\ thread' \in {thread, [thread EXCEPT ![p] = "done"]}
         /\ UNCHANGED <<shut, down, heard>>
      \/ /\ data \notin {<<>>, Reset} /\ ~Gone(q)
         /\ Send(q, data)
         /\ UNCHANGED <<shut, thread>>
  BY DEF Forward, Gone
<1>3. /\ q \in Peer /\ q # p /\ Other(q) = p
      /\ "manager" \in Peer /\ "player" \in Peer /\ p \in {"manager", "player"}
      /\ Types /\ Phase /\ main = "forward" /\ told = 3
      /\ heard["manager"] # <<>>
  BY <1>1, Others DEF IInv, Phase
<1>4. PICK number \in Nat :
        /\ number <= Len(sent["manager"])
        /\ Forwarded(inbox, down, Len(heard["player"]), number, sent["manager"])
        /\ Upstream("manager", number)
  BY DEF IInv, ToPlayer
<1>5. Passed \in Nat /\ Upstream("player", Passed)
  BY DEF IInv, ToManager
<1>6. PICK k \in Nat : k = (IF p = "manager" THEN number ELSE Passed) /\ Upstream(p, k)
  BY <1>3, <1>4, <1>5
<1> HIDE DEF data, q
<1>7. /\ Rest(buffer[p]) \in Seq(Nat)
      /\ data = <<>> => Gone(p)
      /\ \E next \in Nat :
           /\ ReadUpTo(p, alive[p], Rest(buffer[p]), up[p], told, written[p], sent[p], next)
           /\ ~Gone(q) => Passes(data, k, next, sent[p])
  BY <1>6, ForwardReads, Zenon DEF data, q
<1>8. PICK next \in Nat :
        /\ ReadUpTo(p, alive[p], Rest(buffer[p]), up[p], told, written[p], sent[p], next)
        /\ ~Gone(q) => Passes(data, k, next, sent[p])
  BY <1>7, Zenon
<1>9. /\ buffer'[p] = Rest(buffer[p]) /\ buffer'[q] = buffer[q]
      /\ buffer' \in [Peer -> Seq(Nat)]
  BY <1>1, <1>3, <1>7 DEF Types
<1>10. /\ shut' \in [Peer -> BOOLEAN] /\ thread' \in [Peer -> {"new", "read", "done"}]
       /\ shut'[p] = shut[p] /\ \A r \in Peer : shut[r] => shut'[r]
       /\ shut'[q] => shut[q] \/ Gone(p)
       /\ \A r \in Peer : thread'[r] = "read" => thread[r] = "read"
  BY <1>2, <1>3, <1>7 DEF Types
<1>11. /\ \A r \in Peer : Gone(r) => Gone(r)'
       /\ Gone(p)' <=> Gone(p)
  BY <1>1, <1>10 DEF Gone
<1>12. \A r \in Peer : shut'[r] => Gone(Other(r))'
  <2> TAKE r \in Peer
  <2>1. r = p \/ r = q
    BY <1>3, Others DEF q
  <2>2. shut[r] => Gone(Other(r))
    BY <1>3 DEF Phase
  <2>3. CASE r = p
    BY <1>3, <1>10, <1>11, <2>2, <2>3 DEF q
  <2>4. CASE r = q
    BY <1>3, <1>10, <1>11, <2>2, <2>4
  <2> QED BY <2>1, <2>3, <2>4
<1>13. \A i \in Nat : Upstream(q, i) => Upstream(q, i)'
  BY <1>1, <1>3, <1>9, <1>11, UpstreamKept
<1>14. CASE UNCHANGED <<down, heard>> /\ (data \in {<<>>, Reset} \/ Gone(q))
  <2>1. Types'
    BY <1>1, <1>3, <1>9, <1>10, <1>14 DEF Types
  <2>2. Phase'
    BY <1>1, <1>3, <1>10, <1>12, <1>14 DEF Phase
  <2>3. ASSUME NEW i \in Nat, Upstream(p, i) PROVE Upstream(p, i)'
    <3>1. PICK last \in Nat :
            /\ ReadUpTo(p, alive[p], Rest(buffer[p]), up[p], told, written[p], sent[p], last)
            /\ ~Gone(Other(p)) => Passes(data, i, last, sent[p])
      BY <2>3, ForwardReads, Zenon DEF data
    <3>2. ~Gone(Other(p))' => last = i
      BY <1>3, <1>11, <1>14, <3>1 DEF q, Passes
    <3> QED BY <1>1, <1>9, <3>1, <3>2 DEF Upstream
  <2>4. \A r \in Peer, i \in Nat : Upstream(r, i) => Upstream(r, i)'
    <3>1. \A r \in Peer : r = p \/ r = q
      BY <1>3, Others DEF q
    <3> QED BY <1>13, <2>3, <3>1
  <2> QED BY <1>1, <1>14, <2>1, <2>2, <2>4, SentKept, Kept
<1>15. CASE data \notin {<<>>, Reset} /\ ~Gone(q) /\ Send(q, data) /\ UNCHANGED <<shut, thread>>
  <2>1. /\ next = k + 1 /\ next <= Len(sent[p]) /\ sent[p][next] = data /\ data \in Word
    BY <1>8, <1>15 DEF Passes
  <2>2. Upstream(p, k + 1)'
    BY <1>1, <1>8, <1>9, <2>1 DEF Upstream
  <2>3. CASE p = "manager"
    <3>1. q = "player" /\ k = number
      BY <1>6, <2>3, Others DEF q
    <3>2. down' = down \o Framed(data) /\ UNCHANGED heard
      BY <1>15, <3>1 DEF Send
    <3>3. /\ down \in Seq(Nat) /\ inbox \in Seq(Nat) /\ down' \in Seq(Nat)
          /\ Len(heard["player"]) \in Nat /\ number + 1 \in Nat
      <4>1. Framed(data) \in Seq(Nat) /\ down \in Seq(Nat)
        BY <1>3, <2>1, Words DEF Types
      <4> QED BY <1>3, <3>2, <4>1, ConcatProperties DEF Types
    <3>4. Types'
      BY <1>1, <1>3, <1>9, <1>10, <3>2, <3>3 DEF Types
    <3>5. Phase'
      BY <1>1, <1>3, <1>10, <1>12, <3>2 DEF Phase
    <3>6. Forwarded(inbox, down \o Framed(data), Len(heard["player"]), number + 1, sent["manager"])
      BY <1>4, <2>1, <2>3, <3>1, <3>3, ForwardedMore
    <3>7. ToPlayer'
      BY <1>1, <2>1, <2>2, <2>3, <3>1, <3>2, <3>3, <3>6 DEF ToPlayer
    <3>8. Passed' = Passed
      BY <3>2 DEF Passed
    <3>9. ToManager'
      BY <1>5, <1>13, <3>1, <3>8 DEF ToManager
    <3>10. HeardIsSent'
      BY <1>1, <3>2, <3>8 DEF IInv, HeardIsSent
    <3> QED BY <3>4, <3>5, <3>7, <3>9, <3>10 DEF IInv
  <2>4. CASE p = "player"
    <3>1. q = "manager" /\ k = Passed
      BY <1>6, <2>4, Others DEF q
    <3>2. heard' = [heard EXCEPT !["manager"] = Append(heard["manager"], data)] /\ UNCHANGED down
      BY <1>15, <3>1 DEF Send
    <3>3. /\ heard["manager"] \in Seq(Word)
          /\ heard'["manager"] = Append(heard["manager"], data) /\ heard'["player"] = heard["player"]
      BY <1>3, <3>2 DEF Types
    <3>4. /\ Passed = Len(heard["manager"]) - 1 /\ Len(heard["manager"]) \in Nat \ {0}
      BY <1>3, <3>3, EmptySeq DEF Passed
    <3>5. /\ heard'["manager"] \in Seq(Word) /\ heard'["manager"] # <<>>
          /\ Len(heard'["manager"]) = Len(heard["manager"]) + 1
          /\ \A i \in 1..Len(heard["manager"]) : heard'["manager"][i] = heard["manager"][i]
          /\ heard'["manager"][Len(heard["manager"]) + 1] = data
      BY <2>1, <3>3, AppendProperties
    <3>6. Passed' = Passed + 1
      BY <3>4, <3>5 DEF Passed
    <3>7. Types'
      BY <1>1, <1>3, <1>9, <1>10, <3>2, <3>5 DEF Types
    <3>8. Phase'
      <4>1. heard'["manager"][1] = heard["manager"][1]
        BY <3>4, <3>5
      <4> QED BY <1>1, <1>3, <1>10, <1>12, <3>5, <4>1 DEF Phase
    <3>9. ToPlayer'
      BY <1>1, <1>4, <1>13, <3>1, <3>2, <3>3 DEF ToPlayer
    <3>10. ToManager'
      BY <1>5, <2>2, <2>4, <3>1, <3>6 DEF ToManager
    <3>11. HeardIsSent'
      <4>1. Passed' <= Len(sent'["player"])
        BY <1>1, <2>1, <2>4, <3>1, <3>6
      <4>2. \A i \in 1..Passed' : heard'["manager"][i + 1] = sent'["player"][i]
        <5> TAKE i \in 1..Passed'
        <5>1. CASE i = Passed + 1
          <6>1. i + 1 = Len(heard["manager"]) + 1
            BY <3>4, <5>1
          <6> QED BY <1>1, <2>1, <2>4, <3>1, <3>5, <5>1, <6>1
        <5>2. CASE i # Passed + 1
          <6>1. i \in 1..Passed /\ i + 1 \in 1..Len(heard["manager"])
            BY <1>5, <3>4, <3>6, <5>2
          <6> QED BY <1>1, <3>5, <6>1 DEF IInv, HeardIsSent
        <5> QED BY <5>1, <5>2
      <4> QED BY <1>1, <3>3, <4>1, <4>2 DEF IInv, HeardIsSent
    <3> QED BY <3>7, <3>8, <3>9, <3>10, <3>11 DEF IInv
  <2> QED BY <1>3, <2>3, <2>4
<1> QED BY <1>2, <1>14, <1>15

(* So the invariant holds in every reachable state. *)
LEMMA AlwaysIInv == SafeSpec => []IInv
<1>1. IInv /\ [Next]_vars => IInv'
  <2> SUFFICES ASSUME IInv, [Next]_vars PROVE IInv'
    OBVIOUS
  <2>1. ASSUME NEW p \in Peer, ExtendBuffer(p) \/ ReceiveRaises(p) \/ Forward(p) PROVE IInv'
    BY <2>1, ExtendBufferStep, ReceiveRaisesStep, ForwardStep
  <2>2. ASSUME NEW p \in Peer, NEW m, SendText(p, m) PROVE IInv'
    BY <2>2, SendTextStep
  <2>3. ASSUME NEW p \in Peer, Close(p) \/ ResetConnection(p) PROVE IInv'
    BY <2>3, CloseStep, ResetConnectionStep
  <2>4. ASSUME Prepare \/ Join \/ ExtendInbox \/ PlayerHears PROVE IInv'
    BY <2>4, PrepareStep, JoinStep, ExtendInboxStep, PlayerHearsStep
  <2>5. CASE UNCHANGED vars
    BY <2>5 DEF vars, sockets, history, IInv, Types, Phase, Gone, ToPlayer, ToManager, Upstream,
      Passed, HeardIsSent
  <2> QED BY <2>1, <2>2, <2>3, <2>4, <2>5 DEF Next, PlayStep
<1> QED BY InitIInv, <1>1, PTL DEF SafeSpec

(* Sequences that agree as far as the first goes. *)
LEMMA PrefixByTexts ==
  ASSUME NEW s \in Seq(Word), NEW t \in Seq(Word), Len(s) <= Len(t),
         \A i \in 1..Len(s) : s[i] = t[i]
  PROVE  IsPrefix(s, t)
<1>1. Len(s) \in Nat /\ Len(t) \in Nat
  OBVIOUS
<1>2. SubSeq(s, 1, Len(s)) = s
  BY SubSeqFull
<1>3. SubSeq(t, 1, Len(s)) = s
  <2>1. \A i \in 1..Len(s) : t[i] \in Word
    BY <1>1, ElementOfSeq
  <2>2. /\ SubSeq(t, 1, Len(s)) \in Seq(Word)
        /\ Len(SubSeq(t, 1, Len(s))) = Len(s)
        /\ \A i \in 1..Len(s) : SubSeq(t, 1, Len(s))[i] = t[i]
    <3>1. /\ SubSeq(t, 1, Len(s)) \in Seq(Word)
          /\ Len(SubSeq(t, 1, Len(s))) = IF 1 <= Len(s) THEN Len(s) - 1 + 1 ELSE 0
          /\ \A i \in 1..(Len(s) - 1 + 1) : SubSeq(t, 1, Len(s))[i] = t[1 + i - 1]
      BY <1>1, <2>1, SubSeqProperties
    <3> QED BY <1>1, <3>1
  <2> QED BY <2>2, SeqEqual
<1> QED BY <1>2, <1>3 DEF IsPrefix

(* However the bytes are cut up, each side reads the texts written for it, *)
(* in order, whole and once: for all texts, quotas and windows, through    *)
(* resets and torn texts.                                                  *)
THEOREM TextsInOrder == SafeSpec => []InOrder
<1>1. IInv => InOrder
  <2> SUFFICES ASSUME IInv PROVE InOrder
    OBVIOUS
  <2>1. heard["manager"] # <<>> => Head(heard["manager"]) = Ready
    <3>1. heard["manager"] \in Seq(Word) /\ (heard["manager"] # <<>> => heard["manager"][1] = Ready)
      BY Others DEF IInv, Types, Phase
    <3> QED BY <3>1, HeadTailProperties
  <2>2. ASSUME NEW p \in Peer, heard[Other(p)] # <<>> PROVE IsPrefix(HeardFrom(p), sent[p])
    <3>1. CASE p = "manager"
      BY <3>1, PrefixByTexts, Others DEF IInv, Types, HeardIsSent, HeardFrom
    <3>2. CASE p = "player"
      <4>1. heard["manager"] \in Seq(Word) /\ heard["manager"] # <<>> /\ sent["player"] \in Seq(Word)
        BY <2>2, <3>2, Others DEF IInv, Types
      <4>2. /\ Tail(heard["manager"]) \in Seq(Word)
            /\ Len(Tail(heard["manager"])) = Passed
            /\ \A i \in 1..Passed : Tail(heard["manager"])[i] = heard["manager"][i + 1]
        BY <4>1, HeadTailProperties DEF Passed
      <4>3. IsPrefix(Tail(heard["manager"]), sent["player"])
        BY <4>1, <4>2, PrefixByTexts DEF IInv, HeardIsSent
      <4> QED BY <3>2, <4>3 DEF HeardFrom
    <3> QED BY <3>1, <3>2, Others
  <2> QED BY <2>1, <2>2 DEF InOrder
<1> QED BY <1>1, AlwaysIInv, PTL
=============================================================================
