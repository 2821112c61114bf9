----------------------- MODULE ConcurrentQueueProofs -----------------------
(***************************************************************************)
(* Proofs about ConcurrentQueue for any number of threads, any limit and   *)
(* any number of calls.                                                    *)
(***************************************************************************)
EXTENDS ConcurrentQueue, SequenceTheorems, FiniteSetTheorems, TLAPS

-----------------------------------------------------------------------------
(* The inductive invariant.                                                *)

(* A producer inside a call has counted it. *)
Called == \A t \in Emplacers : pc[t] # "idle" => calls[t] > 0

(* One thread at a time is between its lock and its unlock, and it holds   *)
(* the mutex.                                                              *)
MutualExclusion ==
  \A t \in Threads : pc[t] \in {"check", "emplace", "pop", "unlock"} => mutex = t

(* Who sleeps does so inside a wait. *)
SleepersWait == \A t \in new_data_notifier \union free_space_notifier : pc[t] = "wait"

(* What came out followed by what is inside is what went in. *)
InOrder == sent = received \o collection

(* The element a consumer has copied is still the first one. *)
InHand ==
  \A t \in Consumers : pc[t] = "pop" => collection # <<>> /\ elem[t] = Head(collection)

(* The place a bounded producer has found is still free. *)
PlaceFound ==
  Producers = {} =>
    \A t \in BoundedProducers : pc[t] = "emplace" => Len(collection) < Limit

(* A lone consumer that has seen something need not fear to lose it. *)
SeenIsThere ==
  Cardinality(Consumers) = 1 => \A t \in Consumers : seen[t] => collection # <<>>

IInv ==
  /\ TypeOK
  /\ Called
  /\ MutualExclusion
  /\ InHand
  /\ InOrder
  /\ PlaceFound
  /\ Bounded
  /\ SeenIsThere
  /\ SleepersWait
  /\ NoWakeUpLost

-----------------------------------------------------------------------------
(* Sequences.                                                              *)

(* An element appended to the second of two sequences. *)
LEMMA AppendToSecond ==
  ASSUME NEW s \in Seq(Element), NEW t \in Seq(Element), NEW e \in Element
  PROVE  Append(s \o t, e) = s \o Append(t, e)
<1>1. /\ Append(s \o t, e) = (s \o t) \o <<e>>
      /\ Append(t, e) = t \o <<e>>
  BY ConcatProperties, AppendIsConcat
<1>2. <<e>> \in Seq(Element)
  OBVIOUS
<1>3. (s \o t) \o <<e>> = s \o (t \o <<e>>)
  BY <1>2, ConcatAssociative
<1> QED BY <1>1, <1>3

(* The first element of the second sequence moved to the end of the first. *)
LEMMA HeadMoved ==
  ASSUME NEW S, NEW s \in Seq(S), NEW t \in Seq(S), t # <<>>
  PROVE  /\ Append(s, Head(t)) \o Tail(t) = s \o t
         /\ Len(s) < Len(s \o t)
         /\ (s \o t)[Len(s) + 1] = Head(t)
<1>1. /\ Head(t) \in S /\ Head(t) = t[1]
      /\ Tail(t) \in Seq(S) /\ Len(Tail(t)) = Len(t) - 1
      /\ \A i \in 1 .. Len(Tail(t)) : Tail(t)[i] = t[i + 1]
  BY HeadTailProperties
<1>2. Len(t) \in Nat \ {0} /\ Len(s) \in Nat
  BY EmptySeq
<1>3. /\ Append(s, Head(t)) \in Seq(S)
      /\ Len(Append(s, Head(t))) = Len(s) + 1
      /\ \A i \in 1 .. Len(s) : Append(s, Head(t))[i] = s[i]
      /\ Append(s, Head(t))[Len(s) + 1] = Head(t)
  BY <1>1, AppendProperties
<1> DEFINE l == Append(s, Head(t)) \o Tail(t)
           r == s \o t
<1>4. /\ l \in Seq(S) /\ Len(l) = Len(s) + Len(t)
      /\ \A i \in 1 .. Len(s) + Len(t) :
           l[i] = IF i <= Len(s) + 1 THEN Append(s, Head(t))[i] ELSE Tail(t)[i - (Len(s) + 1)]
  <2> HIDE DEF l
  <2>1. /\ l \in Seq(S) /\ Len(l) = (Len(s) + 1) + (Len(t) - 1)
        /\ \A i \in 1 .. (Len(s) + 1) + (Len(t) - 1) :
           l[i] = IF i <= Len(s) + 1 THEN Append(s, Head(t))[i] ELSE Tail(t)[i - (Len(s) + 1)]
    BY <1>1, <1>3, ConcatProperties DEF l
  <2>2. (Len(s) + 1) + (Len(t) - 1) = Len(s) + Len(t)
    BY <1>2
  <2> QED BY <2>1, <2>2
<1>5. /\ r \in Seq(S) /\ Len(r) = Len(s) + Len(t)
      /\ \A i \in 1 .. Len(s) + Len(t) : r[i] = IF i <= Len(s) THEN s[i] ELSE t[i - Len(s)]
  BY ConcatProperties
<1>6. ASSUME NEW i \in 1 .. Len(s) + Len(t) PROVE l[i] = r[i]
  <2> HIDE DEF l, r
  <2>1. CASE i <= Len(s)
    BY <1>2, <1>3, <1>4, <1>5, <2>1
  <2>2. CASE i = Len(s) + 1
    <3>1. l[i] = Head(t)
      BY <1>2, <1>3, <1>4, <2>2
    <3>2. r[i] = t[i - Len(s)] /\ i - Len(s) = 1
      BY <1>2, <1>5, <2>2
    <3> QED BY <1>1, <3>1, <3>2
  <2>3. CASE i > Len(s) + 1
    <3>1. l[i] = Tail(t)[i - (Len(s) + 1)]
      BY <1>2, <1>4, <2>3
    <3>2. /\ i - (Len(s) + 1) \in 1 .. Len(Tail(t))
          /\ (i - (Len(s) + 1)) + 1 = i - Len(s)
      BY <1>1, <1>2, <2>3
    <3>3. r[i] = t[i - Len(s)]
      BY <1>2, <1>5, <2>3
    <3> QED BY <1>1, <3>1, <3>2, <3>3
  <2> QED BY <1>2, <2>1, <2>2, <2>3
<1>7. l = r
  <2> HIDE DEF l, r
  <2> QED BY <1>4, <1>5, <1>6, SeqEqual
<1>8. r[Len(s) + 1] = t[1]
  <2> HIDE DEF r
  <2>1. Len(s) + 1 \in 1 .. Len(s) + Len(t) /\ (Len(s) + 1) - Len(s) = 1
    BY <1>2
  <2> QED BY <1>2, <1>5, <2>1
<1> QED BY <1>1, <1>2, <1>5, <1>7, <1>8

-----------------------------------------------------------------------------
(* Types.                                                                  *)

(* What a producer is about to emplace is an element. *)
LEMMA ElementOfCall ==
  ASSUME TypeOK, Called, NEW t \in Emplacers, pc[t] = "emplace"
  PROVE  <<t, calls[t]>> \in Element
<1>1. calls[t] \in 0 .. Quota
  BY DEF TypeOK
<1>2. calls[t] > 0
  BY DEF Called
<1>3. calls[t] \in 1 .. Quota
  BY <1>1, <1>2, QueueAssumption
<1> QED BY <1>3 DEF Element

(* A sequence just appended to is not empty. *)
LEMMA AppendNotEmpty ==
  ASSUME NEW S, NEW s \in Seq(S), NEW e \in S
  PROVE  Append(s, e) # <<>>
BY AppendProperties

(* The queue starts empty, with nobody in it. *)
LEMMA InitIInv == Init => IInv
<1> SUFFICES ASSUME Init PROVE IInv
  OBVIOUS
<1> USE QueueAssumption DEF Init
<1>1. TypeOK
  <2>1. 0 \in 0 .. Quota
    OBVIOUS
  <2> QED BY <2>1, EmptySeq DEF TypeOK, Points
<1>5. Called
  BY DEF Called, Threads
<1>2. MutualExclusion /\ InHand /\ PlaceFound /\ SeenIsThere
  BY DEF MutualExclusion, InHand, PlaceFound, SeenIsThere, Threads, Emplacers
<1>6. SleepersWait /\ NoWakeUpLost
  BY DEF SleepersWait, NoWakeUpLost, DataTended, SpaceTended
<1>3. InOrder
  BY ConcatEmptySeq, EmptySeq DEF InOrder
<1>4. Bounded
  BY EmptySeq DEF Bounded
<1> QED BY <1>1, <1>5, <1>2, <1>3, <1>4, <1>6 DEF IInv

(* Who takes which step. *)
LEMMA WhoSteps ==
  ASSUME Next
  PROVE  \/ \E t \in Emplacers : CallEmplace(t) \/ Emplace(t) \/ NotifyData(t)
         \/ \E t \in BoundedProducers : WaitForSpace(t) \/ FindSpace(t)
         \/ \E t \in Consumers : CallPop(t) \/ CallEmpty(t) \/ WaitForData(t) \/ CopyFront(t)
                                  \/ Pop(t) \/ NotifySpace(t)
         \/ \E t \in Threads : AcquireMutex(t) \/ SpuriousWakeUp(t) \/ Unlock(t)
BY DEF Next, Inside, InsideEmplace, InsideBounded, InsidePop, Emplacers

(* Every step keeps the types. *)
LEMMA TypeStep == IInv /\ [Next]_vars => TypeOK' /\ Called'
<1> SUFFICES ASSUME IInv, [Next]_vars PROVE TypeOK' /\ Called'
  OBVIOUS
<1> USE QueueAssumption DEF IInv, TypeOK, Called, GoTo, Points, waitSets, histories
<1>1. ASSUME NEW t \in Emplacers, CallEmplace(t) PROVE TypeOK' /\ Called'
  <2>1. t \in Threads /\ calls[t] + 1 \in 1 .. Quota
    BY <1>1 DEF CallEmplace, Threads
  <2> QED BY <1>1, <2>1 DEF CallEmplace
<1>2. ASSUME NEW t \in Emplacers, Emplace(t) PROVE TypeOK' /\ Called'
  <2>1. t \in Threads /\ <<t, calls[t]>> \in Element
    BY <1>2, ElementOfCall DEF Emplace, Threads
  <2>2. collection' \in Seq(Element) /\ sent' \in Seq(Element)
    BY <1>2, <2>1 DEF Emplace
  <2> QED BY <1>2, <2>1, <2>2 DEF Emplace
<1>3. ASSUME NEW t \in Emplacers, NotifyData(t) PROVE TypeOK' /\ Called'
  <2>1. t \in Threads
    BY DEF Threads
  <2>2. new_data_notifier' \subseteq Consumers
    BY <1>3 DEF NotifyData, NotifyOne
  <2> QED BY <1>3, <2>1, <2>2 DEF NotifyData
<1>4. ASSUME NEW t \in BoundedProducers, WaitForSpace(t) \/ FindSpace(t) PROVE TypeOK' /\ Called'
  <2>1. t \in Threads
    BY DEF Threads, Emplacers
  <2>2. CASE WaitForSpace(t)
    BY <2>1, <2>2 DEF WaitForSpace
  <2>3. CASE FindSpace(t)
    BY <2>1, <2>3 DEF FindSpace
  <2> QED BY <1>4, <2>2, <2>3
<1>5. ASSUME NEW t \in Consumers, CallPop(t) \/ CallEmpty(t) \/ WaitForData(t)
      PROVE  TypeOK' /\ Called'
  <2>1. t \in Threads /\ t \notin Emplacers
    BY DEF Threads
  <2>2. CASE CallPop(t)
    BY <2>1, <2>2 DEF CallPop
  <2>3. CASE CallEmpty(t)
    BY <2>1, <2>3 DEF CallEmpty
  <2>4. CASE WaitForData(t)
    BY <2>1, <2>4 DEF WaitForData
  <2> QED BY <1>5, <2>2, <2>3, <2>4
<1>6. ASSUME NEW t \in Consumers, CopyFront(t) PROVE TypeOK' /\ Called'
  <2>1. t \in Threads /\ t \notin Emplacers
    BY DEF Threads
  <2>2. Head(collection) \in Element
    BY <1>6 DEF CopyFront
  <2> QED BY <1>6, <2>1, <2>2 DEF CopyFront
<1>7. ASSUME NEW t \in Consumers, Pop(t) PROVE TypeOK' /\ Called'
  <2>1. t \in Threads /\ t \notin Emplacers
    BY DEF Threads
  <2>2. collection # <<>> /\ elem[t] = Head(collection)
    BY <1>7 DEF Pop, InHand
  <2>3. collection' \in Seq(Element) /\ received' \in Seq(Element)
    BY <1>7, <2>2 DEF Pop
  <2> QED BY <1>7, <2>1, <2>3 DEF Pop
<1>8. ASSUME NEW t \in Consumers, NotifySpace(t) PROVE TypeOK' /\ Called'
  <2>1. t \in Threads /\ t \notin Emplacers
    BY DEF Threads
  <2>2. free_space_notifier' \subseteq BoundedProducers
    BY <1>8 DEF NotifySpace, NotifyOne
  <2> QED BY <1>8, <2>1, <2>2 DEF NotifySpace
<1>9. ASSUME NEW t \in Threads, AcquireMutex(t) PROVE TypeOK' /\ Called'
  BY <1>9 DEF AcquireMutex
<1>10. ASSUME NEW t \in Threads, SpuriousWakeUp(t) \/ Unlock(t) PROVE TypeOK' /\ Called'
  <2>1. CASE SpuriousWakeUp(t)
    BY <2>1 DEF SpuriousWakeUp
  <2>2. CASE Unlock(t)
    BY <2>2 DEF Unlock
  <2> QED BY <1>10, <2>1, <2>2
<1>11. CASE UNCHANGED vars
  BY <1>11 DEF vars
<1> QED BY <1>1, <1>2, <1>3, <1>4, <1>5, <1>6, <1>7, <1>8, <1>9, <1>10, <1>11, WhoSteps

(* A thread enters when the mutex is free, and leaves before it frees it. *)
LEMMA MutexStep == IInv /\ [Next]_vars => MutualExclusion'
<1> SUFFICES ASSUME IInv, [Next]_vars PROVE MutualExclusion'
  OBVIOUS
<1> USE QueueAssumption DEF IInv, TypeOK, MutualExclusion, GoTo, waitSets, histories
<1>1. ASSUME NEW t \in Threads, \/ CallEmplace(t) \/ NotifyData(t) \/ CallPop(t)
                                \/ CallEmpty(t) \/ NotifySpace(t) \/ SpuriousWakeUp(t)
      PROVE  MutualExclusion'
  BY <1>1 DEF CallEmplace, NotifyData, CallPop, CallEmpty, NotifySpace, SpuriousWakeUp
<1>2. ASSUME NEW t \in Threads, AcquireMutex(t) PROVE MutualExclusion'
  BY <1>2 DEF AcquireMutex
<1>3. ASSUME NEW t \in Threads, WaitForSpace(t) \/ WaitForData(t) \/ Unlock(t)
      PROVE  MutualExclusion'
  BY <1>3 DEF WaitForSpace, WaitForData, Unlock
<1>4. ASSUME NEW t \in Threads, FindSpace(t) \/ Emplace(t) \/ CopyFront(t) \/ Pop(t)
      PROVE  MutualExclusion'
  BY <1>4 DEF FindSpace, Emplace, CopyFront, Pop
<1>5. CASE UNCHANGED vars
  BY <1>5 DEF vars
<1> QED BY <1>1, <1>2, <1>3, <1>4, <1>5, WhoSteps DEF Threads, Emplacers

(* Nothing is added or taken but under the mutex. *)
LEMMA OrderStep == IInv /\ [Next]_vars => InOrder' /\ InHand'
<1> SUFFICES ASSUME IInv, [Next]_vars PROVE InOrder' /\ InHand'
  OBVIOUS
<1> USE QueueAssumption DEF IInv, TypeOK, GoTo, waitSets, histories
<1>1. ASSUME NEW t \in Emplacers, Emplace(t) PROVE InOrder' /\ InHand'
  <2> DEFINE e == <<t, calls[t]>>
  <2>1. e \in Element /\ t \in Threads
    BY <1>1, ElementOfCall DEF Emplace, Threads
  <2>2. /\ collection' = Append(collection, e) /\ sent' = Append(sent, e)
        /\ received' = received
    BY <1>1 DEF Emplace
  <2>3. InOrder'
    <3>1. Append(received \o collection, e) = received \o Append(collection, e)
      BY <2>1, AppendToSecond
    <3> QED BY <2>2, <3>1 DEF InOrder
  <2>4. ASSUME NEW c \in Consumers, pc[c] = "pop" PROVE FALSE
    BY <1>1, <2>1, <2>4 DEF Emplace, MutualExclusion, Threads
  <2>5. \A c \in Consumers : pc'[c] = pc[c]
    BY <1>1 DEF Emplace
  <2>6. InHand'
    BY <2>4, <2>5 DEF InHand
  <2> QED BY <2>3, <2>6
<1>2. ASSUME NEW t \in Consumers, Pop(t) PROVE InOrder' /\ InHand'
  <2>1. collection # <<>> /\ elem[t] = Head(collection)
    BY <1>2 DEF Pop, InHand
  <2>2. /\ collection' = Tail(collection) /\ received' = Append(received, Head(collection))
        /\ sent' = sent
    BY <1>2, <2>1 DEF Pop
  <2>3. InOrder'
    BY <2>1, <2>2, HeadMoved DEF InOrder
  <2>4. ASSUME NEW c \in Consumers PROVE pc'[c] # "pop"
    BY <1>2 DEF Pop, MutualExclusion, Threads
  <2>5. InHand'
    BY <2>4 DEF InHand
  <2> QED BY <2>3, <2>5
<1>3. ASSUME NEW t \in Consumers, CopyFront(t) PROVE InOrder' /\ InHand'
  BY <1>3 DEF CopyFront, InOrder, InHand, Threads
<1>4. ASSUME NEW t \in Threads, \/ CallEmplace(t) \/ NotifyData(t) \/ WaitForSpace(t)
                                \/ FindSpace(t) \/ CallPop(t) \/ CallEmpty(t) \/ WaitForData(t)
                                \/ NotifySpace(t) \/ AcquireMutex(t) \/ SpuriousWakeUp(t)
                                \/ Unlock(t)
      PROVE  InOrder' /\ InHand'
  <2>1. UNCHANGED <<collection, sent, received, elem>>
    BY <1>4 DEF CallEmplace, NotifyData, WaitForSpace, FindSpace, CallPop, CallEmpty, WaitForData,
      NotifySpace, AcquireMutex, SpuriousWakeUp, Unlock
  <2>2. \A c \in Consumers : pc'[c] = "pop" => pc[c] = "pop"
    BY <1>4 DEF CallEmplace, NotifyData, WaitForSpace, FindSpace, CallPop, CallEmpty, WaitForData,
      NotifySpace, AcquireMutex, SpuriousWakeUp, Unlock, Threads
  <2> QED BY <2>1, <2>2 DEF InOrder, InHand
<1>5. CASE UNCHANGED vars
  BY <1>5 DEF vars, InOrder, InHand
<1> QED BY <1>1, <1>2, <1>3, <1>4, <1>5, WhoSteps DEF Threads, Emplacers

(* A bounded producer looks for a place and takes it under one lock. *)
LEMMA PlaceStep == IInv /\ [Next]_vars => PlaceFound' /\ Bounded'
<1> SUFFICES ASSUME IInv, [Next]_vars, Producers = {} PROVE PlaceFound' /\ Bounded'
  BY DEF PlaceFound, Bounded
<1> USE QueueAssumption DEF IInv, TypeOK, GoTo, waitSets, histories
<1>0. /\ Emplacers = BoundedProducers /\ BoundedProducers \subseteq Threads
      /\ Len(collection) \in Nat /\ Len(collection) <= Limit
      /\ \A b \in BoundedProducers : pc[b] = "emplace" => Len(collection) < Limit
  BY DEF Emplacers, Threads, Bounded, PlaceFound
<1>1. ASSUME NEW t \in Emplacers, Emplace(t) PROVE PlaceFound' /\ Bounded'
  <2>1. Len(collection) < Limit
    BY <1>0, <1>1 DEF Emplace
  <2>2. <<t, calls[t]>> \in Element
    BY <1>1, ElementOfCall DEF Emplace
  <2>3. Len(collection') = Len(collection) + 1
    BY <1>1, <2>2, AppendProperties DEF Emplace
  <2>4. ASSUME NEW b \in BoundedProducers PROVE pc'[b] # "emplace"
    BY <1>0, <1>1 DEF Emplace, MutualExclusion
  <2> QED BY <1>0, <2>1, <2>3, <2>4 DEF PlaceFound, Bounded
<1>2. ASSUME NEW t \in Consumers, Pop(t) PROVE PlaceFound' /\ Bounded'
  <2>1. collection # <<>>
    BY <1>2 DEF Pop, InHand
  <2>2. Len(collection') = Len(collection) - 1
    BY <1>2, <2>1, HeadTailProperties DEF Pop
  <2>3. \A b \in BoundedProducers : pc'[b] = "emplace" => pc[b] = "emplace"
    BY <1>0, <1>2 DEF Pop
  <2> QED BY <1>0, <2>2, <2>3 DEF PlaceFound, Bounded
<1>3. ASSUME NEW t \in Threads, FindSpace(t) PROVE PlaceFound' /\ Bounded'
  BY <1>0, <1>3 DEF FindSpace, PlaceFound, Bounded
<1>4. ASSUME NEW t \in Threads, \/ CallEmplace(t) \/ NotifyData(t) \/ WaitForSpace(t)
                                \/ CallPop(t) \/ CallEmpty(t) \/ WaitForData(t) \/ CopyFront(t)
                                \/ NotifySpace(t) \/ AcquireMutex(t) \/ SpuriousWakeUp(t)
                                \/ Unlock(t)
      PROVE  PlaceFound' /\ Bounded'
  <2>1. UNCHANGED collection
    BY <1>4 DEF CallEmplace, NotifyData, WaitForSpace, CallPop, CallEmpty, WaitForData,
      CopyFront, NotifySpace, AcquireMutex, SpuriousWakeUp, Unlock
  <2>2. \A b \in BoundedProducers : pc'[b] = "emplace" => pc[b] = "emplace"
    BY <1>0, <1>4 DEF CallEmplace, NotifyData, WaitForSpace, CallPop, CallEmpty, WaitForData,
      CopyFront, NotifySpace, AcquireMutex, SpuriousWakeUp, Unlock
  <2> QED BY <1>0, <2>1, <2>2 DEF PlaceFound, Bounded
<1>5. CASE UNCHANGED vars
  BY <1>5 DEF vars, IInv, PlaceFound, Bounded
<1> QED BY <1>0, <1>1, <1>2, <1>3, <1>4, <1>5, WhoSteps DEF Threads

(* Only the consumer itself takes away what it has seen. *)
LEMMA SeenStep == IInv /\ [Next]_vars => SeenIsThere'
<1> SUFFICES ASSUME IInv, [Next]_vars, Cardinality(Consumers) = 1 PROVE SeenIsThere'
  BY DEF SeenIsThere
<1> USE QueueAssumption DEF IInv, TypeOK, GoTo, waitSets, histories
<1>0. PICK c : Consumers = {c}
  <2>1. IsFiniteSet(Consumers)
    BY FS_Subset DEF Threads
  <2> QED BY <2>1, FS_Singleton
<1>1. ASSUME NEW t \in Emplacers, Emplace(t) PROVE SeenIsThere'
  <2>1. <<t, calls[t]>> \in Element
    BY <1>1, ElementOfCall DEF Emplace
  <2>2. collection' # <<>>
    BY <1>1, <2>1, AppendNotEmpty DEF Emplace
  <2> QED BY <2>2 DEF SeenIsThere
<1>2. ASSUME NEW t \in Consumers, Pop(t) PROVE SeenIsThere'
  BY <1>0, <1>2 DEF Pop, SeenIsThere
<1>3. ASSUME NEW t \in Consumers, CallEmpty(t) PROVE SeenIsThere'
  BY <1>0, <1>3 DEF CallEmpty, SeenIsThere
<1>4. ASSUME NEW t \in Threads, \/ CallEmplace(t) \/ NotifyData(t) \/ WaitForSpace(t)
                                \/ FindSpace(t) \/ CallPop(t) \/ WaitForData(t) \/ CopyFront(t)
                                \/ NotifySpace(t) \/ AcquireMutex(t) \/ SpuriousWakeUp(t)
                                \/ Unlock(t)
      PROVE  SeenIsThere'
  BY <1>4 DEF CallEmplace, NotifyData, WaitForSpace, FindSpace, CallPop, WaitForData,
      CopyFront, NotifySpace, AcquireMutex, SpuriousWakeUp, Unlock, SeenIsThere
<1>5. CASE UNCHANGED vars
  BY <1>5 DEF vars, SeenIsThere
<1> QED BY <1>1, <1>2, <1>3, <1>4, <1>5, WhoSteps DEF Threads, Emplacers

(* A thread falls asleep as it begins to wait, and wakes up before it ends. *)
LEMMA SleepStep == IInv /\ [Next]_vars => SleepersWait'
<1> SUFFICES ASSUME IInv, [Next]_vars PROVE SleepersWait'
  OBVIOUS
<1> USE QueueAssumption DEF IInv, TypeOK, SleepersWait, GoTo, waitSets, histories
<1>1. ASSUME NEW t \in Threads, NotifyData(t) \/ NotifySpace(t) \/ SpuriousWakeUp(t)
      PROVE  SleepersWait'
  <2>1. /\ new_data_notifier' \subseteq new_data_notifier
        /\ free_space_notifier' \subseteq free_space_notifier
    BY <1>1 DEF NotifyData, NotifySpace, NotifyOne, SpuriousWakeUp
  <2>2. \A u \in Threads : pc[u] = "wait" => pc'[u] = "wait"
    BY <1>1 DEF NotifyData, NotifySpace, SpuriousWakeUp
  <2>3. new_data_notifier \union free_space_notifier \subseteq Threads
    BY DEF Threads, Emplacers
  <2> QED BY <2>1, <2>2, <2>3
<1>2. ASSUME NEW t \in Threads, WaitForSpace(t) \/ WaitForData(t) PROVE SleepersWait'
  BY <1>2 DEF WaitForSpace, WaitForData, Threads, Emplacers
<1>3. ASSUME NEW t \in Threads, AcquireMutex(t) PROVE SleepersWait'
  BY <1>3 DEF AcquireMutex, Asleep, Threads, Emplacers
<1>4. ASSUME NEW t \in Threads, \/ CallEmplace(t) \/ CallPop(t) \/ CallEmpty(t) \/ Unlock(t)
                                \/ FindSpace(t) \/ Emplace(t) \/ CopyFront(t) \/ Pop(t)
      PROVE  SleepersWait'
  BY <1>4 DEF CallEmplace, CallPop, CallEmpty, Unlock, FindSpace, Emplace, CopyFront, Pop,
    Threads, Emplacers
<1>5. CASE UNCHANGED vars
  BY <1>5 DEF vars
<1> QED BY <1>1, <1>2, <1>3, <1>4, <1>5, WhoSteps DEF Threads, Emplacers

-----------------------------------------------------------------------------
(* Wake-ups.                                                               *)

(* A set that grows by one more element counts one more. *)
LEMMA CountGrows ==
  ASSUME NEW S, NEW T, IsFiniteSet(T), NEW x, x \in T, x \notin S, S \subseteq T
  PROVE  Cardinality(S) + 1 <= Cardinality(T)
<1>1. IsFiniteSet(S) /\ Cardinality(S) \in Nat /\ Cardinality(T) \in Nat
  BY FS_Subset, FS_CardinalityType
<1>2. Cardinality(S \union {x}) = Cardinality(S) + 1
  BY <1>1, FS_AddElement
<1>3. Cardinality(S \union {x}) <= Cardinality(T)
  <2>1. S \union {x} \in SUBSET T
    OBVIOUS
  <2> QED BY <2>1, FS_Subset
<1> QED BY <1>1, <1>2, <1>3

(* A set that loses one element at most counts one less at most. *)
LEMMA CountShrinks ==
  ASSUME NEW S, NEW T, IsFiniteSet(S), IsFiniteSet(T), NEW x, S \ {x} \subseteq T
  PROVE  Cardinality(S) <= Cardinality(T) + 1
<1>1. Cardinality(S) \in Nat /\ Cardinality(T) \in Nat
  BY FS_CardinalityType
<1>2. Cardinality(S \ {x}) = IF x \in S THEN Cardinality(S) - 1 ELSE Cardinality(S)
  BY FS_RemoveElement
<1>3. Cardinality(S \ {x}) <= Cardinality(T)
  BY FS_Subset
<1> QED BY <1>1, <1>2, <1>3

(* A set in which one element replaces another counts no less. *)
LEMMA CountTraded ==
  ASSUME NEW S, NEW T, IsFiniteSet(S), IsFiniteSet(T), NEW x, NEW y,
         y \in T, y \notin S, S \ {x} \subseteq T
  PROVE  Cardinality(S) <= Cardinality(T)
<1>1. Cardinality(S) \in Nat /\ Cardinality(T) \in Nat
  BY FS_CardinalityType
<1>2. Cardinality(S \ {x}) = IF x \in S THEN Cardinality(S) - 1 ELSE Cardinality(S)
  BY FS_RemoveElement
<1>3. Cardinality(S \ {x}) + 1 <= Cardinality(T)
  BY CountGrows
<1> QED BY <1>1, <1>2, <1>3

(* Those who tend to the queue are threads, so they can be counted. *)
LEMMA TendingFinite ==
  /\ IsFiniteSet(TendToData) /\ Cardinality(TendToData) \in Nat
  /\ IsFiniteSet(TendToSpace) /\ Cardinality(TendToSpace) \in Nat
<1>1. TendToData \in SUBSET Threads /\ TendToSpace \in SUBSET Threads
  BY DEF TendToData, TendToSpace, Threads, Emplacers
<1> QED BY <1>1, QueueAssumption, FS_Subset, FS_CardinalityType

(* ... and so they can after a step. *)
LEMMA TendingFiniteNext ==
  /\ IsFiniteSet(TendToData') /\ Cardinality(TendToData') \in Nat
  /\ IsFiniteSet(TendToSpace') /\ Cardinality(TendToSpace') \in Nat
<1>1. TendToData' \in SUBSET Threads /\ TendToSpace' \in SUBSET Threads
  BY DEF TendToData, TendToSpace, Threads, Emplacers
<1> QED BY <1>1, QueueAssumption, FS_Subset, FS_CardinalityType

(* Elements added are notified, and who takes one leaves one less. *)
LEMMA DataStep == IInv /\ [Next]_vars => DataTended'
<1> SUFFICES ASSUME IInv, [Next]_vars, new_data_notifier' # {}
             PROVE  Len(collection') <= Cardinality(TendToData')
  BY DEF DataTended
<1> USE DEF GoTo, waitSets, histories
<1>0. /\ TypeOK /\ SleepersWait /\ Len(collection) \in Nat
      /\ new_data_notifier # {} => Len(collection) <= Cardinality(TendToData)
  BY DEF IInv, TypeOK, NoWakeUpLost, DataTended
<1>1. ASSUME NEW t \in Emplacers, Emplace(t) PROVE Len(collection') <= Cardinality(TendToData')
  <2>1. /\ t \in TendToData' /\ t \notin TendToData
        /\ TendToData \subseteq TendToData'
    BY <1>0, <1>1, QueueAssumption DEF Emplace, TendToData, TypeOK, Threads
  <2>2. <<t, calls[t]>> \in Element
    BY <1>1, ElementOfCall DEF Emplace, IInv
  <2>3. Len(collection') = Len(collection) + 1
    BY <1>0, <1>1, <2>2, AppendProperties DEF Emplace, TypeOK
  <2>4. Cardinality(TendToData) + 1 <= Cardinality(TendToData')
    BY <2>1, TendingFiniteNext, CountGrows
  <2>5. Len(collection) <= Cardinality(TendToData)
    BY <1>0, <1>1 DEF Emplace
  <2> QED BY <1>0, <2>3, <2>4, <2>5, TendingFinite, TendingFiniteNext
<1>2. ASSUME NEW t \in Emplacers, NotifyData(t) PROVE Len(collection') <= Cardinality(TendToData')
  <2>1. PICK u \in new_data_notifier : new_data_notifier' = new_data_notifier \ {u}
    BY <1>2 DEF NotifyData, NotifyOne
  <2>2. u \in Consumers /\ u # t /\ pc[u] = "wait" /\ pc'[u] = "wait"
    BY <1>0, <1>2, QueueAssumption DEF NotifyData, SleepersWait, TypeOK
  <2>3. /\ u \in TendToData' /\ u \notin TendToData
        /\ TendToData \ {t} \subseteq TendToData'
    BY <1>0, <1>2, <2>1, <2>2, QueueAssumption DEF NotifyData, TendToData, TypeOK, Threads
  <2>4. Cardinality(TendToData) <= Cardinality(TendToData')
    BY <2>3, TendingFinite, TendingFiniteNext, CountTraded
  <2>5. collection' = collection
    BY <1>2 DEF NotifyData
  <2> QED BY <1>0, <2>1, <2>4, <2>5, TendingFinite, TendingFiniteNext
<1>3. ASSUME NEW t \in Consumers, WaitForData(t) PROVE Len(collection') <= Cardinality(TendToData')
  <2>1. Len(collection') = 0
    BY <1>3 DEF WaitForData
  <2> QED BY <2>1, TendingFiniteNext
<1>4. ASSUME NEW t \in Consumers, Pop(t) PROVE Len(collection') <= Cardinality(TendToData')
  <2>1. TendToData \ {t} \subseteq TendToData'
    BY <1>0, <1>4, QueueAssumption DEF Pop, TendToData, TypeOK, Threads
  <2>2. collection # <<>>
    BY <1>4 DEF Pop, IInv, InHand
  <2>3. Len(collection') = Len(collection) - 1
    BY <1>0, <1>4, <2>2, HeadTailProperties DEF Pop, TypeOK
  <2>4. Cardinality(TendToData) <= Cardinality(TendToData') + 1
    BY <2>1, TendingFinite, TendingFiniteNext, CountShrinks
  <2>5. Len(collection) <= Cardinality(TendToData)
    BY <1>0, <1>4 DEF Pop
  <2> QED BY <1>0, <2>3, <2>4, <2>5, TendingFinite, TendingFiniteNext
<1>5. ASSUME /\ collection' = collection /\ new_data_notifier' \subseteq new_data_notifier
             /\ TendToData \subseteq TendToData'
      PROVE  Len(collection') <= Cardinality(TendToData')
  <2>1. Cardinality(TendToData) <= Cardinality(TendToData')
    <3>1. TendToData \in SUBSET (TendToData')
      BY <1>5
    <3> QED BY <3>1, TendingFiniteNext, FS_Subset
  <2> QED BY <1>0, <1>5, <2>1, TendingFinite, TendingFiniteNext
<1>6. ASSUME NEW t \in Threads, \/ CallEmplace(t) \/ WaitForSpace(t) \/ CallPop(t) \/ CallEmpty(t)
                                \/ t \in BoundedProducers /\ FindSpace(t)
                                \/ t \in Consumers /\ CopyFront(t)
                                \/ AcquireMutex(t) \/ SpuriousWakeUp(t)
      PROVE  Len(collection') <= Cardinality(TendToData')
  <2>1. collection' = collection /\ new_data_notifier' \subseteq new_data_notifier
    BY <1>6 DEF CallEmplace, WaitForSpace, FindSpace, CallPop, CallEmpty, CopyFront, AcquireMutex,
      SpuriousWakeUp
  <2>2. \A u \in Threads : pc[u] \in {"unlock", "notify"} => pc'[u] = pc[u]
    BY <1>0, <1>6 DEF CallEmplace, WaitForSpace, FindSpace, CallPop, CallEmpty, CopyFront,
      AcquireMutex, SpuriousWakeUp, TypeOK
  <2>3. \A u \in Consumers : pc[u] \in {"lock", "wait", "check", "pop"}
                           => pc'[u] \in {"lock", "wait", "check", "pop"}
    <3>1. CASE AcquireMutex(t)
      BY <1>0, <3>1, QueueAssumption DEF AcquireMutex, TypeOK, Threads, Emplacers
    <3>2. CASE CallEmplace(t) \/ CallPop(t) \/ CallEmpty(t) \/ SpuriousWakeUp(t)
      BY <1>0, <3>2 DEF CallEmplace, CallPop, CallEmpty, SpuriousWakeUp, TypeOK, Threads, Emplacers
    <3>3. CASE WaitForSpace(t)
      BY <1>0, <3>3 DEF WaitForSpace, TypeOK, Threads, Emplacers
    <3>4. CASE t \in BoundedProducers /\ FindSpace(t)
      BY <1>0, <3>4, QueueAssumption DEF FindSpace, TypeOK, Threads, Emplacers
    <3>5. CASE t \in Consumers /\ CopyFront(t)
      BY <1>0, <3>5, QueueAssumption DEF CopyFront, TypeOK, Threads, Emplacers
    <3> QED BY <1>6, <3>1, <3>2, <3>3, <3>4, <3>5
  <2>4. TendToData \subseteq TendToData'
    BY <2>1, <2>2, <2>3 DEF TendToData, Threads, Emplacers
  <2> QED BY <1>5, <2>1, <2>4
<1>7. ASSUME NEW t \in Threads, Unlock(t) PROVE Len(collection') <= Cardinality(TendToData')
  <2>1. TendToData \subseteq TendToData'
    BY <1>0, <1>7 DEF Unlock, TendToData, TypeOK, Threads
  <2> QED BY <1>5, <1>7, <2>1 DEF Unlock
<1>8. ASSUME NEW t \in Consumers, NotifySpace(t) PROVE Len(collection') <= Cardinality(TendToData')
  <2>1. TendToData \subseteq TendToData'
    BY <1>0, <1>8, QueueAssumption DEF NotifySpace, TendToData, TypeOK, Threads
  <2> QED BY <1>5, <1>8, <2>1 DEF NotifySpace
<1>9. CASE UNCHANGED vars
  <2>1. TendToData' = TendToData
    BY <1>9 DEF vars, TendToData
  <2> QED BY <1>5, <1>9, <2>1 DEF vars
<1> QED BY <1>1, <1>2, <1>3, <1>4, <1>6, <1>7, <1>8, <1>9, WhoSteps DEF Threads, Emplacers

(* Places given back are notified, and who takes one leaves one less. *)
LEMMA SpaceStep == IInv /\ [Next]_vars => SpaceTended'
<1> DEFINE Goal == Limit <= Len(collection') + Cardinality(TendToSpace')
<1> SUFFICES ASSUME IInv, [Next]_vars, free_space_notifier' # {} PROVE Goal
  BY DEF SpaceTended
<1> USE DEF GoTo, waitSets, histories
<1>0. /\ TypeOK /\ SleepersWait /\ Len(collection) \in Nat /\ Limit \in Nat
      /\ free_space_notifier # {} => Limit <= Len(collection) + Cardinality(TendToSpace)
  BY QueueAssumption DEF IInv, TypeOK, NoWakeUpLost, SpaceTended
<1>1. ASSUME NEW t \in Emplacers, Emplace(t) PROVE Goal
  <2>1. TendToSpace \ {t} \subseteq TendToSpace'
    BY <1>0, <1>1, QueueAssumption DEF Emplace, TendToSpace, TypeOK, Threads, Emplacers
  <2>2. <<t, calls[t]>> \in Element
    BY <1>1, ElementOfCall DEF Emplace, IInv
  <2>3. Len(collection') = Len(collection) + 1
    BY <1>0, <1>1, <2>2, AppendProperties DEF Emplace, TypeOK
  <2>4. Cardinality(TendToSpace) <= Cardinality(TendToSpace') + 1
    BY <2>1, TendingFinite, TendingFiniteNext, CountShrinks
  <2>5. Limit <= Len(collection) + Cardinality(TendToSpace)
    BY <1>0, <1>1 DEF Emplace
  <2> QED BY <1>0, <2>3, <2>4, <2>5, TendingFinite, TendingFiniteNext
<1>2. ASSUME NEW t \in Consumers, NotifySpace(t) PROVE Goal
  <2>1. PICK u \in free_space_notifier : free_space_notifier' = free_space_notifier \ {u}
    BY <1>2 DEF NotifySpace, NotifyOne
  <2>2. u \in BoundedProducers /\ u # t /\ pc[u] = "wait" /\ pc'[u] = "wait"
    BY <1>0, <1>2, QueueAssumption DEF NotifySpace, SleepersWait, TypeOK, Emplacers
  <2>3. /\ u \in TendToSpace' /\ u \notin TendToSpace
        /\ TendToSpace \ {t} \subseteq TendToSpace'
    BY <1>0, <1>2, <2>1, <2>2, QueueAssumption DEF NotifySpace, TendToSpace, TypeOK, Threads, Emplacers
  <2>4. Cardinality(TendToSpace) <= Cardinality(TendToSpace')
    BY <2>3, TendingFinite, TendingFiniteNext, CountTraded
  <2>5. collection' = collection
    BY <1>2 DEF NotifySpace
  <2> QED BY <1>0, <2>1, <2>4, <2>5, TendingFinite, TendingFiniteNext
<1>3. ASSUME NEW t \in BoundedProducers, WaitForSpace(t) PROVE Goal
  <2>1. Len(collection) >= Limit /\ collection' = collection
    BY <1>3 DEF WaitForSpace
  <2> QED BY <1>0, <2>1, TendingFiniteNext
<1>4. ASSUME NEW t \in Consumers, Pop(t) PROVE Goal
  <2>1. /\ t \in TendToSpace' /\ t \notin TendToSpace
        /\ TendToSpace \subseteq TendToSpace'
    BY <1>0, <1>4, QueueAssumption DEF Pop, TendToSpace, TypeOK, Threads, Emplacers
  <2>2. collection # <<>>
    BY <1>4 DEF Pop, IInv, InHand
  <2>3. Len(collection') = Len(collection) - 1
    BY <1>0, <1>4, <2>2, HeadTailProperties DEF Pop, TypeOK
  <2>4. Cardinality(TendToSpace) + 1 <= Cardinality(TendToSpace')
    BY <2>1, TendingFiniteNext, CountGrows
  <2>5. Limit <= Len(collection) + Cardinality(TendToSpace)
    BY <1>0, <1>4 DEF Pop
  <2> QED BY <1>0, <2>3, <2>4, <2>5, TendingFinite, TendingFiniteNext
<1>5. ASSUME /\ collection' = collection /\ free_space_notifier' \subseteq free_space_notifier
             /\ TendToSpace \subseteq TendToSpace'
      PROVE  Goal
  <2>1. Cardinality(TendToSpace) <= Cardinality(TendToSpace')
    <3>1. TendToSpace \in SUBSET (TendToSpace')
      BY <1>5
    <3> QED BY <3>1, TendingFiniteNext, FS_Subset
  <2> QED BY <1>0, <1>5, <2>1, TendingFinite, TendingFiniteNext
<1> HIDE DEF Goal
<1>6. ASSUME NEW t \in Threads, \/ CallEmplace(t) \/ WaitForData(t) \/ CallPop(t) \/ CallEmpty(t)
                                \/ t \in BoundedProducers /\ FindSpace(t)
                                \/ t \in Consumers /\ CopyFront(t)
                                \/ AcquireMutex(t) \/ SpuriousWakeUp(t)
      PROVE  Goal
  <2>1. collection' = collection /\ free_space_notifier' \subseteq free_space_notifier
    BY <1>6 DEF CallEmplace, WaitForData, FindSpace, CallPop, CallEmpty, CopyFront, AcquireMutex,
      SpuriousWakeUp
  <2>2. \A u \in Threads : pc[u] \in {"unlock", "notify"} => pc'[u] = pc[u]
    BY <1>0, <1>6 DEF CallEmplace, WaitForData, FindSpace, CallPop, CallEmpty, CopyFront,
      AcquireMutex, SpuriousWakeUp, TypeOK
  <2>3. \A u \in BoundedProducers : pc[u] \in {"lock", "wait", "check", "emplace"}
                           => pc'[u] \in {"lock", "wait", "check", "emplace"}
    <3>1. CASE AcquireMutex(t)
      BY <1>0, <3>1, QueueAssumption DEF AcquireMutex, TypeOK, Threads, Emplacers
    <3>2. CASE CallEmplace(t) \/ CallPop(t) \/ CallEmpty(t) \/ SpuriousWakeUp(t)
      BY <1>0, <3>2 DEF CallEmplace, CallPop, CallEmpty, SpuriousWakeUp, TypeOK, Threads, Emplacers
    <3>3. CASE WaitForData(t)
      BY <1>0, <3>3 DEF WaitForData, TypeOK, Threads, Emplacers
    <3>4. CASE t \in BoundedProducers /\ FindSpace(t)
      BY <1>0, <3>4, QueueAssumption DEF FindSpace, TypeOK, Threads, Emplacers
    <3>5. CASE t \in Consumers /\ CopyFront(t)
      BY <1>0, <3>5, QueueAssumption DEF CopyFront, TypeOK, Threads, Emplacers
    <3> QED BY <1>6, <3>1, <3>2, <3>3, <3>4, <3>5
  <2>4. TendToSpace \subseteq TendToSpace'
    BY <2>1, <2>2, <2>3 DEF TendToSpace, Threads, Emplacers
  <2> QED BY <1>5, <2>1, <2>4
<1>7. ASSUME NEW t \in Threads, Unlock(t) PROVE Goal
  <2>1. TendToSpace \subseteq TendToSpace'
    BY <1>0, <1>7 DEF Unlock, TendToSpace, TypeOK, Threads
  <2> QED BY <1>5, <1>7, <2>1 DEF Unlock
<1>8. ASSUME NEW t \in Emplacers, NotifyData(t) PROVE Goal
  <2>1. TendToSpace \subseteq TendToSpace'
    BY <1>0, <1>8, QueueAssumption DEF NotifyData, TendToSpace, TypeOK, Threads
  <2> QED BY <1>5, <1>8, <2>1 DEF NotifyData
<1>9. CASE UNCHANGED vars
  <2>1. TendToSpace' = TendToSpace
    BY <1>9 DEF vars, TendToSpace
  <2> QED BY <1>5, <1>9, <2>1 DEF vars
<1> QED BY <1>1, <1>2, <1>3, <1>4, <1>6, <1>7, <1>8, <1>9, WhoSteps DEF Threads, Emplacers

-----------------------------------------------------------------------------
(* The theorems.                                                           *)

(* So the invariant holds in every reachable state. *)
LEMMA AlwaysIInv == SafeSpec => []IInv
<1>1. IInv /\ [Next]_vars => IInv'
  BY TypeStep, MutexStep, OrderStep, PlaceStep, SeenStep, SleepStep, DataStep, SpaceStep
    DEF IInv, NoWakeUpLost
<1> QED BY InitIInv, <1>1, PTL DEF SafeSpec

(* Every variable keeps its type: elements and calls in hand are those of  *)
(* the threads, and each waits where its kind of call may wait.            *)
THEOREM QueueTypes == SafeSpec => []TypeOK
<1>1. IInv => TypeOK
  BY DEF IInv
<1> QED BY <1>1, AlwaysIInv, PTL

(* While a thread sleeps, each element in the queue, or each free place,   *)
(* has another that will notify or come for it: for any number of threads, *)
(* any limit and any wake-ups without reason.                              *)
THEOREM NobodyOversleeps == SafeSpec => []NoWakeUpLost
<1>1. IInv => NoWakeUpLost
  BY DEF IInv
<1> QED BY <1>1, AlwaysIInv, PTL

(* The blocking emplace_back keeps to its limit, whatever the limit. *)
THEOREM WithinLimit == SafeSpec => []Bounded
<1>1. IInv => Bounded
  BY DEF IInv
<1> QED BY <1>1, AlwaysIInv, PTL

(* What empty() has told the only consumer, without a lock, stays true     *)
(* until it pops.                                                          *)
THEOREM SeenNotLost == SafeSpec => []SeenStaysTrue
<1>1. IInv => SeenStaysTrue
  BY DEF IInv, SeenIsThere, SeenStaysTrue
<1> QED BY <1>1, AlwaysIInv, PTL

(* Elements come out once each and in the order they went in: a step of    *)
(* the queue is a step of the abstract one or changes nothing it sees.     *)
THEOREM FirstInFirstOut == SafeSpec => Fifo!SafeSpec
<1>1. Init => Fifo!Init
  BY DEF Init, Fifo!Init
<1>2. IInv /\ [Next]_vars => [Fifo!Next]_(Fifo!fifoVars)
  <2> SUFFICES ASSUME IInv, [Next]_vars PROVE Fifo!Next \/ UNCHANGED histories
    BY DEF histories, Fifo!fifoVars
  <2> USE DEF histories, waitSets
  <2>1. ASSUME NEW t \in Emplacers, Emplace(t) PROVE Fifo!Put
    <3>1. <<t, calls[t]>> \in Element
      BY <2>1, ElementOfCall DEF Emplace, IInv
    <3> QED BY <2>1, <3>1 DEF Emplace, Fifo!Put
  <2>2. ASSUME NEW t \in Consumers, Pop(t) PROVE Fifo!Take
    <3>1. collection # <<>> /\ elem[t] = Head(collection)
      BY <2>2 DEF Pop, IInv, InHand
    <3>2. /\ Len(received) < Len(sent)
          /\ sent[Len(received) + 1] = Head(collection)
      BY <3>1, HeadMoved DEF IInv, TypeOK, InOrder
    <3> QED BY <2>2, <3>1, <3>2 DEF Pop, Fifo!Take
  <2>3. ASSUME NEW t, \/ CallEmplace(t) \/ NotifyData(t) \/ WaitForSpace(t) \/ FindSpace(t)
                      \/ CallPop(t) \/ CallEmpty(t) \/ WaitForData(t) \/ CopyFront(t)
                      \/ NotifySpace(t) \/ AcquireMutex(t) \/ SpuriousWakeUp(t) \/ Unlock(t)
        PROVE  UNCHANGED histories
    BY <2>3 DEF CallEmplace, NotifyData, WaitForSpace, FindSpace, CallPop, CallEmpty, WaitForData,
      CopyFront, NotifySpace, AcquireMutex, SpuriousWakeUp, Unlock
  <2>4. CASE UNCHANGED vars
    BY <2>4 DEF vars
  <2> QED BY <2>1, <2>2, <2>3, <2>4, WhoSteps DEF Fifo!Next
<1> QED BY <1>1, <1>2, AlwaysIInv, PTL DEF SafeSpec, Fifo!SafeSpec
=============================================================================
