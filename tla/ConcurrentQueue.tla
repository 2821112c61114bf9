--------------------------- MODULE ConcurrentQueue ---------------------------
(***************************************************************************)
(* concurrent_queue (concurrent_queue.hpp) step by step: one mutex, two    *)
(* condition variables, notifications sent after the mutex is released,    *)
(* wake-ups that come for no reason, and an empty() that takes no lock.    *)
(*                                                                         *)
(* Any number of threads may call each operation; the player has one       *)
(* producer and one consumer per queue and never calls the bounded variant *)
(* of emplace_back.                                                        *)
(***************************************************************************)
EXTENDS Naturals, Sequences, FiniteSets

CONSTANTS
  Producers,         \* threads that call emplace_back
  BoundedProducers,  \* ... emplace_back_or_block_if_too_much(Limit)
  Consumers,         \* ... pop_front, and empty before it if they like
  Limit,
  Quota,             \* how often a producer calls: bounds the histories
  Nobody

Emplacers == Producers \union BoundedProducers
Threads == Emplacers \union Consumers

ASSUME QueueAssumption ==
  /\ IsFiniteSet(Threads)
  /\ Producers \intersect BoundedProducers = {}
  /\ Emplacers \intersect Consumers = {}
  /\ Limit \in Nat \ {0}
  /\ Quota \in Nat
  /\ Nobody \notin Threads

(* The k-th element a thread emplaces. *)
Element == Emplacers \X (1..Quota)

VARIABLES
  collection,
  mutex,                \* who holds it, or Nobody
  new_data_notifier,    \* threads asleep on it
  free_space_notifier,  \* threads asleep on it
  pc,
  calls,                \* calls each producer has begun
  elem,                 \* the local copy pop_front returns
  seen,                 \* empty() has told the thread there is something
  sent, received        \* histories: what was emplaced, what was popped

waitSets == <<new_data_notifier, free_space_notifier>>
histories == <<sent, received>>
vars == <<collection, mutex, waitSets, pc, calls, elem, seen, histories>>

NoElement == <<Nobody, 0>>

Points == {"idle", "lock", "check", "wait", "emplace", "pop", "unlock", "notify"}

(* Types of every variable. *)
TypeOK ==
  /\ collection \in Seq(Element)
  /\ mutex \in Threads \union {Nobody}
  /\ new_data_notifier \subseteq Consumers
  /\ free_space_notifier \subseteq BoundedProducers
  /\ pc \in [Threads -> Points]
  /\ calls \in [Emplacers -> 0..Quota]
  /\ elem \in [Consumers -> Element \union {NoElement}]
  /\ seen \in [Consumers -> BOOLEAN]
  /\ sent \in Seq(Element)
  /\ received \in Seq(Element)

Init ==
  /\ collection = <<>>
  /\ mutex = Nobody
  /\ new_data_notifier = {}
  /\ free_space_notifier = {}
  /\ pc = [t \in Threads |-> "idle"]
  /\ calls = [t \in Emplacers |-> 0]
  /\ elem = [c \in Consumers |-> NoElement]
  /\ seen = [c \in Consumers |-> FALSE]
  /\ sent = <<>>
  /\ received = <<>>

GoTo(t, point) == pc' = [pc EXCEPT ![t] = point]

-----------------------------------------------------------------------------
(* The calls.                                                              *)

CallEmplace(t) ==
  /\ pc[t] = "idle"
  /\ calls[t] < Quota
  /\ calls' = [calls EXCEPT ![t] = @ + 1]
  /\ GoTo(t, "lock")
  /\ UNCHANGED <<collection, mutex, waitSets, elem, seen, histories>>

CallPop(t) ==
  /\ pc[t] = "idle"
  /\ GoTo(t, "lock")
  /\ UNCHANGED <<collection, mutex, waitSets, calls, elem, seen, histories>>

(* Mutant of CallEmpty: the answer is inverted. *)
CallEmptyInverted(t) ==
  /\ pc[t] = "idle"
  /\ seen' = [seen EXCEPT ![t] = collection = <<>>]
  /\ UNCHANGED <<collection, mutex, waitSets, pc, calls, elem, histories>>

(* empty(): reads the collection whatever another thread does to it. *)
CallEmpty(t) ==
  /\ pc[t] = "idle"
  /\ seen' = [seen EXCEPT ![t] = collection # <<>>]
  /\ UNCHANGED <<collection, mutex, waitSets, pc, calls, elem, histories>>

-----------------------------------------------------------------------------
(* The mutex and the condition variables, external (std).                  *)

Asleep(t) == t \in new_data_notifier \union free_space_notifier

(* Mutant of AcquireMutex: "if" for "while" around the wait for space. *)
AcquireMutexIfForWhile(t) ==
  /\ pc[t] \in {"lock", "wait"}
  /\ ~Asleep(t)
  /\ mutex = Nobody
  /\ mutex' = t
  /\ GoTo(t, IF t \in Producers \/ (t \in BoundedProducers /\ pc[t] = "wait")
             THEN "emplace" ELSE "check")
  /\ UNCHANGED <<collection, waitSets, calls, elem, seen, histories>>

(* Taken on entry, and again on the way out of a wait. *)
AcquireMutex(t) ==
  /\ pc[t] \in {"lock", "wait"}
  /\ ~Asleep(t)
  /\ mutex = Nobody
  /\ mutex' = t
  /\ GoTo(t, IF t \in Producers THEN "emplace" ELSE "check")
  /\ UNCHANGED <<collection, waitSets, calls, elem, seen, histories>>

Unlock(t) ==
  /\ pc[t] = "unlock"
  /\ mutex' = Nobody
  /\ GoTo(t, "notify")
  /\ UNCHANGED <<collection, waitSets, calls, elem, seen, histories>>

(* notify_one wakes one of the sleepers, whichever, if there is any. *)
NotifyOne(sleepers, sleepersNext) ==
  \/ sleepers = {} /\ sleepersNext = {}
  \/ \E t \in sleepers : sleepersNext = sleepers \ {t}

SpuriousWakeUp(t) ==
  /\ Asleep(t)
  /\ new_data_notifier' = new_data_notifier \ {t}
  /\ free_space_notifier' = free_space_notifier \ {t}
  /\ UNCHANGED <<collection, mutex, pc, calls, elem, seen, histories>>

-----------------------------------------------------------------------------
(* emplace_back and emplace_back_or_block_if_too_much.                     *)

WaitForSpace(t) ==
  /\ pc[t] = "check"
  /\ Len(collection) >= Limit
  /\ free_space_notifier' = free_space_notifier \union {t}
  /\ mutex' = Nobody
  /\ GoTo(t, "wait")
  /\ UNCHANGED <<collection, new_data_notifier, calls, elem, seen, histories>>

FindSpace(t) ==
  /\ pc[t] = "check"
  /\ Len(collection) < Limit
  /\ GoTo(t, "emplace")
  /\ UNCHANGED <<collection, mutex, waitSets, calls, elem, seen, histories>>

Emplace(t) ==
  /\ pc[t] = "emplace"
  /\ collection' = Append(collection, <<t, calls[t]>>)
  /\ sent' = Append(sent, <<t, calls[t]>>)
  /\ GoTo(t, "unlock")
  /\ UNCHANGED <<mutex, waitSets, calls, elem, seen, received>>

(* Mutant of NotifyData: it notifies only if the queue was empty.          *)
NotifyDataIfFirst(t) ==
  /\ pc[t] = "notify"
  /\ IF Len(collection) = 1 THEN NotifyOne(new_data_notifier, new_data_notifier')
     ELSE UNCHANGED new_data_notifier
  /\ GoTo(t, "idle")
  /\ UNCHANGED <<collection, mutex, free_space_notifier, calls, elem, seen, histories>>

NotifyData(t) ==
  /\ pc[t] = "notify"
  /\ NotifyOne(new_data_notifier, new_data_notifier')
  /\ GoTo(t, "idle")
  /\ UNCHANGED <<collection, mutex, free_space_notifier, calls, elem, seen, histories>>

-----------------------------------------------------------------------------
(* pop_front.                                                              *)

(* Mutant of WaitForData: the consumer waits on the other variable. *)
WaitForDataOnSpace(t) ==
  /\ pc[t] = "check"
  /\ collection = <<>>
  /\ free_space_notifier' = free_space_notifier \union {t}
  /\ mutex' = Nobody
  /\ GoTo(t, "wait")
  /\ UNCHANGED <<collection, new_data_notifier, calls, elem, seen, histories>>

WaitForData(t) ==
  /\ pc[t] = "check"
  /\ collection = <<>>
  /\ new_data_notifier' = new_data_notifier \union {t}
  /\ mutex' = Nobody
  /\ GoTo(t, "wait")
  /\ UNCHANGED <<collection, free_space_notifier, calls, elem, seen, histories>>

(* Mutant of CopyFront: the element is taken from the other end. *)
CopyBack(t) ==
  /\ pc[t] = "check"
  /\ collection # <<>>
  /\ elem' = [elem EXCEPT ![t] = collection[Len(collection)]]
  /\ GoTo(t, "pop")
  /\ UNCHANGED <<collection, mutex, waitSets, calls, seen, histories>>

CopyFront(t) ==
  /\ pc[t] = "check"
  /\ collection # <<>>
  /\ elem' = [elem EXCEPT ![t] = Head(collection)]
  /\ GoTo(t, "pop")
  /\ UNCHANGED <<collection, mutex, waitSets, calls, seen, histories>>

Pop(t) ==
  /\ pc[t] = "pop"
  /\ collection' = Tail(collection)
  /\ received' = Append(received, elem[t])
  /\ seen' = [seen EXCEPT ![t] = FALSE]
  /\ GoTo(t, "unlock")
  /\ UNCHANGED <<mutex, waitSets, calls, elem, sent>>

(* Mutant of NotifySpace: the wrong condition variable. *)
NotifySpaceToConsumers(t) ==
  /\ pc[t] = "notify"
  /\ NotifyOne(new_data_notifier, new_data_notifier')
  /\ GoTo(t, "idle")
  /\ UNCHANGED <<collection, mutex, free_space_notifier, calls, elem, seen, histories>>

NotifySpace(t) ==
  /\ pc[t] = "notify"
  /\ NotifyOne(free_space_notifier, free_space_notifier')
  /\ GoTo(t, "idle")
  /\ UNCHANGED <<collection, mutex, new_data_notifier, calls, elem, seen, histories>>

-----------------------------------------------------------------------------
(* What a thread does once it has the mutex, and until the call returns. *)
InsideEmplace(t) == Emplace(t) \/ Unlock(t) \/ NotifyData(t)
InsideBounded(t) == WaitForSpace(t) \/ FindSpace(t) \/ InsideEmplace(t)
InsidePop(t) == WaitForData(t) \/ CopyFront(t) \/ Pop(t) \/ Unlock(t) \/ NotifySpace(t)

Inside(t) ==
  \/ t \in Producers /\ InsideEmplace(t)
  \/ t \in BoundedProducers /\ InsideBounded(t)
  \/ t \in Consumers /\ InsidePop(t)

Next ==
  \/ \E t \in Emplacers : CallEmplace(t)
  \/ \E t \in Consumers : CallPop(t) \/ CallEmpty(t)
  \/ \E t \in Threads : AcquireMutex(t) \/ SpuriousWakeUp(t) \/ Inside(t)

(* Threads run, and none is locked out for ever by others that keep taking *)
(* the mutex.  Producers need not call; consumers come back for more.      *)
Fairness ==
  /\ \A t \in Threads : WF_vars(Inside(t)) /\ SF_vars(AcquireMutex(t))
  /\ \A t \in Consumers : WF_vars(CallPop(t))

SafeSpec == Init /\ [][Next]_vars
Spec == SafeSpec /\ Fairness

-----------------------------------------------------------------------------
(* Who will still see to an element that lies in the queue: a producer     *)
(* that has emplaced one and not yet notified, and a consumer that is      *)
(* awake inside a call and has not taken its element.                      *)
TendToData ==
  {t \in Emplacers : pc[t] \in {"unlock", "notify"}}
    \union {t \in Consumers \ new_data_notifier : pc[t] \in {"lock", "wait", "check", "pop"}}

(* Who will still see to a free place, likewise. *)
TendToSpace ==
  {t \in Consumers : pc[t] \in {"unlock", "notify"}}
    \union {t \in BoundedProducers \ free_space_notifier :
              pc[t] \in {"lock", "wait", "check", "emplace"}}

DataTended == new_data_notifier # {} => Len(collection) <= Cardinality(TendToData)
SpaceTended == free_space_notifier # {} => Limit <= Len(collection) + Cardinality(TendToSpace)

(* Nobody sleeps over something to do.  While a consumer sleeps on         *)
(* new_data_notifier, every element in the queue has a thread of its own   *)
(* that has yet to notify or to come for it; while a producer sleeps on    *)
(* free_space_notifier, so has every free place.  So one notify_one for    *)
(* each element and each place is enough, although it comes after the      *)
(* mutex is released: whoever gets in between, and takes what another was  *)
(* woken for, leaves that one nothing to do.                               *)
NoWakeUpLost == DataTended /\ SpaceTended

(* emplace_back_or_block_if_too_much keeps to its limit, if nobody uses    *)
(* emplace_back beside it.                                                 *)
Bounded == Producers = {} => Len(collection) <= Limit

(* tree_handler::handle_simulation_request leaves its loop when empty(),   *)
(* which takes no lock, says there is a message: pop_front will then find  *)
(* one at once, because the tree worker is the only one to take any.       *)
SeenStaysTrue ==
  Cardinality(Consumers) = 1 =>
    \A t \in Consumers : seen[t] /\ pc[t] = "check" => collection # <<>>

(* A producer's call returns, however long it has to wait for space: no    *)
(* wake-up is lost, although a place is notified after the mutex has been  *)
(* released.  One limit for all callers matters: with two, notify_one may  *)
(* wake the one that still has to wait.                                    *)
CallsReturn == \A t \in Emplacers : pc[t] = "lock" ~> pc[t] = "idle"

Fifo == INSTANCE FifoQueue

(* The steps of the queue amount to a first-in first-out queue whose       *)
(* operations are atomic and that delivers everything.                     *)
KeepsFifo == Fifo!Spec
=============================================================================
