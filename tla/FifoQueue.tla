------------------------------ MODULE FifoQueue ------------------------------
(***************************************************************************)
(* What concurrent_queue promises the two workers: elements come out once  *)
(* each and in the order they went in, and every element comes out as long *)
(* as somebody keeps asking.                                               *)
(***************************************************************************)
EXTENDS Naturals, Sequences

CONSTANT Element

VARIABLES
  sent,     \* everything ever emplaced, in order
  received  \* everything ever popped, in order

fifoVars == <<sent, received>>

Init ==
  /\ sent = <<>>
  /\ received = <<>>

Put ==
  /\ \E e \in Element : sent' = Append(sent, e)
  /\ UNCHANGED received

Take ==
  /\ Len(received) < Len(sent)
  /\ received' = Append(received, sent[Len(received) + 1])
  /\ UNCHANGED sent

Next == Put \/ Take

SafeSpec == Init /\ [][Next]_fifoVars
Spec == SafeSpec /\ WF_fifoVars(Take)
=============================================================================
