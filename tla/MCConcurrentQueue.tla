-------------------------- MODULE MCConcurrentQueue --------------------------
(* Threads for ConcurrentQueue. *)
EXTENDS ConcurrentQueue

CONSTANTS p, b1, b2, c1, c2

NoThreads == {}
OneProducer == {p}
TwoBounded == {b1, b2}
OneConsumer == {c1}
TwoConsumers == {c1, c2}
=============================================================================
