-------------------------- MODULE MCResponseFuture --------------------------
(* Small instances of ResponseFuture: one callback and one errback. *)
EXTENDS ResponseFuture, TLC

CONSTANTS c1, e1

MCDeliveryOf == [c \in Callbacks |-> IF c = c1 THEN "Callbacks" ELSE "Errbacks"]

\* Threads and drainers are interchangeable.
ActorSymmetry == Permutations(Threads) \cup Permutations(Drainers)
=============================================================================
