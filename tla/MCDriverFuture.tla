--------------------------- MODULE MCDriverFuture ---------------------------
(* Small instances of DriverFuture. *)
EXTENDS DriverFuture, TLC

CONSTANTS c1, c2

MCKindOf == [c \in Callbacks |-> IF c = c1 THEN "done" ELSE "error"]

\* The request was sent before anyone awaits the future.
StartedSpec == state = "PendingTokio" /\ FairSpec

\* Threads run the same code, so renaming them changes nothing.
ThreadSymmetry == Permutations(Threads)
=============================================================================
