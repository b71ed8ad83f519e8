----------------------------- MODULE MCBatcher -----------------------------
(* Small instances of Batcher: every loop at the one address there is. *)
EXTENDS Batcher

MCAddrOf == [l \in Loops |-> CHOOSE a \in Addrs : TRUE]
=============================================================================
