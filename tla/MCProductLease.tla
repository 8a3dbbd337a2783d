--------------------------- MODULE MCProductLease ---------------------------
(* One product with two stacks, the mover worker and the main loop.          *)
EXTENDS ProductLease

MCThreads == {"mover", "main"}
MCJobs == [t \in MCThreads |->
             IF t = "mover" THEN {"cycle", "requote"} ELSE {"converge", "reconcile"}]
=============================================================================
