----------------------------- MODULE MCWorkerPool -----------------------------
(* Finite instances of WorkerPool for TLC. *)
EXTENDS WorkerPool

=============================================================================
