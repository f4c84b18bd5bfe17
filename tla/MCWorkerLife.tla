--------------------------- MODULE MCWorkerLife ---------------------------
(* A small instance of WorkerLife for TLC. *)
EXTENDS WorkerLife
=============================================================================
