-------------------------- MODULE MCThreadedWorker --------------------------
(* Small instances of ThreadedWorker for TLC. *)
EXTENDS ThreadedWorker, TLC

(* The readers, and the requests of one kind, are interchangeable. *)
Symmetry ==
  Permutations(Reader) \cup Permutations(Reads) \cup Permutations(ListedWrites)
=============================================================================
