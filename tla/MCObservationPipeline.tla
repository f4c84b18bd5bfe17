------------------------ MODULE MCObservationPipeline ------------------------
(* Small instances of ObservationPipeline for TLC. *)
EXTENDS ObservationPipeline, TLC

(* Three events in two turns: the first two are tool uses of one prompt. *)
MCTurnOf == [e \in Event |-> IF e \in {"edit", "test"} THEN "prompt1" ELSE "prompt2"]

(* Providers are interchangeable: the chain's order is a free choice. *)
Symmetry == Permutations(Provider)
=============================================================================
