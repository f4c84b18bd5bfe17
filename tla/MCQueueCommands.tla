--------------------------- MODULE MCQueueCommands ---------------------------
(* Small instances of QueueCommands for TLC. *)
EXTENDS QueueCommands

(* Transcript capture: every event is a turn of its own, re-enqueued or not. *)
OneEventPerTurn == [e \in Event |-> e]

(* Hooks: the tool uses of one prompt share its (session_id, prompt_number). *)
ToolUsesOfOnePrompt == [e \in Event |-> "prompt"]
=============================================================================
