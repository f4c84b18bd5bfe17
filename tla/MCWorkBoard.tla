---------------------------- MODULE MCWorkBoard ----------------------------
(* Small instances of WorkBoard for TLC. *)
EXTENDS WorkBoard

(* Two AI processes with a session each. *)
PairOfSessions == {"claude", "codex"}
PairPidOf == [s \in PairOfSessions |-> IF s = "claude" THEN "p1" ELSE "p2"]

(* The second process has a session of its hook and another of its MCP server. *)
TrioOfSessions == {"claude", "codex", "mcp"}
TrioPidOf == [s \in TrioOfSessions |-> IF s = "claude" THEN "p1" ELSE "p2"]

(* edit1 and edit1b are the first session's, edit2 the second's. *)
MCSessionOf == [c \in Call |-> IF c = "edit2" THEN "codex" ELSE "claude"]
=============================================================================
