--------------------------- MODULE MCMemoryIndex ---------------------------
(* Small instances of MemoryIndex for TLC. *)
EXTENDS MemoryIndex

(* Every request names the one file, and each has something of its own to say. *)
MCPathOf == [r \in Remember |-> CHOOSE p \in Path : TRUE]
MCNoteOf == [r \in Remember |-> r]
=============================================================================
