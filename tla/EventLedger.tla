----------------------------- MODULE EventLedger -----------------------------
(***************************************************************************)
(* What the observation pipeline promises about the events it accepts,     *)
(* whatever its batches, providers, retries and crashes: an event is       *)
(* written (made into an observation) before it is closed, a closed event  *)
(* stays closed, and the only other place it can be is the dead-letter     *)
(* shelf, from which it can come back.                                     *)
(***************************************************************************)
CONSTANT Item   \* identities of accepted events

VARIABLES
  accepted,   \* captured and queued
  written,    \* made into an observation
  closed,     \* nothing is left to do
  shelved     \* given up, for now

ledgerVars == <<accepted, written, closed, shelved>>

Init == accepted = {} /\ written = {} /\ closed = {} /\ shelved = {}

Accept ==
  /\ \E i \in Item \ accepted : accepted' = accepted \cup {i}
  /\ UNCHANGED <<written, closed, shelved>>

(* Writing may repeat (a crash between writing and closing): at least once. *)
Write ==
  /\ \E S \in SUBSET (accepted \ (closed \cup shelved)) : written' = written \cup S
  /\ UNCHANGED <<accepted, closed, shelved>>

(* The outcome of a batch: some events are closed, others given up. *)
Resolve ==
  /\ \E D \in SUBSET (written \ (closed \cup shelved)) : closed' = closed \cup D
  /\ \E F \in SUBSET (accepted \ (closed' \cup shelved)) : shelved' = shelved \cup F
  /\ UNCHANGED <<accepted, written>>

Revive ==
  /\ \E S \in SUBSET shelved : shelved' = shelved \ S
  /\ UNCHANGED <<accepted, written, closed>>

Next == Accept \/ Write \/ Resolve \/ Revive

Spec == Init /\ [][Next]_ledgerVars
=============================================================================
