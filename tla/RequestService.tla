---------------------------- MODULE RequestService ----------------------------
(***************************************************************************)
(* What the threaded worker promises to whoever sends it a request, with   *)
(* no word of threads, pools, crashes and deadlines: a request is carried  *)
(* out at most once and answered at most once, an answer is never taken    *)
(* back, and it tells the caller what to expect.  "ok" says that it has    *)
(* been carried out; "saturated" and "unavailable" that it never will be,  *)
(* so sending it again is safe; "in_flight" that it may be yet.  "failed"  *)
(* leaves open whether it was, and, for the writes whose callers must      *)
(* know, rules out that it is carried out from now on.                     *)
(***************************************************************************)
CONSTANTS
  Request,
  ListedWrites,  \* those whose callers are told when the outcome is open
  None

VARIABLES
  accepted,      \* taken from their callers
  carriedOut,
  answer         \* of each, None as long as there is none

serviceVars == <<accepted, carriedOut, answer>>

Turned == {"saturated", "unavailable"}
Final(r) == Turned \cup (IF r \in ListedWrites THEN {"failed"} ELSE {})

Open == {r \in accepted : answer[r] = None}

Init == accepted = {} /\ carriedOut = {} /\ answer = [r \in Request |-> None]

Accept ==
  /\ \E r \in Request \ accepted : accepted' = accepted \cup {r}
  /\ UNCHANGED <<carriedOut, answer>>

(* Perhaps long after the caller has been told that it may still happen. *)
CarryOut ==
  /\ \E r \in accepted \ carriedOut : answer[r] \notin Final(r) /\ carriedOut' = carriedOut \cup {r}
  /\ UNCHANGED <<accepted, answer>>

AnswersTo(r) ==
  {"failed"} \cup (IF r \in carriedOut THEN {"ok"} ELSE Turned)
             \cup (IF r \in ListedWrites THEN {"in_flight"} ELSE {})

Reply ==
  /\ \E r \in Open : \E a \in AnswersTo(r) : answer' = [answer EXCEPT ![r] = a]
  /\ UNCHANGED <<accepted, carriedOut>>

(* Taken and turned away at once. *)
TurnAway ==
  /\ \E r \in Request \ accepted : accepted' = accepted \cup {r} /\ answer' = [answer EXCEPT ![r] = "unavailable"]
  /\ UNCHANGED carriedOut

(* All that depended on something that is gone. *)
GiveUp ==
  /\ \E R \in SUBSET Open : answer' = [r \in Request |-> IF r \in R THEN "failed" ELSE answer[r]]
  /\ UNCHANGED <<accepted, carriedOut>>

Next == Accept \/ CarryOut \/ Reply \/ TurnAway \/ GiveUp

Spec == Init /\ [][Next]_serviceVars
=============================================================================
