------------------------------ MODULE MCCalls ------------------------------
(***************************************************************************)
(* The two parts whose work must come to an end, in one run of TLC: the    *)
(* calls of the summarizers and the ticks of the capture driver.  They     *)
(* share no state; a behaviour is one of them at work.                     *)
(***************************************************************************)
EXTENDS SummarizerCalls, CaptureDriver

VARIABLE part

MCProviders == <<"oauth", "codex">>
MCModels == <<"m1", "m2">>

(* What is not at work is 0. *)
NoCalls ==
  /\ provider = 0 /\ usable = 0 /\ file = 0 /\ cached = 0 /\ refusals = 0
  /\ active = 0 /\ retired = 0 /\ asking = 0 /\ child = 0
NoCapture ==
  /\ transcript = 0 /\ historic = 0 /\ native = 0 /\ cursor = 0 /\ current = 0 /\ tick = 0 /\ restarts = 0
  /\ queued = 0 /\ seen = 0 /\ late = 0 /\ misread = 0

EndingInit == \/ part = "calls" /\ CallsInit /\ NoCapture
              \/ part = "capture" /\ Init /\ NoCalls
EndingNext == \/ part = "calls" /\ CallsNext /\ UNCHANGED <<part, vars>>
              \/ part = "capture" /\ Next /\ UNCHANGED <<part, callsVars>>

(* The fairness of either module. *)
EndingSpec ==
  /\ EndingInit /\ [][EndingNext]_<<part, callsVars, vars>>
  /\ \A a \in Asker : WF_callsVars(part = "calls" /\ Progress(a))
  /\ \A t \in Tick : WF_vars(part = "capture" /\ TickStep(t))

-----------------------------------------------------------------------------
(* However a command line behaves (a program that never ends, a shim that started it), the call
   comes back (modules SummarizerCalls: killTree and its callers). *)
CallsEnd ==
  \A a \in Asker : (part = "calls" /\ asking[a].stage # "idle") ~> (part = "calls" /\ asking[a].stage = "idle")

(* A replaced login is refused at most once for each asker (module SummarizerCalls: the token cache). *)
LoginsTakeEffect == part = "calls" => LoginTakesEffect

(* Ticks do not overlap, every turn of a recorded session has been queued and none twice
   (module CaptureDriver: the tick gate, runCaptureTick and its cursors). *)
TurnsAreQueuedOnce == part = "capture" => OneTickAtATime /\ NoTurnIsQueuedTwice /\ NoTurnIsSkipped

(* A backfill that was asked for comes to its end (module CaptureDriver: createTickGate). *)
BackfillsComeThrough == \A t \in Backfill : (part = "capture" /\ Active(t)) ~> (part = "capture" /\ ~Active(t))
=============================================================================
