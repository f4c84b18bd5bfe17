---------------------------- MODULE ServiceManager ----------------------------
(***************************************************************************)
(* The three supervisors behind one interface                              *)
(* (src/services/service-manager): systemd, the Windows task scheduler and *)
(* launchd.  Each operation maps the state of a service to the set of      *)
(* states it may leave when it does not throw.  What the supervisor's own  *)
(* commands do is external; the order of the calls and their flags are the *)
(* code's.                                                                 *)
(*                                                                         *)
(* A process is "old" (the supervisor's, started earlier), "stray" (still  *)
(* alive and holding the port, but no longer the supervisor's) or "new"    *)
(* (started by the operation).                                             *)
(***************************************************************************)
EXTENDS FiniteSets

Platform == {"linux", "win32", "darwin"}
Service == [unit : BOOLEAN, loaded : BOOLEAN, enabled : BOOLEAN,
            proc : {"none", "old", "stray", "new"}]

WithProc(s, p) == [s EXCEPT !.proc = p]

(* Starting an instance is a no-op while one runs: systemd's start, the    *)
(* task's IgnoreNew, a kickstart without -k; a stray process keeps the     *)
(* port, so the instance that is started exits.                            *)
Launched(s) == IF s.proc = "none" THEN WithProc(s, "new") ELSE s

(* Stop-ScheduledTask ends the task, not reliably its process; /shutdown,  *)
(* asked first when `graceful`, is best effort.  `force` kills whichever   *)
(* bun process owns the port.                                              *)
TaskEnded(s, force) ==
  IF force THEN {WithProc(s, "none")}
           ELSE {WithProc(s, "none")} \cup {WithProc(s, "stray") : x \in {s.proc} \ {"none"}}

Stop(p, s, force) ==
  CASE p = "linux"  -> {WithProc(s, "none")}
    [] p = "win32"  -> TaskEnded(s, force)
    [] p = "darwin" -> {WithProc([s EXCEPT !.loaded = FALSE], "none")}

(* launchd forgets a job that was booted out: start bootstraps it again,   *)
(* from a plist that must exist.                                           *)
Start(p, s) ==
  IF ~s.unit THEN {} ELSE
  CASE p \in {"linux", "win32"} -> {Launched(s)}
    [] p = "darwin"             -> {Launched([s EXCEPT !.loaded = TRUE])}

(* systemd and launchd (kickstart -k) replace the process in one job; the  *)
(* task scheduler has no such job, so restart is a forced stop and a start.*)
Restart(p, s) ==
  IF ~s.unit THEN {} ELSE
  CASE p = "linux"  -> {WithProc(s, "new")}
    [] p = "win32"  -> UNION {Start(p, t) : t \in Stop(p, s, TRUE)}
    [] p = "darwin" -> IF s.loaded THEN {WithProc(s, "new")} ELSE Start(p, s)

(* systemd restarts the unit it has rewritten; the task is only registered;*)
(* launchd boots the old job out first, so that its plist is read again.   *)
Install(p, s, autostart) ==
  LET written == [s EXCEPT !.unit = TRUE, !.loaded = TRUE, !.enabled = @ \/ autostart]
  IN  CASE p \in {"linux", "darwin"} -> {WithProc(written, "new")}
        [] p = "win32"               -> {[written EXCEPT !.enabled = TRUE]}

(* Unregistering a task does not end its process. *)
Remove(p, s) ==
  LET gone == [s EXCEPT !.unit = FALSE, !.loaded = FALSE, !.enabled = FALSE]
  IN  {WithProc(gone, IF p # "win32" \/ s.proc = "none" THEN "none" ELSE "stray")}

Enable(s, on) == [s EXCEPT !.enabled = on]

(* A stray process is invisible to all three: the answer is the            *)
(* supervisor's, never the port's.                                         *)
Status(p, s) ==
  IF s.loaded /\ s.proc \in {"old", "new"} THEN "running"
  ELSE IF s.unit THEN "stopped" ELSE "not-installed"

(* What brings a dead process back without anyone asking: Restart=always;  *)
(* RestartOnFailure and the repeating time trigger of the task's XML, which*)
(* fires after a stop as well; KeepAlive while the job is loaded.          *)
Respawns(p, s, stopped) ==
  /\ s.unit /\ s.proc = "none"
  /\ CASE p = "linux"  -> ~stopped
       [] p = "win32"  -> s.enabled
       [] p = "darwin" -> s.loaded

-----------------------------------------------------------------------------
(* Services as the operations leave them: nothing runs from a unit that    *)
(* launchd has booted out, and only a task leaves a stray.                 *)
States(p) == {s \in Service : /\ s.proc # "new"
                              /\ (s.proc = "stray" => p = "win32")
                              /\ (s.proc = "old" => s.unit /\ s.loaded)
                              /\ (IF p = "darwin" THEN s.loaded => s.unit ELSE s.loaded = s.unit)}
=============================================================================
