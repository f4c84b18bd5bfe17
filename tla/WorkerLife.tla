------------------------------ MODULE WorkerLife ------------------------------
(***************************************************************************)
(* Who starts, replaces and updates the worker process: the supervisor,    *)
(* the SessionStart and UserPromptSubmit hooks of several sessions, the    *)
(* detached UpdateApply process, the Windows watchdog and an operator's    *)
(* `captain-memo restart` (src/hooks, src/shared/worker-*.ts,              *)
(* src/worker/self-updater.ts).  They share no memory: only files (three   *)
(* locks that go stale, the transition breadcrumb, the stamp of the last   *)
(* update check, the skipped release), the git checkout and the port.      *)
(*                                                                         *)
(* A step is what a process does between two awaits.  Ages are abstracted: *)
(* a lock or a breadcrumb may pass its TTL at any moment, except that the  *)
(* check interval (an hour by default) does not elapse within one pass.    *)
(* Banners, their marker files and the degraded-session flag are not       *)
(* modelled.                                                               *)
(***************************************************************************)
EXTENDS Integers, ServiceManager

CONSTANTS
  Session,    \* sessions whose hooks run
  MaxRelease, \* releases 1 (installed) .. MaxRelease are published in turn
  Boots,      \* the releases whose worker comes up
  MaxFaults   \* bound: kills, crashes, wedges and failing commands

Release == 1..MaxRelease
ASSUME ReleaseAssumption == MaxRelease \in Nat /\ Boots \subseteq Release /\ 1 \in Boots
ASSUME ActorAssumption == Session \cap {"apply", "dog"} = {} /\ MaxFaults \in Nat

VARIABLES
  host,       \* "win32", or "linux" (darwin behaves alike here)
  published, checkout,
  worker,     \* the process: what it is doing and the code it loaded
  crumb,      \* worker-transition breadcrumb
  healLock, updateLock, spawnLock,
  due,        \* UPDATE_STAMP is older than its delay
  skipped,    \* SKIPPED_RELEASE_FILE (0: absent)
  at, job,    \* where each process is, and its local variables
  faults,     \* faults still to come
  lost        \* history: a pass ended without finishing what it had begun

lifeVars == <<host, published, checkout, worker, crumb, healLock, updateLock, spawnLock,
              due, skipped, at, job, faults, lost>>
locks == <<healLock, updateLock, spawnLock>>
files == <<host, published, checkout, due, skipped>>

Actor == Session \cup {"apply", "dog"}
LockState == {"free", "held", "stale"}
PassAt == {"fetch", "announce", "restart", "await", "rollback", "restart2", "await2"}
HealAt == {"heal", "healRestart", "healWait", "reprobe", "promptRestart"}
NoJob == [ver |-> 1, seen |-> 0, prior |-> 1, to |-> 1, before |-> "null", upd |-> FALSE, next |-> "idle"]

LifeInit ==
  /\ host \in {"linux", "win32"}
  /\ published = 1 /\ checkout = 1 /\ worker = [st |-> "up", code |-> 1]
  /\ crumb = "none" /\ healLock = "free" /\ updateLock = "free" /\ spawnLock = "free"
  /\ due = TRUE /\ skipped = 0 /\ faults = MaxFaults /\ lost = FALSE
  /\ at = [a \in Actor |-> "idle"] /\ job = [a \in Actor |-> NoJob]

-----------------------------------------------------------------------------
(* Locks, breadcrumb, probes *)

(* Mutant: a lock left behind by a killed process is never reclaimed. *)
CanTakeFree(lock) == lock = "free"

(* acquireHealLock: absent, or its stamp is older than the TTL. *)
CanTake(lock) == lock # "held"

(* readTransition: an expired breadcrumb reads as none. *)
Fresh == crumb # "none"

(* markTransition by a process that boots: over a breadcrumb still fresh it*)
(* keeps the older time stamp.                                             *)
BootMark == IF Fresh THEN "rebooting" ELSE "booting"

(* probeWorkerAlive: a busy worker (503, stalled for less than the wedge   *)
(* limit) is alive; a wedged one does not answer.                          *)
Alive == worker.st \in {"up", "busy"}
Answers == worker.st = "up"
Served == IF Answers THEN worker.code ELSE 0

(* Mutant: any worker that answers counts as the new one. *)
SeesAny(a) == Alive

(* readWorkerInstance, and whether an instance newer than `before` answers.*)
Instance == IF Alive THEN "this" ELSE "null"
SeesNew(a) == Alive /\ job[a].before # "this"

(* A new process on the code of the checkout, which marks its boot at once *)
(* (runWorkerCli).  Every instance read before is now an older one.        *)
NewWorker ==
  /\ worker' = [st |-> "booting", code |-> checkout]
  /\ job' = [a \in Actor |-> IF job[a].before = "this" THEN [job[a] EXCEPT !.before = "older"] ELSE job[a]]

(* sm.restart; a stray that survives its best-effort reclaim goes on.      *)
Restarted ==
  \/ NewWorker /\ crumb' = BootMark /\ UNCHANGED faults
  \/ faults > 0 /\ faults' = faults - 1 /\ UNCHANGED <<worker, job, crumb>>

(* It may throw before or after the supervisor has done it. *)
RestartThrows == faults > 0 /\ faults' = faults - 1 /\ (NewWorker \/ UNCHANGED <<worker, job>>)

Go(a, p) == at' = [at EXCEPT ![a] = p]

-----------------------------------------------------------------------------
(* runAutoUpdatePass *)

(* The stamp is written as soon as the lock is held: a lock that goes      *)
(* stale under a long pass lets nobody else in.                            *)
Claimed == due' = FALSE

EnterPass(a) ==
  /\ at[a] = "begin"
  /\ IF due /\ CanTake(updateLock)
       THEN updateLock' = "held" /\ Claimed /\ Go(a, "fetch")
       ELSE Go(a, job[a].next) /\ UNCHANGED <<updateLock, due>>
  /\ UNCHANGED <<host, published, checkout, worker, crumb, healLock, spawnLock, skipped, job, faults, lost>>

LeavePass(a) == updateLock' = "free" /\ Go(a, job[a].next)

(* pickUpdateTarget's floor is the version this process loaded, or the     *)
(* skipped release if that is newer.                                       *)
Target(a) == published > job[a].ver /\ published > skipped

(* Nothing newer, a fetch that failed, a dirty tree, a detached HEAD: the  *)
(* checkout is left as it was.                                             *)
FindsNothing(a) ==
  /\ at[a] = "fetch" /\ LeavePass(a)
  /\ UNCHANGED <<files, worker, crumb, healLock, spawnLock, job, faults, lost>>

(* The commit to come back to is read before the merge. *)
Prior == checkout

Merge(a) ==
  /\ at[a] = "fetch" /\ Target(a)
  /\ checkout' = published
  /\ job' = [job EXCEPT ![a].prior = Prior, ![a].to = published]
  /\ Go(a, "announce")
  /\ UNCHANGED <<host, published, due, skipped, worker, crumb, locks, faults, lost>>

Announce(a) ==
  /\ at[a] = "announce" /\ crumb' = "updating"
  /\ job' = [job EXCEPT ![a].before = Instance]
  /\ Go(a, "restart") /\ UNCHANGED <<files, worker, locks, faults, lost>>

PassRestart(a) ==
  /\ \/ at[a] = "restart" /\ Go(a, "await")
     \/ at[a] = "restart2" /\ Go(a, "await2")
  /\ Restarted
  /\ lost' = (lost \/ (faults' # faults /\ job[a].before = "null"))
  /\ UNCHANGED <<files, locks>>

PassRestartThrows(a) ==
  /\ at[a] \in {"restart", "restart2"} /\ RestartThrows
  /\ crumb' = "none" /\ LeavePass(a)
  /\ lost' = (lost \/ checkout # job[a].prior)
  /\ UNCHANGED <<files, healLock, spawnLock>>

(* awaitNewProcess; the outcome "updated" (then waitWorkerHealthy) or      *)
(* "rolled-back" (then a fresh /stats).                                    *)
NewProcess(a) ==
  /\ at[a] \in {"await", "await2"} /\ SeesNew(a)
  /\ job' = [job EXCEPT ![a] = [NoJob EXCEPT !.ver = job[a].ver, !.upd = TRUE, !.seen = Served]]
  /\ LeavePass(a)
  /\ UNCHANGED <<files, worker, crumb, healLock, spawnLock, faults, lost>>

(* Its deadline passes: the process died, or is slower than 30 s. *)
Gives(a) ==
  /\ ~SeesNew(a)
  /\ \/ /\ worker.code \notin Boots \/ Alive \/ worker.st = "deaf" \/ at[a] = "await2"
        /\ UNCHANGED faults
     \/ faults > 0 /\ faults' = faults - 1

BootTimesOut(a) ==
  /\ at[a] = "await" /\ Gives(a) /\ Go(a, "rollback")
  /\ UNCHANGED <<files, worker, crumb, locks, job, lost>>

RollBack(a) ==
  /\ at[a] = "rollback"
  /\ \/ checkout' = job[a].prior /\ UNCHANGED <<faults, lost>>
     \/ /\ faults > 0 /\ faults' = faults - 1 /\ lost' = TRUE /\ UNCHANGED checkout
  /\ skipped' = job[a].to /\ crumb' = "updating"
  /\ job' = [job EXCEPT ![a].before = Instance]
  /\ Go(a, "restart2") /\ UNCHANGED <<host, published, due, worker, locks>>

RollbackTimesOut(a) ==
  /\ at[a] = "await2" /\ Gives(a) /\ crumb' = "none"
  /\ job' = [job EXCEPT ![a] = [NoJob EXCEPT !.ver = job[a].ver, !.upd = TRUE, !.seen = Served]]
  /\ LeavePass(a)
  /\ UNCHANGED <<files, worker, healLock, spawnLock, lost>>

PassStep(a) ==
  \/ EnterPass(a) \/ FindsNothing(a) \/ Merge(a) \/ Announce(a) \/ PassRestart(a)
  \/ PassRestartThrows(a) \/ NewProcess(a) \/ BootTimesOut(a) \/ RollBack(a) \/ RollbackTimesOut(a)

-----------------------------------------------------------------------------
(* SessionStart *)

StartSession(s) ==
  /\ at[s] = "idle" /\ Go(s, "begin")
  /\ job' = [job EXCEPT ![s] = [NoJob EXCEPT !.ver = checkout, !.seen = Served, !.next = "look"]]
  /\ UNCHANGED <<files, worker, crumb, locks, faults, lost>>

(* A worker that answered runs, unless it serves older code than this      *)
(* hook's; one that did not is probed again, and a fresh breadcrumb is     *)
(* waited for.                                                             *)
Look(s) ==
  /\ at[s] = "look"
  /\ LET seen == job[s].seen
         stale == seen # 0 /\ ~job[s].upd /\ seen < job[s].ver
     IN  Go(s, IF stale THEN "heal"
               ELSE IF seen # 0 \/ Alive THEN "idle"
               ELSE IF Fresh THEN "transit" ELSE "heal")
  /\ job' = [job EXCEPT ![s] = NoJob]
  /\ UNCHANGED <<files, worker, crumb, locks, faults, lost>>

(* The worker came up, or the wait ran out and the session starts without. *)
Transit(s) ==
  /\ at[s] = "transit" /\ Go(s, "idle")
  /\ UNCHANGED <<files, worker, crumb, locks, job, faults, lost>>

(* ensureWorkerHealthy and runWorkerWatchdog *)
TakeHealLock(a) ==
  /\ at[a] = "heal"
  /\ IF CanTake(healLock) THEN healLock' = "held" /\ Go(a, "healRestart")
                          ELSE Go(a, "idle") /\ UNCHANGED healLock
  /\ UNCHANGED <<files, worker, crumb, updateLock, spawnLock, job, faults, lost>>

HealRestart(a) ==
  /\ at[a] = "healRestart" /\ Restarted /\ Go(a, "healWait")
  /\ UNCHANGED <<files, locks, lost>>

ReleasesHeal(a) == healLock' = "free" /\ Go(a, "idle")

HealThrows(a) ==
  /\ at[a] \in {"healRestart", "promptRestart"} /\ RestartThrows /\ ReleasesHeal(a)
  /\ crumb' = IF worker' = worker THEN crumb ELSE BootMark
  /\ UNCHANGED <<files, updateLock, spawnLock, lost>>

(* waitHealthy answers or its budget runs out. *)
HealWait(a) ==
  /\ at[a] = "healWait" /\ ReleasesHeal(a)
  /\ UNCHANGED <<files, worker, crumb, updateLock, spawnLock, job, faults, lost>>

-----------------------------------------------------------------------------
(* UserPromptSubmit *)

(* The prompt was served: on win32 the hook runs a due pass itself, else   *)
(* it spawns UpdateApply, at most once per spawn-lock TTL.                 *)
PromptServed(s) ==
  /\ at[s] = "idle" /\ Answers
  /\ LET begun(a) == [job EXCEPT ![a] = [NoJob EXCEPT !.ver = checkout, !.next = "idle"]]
     IN  IF host = "win32"
           THEN Go(s, "begin") /\ job' = begun(s) /\ UNCHANGED spawnLock
           ELSE /\ due /\ CanTake(spawnLock) /\ at["apply"] = "idle"
                /\ spawnLock' = "held" /\ Go("apply", "begin") /\ job' = begun("apply")
  /\ UNCHANGED <<files, worker, crumb, healLock, updateLock, faults, lost>>

(* It was not, and no breadcrumb explains why: the lock, then two more     *)
(* probes, then the reclaim.                                               *)
PromptFails(s) ==
  /\ at[s] = "idle" /\ ~Answers /\ ~Fresh /\ CanTake(healLock)
  /\ healLock' = "held" /\ Go(s, "reprobe")
  /\ UNCHANGED <<files, worker, crumb, updateLock, spawnLock, job, faults, lost>>

Reprobe(s) ==
  /\ at[s] = "reprobe"
  /\ IF Alive THEN ReleasesHeal(s) ELSE Go(s, "promptRestart") /\ UNCHANGED healLock
  /\ UNCHANGED <<files, worker, crumb, updateLock, spawnLock, job, faults, lost>>

PromptRestart(s) ==
  /\ at[s] = "promptRestart" /\ Restarted /\ ReleasesHeal(s)
  /\ UNCHANGED <<files, updateLock, spawnLock, lost>>

(* The scheduled watchdog: breadcrumb, then probes, then the lock. *)
Watchdog ==
  /\ host = "win32" /\ at["dog"] = "idle" /\ ~Fresh /\ ~Alive /\ Go("dog", "heal")
  /\ UNCHANGED <<files, worker, crumb, locks, job, faults, lost>>

(* `captain-memo restart` takes no lock and reads no breadcrumb. *)
OperatorRestarts ==
  /\ faults > 0 /\ faults' = faults - 1
  /\ NewWorker /\ crumb' = BootMark
  /\ UNCHANGED <<files, locks, at, lost>>

HookStep(a) ==
  \/ PassStep(a) \/ Look(a) \/ Transit(a) \/ TakeHealLock(a) \/ HealRestart(a)
  \/ HealThrows(a) \/ HealWait(a) \/ Reprobe(a) \/ PromptRestart(a)

-----------------------------------------------------------------------------
(* The process itself, and time *)

Becomes(st) == worker' = [worker EXCEPT !.st = st]

(* runWorkerCli clears whatever mark there is once it listens. *)
Listen ==
  /\ worker.st = "booting" /\ worker.code \in Boots /\ Becomes("up") /\ crumb' = "none"
  /\ UNCHANGED <<files, locks, at, job, faults, lost>>
BootFails ==
  /\ worker.st = "booting" /\ worker.code \notin Boots /\ Becomes("none")
  /\ UNCHANGED <<files, crumb, locks, at, job, faults, lost>>
Respawn ==
  /\ worker.st = "none" /\ NewWorker /\ crumb' = BootMark
  /\ UNCHANGED <<files, locks, at, faults, lost>>
Stall ==
  /\ worker.st = "up" /\ Becomes("busy")
  /\ UNCHANGED <<files, crumb, locks, at, job, faults, lost>>
CatchUp ==
  /\ worker.st = "busy" /\ Becomes("up")
  /\ UNCHANGED <<files, crumb, locks, at, job, faults, lost>>
Fails ==
  /\ faults > 0 /\ faults' = faults - 1 /\ worker.st \in {"up", "busy"}
  /\ \E st \in {"none", "deaf"} : Becomes(st)
  /\ UNCHANGED <<files, crumb, locks, at, job, lost>>

(* The host's hook timeout, the backstop of UpdateApply, a closed session: *)
(* its locks and breadcrumb stay.                                          *)
Killed(a) ==
  /\ faults > 0 /\ faults' = faults - 1 /\ at[a] # "idle" /\ Go(a, "idle")
  /\ lost' = (lost \/ (at[a] \in PassAt \ {"fetch"} /\ checkout # job[a].prior))
  /\ UNCHANGED <<files, worker, crumb, locks, job>>

HealLockExpires ==
  /\ healLock = "held" /\ healLock' = "stale"
  /\ UNCHANGED <<files, worker, crumb, updateLock, spawnLock, at, job, faults, lost>>
UpdateLockExpires ==
  /\ updateLock = "held" /\ updateLock' = "stale"
  /\ UNCHANGED <<files, worker, crumb, healLock, spawnLock, at, job, faults, lost>>
SpawnLockExpires ==
  /\ spawnLock = "held" /\ spawnLock' = "stale"
  /\ UNCHANGED <<files, worker, crumb, healLock, updateLock, at, job, faults, lost>>
(* A boot takes less than the TTL. *)
CrumbExpires ==
  /\ Fresh /\ ~(crumb = "booting" /\ worker.st = "booting")
  /\ crumb' = "none" /\ UNCHANGED <<files, worker, locks, at, job, faults, lost>>

InPass == {a \in Actor : at[a] \in PassAt}
CheckDue ==
  /\ ~due /\ InPass = {} /\ due' = TRUE
  /\ UNCHANGED <<host, published, checkout, skipped, worker, crumb, locks, at, job, faults, lost>>
Publish ==
  /\ published < MaxRelease /\ published' = published + 1
  /\ UNCHANGED <<host, checkout, due, skipped, worker, crumb, locks, at, job, faults, lost>>

ProcessStep == Listen \/ BootFails \/ Respawn \/ CatchUp

LifeNext ==
  \/ \E s \in Session : StartSession(s) \/ PromptServed(s) \/ PromptFails(s)
  \/ \E a \in Actor : HookStep(a) \/ Killed(a)
  \/ Watchdog \/ OperatorRestarts \/ ProcessStep \/ Stall \/ Fails
  \/ HealLockExpires \/ UpdateLockExpires \/ SpawnLockExpires \/ CrumbExpires \/ CheckDue \/ Publish

LifeSpec == LifeInit /\ [][LifeNext]_lifeVars

(* The processes go on, time passes, and somebody goes on prompting.  New  *)
(* releases, new checks and faults need not come.                          *)
LifeFairness ==
  /\ \A a \in Actor : WF_lifeVars(HookStep(a))
  /\ WF_lifeVars(ProcessStep) /\ WF_lifeVars(HealLockExpires) /\ WF_lifeVars(CrumbExpires)
  /\ \A s \in Session : SF_lifeVars(PromptFails(s))
LifeFairSpec == LifeSpec /\ LifeFairness

-----------------------------------------------------------------------------
LifeTypeOK ==
  /\ published \in Release /\ checkout \in Release /\ skipped \in 0..MaxRelease
  /\ worker \in [st : {"none", "booting", "up", "busy", "deaf"}, code : Release]
  /\ crumb \in {"none", "booting", "rebooting", "updating"} /\ {healLock, updateLock, spawnLock} \subseteq LockState
  /\ at \in [Actor -> PassAt \cup HealAt \cup {"idle", "begin", "look", "transit"}]
  /\ \A a \in Actor : job[a].prior \in Release /\ job[a].before \in {"null", "this", "older"}

(* Two passes never work on the checkout at once, although the lock of a   *)
(* pass that takes minutes goes stale after 20 seconds: the check is       *)
(* stamped before it is made.                                              *)
OnePassAtATime == Cardinality(InPass) <= 1

(* A release whose worker does not come up is never what a finished pass   *)
(* leaves in the checkout: whatever the hooks, the watchdog and the        *)
(* supervisor did to the process meanwhile, it is rolled back -- unless    *)
(* the pass itself was killed, git or the supervisor failed it, or a       *)
(* restart silently did nothing while no worker answered to compare with.  *)
BadReleaseIsRolledBack == InPass = {} /\ ~lost => checkout \in Boots

(* Restarting an installed worker replaces its process, whatever an earlier*)
(* operation left behind, a stray that a soft stop lost track of included: *)
(* old code never goes on serving behind a restart that reports success.   *)
RestartReplacesTheWorker ==
  \A p \in IF host = "win32" THEN {host} ELSE Platform \ {"win32"} : \A s \in States(p) :
    s.unit => /\ Restart(p, s) # {}
              /\ \A t \in Restart(p, s) : t.proc = "new" /\ Status(p, t) = "running"

(* The checkout is changed by one pass at a time, a finished one leaves a  *)
(* release there that comes up, and the restart it ends in is one.         *)
ReleasesAreSafe ==
  /\ OnePassAtATime
  /\ BadReleaseIsRolledBack
  /\ RestartReplacesTheWorker

(* A worker that crashes, wedges or is sent onto a release that cannot     *)
(* boot is up again in the end, over killed hooks with their locks and     *)
(* breadcrumbs left behind, while somebody goes on prompting.              *)
WorkerComesBack == []<>(Answers \/ lost)
=============================================================================
