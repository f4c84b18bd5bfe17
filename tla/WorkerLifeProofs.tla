--------------------------- MODULE WorkerLifeProofs ---------------------------
(***************************************************************************)
(* Machine-checked proof that ReleasesAreSafe holds of WorkerLife, for     *)
(* every number of sessions, releases and faults and whichever releases    *)
(* come up.  What is inductive says of a pass, step by step, which         *)
(* releases come up: the one in the checkout before the merge and after    *)
(* the rollback, the one it would come back to in between; and that a      *)
(* worker which is not the one it read loaded the code of the checkout.    *)
(***************************************************************************)
EXTENDS WorkerLife, FiniteSetTheorems, TLAPS

Job == [ver : Release, seen : 0..MaxRelease, prior : Release, to : Release,
        before : {"null", "this", "older"}, upd : BOOLEAN, next : {"idle", "look"}]

Typed ==
  /\ LifeTypeOK
  /\ job \in [Actor -> Job]
  /\ host \in {"linux", "win32"} /\ due \in BOOLEAN /\ lost \in BOOLEAN /\ faults \in Nat

(* A check that is due has not begun. *)
DueIsIdle == due => InPass = {}

PassesAreOne == \A a, b \in InPass : a = b

(* Only a worker that came up is up, stalled or wedged. *)
UpIsGood == worker.st \in {"up", "busy", "deaf"} => worker.code \in Boots

(* Where a pass stands, which release would come up, and what it can tell
   from a worker other than the one it read. *)
PassIsSafe(a) ==
  /\ at[a] \in {"fetch", "restart2", "await2"} => checkout \in Boots
  /\ at[a] \in {"announce", "restart", "await", "rollback"} => job[a].prior \in Boots
  /\ at[a] = "restart" /\ job[a].before = "older" => worker.code = checkout
  /\ at[a] = "await" /\ job[a].before # "this" => worker.code = checkout

PassesAreSafe ==
  ~lost => /\ InPass = {} => checkout \in Boots
           /\ \A a \in InPass : PassIsSafe(a)

LInv == Typed /\ DueIsIdle /\ PassesAreOne /\ UpIsGood /\ PassesAreSafe

-----------------------------------------------------------------------------
(* Steps that change no pass. *)

(* A pass goes on where it was, but for what a new worker does to it. *)
PassesGoOn ==
  /\ \A a \in Actor : at[a] \in PassAt \/ at'[a] \in PassAt =>
       /\ at'[a] = at[a]
       /\ job'[a].prior = job[a].prior
       /\ \/ job'[a].before = job[a].before /\ worker'.code = worker.code
          \/ job'[a].before # "this" /\ worker'.code = checkout
  /\ checkout' = checkout
  /\ lost' = lost
  /\ UpIsGood'
  /\ due' => due \/ InPass = {}

LEMMA PassesThatGoOnAreSafe ==
  ASSUME LInv, Typed', PassesGoOn
  PROVE  LInv'
<1>1. \A a \in Actor : at'[a] \in PassAt \/ at[a] \in PassAt => at'[a] = at[a]
  BY DEF PassesGoOn
<1>2. InPass' = InPass
  BY <1>1 DEF InPass
<1>3. DueIsIdle' /\ PassesAreOne'
  BY <1>2 DEF PassesGoOn, DueIsIdle, PassesAreOne, LInv
<1>4. ASSUME NEW a \in InPass, PassIsSafe(a)
      PROVE  PassIsSafe(a)'
  BY <1>4 DEF PassIsSafe, PassesGoOn, InPass
<1>5. PassesAreSafe'
  BY <1>2, <1>4 DEF PassesAreSafe, PassesGoOn, LInv
<1>6. QED
  BY <1>3, <1>5 DEF LInv, PassesGoOn

-----------------------------------------------------------------------------
(* What the operators the actions share do. *)

LEMMA NoJobIsJob == NoJob \in Job
BY ReleaseAssumption DEF NoJob, Job, Release

LEMMA ServedIsRelease == Typed => Served \in 0..MaxRelease
BY ReleaseAssumption DEF Typed, LifeTypeOK, Served, Release

LEMMA NewWorkerEffect ==
  ASSUME Typed, NewWorker
  PROVE  /\ worker' = [st |-> "booting", code |-> checkout]
         /\ job' \in [Actor -> Job]
         /\ \A a \in Actor : /\ job'[a].prior = job[a].prior /\ job'[a].to = job[a].to
                             /\ job'[a].next = job[a].next
                             /\ job'[a].before # "this"
                             /\ job'[a].before # job[a].before => job'[a].before = "older"
<1>1. job \in [Actor -> Job]
  BY DEF Typed
<1>2. ASSUME NEW a \in Actor
      PROVE  /\ job'[a] \in Job
             /\ job'[a].prior = job[a].prior /\ job'[a].to = job[a].to
             /\ job'[a].next = job[a].next
             /\ job'[a].before # "this"
             /\ job'[a].before # job[a].before => job'[a].before = "older"
  <2>1. job'[a] = IF job[a].before = "this" THEN [job[a] EXCEPT !.before = "older"] ELSE job[a]
    BY DEF NewWorker
  <2>2. PICK j : j = job[a] /\ j \in Job
    BY <1>1
  <2>3. QED
    BY <2>1, <2>2 DEF Job
<1>3. job' = [a \in Actor |-> job'[a]]
  BY DEF NewWorker
<1>4. QED
  BY <1>2, <1>3 DEF NewWorker

(* Whatever becomes of a restart, the passes go on. *)
LEMMA WorkerChangesAreSafe ==
  ASSUME LInv, NewWorker \/ UNCHANGED <<worker, job>>
  PROVE  /\ worker' \in [st : {"none", "booting", "up", "busy", "deaf"}, code : Release]
         /\ job' \in [Actor -> Job]
         /\ UpIsGood'
         /\ \A a \in Actor :
              /\ job'[a].prior = job[a].prior /\ job'[a].to = job[a].to /\ job'[a].next = job[a].next
              /\ \/ job'[a].before = job[a].before /\ worker'.code = worker.code
                 \/ job'[a].before # "this" /\ worker'.code = checkout
<1>1. CASE NewWorker
  <2>1. Typed /\ checkout \in Release
    BY DEF LInv, Typed, LifeTypeOK
  <2>2. /\ worker' = [st |-> "booting", code |-> checkout]
        /\ job' \in [Actor -> Job]
        /\ \A a \in Actor : /\ job'[a].prior = job[a].prior /\ job'[a].to = job[a].to
                            /\ job'[a].next = job[a].next
                            /\ job'[a].before # "this"
                            /\ job'[a].before # job[a].before => job'[a].before = "older"
    BY <1>1, <2>1, NewWorkerEffect
  <2>3. /\ worker' \in [st : {"none", "booting", "up", "busy", "deaf"}, code : Release]
        /\ UpIsGood' /\ worker'.code = checkout
    BY <2>1, <2>2 DEF UpIsGood
  <2>4. ASSUME NEW a \in Actor
        PROVE  /\ job'[a].prior = job[a].prior /\ job'[a].to = job[a].to /\ job'[a].next = job[a].next
               /\ job'[a].before # "this" /\ worker'.code = checkout
    BY <2>2, <2>3
  <2>5. QED
    BY <2>2, <2>3, <2>4, Zenon
<1>2. CASE UNCHANGED <<worker, job>>
  BY <1>2 DEF LInv, Typed, LifeTypeOK, UpIsGood
<1>3. QED
  BY <1>1, <1>2

LEMMA RestartedEffect ==
  ASSUME Typed, Restarted
  PROVE  /\ NewWorker \/ UNCHANGED <<worker, job>>
         /\ crumb' \in {"none", "booting", "rebooting", "updating"}
         /\ faults' \in Nat
         /\ faults' = faults => NewWorker
         /\ faults' # faults => UNCHANGED <<worker, job>>
BY DEF Restarted, BootMark, Typed, LifeTypeOK

LEMMA RestartThrowsEffect ==
  ASSUME Typed, RestartThrows
  PROVE  /\ NewWorker \/ UNCHANGED <<worker, job>>
         /\ faults' \in Nat
BY DEF RestartThrows, Typed

-----------------------------------------------------------------------------
(* The steps of the worker process and of time. *)

LEMMA TimersKeepLInv ==
  ASSUME LInv,
         HealLockExpires \/ UpdateLockExpires \/ SpawnLockExpires \/ CrumbExpires \/ CheckDue \/ Publish
  PROVE  LInv'
<1>1. UNCHANGED <<host, checkout, worker, at, job, faults, lost>>
  BY DEF HealLockExpires, UpdateLockExpires, SpawnLockExpires, CrumbExpires, CheckDue, Publish,
         files, locks
<1>2. /\ published' \in Release /\ skipped' = skipped
      /\ {healLock', updateLock', spawnLock'} \subseteq LockState
      /\ crumb' \in {"none", "booting", "rebooting", "updating"}
      /\ due' \in BOOLEAN /\ (due' => due \/ InPass = {})
  <2>1. published' \in Release
    BY ReleaseAssumption
       DEF HealLockExpires, UpdateLockExpires, SpawnLockExpires, CrumbExpires, CheckDue, Publish,
           files, LInv, Typed, LifeTypeOK, Release
  <2>2. {healLock', updateLock', spawnLock'} \subseteq LockState
    BY DEF HealLockExpires, UpdateLockExpires, SpawnLockExpires, CrumbExpires, CheckDue, Publish,
           locks, LInv, Typed, LifeTypeOK, LockState
  <2>3. crumb' \in {"none", "booting", "rebooting", "updating"} /\ skipped' = skipped
    BY DEF HealLockExpires, UpdateLockExpires, SpawnLockExpires, CrumbExpires, CheckDue, Publish,
           files, LInv, Typed, LifeTypeOK
  <2>4. due' \in BOOLEAN /\ (due' => due \/ InPass = {})
    <3>1. due' = due \/ (due' = TRUE /\ InPass = {})
      BY DEF HealLockExpires, UpdateLockExpires, SpawnLockExpires, CrumbExpires, CheckDue, Publish,
             files
    <3>2. due \in BOOLEAN
      BY DEF LInv, Typed
    <3>3. due' \in BOOLEAN
      BY <3>1, <3>2
    <3>4. due' = due => (due' => due)
      BY Zenon
    <3>5. QED
      BY <3>1, <3>3, <3>4, Zenon
  <2>5. QED
    BY <2>1, <2>2, <2>3, <2>4
<1>3. Typed'
  BY <1>1, <1>2 DEF LInv, Typed, LifeTypeOK
<1>4. PassesGoOn
  BY <1>1, <1>2 DEF PassesGoOn, LInv, UpIsGood
<1>5. QED
  BY <1>3, <1>4, PassesThatGoOnAreSafe

LEMMA ProcessKeepsLInv ==
  ASSUME LInv, Listen \/ BootFails \/ CatchUp \/ Stall \/ Fails
  PROVE  LInv'
<1>1. /\ UNCHANGED <<files, locks, at, job, lost>>
      /\ crumb' \in {"none", "booting", "rebooting", "updating"} /\ faults' \in Nat
  BY DEF Listen, BootFails, CatchUp, Stall, Fails, LInv, Typed, LifeTypeOK
<1>2. PICK st \in {"none", "up", "busy", "deaf"} :
        /\ worker' = [worker EXCEPT !.st = st]
        /\ \/ st = "none" \/ worker.code \in Boots
           \/ worker.st \in {"up", "busy"}
  BY DEF Listen, BootFails, CatchUp, Stall, Fails, Becomes
<1>3. worker \in [st : {"none", "booting", "up", "busy", "deaf"}, code : Release]
  BY DEF LInv, Typed, LifeTypeOK
<1>4. /\ worker' \in [st : {"none", "booting", "up", "busy", "deaf"}, code : Release]
      /\ worker'.code = worker.code /\ worker'.st = st
  BY <1>2, <1>3
<1>5. UpIsGood'
  BY <1>2, <1>4 DEF UpIsGood, LInv
<1>6. Typed'
  BY <1>1, <1>4 DEF LInv, Typed, LifeTypeOK, files, locks
<1>7. PassesGoOn
  BY <1>1, <1>4, <1>5 DEF PassesGoOn, files
<1>8. QED
  BY <1>6, <1>7, PassesThatGoOnAreSafe

LEMMA RestartsKeepLInv ==
  ASSUME LInv, Respawn \/ OperatorRestarts
  PROVE  LInv'
<1>1. /\ UNCHANGED <<files, locks, at, lost>> /\ NewWorker
      /\ crumb' \in {"none", "booting", "rebooting", "updating"} /\ faults' \in Nat
  BY DEF Respawn, OperatorRestarts, BootMark, LInv, Typed
<1>2. /\ worker' \in [st : {"none", "booting", "up", "busy", "deaf"}, code : Release]
      /\ job' \in [Actor -> Job] /\ UpIsGood'
      /\ \A a \in Actor : /\ job'[a].prior = job[a].prior
                          /\ \/ job'[a].before = job[a].before /\ worker'.code = worker.code
                             \/ job'[a].before # "this" /\ worker'.code = checkout
  BY <1>1, WorkerChangesAreSafe
<1>3. Typed'
  BY <1>1, <1>2 DEF LInv, Typed, LifeTypeOK, files, locks, Job
<1>4. PassesGoOn
  BY <1>1, <1>2 DEF PassesGoOn, files
<1>5. QED
  BY <1>3, <1>4, PassesThatGoOnAreSafe

-----------------------------------------------------------------------------
(* The steps of hooks, the watchdog and UpdateApply outside a pass. *)

(* A session or UpdateApply begins: its version and its way on are noted. *)
LEMMA BeginningsKeepLInv ==
  ASSUME LInv, NEW s \in Actor, StartSession(s) \/ PromptServed(s) \/ Look(s)
  PROVE  LInv'
<1>1. PICK a \in {s, "apply"}, p \in {"begin", "idle", "transit", "heal"},
           j \in {NoJob} \cup {[NoJob EXCEPT !.ver = checkout, !.seen = Served, !.next = "look"],
                               [NoJob EXCEPT !.ver = checkout, !.next = "idle"]} :
        /\ at[a] \in {"idle", "look"} /\ at' = [at EXCEPT ![a] = p]
        /\ job' = [job EXCEPT ![a] = j]
        /\ spawnLock' \in {spawnLock, "held"}
        /\ UNCHANGED <<files, worker, crumb, healLock, updateLock, faults, lost>>
  <2>1. CASE StartSession(s)
    BY <2>1 DEF StartSession, Go, locks
  <2>2. CASE PromptServed(s)
    BY <2>2 DEF PromptServed, Go
  <2>3. CASE Look(s)
    BY <2>3 DEF Look, Go, locks
  <2>4. QED
    BY <2>1, <2>2, <2>3
<1>2. a \in Actor
  BY DEF Actor
<1>3. j \in Job
  <2>1. NoJob \in Job /\ checkout \in Release /\ Served \in 0..MaxRelease
    BY NoJobIsJob, ServedIsRelease DEF LInv, Typed, LifeTypeOK
  <2>2. QED
    BY <1>1, <2>1 DEF Job
<1>4. job' \in [Actor -> Job] /\ at' \in [Actor -> PassAt \cup HealAt \cup {"idle", "begin", "look", "transit"}]
  BY <1>1, <1>3 DEF LInv, Typed, LifeTypeOK, HealAt
<1>5. \A b \in Actor : at[b] \in PassAt \/ at'[b] \in PassAt => at'[b] = at[b] /\ job'[b] = job[b]
  BY <1>1, <1>2 DEF LInv, Typed, LifeTypeOK, PassAt
<1>6. Typed'
  BY <1>1, <1>4 DEF LInv, Typed, LifeTypeOK, files, LockState, Job
<1>7. PassesGoOn
  BY <1>1, <1>5 DEF PassesGoOn, files, LInv, UpIsGood
<1>8. QED
  BY <1>6, <1>7, PassesThatGoOnAreSafe

(* A hook that heals, waits or is done. *)
LEMMA HealingKeepsLInv ==
  ASSUME LInv, NEW a \in Actor,
         \/ Transit(a) \/ TakeHealLock(a) \/ HealWait(a) \/ PromptFails(a) \/ Reprobe(a)
         \/ a = "dog" /\ Watchdog
         \/ HealRestart(a) \/ HealThrows(a) \/ PromptRestart(a)
  PROVE  LInv'
<1>1. PICK p \in HealAt \cup {"idle"} : at' = [at EXCEPT ![a] = p]
  BY DEF Transit, TakeHealLock, HealWait, PromptFails, Reprobe, Watchdog, HealRestart, HealThrows,
         PromptRestart, ReleasesHeal, Go, HealAt
<1>2. /\ at[a] \in HealAt \cup {"idle", "transit"}
      /\ UNCHANGED <<files, updateLock, spawnLock, lost>> /\ healLock' \in {healLock, "held", "free"}
  BY DEF Transit, TakeHealLock, HealWait, PromptFails, Reprobe, Watchdog, HealRestart, HealThrows,
         PromptRestart, ReleasesHeal, HealAt, locks
<1>3. /\ NewWorker \/ UNCHANGED <<worker, job>>
      /\ crumb' \in {"none", "booting", "rebooting", "updating"} /\ faults' \in Nat
  <2>1. CASE HealRestart(a) \/ PromptRestart(a)
    BY <2>1, RestartedEffect DEF HealRestart, PromptRestart, LInv
  <2>2. CASE HealThrows(a)
    BY <2>2, RestartThrowsEffect DEF HealThrows, BootMark, LInv, Typed, LifeTypeOK
  <2>3. CASE \/ Transit(a) \/ TakeHealLock(a) \/ HealWait(a) \/ PromptFails(a) \/ Reprobe(a) \/ Watchdog
    BY <2>3 DEF Transit, TakeHealLock, HealWait, PromptFails, Reprobe, Watchdog, LInv, Typed, LifeTypeOK
  <2>4. QED
    BY <2>1, <2>2, <2>3
<1>4. /\ worker' \in [st : {"none", "booting", "up", "busy", "deaf"}, code : Release]
      /\ job' \in [Actor -> Job] /\ UpIsGood'
      /\ \A b \in Actor : /\ job'[b].prior = job[b].prior
                          /\ \/ job'[b].before = job[b].before /\ worker'.code = worker.code
                             \/ job'[b].before # "this" /\ worker'.code = checkout
  BY <1>3, WorkerChangesAreSafe
<1>5. /\ at' \in [Actor -> PassAt \cup HealAt \cup {"idle", "begin", "look", "transit"}]
      /\ \A b \in Actor : at[b] \in PassAt \/ at'[b] \in PassAt => at'[b] = at[b]
  BY <1>1, <1>2 DEF LInv, Typed, LifeTypeOK, HealAt, PassAt
<1>6. Typed'
  BY <1>2, <1>3, <1>4, <1>5 DEF LInv, Typed, LifeTypeOK, files, LockState, Job
<1>7. PassesGoOn
  BY <1>2, <1>4, <1>5 DEF PassesGoOn, files
<1>8. QED
  BY <1>6, <1>7, PassesThatGoOnAreSafe

-----------------------------------------------------------------------------
(* The steps of a pass. *)

(* What the one pass does to the checkout decides; every other process is
   outside, and stays there. *)
LEMMA OnePassMoves ==
  ASSUME LInv, Typed', UpIsGood', NEW a \in InPass, NEW p, at' = [at EXCEPT ![a] = p], due' = due,
         ~lost' /\ p \in PassAt => PassIsSafe(a)',
         ~lost' /\ p \notin PassAt => checkout' \in Boots
  PROVE  LInv'
<1>1. InPass = {a} /\ a \in Actor
  BY DEF LInv, PassesAreOne, InPass
<1>2. at \in [Actor -> PassAt \cup HealAt \cup {"idle", "begin", "look", "transit"}]
  BY DEF LInv, Typed, LifeTypeOK
<1>3. InPass' = IF p \in PassAt THEN {a} ELSE {}
  <2>1. at'[a] = p /\ \A b \in Actor \ {a} : at'[b] = at[b] /\ at[b] \notin PassAt
    BY <1>1, <1>2 DEF InPass
  <2>2. \A b : b \in InPass' <=> b = a /\ p \in PassAt
    BY <1>1, <2>1 DEF InPass
  <2>3. QED
    BY <2>2
<1>4. ~due /\ ~due'
  BY <1>1 DEF LInv, DueIsIdle
<1>5. DueIsIdle' /\ PassesAreOne' /\ PassesAreSafe'
  BY <1>3, <1>4 DEF DueIsIdle, PassesAreOne, PassesAreSafe
<1>6. QED
  BY <1>5 DEF LInv

(* A pass begins only when the check is due, and then it is the only one. *)
LEMMA EnterPassKeepsLInv ==
  ASSUME LInv, NEW a \in Actor, EnterPass(a)
  PROVE  LInv'
<1>1. /\ at[a] = "begin" /\ job[a].next \in {"idle", "look"}
      /\ UNCHANGED <<host, published, checkout, worker, crumb, healLock, spawnLock, skipped, job,
                     faults, lost>>
  BY DEF EnterPass, LInv, Typed, Job
<1>2. at \in [Actor -> PassAt \cup HealAt \cup {"idle", "begin", "look", "transit"}]
  BY DEF LInv, Typed, LifeTypeOK
<1>3. CASE due /\ CanTake(updateLock)
  <2>1. updateLock' = "held" /\ due' = FALSE /\ at' = [at EXCEPT ![a] = "fetch"]
    BY <1>3 DEF EnterPass, Claimed, Go
  <2>2. at' \in [Actor -> PassAt \cup HealAt \cup {"idle", "begin", "look", "transit"}]
    BY <1>2, <2>1 DEF PassAt
  <2>3. Typed'
    BY <1>1, <2>1, <2>2 DEF LInv, Typed, LifeTypeOK, LockState
  <2>4. InPass = {}
    BY <1>3 DEF LInv, DueIsIdle
  <2>5. at'[a] = "fetch" /\ \A b \in Actor \ {a} : at'[b] = at[b] /\ at[b] \notin PassAt
    BY <1>2, <2>1, <2>4 DEF InPass
  <2>6. InPass' = {a}
    <3>1. \A b : b \in InPass' <=> b = a
      BY <2>5 DEF InPass, PassAt
    <3>2. QED
      BY <3>1
  <2>7. PassesAreSafe'
    BY <1>1, <2>4, <2>5, <2>6 DEF LInv, PassesAreSafe, PassIsSafe
  <2>8. DueIsIdle' /\ PassesAreOne' /\ UpIsGood'
    BY <1>1, <2>1, <2>6 DEF DueIsIdle, PassesAreOne, UpIsGood, LInv
  <2>9. QED
    BY <2>3, <2>7, <2>8 DEF LInv
<1>4. CASE ~(due /\ CanTake(updateLock))
  <2>1. at' = [at EXCEPT ![a] = job[a].next] /\ UNCHANGED <<updateLock, due>>
    BY <1>4 DEF EnterPass, Go
  <2>2. /\ at' \in [Actor -> PassAt \cup HealAt \cup {"idle", "begin", "look", "transit"}]
        /\ \A b \in Actor : at[b] \in PassAt \/ at'[b] \in PassAt => at'[b] = at[b]
    BY <1>1, <1>2, <2>1 DEF PassAt
  <2>3. Typed'
    BY <1>1, <2>1, <2>2 DEF LInv, Typed, LifeTypeOK
  <2>4. PassesGoOn
    BY <1>1, <2>1, <2>2 DEF PassesGoOn, LInv, UpIsGood
  <2>5. QED
    BY <2>3, <2>4, PassesThatGoOnAreSafe
<1>5. QED
  BY <1>3, <1>4

(* The steps that leave the process alone: the merge, the announcement, the
   deadline and the rollback, and the ways a pass ends. *)
LEMMA PassKeepsLInv ==
  ASSUME LInv, NEW a \in Actor,
         \/ FindsNothing(a) \/ Merge(a) \/ Announce(a) \/ NewProcess(a) \/ BootTimesOut(a)
         \/ RollBack(a) \/ RollbackTimesOut(a)
  PROVE  LInv'
<1>1. at[a] \in PassAt /\ a \in InPass /\ UNCHANGED <<worker, due, healLock, spawnLock, host, published>>
  BY DEF FindsNothing, Merge, Announce, NewProcess, BootTimesOut, RollBack, RollbackTimesOut, InPass,
         PassAt, files, locks
<1>2. /\ at \in [Actor -> PassAt \cup HealAt \cup {"idle", "begin", "look", "transit"}]
      /\ job \in [Actor -> Job] /\ job[a] \in Job /\ job[a].next \in {"idle", "look"}
      /\ checkout \in Release /\ published \in Release /\ skipped \in 0..MaxRelease
      /\ job[a].prior \in Release /\ job[a].to \in Release /\ faults \in Nat /\ lost \in BOOLEAN
  BY DEF LInv, Typed, LifeTypeOK, Job
<1>3. UpIsGood'
  BY <1>1 DEF UpIsGood, LInv
<1>4. ~lost => PassIsSafe(a)
  BY <1>1 DEF LInv, PassesAreSafe
<1>5. ASSUME NEW p \in PassAt \cup {"idle", "look"}, NEW j \in Job,
             at' = [at EXCEPT ![a] = p], job' = [job EXCEPT ![a] = j],
             checkout' \in Release, skipped' \in 0..MaxRelease, updateLock' \in LockState,
             crumb' \in {"none", "booting", "rebooting", "updating"}, faults' \in Nat, lost' \in BOOLEAN
      PROVE  Typed' /\ at'[a] = p /\ job'[a] = j
  <2>1. /\ at' \in [Actor -> PassAt \cup HealAt \cup {"idle", "begin", "look", "transit"}]
        /\ job' \in [Actor -> Job]
    BY <1>2, <1>5
  <2>2. at'[a] = p /\ job'[a] = j
    BY <1>2, <1>5
  <2>3. QED
    BY <1>1, <1>5, <2>1, <2>2 DEF LInv, Typed, LifeTypeOK, Job
<1>6. updateLock \in LockState /\ crumb \in {"none", "booting", "rebooting", "updating"}
  BY DEF LInv, Typed, LifeTypeOK
<1>7. CASE FindsNothing(a)
  <2>1. /\ at[a] = "fetch" /\ at' = [at EXCEPT ![a] = job[a].next] /\ updateLock' = "free"
        /\ UNCHANGED <<checkout, skipped, crumb, job, faults, lost>>
    BY <1>7 DEF FindsNothing, LeavePass, Go, files
  <2>2. job' = [job EXCEPT ![a] = job[a]]
    BY <1>2, <2>1
  <2>3. Typed'
    BY <1>2, <1>5, <1>6, <2>1, <2>2 DEF LockState
  <2>4. ~lost' => checkout' \in Boots
    BY <1>4, <2>1 DEF PassIsSafe
  <2>5. job[a].next \notin PassAt
    BY <1>2 DEF PassAt
  <2>6. QED
    BY <1>1, <1>3, <2>1, <2>3, <2>4, <2>5, OnePassMoves
<1>8. CASE Merge(a)
  <2>1. PICK j : j = [job[a] EXCEPT !.prior = checkout, !.to = published]
    OBVIOUS
  <2>2. /\ at[a] = "fetch" /\ at' = [at EXCEPT ![a] = "announce"] /\ checkout' = published
        /\ job' = [job EXCEPT ![a] = j]
        /\ UNCHANGED <<skipped, crumb, updateLock, faults, lost>>
    BY <1>8, <1>2, <2>1 DEF Merge, Go, Prior, locks
  <2>3. j \in Job /\ j.prior = checkout
    BY <1>2, <2>1 DEF Job
  <2>4. Typed' /\ at'[a] = "announce" /\ job'[a] = j
    BY <1>2, <1>5, <1>6, <2>2, <2>3 DEF PassAt
  <2>5. ~lost' => PassIsSafe(a)'
    BY <1>4, <2>2, <2>3, <2>4 DEF PassIsSafe
  <2>6. QED
    BY <1>1, <1>3, <2>2, <2>4, <2>5, OnePassMoves DEF PassAt
<1>9. CASE Announce(a)
  <2>1. PICK j : j = [job[a] EXCEPT !.before = Instance]
    OBVIOUS
  <2>2. /\ at[a] = "announce" /\ at' = [at EXCEPT ![a] = "restart"] /\ crumb' = "updating"
        /\ job' = [job EXCEPT ![a] = j]
        /\ UNCHANGED <<checkout, skipped, updateLock, faults, lost>>
    BY <1>9, <2>1 DEF Announce, Go, files, locks
  <2>3. j \in Job /\ j.prior = job[a].prior /\ j.before \in {"null", "this"}
    BY <1>2, <2>1 DEF Job, Instance
  <2>4. Typed' /\ at'[a] = "restart" /\ job'[a] = j
    BY <1>2, <1>5, <1>6, <2>2, <2>3 DEF PassAt
  <2>5. ~lost' => PassIsSafe(a)'
    BY <1>4, <2>2, <2>3, <2>4 DEF PassIsSafe
  <2>6. QED
    BY <1>1, <1>3, <2>2, <2>4, <2>5, OnePassMoves DEF PassAt
<1>10. CASE NewProcess(a) \/ RollbackTimesOut(a)
  <2>1. PICK j : j = [NoJob EXCEPT !.ver = job[a].ver, !.upd = TRUE, !.seen = Served]
    OBVIOUS
  <2>2. /\ at[a] = "await2" \/ (at[a] = "await" /\ SeesNew(a))
        /\ at' = [at EXCEPT ![a] = job[a].next] /\ updateLock' = "free"
        /\ job' = [job EXCEPT ![a] = j] /\ crumb' \in {crumb, "none"}
        /\ UNCHANGED <<checkout, skipped, lost>> /\ faults' \in Nat
    BY <1>2, <1>10, <2>1 DEF NewProcess, RollbackTimesOut, Gives, LeavePass, Go, files
  <2>3. j \in Job
    <3>1. NoJob \in Job /\ Served \in 0..MaxRelease
      BY NoJobIsJob, ServedIsRelease DEF LInv
    <3>2. QED
      BY <1>2, <2>1, <3>1 DEF Job
  <2>4. Typed'
    BY <1>2, <1>5, <1>6, <2>2, <2>3 DEF LockState
  <2>5. ~lost' => checkout' \in Boots
    <3>1. at[a] = "await" /\ SeesNew(a) /\ ~lost => worker.code = checkout /\ worker.code \in Boots
      BY <1>4 DEF PassIsSafe, SeesNew, Alive, LInv, UpIsGood
    <3>2. QED
      BY <1>4, <2>2, <3>1 DEF PassIsSafe
  <2>6. job[a].next \notin PassAt
    BY <1>2 DEF PassAt
  <2>7. QED
    BY <1>1, <1>3, <2>2, <2>4, <2>5, <2>6, OnePassMoves
<1>11. CASE BootTimesOut(a)
  <2>1. /\ at[a] = "await" /\ at' = [at EXCEPT ![a] = "rollback"]
        /\ UNCHANGED <<checkout, skipped, crumb, updateLock, job, lost>> /\ faults' \in Nat
    BY <1>2, <1>11 DEF BootTimesOut, Gives, Go, files, locks
  <2>2. job' = [job EXCEPT ![a] = job[a]]
    BY <1>2, <2>1
  <2>3. Typed' /\ at'[a] = "rollback" /\ job'[a] = job[a]
    BY <1>2, <1>5, <1>6, <2>1, <2>2 DEF PassAt
  <2>4. ~lost' => PassIsSafe(a)'
    BY <1>4, <2>1, <2>3 DEF PassIsSafe
  <2>5. QED
    BY <1>1, <1>3, <2>1, <2>3, <2>4, OnePassMoves DEF PassAt
<1>12. CASE RollBack(a)
  <2>1. PICK j : j = [job[a] EXCEPT !.before = Instance]
    OBVIOUS
  <2>2. /\ at[a] = "rollback" /\ at' = [at EXCEPT ![a] = "restart2"]
        /\ skipped' = job[a].to /\ crumb' = "updating" /\ job' = [job EXCEPT ![a] = j]
        /\ UNCHANGED updateLock /\ faults' \in Nat
        /\ \/ checkout' = job[a].prior /\ lost' = lost
           \/ checkout' = checkout /\ lost' = TRUE
    BY <1>2, <1>12, <2>1 DEF RollBack, Go, locks
  <2>3. j \in Job
    BY <1>2, <2>1 DEF Job, Instance
  <2>4. job[a].to \in 0..MaxRelease
    BY <1>2 DEF Release
  <2>5. Typed' /\ at'[a] = "restart2" /\ job'[a] = j
    BY <1>2, <1>5, <1>6, <2>2, <2>3, <2>4 DEF PassAt
  <2>6. ~lost' => PassIsSafe(a)'
    BY <1>4, <2>2, <2>5 DEF PassIsSafe
  <2>7. QED
    BY <1>1, <1>3, <2>2, <2>5, <2>6, OnePassMoves DEF PassAt
<1>13. QED
  BY <1>7, <1>8, <1>9, <1>10, <1>11, <1>12
(* A restart that is done brings a worker on the code of the checkout; one that
   silently is not leaves the worker the pass has read, or none to compare with. *)
LEMMA PassRestartKeepsLInv ==
  ASSUME LInv, NEW a \in Actor, PassRestart(a)
  PROVE  LInv'
<1>1. PICK p \in {"await", "await2"} :
        /\ at' = [at EXCEPT ![a] = p]
        /\ at[a] = IF p = "await" THEN "restart" ELSE "restart2"
  BY DEF PassRestart, Go
<1>2. /\ UNCHANGED <<files, locks>> /\ a \in InPass
      /\ lost' = (lost \/ (faults' # faults /\ job[a].before = "null"))
  BY DEF PassRestart, InPass, PassAt
<1>3. /\ NewWorker \/ UNCHANGED <<worker, job>>
      /\ crumb' \in {"none", "booting", "rebooting", "updating"} /\ faults' \in Nat
      /\ faults' = faults => NewWorker
      /\ faults' # faults => UNCHANGED <<worker, job>>
  BY RestartedEffect DEF PassRestart, LInv
<1>4. /\ worker' \in [st : {"none", "booting", "up", "busy", "deaf"}, code : Release]
      /\ job' \in [Actor -> Job] /\ UpIsGood' /\ job'[a].prior = job[a].prior
  BY <1>3, WorkerChangesAreSafe
<1>5. /\ at' \in [Actor -> PassAt \cup HealAt \cup {"idle", "begin", "look", "transit"}]
      /\ at'[a] = p
  BY <1>1 DEF LInv, Typed, LifeTypeOK, PassAt
<1>6. Typed'
  <2>1. lost' \in BOOLEAN
    BY <1>2 DEF LInv, Typed
  <2>2. QED
    BY <1>2, <1>3, <1>4, <1>5, <2>1 DEF LInv, Typed, LifeTypeOK, files, locks, Job
<1>7. ASSUME ~lost' PROVE PassIsSafe(a)'
  <2>1. PassIsSafe(a) /\ checkout' = checkout /\ (faults' # faults => job[a].before # "null")
    BY <1>2, <1>7 DEF LInv, PassesAreSafe, files
  <2>2. CASE p = "await2"
    BY <1>1, <1>5, <2>1, <2>2 DEF PassIsSafe
  <2>3. CASE p = "await" /\ faults' = faults
    <3>1. worker'.code = checkout
      BY <1>3, <2>3 DEF NewWorker
    <3>2. QED
      BY <1>1, <1>4, <1>5, <2>1, <2>3, <3>1 DEF PassIsSafe
  <2>4. CASE p = "await" /\ faults' # faults
    <3>1. worker' = worker /\ job' = job /\ job[a].before \in {"this", "older"}
      BY <1>3, <2>1, <2>4 DEF LInv, Typed, LifeTypeOK
    <3>2. QED
      BY <1>1, <1>5, <2>1, <2>4, <3>1 DEF PassIsSafe
  <2>5. QED
    BY <1>1, <2>2, <2>3, <2>4
<1>8. QED
  BY <1>1, <1>2, <1>4, <1>6, <1>7, OnePassMoves DEF PassAt, files

(* A pass that is cut short counts as lost, unless the checkout is where it
   would come back to. *)
LEMMA CutPassKeepsLInv ==
  ASSUME LInv, NEW a \in Actor, PassRestartThrows(a) \/ (Killed(a) /\ at[a] \in PassAt)
  PROVE  LInv'
<1>1. PICK p \in {"idle", "look"} : at' = [at EXCEPT ![a] = p]
  BY DEF PassRestartThrows, Killed, LeavePass, Go, LInv, Typed, Job
<1>2. /\ UNCHANGED <<files, healLock, spawnLock>> /\ updateLock' \in {updateLock, "free"} /\ a \in InPass
      /\ crumb' \in {crumb, "none"}
      /\ lost' = (lost \/ (at[a] # "fetch" /\ checkout # job[a].prior))
  BY DEF PassRestartThrows, Killed, LeavePass, InPass, PassAt, files, locks
<1>3. (NewWorker \/ UNCHANGED <<worker, job>>) /\ faults' \in Nat
  <2>1. CASE PassRestartThrows(a)
    BY <2>1, RestartThrowsEffect DEF PassRestartThrows, LInv
  <2>2. CASE Killed(a)
    BY <2>2 DEF Killed, LInv, Typed
  <2>3. QED
    BY <2>1, <2>2
<1>4. /\ worker' \in [st : {"none", "booting", "up", "busy", "deaf"}, code : Release]
      /\ job' \in [Actor -> Job] /\ UpIsGood'
  BY <1>3, WorkerChangesAreSafe
<1>5. at' \in [Actor -> PassAt \cup HealAt \cup {"idle", "begin", "look", "transit"}]
  BY <1>1 DEF LInv, Typed, LifeTypeOK
<1>6. Typed'
  <2>1. lost' \in BOOLEAN
    BY <1>2 DEF LInv, Typed
  <2>2. QED
    BY <1>2, <1>3, <1>4, <1>5, <2>1 DEF LInv, Typed, LifeTypeOK, files, LockState, Job
<1>7. ASSUME ~lost' PROVE checkout' \in Boots
  <2>1. PassIsSafe(a) /\ checkout' = checkout /\ (at[a] = "fetch" \/ checkout = job[a].prior)
    BY <1>2, <1>7 DEF LInv, PassesAreSafe, files
  <2>2. at[a] \in PassAt
    BY <1>2 DEF InPass
  <2>3. QED
    BY <2>1, <2>2 DEF PassIsSafe, PassAt
<1>8. QED
  BY <1>1, <1>2, <1>4, <1>6, <1>7, OnePassMoves DEF PassAt, files

(* A process outside a pass that is killed takes only its place with it. *)
LEMMA KilledKeepsLInv ==
  ASSUME LInv, NEW a \in Actor, Killed(a), at[a] \notin PassAt
  PROVE  LInv'
<1>1. /\ at' = [at EXCEPT ![a] = "idle"] /\ faults' \in Nat
      /\ UNCHANGED <<files, worker, crumb, locks, job>>
  BY DEF Killed, Go, LInv, Typed
<1>2. lost' = lost
  <2>1. lost' = (lost \/ FALSE) /\ lost \in BOOLEAN
    BY DEF Killed, LInv, Typed
  <2>2. QED
    BY <2>1
<1>3. /\ at' \in [Actor -> PassAt \cup HealAt \cup {"idle", "begin", "look", "transit"}]
      /\ \A b \in Actor : at[b] \in PassAt \/ at'[b] \in PassAt => at'[b] = at[b]
  BY <1>1 DEF LInv, Typed, LifeTypeOK, PassAt
<1>4. Typed'
  BY <1>1, <1>2, <1>3 DEF LInv, Typed, LifeTypeOK, files, locks
<1>5. PassesGoOn
  BY <1>1, <1>2, <1>3 DEF PassesGoOn, files, LInv, UpIsGood
<1>6. QED
  BY <1>4, <1>5, PassesThatGoOnAreSafe

-----------------------------------------------------------------------------
(* The invariant. *)

LEMMA InitEstablishesLInv == LifeInit => LInv
<1> SUFFICES ASSUME LifeInit PROVE LInv
  OBVIOUS
<1>1. 1 \in Release /\ 1 \in Boots /\ MaxRelease \in Nat /\ MaxFaults \in Nat
  BY ReleaseAssumption, ActorAssumption DEF Release
<1>2. NoJob \in Job /\ NoJob.prior = 1 /\ NoJob.before = "null"
  BY NoJobIsJob DEF NoJob
<1>3. /\ at \in [Actor -> PassAt \cup HealAt \cup {"idle", "begin", "look", "transit"}]
      /\ job \in [Actor -> Job]
      /\ \A a \in Actor : at[a] = "idle" /\ job[a].prior \in Release /\ job[a].before \in {"null", "this", "older"}
  BY <1>1, <1>2 DEF LifeInit
<1>4. Typed
  <2>1. worker \in [st : {"none", "booting", "up", "busy", "deaf"}, code : Release]
    BY <1>1 DEF LifeInit
  <2>2. published \in Release /\ checkout \in Release /\ skipped \in 0..MaxRelease
    BY <1>1 DEF LifeInit
  <2>3. crumb \in {"none", "booting", "rebooting", "updating"} /\ {healLock, updateLock, spawnLock} \subseteq LockState
    BY DEF LifeInit, LockState
  <2>4. host \in {"linux", "win32"} /\ due \in BOOLEAN /\ lost \in BOOLEAN /\ faults \in Nat
    BY <1>1 DEF LifeInit
  <2>5. QED
    BY <1>3, <2>1, <2>2, <2>3, <2>4 DEF Typed, LifeTypeOK
<1>5. InPass = {}
  BY <1>3 DEF InPass, PassAt
<1>6. checkout \in Boots /\ UpIsGood
  BY <1>1 DEF LifeInit, UpIsGood
<1>7. QED
  BY <1>4, <1>5, <1>6 DEF LInv, DueIsIdle, PassesAreOne, PassesAreSafe

LEMMA NextKeepsLInv == LInv /\ [LifeNext]_lifeVars => LInv'
<1> SUFFICES ASSUME LInv, [LifeNext]_lifeVars PROVE LInv'
  OBVIOUS
<1>1. ASSUME NEW s \in Session, StartSession(s) \/ PromptServed(s) \/ PromptFails(s)
      PROVE  LInv'
  <2>1. s \in Actor
    BY DEF Actor
  <2>2. QED
    BY <1>1, <2>1, BeginningsKeepLInv, HealingKeepsLInv
<1>2. ASSUME NEW a \in Actor, PassStep(a)
      PROVE  LInv'
  BY <1>2, EnterPassKeepsLInv, PassKeepsLInv, PassRestartKeepsLInv, CutPassKeepsLInv DEF PassStep
<1>3. ASSUME NEW a \in Actor, Look(a)
      PROVE  LInv'
  BY <1>3, BeginningsKeepLInv
<1>4. ASSUME NEW a \in Actor,
             \/ Transit(a) \/ TakeHealLock(a) \/ HealRestart(a) \/ HealThrows(a) \/ HealWait(a)
             \/ Reprobe(a) \/ PromptRestart(a)
      PROVE  LInv'
  BY <1>4, HealingKeepsLInv
<1>5. ASSUME NEW a \in Actor, Killed(a)
      PROVE  LInv'
  BY <1>5, KilledKeepsLInv, CutPassKeepsLInv
<1>6. CASE Watchdog
  <2>1. "dog" \in Actor
    BY DEF Actor
  <2>2. QED
    BY <1>6, <2>1, HealingKeepsLInv
<1>7. CASE OperatorRestarts \/ ProcessStep \/ Stall \/ Fails
  BY <1>7, RestartsKeepLInv, ProcessKeepsLInv DEF ProcessStep
<1>8. CASE \/ HealLockExpires \/ UpdateLockExpires \/ SpawnLockExpires \/ CrumbExpires \/ CheckDue \/ Publish
  BY <1>8, TimersKeepLInv
<1>9. CASE UNCHANGED lifeVars
  <2>1. Typed'
    BY <1>9 DEF lifeVars, LInv, Typed, LifeTypeOK
  <2>2. PassesGoOn
    BY <1>9 DEF lifeVars, PassesGoOn, LInv, UpIsGood
  <2>3. QED
    BY <2>1, <2>2, PassesThatGoOnAreSafe
<1>10. QED
  BY <1>1, <1>2, <1>3, <1>4, <1>5, <1>6, <1>7, <1>8, <1>9 DEF LifeNext, HookStep

LEMMA LifeInvariance == LifeSpec => []LInv
  BY InitEstablishesLInv, NextKeepsLInv, PTL DEF LifeSpec

(* Every reachable state has the types the model declares. *)
THEOREM LifeTypeCorrect == LifeSpec => []LifeTypeOK
<1>1. LInv => LifeTypeOK
  BY DEF LInv, Typed
<1>2. QED
  BY <1>1, LifeInvariance, PTL

-----------------------------------------------------------------------------
(* The restart a pass ends in, on each platform. *)

(* Whatever a service's earlier operations left behind, a restart that does not
   throw leaves a new process, which the supervisor sees running. *)
LEMMA RestartsReplace ==
  ASSUME NEW p \in Platform, NEW s \in States(p), s.unit
  PROVE  /\ Restart(p, s) # {}
         /\ \A t \in Restart(p, s) : t.proc = "new" /\ Status(p, t) = "running"
<1>1. s \in Service
  BY DEF States
<1>2. /\ WithProc(s, "new").proc = "new"
      /\ WithProc(s, "new").loaded = s.loaded /\ WithProc(s, "none").unit = s.unit
      /\ WithProc(s, "none").loaded = s.loaded /\ WithProc(s, "none").proc = "none"
      /\ WithProc(s, "none") \in Service
  BY <1>1 DEF WithProc, Service
<1>3. CASE p = "linux"
  <2>1. Restart(p, s) = {WithProc(s, "new")}
    BY <1>3 DEF Restart
  <2>2. s.loaded
    BY <1>3 DEF States
  <2>3. QED
    BY <1>2, <2>1, <2>2 DEF Status
<1>4. CASE p = "win32"
  <2>1. Stop(p, s, TRUE) = {WithProc(s, "none")}
    BY <1>4 DEF Stop, TaskEnded
  <2>2. PICK t : t = WithProc(WithProc(s, "none"), "new")
    OBVIOUS
  <2>3. t.proc = "new" /\ t.loaded = s.loaded
    BY <1>2, <2>2 DEF WithProc, Service
  <2>4. Start(p, WithProc(s, "none")) = {t}
    BY <1>2, <1>4, <2>2 DEF Start, Launched
  <2>5. Restart(p, s) = {t}
    BY <1>4, <2>1, <2>4 DEF Restart
  <2>6. s.loaded
    BY <1>4 DEF States
  <2>7. QED
    BY <2>3, <2>5, <2>6 DEF Status
<1>5. CASE p = "darwin"
  <2>1. CASE s.loaded
    <3>1. Restart(p, s) = {WithProc(s, "new")}
      BY <1>5, <2>1 DEF Restart
    <3>2. QED
      BY <1>2, <2>1, <3>1 DEF Status
  <2>2. CASE ~s.loaded
    <3>1. s.proc = "none"
      BY <1>1, <1>5, <2>2 DEF States, Service
    <3>2. PICK l : l = [s EXCEPT !.loaded = TRUE]
      OBVIOUS
    <3>3. l.proc = "none" /\ l.loaded = TRUE /\ l \in Service
      BY <1>1, <3>1, <3>2 DEF Service
    <3>4. Restart(p, s) = {WithProc(l, "new")}
      BY <1>5, <2>2, <3>2, <3>3 DEF Restart, Start, Launched
    <3>5. WithProc(l, "new").proc = "new" /\ WithProc(l, "new").loaded = TRUE
      BY <3>3 DEF WithProc, Service
    <3>6. QED
      BY <3>4, <3>5 DEF Status
  <2>3. QED
    BY <2>1, <2>2
<1>6. QED
  BY <1>3, <1>4, <1>5 DEF Platform

(* The checkout is changed by one pass at a time, a finished pass leaves a release
   there whose worker comes up, and the restart it ends in replaces the process:
   whichever locks go stale, whoever restarts or kills what meanwhile. *)
THEOREM UpdatesAreSafe == LifeSpec => []ReleasesAreSafe
<1>1. LInv => OnePassAtATime
  <2> SUFFICES ASSUME LInv PROVE Cardinality(InPass) <= 1
    BY DEF OnePassAtATime
  <2>1. CASE InPass = {}
    BY <2>1, FS_EmptySet
  <2>2. CASE InPass # {}
    <3>1. PICK a : a \in InPass
      BY <2>2
    <3>2. InPass = {a}
      BY <3>1 DEF LInv, PassesAreOne
    <3>3. QED
      BY <3>2, FS_Singleton
  <2>3. QED
    BY <2>1, <2>2
<1>2. LInv => BadReleaseIsRolledBack
  BY DEF LInv, PassesAreSafe, BadReleaseIsRolledBack
<1>3. LInv => RestartReplacesTheWorker
  BY RestartsReplace DEF LInv, Typed, RestartReplacesTheWorker, Platform
<1>4. QED
  BY <1>1, <1>2, <1>3, LifeInvariance, PTL DEF ReleasesAreSafe
=============================================================================
