---------------------------- MODULE ThreadedWorker ----------------------------
(***************************************************************************)
(* The threaded worker (src/worker/threaded-main.ts, thread-channel.ts,    *)
(* reader-pool.ts, engine-supervisor.ts, route-class.ts).  A thin main     *)
(* thread answers HTTP by handing each request to another thread: writes   *)
(* to the one writer engine, reads to one of a pool of readers.  A thread  *)
(* may crash at any moment; main learns of it from an error event, rejects *)
(* what it was waiting for and starts another within a crash budget.  Main *)
(* gives up waiting for a thread after a deadline, which does not stop the *)
(* thread.  An engine that never comes up is replaced by the               *)
(* single-threaded worker.                                                 *)
(*                                                                         *)
(* Main runs one handler at a time: what it does between two awaits is one *)
(* step.  Heartbeat freshness and /health, the counters merged into /stats *)
(* and the relayed retrieval bumps are not modelled.  A thread raises one  *)
(* error event when it crashes, and none after terminate().                *)
(***************************************************************************)
EXTENDS Integers, FiniteSets, Functions

CONSTANTS
  Writer,      \* the writer engine, through all its respawns
  Reader,      \* the readers of the pool, each through all its respawns
  Request,     \* HTTP requests
  Reads,       \* those classifyRoute calls 'read'
  ListedWrites,\* those of IN_FLIGHT_ON_TIMEOUT paths
  MaxCrashes,  \* maxInWindow
  MaxDeaths,   \* bound: how many threads crash
  None

ASSUME LineageAssumption == Writer \notin Reader /\ IsFiniteSet(Reader)
ASSUME RequestAssumption ==
  Reads \subseteq Request /\ ListedWrites \subseteq Request \ Reads
ASSUME LimitAssumption == MaxCrashes \in Nat /\ MaxDeaths \in Nat

VARIABLES
  mode,          \* "starting", "threaded", "single" (the fallback) or "stopped"
  everBeat,      \* the engine has sent a heartbeat
  running,       \* threads that are alive
  fallen,        \* threads that crashed, their error event not yet handled
  spawned,       \* threads started so far, of each kind
  deaths,        \* threads that crashed so far
  engine,        \* main's reference to the writer (and its channel)
  readerWorkers, \* main's readers
  pool,          \* ready readers, with their requests in flight
  liveReaders,
  crashes,       \* SupervisorState: crashes inside the window
  respawns,      \* history: respawns inside the window
  req

vars == <<mode, everBeat, running, fallen, spawned, deaths, engine,
          readerWorkers, pool, liveReaders, crashes, respawns, req>>
threadVars == <<running, fallen, spawned, deaths, engine, readerWorkers, liveReaders, crashes, respawns>>

Lineage == Reader \cup {Writer}
Thread == Lineage \X (1..(MaxDeaths + 1))
ASSUME NoneAssumption ==
  None \notin Thread /\ None \notin {"ok", "failed", "in_flight", "saturated", "unavailable"}

Stopped == mode \in {"single", "stopped"}

(* `work` is what became of a request at the thread it was posted to. *)
Req == [phase : {"new", "acquiring", "waiting", "answered"},
        at : Thread \cup {None},
        work : {"none", "posted", "landed"},
        answer : {None, "ok", "failed", "in_flight", "saturated", "unavailable"}]

Init ==
  /\ mode = "starting" /\ everBeat = FALSE
  /\ engine \in {<<Writer, 1>>, None}
  /\ running = {engine} \ {None}
  /\ spawned = [l \in Lineage |-> IF l = Writer THEN 1 ELSE 0]
  /\ deaths = 0 /\ fallen = {} /\ readerWorkers = {} /\ pool = <<>> /\ liveReaders = 0
  /\ crashes = [l \in Lineage |-> 0] /\ respawns = crashes
  /\ req = [r \in Request |-> [phase |-> "new", at |-> None, work |-> "none", answer |-> None]]

-----------------------------------------------------------------------------
(* ReaderPool *)

Members == DOMAIN pool
Acquired(p, t) == [p EXCEPT ![t] = @ + 1]

Released(p, t) == IF t \in DOMAIN p /\ p[t] > 0 THEN [p EXCEPT ![t] = @ - 1] ELSE p
Removed(p, t) == Restrict(p, DOMAIN p \ {t})

(* pick: the readers below their cap of one request. *)
Picked == {t \in Members : pool[t] < 1}

-----------------------------------------------------------------------------
(* Answers *)

Answered(rq, r, a) == [rq EXCEPT ![r].phase = "answered", ![r].answer = a]

(* Main is waiting for an answer of thread t. *)
Waiting(t) == {r \in Request : req[r].phase = "waiting" /\ req[r].at = t}

(* ThreadChannel.rejectAll *)
RejectAll(ts) ==
  [r \in Request |->
     IF req[r].phase = "waiting" /\ req[r].at \in ts
       THEN [req[r] EXCEPT !.phase = "answered", !.answer = "failed"] ELSE req[r]]

Posted(rq, r, t) == [rq EXCEPT ![r].phase = "waiting", ![r].at = t, ![r].work = "posted"]

-----------------------------------------------------------------------------
(* Threads come and go *)

Beat ==
  /\ mode = "starting" /\ ~everBeat /\ engine \in running
  /\ everBeat' = TRUE
  /\ UNCHANGED <<mode, pool, req>> /\ UNCHANGED threadVars

(* The engine beat in time: start the readers, of which some may fail to
   construct, and listen. *)
Listen ==
  /\ mode = "starting" /\ everBeat
  /\ mode' = "threaded"
  /\ \E started \in SUBSET Reader :
       /\ readerWorkers' = started \X {1}
       /\ running' = running \cup (started \X {1})
       /\ liveReaders' = Cardinality(started)
  /\ spawned' = [l \in Lineage |-> IF l \in Reader THEN 1 ELSE spawned[l]]
  /\ UNCHANGED <<everBeat, fallen, deaths, engine, pool, crashes, respawns, req>>

(* No heartbeat when the engine gave up or the startup grace is over, which may
   be at any time: `gaveUp` only ends the wait sooner. *)
FallBack ==
  /\ mode = "starting" /\ ~everBeat
  /\ mode' = "single"
  /\ running' = running \ {engine}
  /\ UNCHANGED <<everBeat, fallen, spawned, deaths, engine, readerWorkers, pool,
                 liveReaders, crashes, respawns, req>>

(* {kind:'ready'} *)
ReaderReady(t) ==
  /\ t \in readerWorkers \cap running
  /\ t \notin Members
  /\ pool' = [x \in Members \cup {t} |-> IF x = t THEN 0 ELSE pool[x]]
  /\ UNCHANGED <<mode, everBeat, req>> /\ UNCHANGED threadVars

Crash(t) ==
  /\ t \in running /\ deaths < MaxDeaths
  /\ deaths' = deaths + 1
  /\ running' = running \ {t}
  /\ fallen' = fallen \cup {t}
  /\ UNCHANGED <<mode, everBeat, spawned, engine, readerWorkers, pool,
                 liveReaders, crashes, respawns, req>>

(* onEngineCrash *)
Crashed(l) == [crashes EXCEPT ![l] = @ + 1]
WithinBudget(l) == crashes[l] + 1 <= MaxCrashes

(* A thread of kind l starts: the next one, or none when its constructor throws. *)
Respawn(l, t) ==
  /\ t = <<l, spawned[l] + 1>>
  /\ WithinBudget(l)
  /\ spawned' = [spawned EXCEPT ![l] = @ + 1]
  /\ respawns' = [respawns EXCEPT ![l] = @ + 1]
NoRespawn(l) ==
  /\ \/ ~WithinBudget(l) /\ UNCHANGED spawned
     \/ WithinBudget(l) /\ spawned' = [spawned EXCEPT ![l] = @ + 1]
  /\ UNCHANGED respawns

(* Mutant: an engine is replaced however the worker ended. *)
DeathConcernsAlways(t) == TRUE

(* The error event is about a thread main still cares for. *)
DeathConcerns(t) == ~Stopped /\ (t[1] # Writer => t \in readerWorkers)

(* An error event of a worker that is stopping, or of a reader already replaced. *)
DeathIgnored(t) ==
  /\ t \in fallen /\ ~DeathConcerns(t)
  /\ fallen' = fallen \ {t}
  /\ UNCHANGED <<mode, everBeat, running, spawned, deaths, engine, readerWorkers, pool,
                 liveReaders, crashes, respawns, req>>

(* handleEngineDeath *)
EngineDies(t) ==
  /\ t \in fallen /\ t[1] = Writer /\ DeathConcerns(t)
  /\ fallen' = fallen \ {t}
  /\ req' = RejectAll({engine})
  /\ crashes' = Crashed(Writer)
  /\ \/ \E w \in Thread :
          /\ Respawn(Writer, w)
          /\ engine' = w
          /\ running' = (running \ {engine}) \cup {w}
     \/ /\ NoRespawn(Writer)
        /\ engine' = None
        /\ running' = running \ {engine}
  /\ UNCHANGED <<mode, everBeat, deaths, readerWorkers, pool, liveReaders>>

OneReaderLess == liveReaders - 1

(* onReaderDeath *)
ReaderDies(t) ==
  /\ t \in fallen /\ t[1] \in Reader /\ DeathConcerns(t)
  /\ fallen' = fallen \ {t}
  /\ req' = RejectAll({t})
  /\ pool' = Removed(pool, t)
  /\ crashes' = Crashed(t[1])
  /\ \/ \E w \in Thread :
          /\ Respawn(t[1], w)
          /\ readerWorkers' = (readerWorkers \ {t}) \cup {w}
          /\ running' = running \cup {w}
          /\ liveReaders' = liveReaders
     \/ /\ NoRespawn(t[1])
        /\ readerWorkers' = readerWorkers \ {t}
        /\ running' = running
        /\ liveReaders' = OneReaderLess
  /\ UNCHANGED <<mode, everBeat, deaths, engine>>

(* The oldest crash of l leaves the window. *)
CrashAges(l) ==
  /\ crashes[l] > 0 \/ respawns[l] > 0
  /\ crashes' = [crashes EXCEPT ![l] = IF @ > 0 THEN @ - 1 ELSE 0]
  /\ respawns' = [respawns EXCEPT ![l] = IF @ > 0 THEN @ - 1 ELSE 0]
  /\ UNCHANGED <<mode, everBeat, running, fallen, spawned, deaths, engine,
                 readerWorkers, pool, liveReaders, req>>

(* WorkerHandle.stop: the pool and its count are left as they are. *)
Stop ==
  /\ mode = "threaded"
  /\ mode' = "stopped"
  /\ req' = RejectAll(readerWorkers \cup {engine})
  /\ pool' = [t \in Members |-> pool[t] - Cardinality(Waiting(t))]
  /\ running' = running \ (readerWorkers \cup {engine})
  /\ readerWorkers' = {}
  /\ UNCHANGED <<everBeat, fallen, spawned, deaths, engine, liveReaders, crashes, respawns>>

-----------------------------------------------------------------------------
(* Requests *)

(* forwardToWriter *)
Forward(r) ==
  /\ req' = IF engine = None THEN Answered(req, r, "unavailable") ELSE Posted(req, r, engine)
  /\ UNCHANGED pool

Arrive(r) ==
  /\ mode = "threaded"
  /\ req[r].phase = "new"
  /\ IF r \in Reads /\ Reader # {}
       THEN req' = [req EXCEPT ![r].phase = "acquiring"] /\ UNCHANGED pool
       ELSE Forward(r)
  /\ UNCHANGED <<mode, everBeat>> /\ UNCHANGED threadVars

(* acquireReader found a reader; after a stop it has no channel any more. *)
Acquire(r) ==
  \E t \in Picked :
    IF t \in readerWorkers
      THEN pool' = Acquired(pool, t) /\ req' = Posted(req, r, t)
      ELSE UNCHANGED pool /\ req' = Answered(req, r, "failed")

(* Mutant: a read that finds every reader busy goes to the writer. *)
SpillWhenBusy(r) == Picked = {} /\ Forward(r)

(* acquireReader: 'empty' *)
Spill(r) == Picked = {} /\ liveReaders = 0 /\ Forward(r)

(* Mutant: the wait for a reader has no deadline. *)
NeverSaturated(r) == FALSE /\ UNCHANGED <<pool, req>>

(* acquireReader: 'saturated', when its deadline has passed *)
Saturated(r) ==
  /\ Picked = {} /\ liveReaders > 0
  /\ req' = Answered(req, r, "saturated")
  /\ UNCHANGED pool

Poll(r) ==
  /\ req[r].phase = "acquiring"
  /\ Acquire(r) \/ Spill(r) \/ Saturated(r)
  /\ UNCHANGED <<mode, everBeat>> /\ UNCHANGED threadVars

(* The thread does what r asks for and posts its response. *)
Execute(r) ==
  /\ req[r].work = "posted" /\ req[r].at \in running
  /\ req' = [req EXCEPT ![r].work = "landed"]
  /\ UNCHANGED <<mode, everBeat, pool>> /\ UNCHANGED threadVars

(* The response arrives; of a request main gave up on it is dropped. *)
Deliver(r) ==
  /\ req[r].phase = "waiting" /\ req[r].work = "landed"
  /\ req' = Answered(req, r, "ok")
  /\ pool' = Released(pool, req[r].at)
  /\ UNCHANGED <<mode, everBeat>> /\ UNCHANGED threadVars

(* Mutant: every write that timed out has failed. *)
TimeoutFailed(r) == "failed"

TimeoutAnswer(r) == IF r \in ListedWrites THEN "in_flight" ELSE "failed"

(* Mutant: a request that timed out is sent again. *)
TimeoutRetries(r) ==
  /\ req[r].phase = "waiting"
  /\ req' = Posted(req, r, req[r].at)
  /\ UNCHANGED pool
  /\ UNCHANGED <<mode, everBeat>> /\ UNCHANGED threadVars

(* thread_rpc_timeout *)
Timeout(r) ==
  /\ req[r].phase = "waiting"
  /\ req' = Answered(req, r, TimeoutAnswer(r))
  /\ pool' = Released(pool, req[r].at)
  /\ UNCHANGED <<mode, everBeat>> /\ UNCHANGED threadVars

-----------------------------------------------------------------------------
ThreadStep ==
  \/ Beat \/ Listen \/ FallBack \/ Stop
  \/ \E t \in Thread : ReaderReady(t) \/ Crash(t) \/ DeathIgnored(t) \/ EngineDies(t) \/ ReaderDies(t)
  \/ \E l \in Lineage : CrashAges(l)

RequestStep ==
  \E r \in Request : Arrive(r) \/ Poll(r) \/ Execute(r) \/ Deliver(r) \/ Timeout(r)

Next == ThreadStep \/ RequestStep

Spec == Init /\ [][Next]_vars

(* Main's own timers run while its process does; nothing is asked of the threads. *)
FairSpec == Spec /\ \A r \in Request : WF_vars(Poll(r)) /\ WF_vars(Timeout(r))

-----------------------------------------------------------------------------
(* Properties *)

TypeOK ==
  /\ mode \in {"starting", "threaded", "single", "stopped"}
  /\ everBeat \in BOOLEAN
  /\ running \subseteq Thread /\ fallen \subseteq Thread
  /\ spawned \in [Lineage -> 0..(MaxDeaths + 1)] /\ deaths \in 0..MaxDeaths
  /\ engine \in Thread \cup {None}
  /\ readerWorkers \subseteq Thread /\ liveReaders \in 0..Cardinality(Reader)
  /\ Members \subseteq Thread /\ pool \in [Members -> 0..1]
  /\ crashes \in [Lineage -> Nat] /\ respawns \in [Lineage -> Nat]
  /\ req \in [Request -> Req]

(* "All bun:sqlite write handles live here": no two writers are alive at once,
   the fallback worker included, and none outlives a stop. *)
AtMostOneWriter ==
  LET writers == {t \in running : t[1] = Writer}
  IN  /\ Cardinality(writers) <= 1
      /\ Stopped => writers = {}

(* A reader's slots are the requests main waits for at it, across timeouts,
   crashes and respawns: none leaks and none is given back twice. *)
SlotsMatchHolders == \A t \in Members : pool[t] = Cardinality(Waiting(t))

(* A read waits for a reader exactly while there is one to wait for. *)
LiveReadersCounted == mode = "threaded" => liveReaders = Cardinality(readerWorkers)

(* What main believes of its threads is so, over every crash, respawn, timeout
   and stop: one writer at most, the readers that live, the slots in use. *)
ThreadsAreAccountedFor == AtMostOneWriter /\ SlotsMatchHolders /\ LiveReadersCounted

(* "WRITE FAILED and WRITE STILL RUNNING must not share a status": a listed
   write is reported failed only when the thread it runs on is gone. *)
RunningWriteIsNotFailed ==
  \A r \in ListedWrites : req[r].answer = "failed" => req[r].at \notin running

(* "We do NOT spill to the writer": a read goes to the writer only when main
   has no reader at all. *)
ReadsStayOffTheWriter ==
  [][\A r \in Reads : req'[r].at # req[r].at /\ req'[r].at[1] = Writer => readerWorkers = {}]_vars

(* Refinement: main keeps the promise of RequestService, whatever becomes of its
   threads.  A request is accepted once `route` has begun with it and carried out
   when its thread is through with it. *)
Service == INSTANCE RequestService WITH
  accepted <- {r \in Request : req[r].phase # "new"},
  carriedOut <- {r \in Request : req[r].work = "landed"},
  answer <- [r \in Request |-> req[r].answer]

(* A caller is answered once and can act on the answer ("WRITE FAILED and WRITE
   STILL RUNNING demand opposite responses from the caller"): nothing is carried
   out twice, nor at all after a 503 for lack of a thread, and a listed write
   reported failed is not carried out behind its caller's back. *)
ImplementsService == Service!Spec

(* Every accepted request gets an answer, whatever becomes of the threads. *)
EveryRequestAnswered ==
  \A r \in Request : req[r].phase # "new" ~> req[r].phase = "answered"
=============================================================================
