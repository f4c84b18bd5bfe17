------------------------ MODULE ThreadedWorkerProofs ------------------------
(***************************************************************************)
(* Machine-checked proofs about ThreadedWorker, for every set of readers   *)
(* and requests, every crash budget and any number of crashes.  IInv says  *)
(* what main's books lean on: a new thread is one nobody has heard of yet, *)
(* the one writer is the engine main knows, and a request waits at the     *)
(* writer or at a reader of the pool whose one slot it holds.              *)
(***************************************************************************)
EXTENDS ThreadedWorker, FiniteSetTheorems, TLAPS

(* The threads main or the operating system has ever named. *)
Known ==
  running \cup fallen \cup readerWorkers \cup Members \cup ({engine} \ {None})
    \cup ({req[r].at : r \in Request} \ {None})

(* The next thread of a kind is none of them. *)
KnownAreOld == \A t \in Known : t[2] <= spawned[t[1]]

FallenAreDead == fallen \cap running = {}

(* The only writer alive is the one main refers to, and none is after the end. *)
WriterIsEngine ==
  /\ engine # None => engine[1] = Writer
  /\ \A t \in running : t[1] = Writer => t = engine /\ ~Stopped

(* Main's readers, and the ready ones among them; a stop lets go of all. *)
ReadersAreMains ==
  /\ \A t \in readerWorkers \cup Members : t[1] \in Reader
  /\ ~Stopped => Members \subseteq readerWorkers
  /\ Stopped => readerWorkers = {}

NoReaderYet == mode = "starting" => \A l \in Reader : spawned[l] = 0

(* A slot in use is held by one request, whoever waits is served by somebody, and
   what is answered is over. *)
SlotsAreHeld ==
  \A t \in Members : /\ pool[t] = 0 => Waiting(t) = {}
                     /\ pool[t] = 1 => \E r \in Request : Waiting(t) = {r}

WaitersAreServed ==
  \A r \in Request : /\ req[r].phase = "waiting" => req[r].at # None
                     /\ req[r].phase = "waiting" /\ req[r].at[1] # Writer => req[r].at \in Members
                     /\ req[r].phase = "acquiring" => r \in Reads
                     /\ req[r].phase # "answered" => req[r].answer = None

(* Each respawn answers one crash, so the bound on crashes bounds the threads. *)
FallenOf(l) == {t \in fallen : t[1] = l}
SpawnsAnswerCrashes == \A l \in Lineage : spawned[l] + Cardinality(FallenOf(l)) <= deaths + 1

IInv ==
  /\ TypeOK
  /\ KnownAreOld
  /\ FallenAreDead
  /\ WriterIsEngine
  /\ ReadersAreMains
  /\ NoReaderYet
  /\ SlotsAreHeld
  /\ WaitersAreServed
  /\ SpawnsAnswerCrashes
  /\ LiveReadersCounted
  /\ RunningWriteIsNotFailed

-----------------------------------------------------------------------------
(* What the helpers on requests and threads do.                            *)

LEMMA ThreadShape ==
  ASSUME NEW t \in Thread
  PROVE  /\ t[1] \in Lineage /\ t[2] \in Nat /\ t[2] >= 1 /\ t[2] <= MaxDeaths + 1
         /\ t = <<t[1], t[2]>> /\ t # None
BY NoneAssumption, LimitAssumption DEF Thread

LEMMA AnsweredEffect ==
  ASSUME req \in [Request -> Req], NEW r \in Request,
         NEW a \in {None, "ok", "failed", "in_flight", "saturated", "unavailable"}
  PROVE  /\ Answered(req, r, a) \in [Request -> Req]
         /\ \A q \in Request \ {r} : Answered(req, r, a)[q] = req[q]
         /\ Answered(req, r, a)[r].phase = "answered" /\ Answered(req, r, a)[r].answer = a
         /\ Answered(req, r, a)[r].at = req[r].at /\ Answered(req, r, a)[r].work = req[r].work
<1>1. PICK x : x = [req[r] EXCEPT !.phase = "answered", !.answer = a]
  OBVIOUS
<1>2. /\ x \in Req /\ x.phase = "answered" /\ x.answer = a
      /\ x.at = req[r].at /\ x.work = req[r].work
  BY <1>1 DEF Req
<1>3. Answered(req, r, a) = [req EXCEPT ![r] = x]
  BY <1>1 DEF Answered
<1>4. QED
  BY <1>2, <1>3

LEMMA PostedEffect ==
  ASSUME req \in [Request -> Req], NEW r \in Request, NEW t \in Thread
  PROVE  /\ Posted(req, r, t) \in [Request -> Req]
         /\ \A q \in Request \ {r} : Posted(req, r, t)[q] = req[q]
         /\ Posted(req, r, t)[r].phase = "waiting" /\ Posted(req, r, t)[r].at = t
         /\ Posted(req, r, t)[r].answer = req[r].answer
<1>1. PICK x : x = [req[r] EXCEPT !.phase = "waiting", !.at = t, !.work = "posted"]
  OBVIOUS
<1>2. x \in Req /\ x.phase = "waiting" /\ x.at = t /\ x.answer = req[r].answer
  BY <1>1 DEF Req
<1>3. Posted(req, r, t) = [req EXCEPT ![r] = x]
  BY <1>1 DEF Posted
<1>4. QED
  BY <1>2, <1>3

LEMMA RejectAllEffect ==
  ASSUME req \in [Request -> Req], NEW ts
  PROVE  /\ RejectAll(ts) \in [Request -> Req]
         /\ \A q \in Request :
              /\ RejectAll(ts)[q].at = req[q].at
              /\ IF req[q].phase = "waiting" /\ req[q].at \in ts
                   THEN RejectAll(ts)[q].phase = "answered" /\ RejectAll(ts)[q].answer = "failed"
                   ELSE RejectAll(ts)[q] = req[q]
BY DEF RejectAll, Req

(* The finite sets that are counted. *)
LEMMA CountsAreFinite ==
  ASSUME TypeOK
  PROVE  /\ IsFiniteSet(Thread) /\ IsFiniteSet(readerWorkers) /\ IsFiniteSet(fallen) /\ IsFiniteSet(running)
         /\ \A l : IsFiniteSet(FallenOf(l))
         /\ Cardinality(readerWorkers) \in Nat /\ Cardinality(Reader) \in Nat
<1>1. IsFiniteSet(Lineage)
  BY LineageAssumption, FS_Singleton, FS_Union DEF Lineage
<1>2. IsFiniteSet(1..(MaxDeaths + 1))
  BY LimitAssumption, FS_Interval
<1>3. IsFiniteSet(Thread)
  BY <1>1, <1>2, FS_Product DEF Thread
<1>4. IsFiniteSet(readerWorkers) /\ IsFiniteSet(fallen) /\ IsFiniteSet(running)
  BY <1>3, FS_Subset DEF TypeOK
<1>5. \A l : IsFiniteSet(FallenOf(l))
  BY <1>4, FS_Subset DEF FallenOf
<1>6. QED
  BY <1>3, <1>4, <1>5, LineageAssumption, FS_CardinalityType

(* The next thread of a kind is nobody's yet. *)
LEMMA NextThreadIsNew ==
  ASSUME TypeOK, KnownAreOld, NEW l \in Lineage
  PROVE  <<l, spawned[l] + 1>> \notin Known
BY DEF KnownAreOld, TypeOK

-----------------------------------------------------------------------------
(* Every action keeps IInv: those of the threads first.                    *)

LEMMA BeatKeepsIInv == IInv /\ Beat => IInv'
<1>1. SUFFICES ASSUME IInv, Beat PROVE IInv'
  OBVIOUS
<1>2. UNCHANGED <<mode, running, fallen, spawned, deaths, engine, readerWorkers, pool, liveReaders, crashes, respawns, req>>
  BY <1>1 DEF Beat, threadVars
<1>3. everBeat' \in BOOLEAN
  BY <1>1 DEF Beat
<1>4. TypeOK'
  BY <1>1, <1>2, <1>3 DEF IInv, TypeOK, Members
<1>5. KnownAreOld' /\ FallenAreDead' /\ WriterIsEngine' /\ ReadersAreMains' /\ NoReaderYet'
  BY <1>1, <1>2 DEF IInv, KnownAreOld, Known, FallenAreDead, WriterIsEngine, ReadersAreMains, NoReaderYet, Members, Stopped
<1>6. SlotsAreHeld' /\ WaitersAreServed' /\ SpawnsAnswerCrashes' /\ LiveReadersCounted' /\ RunningWriteIsNotFailed'
  BY <1>1, <1>2 DEF IInv, SlotsAreHeld, WaitersAreServed, SpawnsAnswerCrashes, FallenOf, LiveReadersCounted,
    RunningWriteIsNotFailed, Members, Waiting
<1>7. QED
  BY <1>4, <1>5, <1>6 DEF IInv

LEMMA CrashKeepsIInv == ASSUME NEW t \in Thread PROVE IInv /\ Crash(t) => IInv'
<1>1. SUFFICES ASSUME IInv, Crash(t) PROVE IInv'
  OBVIOUS
<1>2. /\ UNCHANGED <<mode, everBeat, spawned, engine, readerWorkers, pool, liveReaders, crashes, respawns, req>>
      /\ t \in running /\ running' = running \ {t} /\ fallen' = fallen \cup {t}
      /\ deaths' = deaths + 1 /\ deaths < MaxDeaths
  BY <1>1 DEF Crash
<1>3. TypeOK'
  BY <1>1, <1>2, LimitAssumption DEF IInv, TypeOK, Members
<1>4. KnownAreOld' /\ FallenAreDead' /\ WriterIsEngine' /\ ReadersAreMains' /\ NoReaderYet'
  BY <1>1, <1>2 DEF IInv, KnownAreOld, Known, FallenAreDead, WriterIsEngine, ReadersAreMains, NoReaderYet, Members, Stopped
<1>5. SlotsAreHeld' /\ WaitersAreServed' /\ LiveReadersCounted' /\ RunningWriteIsNotFailed'
  BY <1>1, <1>2 DEF IInv, SlotsAreHeld, WaitersAreServed, LiveReadersCounted, RunningWriteIsNotFailed, Members, Waiting
<1>6. SpawnsAnswerCrashes'
  <2>1. SUFFICES ASSUME NEW l \in Lineage PROVE spawned[l] + Cardinality(FallenOf(l)') <= deaths + 2
    BY <1>1, <1>2 DEF SpawnsAnswerCrashes, IInv, TypeOK
  <2>2. IsFiniteSet(FallenOf(l)) /\ Cardinality(FallenOf(l)) \in Nat
    BY <1>1, CountsAreFinite, FS_CardinalityType DEF IInv
  <2>3. FallenOf(l)' = FallenOf(l) \/ FallenOf(l)' = FallenOf(l) \cup {t}
    BY <1>2 DEF FallenOf
  <2>4. Cardinality(FallenOf(l)') <= Cardinality(FallenOf(l)) + 1
    <3>1. Cardinality(FallenOf(l) \cup {t}) =
            IF t \in FallenOf(l) THEN Cardinality(FallenOf(l)) ELSE Cardinality(FallenOf(l)) + 1
      BY <2>2, FS_AddElement
    <3>2. CASE FallenOf(l)' = FallenOf(l)
      BY <2>2, <3>2
    <3>3. CASE FallenOf(l)' = FallenOf(l) \cup {t}
      BY <2>2, <3>1, <3>3
    <3>4. QED
      BY <2>3, <3>2, <3>3
  <2>5. spawned[l] + Cardinality(FallenOf(l)) <= deaths + 1
    BY <1>1 DEF IInv, SpawnsAnswerCrashes
  <2>6. Cardinality(FallenOf(l)') \in Nat
    BY <2>2, <2>3, FS_AddElement, FS_CardinalityType
  <2>7. QED
    BY <1>1, <2>2, <2>4, <2>5, <2>6 DEF IInv, TypeOK
<1>7. QED
  BY <1>3, <1>4, <1>5, <1>6 DEF IInv

LEMMA DeathIgnoredKeepsIInv == ASSUME NEW t \in Thread PROVE IInv /\ DeathIgnored(t) => IInv'
<1>1. SUFFICES ASSUME IInv, DeathIgnored(t) PROVE IInv'
  OBVIOUS
<1>2. /\ UNCHANGED <<mode, everBeat, running, spawned, deaths, engine, readerWorkers, pool, liveReaders, crashes, respawns, req>>
      /\ fallen' = fallen \ {t}
  BY <1>1 DEF DeathIgnored
<1>3. TypeOK'
  BY <1>1, <1>2 DEF IInv, TypeOK, Members
<1>4. KnownAreOld' /\ FallenAreDead' /\ WriterIsEngine' /\ ReadersAreMains' /\ NoReaderYet'
  BY <1>1, <1>2 DEF IInv, KnownAreOld, Known, FallenAreDead, WriterIsEngine, ReadersAreMains, NoReaderYet, Members, Stopped
<1>5. SlotsAreHeld' /\ WaitersAreServed' /\ LiveReadersCounted' /\ RunningWriteIsNotFailed'
  BY <1>1, <1>2 DEF IInv, SlotsAreHeld, WaitersAreServed, LiveReadersCounted, RunningWriteIsNotFailed, Members, Waiting
<1>6. SpawnsAnswerCrashes'
  <2>1. \A l : /\ IsFiniteSet(FallenOf(l)) /\ FallenOf(l)' \subseteq FallenOf(l)
               /\ Cardinality(FallenOf(l)) \in Nat
    BY <1>1, <1>2, CountsAreFinite, FS_CardinalityType DEF IInv, FallenOf
  <2>2. \A l : Cardinality(FallenOf(l)') \in Nat /\ Cardinality(FallenOf(l)') <= Cardinality(FallenOf(l))
    BY <2>1, FS_Subset, FS_CardinalityType
  <2>3. QED
    BY <1>1, <1>2, <2>1, <2>2 DEF IInv, TypeOK, SpawnsAnswerCrashes
<1>7. QED
  BY <1>3, <1>4, <1>5, <1>6 DEF IInv

(* Before main listens there are no readers. *)
LEMMA NoReaderBeforeListen ==
  ASSUME IInv, mode = "starting"
  PROVE  /\ \A t \in Known : t \in Thread /\ t[1] = Writer
         /\ readerWorkers = {} /\ Members = {}
<1>1. \A t \in Known : t \in Thread
  BY DEF IInv, TypeOK, Known, Req
<1>2. \A t \in Known : t[1] = Writer
  <2>1. SUFFICES ASSUME NEW t \in Known, t[1] \in Reader PROVE FALSE
    BY <1>1, ThreadShape DEF Lineage
  <2>2. spawned[t[1]] = 0
    BY <2>1 DEF IInv, NoReaderYet
  <2>3. t[2] <= spawned[t[1]]
    BY <2>1 DEF IInv, KnownAreOld
  <2>4. QED
    BY <1>1, <2>1, <2>2, <2>3, ThreadShape
<1>3. QED
  BY <1>1, <1>2, LineageAssumption DEF IInv, ReadersAreMains, Known

(* The handled event of a crash leaves room for one respawn. *)
LEMMA FallenHandled ==
  ASSUME TypeOK, NEW t \in fallen, fallen' = fallen \ {t}
  PROVE  /\ \A l \in Lineage : /\ Cardinality(FallenOf(l)) \in Nat /\ Cardinality(FallenOf(l)') \in Nat
                               /\ Cardinality(FallenOf(l)') <= Cardinality(FallenOf(l))
         /\ Cardinality(FallenOf(t[1])') = Cardinality(FallenOf(t[1])) - 1
<1>1. \A l : IsFiniteSet(FallenOf(l)) /\ FallenOf(l)' \subseteq FallenOf(l)
  BY CountsAreFinite DEF FallenOf
<1>2. \A l : /\ Cardinality(FallenOf(l)) \in Nat /\ Cardinality(FallenOf(l)') \in Nat
             /\ Cardinality(FallenOf(l)') <= Cardinality(FallenOf(l))
  BY <1>1, FS_Subset, FS_CardinalityType
<1>3. FallenOf(t[1])' = FallenOf(t[1]) \ {t} /\ t \in FallenOf(t[1])
  BY DEF FallenOf
<1>4. Cardinality(FallenOf(t[1]) \ {t}) = Cardinality(FallenOf(t[1])) - 1
  BY <1>1, <1>3, FS_RemoveElement
<1>5. QED
  BY <1>2, <1>3, <1>4

LEMMA ListenKeepsIInv == IInv /\ Listen => IInv'
<1>1. SUFFICES ASSUME IInv, Listen PROVE IInv'
  OBVIOUS
<1>2. PICK started \in SUBSET Reader :
        /\ readerWorkers' = started \X {1}
        /\ running' = running \cup (started \X {1})
        /\ liveReaders' = Cardinality(started)
  BY <1>1 DEF Listen
<1>3. /\ mode = "starting" /\ mode' = "threaded"
      /\ spawned' = [l \in Lineage |-> IF l \in Reader THEN 1 ELSE spawned[l]]
      /\ UNCHANGED <<everBeat, fallen, deaths, engine, pool, crashes, respawns, req>>
  BY <1>1 DEF Listen
<1>4. /\ \A t \in Known : t \in Thread /\ t[1] = Writer /\ t[1] \notin Reader
      /\ readerWorkers = {} /\ Members = {}
  BY <1>1, <1>3, NoReaderBeforeListen, LineageAssumption
<1>5. \A t \in started \X {1} : t \in Thread /\ t[1] \in Reader /\ t[2] = 1
  BY <1>2, LimitAssumption DEF Thread, Lineage
<1>6. IsFiniteSet(started) /\ Cardinality(started) \in Nat /\ Cardinality(started) <= Cardinality(Reader)
      /\ Cardinality(Reader) \in Nat
  BY <1>2, LineageAssumption, FS_Subset, FS_CardinalityType
<1>7. TypeOK'
  <2>1. spawned' \in [Lineage -> 0..(MaxDeaths + 1)]
    BY <1>1, <1>3, LimitAssumption DEF IInv, TypeOK
  <2>2. running' \subseteq Thread /\ readerWorkers' \subseteq Thread
    BY <1>1, <1>2, <1>5 DEF IInv, TypeOK
  <2>3. liveReaders' \in 0..Cardinality(Reader)
    BY <1>2, <1>6
  <2>4. QED
    BY <1>1, <1>3, <2>1, <2>2, <2>3 DEF IInv, TypeOK, Members
<1>8. KnownAreOld'
  <2>1. \A t \in Known' : t \in Known \/ t \in started \X {1}
    BY <1>2, <1>3 DEF Known, Members
  <2>2. \A t \in Known : t[2] <= spawned'[t[1]]
    BY <1>1, <1>3, <1>4, ThreadShape DEF IInv, KnownAreOld
  <2>3. \A t \in started \X {1} : t[2] <= spawned'[t[1]]
    BY <1>3, <1>5 DEF Lineage
  <2>4. QED
    BY <2>1, <2>2, <2>3 DEF KnownAreOld
<1>9. FallenAreDead' /\ WriterIsEngine' /\ ReadersAreMains' /\ NoReaderYet'
  <2>1. \A t \in fallen : t[1] \notin Reader
    BY <1>4 DEF Known
  <2>2. QED
    BY <1>1, <1>2, <1>3, <1>4, <1>5, <2>1, LineageAssumption
    DEF IInv, FallenAreDead, WriterIsEngine, ReadersAreMains, NoReaderYet, Members, Stopped
<1>10. SlotsAreHeld' /\ WaitersAreServed'
  BY <1>1, <1>3 DEF IInv, SlotsAreHeld, WaitersAreServed, Members, Waiting
<1>11. LiveReadersCounted'
  <2>1. Cardinality({1}) = 1 /\ IsFiniteSet({1})
    BY FS_Singleton
  <2>2. Cardinality(started \X {1}) = Cardinality(started) * Cardinality({1})
    BY <1>6, <2>1, FS_Product
  <2>3. QED
    BY <1>2, <1>6, <2>1, <2>2 DEF LiveReadersCounted
<1>12. RunningWriteIsNotFailed'
  <2>1. \A r \in Request : req[r].at \notin started \X {1}
    <3>1. \A r \in Request : req[r].at = None \/ req[r].at \in Known
      BY <1>1 DEF Known
    <3>2. QED
      BY <1>4, <1>5, <3>1, ThreadShape
  <2>2. QED
    BY <1>1, <1>2, <1>3, <2>1, RequestAssumption DEF IInv, RunningWriteIsNotFailed
<1>13. SpawnsAnswerCrashes'
  <2>1. SUFFICES ASSUME NEW l \in Lineage PROVE spawned'[l] + Cardinality(FallenOf(l)) <= deaths + 1
    BY <1>3 DEF SpawnsAnswerCrashes, FallenOf
  <2>2. CASE l \in Reader
    <3>1. FallenOf(l) = {}
      BY <1>4, <2>2 DEF FallenOf, Known
    <3>2. QED
      BY <1>1, <1>3, <2>2, <3>1, FS_EmptySet DEF IInv, TypeOK
  <2>3. CASE l \notin Reader
    BY <1>1, <1>3, <2>3 DEF IInv, SpawnsAnswerCrashes
  <2>4. QED
    BY <2>2, <2>3
<1>14. QED
  BY <1>7, <1>8, <1>9, <1>10, <1>11, <1>12, <1>13 DEF IInv

LEMMA FallBackKeepsIInv == IInv /\ FallBack => IInv'
<1>1. SUFFICES ASSUME IInv, FallBack PROVE IInv'
  OBVIOUS
<1>2. /\ mode = "starting" /\ mode' = "single" /\ running' = running \ {engine}
      /\ UNCHANGED <<everBeat, fallen, spawned, deaths, engine, readerWorkers, pool, liveReaders, crashes, respawns, req>>
  BY <1>1 DEF FallBack
<1>3. readerWorkers = {} /\ Members = {}
  BY <1>1, <1>2, NoReaderBeforeListen
<1>4. TypeOK'
  BY <1>1, <1>2 DEF IInv, TypeOK, Members
<1>5. KnownAreOld' /\ FallenAreDead' /\ WriterIsEngine' /\ ReadersAreMains' /\ NoReaderYet'
  BY <1>1, <1>2, <1>3 DEF IInv, KnownAreOld, Known, FallenAreDead, WriterIsEngine, ReadersAreMains, NoReaderYet, Members, Stopped
<1>6. SlotsAreHeld' /\ WaitersAreServed' /\ SpawnsAnswerCrashes' /\ LiveReadersCounted' /\ RunningWriteIsNotFailed'
  BY <1>1, <1>2 DEF IInv, SlotsAreHeld, WaitersAreServed, SpawnsAnswerCrashes, FallenOf, LiveReadersCounted,
    RunningWriteIsNotFailed, Members, Waiting
<1>7. QED
  BY <1>4, <1>5, <1>6 DEF IInv

LEMMA ReaderReadyKeepsIInv == ASSUME NEW t \in Thread PROVE IInv /\ ReaderReady(t) => IInv'
<1>1. SUFFICES ASSUME IInv, ReaderReady(t) PROVE IInv'
  OBVIOUS
<1>2. /\ t \in readerWorkers \cap running /\ t \notin Members
      /\ pool' = [x \in Members \cup {t} |-> IF x = t THEN 0 ELSE pool[x]]
      /\ UNCHANGED <<mode, everBeat, running, fallen, spawned, deaths, engine, readerWorkers, liveReaders, crashes, respawns, req>>
  BY <1>1 DEF ReaderReady, threadVars
<1>3. Members' = Members \cup {t} /\ t[1] \in Reader
  BY <1>1, <1>2 DEF Members, IInv, ReadersAreMains
<1>4. TypeOK'
  BY <1>1, <1>2, <1>3 DEF IInv, TypeOK
<1>5. KnownAreOld' /\ FallenAreDead' /\ WriterIsEngine' /\ ReadersAreMains' /\ NoReaderYet'
  BY <1>1, <1>2, <1>3 DEF IInv, KnownAreOld, Known, FallenAreDead, WriterIsEngine, ReadersAreMains, NoReaderYet, Stopped
<1>6. SlotsAreHeld'
  <2>1. Waiting(t) = {}
    BY <1>1, <1>2, <1>3, LineageAssumption DEF Waiting, IInv, WaitersAreServed
  <2>2. QED
    BY <1>1, <1>2, <1>3, <2>1 DEF IInv, SlotsAreHeld, Waiting
<1>7. WaitersAreServed' /\ SpawnsAnswerCrashes' /\ LiveReadersCounted' /\ RunningWriteIsNotFailed'
  BY <1>1, <1>2, <1>3 DEF IInv, WaitersAreServed, SpawnsAnswerCrashes, FallenOf, LiveReadersCounted, RunningWriteIsNotFailed
<1>8. QED
  BY <1>4, <1>5, <1>6, <1>7 DEF IInv

LEMMA CrashAgesKeepsIInv == ASSUME NEW l \in Lineage PROVE IInv /\ CrashAges(l) => IInv'
<1>1. SUFFICES ASSUME IInv, CrashAges(l) PROVE IInv'
  OBVIOUS
<1>2. /\ UNCHANGED <<mode, everBeat, running, fallen, spawned, deaths, engine, readerWorkers, pool, liveReaders, req>>
      /\ crashes' = [crashes EXCEPT ![l] = IF @ > 0 THEN @ - 1 ELSE 0]
      /\ respawns' = [respawns EXCEPT ![l] = IF @ > 0 THEN @ - 1 ELSE 0]
  BY <1>1 DEF CrashAges
<1>3. crashes' \in [Lineage -> Nat] /\ respawns' \in [Lineage -> Nat]
  BY <1>1, <1>2 DEF IInv, TypeOK
<1>4. TypeOK'
  BY <1>1, <1>2, <1>3 DEF IInv, TypeOK, Members
<1>5. KnownAreOld' /\ FallenAreDead' /\ WriterIsEngine' /\ ReadersAreMains' /\ NoReaderYet'
  BY <1>1, <1>2 DEF IInv, KnownAreOld, Known, FallenAreDead, WriterIsEngine, ReadersAreMains, NoReaderYet, Members, Stopped
<1>6. SlotsAreHeld' /\ WaitersAreServed' /\ SpawnsAnswerCrashes' /\ LiveReadersCounted' /\ RunningWriteIsNotFailed'
  BY <1>1, <1>2 DEF IInv, SlotsAreHeld, WaitersAreServed, SpawnsAnswerCrashes, FallenOf, LiveReadersCounted,
    RunningWriteIsNotFailed, Members, Waiting
<1>7. QED
  BY <1>4, <1>5, <1>6 DEF IInv

(* A thread of kind l may be started, or fail to construct: either way there is room for it. *)
LEMMA SpawnsStayBounded ==
  ASSUME IInv, NEW t \in fallen, fallen' = fallen \ {t}, deaths' = deaths,
         spawned' = spawned \/ spawned' = [spawned EXCEPT ![t[1]] = @ + 1]
  PROVE  /\ SpawnsAnswerCrashes'
         /\ spawned' \in [Lineage -> 0..(MaxDeaths + 1)]
         /\ \A l \in Lineage : spawned[l] <= spawned'[l]
<1>1. t \in Thread /\ t[1] \in Lineage
  BY ThreadShape DEF IInv, TypeOK
<1>2. spawned' \in [Lineage -> Nat] /\ \A l \in Lineage : spawned[l] <= spawned'[l]
  BY <1>1 DEF IInv, TypeOK
<1>3. SpawnsAnswerCrashes'
  <2>1. SUFFICES ASSUME NEW l \in Lineage PROVE spawned'[l] + Cardinality(FallenOf(l)') <= deaths + 1
    BY DEF SpawnsAnswerCrashes
  <2>2. /\ Cardinality(FallenOf(l)) \in Nat /\ Cardinality(FallenOf(l)') \in Nat
        /\ Cardinality(FallenOf(l)') <= Cardinality(FallenOf(l))
        /\ Cardinality(FallenOf(t[1])') = Cardinality(FallenOf(t[1])) - 1
    BY FallenHandled DEF IInv
  <2>3. spawned[l] + Cardinality(FallenOf(l)) <= deaths + 1 /\ spawned[l] \in Nat /\ deaths \in Nat
    BY DEF IInv, SpawnsAnswerCrashes, TypeOK
  <2>4. CASE spawned'[l] = spawned[l]
    BY <2>2, <2>3, <2>4
  <2>5. CASE l = t[1] /\ spawned'[l] = spawned[l] + 1
    BY <2>2, <2>3, <2>5
  <2>6. QED
    BY <1>1, <2>4, <2>5 DEF IInv, TypeOK
<1>4. \A l \in Lineage : spawned'[l] <= MaxDeaths + 1
  <2>1. TAKE l \in Lineage
  <2>2. spawned'[l] + Cardinality(FallenOf(l)') <= deaths + 1 /\ deaths <= MaxDeaths /\ deaths \in Nat
    BY <1>3 DEF SpawnsAnswerCrashes, IInv, TypeOK
  <2>3. Cardinality(FallenOf(l)') \in Nat
    BY FallenHandled DEF IInv
  <2>4. QED
    BY <1>2, <2>2, <2>3, LimitAssumption
<1>5. QED
  BY <1>2, <1>3, <1>4, LimitAssumption

LEMMA EngineDiesKeepsIInv == ASSUME NEW t \in Thread PROVE IInv /\ EngineDies(t) => IInv'
<1>1. SUFFICES ASSUME IInv, EngineDies(t) PROVE IInv'
  OBVIOUS
<1>2. /\ t \in fallen /\ t[1] = Writer /\ fallen' = fallen \ {t} /\ ~Stopped
      /\ req' = RejectAll({engine}) /\ crashes' = Crashed(Writer)
      /\ UNCHANGED <<mode, everBeat, deaths, readerWorkers, pool, liveReaders>>
  BY <1>1 DEF EngineDies, DeathConcerns
<1>3. /\ spawned' = spawned \/ spawned' = [spawned EXCEPT ![Writer] = @ + 1]
      /\ respawns' = respawns \/ respawns' = [respawns EXCEPT ![Writer] = @ + 1]
      /\ \/ /\ engine' = <<Writer, spawned[Writer] + 1>> /\ engine' \in Thread
            /\ spawned' = [spawned EXCEPT ![Writer] = @ + 1]
            /\ running' = (running \ {engine}) \cup {engine'}
         \/ engine' = None /\ running' = running \ {engine}
  BY <1>1 DEF EngineDies, Respawn, NoRespawn
<1>4. Writer \in Lineage
  BY DEF Lineage
<1>5. /\ SpawnsAnswerCrashes' /\ spawned' \in [Lineage -> 0..(MaxDeaths + 1)]
      /\ \A l \in Lineage : spawned[l] <= spawned'[l]
  BY <1>1, <1>2, <1>3, SpawnsStayBounded
<1>6. /\ req' \in [Request -> Req] /\ \A r \in Request : req'[r].at = req[r].at
      /\ \A r \in Request : IF req[r].phase = "waiting" /\ req[r].at = engine
                              THEN req'[r].phase = "answered" /\ req'[r].answer = "failed" ELSE req'[r] = req[r]
  BY <1>1, <1>2, RejectAllEffect DEF IInv, TypeOK
<1>7. TypeOK'
  <2>1. crashes' \in [Lineage -> Nat] /\ respawns' \in [Lineage -> Nat]
    BY <1>1, <1>2, <1>3, <1>4 DEF IInv, TypeOK, Crashed
  <2>2. running' \subseteq Thread /\ engine' \in Thread \cup {None} /\ fallen' \subseteq Thread
    BY <1>1, <1>2, <1>3 DEF IInv, TypeOK
  <2>3. QED
    BY <1>1, <1>2, <1>5, <1>6, <2>1, <2>2 DEF IInv, TypeOK, Members
<1>8. <<Writer, spawned[Writer] + 1>> \notin Known
  BY <1>1, <1>4, NextThreadIsNew DEF IInv
<1>9. KnownAreOld'
  <2>1. \A x \in Known' : x \in Known \/ (x = engine' /\ x # None)
    <3>1. {req'[r].at : r \in Request} = {req[r].at : r \in Request}
      BY <1>6
    <3>2. running' \subseteq running \cup ({engine'} \ {None})
      BY <1>3, NoneAssumption
    <3>3. QED
      BY <1>2, <3>1, <3>2 DEF Known, Members
  <2>2. \A x \in Known : x \in Thread /\ x[2] <= spawned[x[1]]
    BY <1>1 DEF IInv, KnownAreOld, TypeOK, Known, Req
  <2>3. \A x \in Known : x[2] <= spawned'[x[1]]
    BY <1>1, <1>5, <2>2, ThreadShape DEF IInv, TypeOK
  <2>4. ASSUME engine' # None PROVE engine'[2] <= spawned'[engine'[1]]
    BY <1>1, <1>3, <1>4, <2>4 DEF IInv, TypeOK
  <2>5. QED
    BY <2>1, <2>3, <2>4 DEF KnownAreOld
<1>10. FallenAreDead'
  BY <1>1, <1>2, <1>3, <1>8 DEF IInv, FallenAreDead, Known
<1>11. WriterIsEngine'
  BY <1>1, <1>2, <1>3 DEF IInv, WriterIsEngine, Stopped
<1>12. ReadersAreMains' /\ NoReaderYet'
  BY <1>1, <1>2, <1>3, LineageAssumption DEF IInv, TypeOK, ReadersAreMains, NoReaderYet, Members, Stopped, Lineage
<1>13. SlotsAreHeld'
  <2>1. \A x \in Members : x # engine
    BY <1>1, LineageAssumption, NoneAssumption DEF IInv, ReadersAreMains, WriterIsEngine, TypeOK
  <2>2. \A x \in Members : Waiting(x)' = Waiting(x)
    BY <1>6, <2>1 DEF Waiting
  <2>3. QED
    BY <1>1, <1>2, <2>2 DEF IInv, SlotsAreHeld, Members
<1>14. WaitersAreServed'
  BY <1>1, <1>2, <1>6 DEF IInv, WaitersAreServed, Members
<1>15. LiveReadersCounted'
  BY <1>1, <1>2 DEF IInv, LiveReadersCounted
<1>16. RunningWriteIsNotFailed'
  <2>1. SUFFICES ASSUME NEW r \in ListedWrites, req'[r].answer = "failed" PROVE req'[r].at \notin running'
    BY DEF RunningWriteIsNotFailed
  <2>2. r \in Request /\ (req[r].at = engine \/ req[r].at \notin running)
    BY <1>1, <1>6, <2>1, RequestAssumption DEF IInv, RunningWriteIsNotFailed
  <2>3. req[r].at \notin running \ {engine}
    BY <2>2
  <2>4. req[r].at = None \/ req[r].at \in Known
    BY <2>2 DEF Known
  <2>5. req[r].at # engine' \/ engine' = None
    BY <1>3, <1>8, <2>4, ThreadShape
  <2>6. QED
    BY <1>1, <1>3, <1>6, <2>2, <2>3, <2>5, NoneAssumption DEF IInv, TypeOK
<1>17. QED
  BY <1>5, <1>7, <1>9, <1>10, <1>11, <1>12, <1>13, <1>14, <1>15, <1>16 DEF IInv

LEMMA ReaderDiesKeepsIInv == ASSUME NEW t \in Thread PROVE IInv /\ ReaderDies(t) => IInv'
<1>1. SUFFICES ASSUME IInv, ReaderDies(t) PROVE IInv'
  OBVIOUS
<1>. DEFINE w == <<t[1], spawned[t[1]] + 1>>
<1>2. /\ t \in fallen /\ t[1] \in Reader /\ fallen' = fallen \ {t} /\ t \in readerWorkers
      /\ req' = RejectAll({t}) /\ pool' = Removed(pool, t) /\ crashes' = Crashed(t[1])
      /\ UNCHANGED <<mode, everBeat, deaths, engine>>
  BY <1>1, LineageAssumption DEF ReaderDies, DeathConcerns
<1>3. mode = "threaded"
  <2>1. mode # "starting"
    BY <1>1, <1>2, NoReaderBeforeListen
  <2>2. QED
    BY <1>1, <1>2, <2>1 DEF IInv, TypeOK, ReadersAreMains, Stopped
<1>4. /\ spawned' = spawned \/ spawned' = [spawned EXCEPT ![t[1]] = @ + 1]
      /\ respawns' = respawns \/ respawns' = [respawns EXCEPT ![t[1]] = @ + 1]
      /\ \/ /\ w \in Thread /\ spawned' = [spawned EXCEPT ![t[1]] = @ + 1]
            /\ readerWorkers' = (readerWorkers \ {t}) \cup {w} /\ running' = running \cup {w}
            /\ liveReaders' = liveReaders
         \/ readerWorkers' = readerWorkers \ {t} /\ running' = running /\ liveReaders' = liveReaders - 1
  BY <1>1 DEF ReaderDies, Respawn, NoRespawn, OneReaderLess
<1>. HIDE DEF w
<1>5. t[1] \in Lineage
  BY <1>2 DEF Lineage
<1>6. /\ SpawnsAnswerCrashes' /\ spawned' \in [Lineage -> 0..(MaxDeaths + 1)]
      /\ \A l \in Lineage : spawned[l] <= spawned'[l]
  BY <1>1, <1>2, <1>4, SpawnsStayBounded
<1>7. /\ req' \in [Request -> Req] /\ \A r \in Request : req'[r].at = req[r].at
      /\ \A r \in Request : IF req[r].phase = "waiting" /\ req[r].at = t
                              THEN req'[r].phase = "answered" /\ req'[r].answer = "failed" ELSE req'[r] = req[r]
  BY <1>1, <1>2, RejectAllEffect DEF IInv, TypeOK
<1>8. Members' = Members \ {t} /\ \A x \in Members' : pool'[x] = pool[x]
  BY <1>2 DEF Removed, Restrict, Members
<1>9. w \notin Known /\ w[1] = t[1] /\ w[2] = spawned[t[1]] + 1
  BY <1>1, <1>5, NextThreadIsNew DEF IInv, w
<1>10. LiveReadersCounted' /\ liveReaders' \in 0..Cardinality(Reader)
  <2>1. IsFiniteSet(readerWorkers) /\ Cardinality(readerWorkers) \in Nat /\ Cardinality(Reader) \in Nat
    BY <1>1, CountsAreFinite DEF IInv
  <2>2. liveReaders = Cardinality(readerWorkers) /\ liveReaders \in 0..Cardinality(Reader)
    BY <1>1, <1>3 DEF IInv, LiveReadersCounted, TypeOK
  <2>3. /\ IsFiniteSet(readerWorkers \ {t})
        /\ Cardinality(readerWorkers \ {t}) = Cardinality(readerWorkers) - 1
        /\ Cardinality(readerWorkers \ {t}) \in Nat
    BY <1>2, <2>1, FS_RemoveElement, FS_CardinalityType
  <2>4. w \notin readerWorkers \ {t}
    BY <1>9 DEF Known
  <2>5. Cardinality((readerWorkers \ {t}) \cup {w}) = Cardinality(readerWorkers)
    <3>1. Cardinality((readerWorkers \ {t}) \cup {w}) = Cardinality(readerWorkers \ {t}) + 1
      BY <2>3, <2>4, FS_AddElement
    <3>2. QED
      BY <2>1, <2>3, <3>1
  <2>6. QED
    BY <1>4, <2>1, <2>2, <2>3, <2>5 DEF LiveReadersCounted
<1>11. TypeOK'
  <2>1. crashes' \in [Lineage -> Nat] /\ respawns' \in [Lineage -> Nat]
    BY <1>1, <1>2, <1>4, <1>5 DEF IInv, TypeOK, Crashed
  <2>2. running' \subseteq Thread /\ readerWorkers' \subseteq Thread /\ fallen' \subseteq Thread
    BY <1>1, <1>2, <1>4 DEF IInv, TypeOK
  <2>3. Members' \subseteq Thread /\ pool' \in [Members' -> 0..1]
    BY <1>1, <1>2, <1>8 DEF IInv, TypeOK, Removed, Restrict, Members
  <2>4. QED
    BY <1>1, <1>2, <1>6, <1>7, <1>10, <2>1, <2>2, <2>3 DEF IInv, TypeOK
<1>12. KnownAreOld'
  <2>1. \A x \in Known' : x \in Known \/ x = w
    <3>1. {req'[r].at : r \in Request} = {req[r].at : r \in Request}
      BY <1>7
    <3>2. QED
      BY <1>2, <1>4, <1>8, <3>1 DEF Known
  <2>2. \A x \in Known : x[2] <= spawned'[x[1]]
    <3>1. \A x \in Known : x \in Thread /\ x[2] <= spawned[x[1]]
      BY <1>1 DEF IInv, KnownAreOld, TypeOK, Known, Req
    <3>2. QED
      BY <1>1, <1>6, <3>1, ThreadShape DEF IInv, TypeOK
  <2>3. w \in Known' => w[2] <= spawned'[w[1]]
    <3>1. w \in Known' => spawned' = [spawned EXCEPT ![t[1]] = @ + 1]
      <4>1. {req'[r].at : r \in Request} = {req[r].at : r \in Request}
        BY <1>7
      <4>2. QED
        BY <1>2, <1>4, <1>8, <1>9, <4>1 DEF Known
    <3>2. QED
      BY <1>1, <1>5, <1>9, <3>1 DEF IInv, TypeOK
  <2>4. QED
    BY <2>1, <2>2, <2>3 DEF KnownAreOld
<1>13. FallenAreDead'
  BY <1>1, <1>2, <1>4, <1>9 DEF IInv, FallenAreDead, Known
<1>14. WriterIsEngine'
  BY <1>1, <1>2, <1>4, <1>9, LineageAssumption DEF IInv, WriterIsEngine, Stopped
<1>15. ReadersAreMains'
  BY <1>1, <1>2, <1>3, <1>4, <1>8, <1>9 DEF IInv, ReadersAreMains, Stopped
<1>16. NoReaderYet'
  BY <1>2, <1>3 DEF NoReaderYet
<1>17. SlotsAreHeld'
  <2>1. \A x \in Members' : Waiting(x)' = Waiting(x)
    BY <1>7, <1>8 DEF Waiting
  <2>2. QED
    BY <1>1, <1>8, <2>1 DEF IInv, SlotsAreHeld
<1>18. WaitersAreServed'
  BY <1>1, <1>7, <1>8 DEF IInv, WaitersAreServed
<1>19. RunningWriteIsNotFailed'
  <2>1. SUFFICES ASSUME NEW r \in ListedWrites, req'[r].answer = "failed" PROVE req'[r].at \notin running'
    BY DEF RunningWriteIsNotFailed
  <2>2. r \in Request /\ (req[r].at = t \/ req[r].at \notin running)
    BY <1>1, <1>7, <2>1, RequestAssumption DEF IInv, RunningWriteIsNotFailed
  <2>3. req[r].at \notin running
    BY <1>1, <1>2, <2>2 DEF IInv, FallenAreDead
  <2>4. w \in Thread => req[r].at # w
    BY <1>9, <2>2, NoneAssumption DEF Known
  <2>5. QED
    BY <1>4, <1>7, <2>2, <2>3, <2>4
<1>20. QED
  BY <1>6, <1>10, <1>11, <1>12, <1>13, <1>14, <1>15, <1>16, <1>17, <1>18, <1>19 DEF IInv

LEMMA StopKeepsIInv == IInv /\ Stop => IInv'
<1>1. SUFFICES ASSUME IInv, Stop PROVE IInv'
  OBVIOUS
<1>2. /\ mode = "threaded" /\ mode' = "stopped"
      /\ req' = RejectAll(readerWorkers \cup {engine})
      /\ pool' = [t \in Members |-> pool[t] - Cardinality(Waiting(t))]
      /\ running' = running \ (readerWorkers \cup {engine}) /\ readerWorkers' = {}
      /\ UNCHANGED <<everBeat, fallen, spawned, deaths, engine, liveReaders, crashes, respawns>>
  BY <1>1 DEF Stop
<1>3. /\ req' \in [Request -> Req] /\ \A r \in Request : req'[r].at = req[r].at
      /\ \A r \in Request : IF req[r].phase = "waiting" /\ req[r].at \in readerWorkers \cup {engine}
                              THEN req'[r].phase = "answered" /\ req'[r].answer = "failed" ELSE req'[r] = req[r]
  BY <1>1, <1>2, RejectAllEffect DEF IInv, TypeOK
<1>4. Members' = Members /\ Members \subseteq readerWorkers /\ Members \subseteq Thread
  BY <1>1, <1>2 DEF Members, IInv, ReadersAreMains, Stopped, TypeOK
<1>5. \A t \in Members : pool'[t] = 0
  <2> TAKE t \in Members
  <2>1. pool[t] \in 0..1 /\ pool'[t] = pool[t] - Cardinality(Waiting(t))
    BY <1>1, <1>2 DEF IInv, TypeOK
  <2>2. CASE pool[t] = 0
    <3>1. Waiting(t) = {}
      BY <1>1, <2>2 DEF IInv, SlotsAreHeld
    <3>2. Cardinality(Waiting(t)) = 0
      BY <3>1, FS_EmptySet
    <3>3. QED
      BY <2>1, <2>2, <3>2
  <2>3. CASE pool[t] = 1
    <3>1. PICK r \in Request : Waiting(t) = {r}
      BY <1>1, <2>3 DEF IInv, SlotsAreHeld
    <3>2. Cardinality(Waiting(t)) = 1
      BY <3>1, FS_Singleton
    <3>3. QED
      BY <2>1, <2>3, <3>2
  <2>4. QED
    BY <2>1, <2>2, <2>3
<1>6. TypeOK'
  <2>1. pool' \in [Members' -> 0..1]
    BY <1>2, <1>4, <1>5 DEF Members
  <2>2. QED
    BY <1>1, <1>2, <1>3, <1>4, <2>1 DEF IInv, TypeOK
<1>7. KnownAreOld'
  <2>1. {req'[r].at : r \in Request} = {req[r].at : r \in Request}
    BY <1>3
  <2>2. Known' \subseteq Known
    BY <1>2, <1>4, <2>1 DEF Known
  <2>3. QED
    BY <1>1, <1>2, <2>2 DEF IInv, KnownAreOld
<1>8. FallenAreDead' /\ WriterIsEngine' /\ ReadersAreMains' /\ NoReaderYet'
  BY <1>1, <1>2, <1>4 DEF IInv, FallenAreDead, WriterIsEngine, ReadersAreMains, NoReaderYet, Stopped
<1>9. SlotsAreHeld'
  <2>1. \A t \in Members : Waiting(t)' = {}
    BY <1>3, <1>4 DEF Waiting
  <2>2. QED
    BY <1>4, <1>5, <2>1 DEF SlotsAreHeld
<1>10. WaitersAreServed'
  BY <1>1, <1>3, <1>4 DEF IInv, WaitersAreServed
<1>11. SpawnsAnswerCrashes' /\ LiveReadersCounted'
  BY <1>1, <1>2 DEF IInv, SpawnsAnswerCrashes, FallenOf, LiveReadersCounted
<1>12. RunningWriteIsNotFailed'
  BY <1>1, <1>2, <1>3, RequestAssumption DEF IInv, RunningWriteIsNotFailed
<1>13. QED
  BY <1>6, <1>7, <1>8, <1>9, <1>10, <1>11, <1>12 DEF IInv

-----------------------------------------------------------------------------
(* The actions of a request.                                               *)

(* A step that leaves the threads alone and one request changed. *)
LEMMA RequestStepFrame ==
  ASSUME IInv, UNCHANGED <<mode, everBeat, running, fallen, spawned, deaths, engine, readerWorkers, liveReaders, crashes, respawns>>,
         Members' = Members, pool' \in [Members -> 0..1], req' \in [Request -> Req],
         NEW r \in Request, \A q \in Request \ {r} : req'[q] = req[q],
         req'[r].at \in Known \cup {None}
  PROVE  /\ TypeOK' /\ KnownAreOld' /\ FallenAreDead' /\ WriterIsEngine' /\ ReadersAreMains' /\ NoReaderYet'
         /\ SpawnsAnswerCrashes' /\ LiveReadersCounted'
<1>1. TypeOK'
  BY DEF IInv, TypeOK
<1>2. KnownAreOld'
  <2>1. \A x \in {req'[q].at : q \in Request} \ {None} : x \in Known
    BY DEF Known
  <2>2. Known' \subseteq Known
    BY <2>1 DEF Known
  <2>3. QED
    BY <2>2 DEF IInv, KnownAreOld
<1>3. FallenAreDead' /\ WriterIsEngine' /\ ReadersAreMains' /\ NoReaderYet' /\ SpawnsAnswerCrashes' /\ LiveReadersCounted'
  BY DEF IInv, FallenAreDead, WriterIsEngine, ReadersAreMains, NoReaderYet, SpawnsAnswerCrashes, FallenOf,
    LiveReadersCounted, Stopped
<1>4. QED
  BY <1>1, <1>2, <1>3

LEMMA ForwardKeepsIInv ==
  ASSUME IInv, NEW r \in Request, Forward(r), req[r].phase \in {"new", "acquiring"},
         UNCHANGED <<mode, everBeat, threadVars>>
  PROVE  IInv'
<1>1. /\ UNCHANGED <<mode, everBeat, running, fallen, spawned, deaths, engine, readerWorkers, liveReaders, crashes, respawns, pool>>
      /\ Members' = Members /\ req \in [Request -> Req]
  BY DEF Forward, threadVars, Members, IInv, TypeOK
<1>2. CASE engine = None
  <2>1. /\ req' \in [Request -> Req] /\ \A q \in Request \ {r} : req'[q] = req[q]
        /\ req'[r].phase = "answered" /\ req'[r].answer = "unavailable" /\ req'[r].at = req[r].at
    BY <1>1, <1>2, AnsweredEffect DEF Forward
  <2>2. req'[r].at \in Known \cup {None}
    BY <2>1 DEF Known
  <2>3. SlotsAreHeld'
    <3>1. \A t \in Members : Waiting(t)' = Waiting(t)
      BY <2>1 DEF Waiting
    <3>2. QED
      BY <1>1, <3>1 DEF IInv, SlotsAreHeld
  <2>4. WaitersAreServed' /\ RunningWriteIsNotFailed'
    BY <1>1, <2>1, RequestAssumption DEF IInv, WaitersAreServed, RunningWriteIsNotFailed
  <2>5. QED
    BY <1>1, <2>1, <2>2, <2>3, <2>4, RequestStepFrame DEF IInv, TypeOK
<1>3. CASE engine # None
  <2>1. engine \in Thread /\ engine \in Known /\ engine[1] = Writer
    BY <1>3 DEF IInv, TypeOK, WriterIsEngine, Known
  <2>2. /\ req' \in [Request -> Req] /\ \A q \in Request \ {r} : req'[q] = req[q]
        /\ req'[r].phase = "waiting" /\ req'[r].at = engine /\ req'[r].answer = req[r].answer
    BY <1>1, <1>3, <2>1, PostedEffect DEF Forward
  <2>3. SlotsAreHeld'
    <3>1. \A t \in Members : t # engine
      BY <2>1, LineageAssumption DEF IInv, ReadersAreMains
    <3>2. \A t \in Members : Waiting(t)' = Waiting(t)
      BY <2>2, <3>1 DEF Waiting
    <3>3. QED
      BY <1>1, <3>2 DEF IInv, SlotsAreHeld
  <2>4. WaitersAreServed'
    BY <1>1, <2>1, <2>2, NoneAssumption DEF IInv, WaitersAreServed
  <2>5. RunningWriteIsNotFailed'
    BY <1>1, <2>2, RequestAssumption, NoneAssumption DEF IInv, RunningWriteIsNotFailed, WaitersAreServed
  <2>6. QED
    BY <1>1, <2>1, <2>2, <2>3, <2>4, <2>5, RequestStepFrame DEF IInv, TypeOK
<1>4. QED
  BY <1>2, <1>3

LEMMA ArriveKeepsIInv == ASSUME NEW r \in Request PROVE IInv /\ Arrive(r) => IInv'
<1>1. SUFFICES ASSUME IInv, Arrive(r) PROVE IInv'
  OBVIOUS
<1>2. CASE r \in Reads /\ Reader # {}
  <2>1. /\ UNCHANGED <<mode, everBeat, running, fallen, spawned, deaths, engine, readerWorkers, liveReaders, crashes, respawns, pool>>
        /\ Members' = Members /\ req \in [Request -> Req] /\ req[r].phase = "new"
        /\ req' = [req EXCEPT ![r].phase = "acquiring"]
    BY <1>1, <1>2 DEF Arrive, threadVars, Members, IInv, TypeOK
  <2>2. /\ req' \in [Request -> Req] /\ \A q \in Request \ {r} : req'[q] = req[q]
        /\ req'[r].phase = "acquiring" /\ req'[r].at = req[r].at /\ req'[r].answer = req[r].answer
    BY <2>1 DEF Req
  <2>3. req'[r].at \in Known \cup {None}
    BY <2>2 DEF Known
  <2>4. SlotsAreHeld'
    <3>1. \A t \in Members : Waiting(t)' = Waiting(t)
      BY <2>1, <2>2 DEF Waiting
    <3>2. QED
      BY <1>1, <2>1, <3>1 DEF IInv, SlotsAreHeld
  <2>5. WaitersAreServed' /\ RunningWriteIsNotFailed'
    BY <1>1, <1>2, <2>1, <2>2, RequestAssumption DEF IInv, WaitersAreServed, RunningWriteIsNotFailed
  <2>6. QED
    BY <1>1, <2>1, <2>2, <2>3, <2>4, <2>5, RequestStepFrame DEF IInv, TypeOK
<1>3. CASE ~(r \in Reads /\ Reader # {})
  BY <1>1, <1>3, ForwardKeepsIInv DEF Arrive
<1>4. QED
  BY <1>2, <1>3

LEMMA PollKeepsIInv == ASSUME NEW r \in Request PROVE IInv /\ Poll(r) => IInv'
<1>1. SUFFICES ASSUME IInv, Poll(r) PROVE IInv'
  OBVIOUS
<1>2. /\ UNCHANGED <<mode, everBeat, running, fallen, spawned, deaths, engine, readerWorkers, liveReaders, crashes, respawns>>
      /\ req \in [Request -> Req] /\ req[r].phase = "acquiring" /\ r \in Reads
  BY <1>1 DEF Poll, threadVars, IInv, TypeOK, WaitersAreServed
<1>3. ASSUME UNCHANGED pool, NEW a \in {"failed", "saturated"}, req' = Answered(req, r, a) PROVE IInv'
  <2>1. /\ req' \in [Request -> Req] /\ \A q \in Request \ {r} : req'[q] = req[q]
        /\ req'[r].phase = "answered" /\ req'[r].at = req[r].at
    BY <1>2, <1>3, AnsweredEffect
  <2>2. Members' = Members /\ req'[r].at \in Known \cup {None}
    BY <1>3, <2>1 DEF Members, Known
  <2>3. SlotsAreHeld'
    <3>1. \A t \in Members : Waiting(t)' = Waiting(t)
      BY <1>2, <2>1 DEF Waiting
    <3>2. QED
      BY <1>1, <1>3, <2>2, <3>1 DEF IInv, SlotsAreHeld
  <2>4. WaitersAreServed' /\ RunningWriteIsNotFailed'
    BY <1>1, <1>2, <2>1, <2>2, RequestAssumption DEF IInv, WaitersAreServed, RunningWriteIsNotFailed
  <2>5. QED
    BY <1>1, <1>2, <1>3, <2>1, <2>2, <2>3, <2>4, RequestStepFrame DEF IInv, TypeOK
<1>4. ASSUME NEW t \in Picked, t \in readerWorkers, pool' = Acquired(pool, t), req' = Posted(req, r, t) PROVE IInv'
  <2>1. t \in Members /\ t \in Thread /\ pool[t] = 0 /\ t \in Known /\ t # None
    BY <1>1, <1>4, NoneAssumption DEF Picked, IInv, TypeOK, Known
  <2>2. /\ req' \in [Request -> Req] /\ \A q \in Request \ {r} : req'[q] = req[q]
        /\ req'[r].phase = "waiting" /\ req'[r].at = t /\ req'[r].answer = req[r].answer
    BY <1>2, <1>4, <2>1, PostedEffect
  <2>3. /\ Members' = Members /\ pool' \in [Members -> 0..1]
        /\ \A x \in Members : pool'[x] = IF x = t THEN 1 ELSE pool[x]
    BY <1>1, <1>4, <2>1 DEF Acquired, Members, IInv, TypeOK
  <2>4. SlotsAreHeld'
    <3>1. Waiting(t) = {}
      BY <1>1, <2>1 DEF IInv, SlotsAreHeld
    <3>2. Waiting(t)' = {r}
      BY <2>2, <3>1 DEF Waiting
    <3>3. \A x \in Members \ {t} : Waiting(x)' = Waiting(x)
      BY <1>2, <2>2 DEF Waiting
    <3>4. QED
      BY <1>1, <2>1, <2>3, <3>2, <3>3 DEF IInv, SlotsAreHeld
  <2>5. WaitersAreServed' /\ RunningWriteIsNotFailed'
    BY <1>1, <1>2, <2>1, <2>2, <2>3, RequestAssumption DEF IInv, WaitersAreServed, RunningWriteIsNotFailed
  <2>6. QED
    BY <1>1, <1>2, <2>1, <2>2, <2>3, <2>4, <2>5, RequestStepFrame DEF IInv
<1>5. CASE Acquire(r)
  BY <1>1, <1>3, <1>4, <1>5 DEF Acquire
<1>6. CASE Spill(r)
  BY <1>1, <1>2, <1>6, ForwardKeepsIInv DEF Spill, Poll
<1>7. CASE Saturated(r)
  BY <1>3, <1>7 DEF Saturated
<1>8. QED
  BY <1>1, <1>5, <1>6, <1>7 DEF Poll

LEMMA ExecuteKeepsIInv == ASSUME NEW r \in Request PROVE IInv /\ Execute(r) => IInv'
<1>1. SUFFICES ASSUME IInv, Execute(r) PROVE IInv'
  OBVIOUS
<1>2. /\ UNCHANGED <<mode, everBeat, running, fallen, spawned, deaths, engine, readerWorkers, liveReaders, crashes, respawns, pool>>
      /\ Members' = Members /\ req \in [Request -> Req] /\ req' = [req EXCEPT ![r].work = "landed"]
  BY <1>1 DEF Execute, threadVars, Members, IInv, TypeOK
<1>3. /\ req' \in [Request -> Req] /\ \A q \in Request \ {r} : req'[q] = req[q]
      /\ req'[r].phase = req[r].phase /\ req'[r].at = req[r].at /\ req'[r].answer = req[r].answer
  BY <1>2 DEF Req
<1>4. req'[r].at \in Known \cup {None}
  BY <1>3 DEF Known
<1>5. SlotsAreHeld'
  <2>1. \A t \in Members : Waiting(t)' = Waiting(t)
    BY <1>3 DEF Waiting
  <2>2. QED
    BY <1>1, <1>2, <2>1 DEF IInv, SlotsAreHeld
<1>6. WaitersAreServed' /\ RunningWriteIsNotFailed'
  BY <1>1, <1>2, <1>3, RequestAssumption DEF IInv, WaitersAreServed, RunningWriteIsNotFailed
<1>7. QED
  BY <1>1, <1>2, <1>3, <1>4, <1>5, <1>6, RequestStepFrame DEF IInv, TypeOK

(* An answer to a request that waits, and its slot given back. *)
LEMMA ReleaseKeepsIInv ==
  ASSUME IInv, NEW r \in Request, req[r].phase = "waiting",
         NEW a \in {"ok", "failed", "in_flight"}, a = "failed" => r \notin ListedWrites,
         req' = Answered(req, r, a), pool' = Released(pool, req[r].at),
         UNCHANGED <<mode, everBeat, threadVars>>
  PROVE  IInv'
<1>0. PICK t : t = req[r].at
  OBVIOUS
<1>1. /\ UNCHANGED <<mode, everBeat, running, fallen, spawned, deaths, engine, readerWorkers, liveReaders, crashes, respawns>>
      /\ req \in [Request -> Req] /\ pool \in [Members -> 0..1]
  BY DEF threadVars, IInv, TypeOK
<1>2. /\ req' \in [Request -> Req] /\ \A q \in Request \ {r} : req'[q] = req[q]
      /\ req'[r].phase = "answered" /\ req'[r].answer = a /\ req'[r].at = t
  BY <1>0, <1>1, AnsweredEffect
<1>3. t \in Known \cup {None}
  BY <1>0 DEF Known
<1>4. r \in Waiting(t)
  BY <1>0 DEF Waiting
<1>5. t \in Members => pool[t] = 1 /\ Waiting(t) = {r}
  BY <1>1, <1>4 DEF IInv, SlotsAreHeld
<1>6. /\ Members' = Members /\ pool' \in [Members -> 0..1]
      /\ \A x \in Members : pool'[x] = IF x = t THEN 0 ELSE pool[x]
  <2>1. pool' = Released(pool, t)
    BY <1>0
  <2>2. QED
    BY <1>1, <1>5, <2>1 DEF Released, Members
<1>7. SlotsAreHeld'
  <2>1. t \in Members => Waiting(t)' = {}
    BY <1>2, <1>5 DEF Waiting
  <2>2. \A x \in Members \ {t} : Waiting(x)' = Waiting(x)
    BY <1>0, <1>2 DEF Waiting
  <2>3. QED
    BY <1>6, <2>1, <2>2 DEF IInv, SlotsAreHeld
<1>8. WaitersAreServed' /\ RunningWriteIsNotFailed'
  BY <1>1, <1>2, <1>6, RequestAssumption DEF IInv, WaitersAreServed, RunningWriteIsNotFailed
<1>9. QED
  BY <1>1, <1>2, <1>3, <1>6, <1>7, <1>8, RequestStepFrame DEF IInv

LEMMA DeliverKeepsIInv == ASSUME NEW r \in Request PROVE IInv /\ Deliver(r) => IInv'
BY ReleaseKeepsIInv DEF Deliver

LEMMA TimeoutKeepsIInv == ASSUME NEW r \in Request PROVE IInv /\ Timeout(r) => IInv'
BY ReleaseKeepsIInv DEF Timeout, TimeoutAnswer

(* Everything the worker does keeps IInv, and it starts with IInv. *)
LEMMA NextKeepsIInv == IInv /\ [Next]_vars => IInv'
<1>1. SUFFICES ASSUME IInv, [Next]_vars PROVE IInv'
  OBVIOUS
<1>2. CASE Beat
  BY <1>1, <1>2, BeatKeepsIInv
<1>3. CASE Listen
  BY <1>1, <1>3, ListenKeepsIInv
<1>4. CASE FallBack
  BY <1>1, <1>4, FallBackKeepsIInv
<1>5. CASE Stop
  BY <1>1, <1>5, StopKeepsIInv
<1>6. CASE \E t \in Thread : ReaderReady(t) \/ Crash(t) \/ DeathIgnored(t) \/ EngineDies(t) \/ ReaderDies(t)
  BY <1>1, <1>6, ReaderReadyKeepsIInv, CrashKeepsIInv, DeathIgnoredKeepsIInv, EngineDiesKeepsIInv, ReaderDiesKeepsIInv
<1>7. CASE \E l \in Lineage : CrashAges(l)
  BY <1>1, <1>7, CrashAgesKeepsIInv
<1>8. CASE RequestStep
  BY <1>1, <1>8, ArriveKeepsIInv, PollKeepsIInv, ExecuteKeepsIInv, DeliverKeepsIInv, TimeoutKeepsIInv DEF RequestStep
<1>9. CASE UNCHANGED vars
  <2>1. UNCHANGED <<mode, everBeat, running, fallen, spawned, deaths, engine, readerWorkers, pool, liveReaders, crashes, respawns, req>>
    BY <1>9 DEF vars
  <2>2. TypeOK' /\ KnownAreOld' /\ FallenAreDead' /\ WriterIsEngine' /\ ReadersAreMains' /\ NoReaderYet'
    BY <1>1, <2>1 DEF IInv, TypeOK, KnownAreOld, Known, FallenAreDead, WriterIsEngine, ReadersAreMains,
      NoReaderYet, Members, Stopped
  <2>3. SlotsAreHeld' /\ WaitersAreServed' /\ SpawnsAnswerCrashes' /\ LiveReadersCounted' /\ RunningWriteIsNotFailed'
    BY <1>1, <2>1 DEF IInv, SlotsAreHeld, WaitersAreServed, SpawnsAnswerCrashes, FallenOf, LiveReadersCounted,
      RunningWriteIsNotFailed, Members, Waiting
  <2>4. QED
    BY <2>2, <2>3 DEF IInv
<1>10. QED
  BY <1>1, <1>2, <1>3, <1>4, <1>5, <1>6, <1>7, <1>8, <1>9 DEF Next, ThreadStep

LEMMA InitSatisfiesIInv == Init => IInv
<1>1. SUFFICES ASSUME Init PROVE IInv
  OBVIOUS
<1>2. <<Writer, 1>> \in Thread /\ None \notin Thread /\ Members = {} /\ ~Stopped
  BY <1>1, LimitAssumption, NoneAssumption DEF Init, Thread, Lineage, Members, Stopped
<1>3. req \in [Request -> Req] /\ \A r \in Request : req[r].phase = "new" /\ req[r].at = None /\ req[r].answer = None
  BY <1>1 DEF Init, Req
<1>4. TypeOK
  <2>1. Cardinality(Reader) \in Nat
    BY LineageAssumption, FS_CardinalityType
  <2>2. running \subseteq Thread /\ engine \in Thread \cup {None}
    BY <1>1, <1>2 DEF Init
  <2>3. pool \in [Members -> 0..1]
    BY <1>1, <1>2 DEF Init
  <2>4. spawned \in [Lineage -> 0..(MaxDeaths + 1)] /\ crashes \in [Lineage -> Nat] /\ respawns \in [Lineage -> Nat]
    BY <1>1, LimitAssumption DEF Init
  <2>5. fallen = {} /\ readerWorkers = {} /\ liveReaders \in 0..Cardinality(Reader) /\ deaths \in 0..MaxDeaths
    BY <1>1, <2>1, LimitAssumption DEF Init
  <2>6. mode \in {"starting", "threaded", "single", "stopped"} /\ everBeat \in BOOLEAN
    BY <1>1 DEF Init
  <2>7. QED
    BY <1>2, <1>3, <2>2, <2>3, <2>4, <2>5, <2>6 DEF TypeOK
<1>5. Known \subseteq {<<Writer, 1>>}
  BY <1>1, <1>2, <1>3 DEF Init, Known
<1>6. KnownAreOld
  BY <1>1, <1>5, LineageAssumption DEF Init, KnownAreOld, Lineage
<1>7. FallenAreDead /\ WriterIsEngine /\ ReadersAreMains /\ NoReaderYet
  BY <1>1, <1>2, LineageAssumption DEF Init, FallenAreDead, WriterIsEngine, ReadersAreMains, NoReaderYet, Lineage
<1>8. SlotsAreHeld /\ WaitersAreServed /\ LiveReadersCounted /\ RunningWriteIsNotFailed
  BY <1>1, <1>2, <1>3, NoneAssumption, RequestAssumption
    DEF Init, SlotsAreHeld, WaitersAreServed, LiveReadersCounted, RunningWriteIsNotFailed
<1>9. SpawnsAnswerCrashes
  <2>1. \A l : FallenOf(l) = {}
    BY <1>1 DEF Init, FallenOf
  <2>2. Cardinality({}) = 0
    BY FS_EmptySet
  <2>3. SUFFICES ASSUME NEW l \in Lineage PROVE spawned[l] + Cardinality(FallenOf(l)) <= deaths + 1
    BY DEF SpawnsAnswerCrashes
  <2>4. spawned[l] \in 0..1 /\ deaths = 0
    BY <1>1 DEF Init
  <2>5. Cardinality(FallenOf(l)) = 0
    BY <2>1, <2>2
  <2>6. QED
    BY <2>4, <2>5
<1>10. QED
  BY <1>4, <1>6, <1>7, <1>8, <1>9 DEF IInv

LEMMA IInvIsInvariant == Spec => []IInv
<1>1. QED
  BY InitSatisfiesIInv, NextKeepsIInv, PTL DEF Spec

-----------------------------------------------------------------------------
(* What main believes, from IInv.                                          *)

LEMMA BooksAreTrue == IInv => ThreadsAreAccountedFor
<1>1. SUFFICES ASSUME IInv PROVE ThreadsAreAccountedFor
  OBVIOUS
<1>2. AtMostOneWriter
  <2>. DEFINE writers == {t \in running : t[1] = Writer}
  <2>1. writers \subseteq {engine} /\ (Stopped => writers = {})
    BY <1>1 DEF IInv, WriterIsEngine
  <2>2. Cardinality({engine}) = 1 /\ IsFiniteSet({engine})
    BY FS_Singleton
  <2>3. Cardinality(writers) <= 1
    BY <2>1, <2>2, FS_Subset
  <2>4. QED
    BY <2>1, <2>3 DEF AtMostOneWriter
<1>3. SlotsMatchHolders
  <2>1. SUFFICES ASSUME NEW t \in Members PROVE pool[t] = Cardinality(Waiting(t))
    BY DEF SlotsMatchHolders
  <2>2. pool[t] = 0 \/ pool[t] = 1
    BY <1>1 DEF IInv, TypeOK
  <2>3. CASE pool[t] = 0
    BY <1>1, <2>3, FS_EmptySet DEF IInv, SlotsAreHeld
  <2>4. CASE pool[t] = 1
    <3>1. PICK r \in Request : Waiting(t) = {r}
      BY <1>1, <2>4 DEF IInv, SlotsAreHeld
    <3>2. Cardinality({r}) = 1
      BY FS_Singleton
    <3>3. QED
      BY <2>4, <3>1, <3>2
  <2>5. QED
    BY <2>2, <2>3, <2>4
<1>4. QED
  BY <1>1, <1>2, <1>3 DEF IInv, ThreadsAreAccountedFor

(* With no reader counted, main has none. *)
LEMMA NoneCountedNoneThere ==
  ASSUME IInv, NEW r \in Request, req[r].phase = "acquiring", liveReaders = 0
  PROVE  readerWorkers = {}
<1>1. CASE mode = "threaded"
  <2>1. Cardinality(readerWorkers) = 0 /\ IsFiniteSet(readerWorkers)
    BY <1>1, CountsAreFinite DEF IInv, LiveReadersCounted
  <2>2. QED
    BY <2>1, FS_EmptySet
<1>2. CASE Stopped
  BY <1>2 DEF IInv, ReadersAreMains
<1>3. CASE mode = "starting"
  BY <1>3, NoReaderBeforeListen
<1>4. QED
  BY <1>1, <1>2, <1>3 DEF IInv, TypeOK, Stopped

-----------------------------------------------------------------------------
(* Refinement of RequestService.                                           *)

(* Nobody works on a request before it is posted, and one that is turned away
   never is. *)
UnpostedIsUntouched ==
  \A r \in Request :
    req[r].phase \in {"new", "acquiring"} \/ req[r].answer \in {"saturated", "unavailable"} => req[r].work = "none"

(* What a caller sees of the requests. *)
Accepted == {r \in Request : req[r].phase # "new"}
CarriedOut == {r \in Request : req[r].work = "landed"}
AnswerOf == [r \in Request |-> req[r].answer]

LEMMA OpenRequests == Service!Open = {r \in Accepted : AnswerOf[r] = None}
BY DEF Service!Open, Accepted, CarriedOut, AnswerOf

(* One request gets an answer it may get. *)
LEMMA AnAnswerReplies ==
  ASSUME IInv, UnpostedIsUntouched, NEW r \in Request, req[r].phase \in {"acquiring", "waiting"},
         NEW a \in {"ok", "failed", "in_flight", "saturated", "unavailable"}, req' = Answered(req, r, a),
         a = "ok" => req[r].work = "landed",
         a \in {"saturated", "unavailable"} => req[r].phase = "acquiring",
         a = "in_flight" => r \in ListedWrites
  PROVE  UnpostedIsUntouched' /\ Service!Next
<1>1. /\ req \in [Request -> Req] /\ req' \in [Request -> Req] /\ \A q \in Request \ {r} : req'[q] = req[q]
      /\ req'[r].phase = "answered" /\ req'[r].answer = a /\ req'[r].work = req[r].work
  BY AnsweredEffect DEF IInv, TypeOK
<1>2. a \in {"saturated", "unavailable"} => req[r].work = "none"
  BY DEF UnpostedIsUntouched
<1>3. UnpostedIsUntouched'
  BY <1>1, <1>2 DEF UnpostedIsUntouched
<1>4. Accepted' = Accepted /\ CarriedOut' = CarriedOut /\ AnswerOf' = [AnswerOf EXCEPT ![r] = a]
  BY <1>1 DEF Accepted, CarriedOut, AnswerOf
<1>5. r \in {q \in Accepted : AnswerOf[q] = None}
  BY DEF IInv, WaitersAreServed, Accepted, AnswerOf
<1>6. a \in Service!AnswersTo(r)
  BY <1>2 DEF Service!AnswersTo, Service!Turned
<1>7. Service!Reply
  BY <1>4, <1>5, <1>6, OpenRequests DEF Service!Reply, Accepted, CarriedOut, AnswerOf
<1>8. QED
  BY <1>3, <1>7 DEF Service!Next

(* The requests main awaits from dead threads fail together. *)
LEMMA RejectingGivesUp ==
  ASSUME IInv, UnpostedIsUntouched, NEW ts, req' = RejectAll(ts)
  PROVE  UnpostedIsUntouched' /\ Service!Next
<1> DEFINE R == {r \in Request : req[r].phase = "waiting" /\ req[r].at \in ts}
<1>1. /\ req \in [Request -> Req] /\ req' \in [Request -> Req]
      /\ \A r \in Request \ R : req'[r] = req[r]
      /\ \A r \in R : req'[r].phase = "answered" /\ req'[r].answer = "failed" /\ req'[r].work = req[r].work
  BY DEF RejectAll, Req, IInv, TypeOK
<1>2. UnpostedIsUntouched'
  BY <1>1 DEF UnpostedIsUntouched
<1>3. /\ Accepted' = Accepted /\ CarriedOut' = CarriedOut
      /\ AnswerOf' = [r \in Request |-> IF r \in R THEN "failed" ELSE AnswerOf[r]]
  BY <1>1 DEF Accepted, CarriedOut, AnswerOf
<1>4. R \subseteq {r \in Accepted : AnswerOf[r] = None}
  BY DEF IInv, WaitersAreServed, Accepted, AnswerOf
<1>5. Service!GiveUp
  BY <1>3, <1>4, OpenRequests DEF Service!GiveUp, Accepted, CarriedOut, AnswerOf
<1>6. QED
  BY <1>2, <1>5 DEF Service!Next

(* A request that waits for nobody yet goes to a thread. *)
LEMMA PostingAccepts ==
  ASSUME IInv, UnpostedIsUntouched, NEW r \in Request, req[r].phase \in {"new", "acquiring"},
         NEW t \in Thread, req' = Posted(req, r, t)
  PROVE  UnpostedIsUntouched' /\ [Service!Next]_(Service!serviceVars)
<1>1. /\ req \in [Request -> Req] /\ req' \in [Request -> Req] /\ \A q \in Request \ {r} : req'[q] = req[q]
      /\ req'[r].phase = "waiting" /\ req'[r].answer = req[r].answer
  BY PostedEffect DEF IInv, TypeOK
<1>2. req'[r].work = "posted" /\ req[r].work = "none" /\ req[r].answer = None
  BY DEF Posted, IInv, TypeOK, WaitersAreServed, UnpostedIsUntouched, Req
<1>3. UnpostedIsUntouched'
  BY <1>1, <1>2, NoneAssumption DEF UnpostedIsUntouched
<1>4. Accepted' = Accepted \cup {r} /\ CarriedOut' = CarriedOut /\ AnswerOf' = AnswerOf
  BY <1>1, <1>2 DEF Accepted, CarriedOut, AnswerOf
<1>5. CASE req[r].phase = "new"
  <2>1. r \in Request \ Accepted
    BY <1>5 DEF Accepted
  <2>2. Service!Accept
    BY <1>4, <2>1 DEF Service!Accept, Accepted, CarriedOut, AnswerOf
  <2>3. QED
    BY <1>3, <2>2 DEF Service!Next
<1>6. CASE req[r].phase = "acquiring"
  <2>1. Accepted' = Accepted
    BY <1>4, <1>6 DEF Accepted
  <2>2. QED
    BY <1>3, <1>4, <2>1 DEF Service!serviceVars, Accepted, CarriedOut, AnswerOf
<1>7. QED
  BY <1>5, <1>6

LEMMA ArriveServes ==
  ASSUME IInv, UnpostedIsUntouched, NEW r \in Request, Arrive(r)
  PROVE  UnpostedIsUntouched' /\ [Service!Next]_(Service!serviceVars)
<1>1. req \in [Request -> Req] /\ req[r].phase = "new"
  BY DEF Arrive, IInv, TypeOK
<1>2. CASE req' = [req EXCEPT ![r].phase = "acquiring"]
  <2>1. /\ req' \in [Request -> Req] /\ \A q \in Request \ {r} : req'[q] = req[q]
        /\ req'[r].phase = "acquiring" /\ req'[r].work = req[r].work /\ req'[r].answer = req[r].answer
    BY <1>1, <1>2 DEF Req
  <2>2. UnpostedIsUntouched'
    BY <1>1, <2>1 DEF UnpostedIsUntouched
  <2>3. Accepted' = Accepted \cup {r} /\ CarriedOut' = CarriedOut /\ AnswerOf' = AnswerOf /\ r \in Request \ Accepted
    BY <1>1, <2>1 DEF Accepted, CarriedOut, AnswerOf
  <2>4. Service!Accept
    BY <2>3 DEF Service!Accept, Accepted, CarriedOut, AnswerOf
  <2>5. QED
    BY <2>2, <2>4 DEF Service!Next
<1>3. CASE engine = None /\ req' = Answered(req, r, "unavailable")
  <2>1. /\ req' \in [Request -> Req] /\ \A q \in Request \ {r} : req'[q] = req[q]
        /\ req'[r].phase = "answered" /\ req'[r].answer = "unavailable" /\ req'[r].work = req[r].work
    BY <1>1, <1>3, AnsweredEffect
  <2>2. UnpostedIsUntouched'
    BY <1>1, <2>1 DEF UnpostedIsUntouched
  <2>3. /\ Accepted' = Accepted \cup {r} /\ CarriedOut' = CarriedOut
        /\ AnswerOf' = [AnswerOf EXCEPT ![r] = "unavailable"] /\ r \in Request \ Accepted
    BY <1>1, <2>1 DEF Accepted, CarriedOut, AnswerOf
  <2>4. Service!TurnAway
    BY <2>3 DEF Service!TurnAway, Accepted, CarriedOut, AnswerOf
  <2>5. QED
    BY <2>2, <2>4 DEF Service!Next
<1>4. CASE engine # None /\ req' = Posted(req, r, engine)
  BY <1>1, <1>4, PostingAccepts DEF IInv, TypeOK
<1>5. QED
  BY <1>2, <1>3, <1>4 DEF Arrive, Forward

LEMMA PollServes ==
  ASSUME IInv, UnpostedIsUntouched, NEW r \in Request, Poll(r)
  PROVE  UnpostedIsUntouched' /\ [Service!Next]_(Service!serviceVars)
<1>1. req[r].phase = "acquiring"
  BY DEF Poll
<1>2. CASE \E a \in {"failed", "saturated", "unavailable"} : req' = Answered(req, r, a)
  BY <1>1, <1>2, AnAnswerReplies
<1>3. CASE \E t \in Thread : req' = Posted(req, r, t)
  BY <1>1, <1>3, PostingAccepts
<1>4. CASE Acquire(r)
  BY <1>2, <1>3, <1>4 DEF Acquire, Picked, IInv, TypeOK
<1>5. CASE Spill(r)
  BY <1>2, <1>3, <1>5 DEF Spill, Forward, IInv, TypeOK
<1>6. CASE Saturated(r)
  BY <1>2, <1>6 DEF Saturated
<1>7. QED
  BY <1>4, <1>5, <1>6 DEF Poll

LEMMA ExecuteServes ==
  ASSUME IInv, UnpostedIsUntouched, NEW r \in Request, Execute(r)
  PROVE  UnpostedIsUntouched' /\ [Service!Next]_(Service!serviceVars)
<1>1. req \in [Request -> Req] /\ req[r].work = "posted" /\ req[r].at \in running
  BY DEF Execute, IInv, TypeOK
<1>2. /\ req' \in [Request -> Req] /\ \A q \in Request \ {r} : req'[q] = req[q]
      /\ req'[r].work = "landed" /\ req'[r].phase = req[r].phase /\ req'[r].answer = req[r].answer
  BY <1>1 DEF Execute, Req
<1>3. req[r].phase \notin {"new", "acquiring"} /\ req[r].answer \notin {"saturated", "unavailable"}
  BY <1>1 DEF UnpostedIsUntouched
<1>4. UnpostedIsUntouched'
  BY <1>2, <1>3 DEF UnpostedIsUntouched
<1>5. Accepted' = Accepted /\ CarriedOut' = CarriedOut \cup {r} /\ AnswerOf' = AnswerOf
  BY <1>2 DEF Accepted, CarriedOut, AnswerOf
<1>6. r \in Accepted \ CarriedOut
  BY <1>1, <1>3 DEF Accepted, CarriedOut
<1>7. AnswerOf[r] \notin Service!Final(r)
  BY <1>1, <1>3 DEF Service!Final, Service!Turned, AnswerOf, IInv, RunningWriteIsNotFailed
<1>8. Service!CarryOut
  BY <1>5, <1>6, <1>7 DEF Service!CarryOut, Accepted, CarriedOut, AnswerOf
<1>9. QED
  BY <1>4, <1>8 DEF Service!Next

LEMMA NextServes ==
  ASSUME IInv, UnpostedIsUntouched, [Next]_vars
  PROVE  UnpostedIsUntouched' /\ [Service!Next]_(Service!serviceVars)
<1>1. CASE req' = req
  BY <1>1 DEF UnpostedIsUntouched, Service!serviceVars
<1>2. CASE \E ts : req' = RejectAll(ts)
  BY <1>2, RejectingGivesUp
<1>3. CASE ThreadStep
  BY <1>1, <1>2, <1>3
    DEF ThreadStep, Beat, Listen, FallBack, Stop, ReaderReady, Crash, DeathIgnored, EngineDies, ReaderDies, CrashAges
<1>4. ASSUME NEW r \in Request, Deliver(r) \/ Timeout(r)
      PROVE  UnpostedIsUntouched' /\ [Service!Next]_(Service!serviceVars)
  <2>1. CASE Deliver(r)
    BY <2>1, AnAnswerReplies DEF Deliver
  <2>2. CASE Timeout(r)
    <3>1. TimeoutAnswer(r) \in {"failed", "in_flight"} /\ (TimeoutAnswer(r) = "in_flight" => r \in ListedWrites)
      BY DEF TimeoutAnswer
    <3>2. QED
      BY <2>2, <3>1, AnAnswerReplies DEF Timeout
  <2>3. QED
    BY <1>4, <2>1, <2>2
<1>5. CASE RequestStep
  BY <1>4, <1>5, ArriveServes, PollServes, ExecuteServes DEF RequestStep
<1>6. CASE UNCHANGED vars
  BY <1>1, <1>6 DEF vars
<1>7. QED
  BY <1>3, <1>5, <1>6 DEF Next

-----------------------------------------------------------------------------

(* Each variable keeps its type; in particular the slots of a reader stay
   between none and one, and the readers main counts never go below zero. *)
THEOREM TypeCorrect == Spec => []TypeOK
<1>1. IInv => TypeOK
  BY DEF IInv
<1>2. QED
  BY <1>1, IInvIsInvariant, PTL

(* Main's books are true whatever crashes, respawns, times out or stops: at most
   one writer engine is alive (handleEngineDeath, the fallback and stop included),
   a reader's slots in use are the requests main awaits from it (ReaderPool), and
   liveReaders counts the readers there are. *)
THEOREM BooksStayTrue == Spec => []ThreadsAreAccountedFor
<1>1. QED
  BY BooksAreTrue, IInvIsInvariant, PTL

(* A write of IN_FLIGHT_ON_TIMEOUT is reported failed only once the thread it was
   posted to is gone: never because main ran out of patience. *)
THEOREM FailedMeansGone == Spec => []RunningWriteIsNotFailed
<1>1. IInv => RunningWriteIsNotFailed
  BY DEF IInv
<1>2. QED
  BY <1>1, IInvIsInvariant, PTL

(* A read is posted to the writer only when main has no reader left: one that finds
   every reader busy keeps waiting (acquireReader: "We do NOT spill to the writer"). *)
THEOREM NoReadSpills == Spec => ReadsStayOffTheWriter
<1>. DEFINE Off == \A r \in Reads : req'[r].at # req[r].at /\ req'[r].at[1] = Writer => readerWorkers = {}
<1>1. ASSUME IInv, Next PROVE Off
  <2>1. SUFFICES ASSUME NEW r \in Reads, req'[r].at # req[r].at, req'[r].at[1] = Writer PROVE readerWorkers = {}
    OBVIOUS
  <2>2. r \in Request /\ req \in [Request -> Req]
    BY <1>1, RequestAssumption DEF IInv, TypeOK
  <2>3. CASE ThreadStep
    <3>1. req' = req \/ \E ts : req' = RejectAll(ts)
      BY <2>3 DEF ThreadStep, Beat, Listen, FallBack, Stop, ReaderReady, Crash, DeathIgnored, EngineDies, ReaderDies, CrashAges
    <3>2. QED
      BY <2>1, <2>2, <3>1, RejectAllEffect
  <2>4. ASSUME NEW q \in Request, Arrive(q) PROVE readerWorkers = {}
    <3>1. req' # [req EXCEPT ![q].phase = "acquiring"]
      BY <2>1, <2>2 DEF Req
    <3>2. Forward(q)
      BY <2>4, <3>1 DEF Arrive
    <3>3. q = r
      BY <2>1, <2>2, <3>2 DEF Forward, Posted, Answered
    <3>4. Reader = {}
      BY <2>4, <3>1, <3>3 DEF Arrive
    <3>5. QED
      BY <1>1, <3>4 DEF IInv, ReadersAreMains
  <2>5. ASSUME NEW q \in Request, Poll(q) PROVE readerWorkers = {}
    <3>1. q = r /\ req[r].phase = "acquiring"
      BY <2>1, <2>2, <2>5 DEF Poll, Acquire, Spill, Saturated, Forward, Posted, Answered
    <3>2. CASE Acquire(q)
      <4>1. PICK t \in Picked : IF t \in readerWorkers THEN req' = Posted(req, q, t) ELSE req' = Answered(req, q, "failed")
        BY <3>2 DEF Acquire
      <4>2. t \in readerWorkers /\ t \in Thread
        BY <1>1, <2>1, <2>2, <3>1, <4>1, AnsweredEffect DEF IInv, TypeOK
      <4>3. req'[r].at = t
        BY <2>2, <3>1, <4>1, <4>2, PostedEffect
      <4>4. QED
        BY <1>1, <2>1, <4>2, <4>3, LineageAssumption DEF IInv, ReadersAreMains
    <3>3. CASE Spill(q)
      BY <1>1, <2>2, <3>1, <3>3, NoneCountedNoneThere DEF Spill
    <3>4. CASE Saturated(q)
      BY <2>1, <2>2, <3>1, <3>4, AnsweredEffect DEF Saturated
    <3>5. QED
      BY <2>5, <3>1, <3>2, <3>3, <3>4 DEF Poll
  <2>6. ASSUME NEW q \in Request, Execute(q) \/ Deliver(q) \/ Timeout(q) PROVE readerWorkers = {}
    BY <2>1, <2>2, <2>6 DEF Execute, Deliver, Timeout, Answered, Req
  <2>7. QED
    BY <1>1, <2>3, <2>4, <2>5, <2>6 DEF Next, RequestStep
<1>2. ASSUME IInv, UNCHANGED vars PROVE Off
  BY <1>2 DEF vars
<1>3. IInv /\ [Next]_vars => Off
  BY <1>1, <1>2
<1>4. QED
  BY <1>3, IInvIsInvariant, PTL DEF Spec, ReadsStayOffTheWriter
(* A caller is served as RequestService says, whatever crashes, times out or stops:
   a request is carried out at most once and answered at most once, a 503 for lack
   of a thread means that it never runs (acquireReader, forwardToWriter), and a
   listed write reported failed does not run afterwards. *)
THEOREM WorkerServes == Spec => ImplementsService
<1>1. Init => Service!Init /\ UnpostedIsUntouched
  BY DEF Init, Service!Init, UnpostedIsUntouched
<1>2. IInv /\ UnpostedIsUntouched /\ [Next]_vars => UnpostedIsUntouched' /\ [Service!Next]_(Service!serviceVars)
  BY NextServes
<1>3. QED
  BY <1>1, <1>2, IInvIsInvariant, PTL DEF Spec, ImplementsService, Service!Spec
=============================================================================
