------------------------- MODULE ObservationUpkeep -------------------------
(***************************************************************************)
(* What else happens to an observation while it is live: the tide (a row   *)
(* nobody recalls sinks, a recall brings it back), the promotion of a      *)
(* recalled row to a memory file after a judge's verdict, and the link     *)
(* from a row about an old version to the newest one.  Each runs as a      *)
(* slice of the worker: it reads its candidates, and lets recalls and      *)
(* other requests run before it acts on the next one.                      *)
(*                                                                         *)
(* Buoyancy is a function of the days since the last recall, so a row is   *)
(* below both thresholds of a tier exactly when it is old enough for it.   *)
(***************************************************************************)
EXTENDS Naturals, FiniteSets, SequencesExt

CONSTANTS
  Obs,           \* observation ids
  Version,       \* of each row: 0 when its title names none, all about one entity
  AgeFloor,      \* days after which an active row may sink
  ArchiveAge,    \* days after which a dormant row may
  MaxPerRun,     \* memories one promotion slice writes at most
  MaxDays        \* bound of the exploration

ASSUME UpkeepAssumption ==
  /\ Obs \subseteq Nat /\ Version \in [Obs -> Nat]
  /\ AgeFloor \in Nat /\ ArchiveAge \in Nat /\ AgeFloor < ArchiveAge
  /\ MaxPerRun \in Nat \ {0} /\ MaxDays \in Nat

VARIABLES
  sea,       \* per row: day of the last recall, ever drilled, tide state
  sweep,     \* the tide sweep: its tier, the day it started, the candidates still to do
  day,
  stamp,     \* per row: the stamps of the judge's verdicts
  shadow,    \* rows with a shadow verdict
  memory,    \* rows some memory file was written from
  slice,     \* per promotion slice (the timer's, a request's): verdicts still to act on
  newer,     \* superseded_by (0: NULL)
  link       \* the supersede slice: pairs still to do

tideVars == <<sea, sweep, day>>
promotionVars == <<stamp, shadow, memory, slice>>
linkVars == <<newer, link>>
upkeepVars == <<tideVars, promotionVars, linkVars>>

Tier == {"active", "dormant", "archived"}

Below == [active |-> "dormant", dormant |-> "archived"]

AgeOf == [active |-> AgeFloor, dormant |-> ArchiveAge]

IdleSweep == [tier |-> "none", start |-> 0, plan |-> <<>>]

Slicer == {"timer", "route"}

(* A slice acts on its verdicts or records them in shadow: the worker's mode, or the request's. *)
IdleSlice == [stage |-> "none", shadow |-> FALSE, rows |-> {}, keeps |-> {}, done |-> 0]

UpkeepTypeOK ==
  /\ sea \in [Obs -> [last : 0 .. MaxDays, drilled : BOOLEAN, tide : Tier]]
  /\ sweep.tier \in {"none", "active", "dormant"}
  /\ day \in 0 .. MaxDays
  /\ stamp \in [Obs -> SUBSET {"promoted", "declined"}]
  /\ shadow \subseteq Obs /\ memory \subseteq Obs
  /\ \A s \in Slicer : slice[s].stage \in {"none", "judging", "acting"} /\ slice[s].done \in 0 .. MaxPerRun
  /\ newer \in [Obs -> Obs \cup {0}]

UpkeepInit ==
  /\ sea = [o \in Obs |-> [last |-> 0, drilled |-> FALSE, tide |-> "active"]]
  /\ sweep = IdleSweep /\ day = 0
  /\ stamp = [o \in Obs |-> {}] /\ shadow = {} /\ memory = {}
  /\ slice = [s \in Slicer |-> IdleSlice]
  /\ newer = [o \in Obs |-> 0] /\ link = {}

-----------------------------------------------------------------------------
(* The tide                                                                *)

DayPasses == day < MaxDays /\ day' = day + 1 /\ UNCHANGED <<sea, sweep, promotionVars, linkVars>>

(* bumpRetrieval with the tide on: the row surfaces. *)
Recall(o, drilled) ==
  /\ sea' = [sea EXCEPT ![o] = [last |-> day, drilled |-> @.drilled \/ drilled, tide |-> "active"]]
  /\ UNCHANGED <<sweep, day, promotionVars, linkVars>>

(* restoreObservation: the row surfaces, its recency stays. *)
RestoreObservation(o) ==
  /\ sea[o].tide # "active"
  /\ sea' = [sea EXCEPT ![o].tide = "active"]
  /\ UNCHANGED <<sweep, day, promotionVars, linkVars>>

(* tierDecision for a row as it is read, at the time the sweep started. *)
Sinks(o, tier, start) == ~sea[o].drilled /\ sea[o].last + AgeOf[tier] < start

(* tierSweepCandidates: the rows of a tier the sweep will sink, oldest first. *)
SweepCandidates(tier, start) ==
  SetToSortSeq({o \in Obs : sea[o].tide = tier /\ Sinks(o, tier, start)},
               LAMBDA a, b : sea[a].last < sea[b].last \/ (sea[a].last = sea[b].last /\ a < b))

(* The timer: one sweep at a time, active rows first. *)
StartSweep ==
  /\ sweep.tier = "none"
  /\ sweep' = [tier |-> "active", start |-> day, plan |-> SweepCandidates("active", day)]
  /\ UNCHANGED <<sea, day, promotionVars, linkVars>>

(* One candidate, then the loop gets a turn: the decision is about the row as it was read,
   and the row's state is set without another look. *)
SweepRow ==
  /\ sweep.plan # <<>>
  /\ sea' = [sea EXCEPT ![Head(sweep.plan)].tide = Below[sweep.tier]]
  /\ sweep' = [sweep EXCEPT !.plan = Tail(@)]
  /\ UNCHANGED <<day, promotionVars, linkVars>>

(* The dormant rows are read when the active ones are done. *)
NextTier ==
  /\ sweep.tier = "active" /\ sweep.plan = <<>>
  /\ sweep' = [sweep EXCEPT !.tier = "dormant", !.plan = SweepCandidates("dormant", sweep.start)]
  /\ UNCHANGED <<sea, day, promotionVars, linkVars>>

(* Done, preempted by ingest, or gone with the worker. *)
EndSweep ==
  /\ sweep.tier # "none" /\ sweep' = IdleSweep
  /\ UNCHANGED <<sea, day, promotionVars, linkVars>>

-----------------------------------------------------------------------------
(* Promotion                                                               *)

(* promotionCandidates, shadowCandidates and shadowJudgedCandidates. *)
PromotionCandidates == {o \in Obs : stamp[o] = {}}
ShadowCandidates == {o \in Obs : "promoted" \notin stamp[o] /\ o \notin shadow}

(* The timer's slice reads the unstamped rows in shadow too; a request's shadow slice reads
   the rows not judged in shadow, or those that were. *)
Readings(s, inShadow) ==
  IF s = "route" /\ inShadow THEN {ShadowCandidates, shadow} ELSE {PromotionCandidates}

StartSlice(s) ==
  /\ slice[s].stage = "none"
  /\ \E inShadow \in BOOLEAN : \E rows \in Readings(s, inShadow) \ {{}} :
       slice' = [slice EXCEPT ![s] = [IdleSlice EXCEPT !.stage = "judging", !.shadow = inShadow, !.rows = rows]]
  /\ UNCHANGED <<tideVars, stamp, shadow, memory, linkVars>>

(* The judge fails: nothing is stamped. *)
JudgeFails(s) ==
  /\ slice[s].stage = "judging" /\ slice' = [slice EXCEPT ![s] = IdleSlice]
  /\ UNCHANGED <<tideVars, stamp, shadow, memory, linkVars>>

(* The judge answers: the rows it left out are declined; in shadow every verdict is recorded
   and nothing else is done. *)
JudgeAnswers(s) ==
  /\ slice[s].stage = "judging"
  /\ \E keeps \in SUBSET slice[s].rows :
       IF slice[s].shadow
       THEN /\ shadow' = shadow \cup slice[s].rows
            /\ slice' = [slice EXCEPT ![s] = IdleSlice] /\ UNCHANGED stamp
       ELSE /\ stamp' = [o \in Obs |-> IF o \in slice[s].rows \ keeps THEN stamp[o] \cup {"declined"} ELSE stamp[o]]
            /\ slice' = [slice EXCEPT ![s].stage = "acting", ![s].keeps = keeps] /\ UNCHANGED shadow
  /\ UNCHANGED <<tideVars, memory, linkVars>>

(* Mutant: the row is stamped before its memory is written. *)
StampedFirst(o, written) ==
  /\ stamp' = [stamp EXCEPT ![o] = @ \cup {"promoted"}]
  /\ memory' = IF written THEN memory \cup {o} ELSE memory

(* writeMemory, then markPromoted; a write that fails leaves the row a candidate. *)
WriteAndStamp(o, written) ==
  /\ stamp' = IF written THEN [stamp EXCEPT ![o] = @ \cup {"promoted"}] ELSE stamp
  /\ memory' = IF written THEN memory \cup {o} ELSE memory

(* One verdict the judge kept, up to the cap; past it nothing is stamped. *)
ActOnKeep(s) ==
  /\ slice[s].stage = "acting"
  /\ \E o \in slice[s].keeps, written \in BOOLEAN :
       IF slice[s].done < MaxPerRun
       THEN /\ WriteAndStamp(o, written)
            /\ slice' = [slice EXCEPT ![s].keeps = @ \ {o}, ![s].done = IF written THEN @ + 1 ELSE @]
       ELSE slice' = [slice EXCEPT ![s].keeps = {}] /\ UNCHANGED <<stamp, memory>>
  /\ UNCHANGED <<tideVars, shadow, linkVars>>

EndSlice(s) ==
  /\ slice[s].stage = "acting" /\ slice[s].keeps = {} /\ slice' = [slice EXCEPT ![s] = IdleSlice]
  /\ UNCHANGED <<tideVars, stamp, shadow, memory, linkVars>>

(* The worker dies, perhaps with a file written and its row not stamped yet. *)
KilledBetween ==
  /\ \E s \in Slicer : slice[s].stage = "acting" /\ \E o \in slice[s].keeps : memory' = memory \cup {o}
  /\ slice' = [s \in Slicer |-> IdleSlice]
  /\ UNCHANGED <<tideVars, stamp, shadow, linkVars>>

-----------------------------------------------------------------------------
(* Superseded versions                                                     *)

(* supersedeCandidateWindow: every unlinked row of the entity against its newest one, the
   lowest id among equals, unless the older version was observed later. *)
SupersedeCandidates ==
  LET rows == {o \in Obs : Version[o] > 0 /\ newer[o] = 0}
      head == CHOOSE h \in rows : \A o \in rows : Version[h] > Version[o] \/ (Version[h] = Version[o] /\ h <= o)
  IN  IF rows = {} THEN {} ELSE {<<o, head>> : o \in {x \in rows : Version[x] < Version[head] /\ x < head}}

StartLinking ==
  /\ link = {} /\ SupersedeCandidates # {} /\ link' = SupersedeCandidates
  /\ UNCHANGED <<tideVars, promotionVars, newer>>

(* linkSupersede: nothing for a protected row, one whose vectors are apart, or one linked since. *)
LinkSupersede ==
  /\ \E p \in link, close \in BOOLEAN :
       /\ link' = link \ {p}
       /\ newer' = IF close /\ ~sea[p[1]].drilled /\ newer[p[1]] = 0
                   THEN [newer EXCEPT ![p[1]] = p[2]] ELSE newer
  /\ UNCHANGED <<tideVars, promotionVars>>

UnlinkSupersede(o) ==
  /\ newer[o] # 0 /\ newer' = [newer EXCEPT ![o] = 0]
  /\ UNCHANGED <<tideVars, promotionVars, link>>

-----------------------------------------------------------------------------
TideNext ==
  \/ DayPasses \/ StartSweep \/ SweepRow \/ NextTier \/ EndSweep
  \/ \E o \in Obs : Recall(o, TRUE) \/ Recall(o, FALSE) \/ RestoreObservation(o)

LinkNext ==
  \/ StartLinking \/ LinkSupersede
  \/ \E o \in Obs : Recall(o, TRUE) \/ UnlinkSupersede(o)

PromotionNext ==
  \/ \E s \in Slicer : StartSlice(s) \/ JudgeFails(s) \/ JudgeAnswers(s) \/ ActOnKeep(s) \/ EndSlice(s)
  \/ KilledBetween

UpkeepNext == TideNext \/ LinkNext \/ PromotionNext

UpkeepSpec == UpkeepInit /\ [][UpkeepNext]_upkeepVars

-----------------------------------------------------------------------------
(* Properties                                                              *)

(* worker/tide.ts: a row ever drilled never sinks ("a rare-but-critical fact that was once
   explicitly fetched never sinks"), whatever the sweep read before the drill. *)
DrilledRowsNeverSink == \A o \in Obs : sea[o].drilled => sea[o].tide = "active"

(* A row marked promoted, which no slice looks at again, has its memory: a failed write
   or a kill in between loses nothing the judge kept. *)
PromotedIsWritten == \A o \in Obs : "promoted" \in stamp[o] => o \in memory
=============================================================================
