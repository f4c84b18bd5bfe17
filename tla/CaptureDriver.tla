---------------------------- MODULE CaptureDriver ----------------------------
(***************************************************************************)
(* Cross-AI capture (src/worker/capture/driver.ts, state.ts, the capture   *)
(* block of src/worker/index.ts).  A tick walks the quiescent transcripts  *)
(* of another AI tool, extracts the turns that are new since the last one, *)
(* queues them and records how far it came.  The interval and explicit     *)
(* backfills start ticks through a gate that runs one at a time.  A tick   *)
(* yields to the event loop after each session and, for a session that is  *)
(* parsed in full or is long, between its extract and its record; there,   *)
(* transcripts grow, native hooks report sessions and ticks start.         *)
(*                                                                         *)
(* A transcript is the sequence of its turns, a turn the amount of work    *)
(* written to it; a marker (mtime:size) changes with every append, so the  *)
(* transcript itself stands for it.  The source is an append-only one with *)
(* resume points and eventCountAtMarker, as codex is.  One source; the     *)
(* rewriting of transcripts and the redaction itself are not modelled.     *)
(***************************************************************************)
EXTENDS Integers, Sequences, FiniteSets

CONSTANTS
  Session,
  Historic,         \* sessions older than the backfill cutoff
  Tick, Backfill,   \* runs of the driver; those asked for explicitly
  RedactYieldEvery, \* events between two yields of the redaction
  MaxTurns, MaxWork,\* bounds on a transcript
  MaxRestarts,      \* bound on crashes
  Upgrades,         \* a restart may bring another parser version
  LateGrowth,       \* a transcript may grow between discover and its record
  Unreadable,       \* a transcript may fail to be read
  None

ASSUME SessionAssumption == Historic \subseteq Session /\ Backfill \subseteq Tick
ASSUME BoundAssumption ==
  /\ RedactYieldEvery \in Nat \ {0} /\ MaxRestarts \in Nat
  /\ MaxTurns \in Nat \ {0} /\ MaxWork \in Nat \ {0}
ASSUME SwitchAssumption ==
  Upgrades \in BOOLEAN /\ LateGrowth \in BOOLEAN /\ Unreadable \in BOOLEAN

VARIABLES
  transcript, \* what each session's tool has written
  historic,   \* sessions whose last write is older than the cutoff
  native,     \* native_capture_sessions
  cursor,     \* capture_ingested: marker, events_ingested, whether a resume point is usable
  current,    \* the gate's holder
  tick,
  restarts,
  queued,     \* history: how often a turn was queued
  seen,       \* history: the most of a turn that was queued
  late,       \* history: turns queued beyond the marker recorded with them
  misread     \* history: sessions one read of which failed

vars == <<transcript, historic, native, cursor, current, tick, restarts,
          queued, seen, late, misread>>
history == <<queued, seen, late, misread>>

Turn == 1..MaxTurns
Transcript == UNION {[1..n -> 1..MaxWork] : n \in 0..MaxTurns}
Cursor == [marker : Transcript, count : 0..MaxTurns, resume : BOOLEAN]

(* What a tick has in hand between two yields: the extract of one session, the
   marker it was discovered with, the one recorded before and the count of it. *)
Hand == [session : Session, marker : Transcript, since : Transcript \cup {None},
         events : Transcript, already : 0..MaxTurns, step : {"counting", "redacting"}]

ASSUME NoneAssumption == None \notin Tick \cup Transcript \cup Cursor \cup Hand

NoTick == [phase |-> "idle", after |-> None, left |-> <<>>, hand |-> None]

Init ==
  /\ transcript = [s \in Session |-> IF s \in Historic THEN <<1>> ELSE <<>>]
  /\ historic = Historic
  /\ native = {}
  /\ cursor = [s \in Session |-> None]
  /\ current = None
  /\ tick = [t \in Tick |-> NoTick]
  /\ restarts = 0
  /\ queued = [s \in Session |-> [k \in Turn |-> 0]]
  /\ seen = queued
  /\ late = [s \in Session |-> {}]
  /\ misread = {}

-----------------------------------------------------------------------------
(* The tools and their hooks *)

(* A running tick has discovered s and not recorded it yet. *)
InHand(s) ==
  \E t \in Tick :
    \/ s \in DOMAIN tick[t].left
    \/ tick[t].hand # None /\ tick[t].hand.session = s

Grow(s) ==
  /\ LateGrowth \/ ~InHand(s)
  /\ \/ Len(transcript[s]) < MaxTurns /\ transcript' = [transcript EXCEPT ![s] = Append(@, 1)]
     \/ /\ transcript[s] # <<>>
        /\ LET last == Len(transcript[s])
           IN  /\ transcript[s][last] < MaxWork
               /\ transcript' = [transcript EXCEPT ![s][last] = @ + 1]
  /\ historic' = historic \ {s}
  /\ UNCHANGED <<native, cursor, current, tick, restarts, history>>

(* POST /observation/enqueue of a native hook: markNativeSession *)
NativeHook(s) ==
  /\ s \notin native
  /\ native' = native \cup {s}
  /\ UNCHANGED <<transcript, historic, cursor, current, tick, restarts, history>>

-----------------------------------------------------------------------------
(* createTickGate *)

Active(t) == tick[t].phase # "idle"

(* Discovered at the start of a run: the sessions quiescent at that moment. *)
Discovered(refs) == [s \in refs |-> transcript[s]]
Written == {s \in Session : transcript[s] # <<>>}

(* interval: skipped while another holds the gate *)
Interval(t, refs) ==
  /\ t \notin Backfill /\ ~Active(t)
  /\ current = None
  /\ current' = t
  /\ tick' = [tick EXCEPT ![t].phase = "running", ![t].left = Discovered(refs)]
  /\ UNCHANGED <<transcript, historic, native, cursor, restarts, history>>

(* Mutant: the gate is taken before the one to wait for is looked up. *)
WaitsForItself(t) == t

WaitsFor(t) == current

(* backfill: takes the gate at once and waits for its holder *)
AskBackfill(t) ==
  /\ t \in Backfill /\ ~Active(t)
  /\ tick' = [tick EXCEPT ![t].phase = "waiting", ![t].after = WaitsFor(t)]
  /\ current' = t
  /\ UNCHANGED <<transcript, historic, native, cursor, restarts, history>>

StartBackfill(t, refs) ==
  /\ tick[t].phase = "waiting" /\ tick[t].after = None
  /\ tick' = [tick EXCEPT ![t].phase = "running", ![t].left = Discovered(refs)]
  /\ UNCHANGED <<transcript, historic, native, cursor, current, restarts, history>>

Freed(t) == IF current = t THEN None ELSE current

Finish(t) ==
  /\ tick[t].phase = "running" /\ DOMAIN tick[t].left = {} /\ tick[t].hand = None
  /\ tick' = [u \in Tick |->
       IF u = t THEN NoTick
       ELSE IF tick[u].after = t THEN [tick[u] EXCEPT !.after = None] ELSE tick[u]]
  /\ current' = Freed(t)
  /\ UNCHANGED <<transcript, historic, native, cursor, restarts, history>>

-----------------------------------------------------------------------------
(* runCaptureTick *)

Without(left, s) == [x \in DOMAIN left \ {s} |-> left[x]]

WasIngested(s, marker) == cursor[s] # None /\ cursor[s].marker = marker

Skip(t, s) ==
  /\ tick' = [tick EXCEPT ![t].left = Without(@, s), ![t].hand = None]
  /\ UNCHANGED <<cursor, queued, seen, late>>

(* The new tail; the whole extract when it became shorter. *)
Fresh(e) ==
  IF Len(e.events) >= e.already THEN (e.already + 1)..Len(e.events) ELSE 1..Len(e.events)

(* Mutant: the marker recorded is the transcript's at that time. *)
MarkerNow(e) == transcript[e.session]

RecordedMarker(e) == e.marker

(* Queue the turns and record the session, without a yield between. *)
Commit(t, e) ==
  LET s == e.session
  IN  /\ queued' = [queued EXCEPT ![s] = [k \in Turn |-> IF k \in Fresh(e) THEN @[k] + 1 ELSE @[k]]]
      /\ seen' = [seen EXCEPT ![s] = [k \in Turn |->
                    IF k \in Fresh(e) /\ e.events[k] > @[k] THEN e.events[k] ELSE @[k]]]
      /\ late' = [late EXCEPT ![s] = @ \cup (Fresh(e) \ 1..Len(e.marker))]
      /\ cursor' = [cursor EXCEPT ![s] =
           [marker |-> RecordedMarker(e), count |-> Len(e.events), resume |-> e.events # <<>>]]
      /\ tick' = [tick EXCEPT ![t].left = Without(@, s), ![t].hand = None]

Keep(t, e, step) ==
  /\ tick' = [tick EXCEPT ![t].left = Without(@, e.session), ![t].hand = [e EXCEPT !.step = step]]
  /\ UNCHANGED <<cursor, queued, seen, late>>

(* The redaction of a long tail yields; a short one is committed at once. *)
Proceed(t, e) ==
  IF Cardinality(Fresh(e)) >= RedactYieldEvery THEN Keep(t, e, "redacting") ELSE Commit(t, e)

Busy(t) == tick[t].hand # None

(* The extract is in hand; one parsed in full is to be counted against the cursor. *)
Extracted(t, s, events, parsed) ==
  LET known == cursor[s] # None
      e == [session |-> s, marker |-> tick[t].left[s], events |-> events, step |-> "counting",
            since |-> IF known THEN cursor[s].marker ELSE None,
            already |-> IF known THEN cursor[s].count ELSE 0]
  IN  IF known /\ parsed THEN Keep(t, e, "counting") ELSE Proceed(t, e)

(* One session, up to the first yield. *)
Look(t, s) ==
  /\ tick[t].phase = "running" /\ ~Busy(t)
  /\ s \in DOMAIN tick[t].left
  /\ IF (t \notin Backfill /\ s \in historic) \/ s \in native \/ WasIngested(s, tick[t].left[s])
       THEN Skip(t, s) /\ UNCHANGED misread
       ELSE \/ /\ Extracted(t, s, transcript[s], cursor[s] # None => ~cursor[s].resume)
               /\ UNCHANGED misread
            \/ Unreadable /\ Extracted(t, s, <<>>, TRUE) /\ misread' = misread \cup {s}
  /\ UNCHANGED <<transcript, historic, native, current, restarts>>

(* eventCountAtMarker: how many turns there were at the marker recorded before;
   null, and the recorded count stands, when the transcript cannot be read. *)
Count(t) ==
  /\ Busy(t) /\ tick[t].hand.step = "counting"
  /\ \/ /\ Proceed(t, [tick[t].hand EXCEPT !.already = Len(tick[t].hand.since)])
        /\ UNCHANGED misread
     \/ /\ Unreadable
        /\ Proceed(t, tick[t].hand)
        /\ misread' = misread \cup {tick[t].hand.session}
  /\ UNCHANGED <<transcript, historic, native, current, restarts>>

(* The redaction is through; another tick may have recorded this state since. *)
Redact(t) ==
  /\ Busy(t) /\ tick[t].hand.step = "redacting"
  /\ IF WasIngested(tick[t].hand.session, tick[t].hand.marker)
       THEN Skip(t, tick[t].hand.session) ELSE Commit(t, tick[t].hand)
  /\ UNCHANGED <<transcript, historic, native, current, restarts, misread>>

(* The worker dies at a yield and starts again, perhaps with another parser. *)
Restart ==
  /\ restarts < MaxRestarts
  /\ restarts' = restarts + 1
  /\ tick' = [t \in Tick |-> NoTick]
  /\ current' = None
  /\ \/ UNCHANGED cursor
     \/ Upgrades /\ cursor' = [s \in Session |->
           IF cursor[s] = None THEN None ELSE [cursor[s] EXCEPT !.resume = FALSE]]
  /\ UNCHANGED <<transcript, historic, native, history>>

-----------------------------------------------------------------------------
TickStep(t) ==
  \/ \E refs \in SUBSET Written : StartBackfill(t, refs)
  \/ \E s \in Session : Look(t, s)
  \/ Count(t) \/ Redact(t) \/ Finish(t)

Next ==
  \/ \E s \in Session : Grow(s) \/ NativeHook(s)
  \/ \E t \in Tick : (\E refs \in SUBSET Written : Interval(t, refs)) \/ AskBackfill(t) \/ TickStep(t)
  \/ Restart

Spec == Init /\ [][Next]_vars

(* The event loop runs what is due. *)
FairSpec == Spec /\ \A t \in Tick : WF_vars(TickStep(t))

-----------------------------------------------------------------------------
(* Properties *)

TypeOK ==
  /\ transcript \in [Session -> Transcript]
  /\ historic \subseteq Session /\ native \subseteq Session
  /\ cursor \in [Session -> Cursor \cup {None}]
  /\ current \in Tick \cup {None}
  /\ \A t \in Tick :
       /\ tick[t].phase \in {"idle", "waiting", "running"}
       /\ tick[t].after \in (Tick \ {t}) \cup {None}
       /\ DOMAIN tick[t].left \subseteq Session
       /\ \A s \in DOMAIN tick[t].left : tick[t].left[s] \in Transcript
       /\ tick[t].hand \in Hand \cup {None}
  /\ restarts \in 0..MaxRestarts /\ misread \subseteq Session
  /\ queued \in [Session -> [Turn -> Nat]] /\ seen \in [Session -> [Turn -> 0..MaxWork]]
  /\ late \in [Session -> SUBSET Turn]

(* "One capture tick at a time": however backfills are asked for while others
   wait or run, no two runs of the driver overlap. *)
OneTickAtATime == Cardinality({t \in Tick : tick[t].phase = "running"}) <= 1

(* A turn costs one summarizer call: it is queued once, across growing
   transcripts, overlapping requests, restarts at a yield and new parsers,
   when it was there as its session was discovered and every read worked. *)
NoTurnIsQueuedTwice ==
  \A s \in Session \ misread : \A k \in Turn \ late[s] : queued[s][k] <= 1

(* "For each finished session not yet ingested, extract its events and enqueue
   them": a session recorded in its present state has had every turn queued,
   when every read worked. *)
NoTurnIsSkipped ==
  \A s \in Session \ misread :
    WasIngested(s, transcript[s]) => \A k \in 1..Len(transcript[s]) : queued[s][k] > 0

(* A backfill is answered: it runs after those before it, and ends. *)
BackfillsEnd ==
  \A t \in Backfill : Active(t) ~> ~Active(t)
=============================================================================
