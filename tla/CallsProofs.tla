----------------------------- MODULE CallsProofs -----------------------------
(***************************************************************************)
(* Machine-checked proofs about SummarizerCalls and CaptureDriver, for     *)
(* every set of askers, providers, models, sessions and runs of the driver *)
(* and every bound: a replaced login is refused once per asker at most,    *)
(* capture ticks do not overlap, and no turn is queued twice or skipped.   *)
(* The last section puts the two together, as module MCCalls runs them.    *)
(***************************************************************************)
EXTENDS MCCalls, FiniteSetTheorems, SequenceTheorems, TLAPS

-----------------------------------------------------------------------------
(* CaptureDriver: the gate.  The runs that are active stand in a queue, each
   waits for the one before it, and the gate's holder is the last; only the
   first runs. *)

Left == UNION {[S -> Transcript] : S \in SUBSET Session}
TickState == [phase : {"idle", "waiting", "running"}, after : Tick \cup {None}, left : Left,
              hand : Hand \cup {None}]

(* TypeOK, the ticks as records. *)
BooksTyped ==
  /\ transcript \in [Session -> Transcript]
  /\ historic \subseteq Session /\ native \subseteq Session
  /\ cursor \in [Session -> Cursor \cup {None}]
  /\ restarts \in 0..MaxRestarts /\ misread \subseteq Session
  /\ queued \in [Session -> [Turn -> Nat]] /\ seen \in [Session -> [Turn -> 0..MaxWork]]
  /\ late \in [Session -> SUBSET Turn]
TicksTyped ==
  /\ current \in Tick \cup {None}
  /\ tick \in [Tick -> TickState]
  /\ \A t \in Tick : tick[t].after # t
CaptureTyped == BooksTyped /\ TicksTyped

Queues(q) ==
  /\ q \in Seq(Tick)
  /\ \A i, j \in 1..Len(q) : q[i] = q[j] => i = j
  /\ \A t \in Tick : Active(t) <=> \E i \in 1..Len(q) : q[i] = t
  /\ \A i \in 1..Len(q) : tick[q[i]].after = IF i = 1 THEN None ELSE q[i - 1]
  /\ \A i \in 1..Len(q) : tick[q[i]].phase = "running" => i = 1
  /\ current = IF q = <<>> THEN None ELSE q[Len(q)]
GateIsAQueue == \E q \in Seq(Tick) : Queues(q)

OnlyRunningHolds ==
  \A t \in Tick : /\ tick[t].phase # "running" => DOMAIN tick[t].left = {} /\ tick[t].hand = None
                  /\ tick[t].phase = "idle" => tick[t].after = None

(* CaptureDriver: the books.  Lengths say it all: transcripts only grow. *)

Known(s) == cursor[s] # None

(* A marker that was recorded, one that was discovered and the transcript as it
   is now: each is a beginning of the next. *)
MarkersAreInOrder ==
  /\ \A s \in Session : Known(s) => Len(cursor[s].marker) <= Len(transcript[s])
  /\ \A t \in Tick : \A s \in DOMAIN tick[t].left :
       /\ Len(tick[t].left[s]) <= Len(transcript[s])
       /\ Known(s) => Len(cursor[s].marker) <= Len(tick[t].left[s])

(* The turns counted in the record of a session are the queued ones, and those
   beyond its marker are late. *)
RecordIsTrue(s) ==
  /\ ~Known(s) => \A k \in Turn : queued[s][k] = 0
  /\ Known(s) => /\ Len(cursor[s].marker) <= cursor[s].count
                 /\ cursor[s].count <= Len(transcript[s])
                 /\ \A k \in 1..cursor[s].count : queued[s][k] > 0
                 /\ \A k \in Turn : queued[s][k] > 0 =>
                      k <= cursor[s].count /\ (k <= Len(cursor[s].marker) \/ k \in late[s])
  /\ \A k \in Turn \ late[s] : queued[s][k] <= 1

(* What a tick has in hand fits the record it is going to replace; of the sessions
   in `bad` one read failed. *)
HandFits(e, bad) ==
  /\ Len(e.marker) <= Len(transcript[e.session])
  /\ e.since = IF Known(e.session) THEN cursor[e.session].marker ELSE None
  /\ Known(e.session) => Len(cursor[e.session].marker) <= Len(e.marker)
  /\ e.session \notin bad =>
       /\ Len(e.marker) <= Len(e.events) /\ Len(e.events) <= Len(transcript[e.session])
       /\ ~Known(e.session) => e.already = 0
       /\ Known(e.session) => /\ cursor[e.session].count <= Len(e.events)
                              /\ e.already \in {cursor[e.session].count, Len(cursor[e.session].marker)}

HandsFit ==
  \A t \in Tick : tick[t].hand # None =>
    /\ HandFits(tick[t].hand, misread)
    /\ tick[t].hand.session \notin DOMAIN tick[t].left
    /\ tick[t].hand.step = "counting" => Known(tick[t].hand.session)

BooksAreTrue == MarkersAreInOrder /\ HandsFit /\ \A s \in Session \ misread : RecordIsTrue(s)

CaptureInv == CaptureTyped /\ GateIsAQueue /\ OnlyRunningHolds /\ BooksAreTrue

-----------------------------------------------------------------------------
(* Transcripts and the records of a tick. *)

LEMMA TranscriptIsASequence ==
  ASSUME NEW x \in Transcript
  PROVE  x \in Seq(1..MaxWork) /\ Len(x) \in 0..MaxTurns /\ DOMAIN x = 1..Len(x)
<1>1. PICK n \in 0..MaxTurns : x \in [1..n -> 1..MaxWork]
  BY DEF Transcript
<1>2. n \in Nat /\ Len(x) = n /\ DOMAIN x = 1..n
  BY <1>1, BoundAssumption
<1>3. x \in Seq(1..MaxWork)
  BY <1>1, <1>2, SeqDef
<1>4. QED
  BY <1>2, <1>3

LEMMA EmptyTranscript == <<>> \in Transcript /\ Len(<<>>) = 0
<1>1. <<>> \in [1..0 -> 1..MaxWork] /\ 0 \in 0..MaxTurns
  BY BoundAssumption
<1>2. QED
  BY <1>1 DEF Transcript

LEMMA LongerTranscript ==
  ASSUME NEW x \in Transcript, Len(x) < MaxTurns
  PROVE  Append(x, 1) \in Transcript /\ Len(Append(x, 1)) = Len(x) + 1
<1>1. x \in Seq(1..MaxWork) /\ Len(x) \in 0..MaxTurns /\ 1 \in 1..MaxWork /\ MaxTurns \in Nat
  BY TranscriptIsASequence, BoundAssumption
<1>2. PICK y : y = Append(x, 1)
  OBVIOUS
<1>3. y \in Seq(1..MaxWork) /\ Len(y) = Len(x) + 1
  BY <1>1, <1>2
<1>4. y \in [1..Len(y) -> 1..MaxWork] /\ Len(y) \in 0..MaxTurns
  <2>1. y \in [1..Len(y) -> 1..MaxWork]
    BY <1>3, LenProperties
  <2>2. Len(y) \in 0..MaxTurns
    BY <1>1, <1>3
  <2>3. QED
    BY <2>1, <2>2
<1>5. QED
  BY <1>2, <1>3, <1>4 DEF Transcript

LEMMA GrownTranscript ==
  ASSUME NEW x \in Transcript, NEW k \in 1..Len(x), x[k] < MaxWork
  PROVE  [x EXCEPT ![k] = @ + 1] \in Transcript /\ Len([x EXCEPT ![k] = @ + 1]) = Len(x)
<1>1. x \in Seq(1..MaxWork) /\ Len(x) \in 0..MaxTurns /\ DOMAIN x = 1..Len(x) /\ MaxWork \in Nat
  BY TranscriptIsASequence, BoundAssumption
<1>2. PICK y : y = [x EXCEPT ![k] = @ + 1]
  OBVIOUS
<1>3. x \in [1..Len(x) -> 1..MaxWork] /\ x[k] \in 1..MaxWork
  BY <1>1
<1>4. x[k] + 1 \in 1..MaxWork
  BY <1>1, <1>3
<1>5. y \in [1..Len(x) -> 1..MaxWork]
  BY <1>2, <1>3, <1>4
<1>6. Len(y) = Len(x)
  BY <1>1, <1>5
<1>7. QED
  BY <1>1, <1>2, <1>5, <1>6 DEF Transcript

LEMMA NoTickIsTickState ==
  /\ NoTick \in TickState
  /\ NoTick.phase = "idle" /\ NoTick.after = None /\ DOMAIN NoTick.left = {} /\ NoTick.hand = None
<1>1. <<>> \in [{} -> Transcript] /\ DOMAIN <<>> = {}
  OBVIOUS
<1>2. <<>> \in Left
  BY <1>1 DEF Left
<1>3. QED
  BY <1>1, <1>2 DEF NoTick, TickState

(* What is None is not a run, a transcript, a record or something in hand. *)
LEMMA TypesAreNotNone ==
  /\ None \notin Tick /\ None \notin Transcript /\ None \notin Cursor /\ None \notin Hand
BY NoneAssumption

-----------------------------------------------------------------------------
(* The gate. *)

LEMMA OneTickRuns ==
  ASSUME GateIsAQueue, NEW t \in Tick, NEW u \in Tick,
         tick[t].phase = "running", tick[u].phase = "running"
  PROVE  t = u
<1>1. PICK q \in Seq(Tick) : Queues(q)
  BY DEF GateIsAQueue
<1>2. Active(t) /\ Active(u)
  BY DEF Active
<1>3. PICK i \in 1..Len(q) : q[i] = t
  BY <1>1, <1>2 DEF Queues
<1>4. PICK j \in 1..Len(q) : q[j] = u
  BY <1>1, <1>2 DEF Queues
<1>5. i = 1 /\ j = 1
  BY <1>1, <1>3, <1>4 DEF Queues
<1>6. QED
  BY <1>3, <1>4, <1>5

LEMMA GateStays ==
  ASSUME GateIsAQueue, current' = current,
         \A u \in Tick : tick'[u].phase = tick[u].phase /\ tick'[u].after = tick[u].after
  PROVE  GateIsAQueue'
<1>1. PICK q \in Seq(Tick) : Queues(q)
  BY DEF GateIsAQueue
<1>2. \A i \in 1..Len(q) : q[i] \in Tick
  OBVIOUS
<1>3. Queues(q)'
  BY <1>1, <1>2 DEF Queues, Active
<1>4. QED
  BY <1>3 DEF GateIsAQueue

(* The interval finds nobody in the queue; a backfill stands behind the last. *)
LEMMA JoinsTheQueue ==
  ASSUME GateIsAQueue, TicksTyped, NEW t \in Tick, ~Active(t), Active(t)',
         \A u \in Tick \ {t} : tick'[u] = tick[u],
         tick'[t].after = current, tick'[t].phase = "running" => current = None, current' = t
  PROVE  GateIsAQueue' /\ current # t
<1>1. PICK q \in Seq(Tick) : Queues(q)
  BY DEF GateIsAQueue
<1>2. PICK n : n = Len(q) /\ n \in Nat
  BY <1>1
<1>3. \A i \in 1..n : q[i] \in Tick /\ q[i] # t
  BY <1>1, <1>2 DEF Queues
<1>4. PICK r : r = Append(q, t)
  OBVIOUS
<1>5. r \in Seq(Tick) /\ Len(r) = n + 1 /\ r[n + 1] = t /\ \A i \in 1..n : r[i] = q[i]
  BY <1>1, <1>2, <1>4
<1>6. current = IF n = 0 THEN None ELSE q[n]
  BY <1>1, <1>2 DEF Queues
<1>7. \A i, j \in 1..(n + 1) : r[i] = r[j] => i = j
  BY <1>1, <1>2, <1>3, <1>5 DEF Queues
<1>8. ASSUME NEW u \in Tick
      PROVE  Active(u)' <=> \E i \in 1..(n + 1) : r[i] = u
  <2>1. CASE u = t
    BY <1>2, <1>5, <2>1
  <2>2. CASE u # t
    <3>1. Active(u)' <=> \E i \in 1..n : q[i] = u
      BY <1>1, <1>2, <2>2 DEF Queues, Active
    <3>2. QED
      BY <1>2, <1>5, <2>2, <3>1
  <2>3. QED
    BY <2>1, <2>2
<1>9. ASSUME NEW i \in 1..(n + 1)
      PROVE  /\ tick'[r[i]].after = IF i = 1 THEN None ELSE r[i - 1]
             /\ tick'[r[i]].phase = "running" => i = 1
  <2>1. CASE i = n + 1
    <3>1. r[i] = t /\ tick'[r[i]].after = current
      BY <1>5, <2>1
    <3>2. n # 0 => current # None
      <4>1. n # 0 => current \in Tick
        BY <1>2, <1>3, <1>6
      <4>2. QED
        BY <4>1, TypesAreNotNone
    <3>3. n # 0 => r[i - 1] = q[n]
      BY <1>2, <1>5, <2>1
    <3>4. QED
      BY <1>2, <1>6, <2>1, <3>1, <3>2, <3>3
  <2>2. CASE i \in 1..n
    <3>1. r[i] = q[i] /\ q[i] \in Tick \ {t} /\ tick'[q[i]] = tick[q[i]]
      BY <1>3, <1>5, <2>2
    <3>2. i # 1 => r[i - 1] = q[i - 1]
      BY <1>2, <1>5, <2>2
    <3>3. QED
      BY <1>1, <1>2, <2>2, <3>1, <3>2 DEF Queues
  <2>3. QED
    BY <1>2, <2>1, <2>2
<1>10. r # <<>> /\ current' = r[Len(r)]
  BY <1>2, <1>5
<1>11. Queues(r)'
  BY <1>2, <1>5, <1>7, <1>8, <1>9, <1>10 DEF Queues
<1>12. current # t
  <2>1. n # 0 => current # t
    BY <1>2, <1>3, <1>6
  <2>2. QED
    BY <1>6, <2>1, TypesAreNotNone
<1>13. QED
  BY <1>5, <1>11, <1>12 DEF GateIsAQueue

(* The one that ends is the first in the queue; the next waits for nobody. *)
LEMMA LeavesTheQueue ==
  ASSUME GateIsAQueue, NEW t \in Tick, tick[t].phase = "running", ~Active(t)',
         \A u \in Tick \ {t} : /\ tick'[u].phase = tick[u].phase
                               /\ tick'[u].after = IF tick[u].after = t THEN None ELSE tick[u].after,
         current' = Freed(t)
  PROVE  GateIsAQueue'
<1>1. PICK q \in Seq(Tick) : Queues(q)
  BY DEF GateIsAQueue
<1>2. PICK n : n = Len(q) /\ n \in Nat
  BY <1>1
<1>3. /\ n # 0 /\ q[1] = t /\ \A i \in 1..n : q[i] \in Tick /\ (i # 1 => q[i] # t)
  <2>1. Active(t)
    BY DEF Active
  <2>2. PICK i \in 1..n : q[i] = t
    BY <1>1, <1>2, <2>1 DEF Queues
  <2>3. i = 1
    BY <1>1, <1>2, <2>2 DEF Queues
  <2>4. \A j \in 1..n : q[j] \in Tick /\ (j # 1 => q[j] # t)
    BY <1>1, <1>2, <2>2, <2>3 DEF Queues
  <2>5. QED
    BY <1>2, <2>2, <2>3, <2>4
<1>4. PICK r : r = Tail(q)
  OBVIOUS
<1>5. r \in Seq(Tick) /\ Len(r) = n - 1 /\ \A i \in 1..(n - 1) : r[i] = q[i + 1]
  BY <1>1, <1>2, <1>3, <1>4
<1>6. \A i, j \in 1..(n - 1) : r[i] = r[j] => i = j
  <2>1. ASSUME NEW i \in 1..(n - 1), NEW j \in 1..(n - 1), r[i] = r[j]
        PROVE  i = j
    <3>1. q[i + 1] = q[j + 1] /\ i + 1 \in 1..n /\ j + 1 \in 1..n
      BY <1>2, <1>5, <2>1
    <3>2. i + 1 = j + 1
      BY <1>1, <1>2, <3>1 DEF Queues
    <3>3. QED
      BY <1>2, <3>2
  <2>2. QED
    BY <2>1
<1>7. ASSUME NEW u \in Tick
      PROVE  Active(u)' <=> \E i \in 1..(n - 1) : r[i] = u
  <2>1. ASSUME NEW i \in 1..(n - 1), r[i] = u PROVE Active(u)'
    <3>1. q[i + 1] = u /\ i + 1 \in 1..n /\ i + 1 # 1
      BY <1>2, <1>5, <2>1
    <3>2. u # t /\ Active(u)
      BY <1>1, <1>2, <1>3, <3>1 DEF Queues
    <3>3. QED
      BY <3>2 DEF Active
  <2>2. ASSUME Active(u)' PROVE \E i \in 1..(n - 1) : r[i] = u
    <3>1. u # t /\ Active(u)
      BY <2>2 DEF Active
    <3>2. PICK i \in 1..n : q[i] = u
      BY <1>1, <1>2, <3>1 DEF Queues
    <3>3. i # 1
      BY <1>3, <3>1, <3>2
    <3>4. i - 1 \in 1..(n - 1) /\ r[i - 1] = u
      BY <1>2, <1>5, <3>2, <3>3
    <3>5. QED
      BY <3>4
  <2>3. QED
    BY <2>1, <2>2
<1>8. ASSUME NEW i \in 1..(n - 1)
      PROVE  /\ tick'[r[i]].after = IF i = 1 THEN None ELSE r[i - 1]
             /\ tick'[r[i]].phase = "running" => i = 1
  <2>1. PICK j : j = i + 1 /\ j \in 1..n /\ j # 1 /\ j - 1 = i /\ i \in 1..n
    BY <1>2
  <2>2. r[i] = q[j] /\ q[j] \in Tick \ {t}
    BY <1>3, <1>5, <2>1
  <2>3. tick[q[j]].after = q[i] /\ tick[q[j]].phase # "running"
    BY <1>1, <1>2, <2>1 DEF Queues
  <2>4. CASE i = 1
    BY <1>3, <2>2, <2>3, <2>4
  <2>5. CASE i # 1
    <3>1. q[i] # t /\ r[i - 1] = q[i]
      BY <1>2, <1>3, <1>5, <2>1, <2>5
    <3>2. QED
      BY <2>2, <2>3, <2>5, <3>1
  <2>6. QED
    BY <2>4, <2>5
<1>9. current' = IF r = <<>> THEN None ELSE r[Len(r)]
  <2>1. current = q[n]
    BY <1>1, <1>2, <1>3 DEF Queues
  <2>2. CASE n = 1
    BY <1>3, <1>5, <2>1, <2>2 DEF Freed
  <2>3. CASE n # 1
    <3>1. r # <<>> /\ r[Len(r)] = q[n] /\ q[n] # t
      BY <1>2, <1>3, <1>5, <2>3
    <3>2. QED
      BY <2>1, <3>1 DEF Freed
  <2>4. QED
    BY <2>2, <2>3
<1>10. Queues(r)'
  BY <1>2, <1>5, <1>6, <1>7, <1>8, <1>9 DEF Queues
<1>11. QED
  BY <1>5, <1>10 DEF GateIsAQueue

-----------------------------------------------------------------------------
(* What the running tick may do with a session. *)

(* Only the running tick has sessions to look at, or one in hand. *)
LEMMA OthersHoldNothing ==
  ASSUME CaptureInv, NEW t \in Tick, tick[t].phase = "running", NEW u \in Tick, u # t
  PROVE  DOMAIN tick[u].left = {} /\ tick[u].hand = None
BY OneTickRuns DEF CaptureInv, OnlyRunningHolds

(* A session is taken from what is left; h is in hand afterwards. *)
Takes(t, s, h) == tick' = [tick EXCEPT ![t].left = Without(@, s), ![t].hand = h]

LEMMA HandStep ==
  ASSUME CaptureInv, NEW t \in Tick, tick[t].phase = "running", NEW s \in Session, NEW h \in Hand \cup {None},
         Takes(t, s, h), current' = current
  PROVE  /\ TicksTyped' /\ GateIsAQueue' /\ OnlyRunningHolds'
         /\ tick'[t].hand = h /\ DOMAIN tick'[t].left = DOMAIN tick[t].left \ {s}
         /\ \A x \in DOMAIN tick'[t].left : tick'[t].left[x] = tick[t].left[x]
         /\ \A u \in Tick \ {t} : tick'[u] = tick[u]
<1>1. tick \in [Tick -> TickState] /\ current \in Tick \cup {None} /\ \A u \in Tick : tick[u].after # u
  BY DEF CaptureInv, CaptureTyped, TicksTyped
<1>2. PICK l : l = Without(tick[t].left, s)
  OBVIOUS
<1>3. PICK r : r = [tick[t] EXCEPT !.left = l, !.hand = h]
  OBVIOUS
<1>4. tick' = [tick EXCEPT ![t] = r]
  BY <1>1, <1>2, <1>3 DEF TickState, Takes
<1>5. /\ l \in Left /\ DOMAIN l = DOMAIN tick[t].left \ {s}
      /\ \A x \in DOMAIN l : l[x] = tick[t].left[x]
  <2>1. PICK S \in SUBSET Session : tick[t].left \in [S -> Transcript]
    <3>1. tick[t].left \in Left
      BY <1>1 DEF TickState
    <3>2. QED
      BY <3>1 DEF Left
  <2>2. l \in [S \ {s} -> Transcript]
    BY <1>2, <2>1 DEF Without
  <2>3. DOMAIN l = DOMAIN tick[t].left \ {s} /\ \A x \in DOMAIN l : l[x] = tick[t].left[x]
    BY <1>2 DEF Without
  <2>4. S \ {s} \in SUBSET Session
    BY <2>1
  <2>5. QED
    BY <2>2, <2>3, <2>4 DEF Left
<1>6. /\ r \in TickState /\ r.left = l /\ r.hand = h
      /\ r.phase = tick[t].phase /\ r.after = tick[t].after
  BY <1>1, <1>3, <1>5 DEF TickState
<1>7. tick'[t] = r /\ (\A u \in Tick \ {t} : tick'[u] = tick[u]) /\ tick' \in [Tick -> TickState]
  BY <1>1, <1>4, <1>6
<1>8. \A u \in Tick : tick'[u].phase = tick[u].phase /\ tick'[u].after = tick[u].after
  BY <1>6, <1>7
<1>9. TicksTyped'
  BY <1>1, <1>7, <1>8 DEF TicksTyped
<1>10. GateIsAQueue'
  BY <1>8, GateStays DEF CaptureInv
<1>11. OnlyRunningHolds'
  BY <1>6, <1>7 DEF OnlyRunningHolds, CaptureInv
<1>12. QED
  BY <1>5, <1>6, <1>7, <1>9, <1>10, <1>11

LEMMA SkipKeepsInv ==
  ASSUME CaptureInv, NEW t \in Tick, tick[t].phase = "running", NEW s \in Session, Skip(t, s),
         UNCHANGED <<transcript, historic, native, current, restarts, misread>>
  PROVE  CaptureInv'
<1>1. /\ TicksTyped' /\ GateIsAQueue' /\ OnlyRunningHolds'
      /\ tick'[t].hand = None /\ DOMAIN tick'[t].left = DOMAIN tick[t].left \ {s}
      /\ \A x \in DOMAIN tick'[t].left : tick'[t].left[x] = tick[t].left[x]
      /\ \A u \in Tick \ {t} : tick'[u] = tick[u]
  BY HandStep DEF Skip, Takes
<1>2. UNCHANGED <<transcript, historic, native, current, restarts, misread, cursor, queued, seen, late>>
  BY DEF Skip
<1>3. BooksTyped'
  BY <1>2 DEF BooksTyped, CaptureInv, CaptureTyped
<1>4. MarkersAreInOrder'
  <2>1. ASSUME NEW u \in Tick, NEW x \in DOMAIN tick'[u].left
        PROVE  x \in DOMAIN tick[u].left /\ tick'[u].left[x] = tick[u].left[x]
    BY <1>1
  <2>2. QED
    BY <1>2, <2>1 DEF MarkersAreInOrder, CaptureInv, BooksAreTrue, Known
<1>5. HandsFit'
  <2>1. ASSUME NEW u \in Tick, tick'[u].hand # None
        PROVE  tick'[u] = tick[u]
    BY <1>1, <2>1
  <2>2. \A e, bad : HandFits(e, bad)' <=> HandFits(e, bad)
    BY <1>2 DEF HandFits, Known
  <2>3. QED
    BY <1>2, <2>1, <2>2 DEF HandsFit, CaptureInv, BooksAreTrue, Known
<1>6. \A x \in Session \ misread' : RecordIsTrue(x)'
  BY <1>2 DEF CaptureInv, BooksAreTrue, RecordIsTrue, Known
<1>7. QED
  BY <1>1, <1>3, <1>4, <1>5, <1>6 DEF CaptureInv, CaptureTyped, BooksAreTrue

(* What is kept in hand over a yield must fit, the books stay as they are. *)
LEMMA KeepKeepsInv ==
  ASSUME CaptureInv, NEW t \in Tick, tick[t].phase = "running", NEW e \in Hand, NEW step \in {"counting", "redacting"},
         Keep(t, e, step), HandFits(e, misread'), step = "counting" => Known(e.session),
         misread \subseteq misread', misread' \subseteq Session,
         UNCHANGED <<transcript, historic, native, current, restarts>>
  PROVE  CaptureInv'
<1>1. PICK h : h = [e EXCEPT !.step = step]
  OBVIOUS
<1>2. /\ h \in Hand /\ h.session = e.session /\ h.marker = e.marker /\ h.since = e.since
      /\ h.events = e.events /\ h.already = e.already /\ h.step = step
  BY <1>1 DEF Hand
<1>3. e.session \in Session
  BY DEF Hand
<1>4. /\ TicksTyped' /\ GateIsAQueue' /\ OnlyRunningHolds'
      /\ tick'[t].hand = h /\ DOMAIN tick'[t].left = DOMAIN tick[t].left \ {e.session}
      /\ \A x \in DOMAIN tick'[t].left : tick'[t].left[x] = tick[t].left[x]
      /\ \A u \in Tick \ {t} : tick'[u] = tick[u]
  <2>1. PICK s \in Session : s = e.session
    BY <1>3
  <2>2. Takes(t, s, h) /\ current' = current
    BY <1>1, <2>1 DEF Keep, Takes
  <2>3. h \in Hand \cup {None}
    BY <1>2
  <2>4. /\ TicksTyped' /\ GateIsAQueue' /\ OnlyRunningHolds'
        /\ tick'[t].hand = h /\ DOMAIN tick'[t].left = DOMAIN tick[t].left \ {s}
        /\ \A x \in DOMAIN tick'[t].left : tick'[t].left[x] = tick[t].left[x]
        /\ \A u \in Tick \ {t} : tick'[u] = tick[u]
    BY <2>2, <2>3, HandStep
  <2>5. QED
    BY <2>1, <2>4
<1>5. UNCHANGED <<transcript, historic, native, current, restarts, cursor, queued, seen, late>>
  BY DEF Keep
<1>6. BooksTyped'
  BY <1>5 DEF BooksTyped, CaptureInv, CaptureTyped
<1>7. MarkersAreInOrder'
  <2>1. ASSUME NEW u \in Tick, NEW x \in DOMAIN tick'[u].left
        PROVE  x \in DOMAIN tick[u].left /\ tick'[u].left[x] = tick[u].left[x]
    BY <1>4
  <2>2. QED
    BY <1>5, <2>1 DEF MarkersAreInOrder, CaptureInv, BooksAreTrue, Known
<1>8. HandsFit'
  <2>1. HandFits(h, misread)'
    BY <1>2, <1>5 DEF HandFits, Known
  <2>2. \A u \in Tick \ {t} : tick'[u].hand = None
    BY <1>4, OthersHoldNothing
  <2>3. QED
    BY <1>2, <1>4, <1>5, <2>1, <2>2 DEF HandsFit, Known
<1>9. \A x \in Session \ misread' : RecordIsTrue(x)'
  BY <1>5 DEF CaptureInv, BooksAreTrue, RecordIsTrue, Known
<1>10. QED
  BY <1>4, <1>6, <1>7, <1>8, <1>9 DEF CaptureInv, CaptureTyped, BooksAreTrue

(* Committing what is in hand: the turns that are fresh were not queued before, or
   late, and the new record says what is queued now. *)
LEMMA CommitKeepsInv ==
  ASSUME CaptureInv, NEW t \in Tick, tick[t].phase = "running", NEW e \in Hand,
         Commit(t, e), HandFits(e, misread'),
         misread \subseteq misread', misread' \subseteq Session,
         UNCHANGED <<transcript, historic, native, current, restarts>>
  PROVE  CaptureInv'
<1> DEFINE s == e.session
           N == Len(e.events)
           M == Len(e.marker)
<1>1. /\ s \in Session /\ e.marker \in Transcript /\ e.events \in Transcript /\ e.already \in 0..MaxTurns
      /\ N \in 0..MaxTurns /\ M \in 0..MaxTurns /\ MaxTurns \in Nat
      /\ \A k \in 1..N : e.events[k] \in 1..MaxWork
  <2>1. s \in Session /\ e.marker \in Transcript /\ e.events \in Transcript /\ e.already \in 0..MaxTurns
    BY DEF Hand
  <2>2. N \in 0..MaxTurns /\ M \in 0..MaxTurns /\ e.events \in Seq(1..MaxWork)
    BY <2>1, TranscriptIsASequence
  <2>3. \A k \in 1..N : e.events[k] \in 1..MaxWork
    BY <2>2, ElementOfSeq
  <2>4. QED
    BY <2>1, <2>2, <2>3, BoundAssumption
<1>2. BooksTyped
  BY DEF CaptureInv, CaptureTyped
<1>3. /\ TicksTyped' /\ GateIsAQueue' /\ OnlyRunningHolds'
      /\ tick'[t].hand = None /\ DOMAIN tick'[t].left = DOMAIN tick[t].left \ {s}
      /\ \A x \in DOMAIN tick'[t].left : tick'[t].left[x] = tick[t].left[x]
      /\ \A u \in Tick \ {t} : tick'[u] = tick[u]
  BY <1>1, HandStep DEF Commit, Takes
<1>4. PICK F : F = Fresh(e)
  OBVIOUS
<1>5. F \subseteq Turn /\ F \subseteq 1..N
  BY <1>1, <1>4 DEF Fresh, Turn
<1>6. PICK c : c = [marker |-> e.marker, count |-> N, resume |-> e.events # <<>>]
  OBVIOUS
<1>7. c \in Cursor /\ c.marker = e.marker /\ c.count = N /\ c # None
  <2>1. (e.events # <<>>) \in BOOLEAN
    OBVIOUS
  <2>2. c \in Cursor /\ c.marker = e.marker /\ c.count = N
    BY <1>1, <1>6, <2>1 DEF Cursor
  <2>3. QED
    BY <2>2, TypesAreNotNone
<1>8. /\ cursor' = [cursor EXCEPT ![s] = c]
      /\ queued' = [queued EXCEPT ![s] = [k \in Turn |-> IF k \in F THEN queued[s][k] + 1 ELSE queued[s][k]]]
      /\ seen' = [seen EXCEPT ![s] = [k \in Turn |->
                    IF k \in F /\ e.events[k] > seen[s][k] THEN e.events[k] ELSE seen[s][k]]]
      /\ late' = [late EXCEPT ![s] = late[s] \cup (F \ 1..M)]
  BY <1>1, <1>2, <1>4, <1>6 DEF Commit, RecordedMarker, BooksTyped
<1>9. BooksTyped'
  <2>1. cursor' \in [Session -> Cursor \cup {None}]
    BY <1>2, <1>7, <1>8 DEF BooksTyped
  <2>2. queued' \in [Session -> [Turn -> Nat]]
    <3>1. [k \in Turn |-> IF k \in F THEN queued[s][k] + 1 ELSE queued[s][k]] \in [Turn -> Nat]
      BY <1>1, <1>2 DEF BooksTyped
    <3>2. QED
      BY <1>2, <1>8, <3>1 DEF BooksTyped
  <2>3. seen' \in [Session -> [Turn -> 0..MaxWork]]
    <3>1. [k \in Turn |-> IF k \in F /\ e.events[k] > seen[s][k] THEN e.events[k] ELSE seen[s][k]]
            \in [Turn -> 0..MaxWork]
      BY <1>1, <1>2, <1>5, BoundAssumption DEF BooksTyped
    <3>2. QED
      BY <1>2, <1>8, <3>1 DEF BooksTyped
  <2>4. late' \in [Session -> SUBSET Turn]
    BY <1>1, <1>2, <1>5, <1>8 DEF BooksTyped
  <2>5. QED
    BY <1>2, <2>1, <2>2, <2>3, <2>4 DEF BooksTyped
<1>10. /\ cursor'[s] = c /\ late'[s] = late[s] \cup (F \ 1..M)
       /\ \A k \in Turn : queued'[s][k] = IF k \in F THEN queued[s][k] + 1 ELSE queued[s][k]
       /\ \A x \in Session \ {s} : cursor'[x] = cursor[x] /\ late'[x] = late[x] /\ queued'[x] = queued[x]
  BY <1>1, <1>2, <1>8 DEF BooksTyped
<1>11. MarkersAreInOrder'
  <2>1. ASSUME NEW u \in Tick, NEW x \in DOMAIN tick'[u].left
        PROVE  /\ x \in DOMAIN tick[u].left /\ tick'[u].left[x] = tick[u].left[x]
               /\ x # s
    <3>1. u = t
      BY <1>3, OthersHoldNothing
    <3>2. QED
      BY <1>3, <3>1
  <2>2. \A u \in Tick : DOMAIN tick[u].left \subseteq Session
    BY DEF CaptureInv, CaptureTyped, TicksTyped, TickState, Left
  <2>3. ASSUME NEW x \in Session, Known(x)'
        PROVE  Len(cursor'[x].marker) <= Len(transcript'[x])
    <3>1. CASE x = s
      BY <1>7, <1>10, <3>1 DEF HandFits
    <3>2. CASE x # s
      BY <1>10, <2>3, <3>2 DEF MarkersAreInOrder, CaptureInv, BooksAreTrue, Known
    <3>3. QED
      BY <3>1, <3>2
  <2>4. ASSUME NEW u \in Tick, NEW x \in DOMAIN tick'[u].left
        PROVE  /\ Len(tick'[u].left[x]) <= Len(transcript'[x])
               /\ Known(x)' => Len(cursor'[x].marker) <= Len(tick'[u].left[x])
    BY <1>10, <2>1, <2>2, <2>4 DEF MarkersAreInOrder, CaptureInv, BooksAreTrue, Known
  <2>5. QED
    BY <2>3, <2>4 DEF MarkersAreInOrder
<1>12. HandsFit'
  <2>1. \A u \in Tick : tick'[u].hand = None
    BY <1>3, OthersHoldNothing
  <2>2. QED
    BY <2>1 DEF HandsFit
<1>13. ASSUME s \notin misread'
       PROVE  RecordIsTrue(s)'
  <2>1. /\ RecordIsTrue(s)
        /\ M <= N /\ N <= Len(transcript[s])
        /\ ~Known(s) => e.already = 0
        /\ Known(s) => /\ cursor[s].count <= N /\ Len(cursor[s].marker) <= M
                       /\ e.already \in {cursor[s].count, Len(cursor[s].marker)}
    BY <1>1, <1>13 DEF CaptureInv, BooksAreTrue, HandFits
  <2>2. /\ Known(s) => cursor[s].count \in Nat /\ Len(cursor[s].marker) \in Nat
        /\ \A k \in Turn : queued[s][k] \in Nat
    BY <1>1, <1>2, TranscriptIsASequence DEF BooksTyped, Known, Cursor
  <2>3. Known(s) => Len(cursor[s].marker) <= cursor[s].count
    BY <2>1 DEF RecordIsTrue
  <2>4. e.already <= N
    BY <1>1, <2>1, <2>2, <2>3
  <2>5. F = (e.already + 1)..N
    BY <1>4, <2>4 DEF Fresh
  <2>6. N \in Nat /\ M \in Nat /\ e.already \in Nat
    BY <1>1
  <2>7. \A k \in 1..N : queued'[s][k] > 0
    <3>1. SUFFICES ASSUME NEW k \in 1..N PROVE queued'[s][k] > 0
      OBVIOUS
    <3>2. k \in Turn
      BY <1>1 DEF Turn
    <3>3. CASE k \in F
      BY <1>10, <2>2, <3>2, <3>3
    <3>4. CASE k \notin F
      <4>1. k <= e.already
        BY <2>5, <2>6, <3>4
      <4>2. Known(s)
        BY <2>1, <4>1
      <4>3. k \in 1..cursor[s].count
        BY <2>1, <2>2, <2>3, <4>1, <4>2
      <4>4. queued[s][k] > 0
        BY <2>1, <4>2, <4>3 DEF RecordIsTrue
      <4>5. QED
        BY <1>10, <3>2, <3>4, <4>4
    <3>5. QED
      BY <3>3, <3>4
  <2>8. ASSUME NEW k \in Turn, queued'[s][k] > 0
        PROVE  k <= N /\ (k <= M \/ k \in late'[s])
    <3>1. CASE k \in F
      BY <1>5, <1>10, <2>6, <3>1
    <3>2. CASE k \notin F
      <4>1. queued[s][k] > 0
        BY <1>10, <2>8, <3>2
      <4>2. Known(s)
        BY <2>1, <4>1 DEF RecordIsTrue
      <4>3. k <= cursor[s].count /\ (k <= Len(cursor[s].marker) \/ k \in late[s])
        BY <2>1, <4>1, <4>2 DEF RecordIsTrue
      <4>4. QED
        BY <1>10, <2>1, <2>2, <2>6, <4>2, <4>3 DEF Turn
    <3>3. QED
      BY <3>1, <3>2
  <2>9. ASSUME NEW k \in Turn \ late'[s]
        PROVE  queued'[s][k] <= 1
    <3>1. k \notin late[s] /\ queued[s][k] <= 1
      BY <1>10, <2>1 DEF RecordIsTrue
    <3>2. CASE k \in F
      <4>1. k <= M /\ k > e.already
        BY <1>5, <1>10, <2>5, <2>6, <3>2
      <4>2. ASSUME queued[s][k] > 0 PROVE FALSE
        <5>1. Known(s)
          BY <2>1, <4>2 DEF RecordIsTrue
        <5>2. k <= cursor[s].count /\ k <= Len(cursor[s].marker)
          BY <2>1, <3>1, <4>2, <5>1 DEF RecordIsTrue
        <5>3. QED
          BY <2>1, <2>2, <4>1, <5>1, <5>2 DEF Turn
      <4>3. queued[s][k] = 0
        BY <2>2, <4>2
      <4>4. QED
        BY <1>10, <3>2, <4>3
    <3>3. CASE k \notin F
      BY <1>10, <3>1, <3>3
    <3>4. QED
      BY <3>2, <3>3
  <2>10. QED
    BY <1>7, <1>10, <2>1, <2>7, <2>8, <2>9 DEF RecordIsTrue, Known
<1>14. ASSUME NEW x \in Session \ misread', x # s
       PROVE  RecordIsTrue(x)'
  <2>1. RecordIsTrue(x)
    BY DEF CaptureInv, BooksAreTrue
  <2>2. QED
    BY <1>10, <1>14, <2>1 DEF RecordIsTrue, Known
<1>15. QED
  BY <1>3, <1>9, <1>11, <1>12, <1>13, <1>14 DEF CaptureInv, CaptureTyped, BooksAreTrue

LEMMA ProceedKeepsInv ==
  ASSUME CaptureInv, NEW t \in Tick, tick[t].phase = "running", NEW e \in Hand,
         Proceed(t, e), HandFits(e, misread'),
         misread \subseteq misread', misread' \subseteq Session,
         UNCHANGED <<transcript, historic, native, current, restarts>>
  PROVE  CaptureInv'
<1>1. CASE Keep(t, e, "redacting")
  BY <1>1, KeepKeepsInv
<1>2. CASE Commit(t, e)
  BY <1>2, CommitKeepsInv
<1>3. QED
  BY <1>1, <1>2 DEF Proceed

(* One session, looked at: what was extracted fits its record, whether it could be
   read or not. *)
LEMMA ExtractedKeepsInv ==
  ASSUME CaptureInv, NEW t \in Tick, tick[t].phase = "running", NEW s \in DOMAIN tick[t].left,
         NEW events \in Transcript, NEW parsed \in BOOLEAN, Extracted(t, s, events, parsed),
         s \notin misread' => events = transcript[s],
         misread \subseteq misread', misread' \subseteq Session,
         UNCHANGED <<transcript, historic, native, current, restarts>>
  PROVE  CaptureInv'
<1>1. BooksTyped /\ TicksTyped /\ BooksAreTrue
  BY DEF CaptureInv, CaptureTyped
<1>2. s \in Session /\ tick[t].left[s] \in Transcript
  <2>1. tick[t].left \in Left
    BY <1>1 DEF TicksTyped, TickState
  <2>2. QED
    BY <2>1 DEF Left
<1>3. PICK m \in Transcript : m = tick[t].left[s]
  BY <1>2
<1>4. /\ Len(m) <= Len(transcript[s])
      /\ Known(s) => Len(cursor[s].marker) <= Len(m)
  BY <1>1, <1>2, <1>3 DEF BooksAreTrue, MarkersAreInOrder
<1>5. Known(s) => cursor[s] \in Cursor
  BY <1>1, <1>2 DEF BooksTyped, Known
<1>6. PICK since : since = IF Known(s) THEN cursor[s].marker ELSE None
  OBVIOUS
<1>7. PICK already : already = IF Known(s) THEN cursor[s].count ELSE 0
  OBVIOUS
<1>8. since \in Transcript \cup {None} /\ already \in 0..MaxTurns
  BY <1>5, <1>6, <1>7, BoundAssumption DEF Cursor
<1>9. PICK e : e = [session |-> s, marker |-> m, events |-> events, step |-> "counting",
                    since |-> since, already |-> already]
  OBVIOUS
<1>10. /\ e \in Hand /\ e.session = s /\ e.marker = m /\ e.events = events
       /\ e.since = since /\ e.already = already
  BY <1>2, <1>8, <1>9 DEF Hand
<1>11. HandFits(e, misread')
  <2>1. ASSUME s \notin misread' PROVE Len(m) <= Len(events) /\ Len(events) <= Len(transcript[s])
    <3>1. Len(transcript[s]) \in Nat
      BY <1>1, <1>2, TranscriptIsASequence DEF BooksTyped
    <3>2. QED
      BY <1>4, <2>1, <3>1
  <2>2. ASSUME s \notin misread', Known(s) PROVE cursor[s].count <= Len(events)
    <3>1. RecordIsTrue(s)
      BY <1>1, <1>2, <2>2 DEF BooksAreTrue
    <3>2. QED
      BY <2>2, <3>1 DEF RecordIsTrue
  <2>3. QED
    BY <1>4, <1>6, <1>7, <1>10, <2>1, <2>2 DEF HandFits
<1>12. \/ Known(s) /\ Keep(t, e, "counting")
       \/ Proceed(t, e)
  BY <1>3, <1>6, <1>7, <1>9 DEF Extracted, Known
<1>13. CASE Known(s) /\ Keep(t, e, "counting")
  BY <1>10, <1>11, <1>13, KeepKeepsInv
<1>14. CASE Proceed(t, e)
  BY <1>10, <1>11, <1>14, ProceedKeepsInv
<1>15. QED
  BY <1>12, <1>13, <1>14

LEMMA LookKeepsInv ==
  ASSUME CaptureInv, NEW t \in Tick, NEW s \in Session, Look(t, s)
  PROVE  CaptureInv'
<1>1. /\ tick[t].phase = "running" /\ s \in DOMAIN tick[t].left
      /\ UNCHANGED <<transcript, historic, native, current, restarts>>
  BY DEF Look
<1>2. transcript[s] \in Transcript /\ <<>> \in Transcript /\ misread \subseteq Session
  BY EmptyTranscript DEF CaptureInv, CaptureTyped, BooksTyped
<1>3. CASE Skip(t, s) /\ UNCHANGED misread
  BY <1>1, <1>3, SkipKeepsInv
<1>4. CASE Extracted(t, s, transcript[s], cursor[s] # None => ~cursor[s].resume) /\ UNCHANGED misread
  <2>1. PICK b \in BOOLEAN : b = (cursor[s] # None => ~cursor[s].resume)
    OBVIOUS
  <2>2. Extracted(t, s, transcript[s], b)
    BY <1>4, <2>1
  <2>3. QED
    BY <1>1, <1>2, <1>4, <2>1, <2>2, ExtractedKeepsInv
<1>5. CASE Extracted(t, s, <<>>, TRUE) /\ misread' = misread \cup {s}
  BY <1>1, <1>2, <1>5, ExtractedKeepsInv
<1>6. QED
  BY <1>3, <1>4, <1>5 DEF Look

(* What a tick has in hand at a yield. *)
LEMMA HandIsFit ==
  ASSUME CaptureInv, NEW t \in Tick, Busy(t)
  PROVE  /\ tick[t].phase = "running" /\ tick[t].hand \in Hand /\ tick[t].hand.session \in Session
         /\ HandFits(tick[t].hand, misread)
         /\ tick[t].hand.step = "counting" => Known(tick[t].hand.session)
<1>1. tick[t].hand # None
  BY DEF Busy
<1>2. tick[t].hand \in Hand
  BY <1>1 DEF CaptureInv, CaptureTyped, TicksTyped, TickState
<1>3. tick[t].hand.session \in Session
  BY <1>2 DEF Hand
<1>4. tick[t].phase = "running"
  BY <1>1 DEF CaptureInv, OnlyRunningHolds
<1>5. /\ HandFits(tick[t].hand, misread)
      /\ tick[t].hand.step = "counting" => Known(tick[t].hand.session)
  BY <1>1 DEF CaptureInv, BooksAreTrue, HandsFit
<1>6. QED
  BY <1>2, <1>3, <1>4, <1>5

LEMMA CountKeepsInv ==
  ASSUME CaptureInv, NEW t \in Tick, Count(t)
  PROVE  CaptureInv'
<1>1. PICK h : h = tick[t].hand
  OBVIOUS
<1>2. Busy(t) /\ h.step = "counting" /\ UNCHANGED <<transcript, historic, native, current, restarts>>
  BY <1>1 DEF Count
<1>3. tick[t].phase = "running" /\ h \in Hand /\ h.session \in Session /\ HandFits(h, misread) /\ Known(h.session)
  BY <1>1, <1>2, HandIsFit
<1>4. BooksTyped /\ misread \subseteq Session
  BY DEF CaptureInv, CaptureTyped, BooksTyped
<1>5. CASE Proceed(t, [h EXCEPT !.already = Len(h.since)]) /\ UNCHANGED misread
  <2>1. cursor[h.session].marker \in Transcript
    BY <1>3, <1>4 DEF BooksTyped, Known, Cursor
  <2>2. h.since = cursor[h.session].marker
    BY <1>3 DEF HandFits
  <2>3. Len(h.since) \in 0..MaxTurns
    BY <2>1, <2>2, TranscriptIsASequence
  <2>4. PICK e : e = [h EXCEPT !.already = Len(h.since)]
    OBVIOUS
  <2>5. /\ e \in Hand /\ e.session = h.session /\ e.marker = h.marker /\ e.since = h.since
        /\ e.events = h.events /\ e.already = Len(h.since)
    BY <1>3, <2>3, <2>4 DEF Hand
  <2>6. HandFits(e, misread')
    BY <1>3, <1>5, <2>2, <2>5 DEF HandFits
  <2>7. Proceed(t, e)
    BY <1>5, <2>4
  <2>8. QED
    BY <1>2, <1>3, <1>4, <1>5, <2>5, <2>6, <2>7, ProceedKeepsInv
<1>6. CASE Proceed(t, h) /\ misread' = misread \cup {h.session}
  <2>1. HandFits(h, misread')
    BY <1>3, <1>6 DEF HandFits
  <2>2. QED
    BY <1>2, <1>3, <1>4, <1>6, <2>1, ProceedKeepsInv
<1>7. QED
  BY <1>1, <1>5, <1>6 DEF Count

LEMMA RedactKeepsInv ==
  ASSUME CaptureInv, NEW t \in Tick, Redact(t)
  PROVE  CaptureInv'
<1>1. PICK h : h = tick[t].hand
  OBVIOUS
<1>2. Busy(t) /\ UNCHANGED <<transcript, historic, native, current, restarts, misread>>
  BY DEF Redact
<1>3. tick[t].phase = "running" /\ h \in Hand /\ h.session \in Session /\ HandFits(h, misread)
  BY <1>1, <1>2, HandIsFit
<1>4. misread \subseteq Session
  BY DEF CaptureInv, CaptureTyped, BooksTyped
<1>5. CASE Skip(t, h.session)
  BY <1>2, <1>3, <1>5, SkipKeepsInv
<1>6. CASE Commit(t, h)
  BY <1>2, <1>3, <1>4, <1>6, CommitKeepsInv
<1>7. QED
  BY <1>1, <1>5, <1>6 DEF Redact

-----------------------------------------------------------------------------
(* The tools and the runs around it. *)

(* Transcripts that only grow disturb nothing. *)
LEMMA WritingKeepsInv ==
  ASSUME CaptureInv, transcript' \in [Session -> Transcript],
         \A x \in Session : Len(transcript[x]) <= Len(transcript'[x]),
         historic' \subseteq Session, native' \subseteq Session,
         UNCHANGED <<cursor, current, tick, restarts, history>>
  PROVE  CaptureInv'
<1>1. UNCHANGED <<cursor, current, tick, restarts, queued, seen, late, misread>>
  BY DEF history
<1>2. BooksTyped /\ TicksTyped /\ BooksAreTrue
  BY DEF CaptureInv, CaptureTyped
<1>3. BooksTyped' /\ TicksTyped'
  BY <1>1, <1>2 DEF BooksTyped, TicksTyped
<1>4. GateIsAQueue'
  BY <1>1, GateStays DEF CaptureInv
<1>5. OnlyRunningHolds'
  BY <1>1 DEF CaptureInv, OnlyRunningHolds
<1>6. \A x \in Session : Len(transcript[x]) \in Nat /\ Len(transcript'[x]) \in Nat
  <2>1. \A x \in Session : transcript[x] \in Transcript /\ transcript'[x] \in Transcript
    BY <1>2 DEF BooksTyped
  <2>2. QED
    BY <2>1, TranscriptIsASequence
<1>7. \A x \in Session : Known(x) => Len(cursor[x].marker) \in Nat /\ cursor[x].count \in Nat
  BY <1>2, TranscriptIsASequence DEF BooksTyped, Known, Cursor
<1>8. \A u \in Tick : tick[u].left \in Left
  BY <1>2 DEF TicksTyped, TickState
<1>9. \A u \in Tick : \A x \in DOMAIN tick[u].left : x \in Session /\ Len(tick[u].left[x]) \in Nat
  BY <1>8, TranscriptIsASequence DEF Left
<1>10. MarkersAreInOrder'
  <2>1. ASSUME NEW x \in Session, Known(x)'
        PROVE  Len(cursor'[x].marker) <= Len(transcript'[x])
    BY <1>1, <1>2, <1>6, <1>7, <2>1 DEF BooksAreTrue, MarkersAreInOrder, Known
  <2>2. ASSUME NEW u \in Tick, NEW x \in DOMAIN tick'[u].left
        PROVE  /\ Len(tick'[u].left[x]) <= Len(transcript'[x])
               /\ Known(x)' => Len(cursor'[x].marker) <= Len(tick'[u].left[x])
    BY <1>1, <1>2, <1>6, <1>9 DEF BooksAreTrue, MarkersAreInOrder, Known
  <2>3. QED
    BY <2>1, <2>2 DEF MarkersAreInOrder
<1>11. HandsFit'
  <2>1. SUFFICES ASSUME NEW t \in Tick, tick[t].hand # None PROVE HandFits(tick[t].hand, misread)'
    BY <1>1, <1>2 DEF BooksAreTrue, HandsFit, Known
  <2>2. PICK h : h = tick[t].hand
    OBVIOUS
  <2>3. HandFits(h, misread)
    BY <1>2, <2>1, <2>2 DEF BooksAreTrue, HandsFit
  <2>4. h \in Hand
    BY <1>2, <2>1, <2>2 DEF TicksTyped, TickState
  <2>5. h.session \in Session /\ h.marker \in Transcript /\ h.events \in Transcript
    BY <2>4 DEF Hand
  <2>6. Len(h.marker) \in Nat /\ Len(h.events) \in Nat
    BY <2>5, TranscriptIsASequence
  <2>7. HandFits(h, misread)'
    BY <1>1, <1>6, <2>3, <2>5, <2>6 DEF HandFits, Known
  <2>8. QED
    BY <1>1, <2>2, <2>7
<1>12. \A x \in Session \ misread' : RecordIsTrue(x)'
  <2>1. SUFFICES ASSUME NEW x \in Session \ misread PROVE RecordIsTrue(x)'
    BY <1>1
  <2>2. RecordIsTrue(x)
    BY <1>2 DEF BooksAreTrue
  <2>3. Known(x) => cursor[x].count <= Len(transcript'[x])
    BY <1>6, <1>7, <2>2 DEF RecordIsTrue
  <2>4. QED
    BY <1>1, <2>2, <2>3 DEF RecordIsTrue, Known
<1>13. QED
  BY <1>3, <1>4, <1>5, <1>10, <1>11, <1>12 DEF CaptureInv, CaptureTyped, BooksAreTrue

LEMMA GrowKeepsInv ==
  ASSUME CaptureInv, NEW s \in Session, Grow(s)
  PROVE  CaptureInv'
<1>1. transcript \in [Session -> Transcript] /\ historic \subseteq Session /\ native \subseteq Session
  BY DEF CaptureInv, CaptureTyped, BooksTyped
<1>2. \A x \in Session : Len(transcript[x]) \in Nat
  BY <1>1, TranscriptIsASequence
<1>3. /\ historic' \subseteq Session /\ native' \subseteq Session
      /\ UNCHANGED <<cursor, current, tick, restarts, history>>
  BY <1>1 DEF Grow
<1>4. ASSUME NEW y \in Transcript, Len(transcript[s]) <= Len(y), transcript' = [transcript EXCEPT ![s] = y]
      PROVE  CaptureInv'
  <2>1. transcript' \in [Session -> Transcript]
    BY <1>1, <1>4
  <2>2. \A x \in Session : Len(transcript[x]) <= Len(transcript'[x])
    BY <1>1, <1>2, <1>4
  <2>3. QED
    BY <1>3, <2>1, <2>2, WritingKeepsInv
<1>5. CASE Len(transcript[s]) < MaxTurns /\ transcript' = [transcript EXCEPT ![s] = Append(@, 1)]
  <2>1. PICK y : y = Append(transcript[s], 1)
    OBVIOUS
  <2>2. y \in Transcript /\ Len(y) = Len(transcript[s]) + 1
    BY <1>1, <1>5, <2>1, LongerTranscript
  <2>3. transcript' = [transcript EXCEPT ![s] = y]
    BY <1>1, <1>5, <2>1
  <2>4. Len(transcript[s]) <= Len(y)
    BY <1>2, <2>2
  <2>5. QED
    BY <1>4, <2>2, <2>3, <2>4
<1>6. CASE /\ transcript[s] # <<>>
           /\ LET last == Len(transcript[s])
              IN  /\ transcript[s][last] < MaxWork
                  /\ transcript' = [transcript EXCEPT ![s][last] = @ + 1]
  <2>1. PICK x : x = transcript[s]
    OBVIOUS
  <2>2. PICK last : last = Len(x)
    OBVIOUS
  <2>3. x \in Transcript /\ last \in 1..Len(x)
    BY <1>1, <1>6, <2>1, <2>2, TranscriptIsASequence
  <2>4. PICK y : y = [x EXCEPT ![last] = @ + 1]
    OBVIOUS
  <2>5. y \in Transcript /\ Len(y) = Len(x)
    BY <1>6, <2>1, <2>2, <2>3, <2>4, GrownTranscript
  <2>6. transcript' = [transcript EXCEPT ![s] = y]
    BY <1>1, <1>6, <2>1, <2>2, <2>4
  <2>7. Len(transcript[s]) <= Len(y)
    BY <1>2, <2>1, <2>5
  <2>8. QED
    BY <1>4, <2>5, <2>6, <2>7
<1>7. QED
  BY <1>5, <1>6 DEF Grow

LEMMA NativeHookKeepsInv ==
  ASSUME CaptureInv, NEW s \in Session, NativeHook(s)
  PROVE  CaptureInv'
<1>1. transcript \in [Session -> Transcript] /\ historic \subseteq Session /\ native \subseteq Session
  BY DEF CaptureInv, CaptureTyped, BooksTyped
<1>2. \A x \in Session : Len(transcript[x]) \in Nat
  BY <1>1, TranscriptIsASequence
<1>3. /\ transcript' = transcript /\ historic' = historic /\ native' \subseteq Session
      /\ UNCHANGED <<cursor, current, tick, restarts, history>>
  BY <1>1 DEF NativeHook
<1>4. \A x \in Session : Len(transcript[x]) <= Len(transcript'[x])
  BY <1>2, <1>3
<1>5. QED
  BY <1>1, <1>3, <1>4, WritingKeepsInv

(* A run that starts, waits or ends changes no book; what it has to look at are the
   transcripts as they are. *)
LEMMA RunKeepsInv ==
  ASSUME CaptureInv, NEW t \in Tick, TicksTyped', GateIsAQueue', OnlyRunningHolds',
         UNCHANGED <<transcript, historic, native, cursor, restarts, history>>,
         \A u \in Tick \ {t} : tick'[u].left = tick[u].left /\ tick'[u].hand = tick[u].hand,
         tick'[t].hand = None,
         \A x \in DOMAIN tick'[t].left : x \in Session /\ tick'[t].left[x] = transcript[x]
  PROVE  CaptureInv'
<1>1. UNCHANGED <<transcript, historic, native, cursor, restarts, queued, seen, late, misread>>
  BY DEF history
<1>2. BooksTyped /\ TicksTyped /\ BooksAreTrue
  BY DEF CaptureInv, CaptureTyped
<1>3. BooksTyped'
  BY <1>1, <1>2 DEF BooksTyped
<1>4. \A x \in Session : Len(transcript[x]) \in Nat
  BY <1>2, TranscriptIsASequence DEF BooksTyped
<1>5. MarkersAreInOrder'
  <2>1. ASSUME NEW u \in Tick, NEW x \in DOMAIN tick'[u].left
        PROVE  /\ Len(tick'[u].left[x]) <= Len(transcript'[x])
               /\ Known(x)' => Len(cursor'[x].marker) <= Len(tick'[u].left[x])
    <3>1. CASE u = t
      BY <1>1, <1>2, <1>4, <3>1 DEF BooksAreTrue, MarkersAreInOrder, Known
    <3>2. CASE u # t
      BY <1>1, <1>2, <3>2 DEF BooksAreTrue, MarkersAreInOrder, Known
    <3>3. QED
      BY <3>1, <3>2
  <2>2. \A x \in Session : Known(x)' => Len(cursor'[x].marker) <= Len(transcript'[x])
    BY <1>1, <1>2 DEF BooksAreTrue, MarkersAreInOrder, Known
  <2>3. QED
    BY <2>1, <2>2 DEF MarkersAreInOrder
<1>6. HandsFit'
  <2>1. SUFFICES ASSUME NEW u \in Tick, u # t, tick[u].hand # None
                 PROVE  /\ HandFits(tick[u].hand, misread)'
                        /\ tick[u].hand.session \notin DOMAIN tick[u].left
                        /\ tick[u].hand.step = "counting" => Known(tick[u].hand.session)'
    BY DEF HandsFit
  <2>2. HandFits(tick[u].hand, misread) /\ tick[u].hand.session \notin DOMAIN tick[u].left
        /\ (tick[u].hand.step = "counting" => Known(tick[u].hand.session))
    BY <1>2, <2>1 DEF BooksAreTrue, HandsFit
  <2>3. PICK h : h = tick[u].hand /\ h = tick'[u].hand
    BY <2>1
  <2>4. HandFits(h, misread)'
    BY <1>1, <2>2, <2>3 DEF HandFits, Known
  <2>5. QED
    BY <1>1, <2>2, <2>3, <2>4 DEF Known
<1>7. \A x \in Session \ misread' : RecordIsTrue(x)'
  BY <1>1, <1>2 DEF BooksAreTrue, RecordIsTrue, Known
<1>8. QED
  BY <1>3, <1>5, <1>6, <1>7 DEF CaptureInv, CaptureTyped, BooksAreTrue

LEMMA DiscoveredIsLeft ==
  CaptureInv => \A refs \in SUBSET Written :
    /\ Discovered(refs) \in Left
    /\ \A x \in DOMAIN Discovered(refs) : x \in Session /\ Discovered(refs)[x] = transcript[x]
<1>1. SUFFICES ASSUME CaptureInv, NEW refs \in SUBSET Written
               PROVE  /\ Discovered(refs) \in Left
                      /\ \A x \in DOMAIN Discovered(refs) : x \in Session /\ Discovered(refs)[x] = transcript[x]
  OBVIOUS
<1>2. transcript \in [Session -> Transcript]
  BY <1>1 DEF CaptureInv, CaptureTyped, BooksTyped
<1>3. refs \in SUBSET Session
  BY <1>1 DEF Written
<1>4. Discovered(refs) \in [refs -> Transcript]
  BY <1>2, <1>3 DEF Discovered
<1>5. Discovered(refs) \in Left
  BY <1>3, <1>4 DEF Left
<1>6. \A x \in DOMAIN Discovered(refs) : x \in Session /\ Discovered(refs)[x] = transcript[x]
  BY <1>3 DEF Discovered
<1>7. QED
  BY <1>5, <1>6

LEMMA IntervalKeepsInv ==
  ASSUME CaptureInv, NEW t \in Tick, NEW refs \in SUBSET Written, Interval(t, refs)
  PROVE  CaptureInv'
<1>1. TicksTyped /\ GateIsAQueue /\ OnlyRunningHolds
  BY DEF CaptureInv, CaptureTyped
<1>2. PICK l \in Left : l = Discovered(refs)
  BY DiscoveredIsLeft
<1>3. \A x \in DOMAIN l : x \in Session /\ l[x] = transcript[x]
  BY <1>2, DiscoveredIsLeft
<1>4. PICK r : r = [tick[t] EXCEPT !.phase = "running", !.left = l]
  OBVIOUS
<1>5. tick \in [Tick -> TickState] /\ tick[t].phase = "idle" /\ tick[t].after = None /\ tick[t].hand = None
  BY <1>1 DEF TicksTyped, TickState, OnlyRunningHolds, Interval, Active
<1>6. r \in TickState /\ r.phase = "running" /\ r.left = l /\ r.after = None /\ r.hand = None
  BY <1>4, <1>5 DEF TickState
<1>7. tick' = [tick EXCEPT ![t] = r] /\ current = None /\ current' = t
  BY <1>2, <1>4, <1>5 DEF Interval, TickState
<1>8. tick'[t] = r /\ (\A u \in Tick \ {t} : tick'[u] = tick[u]) /\ tick' \in [Tick -> TickState]
  BY <1>5, <1>6, <1>7
<1>9. TicksTyped'
  BY <1>1, <1>6, <1>7, <1>8, TypesAreNotNone DEF TicksTyped
<1>10. GateIsAQueue'
  <2>1. ~Active(t) /\ Active(t)'
    BY <1>5, <1>6, <1>8 DEF Active
  <2>2. QED
    BY <1>1, <1>6, <1>7, <1>8, <2>1, JoinsTheQueue
<1>11. OnlyRunningHolds'
  BY <1>1, <1>6, <1>8 DEF OnlyRunningHolds
<1>12. UNCHANGED <<transcript, historic, native, cursor, restarts, history>>
  BY DEF Interval
<1>13. QED
  BY <1>3, <1>6, <1>8, <1>9, <1>10, <1>11, <1>12, RunKeepsInv

LEMMA AskBackfillKeepsInv ==
  ASSUME CaptureInv, NEW t \in Tick, AskBackfill(t)
  PROVE  CaptureInv'
<1>1. TicksTyped /\ GateIsAQueue /\ OnlyRunningHolds
  BY DEF CaptureInv, CaptureTyped
<1>2. PICK r : r = [tick[t] EXCEPT !.phase = "waiting", !.after = current]
  OBVIOUS
<1>3. /\ tick \in [Tick -> TickState] /\ current \in Tick \cup {None}
      /\ tick[t].phase = "idle" /\ DOMAIN tick[t].left = {} /\ tick[t].hand = None
  BY <1>1 DEF TicksTyped, TickState, OnlyRunningHolds, AskBackfill, Active
<1>4. /\ r \in TickState /\ r.phase = "waiting" /\ r.after = current
      /\ DOMAIN r.left = {} /\ r.hand = None
  BY <1>2, <1>3 DEF TickState
<1>5. tick' = [tick EXCEPT ![t] = r] /\ current' = t
  BY <1>2, <1>3 DEF AskBackfill, WaitsFor, TickState
<1>6. tick'[t] = r /\ (\A u \in Tick \ {t} : tick'[u] = tick[u]) /\ tick' \in [Tick -> TickState]
  BY <1>3, <1>4, <1>5
<1>7. ~Active(t) /\ Active(t)'
  BY <1>3, <1>4, <1>6 DEF Active
<1>8. GateIsAQueue' /\ current # t
  BY <1>1, <1>4, <1>5, <1>6, <1>7, JoinsTheQueue
<1>9. TicksTyped'
  BY <1>1, <1>4, <1>5, <1>6, <1>8 DEF TicksTyped
<1>10. OnlyRunningHolds'
  BY <1>1, <1>4, <1>6 DEF OnlyRunningHolds
<1>11. UNCHANGED <<transcript, historic, native, cursor, restarts, history>>
  BY DEF AskBackfill
<1>12. QED
  BY <1>4, <1>6, <1>8, <1>9, <1>10, <1>11, RunKeepsInv

LEMMA StartBackfillKeepsInv ==
  ASSUME CaptureInv, NEW t \in Tick, NEW refs \in SUBSET Written, StartBackfill(t, refs)
  PROVE  CaptureInv'
<1>1. TicksTyped /\ GateIsAQueue /\ OnlyRunningHolds
  BY DEF CaptureInv, CaptureTyped
<1>2. PICK l \in Left : l = Discovered(refs)
  BY DiscoveredIsLeft
<1>3. \A x \in DOMAIN l : x \in Session /\ l[x] = transcript[x]
  BY <1>2, DiscoveredIsLeft
<1>4. PICK r : r = [tick[t] EXCEPT !.phase = "running", !.left = l]
  OBVIOUS
<1>5. tick \in [Tick -> TickState] /\ tick[t].phase = "waiting" /\ tick[t].after = None /\ tick[t].hand = None
  BY <1>1 DEF TicksTyped, OnlyRunningHolds, StartBackfill
<1>6. r \in TickState /\ r.phase = "running" /\ r.left = l /\ r.after = None /\ r.hand = None
  BY <1>4, <1>5 DEF TickState
<1>7. tick' = [tick EXCEPT ![t] = r] /\ current' = current
  BY <1>2, <1>4, <1>5 DEF StartBackfill, TickState
<1>8. tick'[t] = r /\ (\A u \in Tick \ {t} : tick'[u] = tick[u]) /\ tick' \in [Tick -> TickState]
  BY <1>5, <1>6, <1>7
<1>9. TicksTyped'
  BY <1>1, <1>6, <1>7, <1>8, TypesAreNotNone DEF TicksTyped
<1>10. GateIsAQueue'
  <2>1. PICK q \in Seq(Tick) : Queues(q)
    BY <1>1 DEF GateIsAQueue
  <2>2. \A i \in 1..Len(q) : q[i] \in Tick
    OBVIOUS
  <2>3. \A u \in Tick : (Active(u)' <=> Active(u)) /\ tick'[u].after = tick[u].after
    BY <1>5, <1>6, <1>8 DEF Active
  <2>4. ASSUME NEW i \in 1..Len(q), tick'[q[i]].phase = "running"
        PROVE  i = 1
    <3>1. CASE q[i] = t
      <4>1. i # 1 => tick[t].after = q[i - 1]
        BY <2>1, <3>1 DEF Queues
      <4>2. i # 1 => q[i - 1] \in Tick
        BY <2>2
      <4>3. QED
        BY <1>5, <4>1, <4>2, TypesAreNotNone
    <3>2. CASE q[i] # t
      BY <1>8, <2>1, <2>2, <2>4, <3>2 DEF Queues
    <3>3. QED
      BY <3>1, <3>2
  <2>5. Queues(q)'
    BY <1>7, <2>1, <2>2, <2>3, <2>4 DEF Queues
  <2>6. QED
    BY <2>5 DEF GateIsAQueue
<1>11. OnlyRunningHolds'
  BY <1>1, <1>6, <1>8 DEF OnlyRunningHolds
<1>12. UNCHANGED <<transcript, historic, native, cursor, restarts, history>>
  BY DEF StartBackfill
<1>13. QED
  BY <1>3, <1>6, <1>8, <1>9, <1>10, <1>11, <1>12, RunKeepsInv

LEMMA FinishKeepsInv ==
  ASSUME CaptureInv, NEW t \in Tick, Finish(t)
  PROVE  CaptureInv'
<1>1. TicksTyped /\ GateIsAQueue /\ OnlyRunningHolds
  BY DEF CaptureInv, CaptureTyped
<1>2. tick[t].phase = "running" /\ tick \in [Tick -> TickState] /\ current' = Freed(t)
  BY <1>1 DEF Finish, TicksTyped
<1>3. tick'[t] = NoTick /\ DOMAIN tick' = Tick
  BY DEF Finish
<1>4. ASSUME NEW u \in Tick \ {t}
      PROVE  /\ tick'[u] \in TickState /\ tick'[u].phase = tick[u].phase
             /\ tick'[u].after = IF tick[u].after = t THEN None ELSE tick[u].after
             /\ tick'[u].left = tick[u].left /\ tick'[u].hand = tick[u].hand
  <2>1. tick'[u] = IF tick[u].after = t THEN [tick[u] EXCEPT !.after = None] ELSE tick[u]
    BY DEF Finish
  <2>2. tick[u] \in TickState
    BY <1>2
  <2>3. QED
    BY <2>1, <2>2 DEF TickState
<1>5. ~Active(t)'
  BY <1>3, NoTickIsTickState DEF Active
<1>6. GateIsAQueue'
  BY <1>1, <1>2, <1>4, <1>5, LeavesTheQueue
<1>7. TicksTyped'
  <2>1. tick' \in [Tick -> TickState]
    <3>1. \A u \in Tick : tick'[u] \in TickState
      BY <1>3, <1>4, NoTickIsTickState
    <3>2. tick' = [u \in Tick |-> tick'[u]]
      BY DEF Finish
    <3>3. QED
      BY <3>1, <3>2
  <2>2. \A u \in Tick : tick'[u].after # u
    BY <1>1, <1>3, <1>4, NoTickIsTickState, TypesAreNotNone DEF TicksTyped
  <2>3. current' \in Tick \cup {None}
    BY <1>1, <1>2 DEF Freed, TicksTyped
  <2>4. QED
    BY <2>1, <2>2, <2>3 DEF TicksTyped
<1>8. OnlyRunningHolds'
  <2>1. \A u \in Tick \ {t} : tick[u].after = None => tick'[u].after = None
    BY <1>4
  <2>2. QED
    BY <1>1, <1>3, <1>4, <2>1, NoTickIsTickState DEF OnlyRunningHolds
<1>9. UNCHANGED <<transcript, historic, native, cursor, restarts, history>>
  BY DEF Finish
<1>10. QED
  BY <1>3, <1>4, <1>6, <1>7, <1>8, <1>9, NoTickIsTickState, RunKeepsInv

(* A restart forgets the runs; another parser, the resume points too. *)
LEMMA RestartKeepsInv ==
  ASSUME CaptureInv, Restart
  PROVE  CaptureInv'
<1>1. BooksTyped /\ BooksAreTrue
  BY DEF CaptureInv, CaptureTyped
<1>2. UNCHANGED <<transcript, historic, native, queued, seen, late, misread>>
  BY DEF Restart, history
<1>3. tick' = [t \in Tick |-> NoTick] /\ current' = None
  BY DEF Restart
<1>4. ASSUME NEW x \in Session
      PROVE  /\ cursor'[x] \in Cursor \cup {None} /\ (Known(x)' <=> Known(x))
             /\ Known(x) => cursor'[x].marker = cursor[x].marker /\ cursor'[x].count = cursor[x].count
  <2>1. CASE cursor' = cursor
    BY <1>1, <2>1 DEF BooksTyped, Known
  <2>2. CASE cursor' = [s \in Session |-> IF cursor[s] = None THEN None ELSE [cursor[s] EXCEPT !.resume = FALSE]]
    <3>1. cursor'[x] = IF cursor[x] = None THEN None ELSE [cursor[x] EXCEPT !.resume = FALSE]
      BY <2>2
    <3>2. CASE cursor[x] = None
      BY <3>1, <3>2 DEF Known
    <3>3. CASE cursor[x] # None
      <4>1. cursor[x] \in Cursor
        BY <1>1, <3>3 DEF BooksTyped
      <4>2. /\ cursor'[x] \in Cursor /\ cursor'[x].marker = cursor[x].marker
            /\ cursor'[x].count = cursor[x].count
        BY <3>1, <3>3, <4>1 DEF Cursor
      <4>3. QED
        BY <3>3, <4>2, TypesAreNotNone DEF Known
    <3>4. QED
      BY <3>2, <3>3
  <2>3. QED
    BY <2>1, <2>2 DEF Restart
<1>5. BooksTyped'
  <2>1. cursor' \in [Session -> Cursor \cup {None}]
    <3>1. cursor' = [s \in Session |-> cursor'[s]]
      BY <1>1 DEF Restart, BooksTyped
    <3>2. QED
      BY <1>4, <3>1
  <2>2. restarts' \in 0..MaxRestarts
    BY <1>1, BoundAssumption DEF Restart, BooksTyped
  <2>3. QED
    BY <1>1, <1>2, <2>1, <2>2 DEF BooksTyped
<1>6. TicksTyped' /\ OnlyRunningHolds'
  BY <1>3, NoTickIsTickState, TypesAreNotNone DEF TicksTyped, OnlyRunningHolds
<1>7. GateIsAQueue'
  <2>1. <<>> \in Seq(Tick) /\ Len(<<>>) = 0
    OBVIOUS
  <2>2. \A t \in Tick : ~Active(t)'
    BY <1>3, NoTickIsTickState DEF Active
  <2>3. Queues(<<>>)'
    BY <1>3, <2>1, <2>2 DEF Queues
  <2>4. QED
    BY <2>1, <2>3 DEF GateIsAQueue
<1>8. MarkersAreInOrder' /\ HandsFit'
  <2>1. \A t \in Tick : DOMAIN tick'[t].left = {} /\ tick'[t].hand = None
    BY <1>3, NoTickIsTickState
  <2>2. HandsFit'
    BY <2>1 DEF HandsFit
  <2>3. \A x \in Session : Known(x)' => Len(cursor'[x].marker) <= Len(transcript'[x])
    BY <1>1, <1>2, <1>4 DEF BooksAreTrue, MarkersAreInOrder
  <2>4. QED
    BY <2>1, <2>2, <2>3 DEF MarkersAreInOrder
<1>9. \A x \in Session \ misread' : RecordIsTrue(x)'
  <2>1. SUFFICES ASSUME NEW x \in Session \ misread PROVE RecordIsTrue(x)'
    BY <1>2
  <2>2. RecordIsTrue(x)
    BY <1>1 DEF BooksAreTrue
  <2>3. QED
    BY <1>2, <1>4, <2>2 DEF RecordIsTrue
<1>10. QED
  BY <1>5, <1>6, <1>7, <1>8, <1>9 DEF CaptureInv, CaptureTyped, BooksAreTrue

-----------------------------------------------------------------------------
(* The invariant is inductive. *)

LEMMA CaptureStarts == Init => CaptureInv
<1>1. SUFFICES ASSUME Init PROVE CaptureInv
  OBVIOUS
<1>2. transcript \in [Session -> Transcript]
  <2>1. <<1>> \in [1..1 -> 1..MaxWork] /\ 1 \in 0..MaxTurns
    BY BoundAssumption
  <2>2. <<1>> \in Transcript
    BY <2>1 DEF Transcript
  <2>3. QED
    BY <1>1, <2>2, EmptyTranscript DEF Init
<1>3. queued \in [Session -> [Turn -> Nat]] /\ seen \in [Session -> [Turn -> 0..MaxWork]]
  <2>1. \A s \in Session : queued[s] = [k \in Turn |-> 0] /\ seen[s] = [k \in Turn |-> 0]
    BY <1>1 DEF Init
  <2>2. [k \in Turn |-> 0] \in [Turn -> Nat] /\ [k \in Turn |-> 0] \in [Turn -> 0..MaxWork]
    BY BoundAssumption
  <2>3. queued = [s \in Session |-> [k \in Turn |-> 0]] /\ seen = [s \in Session |-> [k \in Turn |-> 0]]
    BY <1>1 DEF Init
  <2>4. QED
    BY <2>2, <2>3
<1>4. BooksTyped
  <2>1. cursor \in [Session -> Cursor \cup {None}] /\ late \in [Session -> SUBSET Turn]
    BY <1>1 DEF Init
  <2>2. historic \subseteq Session /\ native \subseteq Session /\ misread \subseteq Session
    BY <1>1, SessionAssumption DEF Init
  <2>3. restarts \in 0..MaxRestarts
    BY <1>1, BoundAssumption DEF Init
  <2>4. QED
    BY <1>2, <1>3, <2>1, <2>2, <2>3 DEF BooksTyped
<1>5. TicksTyped /\ OnlyRunningHolds
  BY <1>1, NoTickIsTickState, TypesAreNotNone DEF Init, TicksTyped, OnlyRunningHolds
<1>6. GateIsAQueue
  <2>1. <<>> \in Seq(Tick) /\ Len(<<>>) = 0
    OBVIOUS
  <2>2. \A t \in Tick : ~Active(t)
    BY <1>1, NoTickIsTickState DEF Init, Active
  <2>3. Queues(<<>>)
    BY <1>1, <2>1, <2>2 DEF Init, Queues
  <2>4. QED
    BY <2>1, <2>3 DEF GateIsAQueue
<1>7. \A x \in Session : ~Known(x)
  BY <1>1 DEF Init, Known
<1>8. MarkersAreInOrder /\ HandsFit
  <2>1. \A t \in Tick : DOMAIN tick[t].left = {} /\ tick[t].hand = None
    BY <1>1, NoTickIsTickState DEF Init
  <2>2. QED
    BY <1>7, <2>1 DEF MarkersAreInOrder, HandsFit
<1>9. \A x \in Session : RecordIsTrue(x)
  <2>1. \A x \in Session : \A k \in Turn : queued[x][k] = 0
    BY <1>1 DEF Init
  <2>2. QED
    BY <1>7, <2>1 DEF RecordIsTrue
<1>10. QED
  BY <1>4, <1>5, <1>6, <1>8, <1>9 DEF CaptureInv, CaptureTyped, BooksAreTrue

LEMMA CaptureSteps == CaptureInv /\ [Next]_vars => CaptureInv'
<1>1. SUFFICES ASSUME CaptureInv, [Next]_vars PROVE CaptureInv'
  OBVIOUS
<1>2. ASSUME NEW s \in Session, Grow(s) \/ NativeHook(s) PROVE CaptureInv'
  BY <1>1, <1>2, GrowKeepsInv, NativeHookKeepsInv
<1>3. ASSUME NEW t \in Tick, NEW refs \in SUBSET Written, Interval(t, refs) \/ StartBackfill(t, refs)
      PROVE  CaptureInv'
  BY <1>1, <1>3, IntervalKeepsInv, StartBackfillKeepsInv
<1>4. ASSUME NEW t \in Tick, AskBackfill(t) \/ Finish(t) PROVE CaptureInv'
  BY <1>1, <1>4, AskBackfillKeepsInv, FinishKeepsInv
<1>5. ASSUME NEW t \in Tick, NEW s \in Session, Look(t, s) PROVE CaptureInv'
  BY <1>1, <1>5, LookKeepsInv
<1>6. ASSUME NEW t \in Tick, Count(t) \/ Redact(t) PROVE CaptureInv'
  BY <1>1, <1>6, CountKeepsInv, RedactKeepsInv
<1>7. CASE Restart
  BY <1>1, <1>7, RestartKeepsInv
<1>8. CASE UNCHANGED vars
  <2>1. UNCHANGED <<transcript, historic, native, cursor, current, tick, restarts, history>>
    BY <1>8 DEF vars, history
  <2>2. transcript \in [Session -> Transcript] /\ historic \subseteq Session /\ native \subseteq Session
    BY <1>1 DEF CaptureInv, CaptureTyped, BooksTyped
  <2>3. \A x \in Session : Len(transcript[x]) <= Len(transcript'[x])
    BY <2>1, <2>2, TranscriptIsASequence
  <2>4. QED
    BY <1>1, <2>1, <2>2, <2>3, WritingKeepsInv
<1>9. QED
  BY <1>1, <1>2, <1>3, <1>4, <1>5, <1>6, <1>7, <1>8 DEF Next, TickStep

LEMMA CaptureInvIsTyped == CaptureInv => TypeOK
<1>1. SUFFICES ASSUME CaptureInv PROVE TypeOK
  OBVIOUS
<1>2. BooksTyped /\ TicksTyped
  BY <1>1 DEF CaptureInv, CaptureTyped
<1>3. ASSUME NEW t \in Tick
      PROVE  /\ tick[t].phase \in {"idle", "waiting", "running"}
             /\ tick[t].after \in (Tick \ {t}) \cup {None}
             /\ DOMAIN tick[t].left \subseteq Session
             /\ \A s \in DOMAIN tick[t].left : tick[t].left[s] \in Transcript
             /\ tick[t].hand \in Hand \cup {None}
  <2>1. tick[t] \in TickState /\ tick[t].after # t
    BY <1>2 DEF TicksTyped
  <2>2. PICK S \in SUBSET Session : tick[t].left \in [S -> Transcript]
    <3>1. tick[t].left \in Left
      BY <2>1 DEF TickState
    <3>2. QED
      BY <3>1 DEF Left
  <2>3. QED
    BY <2>1, <2>2 DEF TickState
<1>4. QED
  BY <1>2, <1>3 DEF TypeOK, BooksTyped, TicksTyped

LEMMA CaptureInvIsSafe == CaptureInv => OneTickAtATime /\ NoTurnIsQueuedTwice /\ NoTurnIsSkipped
<1>1. SUFFICES ASSUME CaptureInv PROVE OneTickAtATime /\ NoTurnIsQueuedTwice /\ NoTurnIsSkipped
  OBVIOUS
<1>2. OneTickAtATime
  <2>1. PICK R : R = {t \in Tick : tick[t].phase = "running"}
    OBVIOUS
  <2>2. \A t, u \in R : t = u
    BY <1>1, <2>1, OneTickRuns DEF CaptureInv
  <2>3. CASE R = {}
    <3>1. Cardinality(R) = 0
      BY <2>3, FS_EmptySet
    <3>2. QED
      BY <2>1, <3>1 DEF OneTickAtATime
  <2>4. CASE R # {}
    <3>1. PICK t : R = {t}
      BY <2>2, <2>4
    <3>2. Cardinality(R) = 1
      BY <3>1, FS_Singleton
    <3>3. QED
      BY <2>1, <3>2 DEF OneTickAtATime
  <2>5. QED
    BY <2>3, <2>4
<1>3. NoTurnIsQueuedTwice
  BY <1>1 DEF NoTurnIsQueuedTwice, CaptureInv, BooksAreTrue, RecordIsTrue
<1>4. NoTurnIsSkipped
  <2>1. SUFFICES ASSUME NEW s \in Session \ misread, WasIngested(s, transcript[s]), NEW k \in 1..Len(transcript[s])
                 PROVE  queued[s][k] > 0
    BY DEF NoTurnIsSkipped
  <2>2. RecordIsTrue(s) /\ Known(s) /\ cursor[s].marker = transcript[s]
    BY <1>1, <2>1 DEF CaptureInv, BooksAreTrue, WasIngested, Known
  <2>3. BooksTyped
    BY <1>1 DEF CaptureInv, CaptureTyped
  <2>4. Len(transcript[s]) \in Nat /\ cursor[s].count \in Nat
    BY <2>2, <2>3, TranscriptIsASequence, BoundAssumption DEF BooksTyped, Known, Cursor
  <2>5. k \in 1..cursor[s].count
    BY <2>2, <2>4 DEF RecordIsTrue
  <2>6. QED
    BY <2>2, <2>5 DEF RecordIsTrue
<1>5. QED
  BY <1>2, <1>3, <1>4

(* Ticks, cursors and books keep their types (createTickGate, runCaptureTick). *)
THEOREM CaptureTypeCorrect == Spec => []TypeOK
<1>1. Spec => []CaptureInv
  BY CaptureStarts, CaptureSteps, PTL DEF Spec
<1>2. QED
  BY <1>1, CaptureInvIsTyped, PTL

(* However the interval, backfills, growing transcripts, failed reads, restarts and new
   parsers come: ticks do not overlap, a turn costs one call, and a session recorded in its
   present state has had every turn queued (createTickGate, runCaptureTick). *)
THEOREM TurnsCostOneCall == Spec => [](OneTickAtATime /\ NoTurnIsQueuedTwice /\ NoTurnIsSkipped)
<1>1. Spec => []CaptureInv
  BY CaptureStarts, CaptureSteps, PTL DEF Spec
<1>2. QED
  BY <1>1, CaptureInvIsSafe, PTL

-----------------------------------------------------------------------------
(* SummarizerCalls: the token.  Calls under way with a replaced one. *)

Stale(a) == asking[a].stage = "sent" /\ asking[a].token # file
StaleCalls == {a \in Asker : Stale(a)}

(* A token that is refused was read before the login it does not know; after the first
   refusal the copy is empty or new, so that no stale call is added. *)
TokensTyped ==
  /\ DOMAIN asking = Asker
  /\ \A a \in Asker : {"stage", "token", "models", "old", "timedOut"} \subseteq DOMAIN asking[a]
  /\ refusals \in Nat
RefusalsAreCounted ==
  /\ refusals + Cardinality(StaleCalls) <= Cardinality(Asker)
  /\ refusals > 0 => cached \in {0, file}

CallsInv == TokensTyped /\ RefusalsAreCounted

LEMMA StaleIsFinite ==
  ASSUME NEW S \in SUBSET Asker
  PROVE  IsFiniteSet(S) /\ Cardinality(S) \in Nat /\ Cardinality(S) <= Cardinality(Asker) /\ Cardinality(Asker) \in Nat
<1>1. IsFiniteSet(Asker)
  BY CallsAssumption
<1>2. QED
  BY <1>1, FS_Subset, FS_CardinalityType

(* A step that makes no call stale, and refuses none. *)
LEMMA NoCallGoesStale ==
  ASSUME CallsInv, TokensTyped', refusals' = refusals,
         file' = file /\ cached' = cached,
         \A a \in Asker : Stale(a)' => Stale(a)
  PROVE  CallsInv'
<1>1. StaleCalls' \subseteq StaleCalls /\ StaleCalls \in SUBSET Asker
  BY DEF StaleCalls
<1>2. /\ Cardinality(StaleCalls') \in Nat /\ Cardinality(StaleCalls) \in Nat /\ Cardinality(Asker) \in Nat
      /\ Cardinality(StaleCalls') <= Cardinality(StaleCalls)
  <2>1. IsFiniteSet(StaleCalls) /\ Cardinality(StaleCalls) \in Nat /\ Cardinality(Asker) \in Nat
    BY <1>1, StaleIsFinite
  <2>2. QED
    BY <1>1, <2>1, FS_Subset, FS_CardinalityType
<1>3. RefusalsAreCounted'
  BY <1>2 DEF CallsInv, TokensTyped, RefusalsAreCounted
<1>4. QED
  BY <1>3 DEF CallsInv

(* A call that is not sent afterwards is not stale. *)
LEMMA OneCallMoves ==
  ASSUME CallsInv, NEW a \in Asker, NEW r, asking' = [asking EXCEPT ![a] = r],
         {"stage", "token", "models", "old", "timedOut"} \subseteq DOMAIN r, r.stage # "sent",
         refusals' = refusals, file' = file /\ cached' = cached
  PROVE  CallsInv'
<1>1. asking'[a] = r /\ \A b \in Asker \ {a} : asking'[b] = asking[b]
  BY DEF CallsInv, TokensTyped
<1>2. TokensTyped'
  BY <1>1 DEF CallsInv, TokensTyped
<1>3. \A b \in Asker : Stale(b)' => Stale(b)
  BY <1>1 DEF Stale
<1>4. QED
  BY <1>2, <1>3, NoCallGoesStale

LEMMA OutcomeMoves ==
  ASSUME CallsInv, NEW a \in Asker, Outcome(a) \/ Failed(a), refusals' = refusals, file' = file /\ cached' = cached
  PROVE  CallsInv'
<1>1. /\ {"stage", "token", "models", "old", "timedOut"} \subseteq DOMAIN NotAsking
      /\ NotAsking.stage # "sent"
  BY DEF NotAsking
<1>2. CASE asking' = [asking EXCEPT ![a] = NotAsking]
  BY <1>1, <1>2, OneCallMoves
<1>3. CASE Missing(a)
  <2>1. CASE Len(asking[a].models) = 1
    <3>1. asking' = [asking EXCEPT ![a] = NotAsking]
      BY <1>3, <2>1 DEF Missing
    <3>2. QED
      BY <1>2, <3>1
  <2>2. CASE Len(asking[a].models) # 1
    <3>1. PICK r : r = [asking[a] EXCEPT !.stage = "asking", !.models = Tail(@)]
      OBVIOUS
    <3>2. asking' = [asking EXCEPT ![a] = r]
      <4>1. asking' = [asking EXCEPT ![a] = IF Len(asking[a].models) = 1 THEN NotAsking
                ELSE [asking[a] EXCEPT !.stage = "asking", !.models = Tail(asking[a].models)]]
        BY <1>3 DEF Missing
      <4>2. r = [asking[a] EXCEPT !.stage = "asking", !.models = Tail(asking[a].models)]
        BY <3>1
      <4>3. QED
        BY <2>2, <4>1, <4>2
    <3>3. {"stage", "token", "models", "old", "timedOut"} \subseteq DOMAIN r /\ r.stage # "sent"
      BY <3>1 DEF CallsInv, TokensTyped
    <3>4. QED
      BY <3>2, <3>3, OneCallMoves
  <2>3. QED
    BY <2>1, <2>2
<1>4. QED
  BY <1>2, <1>3 DEF Outcome, Replied, Failed

LEMMA UnauthorizedKeepsInv ==
  ASSUME CallsInv, NEW a \in Asker, Unauthorized(a)
  PROVE  CallsInv'
<1>1. /\ Stale(a) /\ asking' = [asking EXCEPT ![a] = NotAsking] /\ file' = file
      /\ cached' = 0 /\ refusals' = refusals + 1
  BY DEF Unauthorized, Stale, Failed, AfterRefusal
<1>2. asking'[a] = NotAsking /\ \A b \in Asker \ {a} : asking'[b] = asking[b]
  BY <1>1 DEF CallsInv, TokensTyped
<1>3. TokensTyped'
  BY <1>1, <1>2 DEF CallsInv, TokensTyped, NotAsking
<1>4. StaleCalls' = StaleCalls \ {a} /\ a \in StaleCalls
  BY <1>1, <1>2 DEF StaleCalls, Stale, NotAsking
<1>5. StaleCalls \in SUBSET Asker
  BY DEF StaleCalls
<1>6. /\ Cardinality(StaleCalls) \in Nat /\ Cardinality(Asker) \in Nat
      /\ Cardinality(StaleCalls') = Cardinality(StaleCalls) - 1
  <2>1. IsFiniteSet(StaleCalls) /\ Cardinality(StaleCalls) \in Nat /\ Cardinality(Asker) \in Nat
    BY <1>5, StaleIsFinite
  <2>2. QED
    BY <1>4, <2>1, FS_RemoveElement
<1>7. RefusalsAreCounted'
  BY <1>1, <1>6 DEF CallsInv, TokensTyped, RefusalsAreCounted
<1>8. QED
  BY <1>3, <1>7 DEF CallsInv

LEMMA SendKeepsInv ==
  ASSUME CallsInv, NEW a \in Asker, Send(a)
  PROVE  CallsInv'
<1>1. PICK t \in TokenRead : cached' = t /\ asking' = [asking EXCEPT ![a].stage = "sent", ![a].token = t]
  BY DEF Send
<1>2. PICK r : r = [asking[a] EXCEPT !.stage = "sent", !.token = t]
  OBVIOUS
<1>3. asking' = [asking EXCEPT ![a] = r] /\ DOMAIN r = DOMAIN asking[a] /\ r.stage = "sent" /\ r.token = t
  BY <1>1, <1>2 DEF CallsInv, TokensTyped
<1>4. asking'[a] = r /\ \A b \in Asker \ {a} : asking'[b] = asking[b]
  BY <1>3 DEF CallsInv, TokensTyped
<1>5. file' = file /\ refusals' = refusals /\ t \in {cached, file}
  BY DEF Send, TokenRead
<1>6. TokensTyped'
  BY <1>3, <1>4, <1>5 DEF CallsInv, TokensTyped
<1>7. refusals \in Nat /\ StaleCalls \in SUBSET Asker /\ StaleCalls' \in SUBSET Asker
  BY DEF CallsInv, TokensTyped, StaleCalls
<1>8. CASE t = file
  <2>1. \A b \in Asker : Stale(b)' => Stale(b)
    BY <1>3, <1>4, <1>5, <1>8 DEF Stale
  <2>2. StaleCalls' \subseteq StaleCalls
    BY <2>1 DEF StaleCalls
  <2>3. /\ Cardinality(StaleCalls') \in Nat /\ Cardinality(StaleCalls) \in Nat /\ Cardinality(Asker) \in Nat
        /\ Cardinality(StaleCalls') <= Cardinality(StaleCalls)
    <3>1. IsFiniteSet(StaleCalls) /\ Cardinality(StaleCalls) \in Nat /\ Cardinality(Asker) \in Nat
      BY <1>7, StaleIsFinite
    <3>2. QED
      BY <2>2, <3>1, FS_Subset, FS_CardinalityType
  <2>4. RefusalsAreCounted'
    BY <1>1, <1>5, <1>7, <1>8, <2>3 DEF CallsInv, RefusalsAreCounted
  <2>5. QED
    BY <1>6, <2>4 DEF CallsInv
<1>9. CASE t # file
  <2>1. t = cached /\ TokenRead # {file}
    BY <1>1, <1>5, <1>9
  <2>2. cached # 0
    BY <2>1 DEF TokenRead
  <2>3. refusals = 0
    BY <1>7, <1>9, <2>1, <2>2 DEF CallsInv, RefusalsAreCounted
  <2>4. Cardinality(StaleCalls') \in Nat /\ Cardinality(StaleCalls') <= Cardinality(Asker)
    BY <1>7, StaleIsFinite
  <2>5. RefusalsAreCounted'
    BY <1>5, <2>3, <2>4 DEF RefusalsAreCounted
  <2>6. QED
    BY <1>6, <2>5 DEF CallsInv
<1>10. QED
  BY <1>8, <1>9

LEMMA LoginKeepsInv ==
  ASSUME CallsInv, Login
  PROVE  CallsInv'
<1>1. refusals' = 0 /\ asking' = asking
  BY DEF Login
<1>2. TokensTyped'
  BY <1>1 DEF CallsInv, TokensTyped
<1>3. StaleCalls' \in SUBSET Asker
  BY DEF StaleCalls
<1>4. Cardinality(StaleCalls') \in Nat /\ Cardinality(StaleCalls') <= Cardinality(Asker)
  BY <1>3, StaleIsFinite
<1>5. QED
  BY <1>1, <1>2, <1>4 DEF CallsInv, RefusalsAreCounted

LEMMA RebuildKeepsInv ==
  ASSUME CallsInv, NEW exclude \in SUBSET ProviderSet, RebuildSummarizer(exclude)
  PROVE  CallsInv'
<1>1. /\ asking' = [a \in Asker |-> [asking[a] EXCEPT !.old = asking[a].stage # "idle"]]
      /\ refusals' = refusals /\ file' = file /\ cached' = cached
  BY DEF RebuildSummarizer, tokenVars
<1>2. ASSUME NEW a \in Asker
      PROVE  /\ DOMAIN asking'[a] = DOMAIN asking[a]
             /\ asking'[a].stage = asking[a].stage /\ asking'[a].token = asking[a].token
  BY <1>1 DEF CallsInv, TokensTyped
<1>3. TokensTyped'
  BY <1>1, <1>2 DEF CallsInv, TokensTyped
<1>4. \A a \in Asker : Stale(a)' => Stale(a)
  BY <1>1, <1>2 DEF Stale
<1>5. QED
  BY <1>1, <1>3, <1>4, NoCallGoesStale

(* The steps of one call that touch neither the token nor its copy. *)
LEMMA CommandLineKeepsInv ==
  ASSUME CallsInv, NEW a \in Asker,
         Ask(a) \/ Spawn(a) \/ ChildEnds(a) \/ TimerFires(a) \/ PipeEnds(a)
           \/ NotLoggedIn(a) \/ Accepted(a) \/ SendFails(a)
  PROVE  CallsInv'
<1>1. refusals' = refusals /\ file' = file /\ cached' = cached
  BY DEF Ask, Spawn, ChildEnds, TimerFires, PipeEnds, NotLoggedIn, Accepted, SendFails, tokenVars
<1>2. DOMAIN asking = Asker /\ {"stage", "token", "models", "old", "timedOut"} \subseteq DOMAIN asking[a]
  BY DEF CallsInv, TokensTyped
<1>3. CASE Ask(a)
  <2>1. PICK r : r = [NotAsking EXCEPT !.stage = "asking", !.models = Candidates, !.by = provider]
    OBVIOUS
  <2>2. asking' = [asking EXCEPT ![a] = r]
    BY <1>3, <2>1 DEF Ask
  <2>3. {"stage", "token", "models", "old", "timedOut"} \subseteq DOMAIN r /\ r.stage # "sent"
    BY <2>1 DEF NotAsking
  <2>4. QED
    BY <1>1, <2>2, <2>3, OneCallMoves
<1>4. CASE Spawn(a)
  <2>1. PICK r : r = [asking[a] EXCEPT !.stage = "running"]
    OBVIOUS
  <2>2. asking' = [asking EXCEPT ![a] = r]
    BY <1>2, <1>4, <2>1 DEF Spawn
  <2>3. {"stage", "token", "models", "old", "timedOut"} \subseteq DOMAIN r /\ r.stage # "sent"
    BY <1>2, <2>1
  <2>4. QED
    BY <1>1, <2>2, <2>3, OneCallMoves
<1>5. CASE TimerFires(a)
  <2>1. PICK r : r = [asking[a] EXCEPT !.timedOut = TRUE]
    OBVIOUS
  <2>2. asking' = [asking EXCEPT ![a] = r]
    BY <1>2, <1>5, <2>1 DEF TimerFires
  <2>3. {"stage", "token", "models", "old", "timedOut"} \subseteq DOMAIN r /\ r.stage # "sent"
    BY <1>2, <1>5, <2>1 DEF TimerFires
  <2>4. QED
    BY <1>1, <2>2, <2>3, OneCallMoves
<1>6. CASE ChildEnds(a)
  <2>1. asking' = asking
    BY <1>6 DEF ChildEnds
  <2>2. TokensTyped' /\ \A b \in Asker : Stale(b)' => Stale(b)
    BY <1>1, <2>1 DEF CallsInv, TokensTyped, Stale
  <2>3. QED
    BY <1>1, <2>2, NoCallGoesStale
<1>7. CASE PipeEnds(a) \/ NotLoggedIn(a) \/ Accepted(a) \/ SendFails(a)
  <2>1. Outcome(a) \/ Failed(a)
    BY <1>7 DEF PipeEnds, NotLoggedIn, Accepted, SendFails
  <2>2. QED
    BY <1>1, <2>1, OutcomeMoves
<1>8. QED
  BY <1>3, <1>4, <1>5, <1>6, <1>7

LEMMA CallsStart == CallsInit => CallsInv
<1>1. SUFFICES ASSUME CallsInit PROVE CallsInv
  OBVIOUS
<1>2. asking = [a \in Asker |-> NotAsking] /\ refusals = 0
  BY <1>1 DEF CallsInit
<1>3. TokensTyped
  BY <1>2 DEF TokensTyped, NotAsking
<1>4. StaleCalls = {}
  BY <1>2 DEF StaleCalls, Stale, NotAsking
<1>5. Cardinality(StaleCalls) = 0 /\ Cardinality(Asker) \in Nat
  BY <1>4, CallsAssumption, FS_EmptySet, FS_CardinalityType
<1>6. QED
  BY <1>2, <1>3, <1>5 DEF CallsInv, RefusalsAreCounted

LEMMA CallsSteps == CallsInv /\ [CallsNext]_callsVars => CallsInv'
<1>1. SUFFICES ASSUME CallsInv, [CallsNext]_callsVars PROVE CallsInv'
  OBVIOUS
<1>2. ASSUME UNCHANGED asking /\ UNCHANGED tokenVars PROVE CallsInv'
  <2>1. refusals' = refusals /\ file' = file /\ cached' = cached /\ asking' = asking
    BY <1>2 DEF tokenVars
  <2>2. TokensTyped' /\ \A b \in Asker : Stale(b)' => Stale(b)
    BY <1>1, <2>1 DEF CallsInv, TokensTyped, Stale
  <2>3. QED
    BY <1>1, <2>1, <2>2, NoCallGoesStale
<1>3. ASSUME NEW p \in ProviderSet, LoginsChange(p) PROVE CallsInv'
  BY <1>2, <1>3 DEF LoginsChange
<1>4. ASSUME NEW m \in ModelSet, ModelRetired(m) PROVE CallsInv'
  BY <1>2, <1>4 DEF ModelRetired
<1>5. CASE Login
  BY <1>1, <1>5, LoginKeepsInv
<1>6. ASSUME NEW exclude \in SUBSET ProviderSet, RebuildSummarizer(exclude) PROVE CallsInv'
  BY <1>1, <1>6, RebuildKeepsInv
<1>7. ASSUME NEW a \in Asker, Ask(a) \/ Progress(a) \/ SendFails(a) PROVE CallsInv'
  BY <1>1, <1>7, CommandLineKeepsInv, SendKeepsInv, UnauthorizedKeepsInv DEF Progress
<1>8. CASE UNCHANGED callsVars
  BY <1>2, <1>8 DEF callsVars
<1>9. QED
  BY <1>1, <1>3, <1>4, <1>5, <1>6, <1>7, <1>8 DEF CallsNext

LEMMA CallsInvIsSafe == CallsInv => LoginTakesEffect
<1>1. SUFFICES ASSUME CallsInv PROVE LoginTakesEffect
  OBVIOUS
<1>2. StaleCalls \in SUBSET Asker
  BY DEF StaleCalls
<1>3. Cardinality(StaleCalls) \in Nat /\ Cardinality(Asker) \in Nat
  BY <1>2, StaleIsFinite
<1>4. QED
  BY <1>1, <1>3 DEF CallsInv, TokensTyped, RefusalsAreCounted, LoginTakesEffect

(* Whatever the calls, the logins and the providers do: since the last login a replaced
   token was refused at most once for each asker (the token cache of the OAuth summarizer). *)
THEOREM ALoginTakesEffect == CallsSpec => []LoginTakesEffect
<1>1. CallsSpec => []CallsInv
  BY CallsStart, CallsSteps, PTL DEF CallsSpec
<1>2. QED
  BY <1>1, CallsInvIsSafe, PTL

-----------------------------------------------------------------------------
(* MCCalls: either of the two is at work. *)

EndingInv == \/ part = "calls" /\ CallsInv
             \/ part = "capture" /\ CaptureInv

LEMMA EndingKeepsInv == EndingSpec => []EndingInv
<1>1. EndingInit => EndingInv
  BY CallsStart, CaptureStarts DEF EndingInit, EndingInv
<1>2. EndingInv /\ [EndingNext]_<<part, callsVars, vars>> => EndingInv'
  <2>1. SUFFICES ASSUME EndingInv, [EndingNext]_<<part, callsVars, vars>> PROVE EndingInv'
    OBVIOUS
  <2>2. part' = part
    BY <2>1 DEF EndingNext
  <2>3. CASE part = "calls"
    <3>1. CallsInv /\ [CallsNext]_callsVars
      BY <2>1, <2>3 DEF EndingInv, EndingNext
    <3>2. QED
      BY <2>2, <2>3, <3>1, CallsSteps DEF EndingInv
  <2>4. CASE part = "capture"
    <3>1. CaptureInv /\ [Next]_vars
      BY <2>1, <2>4 DEF EndingInv, EndingNext
    <3>2. QED
      BY <2>2, <2>4, <3>1, CaptureSteps DEF EndingInv
  <2>5. QED
    BY <2>1, <2>3, <2>4 DEF EndingInv
<1>3. QED
  BY <1>1, <1>2, PTL DEF EndingSpec

(* The two as the runs check them: a replaced login is refused at most once for each asker
   (the token cache). *)
THEOREM LoginsTakeEffectInEveryRun == EndingSpec => []LoginsTakeEffect
<1>1. EndingInv => LoginsTakeEffect
  BY CallsInvIsSafe DEF EndingInv, LoginsTakeEffect
<1>2. QED
  BY <1>1, EndingKeepsInv, PTL

(* Ticks do not overlap, every turn of a session recorded in its present state has been
   queued, and none twice (createTickGate, runCaptureTick). *)
THEOREM TurnsAreQueuedOnceInEveryRun == EndingSpec => []TurnsAreQueuedOnce
<1>1. EndingInv => TurnsAreQueuedOnce
  BY CaptureInvIsSafe DEF EndingInv, TurnsAreQueuedOnce
<1>2. QED
  BY <1>1, EndingKeepsInv, PTL
=============================================================================
