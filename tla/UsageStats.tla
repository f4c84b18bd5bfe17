------------------------------ MODULE UsageStats ------------------------------
(***************************************************************************)
(* The figures the worker reports of itself.  Three machines that share    *)
(* nothing: the scans of the tools' transcripts, which keep one            *)
(* accumulator a file and overlap while they wait for reads; the readers   *)
(* of the recall audit log; and the snapshot that /stats serves.  A        *)
(* position in a file counts complete lines: what comes after the last     *)
(* line end is left for the next read.                                     *)
(***************************************************************************)
EXTENDS Integers, Sequences, SequencesExt

CONSTANTS
  MaxRecords,    \* bound on the records of a transcript, by transcript
  Remembered,    \* message ids an accumulator remembers (64 in the code)
  StatsCaller,   \* callers that ask for injected tokens, or for the stats
  MaxLines,      \* bound on the lines of the audit log
  MaxCuts,       \* bound on how often that log is cut
  MaxWrites      \* bound on writes that change the stats

StatsAssumption ==
  /\ DOMAIN MaxRecords = {"session", "agent"} /\ \A f \in DOMAIN MaxRecords : MaxRecords[f] \in Nat
  /\ Remembered \in Nat \ {0} /\ {MaxLines, MaxCuts, MaxWrites} \subseteq Nat

VARIABLES
  file,          \* the transcripts: usage records, of a message or of none
  result,        \* the workflow's journal reports the agent's result
  acc,           \* ACC: offset, total and the last messages with their largest usage
  scan,          \* the scans in flight
  allTime,       \* the cached all-time figure, -1: none yet
  due,           \* what was on disk when the wide scan began (history)
  script,        \* a workflow's script is on disk
  names,         \* WF_NAMES of its session: "unread", or whether the script was seen
  wasNamed       \* the last row of the workflow: whether the script was there and whether it was named

scanVars == <<file, result, acc, scan, allTime, due, script, names, wasNamed>>

VARIABLES
  log,           \* lines of the audit log, each one injection
  cuts,          \* how often it was cut (bound)
  injected,      \* INJ_ACC: offset, tally, and which accumulator it is
  tally,         \* callers of injectedBySession
  dream          \* dream-stats: offset, entries, and the flight

auditVars == <<log, cuts, injected, tally, dream>>

VARIABLES
  writes,        \* writes so far (bound)
  cache,         \* statsCache: the writes it shows, -1: none
  stale,         \* it is past its time to live
  gen,           \* statsGen
  inflight,      \* the generation of the compute in the single-flight slot, -1: empty
  compute,       \* the computes that run: generation -> writes seen at the start
  ask            \* the requests

snapshotVars == <<writes, cache, stale, gen, inflight, compute, ask>>
statsVars == <<scanVars, auditVars, snapshotVars>>

-----------------------------------------------------------------------------
(* Transcripts                                                             *)

Transcript == DOMAIN MaxRecords
Scan == {"poll", "wide"}
NoAcc == [offset |-> 0, total |-> 0, seen |-> <<>>]
Resting == [at |-> "idle", todo |-> <<>>, pos |-> 0, size |-> 0, sum |-> 0]

(* digest: a message is counted once, by its largest usage; the ids kept are the last ones. *)
Counted(t, r) ==
  LET known == {i \in DOMAIN t.seen : t.seen[i].msg = r.msg}
      i == CHOOSE k \in known : TRUE
      kept == Append(t.seen, r)
  IN  IF r.msg = 0 THEN [t EXCEPT !.total = @ + r.out]
      ELSE IF known # {} THEN [t EXCEPT !.total = @ + Max({0, r.out - t.seen[i].out}), !.seen[i].out = Max({@, r.out})]
      ELSE [t EXCEPT !.total = @ + r.out, !.seen = IF Len(kept) > Remembered THEN Tail(kept) ELSE kept]

Digested(t, records) == FoldLeft(Counted, t, records)

(* What the records amount to: each message its largest usage, each record of none its own. *)
Recount(records) ==
  LET MsgsOf == {records[i].msg : i \in DOMAIN records} \ {0}
  IN  MapThenSumSet(LAMBDA i : records[i].out, {i \in DOMAIN records : records[i].msg = 0})
      + MapThenSumSet(LAMBDA m : Max({records[i].out : i \in {k \in DOMAIN records : records[k].msg = m}}), MsgsOf)

(* The tools write: the records of one message are next to each other, and its usage may grow. *)
WriteRecord(f) ==
  LET newest == Max({0} \cup {file[f][i].msg : i \in DOMAIN file[f]})
  IN  /\ Len(file[f]) < MaxRecords[f]
      /\ \E m \in {0, newest, newest + 1}, n \in 1 .. 2 :
           /\ n = 2 => m = newest /\ m # 0
           /\ file' = [file EXCEPT ![f] = Append(@, [msg |-> m, out |-> n])]
      /\ UNCHANGED <<result, acc, scan, allTime, due, script, names, wasNamed>>

AgentReports ==
  /\ result = FALSE /\ file["agent"] # <<>> /\ result' = TRUE
  /\ UNCHANGED <<file, acc, scan, allTime, due, script, names, wasNamed>>

(* includeFinished: a finished agent is no longer live, but what it spent was spent. *)
Reported(p, f) == p = "wide" \/ f = "session" \/ result = FALSE

(* readNativeSessionUsage: the session's transcript, then those of its agents; the poll passes over an idle one. *)
BeginScan(p) ==
  /\ scan[p].at = "idle"
  /\ \E idle \in SUBSET Transcript :
       /\ "agent" \notin idle /\ (p = "wide" => idle = {})
       /\ scan' = [scan EXCEPT ![p] = [Resting EXCEPT !.at = "walk",
                     !.todo = SelectSeq(<<"session", "agent">>, LAMBDA f : f \notin idle)]]
  /\ due' = IF p = "wide" THEN Recount(file["session"]) + Recount(file["agent"]) ELSE due
  /\ UNCHANGED <<file, result, acc, allTime, script, names, wasNamed>>

RowOf(p, total) == [scan[p] EXCEPT !.at = "walk", !.todo = Tail(@), !.sum = IF p = "wide" THEN @ + total ELSE 0]

(* accumulate: the size is that of the walk, and the reading starts where the file's accumulator is. *)
NextTranscript(p) ==
  /\ scan[p].at = "walk" /\ scan[p].todo # <<>>
  /\ LET f == Head(scan[p].todo)
     IN  scan' = [scan EXCEPT ![p] =
           IF ~Reported(p, f) THEN [@ EXCEPT !.todo = Tail(@)]
           ELSE IF Len(file[f]) > acc[f].offset
                THEN [@ EXCEPT !.at = "read", !.pos = acc[f].offset, !.size = Len(file[f])]
                ELSE RowOf(p, acc[f].total)]
  /\ UNCHANGED <<file, result, acc, allTime, due, script, names, wasNamed>>

(* Mutant: the read goes on from where it was asked for. *)
AskedFrom(t, pos) == pos

(* After the await: whatever another scan has digested meanwhile is skipped. *)
Resynced(t, pos) == Max({t.offset, pos})

(* A piece is read, of any length, and digested unless another scan got there first. *)
ReadPiece(p) ==
  LET f == Head(scan[p].todo)
      from == Resynced(acc[f], scan[p].pos)
  IN  /\ scan[p].at = "read"
      /\ \E to \in (scan[p].pos + 1) .. scan[p].size :
           LET reads == from = scan[p].pos
               t == IF reads THEN [Digested(acc[f], SubSeq(file[f], from + 1, to)) EXCEPT !.offset = Max({@, to})] ELSE acc[f]
               pos == IF reads THEN to ELSE from
           IN  /\ acc' = [acc EXCEPT ![f] = t]
               /\ scan' = [scan EXCEPT ![p] = IF pos < scan[p].size THEN [@ EXCEPT !.pos = pos] ELSE RowOf(p, t.total)]
      /\ UNCHANGED <<file, result, allTime, due, script, names, wasNamed>>

(* A failed read leaves the row with what was counted so far; the all-time figure is then short. *)
ReadFails(p) ==
  /\ scan[p].at = "read"
  /\ scan' = [scan EXCEPT ![p] = RowOf(p, acc[Head(scan[p].todo)].total)]
  /\ due' = IF p = "wide" THEN 0 ELSE due
  /\ UNCHANGED <<file, result, acc, allTime, script, names, wasNamed>>

(* allTimeTotals: one wide scan at a time, and its sum replaces the cached one. *)
EndScan(p) ==
  /\ scan[p].at = "walk" /\ scan[p].todo = <<>>
  /\ scan' = [scan EXCEPT ![p] = Resting]
  /\ allTime' = IF p = "wide" THEN scan[p].sum ELSE allTime
  /\ UNCHANGED <<file, result, acc, due, script, names, wasNamed>>

WriteScript == script = FALSE /\ script' = TRUE /\ UNCHANGED <<file, result, acc, scan, allTime, due, names, wasNamed>>

(* workflowNames: a miss drops what is cached and looks again. *)
Names == IF names = "with" THEN names ELSE IF script THEN "with" ELSE "without"

NameWorkflow ==
  /\ names' = Names /\ wasNamed' = [there |-> script, given |-> Names = "with"]
  /\ UNCHANGED <<file, result, acc, scan, allTime, due, script>>

-----------------------------------------------------------------------------
(* The recall audit log                                                    *)

CallInit == [at |-> "idle", size |-> 0, from |-> 0, acc |-> 0]

(* A cut log is read before it has grown past where its readers were: they only see that it is shorter. *)
AppendLine ==
  /\ Len(log) < MaxLines /\ injected.offset <= Len(log) /\ dream.offset <= Len(log)
  /\ log' = Append(log, 1) /\ UNCHANGED <<cuts, injected, tally, dream>>

CutLog ==
  /\ cuts < MaxCuts /\ log # <<>>
  /\ log' = <<>> /\ cuts' = cuts + 1 /\ UNCHANGED <<injected, tally, dream>>

(* injectedBySession: the size is awaited, then the accumulator is taken or made anew, then the tail is awaited. *)
StatLog(c) ==
  /\ tally[c].at = "idle" /\ log # <<>>
  /\ tally' = [tally EXCEPT ![c] = [CallInit EXCEPT !.at = "sized", !.size = Len(log)]]
  /\ UNCHANGED <<log, cuts, injected, dream>>

TakeAccumulator(c) ==
  LET anew == tally[c].size < injected.offset
      a == IF anew THEN [offset |-> 0, tally |-> 0, acc |-> injected.acc + 1] ELSE injected
  IN  /\ tally[c].at = "sized"
      /\ injected' = a
      /\ tally' = [tally EXCEPT ![c] = IF tally[c].size > a.offset
                                      THEN [@ EXCEPT !.at = "reading", !.from = a.offset, !.acc = a.acc] ELSE CallInit]
      /\ UNCHANGED <<log, cuts, dream>>

(* What another call has tallied since this one asked for its bytes. *)
Skipped(from) == injected.offset - from

(* An accumulator that was replaced meanwhile is nobody's any more. *)
Tally(c) ==
  LET got == SubSeq(log, tally[c].from + 1, Min({tally[c].size, Len(log)}))
      new == SubSeq(got, Skipped(tally[c].from) + 1, Len(got))
  IN  /\ tally[c].at = "reading"
      /\ injected' = IF injected.acc = tally[c].acc
                     THEN [injected EXCEPT !.tally = @ + FoldLeft(LAMBDA x, y : x + y, 0, new),
                                           !.offset = IF new = <<>> THEN @ ELSE tally[c].from + Len(got)]
                     ELSE injected
      /\ tally' = [tally EXCEPT ![c] = CallInit] /\ UNCHANGED <<log, cuts, dream>>

(* dream-stats: one flight that every overlapping call joins, since its digest breathes between the lines. *)
BeginDream ==
  /\ dream.left = <<>> /\ log # <<>>
  /\ LET a == IF Len(log) < dream.offset THEN [offset |-> 0, entries |-> 0, left |-> <<>>, to |-> 0] ELSE dream
     IN  dream' = [a EXCEPT !.left = SubSeq(log, a.offset + 1, Len(log)), !.to = Len(log)]
  /\ UNCHANGED <<log, cuts, injected, tally>>

DigestLine ==
  /\ dream.left # <<>>
  /\ dream' = [dream EXCEPT !.entries = @ + 1, !.left = Tail(@), !.offset = IF Len(dream.left) = 1 THEN dream.to ELSE @]
  /\ UNCHANGED <<log, cuts, injected, tally>>

-----------------------------------------------------------------------------
(* The snapshot of /stats                                                  *)

Asking == [at |-> "idle", asked |-> 0, on |-> -1, shown |-> 0]

(* invalidateStats *)
WriteObservation ==
  /\ writes < MaxWrites /\ writes' = writes + 1
  /\ cache' = -1 /\ gen' = gen + 1 /\ UNCHANGED <<stale, inflight, compute, ask>>

SnapshotAges == stale = FALSE /\ cache >= 0 /\ stale' = TRUE /\ UNCHANGED <<writes, cache, gen, inflight, compute, ask>>

(* A compute that began before a write shows what was before it. *)
NoneOfThisGeneration == inflight # gen

(* GET /stats: a snapshot past its time is served and refreshed; without one the request waits for the compute. *)
AskStats(r) ==
  LET starts == (cache = -1 \/ stale) /\ NoneOfThisGeneration
      slot == IF starts THEN gen ELSE inflight
  IN  /\ ask[r].at = "idle"
      /\ inflight' = slot
      /\ compute' = IF starts THEN compute @@ (gen :> writes) ELSE compute
      /\ ask' = [ask EXCEPT ![r] = [at |-> IF cache >= 0 THEN "answered" ELSE "waits", asked |-> writes, on |-> slot,
                                    shown |-> IF cache >= 0 THEN cache ELSE 0]]
      /\ UNCHANGED <<writes, cache, stale, gen>>

(* Only a compute of this generation fills the cache, and only its own slot is emptied; those who wait on it are answered. *)
ComputeEnds(g) ==
  /\ cache' = IF g = gen THEN compute[g] ELSE cache
  /\ stale' = IF g = gen THEN FALSE ELSE stale
  /\ inflight' = IF inflight = g THEN -1 ELSE inflight
  /\ compute' = [h \in DOMAIN compute \ {g} |-> compute[h]]
  /\ ask' = [r \in StatsCaller |-> IF ask[r].at = "waits" /\ ask[r].on = g
                              THEN [ask[r] EXCEPT !.at = "answered", !.shown = compute[g]] ELSE ask[r]]
  /\ UNCHANGED <<writes, gen>>

ComputeFails(g) ==
  /\ inflight' = IF inflight = g THEN -1 ELSE inflight
  /\ compute' = [h \in DOMAIN compute \ {g} |-> compute[h]]
  /\ ask' = [r \in StatsCaller |-> IF ask[r].at = "waits" /\ ask[r].on = g THEN Asking ELSE ask[r]]
  /\ UNCHANGED <<writes, cache, stale, gen>>

AnswerRead(r) == ask[r].at = "answered" /\ ask' = [ask EXCEPT ![r] = Asking] /\ UNCHANGED <<writes, cache, stale, gen, inflight, compute>>

-----------------------------------------------------------------------------
StatsInit ==
  /\ file = [f \in Transcript |-> <<>>] /\ result = FALSE /\ acc = [f \in Transcript |-> NoAcc]
  /\ scan = [p \in Scan |-> Resting] /\ allTime = -1 /\ due = 0
  /\ script = FALSE /\ names = "unread" /\ wasNamed = [there |-> FALSE, given |-> FALSE]
  /\ log = <<>> /\ cuts = 0 /\ injected = [offset |-> 0, tally |-> 0, acc |-> 0]
  /\ tally = [c \in StatsCaller |-> CallInit] /\ dream = [offset |-> 0, entries |-> 0, left |-> <<>>, to |-> 0]
  /\ writes = 0 /\ cache = -1 /\ stale = FALSE /\ gen = 0 /\ inflight = -1
  /\ compute = [g \in {} |-> 0] /\ ask = [r \in StatsCaller |-> Asking]

ScanNext ==
  /\ \/ \E f \in Transcript : WriteRecord(f)
     \/ AgentReports
     \/ \E p \in Scan : BeginScan(p) \/ NextTranscript(p) \/ ReadPiece(p) \/ ReadFails(p) \/ EndScan(p)
  /\ UNCHANGED <<auditVars, snapshotVars>>

NamingNext == (WriteScript \/ NameWorkflow) /\ UNCHANGED <<auditVars, snapshotVars>>

AuditNext ==
  /\ \/ AppendLine \/ CutLog \/ BeginDream \/ DigestLine
     \/ \E c \in StatsCaller : StatLog(c) \/ TakeAccumulator(c) \/ Tally(c)
  /\ UNCHANGED <<scanVars, snapshotVars>>

SnapshotNext ==
  /\ \/ WriteObservation \/ SnapshotAges
     \/ \E r \in StatsCaller : AskStats(r) \/ AnswerRead(r)
     \/ \E g \in DOMAIN compute : ComputeEnds(g) \/ ComputeFails(g)
  /\ UNCHANGED <<scanVars, auditVars>>

StatsTypeOK ==
  /\ \A f \in Transcript : Len(file[f]) <= MaxRecords[f] /\ acc[f].offset \in 0 .. Len(file[f]) /\ Len(acc[f].seen) <= Remembered
  /\ \A p \in Scan : scan[p].at \in {"idle", "walk", "read"} /\ scan[p].pos <= scan[p].size
  /\ injected.offset \in 0 .. MaxLines /\ DOMAIN compute \subseteq 0 .. gen /\ inflight \in {-1} \cup DOMAIN compute

(* native-session-usage.ts: however two scans of one transcript overlap, each
   message before the offset is counted once, by its largest usage.          *)
MessagesAreCountedOnce == \A f \in Transcript : acc[f].total = Recount(SubSeq(file[f], 1, acc[f].offset))

(* "Never a partial figure": the all-time total holds at least all that was on
   disk when the last scan for it began, finished agents included.           *)
AllTimeIsWhole == scan["wide"].at = "idle" /\ allTime >= 0 => allTime >= due

(* Every line of the audit log before the offset is tallied once, whichever
   calls overlapped, and so it is for the digest of dream-stats.             *)
InjectionsAreCountedOnce ==
  /\ injected.offset <= Len(log) => injected.tally = injected.offset
  /\ dream.left = <<>> => dream.entries = dream.offset

(* A reader after a write sees it, whether it is served from the cache, waits
   for its own compute or for one that was already running.                  *)
AnswersAreCurrent == \A r \in StatsCaller : ask[r].at = "answered" => ask[r].shown >= ask[r].asked

(* A workflow whose script is on disk is named, also when it was not there at the first look. *)
WorkflowsAreNamed == wasNamed.there => wasNamed.given

(* What /stats and the session board report is what is in the files. *)
FiguresAreExact ==
  /\ MessagesAreCountedOnce /\ AllTimeIsWhole /\ InjectionsAreCountedOnce
  /\ AnswersAreCurrent /\ WorkflowsAreNamed
=============================================================================
