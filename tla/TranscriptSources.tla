-------------------------- MODULE TranscriptSources --------------------------
(***************************************************************************)
(* How the transcripts of other tools become turns, in full and from a     *)
(* resume point: the readers of Codex rollouts, of Gemini's session files  *)
(* and of both of Kimi's formats.  A transcript is a sequence of records,  *)
(* one a line; its position stands for a byte offset, a small number for a *)
(* text (0 is blank).  Files grow while they are read, the last line may   *)
(* be half written, and some are rewritten.                                *)
(***************************************************************************)
EXTENDS Integers, Sequences, SequencesExt

CONSTANTS
  MaxSourceRecords, \* bound on a transcript
  MaxRewrites,    \* bound on rewrites
  Window,         \* records the fingerprint before a resume point covers
  AnyOpening      \* Kimi 2.x may also take a step that no prompt is there for

TranscriptAssumption ==
  /\ {MaxSourceRecords, Window} \subseteq Nat \ {0} /\ MaxRewrites \in Nat /\ AnyOpening \in BOOLEAN

VARIABLES
  format,         \* which reader; they share nothing
  source,         \* the records written so far
  torn,           \* the last of them has no line end yet
  rewrites,       \* how often the file was rewritten (bound)
  resume          \* the resume point kept from the last read

sourceVars == <<format, source, torn, rewrites, resume>>

Format == {"codex", "gemini", "context", "wire"}
NoResume == [at |-> 0]
Rec(kind, id, text) == [kind |-> kind, id |-> id, text |-> text]

-----------------------------------------------------------------------------
(* Turns                                                                   *)

Turn(n, user, start) == [n |-> n, user |-> user, parts |-> <<>>, start |-> start]
AddPart(turns, text) == [turns EXCEPT ![Len(turns)].parts = Append(@, text)]
Ensured(turns, base, start) == IF turns = <<>> THEN <<Turn(base + 1, 0, start)>> ELSE turns

(* A turn with neither a prompt nor parts is no event. *)
Kept(turn) == turn.user # 0 \/ turn.parts # <<>>
Events(turns) == LET kept == SelectSeq(turns, Kept)
                 IN  [i \in DOMAIN kept |-> [n |-> kept[i].n, user |-> kept[i].user, parts |-> kept[i].parts]]

(* entriesToTurns: a user entry opens a turn, any other joins the one that is open. *)
EntriesToTurns(entries, base) ==
  FoldLeft(LAMBDA turns, i :
             LET e == entries[i] IN
             IF e.role = "user" THEN Append(turns, Turn(base + Len(turns) + 1, e.text, i))
             ELSE LET open == Ensured(turns, base, 1)
                  IN  IF e.text = 0 THEN open ELSE AddPart(open, e.text),
           <<>>, [i \in DOMAIN entries |-> i])

(* What a read gives: the events, the index of the first of them (-1: all of them), and where to resume. *)
Extract(events, from, next) == [events |-> events, from |-> from, next |-> next]

(* The half-written last line is no record yet. *)
Lines == IF torn THEN Front(source) ELSE source

-----------------------------------------------------------------------------
(* Codex: append-only, and the turn's first line is where to resume        *)

(* A prompt is written twice, and the second one only replaces the text of a turn without parts. *)
StartOrReplaceTurn(turns, base, r, at) ==
  IF turns # <<>> /\ Last(turns).parts = <<>> THEN [turns EXCEPT ![Len(turns)].user = r.text]
  ELSE Append(turns, Turn(base + Len(turns) + 1, r.text, at))

(* The same reply is written as a message and as a result. *)
AppendAssistant(turns, text) ==
  IF Last(turns).parts # <<>> /\ Last(Last(turns).parts) = text THEN turns ELSE AddPart(turns, text)

CodexTurns(first, base) ==
  FoldLeft(LAMBDA turns, i :
             LET r == Lines[first + i - 1] at == first + i - 1 IN
             IF r.text = 0 THEN turns
             ELSE IF r.kind = "user" THEN StartOrReplaceTurn(turns, base, r, at)
             ELSE AppendAssistant(Ensured(turns, base, at), r.text),
           <<>>, [i \in 1 .. Len(Lines) - first + 1 |-> i])

ParseCodex(r) ==
  LET whole == r = NoResume \/ r.end > Len(source)
      turns == IF whole THEN CodexTurns(1, 0) ELSE CodexTurns(r.at, r.prompt)
      before == IF whole THEN 0 ELSE r.events
  IN  Extract(Events(turns), IF whole THEN -1 ELSE r.events,
              IF turns = <<>> THEN NoResume
              ELSE [at |-> Last(turns).start, end |-> Len(source),
                    events |-> before + Len(Events(Front(turns))), prompt |-> Last(turns).n - 1])

-----------------------------------------------------------------------------
(* Kimi 1.x (context.jsonl) and 2.x (wire.jsonl)                           *)

(* What is hashed before an offset. *)
RecordsBefore(at) == SubSeq(source, IF at > Window THEN at - Window ELSE 1, at - 1)

(* Mutant: a file that is long enough is the one that was read. *)
LongEnough(r) == r # NoResume /\ r.end <= Len(source)

(* load: the resume point holds while the file is no shorter and the bytes before the offset are the same. *)
ResumeHolds(r) == r # NoResume /\ r.end <= Len(source) /\ RecordsBefore(r.at) = r.print

LegacyEntries(first) ==
  [i \in 1 .. Len(Lines) - first + 1 |->
     [role |-> Lines[first + i - 1].kind, text |-> Lines[first + i - 1].text, at |-> first + i - 1]]

(* undo: back over the last prompt and what followed it, as far as the floor. *)
Undone(items, floor) ==
  LET prompts == {i \in DOMAIN items : i > floor /\ items[i].anchor}
  IN  IF prompts = {} THEN SubSeq(items, 1, floor)
      ELSE SubSeq(items, 1, (CHOOSE i \in prompts : \A j \in prompts : j <= i) - 1)

(* wireEntries: items and their entries, the step that is open, the floor that no undo crosses. *)
WireItem(anchor, entries) == [anchor |-> anchor, entries |-> entries]
WireStep(s, r, at) ==
  CASE r.kind = "user"  -> [s EXCEPT !.items = Append(@, WireItem(TRUE, <<[role |-> "user", text |-> r.text, at |-> at]>>))]
    [] r.kind = "slash" -> [s EXCEPT !.items = Append(@, WireItem(TRUE, <<>>))]
    [] r.kind = "begin" -> [s EXCEPT !.items = Append(@, WireItem(FALSE, <<>>)), !.open = Len(s.items) + 1]
    [] r.kind = "end"   -> [s EXCEPT !.open = 0]
    [] r.kind = "part"  -> IF s.open = 0 \/ r.text = 0 THEN s
                           ELSE [s EXCEPT !.items[s.open].entries = Append(@, [role |-> "model", text |-> r.text, at |-> at])]
    [] r.kind = "undo"  -> [s EXCEPT !.items = Undone(s.items, s.floor), !.open = 0]
    [] r.kind = "clear" -> [s EXCEPT !.floor = Len(s.items), !.open = 0]

WireEntries(first) ==
  LET s == FoldLeft(LAMBDA st, i : WireStep(st, Lines[first + i - 1], first + i - 1),
                    [items |-> <<>>, open |-> 0, floor |-> 0], [i \in 1 .. Len(Lines) - first + 1 |-> i])
  IN  FlattenSeq([i \in DOMAIN s.items |-> s.items[i].entries])

(* An undo after the resume point can reach before it, so the whole file is read. *)
Undoes(r) == format = "wire" /\ \E i \in r.at .. Len(Lines) : Lines[i].kind = "undo"

ParseKimi(r) ==
  LET resumes == ResumeHolds(r) /\ ~Undoes(r)
      first == IF resumes THEN r.at ELSE 1
      entries == IF format = "wire" THEN WireEntries(first) ELSE LegacyEntries(first)
      turns == EntriesToTurns(entries, IF resumes THEN r.prompt ELSE 0)
      at == entries[Last(turns).start].at
  IN  Extract(Events(turns), IF resumes THEN r.events ELSE -1,
              IF turns = <<>> THEN NoResume
              ELSE [at |-> at, end |-> Len(source), prompt |-> Last(turns).n - 1, print |-> RecordsBefore(at),
                    events |-> (IF resumes THEN r.events ELSE 0) + Len(Events(Front(turns)))])

-----------------------------------------------------------------------------
(* Gemini: messages are replaced in place, rewound, or set anew            *)

Whole == [closed |-> {}, end |-> 0]

(* applyRecords: on a replay, whatever touches a turn that was closed gives up, unless it was there at the last read. *)
ApplyRecord(s, r, at, replay) ==
  LET has == {i \in DOMAIN s.msgs : s.msgs[i].id = r.id}
      added == Append(s.msgs, [id |-> r.id, role |-> r.kind, text |-> r.text, at |-> at])
  IN  CASE r.kind = "rewind" ->
             IF replay # Whole THEN [s EXCEPT !.ok = FALSE]
             ELSE [s EXCEPT !.hist = at, !.msgs = IF has = {} THEN <<>> ELSE SubSeq(s.msgs, 1, (CHOOSE i \in has : TRUE) - 1)]
        [] r.kind = "history" ->
             IF replay # Whole THEN [s EXCEPT !.ok = FALSE]
             ELSE [s EXCEPT !.hist = at, !.msgs = <<[id |-> r.id, role |-> "user", text |-> r.text, at |-> at]>>]
        [] OTHER ->
             IF has # {} THEN [s EXCEPT !.msgs = [i \in DOMAIN @ |->
                                 IF i \in has THEN [@[i] EXCEPT !.role = r.kind, !.text = r.text] ELSE @[i]]]
             ELSE IF r.id \in replay.closed THEN [s EXCEPT !.ok = @ /\ at <= replay.end]
             ELSE [s EXCEPT !.msgs = added]

ApplyRecords(first, replay) ==
  FoldLeft(LAMBDA s, i : IF s.ok THEN ApplyRecord(s, Lines[first + i - 1], first + i - 1, replay) ELSE s,
           [msgs |-> <<>>, hist |-> 0, ok |-> TRUE], [i \in 1 .. Len(Lines) - first + 1 |-> i])

(* toEntries: a blank prompt is no entry. *)
ToEntries(msgs) == SelectSeq([i \in DOMAIN msgs |-> [role |-> msgs[i].role, text |-> msgs[i].text, msg |-> i]],
                             LAMBDA e : e.role # "user" \/ e.text # 0)

Printed(at, end) == SubSeq(source, IF at > Window THEN at - Window ELSE 1, end)

NextResume(s, entries, turns, events, closed) ==
  IF turns = <<>> THEN NoResume
  ELSE LET start == Last(turns).start
           mi == entries[start].msg
           at == s.msgs[mi].at
           done == closed \cup {s.msgs[i].id : i \in 1 .. mi - 1}
           earlier == Len(Events(Front(turns)))
       IN  IF s.hist >= at \/ \E i \in mi .. Len(s.msgs) : s.msgs[i].id \in done THEN NoResume
           ELSE [at |-> at, end |-> Len(Lines), events |-> events + earlier, prompt |-> Last(turns).n - 1,
                 closed |-> done, user |-> entries[start].role = "user", print |-> Printed(at, Len(Lines)),
                 open |-> IF Kept(Last(turns)) THEN <<Last(Events(turns))>> ELSE <<>>]

FullGemini ==
  LET s == ApplyRecords(1, Whole)
      entries == ToEntries(s.msgs)
      turns == EntriesToTurns(entries, 0)
  IN  Extract(Events(turns), -1, NextResume(s, entries, turns, 0, {}))

(* incremental: also given up when the open turn no longer starts as it did, or has changed. *)
ParseGemini(r) ==
  IF r = NoResume \/ r.end > Len(source) \/ Printed(r.at, r.end) # r.print THEN FullGemini
  ELSE LET s == ApplyRecords(r.at, [closed |-> r.closed, end |-> r.end])
           entries == ToEntries(s.msgs)
           turns == EntriesToTurns(entries, r.prompt)
           events == Events(turns)
       IN  IF \/ ~s.ok
              \/ r.user /\ (entries = <<>> \/ entries[1].role # "user" \/ entries[1].msg # 1)
              \/ r.open # <<>> /\ (events = <<>> \/ <<Head(events)>> # r.open)
           THEN FullGemini
           ELSE Extract(events, r.events, NextResume([s EXCEPT !.hist = -1], entries, turns, r.events, r.closed))

-----------------------------------------------------------------------------
Parse(r) ==
  CASE format = "codex" -> ParseCodex(r)
    [] format = "gemini" -> ParseGemini(r)
    [] OTHER -> ParseKimi(r)

SourceInit ==
  /\ format \in Format /\ source = <<>> /\ torn = FALSE /\ rewrites = 0 /\ resume = NoResume

Text == 0 .. 2
EventIds == {source[i].id : i \in DOMAIN source} \cup {0}
Newest == CHOOSE i \in EventIds : \A j \in EventIds : j <= i

(* What the tools write next.  A prompt of Kimi 2.x is never blank; only Gemini's lines have ids: elsewhere the
   id tells the lines of one writing of the file from those of another, which the code's fingerprint assumes. *)
Written ==
  CASE format \in {"codex", "context"} -> [kind : {"user", "model"}, id : {rewrites}, text : Text]
    [] format = "wire" ->
         [kind : {"user", "part"}, id : {rewrites}, text : {1}]
         \cup [kind : {"begin", "end", "undo", "clear", "slash"}, id : {rewrites}, text : {0}]
    [] OTHER ->
         [kind : {"user", "model"}, id : (EventIds \cup {Newest + 1}) \ {0}, text : {0, 1}]
         \cup [kind : {"rewind"}, id : EventIds, text : {0}] \cup {Rec("history", Newest + 1, 1)}

(* A Kimi session begins with a prompt or a slash command, and either waits for the end of the step. *)
InAStep == \E i \in DOMAIN source : source[i].kind = "begin" /\ \A j \in i .. Len(source) : source[j].kind \in {"begin", "part"}
Follows(r) ==
  format = "wire" => /\ source = <<>> => r.kind \in {"user", "slash"}
                     /\ r.kind = "begin" /\ ~AnyOpening => \E e \in ToSet(WireEntries(1)) : e.role = "user"
                     /\ InAStep => r.kind \notin {"user", "slash"}

WriteLine ==
  /\ ~torn /\ Len(source) < MaxSourceRecords
  /\ \E r \in Written : Follows(r) /\ source' = Append(source, r)
  /\ torn' \in BOOLEAN /\ UNCHANGED <<format, rewrites, resume>>

FinishLine == torn /\ torn' = FALSE /\ UNCHANGED <<format, source, rewrites, resume>>

(* kimi's compaction, migration and repair: other lines in the place of the old ones, none of them the same. *)
RewriteFile ==
  /\ format \in {"context", "wire"} /\ rewrites < MaxRewrites /\ source # <<>> /\ ~torn
  /\ rewrites' = rewrites + 1
  /\ \E n \in 1 .. Len(source) :
       source' = [i \in 1 .. n |-> Rec(IF i = 1 \/ format = "context" THEN "user" ELSE "begin", rewrites + 1, 1)]
  /\ UNCHANGED <<format, torn, resume>>

(* The driver keeps the resume point it is given. *)
ReadTranscript ==
  /\ resume' = Parse(resume).next /\ UNCHANGED <<format, source, torn, rewrites>>

SourceNext == WriteLine \/ FinishLine \/ RewriteFile \/ ReadTranscript
SourceSpec == SourceInit /\ [][SourceNext]_sourceVars

SourceTypeOK ==
  /\ format \in Format /\ Len(source) \in 0 .. MaxSourceRecords /\ torn \in BOOLEAN /\ rewrites \in 0 .. MaxRewrites
  /\ resume # NoResume => resume.at \in 1 .. resume.end

(* types.ts: the events of a read are exactly the full extract's from index
   `from` on.  Whatever was written, rewound, undone or rewritten since the
   resume point was made, reading on from it gives what reading everything
   gives; the driver counts on it when it skips the turns it has queued.
   With AnyOpening the code does not keep it: a turn that a slash command or
   an undone prompt opened begins, for the resume point, at its first part,
   past the step.begin without which that part is ignored.                 *)
ResumeReadsTheSame ==
  LET read == Parse(resume)
      all == Parse(NoResume).events
  IN  read.from >= 0 => read.events = SubSeq(all, read.from + 1, Len(all))
=============================================================================
