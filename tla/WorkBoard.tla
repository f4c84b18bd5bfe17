------------------------------ MODULE WorkBoard ------------------------------
(***************************************************************************)
(* The work-coordination board and its edit guard                          *)
(* (src/worker/work-notes.ts, the /worknote routes of src/worker/index.ts, *)
(* src/hooks/pre-tool-use.ts).  A session's claim is one leased note in    *)
(* the worker's database.  Before each editing tool call the PreToolUse    *)
(* hook reads the board, adds the files of the call to the ones it read    *)
(* and posts the whole claim back; the worker answers with a denial when   *)
(* a live claim of another process holds one of the files.  The MCP tools  *)
(* work_set and work_clear replace or drop a claim in one call, and a user *)
(* may override the guard.                                                 *)
(*                                                                         *)
(* Each route handler is one step: it does not await after it has read its *)
(* body.  Between the hook's two requests anything may happen.  Time is    *)
(* counted in ticks of ten minutes: a claim carries its age, not a date.   *)
(* Paths are compared by equality; globs, topics, semantic overlap and the *)
(* advisories are not modelled, and CAPTAIN_MEMO_WORKBOARD_ENFORCE is on.  *)
(***************************************************************************)
EXTENDS Integers, FiniteSets

CONSTANTS
  Session,      \* session ids on the board
  PidOf,        \* session -> the AI process it runs in, None when not found
  Call,         \* tool calls that can be in progress at once
  SessionOf,    \* call -> its session
  File,
  StaleAfter,   \* STALE_AFTER_MS, in ticks
  DefaultTtl,   \* DEFAULT_TTL_S, in ticks
  Ttls,         \* leases a work_set may ask for
  OverrideTtl,  \* OVERRIDE_MS
  OneToolAtATime, \* a process has one edit in progress (subagents share a session)
  QuickHooks,   \* no lease runs out between the two requests of a hook
  Outages,      \* a request of the hook may go unanswered
  None

ASSUME PidAssumption == DOMAIN PidOf = Session /\ None \notin Session
ASSUME CallAssumption == SessionOf \in [Call -> Session]
ASSUME TickAssumption ==
  /\ StaleAfter \in Nat /\ DefaultTtl \in Nat \ {0} /\ OverrideTtl \in Nat
  /\ Ttls \subseteq Nat \ {0}
ASSUME SwitchAssumption ==
  OneToolAtATime \in BOOLEAN /\ QuickHooks \in BOOLEAN /\ Outages \in BOOLEAN

VARIABLES
  note,      \* worknote:<session>, None when there is no row
  override,  \* wnoverride:<session>
  exited,    \* processes that have ended
  call,      \* the hook of a tool call, then the tool itself
  lifted,    \* history: files some user has overridden a claim for
  revived    \* history: files an edit of others took back, see Carried

vars == <<note, override, exited, call, lifted, revived>>

Pid == {PidOf[s] : s \in Session} \ {None}
Lease == {DefaultTtl} \cup Ttls

(* `declared` is what is left of declared_until: 0 when nothing was declared or
   the declaration is over. *)
Note == [files : SUBSET File, age : Nat, ttl : Nat \ {0}, declared : Nat, pid : Pid \cup {None}]

ASSUME NoteAssumption == None \notin Note

(* `lease` is what is left of the lease a running tool was let through with. *)
NoCall == [phase |-> "idle", files |-> {}, touched |-> {}, lease |-> 0]
ReadCall(files, touched) == [phase |-> "read", files |-> files, touched |-> touched, lease |-> 0]

Init ==
  /\ note = [s \in Session |-> None]
  /\ override = [s \in Session |-> [files |-> {}, left |-> 0]]
  /\ exited = {}
  /\ call = [c \in Call |-> NoCall]
  /\ lifted = {} /\ revived = {}

-----------------------------------------------------------------------------
(* Reading the board *)

(* isLive; a note that is over stays in the table until the next reader reaps it. *)
IsLive(n) == n # None /\ n.age < n.ttl
IsStale(n) == n.age > StaleAfter

(* listLocalActive *)
Reaped(board) == [s \in Session |-> IF IsLive(board[s]) THEN board[s] ELSE None]

FilesOf(board, s) == IF board[s] = None THEN {} ELSE board[s].files

(* A claim that blocks others: live and recently refreshed. *)
HeldFresh(board, s) ==
  IF IsLive(board[s]) /\ ~IsStale(board[s]) THEN board[s].files ELSE {}

PidAlive(p) == p # None /\ p \notin exited

Overridden(s) == IF override[s].left > 0 THEN override[s].files ELSE {}

(* The other sessions, of other running processes, that hold f. *)
Holders(board, s, pid, f) ==
  {t \in Session \ {s} :
     f \in HeldFresh(board, t) /\ board[t].pid # pid /\ PidAlive(board[t].pid)}

(* guardContested: what the process `pid` may not write for session s. *)
Contested(board, s, pid, touched) ==
  IF pid = None THEN {}
  ELSE {f \in touched \ (HeldFresh(board, s) \cup Overridden(s)) : Holders(board, s, pid, f) # {}}

(* What the guard lets through only because a user said so. *)
LetThrough(board, s, pid, touched) ==
  {f \in touched \cap Overridden(s) :
     f \notin HeldFresh(board, s) /\ Holders(board, s, pid, f) # {}}

(* Mutant: any session may set or clear any claim. *)
AnySession(by, s) == TRUE

(* callersOwnSession *)
OwnSession(by, s) ==
  \/ by = s
  \/ note[s] # None /\ note[s].pid = None
  \/ /\ note[s] # None
     /\ LET p == IF PidOf[by] # None THEN PidOf[by]
                 ELSE IF note[by] # None THEN note[by].pid ELSE None
        IN  p # None /\ p = note[s].pid

-----------------------------------------------------------------------------
Running(s) == PidOf[s] \notin exited

(* The process of s has no edit in progress. *)
Quiet(s) ==
  \A c \in Call :
    SessionOf[c] = s \/ (PidOf[s] # None /\ PidOf[SessionOf[c]] = PidOf[s])
      => call[c].phase = "idle"

(* publishClaim, GET /worknote/active: this session's files and the new ones. *)
ReadBoard(c, touched) ==
  LET s == SessionOf[c]
  IN  /\ Running(s)
      /\ OneToolAtATime => Quiet(s)
      /\ call[c].phase = "idle"
      /\ \/ /\ note' = Reaped(note)
            /\ call' = [call EXCEPT ![c] = ReadCall(FilesOf(note', s) \cup touched, touched)]
         \/ /\ Outages
            /\ call' = [call EXCEPT ![c] = ReadCall(touched, touched)]
            /\ UNCHANGED note
      /\ UNCHANGED <<override, exited, lifted, revived>>

(* inheritDeclaredIntent: an edit keeps a declaration that is not over, and the
   lease it came with; without one the claim gets the default lease. *)
Inherits(s) == IsLive(note[s]) /\ note[s].declared > 0

(* Mutant: every edit renews the claim for the default lease only. *)
DefaultLeaseAfterEdit(s) == DefaultTtl

LeaseAfterEdit(s) ==
  IF ~Inherits(s) THEN DefaultTtl
  ELSE LET least == IF note[s].declared > DefaultTtl THEN note[s].declared ELSE DefaultTtl
       IN  IF note[s].ttl < least THEN note[s].ttl ELSE least

(* The hook's claim, with what the guard leaves of its files: a refused call
   takes none of its new ones. *)
Granted(board, s, files, touched) ==
  LET contested == Contested(board, s, PidOf[s], touched)
  IN  IF contested = {} THEN files
      ELSE (files \ contested) \ (touched \ HeldFresh(board, s))

(* Files of the hook's claim that it read from the board and does not touch now:
   the guard judges none of them, held meanwhile by its session or not. *)
Carried(board, s, files, touched) == (files \ touched) \ HeldFresh(board, s)

EditClaim(s, files) ==
  [files |-> files, age |-> 0, ttl |-> LeaseAfterEdit(s),
   declared |-> IF Inherits(s) THEN note[s].declared ELSE 0, pid |-> PidOf[s]]

(* POST /worknote/set of the hook.  The tool runs unless a denial came back;
   an answer that is lost denies nothing, whatever the worker stored. *)
PostClaim(c) ==
  LET s == SessionOf[c]
      board == Reaped(note)
      contested == Contested(board, s, PidOf[s], call[c].touched)
  IN  /\ call[c].phase = "read"
      /\ note' = [board EXCEPT ![s] =
                    EditClaim(s, Granted(board, s, call[c].files, call[c].touched))]
      /\ lifted' = lifted \cup LetThrough(board, s, PidOf[s], call[c].touched)
      /\ revived' = revived \cup Carried(board, s, call[c].files, call[c].touched)
      /\ \/ call' = [call EXCEPT ![c] =
                IF contested = {} THEN [@ EXCEPT !.phase = "running", !.lease = LeaseAfterEdit(s)]
                ELSE NoCall]
         \/ Outages /\ call' = [call EXCEPT ![c].phase = "running"]
      /\ UNCHANGED <<override, exited>>

(* The request never reached the worker. *)
PostLost(c) ==
  /\ Outages
  /\ call[c].phase = "read"
  /\ call' = [call EXCEPT ![c].phase = "running"]
  /\ UNCHANGED <<note, override, exited, lifted, revived>>

ToolEnds(c) ==
  /\ call[c].phase = "running"
  /\ call' = [call EXCEPT ![c] = NoCall]
  /\ UNCHANGED <<note, override, exited, lifted, revived>>

(* The MCP tool work_set: a declaration that replaces the claim of s, without
   the files another session holds. *)
WorkSet(by, s, files, ttl) ==
  LET board == Reaped(note)
  IN  /\ Running(by) /\ Quiet(by)
      /\ OwnSession(by, s)
      /\ note' = [board EXCEPT ![s] =
           [files |-> files \ Contested(board, s, PidOf[by], files), age |-> 0, ttl |-> ttl,
            declared |-> ttl, pid |-> PidOf[by]]]
      /\ lifted' = lifted \cup LetThrough(board, s, PidOf[by], files)
      /\ UNCHANGED <<override, exited, call, revived>>

(* The MCP tool work_clear. *)
WorkClear(by, s) ==
  /\ Running(by) /\ Quiet(by)
  /\ OwnSession(by, s)
  /\ note[s] # None
  /\ note' = [note EXCEPT ![s] = None]
  /\ UNCHANGED <<override, exited, call, lifted, revived>>

(* The user typed `override: <file>`. *)
Override(s, files) ==
  /\ Running(s)
  /\ override' = [override EXCEPT ![s] = [files |-> files, left |-> OverrideTtl]]
  /\ UNCHANGED <<note, exited, call, lifted, revived>>

Less(n) == IF n > 0 THEN n - 1 ELSE 0

(* Ten minutes pass. *)
TickPasses ==
  /\ QuickHooks => \A c \in Call : call[c].phase # "read"
  /\ \E s \in Session : IsLive(note[s]) \/ override[s].left > 0
  /\ note' = [s \in Session |->
       IF IsLive(note[s])
         THEN [note[s] EXCEPT !.age = @ + 1, !.declared = Less(@)]
         ELSE note[s]]
  /\ override' = [s \in Session |-> [override[s] EXCEPT !.left = Less(@)]]
  /\ call' = [c \in Call |-> [call[c] EXCEPT !.lease = Less(@)]]
  /\ UNCHANGED <<exited, lifted, revived>>

(* An AI process ends; what it had claimed stays on the board. *)
ProcessExits(p) ==
  /\ p \in Pid \ exited
  /\ exited' = exited \cup {p}
  /\ call' = [c \in Call |-> IF PidOf[SessionOf[c]] = p THEN NoCall ELSE call[c]]
  /\ UNCHANGED <<note, override, lifted, revived>>

Next ==
  \/ \E c \in Call :
       \/ \E touched \in SUBSET File \ {{}} : ReadBoard(c, touched)
       \/ PostClaim(c) \/ PostLost(c) \/ ToolEnds(c)
  \/ \E by, s \in Session :
       \/ \E files \in SUBSET File, ttl \in Ttls : WorkSet(by, s, files, ttl)
       \/ WorkClear(by, s)
  \/ \E s \in Session, files \in SUBSET File \ {{}} : Override(s, files)
  \/ TickPasses
  \/ \E p \in Pid : ProcessExits(p)

Spec == Init /\ [][Next]_vars

-----------------------------------------------------------------------------
(* Properties *)

TypeOK ==
  /\ note \in [Session -> Note \cup {None}]
  /\ override \in [Session -> [files : SUBSET File, left : 0..OverrideTtl]]
  /\ exited \subseteq Pid
  /\ call \in [Call -> [phase : {"idle", "read", "running"}, files : SUBSET File,
                        touched : SUBSET File, lease : Nat]]
  /\ lifted \subseteq File /\ revived \subseteq File

OtherProcess(s, t) ==
  /\ s # t
  /\ note[s].pid # note[t].pid
  /\ PidAlive(note[s].pid) /\ PidAlive(note[t].pid)

(* "A LIVE claim blocks another session's write to the same file": two running
   processes never hold one file at the same time, unless a user overrode it or
   a hook posted it back with an edit of another file. *)
ClaimsAreExclusive ==
  \A s, t \in Session :
    (HeldFresh(note, s) \cap HeldFresh(note, t)) \ (lifted \cup revived) # {} => ~OtherProcess(s, t)

(* "accumulate this session's recently-touched files so the claim persists
   across edits": while a tool runs that the guard let through, and its lease
   lasts, the files it writes are on the board under its session. *)
WriterHoldsItsFiles ==
  \A c \in Call :
    call[c].phase = "running" /\ call[c].lease > 0 /\ PidOf[SessionOf[c]] # None =>
      /\ IsLive(note[SessionOf[c]])
      /\ call[c].touched \subseteq note[SessionOf[c]].files

(* The board says who writes what: a writer's files are its own on it, and
   nobody else's. *)
ClaimsAreHonoured == WriterHoldsItsFiles /\ ClaimsAreExclusive

(* What a session declared stays declared, and its lease lasts, until the
   declaration is over, however often it edits meanwhile ("every edit cut a
   declared 2 h lease back to the 30 min default"). *)
DeclarationOutlivesEdits ==
  \A s \in Session : note[s] # None /\ note[s].declared > 0 =>
    note[s].declared <= note[s].ttl - note[s].age

(* "a stale one does not outrank a session that claimed the file since": a claim
   that went stale does not hold a file again while another session does. *)
StaleClaimIsOutranked ==
  [][\A s, t \in Session : \A f \in File \ lifted' :
       /\ IsLive(note[s]) /\ f \in note[s].files \ HeldFresh(note, s)
       /\ f \in HeldFresh(note, t) \cap HeldFresh(note', t)
       /\ OtherProcess(s, t)
       => f \notin HeldFresh(note', s)]_vars
=============================================================================
