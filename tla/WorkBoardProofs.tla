-------------------------- MODULE WorkBoardProofs --------------------------
(***************************************************************************)
(* Machine-checked proofs about WorkBoard, for any sessions, processes,    *)
(* calls, files and leases.  IInv adds to the two invariants what they     *)
(* lean on: a note carries the process of its session, a call asks for the *)
(* files it touches, and one process has one edit in progress.             *)
(***************************************************************************)
EXTENDS WorkBoard, TLAPS

(* A session whose process the hook cannot find takes no part in the guard. *)
EveryProcessIsFound == \A s \in Session : PidOf[s] # None

NotesAreOwn == \A s \in Session : note[s] # None => note[s].pid = PidOf[s]

CallsAskForTheirFiles ==
  \A c \in Call : /\ call[c].touched \subseteq call[c].files
                  /\ call[c].phase # "running" => call[c].lease = 0

(* The calls of one process. *)
SameProcess(c, s) ==
  SessionOf[c] = s \/ (PidOf[s] # None /\ PidOf[SessionOf[c]] = PidOf[s])

OneEditAtATime ==
  \A c, d \in Call : c # d /\ SameProcess(c, SessionOf[d]) => call[c].phase = "idle" \/ call[d].phase = "idle"

(* What a running edit was granted lasts on the board as long as its lease. *)
GrantsLast ==
  \A c \in Call :
    LET s == SessionOf[c]
    IN  call[c].phase = "running" /\ call[c].lease > 0 =>
          /\ note[s] # None
          /\ call[c].lease <= note[s].ttl - note[s].age
          /\ call[c].touched \subseteq note[s].files

(* What holds in any instance, when every process is found, and when a process
   edits one file at a time. *)
IInv ==
  /\ TypeOK
  /\ DeclarationOutlivesEdits
  /\ CallsAskForTheirFiles
  /\ EveryProcessIsFound => NotesAreOwn /\ ClaimsAreExclusive
  /\ OneToolAtATime => OneEditAtATime
  /\ EveryProcessIsFound /\ OneToolAtATime => GrantsLast

-----------------------------------------------------------------------------
(* The board.                                                              *)

LEMMA ReapedEffect ==
  ASSUME TypeOK
  PROVE  /\ Reaped(note) \in [Session -> Note \cup {None}]
         /\ \A s \in Session : /\ Reaped(note)[s] = note[s] \/ Reaped(note)[s] = None
                               /\ IsLive(note[s]) => Reaped(note)[s] = note[s]
                               /\ HeldFresh(Reaped(note), s) = HeldFresh(note, s)
<1>1. \A s \in Session : Reaped(note)[s] = IF IsLive(note[s]) THEN note[s] ELSE None
  BY DEF Reaped
<1>2. Reaped(note) \in [Session -> Note \cup {None}]
  BY <1>1 DEF Reaped, TypeOK
<1>3. \A s \in Session : HeldFresh(Reaped(note), s) = HeldFresh(note, s)
  BY <1>1 DEF HeldFresh, IsLive
<1>4. QED
  BY <1>1, <1>2, <1>3

(* Notes that go, age or stay, and processes that end, put no two sessions on a file. *)
LEMMA FewerClaimsStayExclusive ==
  ASSUME NotesAreOwn, ClaimsAreExclusive, exited \subseteq exited', lifted \subseteq lifted', revived \subseteq revived',
         \A s \in Session : /\ note'[s] # None => note[s] # None /\ note'[s].pid = note[s].pid
                            /\ HeldFresh(note', s) \subseteq HeldFresh(note, s)
  PROVE  NotesAreOwn' /\ ClaimsAreExclusive'
<1>1. NotesAreOwn'
  BY DEF NotesAreOwn
<1>2. ClaimsAreExclusive'
  <2>1. SUFFICES ASSUME NEW x \in Session, NEW y \in Session, OtherProcess(x, y)',
                        NEW f \in HeldFresh(note', x) \cap HeldFresh(note', y), f \notin lifted' \cup revived'
                 PROVE  FALSE
    BY DEF ClaimsAreExclusive, HeldFresh
  <2>2. note'[x] # None /\ note'[y] # None
    BY <2>1 DEF HeldFresh, IsLive
  <2>3. OtherProcess(x, y)
    BY <2>1, <2>2 DEF OtherProcess, PidAlive
  <2>4. QED
    BY <2>1, <2>3 DEF ClaimsAreExclusive
<1>3. QED
  BY <1>1, <1>2

(* A claim of s that takes what it held, what the guard did not contest and what
   counts as revived. *)
LEMMA NewClaimIsExclusive ==
  ASSUME TypeOK, EveryProcessIsFound, NotesAreOwn, ClaimsAreExclusive, NEW s \in Session,
         NEW N \in Note, N.pid = PidOf[s], note' = [Reaped(note) EXCEPT ![s] = N], NEW touched,
         N.files \subseteq HeldFresh(note, s) \cup (touched \ Contested(Reaped(note), s, PidOf[s], touched)) \cup revived',
         lifted \cup LetThrough(Reaped(note), s, PidOf[s], touched) \subseteq lifted',
         revived \subseteq revived', exited' = exited
  PROVE  NotesAreOwn' /\ ClaimsAreExclusive'
<1>1. /\ note'[s] = N /\ N # None
      /\ \A x \in Session \ {s} : note'[x] = Reaped(note)[x] /\ HeldFresh(note', x) = HeldFresh(note, x)
      /\ \A x \in Session \ {s} : note'[x] # None => note'[x] = note[x]
  BY ReapedEffect, NoteAssumption DEF HeldFresh
<1>2. NotesAreOwn'
  BY <1>1 DEF NotesAreOwn
<1>3. ASSUME NEW y \in Session \ {s}, OtherProcess(s, y)', NEW f \in N.files, f \in HeldFresh(note', y),
             f \notin lifted' \cup revived'
      PROVE  FALSE
  <2>1. f \in HeldFresh(note, y) /\ note'[y] # None /\ note'[y] = note[y] /\ Reaped(note)[y] = note[y]
    BY <1>1, <1>3 DEF HeldFresh, IsLive
  <2>2. PidOf[s] # note[y].pid /\ PidAlive(PidOf[s]) /\ PidAlive(note[y].pid)
    BY <1>1, <1>3, <2>1 DEF OtherProcess, PidAlive
  <2>3. f \notin HeldFresh(note, s)
    <3>1. SUFFICES ASSUME f \in HeldFresh(note, s) PROVE FALSE
      OBVIOUS
    <3>2. note[s].pid = PidOf[s]
      BY <3>1 DEF HeldFresh, IsLive, NotesAreOwn
    <3>3. OtherProcess(s, y)
      BY <2>2, <3>2 DEF OtherProcess
    <3>4. QED
      BY <1>3, <2>1, <3>1, <3>3 DEF ClaimsAreExclusive
  <2>4. f \in touched \ Contested(Reaped(note), s, PidOf[s], touched)
    BY <1>3, <2>3
  <2>5. y \in Holders(Reaped(note), s, PidOf[s], f)
    BY <2>1, <2>2, ReapedEffect DEF Holders
  <2>6. f \notin HeldFresh(Reaped(note), s)
    BY <2>3, ReapedEffect
  <2>7. f \in Overridden(s)
    BY <2>4, <2>5, <2>6 DEF Contested, EveryProcessIsFound
  <2>8. f \in LetThrough(Reaped(note), s, PidOf[s], touched)
    BY <2>4, <2>5, <2>6, <2>7 DEF LetThrough
  <2>9. QED
    BY <1>3, <2>8
<1>4. ClaimsAreExclusive'
  <2>1. SUFFICES ASSUME NEW x \in Session, NEW y \in Session, OtherProcess(x, y)',
                        NEW f \in HeldFresh(note', x) \cap HeldFresh(note', y), f \notin lifted' \cup revived'
                 PROVE  FALSE
    BY DEF ClaimsAreExclusive, HeldFresh
  <2>2. CASE x = s
    <3>1. f \in N.files /\ y # s
      BY <1>1, <2>1, <2>2 DEF HeldFresh, OtherProcess
    <3>2. QED
      BY <1>3, <2>1, <2>2, <3>1
  <2>3. CASE y = s
    <3>1. f \in N.files /\ x # s /\ OtherProcess(s, x)'
      BY <1>1, <2>1, <2>3 DEF HeldFresh, OtherProcess
    <3>2. QED
      BY <1>3, <2>1, <2>3, <3>1
  <2>4. CASE x # s /\ y # s
    <3>1. note'[x] # None /\ note'[y] # None
      BY <2>1 DEF HeldFresh, IsLive
    <3>2. OtherProcess(x, y)
      BY <1>1, <2>1, <2>4, <3>1 DEF OtherProcess, PidAlive
    <3>3. f \in HeldFresh(note, x) \cap HeldFresh(note, y) /\ f \notin lifted \cup revived
      BY <1>1, <2>1, <2>4
    <3>4. QED
      BY <3>2, <3>3 DEF ClaimsAreExclusive
  <2>5. QED
    BY <2>2, <2>3, <2>4
<1>5. QED
  BY <1>2, <1>4

(* A grant lasts while its call runs on and its note stays as it is. *)
LEMMA GrantsStay ==
  ASSUME TypeOK, GrantsLast,
         \A c \in Call : call'[c].phase = "running" /\ call'[c].lease > 0 =>
           /\ call[c].phase = "running" /\ call'[c].lease = call[c].lease /\ call'[c].touched = call[c].touched
           /\ IsLive(note[SessionOf[c]]) => note'[SessionOf[c]] = note[SessionOf[c]]
  PROVE  GrantsLast'
<1>1. SUFFICES ASSUME NEW c \in Call, call'[c].phase = "running", call'[c].lease > 0
               PROVE  LET s == SessionOf[c]
                      IN  /\ note'[s] # None
                          /\ call'[c].lease <= note'[s].ttl - note'[s].age
                          /\ call'[c].touched \subseteq note'[s].files
  BY DEF GrantsLast
<1>. DEFINE s == SessionOf[c]
<1>2. /\ note[s] # None /\ call[c].lease <= note[s].ttl - note[s].age
      /\ call[c].touched \subseteq note[s].files /\ call[c].lease > 0
  BY <1>1 DEF GrantsLast
<1>3. s \in Session /\ call[c].lease \in Nat
  BY CallAssumption DEF TypeOK
<1>4. note[s].age \in Nat /\ note[s].ttl \in Nat
  BY <1>2, <1>3 DEF TypeOK, Note
<1>5. IsLive(note[s])
  BY <1>2, <1>3, <1>4 DEF IsLive
<1>6. QED
  BY <1>1, <1>2, <1>5

(* Who may set or clear the claim of s runs in its process, so its edits are over. *)
LEMMA OwnersAreQuiet ==
  ASSUME EveryProcessIsFound, NotesAreOwn, NEW by \in Session, NEW s \in Session,
         OwnSession(by, s), Quiet(by)
  PROVE  PidOf[by] = PidOf[s] /\ \A c \in Call : SessionOf[c] = s => call[c].phase = "idle"
<1>1. PidOf[by] = PidOf[s] /\ PidOf[by] # None
  BY DEF OwnSession, NotesAreOwn, EveryProcessIsFound
<1>2. QED
  BY <1>1 DEF Quiet

-----------------------------------------------------------------------------
(* Every action keeps IInv.                                                *)

LEMMA ReadBoardKeepsIInv ==
  ASSUME NEW c \in Call, NEW touched \in SUBSET File PROVE IInv /\ ReadBoard(c, touched) => IInv'
<1>1. SUFFICES ASSUME IInv, ReadBoard(c, touched) PROVE IInv'
  OBVIOUS
<1>. DEFINE s == SessionOf[c]
<1>2. /\ UNCHANGED <<override, exited, lifted, revived>>
      /\ call[c].phase = "idle" /\ (OneToolAtATime => Quiet(s))
      /\ note' = Reaped(note) \/ note' = note
      /\ \E files \in SUBSET File : touched \subseteq files /\ call' = [call EXCEPT ![c] = ReadCall(files, touched)]
  <2>1. touched \subseteq FilesOf(Reaped(note), s) \cup touched /\ FilesOf(Reaped(note), s) \cup touched \in SUBSET File
    BY <1>1, CallAssumption, ReapedEffect DEF FilesOf, IInv, Note
  <2>2. QED
    BY <1>1, <2>1 DEF ReadBoard
<1>3. /\ note' \in [Session -> Note \cup {None}]
      /\ \A x \in Session : /\ note'[x] = note[x] \/ note'[x] = None
                            /\ IsLive(note[x]) => note'[x] = note[x]
                            /\ HeldFresh(note', x) = HeldFresh(note, x)
  BY <1>1, <1>2, ReapedEffect DEF IInv, TypeOK
<1>4. /\ call'[c].phase = "read" /\ call'[c].lease = 0
      /\ call'[c].touched \subseteq call'[c].files
      /\ \A d \in Call \ {c} : call'[d] = call[d]
  BY <1>1, <1>2 DEF ReadCall, IInv, TypeOK
<1>5. TypeOK'
  BY <1>1, <1>2, <1>3 DEF IInv, TypeOK, ReadCall
<1>6. DeclarationOutlivesEdits' /\ CallsAskForTheirFiles'
  BY <1>1, <1>3, <1>4 DEF IInv, DeclarationOutlivesEdits, CallsAskForTheirFiles
<1>7. EveryProcessIsFound => NotesAreOwn' /\ ClaimsAreExclusive'
  BY <1>1, <1>2, <1>3, FewerClaimsStayExclusive DEF IInv
<1>8. OneToolAtATime => OneEditAtATime'
  BY <1>1, <1>2, <1>4, CallAssumption DEF IInv, OneEditAtATime, SameProcess, Quiet
<1>9. EveryProcessIsFound /\ OneToolAtATime => GrantsLast'
  BY <1>1, <1>3, <1>4, CallAssumption, GrantsStay DEF IInv
<1>10. QED
  BY <1>5, <1>6, <1>7, <1>8, <1>9 DEF IInv, EveryProcessIsFound

LEMMA PostLostKeepsIInv == ASSUME NEW c \in Call PROVE IInv /\ PostLost(c) => IInv'
<1>1. SUFFICES ASSUME IInv, PostLost(c) PROVE IInv'
  OBVIOUS
<1>2. UNCHANGED <<note, override, exited, lifted, revived>> /\ call[c].phase = "read"
  BY <1>1 DEF PostLost
<1>3. /\ call'[c] = [call[c] EXCEPT !.phase = "running"]
      /\ \A d \in Call \ {c} : call'[d] = call[d]
  BY <1>1 DEF PostLost, IInv, TypeOK
<1>4. TypeOK'
  BY <1>1, <1>2 DEF PostLost, IInv, TypeOK
<1>5. /\ call'[c].phase = "running" /\ call'[c].lease = 0
      /\ call'[c].touched = call[c].touched /\ call'[c].files = call[c].files
  BY <1>1, <1>2, <1>3 DEF IInv, TypeOK, CallsAskForTheirFiles
<1>6. DeclarationOutlivesEdits' /\ CallsAskForTheirFiles'
  BY <1>1, <1>2, <1>3, <1>5 DEF IInv, DeclarationOutlivesEdits, CallsAskForTheirFiles
<1>7. EveryProcessIsFound => NotesAreOwn' /\ ClaimsAreExclusive'
  BY <1>1, <1>2 DEF IInv, NotesAreOwn, ClaimsAreExclusive, OtherProcess, PidAlive, HeldFresh
<1>8. OneToolAtATime => OneEditAtATime'
  BY <1>1, <1>2, <1>3, CallAssumption DEF IInv, OneEditAtATime, SameProcess
<1>9. EveryProcessIsFound /\ OneToolAtATime => GrantsLast'
  <2>1. \A d \in Call : call'[d].lease > 0 => d # c
    BY <1>5
  <2>2. QED
    BY <1>1, <1>2, <1>3, <2>1, GrantsStay DEF IInv
<1>10. QED
  BY <1>4, <1>6, <1>7, <1>8, <1>9 DEF IInv, EveryProcessIsFound

LEMMA ToolEndsKeepsIInv == ASSUME NEW c \in Call PROVE IInv /\ ToolEnds(c) => IInv'
<1>1. SUFFICES ASSUME IInv, ToolEnds(c) PROVE IInv'
  OBVIOUS
<1>2. UNCHANGED <<note, override, exited, lifted, revived>>
  BY <1>1 DEF ToolEnds
<1>3. call'[c] = NoCall /\ \A d \in Call \ {c} : call'[d] = call[d]
  BY <1>1 DEF ToolEnds, IInv, TypeOK
<1>4. TypeOK'
  BY <1>1, <1>2 DEF ToolEnds, NoCall, IInv, TypeOK
<1>5. DeclarationOutlivesEdits' /\ CallsAskForTheirFiles'
  BY <1>1, <1>2, <1>3 DEF IInv, DeclarationOutlivesEdits, CallsAskForTheirFiles, NoCall
<1>6. EveryProcessIsFound => NotesAreOwn' /\ ClaimsAreExclusive'
  BY <1>1, <1>2 DEF IInv, NotesAreOwn, ClaimsAreExclusive, OtherProcess, PidAlive, HeldFresh
<1>7. OneToolAtATime => OneEditAtATime'
  BY <1>1, <1>2, <1>3 DEF IInv, OneEditAtATime, SameProcess, NoCall
<1>8. EveryProcessIsFound /\ OneToolAtATime => GrantsLast'
  BY <1>1, <1>2, <1>3, GrantsStay DEF IInv, NoCall
<1>9. QED
  BY <1>4, <1>5, <1>6, <1>7, <1>8 DEF IInv, EveryProcessIsFound

LEMMA OverrideKeepsIInv ==
  ASSUME NEW s \in Session, NEW files \in SUBSET File PROVE IInv /\ Override(s, files) => IInv'
<1>1. SUFFICES ASSUME IInv, Override(s, files) PROVE IInv'
  OBVIOUS
<1>2. UNCHANGED <<note, exited, call, lifted, revived>>
  BY <1>1 DEF Override
<1>3. TypeOK'
  BY <1>1, <1>2, TickAssumption DEF Override, IInv, TypeOK
<1>4. DeclarationOutlivesEdits' /\ CallsAskForTheirFiles'
  BY <1>1, <1>2 DEF IInv, DeclarationOutlivesEdits, CallsAskForTheirFiles
<1>5. EveryProcessIsFound => NotesAreOwn' /\ ClaimsAreExclusive'
  BY <1>1, <1>2 DEF IInv, NotesAreOwn, ClaimsAreExclusive, OtherProcess, PidAlive, HeldFresh
<1>6. OneToolAtATime => OneEditAtATime'
  BY <1>1, <1>2 DEF IInv, OneEditAtATime, SameProcess
<1>7. EveryProcessIsFound /\ OneToolAtATime => GrantsLast'
  BY <1>1, <1>2 DEF IInv, GrantsLast
<1>8. QED
  BY <1>3, <1>4, <1>5, <1>6, <1>7 DEF IInv, EveryProcessIsFound

LEMMA ProcessExitsKeepsIInv == ASSUME NEW p \in Pid PROVE IInv /\ ProcessExits(p) => IInv'
<1>1. SUFFICES ASSUME IInv, ProcessExits(p) PROVE IInv'
  OBVIOUS
<1>2. UNCHANGED <<note, override, lifted, revived>> /\ exited' = exited \cup {p}
  BY <1>1 DEF ProcessExits
<1>3. call' \in [Call -> {NoCall} \cup {call[c] : c \in Call}] /\ \A c \in Call : call'[c] = NoCall \/ call'[c] = call[c]
  BY <1>1 DEF ProcessExits
<1>4. TypeOK'
  BY <1>1, <1>2, <1>3 DEF NoCall, IInv, TypeOK
<1>5. DeclarationOutlivesEdits' /\ CallsAskForTheirFiles'
  BY <1>1, <1>2, <1>3 DEF IInv, DeclarationOutlivesEdits, CallsAskForTheirFiles, NoCall
<1>6. EveryProcessIsFound => NotesAreOwn' /\ ClaimsAreExclusive'
  BY <1>1, <1>2, FewerClaimsStayExclusive DEF IInv
<1>7. OneToolAtATime => OneEditAtATime'
  BY <1>1, <1>2, <1>3 DEF IInv, OneEditAtATime, SameProcess, NoCall
<1>8. EveryProcessIsFound /\ OneToolAtATime => GrantsLast'
  BY <1>1, <1>2, <1>3, GrantsStay DEF IInv, NoCall
<1>9. QED
  BY <1>4, <1>5, <1>6, <1>7, <1>8 DEF IInv, EveryProcessIsFound

LEMMA WorkClearKeepsIInv == ASSUME NEW by \in Session, NEW s \in Session PROVE IInv /\ WorkClear(by, s) => IInv'
<1>1. SUFFICES ASSUME IInv, WorkClear(by, s) PROVE IInv'
  OBVIOUS
<1>2. UNCHANGED <<override, exited, call, lifted, revived>> /\ Quiet(by) /\ OwnSession(by, s) /\ note[s] # None
  BY <1>1 DEF WorkClear
<1>3. /\ note' \in [Session -> Note \cup {None}] /\ note'[s] = None
      /\ \A x \in Session \ {s} : note'[x] = note[x]
  BY <1>1 DEF WorkClear, IInv, TypeOK
<1>4. TypeOK'
  BY <1>1, <1>2, <1>3 DEF IInv, TypeOK
<1>5. DeclarationOutlivesEdits' /\ CallsAskForTheirFiles'
  BY <1>1, <1>2, <1>3 DEF IInv, DeclarationOutlivesEdits, CallsAskForTheirFiles
<1>6. EveryProcessIsFound => NotesAreOwn' /\ ClaimsAreExclusive'
  <2>1. \A x \in Session : HeldFresh(note', x) \subseteq HeldFresh(note, x)
    BY <1>3 DEF HeldFresh, IsLive
  <2>2. QED
    BY <1>1, <1>2, <1>3, <2>1, FewerClaimsStayExclusive DEF IInv
<1>7. OneToolAtATime => OneEditAtATime'
  BY <1>1, <1>2 DEF IInv, OneEditAtATime, SameProcess
<1>8. EveryProcessIsFound /\ OneToolAtATime => GrantsLast'
  <2>1. SUFFICES ASSUME EveryProcessIsFound, OneToolAtATime PROVE GrantsLast'
    OBVIOUS
  <2>2. \A c \in Call : SessionOf[c] = s => call[c].phase = "idle"
    BY <1>1, <1>2, <2>1, OwnersAreQuiet DEF IInv
  <2>3. QED
    BY <1>1, <1>2, <1>3, <2>1, <2>2, CallAssumption, GrantsStay DEF IInv
<1>9. QED
  BY <1>4, <1>5, <1>6, <1>7, <1>8 DEF IInv, EveryProcessIsFound

(* What a tick makes of a note, of a lease and of an override. *)
LEMMA AgedNote ==
  ASSUME NEW n \in Note
  PROVE  LET m == [n EXCEPT !.age = @ + 1, !.declared = Less(@)]
         IN  /\ m \in Note /\ m.age = n.age + 1 /\ m.declared = Less(n.declared)
             /\ m.ttl = n.ttl /\ m.files = n.files /\ m.pid = n.pid
<1>1. PICK d \in Nat : d = Less(n.declared)
  BY DEF Note, Less
<1>2. PICK m : m = [n EXCEPT !.age = n.age + 1, !.declared = d]
  OBVIOUS
<1>3. m = [files |-> n.files, age |-> n.age + 1, ttl |-> n.ttl, declared |-> d, pid |-> n.pid]
  BY <1>2 DEF Note
<1>4. n.files \in SUBSET File /\ n.age + 1 \in Nat /\ n.ttl \in Nat \ {0} /\ n.pid \in Pid \cup {None}
  BY DEF Note
<1>5. m \in Note
  BY <1>3, <1>4 DEF Note
<1>6. QED
  BY <1>1, <1>2, <1>3, <1>5

LEMMA TickPassesKeepsIInv == IInv /\ TickPasses => IInv'
<1>1. SUFFICES ASSUME IInv, TickPasses PROVE IInv'
  OBVIOUS
<1>2. UNCHANGED <<exited, lifted, revived>>
  BY <1>1 DEF TickPasses
<1>3. \A s \in Session :
        IF IsLive(note[s])
          THEN /\ note'[s] \in Note /\ note'[s].age = note[s].age + 1 /\ note'[s].declared = Less(note[s].declared)
               /\ note'[s].ttl = note[s].ttl /\ note'[s].files = note[s].files /\ note'[s].pid = note[s].pid
          ELSE note'[s] = note[s]
  <2>1. SUFFICES ASSUME NEW s \in Session, IsLive(note[s])
                 PROVE  /\ note'[s] \in Note /\ note'[s].age = note[s].age + 1 /\ note'[s].declared = Less(note[s].declared)
                        /\ note'[s].ttl = note[s].ttl /\ note'[s].files = note[s].files /\ note'[s].pid = note[s].pid
    BY <1>1 DEF TickPasses
  <2>2. note'[s] = [note[s] EXCEPT !.age = @ + 1, !.declared = Less(@)]
    BY <1>1, <2>1 DEF TickPasses
  <2>3. note[s] \in Note
    BY <1>1, <2>1 DEF IInv, TypeOK, IsLive
  <2>4. QED
    BY <2>2, <2>3, AgedNote
<1>4. \A c \in Call : /\ call'[c] \in [phase : {"idle", "read", "running"}, files : SUBSET File, touched : SUBSET File, lease : Nat]
                      /\ call'[c].phase = call[c].phase /\ call'[c].files = call[c].files
                      /\ call'[c].touched = call[c].touched /\ call'[c].lease = Less(call[c].lease)
  <2>1. SUFFICES ASSUME NEW c \in Call
                 PROVE  LET k == [call[c] EXCEPT !.lease = Less(@)]
                        IN  /\ k \in [phase : {"idle", "read", "running"}, files : SUBSET File, touched : SUBSET File, lease : Nat]
                            /\ k.phase = call[c].phase /\ k.files = call[c].files
                            /\ k.touched = call[c].touched /\ k.lease = Less(call[c].lease)
    BY <1>1 DEF TickPasses
  <2>2. call[c] \in [phase : {"idle", "read", "running"}, files : SUBSET File, touched : SUBSET File, lease : Nat]
    BY <1>1 DEF IInv, TypeOK
  <2>3. Less(call[c].lease) \in Nat
    BY <2>2 DEF Less
  <2>4. QED
    BY <2>2, <2>3
<1>5. TypeOK'
  <2>1. note' \in [Session -> Note \cup {None}]
    BY <1>1, <1>3 DEF TickPasses, IInv, TypeOK
  <2>2. call' \in [Call -> [phase : {"idle", "read", "running"}, files : SUBSET File, touched : SUBSET File, lease : Nat]]
    BY <1>1, <1>4 DEF TickPasses
  <2>3. override' \in [Session -> [files : SUBSET File, left : 0..OverrideTtl]]
    <3>1. SUFFICES ASSUME NEW s \in Session
                   PROVE  [override[s] EXCEPT !.left = Less(@)] \in [files : SUBSET File, left : 0..OverrideTtl]
      BY <1>1 DEF TickPasses
    <3>2. override[s] \in [files : SUBSET File, left : 0..OverrideTtl]
      BY <1>1 DEF IInv, TypeOK
    <3>3. Less(override[s].left) \in 0..OverrideTtl
      BY <3>2, TickAssumption DEF Less
    <3>4. QED
      BY <3>2, <3>3
  <2>4. QED
    BY <1>1, <1>2, <2>1, <2>2, <2>3 DEF IInv, TypeOK
<1>6. DeclarationOutlivesEdits'
  <2>1. SUFFICES ASSUME NEW s \in Session, note'[s] # None, note'[s].declared > 0
                 PROVE  note'[s].declared <= note'[s].ttl - note'[s].age
    BY DEF DeclarationOutlivesEdits
  <2>2. CASE IsLive(note[s])
    <3>1. note[s] # None /\ note[s].declared \in Nat /\ note[s].ttl \in Nat /\ note[s].age \in Nat
      BY <1>1, <2>2 DEF IInv, TypeOK, Note, IsLive
    <3>2. QED
      BY <1>1, <1>3, <2>1, <2>2, <3>1 DEF IInv, DeclarationOutlivesEdits, Less
  <2>3. CASE ~IsLive(note[s])
    BY <1>1, <1>3, <2>1, <2>3 DEF IInv, DeclarationOutlivesEdits
  <2>4. QED
    BY <2>2, <2>3
<1>7. CallsAskForTheirFiles'
  BY <1>1, <1>4 DEF IInv, CallsAskForTheirFiles, Less
<1>8. EveryProcessIsFound => NotesAreOwn' /\ ClaimsAreExclusive'
  <2>1. \A s \in Session : note'[s] # None => note[s] # None /\ note'[s].pid = note[s].pid
    BY <1>3 DEF IsLive
  <2>2. \A s \in Session : HeldFresh(note', s) \subseteq HeldFresh(note, s)
    <3>1. SUFFICES ASSUME NEW s \in Session, IsLive(note'[s]), ~IsStale(note'[s])
                   PROVE  IsLive(note[s]) /\ ~IsStale(note[s]) /\ note'[s].files = note[s].files
      BY DEF HeldFresh
    <3>2. IsLive(note[s])
      BY <1>3, <3>1 DEF IsLive
    <3>3. note[s].age \in Nat /\ note'[s].age = note[s].age + 1
      BY <1>1, <1>3, <3>2 DEF IInv, TypeOK, Note, IsLive
    <3>4. QED
      BY <1>3, <3>1, <3>2, <3>3, TickAssumption DEF IsStale
  <2>3. QED
    BY <1>1, <1>2, <2>1, <2>2, FewerClaimsStayExclusive DEF IInv
<1>9. OneToolAtATime => OneEditAtATime'
  BY <1>1, <1>4 DEF IInv, OneEditAtATime, SameProcess
<1>10. EveryProcessIsFound /\ OneToolAtATime => GrantsLast'
  <2>1. SUFFICES ASSUME GrantsLast, NEW c \in Call, call'[c].phase = "running", call'[c].lease > 0
                 PROVE  LET s == SessionOf[c]
                        IN  /\ note'[s] # None
                            /\ call'[c].lease <= note'[s].ttl - note'[s].age
                            /\ call'[c].touched \subseteq note'[s].files
    BY <1>1 DEF IInv, GrantsLast
  <2>. DEFINE s == SessionOf[c]
  <2>2. /\ call[c].lease \in Nat /\ call[c].lease > 0 /\ call'[c].lease = call[c].lease - 1
    BY <1>1, <1>4, <2>1 DEF IInv, TypeOK, Less
  <2>3. /\ s \in Session /\ note[s] # None /\ call[c].lease <= note[s].ttl - note[s].age
        /\ call[c].touched \subseteq note[s].files
    BY <1>4, <2>1, <2>2, CallAssumption DEF GrantsLast
  <2>4. note[s].ttl \in Nat /\ note[s].age \in Nat
    BY <1>1, <2>3 DEF IInv, TypeOK, Note
  <2>5. IsLive(note[s])
    BY <2>2, <2>3, <2>4 DEF IsLive
  <2>6. note'[s].age = note[s].age + 1 /\ note'[s].ttl = note[s].ttl /\ note'[s].files = note[s].files /\ note'[s] # None
    BY <1>3, <2>3, <2>5, NoteAssumption
  <2>7. QED
    BY <1>4, <2>2, <2>3, <2>4, <2>6
<1>11. QED
  BY <1>5, <1>6, <1>7, <1>8, <1>9, <1>10 DEF IInv, EveryProcessIsFound

LEMMA WorkSetKeepsIInv ==
  ASSUME NEW by \in Session, NEW s \in Session, NEW files \in SUBSET File, NEW ttl \in Ttls
  PROVE  IInv /\ WorkSet(by, s, files, ttl) => IInv'
<1>1. SUFFICES ASSUME IInv, WorkSet(by, s, files, ttl) PROVE IInv'
  OBVIOUS
<1>. DEFINE N == [files |-> files \ Contested(Reaped(note), s, PidOf[by], files), age |-> 0, ttl |-> ttl,
                  declared |-> ttl, pid |-> PidOf[by]]
<1>2. /\ UNCHANGED <<override, exited, call, revived>> /\ Quiet(by) /\ OwnSession(by, s)
      /\ note' = [Reaped(note) EXCEPT ![s] = N]
      /\ lifted' = lifted \cup LetThrough(Reaped(note), s, PidOf[by], files)
  BY <1>1 DEF WorkSet
<1>3. N \in Note /\ ttl \in Nat
  BY TickAssumption DEF Note, Pid
<1>4. /\ note' \in [Session -> Note \cup {None}] /\ note'[s] = N
      /\ \A x \in Session \ {s} : /\ note'[x] = note[x] \/ note'[x] = None
                                  /\ IsLive(note[x]) => note'[x] = note[x]
  BY <1>1, <1>2, <1>3, ReapedEffect DEF IInv, TypeOK
<1>5. TypeOK'
  BY <1>1, <1>2, <1>4 DEF IInv, TypeOK, LetThrough
<1>6. DeclarationOutlivesEdits' /\ CallsAskForTheirFiles'
  BY <1>1, <1>2, <1>3, <1>4 DEF IInv, DeclarationOutlivesEdits, CallsAskForTheirFiles
<1>7. EveryProcessIsFound => NotesAreOwn' /\ ClaimsAreExclusive'
  <2>1. SUFFICES ASSUME EveryProcessIsFound PROVE NotesAreOwn' /\ ClaimsAreExclusive'
    OBVIOUS
  <2>2. PidOf[by] = PidOf[s]
    BY <1>1, <1>2, <2>1, OwnersAreQuiet DEF IInv
  <2>3. QED
    BY <1>1, <1>2, <1>3, <2>1, <2>2, NewClaimIsExclusive DEF IInv
<1>8. OneToolAtATime => OneEditAtATime'
  BY <1>1, <1>2 DEF IInv, OneEditAtATime, SameProcess
<1>9. EveryProcessIsFound /\ OneToolAtATime => GrantsLast'
  <2>1. SUFFICES ASSUME EveryProcessIsFound, OneToolAtATime PROVE GrantsLast'
    OBVIOUS
  <2>2. \A c \in Call : SessionOf[c] = s => call[c].phase = "idle"
    BY <1>1, <1>2, <2>1, OwnersAreQuiet DEF IInv
  <2>3. QED
    BY <1>1, <1>2, <1>4, <2>1, <2>2, CallAssumption, GrantsStay DEF IInv
<1>10. QED
  BY <1>5, <1>6, <1>7, <1>8, <1>9 DEF IInv, EveryProcessIsFound

LEMMA PostClaimKeepsIInv == ASSUME NEW c \in Call PROVE IInv /\ PostClaim(c) => IInv'
<1>1. SUFFICES ASSUME IInv, PostClaim(c) PROVE IInv'
  OBVIOUS
<1>. DEFINE s == SessionOf[c]
            board == Reaped(note)
            touched == call[c].touched
            files == call[c].files
            granted == Granted(board, s, files, touched)
            contested == Contested(board, s, PidOf[s], touched)
            N == EditClaim(s, granted)
<1>2. /\ UNCHANGED <<override, exited>> /\ call[c].phase = "read" /\ s \in Session
      /\ note' = [board EXCEPT ![s] = N]
      /\ lifted' = lifted \cup LetThrough(board, s, PidOf[s], touched)
      /\ revived' = revived \cup Carried(board, s, files, touched)
      /\ \/ call' = [call EXCEPT ![c] =
                IF contested = {} THEN [@ EXCEPT !.phase = "running", !.lease = LeaseAfterEdit(s)] ELSE NoCall]
         \/ call' = [call EXCEPT ![c].phase = "running"]
  BY <1>1, CallAssumption DEF PostClaim
<1>3. call[c] \in [phase : {"idle", "read", "running"}, files : SUBSET File, touched : SUBSET File, lease : Nat]
  BY <1>1 DEF IInv, TypeOK
<1>4. granted \subseteq files /\ touched \subseteq files /\ call[c].lease = 0 /\ (contested = {} => granted = files)
  BY <1>1, <1>2 DEF Granted, IInv, CallsAskForTheirFiles
<1>5. Inherits(s) => note[s] \in Note /\ note[s].declared > 0
  BY <1>1, <1>2 DEF Inherits, IsLive, IInv, TypeOK
<1>6. /\ LeaseAfterEdit(s) \in Nat \ {0}
      /\ Inherits(s) => note[s].declared <= LeaseAfterEdit(s)
  <2>1. CASE ~Inherits(s)
    BY <2>1, TickAssumption DEF LeaseAfterEdit
  <2>2. CASE Inherits(s)
    <3>1. /\ note[s].declared \in Nat /\ note[s].ttl \in Nat \ {0} /\ note[s].age \in Nat /\ note[s] # None
          /\ note[s].declared <= note[s].ttl - note[s].age
      BY <1>1, <1>2, <1>5, <2>2, NoteAssumption DEF Note, IInv, DeclarationOutlivesEdits
    <3>2. QED
      BY <2>2, <3>1, TickAssumption DEF LeaseAfterEdit
  <2>3. QED
    BY <2>1, <2>2
<1>7. /\ N \in Note /\ N.files = granted /\ N.age = 0 /\ N.ttl = LeaseAfterEdit(s) /\ N.pid = PidOf[s]
      /\ N.declared = IF Inherits(s) THEN note[s].declared ELSE 0
  <2>1. granted \in SUBSET File /\ PidOf[s] \in Pid \cup {None}
    BY <1>2, <1>3, <1>4 DEF Pid
  <2>2. (IF Inherits(s) THEN note[s].declared ELSE 0) \in Nat
    BY <1>5 DEF Note
  <2>3. QED
    BY <1>6, <2>1, <2>2 DEF EditClaim, Note
<1>. HIDE DEF N
<1>8. /\ note' \in [Session -> Note \cup {None}] /\ note'[s] = N /\ N # None
      /\ \A x \in Session \ {s} : /\ note'[x] = note[x] \/ note'[x] = None
                                  /\ IsLive(note[x]) => note'[x] = note[x]
  BY <1>1, <1>2, <1>7, ReapedEffect, NoteAssumption DEF IInv, TypeOK
<1>9. /\ \A d \in Call \ {c} : call'[d] = call[d]
      /\ call' \in [Call -> [phase : {"idle", "read", "running"}, files : SUBSET File, touched : SUBSET File, lease : Nat]]
      /\ call'[c].touched \subseteq call'[c].files
      /\ call'[c].phase # "running" => call'[c].lease = 0
      /\ call'[c].phase = "running" /\ call'[c].lease > 0 =>
            contested = {} /\ call'[c].lease = LeaseAfterEdit(s) /\ call'[c].touched = touched
  <2>1. PICK k : /\ call' = [call EXCEPT ![c] = k]
                 /\ \/ k = NoCall
                    \/ k = [call[c] EXCEPT !.phase = "running"]
                    \/ contested = {} /\ k = [call[c] EXCEPT !.phase = "running", !.lease = LeaseAfterEdit(s)]
    <3>1. [call EXCEPT ![c].phase = "running"] = [call EXCEPT ![c] = [call[c] EXCEPT !.phase = "running"]]
      OBVIOUS
    <3>2. QED
      BY <1>2, <3>1
  <2>2. /\ k \in [phase : {"idle", "read", "running"}, files : SUBSET File, touched : SUBSET File, lease : Nat]
        /\ k.touched \subseteq k.files
        /\ k.phase # "running" => k.lease = 0
        /\ k.phase = "running" /\ k.lease > 0 =>
             contested = {} /\ k.lease = LeaseAfterEdit(s) /\ k.touched = touched
    <3>1. CASE k = NoCall
      BY <3>1 DEF NoCall
    <3>2. CASE k = [call[c] EXCEPT !.phase = "running"]
      <4>1. k.files = files /\ k.touched = touched /\ k.lease = 0
        BY <1>3, <1>4, <3>2
      <4>2. k \in [phase : {"idle", "read", "running"}, files : SUBSET File, touched : SUBSET File, lease : Nat]
        BY <1>3, <3>2
      <4>3. k.phase = "running"
        BY <1>3, <3>2
      <4>4. QED
        BY <1>4, <4>1, <4>2, <4>3
    <3>3. CASE contested = {} /\ k = [call[c] EXCEPT !.phase = "running", !.lease = LeaseAfterEdit(s)]
      <4>1. k.files = files /\ k.touched = touched /\ k.lease = LeaseAfterEdit(s) /\ k.phase = "running"
        BY <1>3, <3>3
      <4>2. k \in [phase : {"idle", "read", "running"}, files : SUBSET File, touched : SUBSET File, lease : Nat]
        BY <1>3, <1>6, <3>3
      <4>3. QED
        BY <1>4, <3>3, <4>1, <4>2
    <3>4. QED
      BY <2>1, <3>1, <3>2, <3>3
  <2>3. QED
    BY <1>1, <2>1, <2>2 DEF IInv, TypeOK
<1>10. TypeOK'
  <2>1. lifted' \subseteq File /\ revived' \subseteq File
    BY <1>1, <1>2, <1>3 DEF LetThrough, Carried, IInv, TypeOK
  <2>2. QED
    BY <1>1, <1>2, <1>8, <1>9, <2>1 DEF IInv, TypeOK
<1>11. DeclarationOutlivesEdits'
  <2>1. SUFFICES ASSUME NEW x \in Session, note'[x] # None, note'[x].declared > 0
                 PROVE  note'[x].declared <= note'[x].ttl - note'[x].age
    BY DEF DeclarationOutlivesEdits
  <2>2. CASE x = s
    <3>1. Inherits(s) /\ note'[s].declared = note[s].declared /\ note'[s].ttl = LeaseAfterEdit(s) /\ note'[s].age = 0
      BY <1>7, <1>8, <2>1, <2>2
    <3>2. QED
      BY <1>6, <2>2, <3>1
  <2>3. CASE x # s
    BY <1>1, <1>8, <2>1, <2>3 DEF IInv, DeclarationOutlivesEdits
  <2>4. QED
    BY <2>2, <2>3
<1>12. CallsAskForTheirFiles'
  BY <1>1, <1>9 DEF IInv, CallsAskForTheirFiles
<1>13. EveryProcessIsFound => NotesAreOwn' /\ ClaimsAreExclusive'
  <2>1. N.files \subseteq HeldFresh(note, s) \cup (touched \ contested) \cup revived'
    BY <1>1, <1>2, <1>7, ReapedEffect DEF Granted, Carried, IInv
  <2>2. QED
    BY <1>1, <1>2, <1>7, <2>1, NewClaimIsExclusive DEF IInv
<1>14. OneToolAtATime => OneEditAtATime'
  BY <1>1, <1>2, <1>9 DEF IInv, OneEditAtATime, SameProcess
<1>15. EveryProcessIsFound /\ OneToolAtATime => GrantsLast'
  <2>1. SUFFICES ASSUME OneEditAtATime, GrantsLast, NEW d \in Call, call'[d].phase = "running", call'[d].lease > 0
                 PROVE  LET x == SessionOf[d]
                        IN  /\ note'[x] # None
                            /\ call'[d].lease <= note'[x].ttl - note'[x].age
                            /\ call'[d].touched \subseteq note'[x].files
    BY <1>1 DEF IInv, GrantsLast
  <2>2. CASE d = c
    BY <1>4, <1>6, <1>7, <1>8, <1>9, <2>1, <2>2
  <2>3. CASE d # c
    <3>1. call'[d] = call[d] /\ SessionOf[d] \in Session \ {s}
      BY <1>2, <1>9, <2>1, <2>3, CallAssumption DEF OneEditAtATime, SameProcess
    <3>2. /\ note[SessionOf[d]] # None /\ call[d].lease <= note[SessionOf[d]].ttl - note[SessionOf[d]].age
          /\ call[d].touched \subseteq note[SessionOf[d]].files /\ call[d].lease > 0 /\ call[d].lease \in Nat
      BY <1>1, <2>1, <3>1 DEF GrantsLast, IInv, TypeOK
    <3>3. note[SessionOf[d]].ttl \in Nat /\ note[SessionOf[d]].age \in Nat
      BY <1>1, <3>1, <3>2 DEF IInv, TypeOK, Note
    <3>4. IsLive(note[SessionOf[d]])
      BY <3>2, <3>3 DEF IsLive
    <3>5. QED
      BY <1>8, <3>1, <3>2, <3>4
  <2>4. QED
    BY <2>2, <2>3
<1>16. QED
  BY <1>10, <1>11, <1>12, <1>13, <1>14, <1>15 DEF IInv, EveryProcessIsFound

-----------------------------------------------------------------------------

LEMMA InitSatisfiesIInv == Init => IInv
<1>1. SUFFICES ASSUME Init PROVE IInv
  OBVIOUS
<1>2. /\ \A s \in Session : note[s] = None
      /\ \A c \in Call : call[c] = NoCall
  BY <1>1 DEF Init
<1>3. TypeOK
  BY <1>1, TickAssumption DEF Init, TypeOK, NoCall
<1>4. DeclarationOutlivesEdits /\ CallsAskForTheirFiles /\ NotesAreOwn /\ OneEditAtATime /\ GrantsLast
  BY <1>2 DEF DeclarationOutlivesEdits, CallsAskForTheirFiles, NotesAreOwn, OneEditAtATime, GrantsLast, NoCall
<1>5. ClaimsAreExclusive
  BY <1>2 DEF ClaimsAreExclusive, HeldFresh, IsLive
<1>6. QED
  BY <1>3, <1>4, <1>5 DEF IInv

LEMMA NextKeepsIInv == IInv /\ [Next]_vars => IInv'
<1>1. SUFFICES ASSUME IInv, [Next]_vars PROVE IInv'
  OBVIOUS
<1>2. ASSUME NEW c \in Call,
             \/ \E touched \in SUBSET File \ {{}} : ReadBoard(c, touched)
             \/ PostClaim(c) \/ PostLost(c) \/ ToolEnds(c)
      PROVE  IInv'
  BY <1>1, <1>2, ReadBoardKeepsIInv, PostClaimKeepsIInv, PostLostKeepsIInv, ToolEndsKeepsIInv
<1>3. ASSUME NEW by \in Session, NEW s \in Session,
             \/ \E files \in SUBSET File, ttl \in Ttls : WorkSet(by, s, files, ttl)
             \/ WorkClear(by, s)
      PROVE  IInv'
  BY <1>1, <1>3, WorkSetKeepsIInv, WorkClearKeepsIInv
<1>4. ASSUME NEW s \in Session, NEW files \in SUBSET File, Override(s, files) PROVE IInv'
  BY <1>1, <1>4, OverrideKeepsIInv
<1>5. CASE TickPasses
  BY <1>1, <1>5, TickPassesKeepsIInv
<1>6. ASSUME NEW p \in Pid, ProcessExits(p) PROVE IInv'
  BY <1>1, <1>6, ProcessExitsKeepsIInv
<1>7. CASE UNCHANGED vars
  <2>1. UNCHANGED <<note, override, exited, call, lifted, revived>>
    BY <1>7 DEF vars
  <2>2. TypeOK' /\ DeclarationOutlivesEdits' /\ CallsAskForTheirFiles' /\ (EveryProcessIsFound => NotesAreOwn')
    BY <1>1, <2>1 DEF IInv, TypeOK, DeclarationOutlivesEdits, CallsAskForTheirFiles, NotesAreOwn
  <2>3. EveryProcessIsFound => ClaimsAreExclusive'
    BY <1>1, <2>1 DEF IInv, ClaimsAreExclusive, OtherProcess, PidAlive, HeldFresh
  <2>4. (OneToolAtATime => OneEditAtATime') /\ (EveryProcessIsFound /\ OneToolAtATime => GrantsLast')
    BY <1>1, <2>1 DEF IInv, OneEditAtATime, SameProcess, GrantsLast
  <2>5. QED
    BY <2>2, <2>3, <2>4 DEF IInv, EveryProcessIsFound
<1>8. QED
  BY <1>1, <1>2, <1>3, <1>4, <1>5, <1>6, <1>7 DEF Next

LEMMA IInvIsInvariant == Spec => []IInv
<1>1. QED
  BY InitSatisfiesIInv, NextKeepsIInv, PTL DEF Spec

-----------------------------------------------------------------------------

(* Each variable keeps its type. *)
THEOREM TypeCorrect == Spec => []TypeOK
<1>1. IInv => TypeOK
  BY DEF IInv
<1>2. QED
  BY <1>1, IInvIsInvariant, PTL

(* However often a session edits (inheritDeclaredIntent), what it declared with
   work_set lasts to the end of its declaration, whatever the leases are. *)
THEOREM DeclarationsLast == Spec => []DeclarationOutlivesEdits
<1>1. IInv => DeclarationOutlivesEdits
  BY DEF IInv
<1>2. QED
  BY <1>1, IInvIsInvariant, PTL

(* With every session's process known to its hook and one edit at a time in each,
   a file somebody writes is on the board as his while his lease lasts, and two
   running processes hold one file only where a user overrode the guard or a hook
   posted it back (guardContested over the touched files alone). *)
THEOREM GuardIsHonoured ==
  EveryProcessIsFound /\ OneToolAtATime => (Spec => []ClaimsAreHonoured)
<1>1. SUFFICES ASSUME EveryProcessIsFound, OneToolAtATime PROVE Spec => []ClaimsAreHonoured
  OBVIOUS
<1>2. IInv => ClaimsAreHonoured
  <2>1. SUFFICES ASSUME IInv PROVE WriterHoldsItsFiles
    BY <1>1 DEF IInv, ClaimsAreHonoured
  <2>2. SUFFICES ASSUME NEW c \in Call, call[c].phase = "running", call[c].lease > 0
                 PROVE  IsLive(note[SessionOf[c]]) /\ call[c].touched \subseteq note[SessionOf[c]].files
    BY DEF WriterHoldsItsFiles
  <2>. DEFINE s == SessionOf[c]
  <2>3. /\ note[s] # None /\ call[c].lease <= note[s].ttl - note[s].age
        /\ call[c].touched \subseteq note[s].files /\ call[c].lease \in Nat
    BY <1>1, <2>1, <2>2 DEF IInv, GrantsLast, TypeOK
  <2>4. note[s].ttl \in Nat /\ note[s].age \in Nat
    BY <2>1, <2>3, CallAssumption DEF IInv, TypeOK, Note
  <2>5. QED
    BY <2>2, <2>3, <2>4 DEF IsLive
<1>3. QED
  BY <1>2, IInvIsInvariant, PTL
=============================================================================
