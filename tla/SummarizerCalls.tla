-------------------------- MODULE SummarizerCalls --------------------------
(***************************************************************************)
(* A call to the model that summarizes: which provider is in use, which of *)
(* its models, and how the call ends.  Two transports: a command line      *)
(* (claude -p, codex exec, agy), whose output is read to the end of its    *)
(* pipe under a timer that kills it, and the HTTP one with the token the   *)
(* `claude` login keeps in a file, cached by the worker.                   *)
(***************************************************************************)
EXTENDS Naturals, FiniteSets, Sequences, SequencesExt

CONSTANTS
  Asker,        \* who calls: the pipeline, the judges
  Providers,    \* the configured order of preference, "oauth" or a command line
  Models,       \* the model of the provider and its fallbacks, in order
  Windows,      \* TRUE: taskkill /T; FALSE: a signal to one process
  MaxLogins     \* bound of the exploration

ASSUME CallsAssumption ==
  /\ Windows \in BOOLEAN /\ MaxLogins \in Nat /\ IsFiniteSet(Asker)
  /\ IsInjective(Providers) /\ IsInjective(Models) /\ Models # <<>>

VARIABLES
  provider,     \* the one in use
  usable,       \* providers that could start now: on PATH, logged in
  active,       \* activeModel: the one that answered last
  retired,      \* models the account may not use
  asking,       \* per asker: its call
  child,        \* per asker: the processes that hold the pipe of its command line
  file,         \* the login's token: a new one at every login
  cached,       \* the worker's copy (0: none)
  refusals      \* calls refused for a replaced token since the login, kept for the properties

providerVars == <<provider, usable>>
tokenVars == <<file, cached, refusals>>
callsVars == <<providerVars, active, retired, asking, child, tokenVars>>

NoProvider == "none"
ModelSet == ToSet(Models)
ProviderSet == ToSet(Providers)

NotAsking == [stage |-> "idle", models |-> <<>>, by |-> NoProvider, token |-> 0, timedOut |-> FALSE, old |-> FALSE]

NoChild == [holds |-> {}, stuck |-> FALSE]

CallsTypeOK ==
  /\ provider \in ProviderSet \cup {NoProvider} /\ usable \subseteq ProviderSet
  /\ active \in ModelSet /\ retired \subseteq ModelSet
  /\ \A a \in Asker : /\ asking[a].stage \in {"idle", "asking", "running", "sent"}
                      /\ child[a].holds \subseteq {"shim", "program"}
  /\ file \in 1 .. MaxLogins + 1 /\ cached \in 0 .. file /\ refusals \in Nat

(* walkChain: the first provider of the order that can start and was not demoted. *)
WalkChain(exclude) ==
  LET can == SelectSeq(Providers, LAMBDA p : p \in usable \ exclude)
  IN  IF can = <<>> THEN NoProvider ELSE Head(can)

CallsInit ==
  /\ usable = ProviderSet /\ provider = WalkChain({})
  /\ active = Head(Models) /\ retired = {}
  /\ asking = [a \in Asker |-> NotAsking] /\ child = [a \in Asker |-> NoChild]
  /\ file = 1 /\ cached = 0 /\ refusals = 0

-----------------------------------------------------------------------------
(* The world                                                               *)

LoginsChange(p) ==
  /\ usable' = SymDiff(usable, {p})
  /\ UNCHANGED <<provider, active, retired, asking, child, tokenVars>>

ModelRetired(m) ==
  /\ retired' = retired \cup {m}
  /\ UNCHANGED <<providerVars, active, asking, child, tokenVars>>

(* `claude login`, or a refresh by another program: the old token is worth nothing now. *)
Login ==
  /\ file <= MaxLogins /\ file' = file + 1 /\ refusals' = 0
  /\ UNCHANGED <<providerVars, active, retired, asking, child, cached>>

(* Boot, a demotion or the reprobe: a new Summarizer starts at the primary model; the calls
   under way are the old one's. *)
RebuildSummarizer(exclude) ==
  /\ WalkChain(exclude) # NoProvider
  /\ provider' = WalkChain(exclude) /\ active' = Head(Models)
  /\ asking' = [a \in Asker |-> [asking[a] EXCEPT !.old = asking[a].stage # "idle"]]
  /\ UNCHANGED <<usable, retired, child, tokenVars>>

-----------------------------------------------------------------------------
(* runWithModelChain                                                       *)

(* The model in use first, then the fallbacks, none twice.  The primary is not a fallback:
   once another has answered it is not asked again. *)
Candidates == <<active>> \o SelectSeq(Tail(Models), LAMBDA m : m # active)

Ask(a) ==
  /\ asking[a].stage = "idle" /\ provider # NoProvider
  /\ asking' = [asking EXCEPT ![a] = [NotAsking EXCEPT !.stage = "asking", !.models = Candidates, !.by = provider]]
  /\ UNCHANGED <<providerVars, active, retired, child, tokenVars>>

(* An answer makes its model the active one of its Summarizer. *)
Replied(a) ==
  /\ asking' = [asking EXCEPT ![a] = NotAsking]
  /\ active' = IF asking[a].old THEN active ELSE Head(asking[a].models)

(* Only a missing model makes the chain try the next one. *)
Missing(a) ==
  /\ LET models == asking[a].models
     IN  asking' = [asking EXCEPT ![a] = IF Len(models) = 1 THEN NotAsking
                                         ELSE [@ EXCEPT !.stage = "asking", !.models = Tail(models)]]
  /\ UNCHANGED active

(* Any other error ends the call as it is. *)
Failed(a) == asking' = [asking EXCEPT ![a] = NotAsking] /\ UNCHANGED active

Outcome(a) == IF Head(asking[a].models) \in retired THEN Missing(a) ELSE Replied(a) \/ Failed(a)

-----------------------------------------------------------------------------
(* A command line                                                          *)

(* Bun.spawn: the program itself, or a shim that starts it and waits; it may never end. *)
Spawn(a) ==
  /\ asking[a].stage = "asking" /\ asking[a].by # "oauth"
  /\ asking' = [asking EXCEPT ![a].stage = "running"]
  /\ \E holds \in {{"program"}, {"shim", "program"}}, stuck \in BOOLEAN :
       child' = [child EXCEPT ![a] = [holds |-> holds, stuck |-> stuck]]
  /\ UNCHANGED <<providerVars, active, retired, tokenVars>>

(* The program writes its answer and ends, the shim after it. *)
ChildEnds(a) ==
  /\ child[a].holds # {} /\ ~child[a].stuck
  /\ child' = [child EXCEPT ![a] = NoChild]
  /\ UNCHANGED <<providerVars, active, retired, asking, tokenVars>>

(* Mutant: proc.kill, which ends the direct child only. *)
DirectChild(holds) == {IF "shim" \in holds THEN "shim" ELSE "program"}

(* killTree: on Windows the descendants too. *)
KillTree(holds) == IF Windows THEN holds ELSE {IF "shim" \in holds THEN "shim" ELSE "program"}

TimerFires(a) ==
  /\ asking[a].stage = "running" /\ ~asking[a].timedOut /\ child[a].holds # {}
  /\ asking' = [asking EXCEPT ![a].timedOut = TRUE]
  /\ child' = [child EXCEPT ![a].holds = @ \ KillTree(@)]
  /\ UNCHANGED <<providerVars, active, retired, tokenVars>>

(* The read of the pipe ends when nobody holds it any more. *)
PipeEnds(a) ==
  /\ asking[a].stage = "running" /\ child[a].holds = {}
  /\ IF asking[a].timedOut THEN Failed(a) ELSE Outcome(a)
  /\ child' = [child EXCEPT ![a] = NoChild]
  /\ UNCHANGED <<providerVars, retired, tokenVars>>

-----------------------------------------------------------------------------
(* The HTTP transport                                                      *)

(* readClaudeOauthToken: the copy while it is fresh, else the file; a copy that is about to
   expire is read again. *)
TokenRead == IF cached = 0 THEN {file} ELSE {cached, file}

Send(a) ==
  /\ asking[a].stage = "asking" /\ asking[a].by = "oauth" /\ "oauth" \in usable
  /\ \E t \in TokenRead :
       /\ cached' = t
       /\ asking' = [asking EXCEPT ![a].stage = "sent", ![a].token = t]
  /\ UNCHANGED <<providerVars, active, retired, child, file, refusals>>

(* No token, or an expired one. *)
NotLoggedIn(a) ==
  /\ asking[a].stage = "asking" /\ asking[a].by = "oauth" /\ "oauth" \notin usable
  /\ Failed(a)
  /\ UNCHANGED <<providerVars, retired, child, tokenVars>>

Accepted(a) ==
  /\ asking[a].stage = "sent" /\ asking[a].token = file
  /\ Outcome(a)
  /\ UNCHANGED <<providerVars, retired, child, tokenVars>>

(* Mutant: the copy is kept. *)
CopyKept(c) == c

(* A 401 drops the copy. *)
AfterRefusal(c) == 0

Unauthorized(a) ==
  /\ asking[a].stage = "sent" /\ asking[a].token # file
  /\ Failed(a)
  /\ cached' = AfterRefusal(cached) /\ refusals' = refusals + 1
  /\ UNCHANGED <<providerVars, retired, child, file>>

(* The abort of its timer, or any other failure. *)
SendFails(a) ==
  /\ asking[a].stage = "sent" /\ Failed(a)
  /\ UNCHANGED <<providerVars, retired, child, tokenVars>>

-----------------------------------------------------------------------------
Progress(a) == Spawn(a) \/ ChildEnds(a) \/ TimerFires(a) \/ PipeEnds(a)
               \/ Send(a) \/ NotLoggedIn(a) \/ Accepted(a) \/ Unauthorized(a)

CallsNext ==
  \/ \E p \in ProviderSet : LoginsChange(p)
  \/ \E m \in ModelSet : ModelRetired(m)
  \/ Login
  \/ \E exclude \in SUBSET ProviderSet : RebuildSummarizer(exclude)
  \/ \E a \in Asker : Ask(a) \/ Progress(a) \/ SendFails(a)

(* A call's own steps and its timer; a program that is not stuck ends. *)
CallsFairness == \A a \in Asker : WF_callsVars(Progress(a))

CallsSpec == CallsInit /\ [][CallsNext]_callsVars /\ CallsFairness

-----------------------------------------------------------------------------
(* However a command line behaves (a program that never ends, a shim that started it), the call
   comes back, so that the batch that waits for it is not held for ever. *)
EveryCallEnds == \A a \in Asker : asking[a].stage # "idle" ~> asking[a].stage = "idle"

(* After a login the replaced token is refused at most once for each asker: the first refusal
   makes the worker read the file again, only the calls under way still fail. *)
LoginTakesEffect == refusals <= Cardinality(Asker)
=============================================================================
