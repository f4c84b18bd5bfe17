-------------------------- MODULE ObservationStore --------------------------
(***************************************************************************)
(* The rows of observations.db and what rewrites them: recall, the two     *)
(* background passes that fold one row into another (dedup and semantic),  *)
(* the pass that writes a theme over several rows, and the commands that   *)
(* undo a fold or a theme.  A pass reads the live rows once, works out its *)
(* groups and then takes them one by one, letting other work run between   *)
(* two groups; each group is one transaction.  The two passes and the      *)
(* command line (another process) interleave at that grain.                *)
(*                                                                         *)
(* The ledger (merge_events) is a set of records; the rows of one fold     *)
(* share its `fold` number, which stands for the order of their ids.       *)
(***************************************************************************)
EXTENDS Integers, FiniteSets, FiniteSetsExt, Functions, SequencesExt

CONSTANTS
  Captured,     \* ids of the observations the summarizer wrote
  Spare,        \* ids a theme row can get
  Job,          \* what folds: the passes "dedup" and "semantic", the "command" dedup --apply
  Session,      \* the session of each captured row
  Scope,        \* the (project, branch) of each row
  Alike,        \* for each job, the pairs its title and vector tests accept
  CoRecalled,   \* pairs close enough, and recalled together often enough, for a theme
  MaxRecalls, MaxPasses     \* bounds of the exploration

Id == Captured \cup Spare

Pairs == {p \in SUBSET Id : Cardinality(p) = 2}

ASSUME StoreAssumption ==
  /\ Id \subseteq Nat \ {0} /\ IsFiniteSet(Id) /\ Captured \cap Spare = {}
  /\ Session \in [Captured -> STRING]
  /\ DOMAIN Scope = Id
  /\ Alike \in [Job -> SUBSET Pairs] /\ CoRecalled \subseteq Pairs
  /\ {MaxRecalls, MaxPasses} \subseteq Nat

VARIABLES
  obs,       \* the table: kind, counts, recency, archived flag, the two theme columns
  ledger,    \* merge_events
  blocks,    \* refold_blocks: pairs whose fold was undone
  declines,  \* theme_declines: clusters the judge turned down
  pass,      \* per folding job: the groups still to do and the epoch it stamps
  themes,    \* the theme pass: the clusters still to do
  epoch,     \* the second, which passes at each recall
  folds,     \* number of folds so far (the order of ledger ids)
  started,   \* number of passes begun so far (bounded, nothing reads it)
  own        \* history: what each row was recalled, folds apart

storeVars == <<obs, ledger, blocks, declines, pass, themes, epoch, folds, started, own>>

NoCount == [seen |-> 0, drilled |-> 0]

Plus(a, b) == [seen |-> a.seen + b.seen, drilled |-> a.drilled + b.drilled]

Minus(a, b) == [seen |-> a.seen - b.seen, drilled |-> a.drilled - b.drilled]

(* Of a function to counts, the sum of its values. *)
CountSum(f) ==
  [seen |-> SumFunction([x \in DOMAIN f |-> f[x].seen]), drilled |-> SumFunction([x \in DOMAIN f |-> f[x].drilled])]

Later(S) == IF S = {} THEN 0 ELSE Max(S)

\* A recency of 0 is the column's NULL, an `into` of 0 that of archived_into_theme_id.
FreshRow(kind) == [kind |-> kind, count |-> NoCount, last |-> 0,
                   archived |-> FALSE, into |-> 0, members |-> {}]

NotYet == FreshRow("none")

Stored == {i \in Id : obs[i].kind # "none"}

Live == {i \in Stored : ~obs[i].archived}

Total(i) == obs[i].count.seen + obs[i].count.drilled

IsTheme(i) == obs[i].kind = "theme"

(* isProtected: ever drilled into (nothing in the code anchors a row). *)
Protected(i) == obs[i].count.drilled > 0

(* refoldBlockedPartners: an undone pair is kept apart whichever row leads. *)
Blocked(s, m) == {s, m} \in blocks

NoPass == [on |-> FALSE, plan |-> <<>>, at |-> 0]

StoreTypeOK ==
  /\ \A i \in Id : /\ obs[i].kind \in {"none", "observation", "theme"}
                   /\ obs[i].into \in Id \cup {0} /\ obs[i].members \subseteq Id
                   /\ obs[i].last \in 0 .. MaxRecalls + 1
  /\ blocks \subseteq Pairs
  /\ \A e \in ledger : e.survivor \in Id /\ e.member \in Id /\ e.fold \in 1 .. folds

StoreInit ==
  /\ obs = [i \in Id |-> IF i \in Captured THEN FreshRow("observation") ELSE NotYet]
  /\ ledger = {} /\ blocks = {} /\ declines = {}
  /\ pass = [j \in Job |-> NoPass] /\ themes = NoPass
  /\ epoch = 1 /\ folds = 0 /\ started = 0
  /\ own = [i \in Id |-> NoCount]

-----------------------------------------------------------------------------
(* Recall                                                                  *)

(* bumpRetrieval: a search or an injection counts the live rows it shows (dropArchived
   took the others out), a drill counts the row it was asked for, archived or not. *)
Bump(i, source) ==
  /\ epoch <= MaxRecalls /\ epoch' = epoch + 1
  /\ i \in (IF source = "drill" THEN Stored ELSE Live)
  /\ LET one == IF source = "drill" THEN [seen |-> 0, drilled |-> 1] ELSE [seen |-> 1, drilled |-> 0]
     IN  /\ obs' = [obs EXCEPT ![i].count = Plus(@, one), ![i].last = epoch]
         /\ own' = [own EXCEPT ![i] = Plus(@, one)]
  /\ UNCHANGED <<ledger, blocks, declines, pass, themes, folds, started>>

-----------------------------------------------------------------------------
(* Groups                                                                  *)

(* The walk order of every finder: the most recalled row leads, then the lowest id. *)
InRank(S) == SetToSortSeq(S, LAMBDA a, b : Total(a) > Total(b) \/ (Total(a) = Total(b) /\ a < b))

SessionOf(i) == IF IsTheme(i) THEN "theme" ELSE Session[i]

(* One greedy walk: each row not yet claimed leads the unclaimed rows that may follow it,
   when their group comes from enough sessions. *)
Walk(S, follows, sessions) ==
  LET step(acc, s) ==
        LET group == {m \in S \ (acc.claimed \cup {s}) : <<s, m>> \in follows}
        IN  IF s \in acc.claimed \/ group = {} \/ Cardinality({SessionOf(i) : i \in group \cup {s}}) < sessions
            THEN acc
            ELSE [claimed |-> acc.claimed \cup group \cup {s},
                  groups |-> Append(acc.groups, [survivor |-> s, members |-> group])]
  IN  FoldLeft(step, [claimed |-> {}, groups |-> <<>>], InRank(S)).groups

(* What a pass looks at: the background dedup every live row, the others the recalled
   ones, or every one in a sweep of the backlog. *)
Candidates(sweeping) == {i \in Live : sweeping \/ Total(i) > 0}

MayFold(j, s, m) == {s, m} \in Alike[j] /\ Scope[s] = Scope[m] /\ ~Blocked(s, m)

(* findDedupGroupsByCluster and findDuplicateGroups: a row follows its leader in rank;
   findSemanticGroups: the rows of one session. *)
Follows(j, s, m) ==
  /\ MayFold(j, s, m)
  /\ IF j = "semantic" THEN SessionOf(s) = SessionOf(m)
     ELSE Total(s) > Total(m) \/ (Total(s) = Total(m) /\ s < m)

FoldGroups(j, sweeping) ==
  Walk(Candidates(sweeping \/ j = "dedup"), {p \in Id \X Id : Follows(j, p[1], p[2])}, 1)

(* findThemeClusters over themeCandidateRows: unprotected rows of one scope and at least
   two sessions, themes left out, and not a cluster the judge declined. *)
ThemeClusters(sweeping) ==
  LET clusters == Walk({i \in Candidates(sweeping) : ~IsTheme(i) /\ ~Protected(i)},
                       {p \in Id \X Id : {p[1], p[2]} \in CoRecalled /\ Scope[p[1]] = Scope[p[2]]}, 2)
  IN  SelectSeq(clusters, LAMBDA g : g.members \cup {g.survivor} \notin declines)

-----------------------------------------------------------------------------
(* Folding                                                                 *)

(* The members a fold takes: scope and undone pairs are looked at again, whether a row
   is archived by now is not. *)
Eligible(s, ms) == {m \in ms \ {s} : m \in Stored /\ Scope[m] = Scope[s] /\ ~Blocked(s, m)}

(* mergeDuplicateGroup: one ledger row per member, the counts and the latest recency
   onto the survivor, the members archived into it. *)
MergeDuplicateGroup(s, ms, at) ==
  LET taken == Eligible(s, ms)
      sum   == CountSum([m \in taken |-> obs[m].count])
  IN  IF s \notin Stored \/ taken = {} THEN UNCHANGED <<obs, ledger, folds>>
      ELSE /\ folds' = folds + 1
           /\ ledger' = ledger \cup {[fold |-> folds + 1, survivor |-> s, member |-> m, count |-> obs[m].count,
                                       at |-> at, prev |-> obs[s].last, open |-> TRUE] : m \in taken}
           /\ obs' = [i \in Id |->
                IF i = s THEN [obs[s] EXCEPT !.count = Plus(@, sum), !.members = taken,
                                             !.last = Later({@} \cup {obs[m].last : m \in taken})]
                ELSE IF i \in taken THEN [obs[i] EXCEPT !.archived = TRUE, !.into = s]
                ELSE obs[i]]

(* The dedup timer, startSemantic, dedup --apply in its own process: one pass of a job at a time, its groups worked out
   from the rows as they are now, its folds stamped with this second. *)
StartPass(j) ==
  /\ ~pass[j].on /\ started < MaxPasses /\ started' = started + 1
  /\ \E sweeping \in (IF j = "semantic" THEN BOOLEAN ELSE {FALSE}) :
       LET plan == FoldGroups(j, sweeping)
       IN  plan # <<>> /\ pass' = [pass EXCEPT ![j] = [on |-> TRUE, plan |-> plan, at |-> epoch]]
  /\ UNCHANGED <<obs, ledger, blocks, declines, themes, epoch, folds, own>>

(* runQmDedupSlice, one group: protection is read again, then the fold. *)
FoldGroup(j) ==
  /\ pass[j].on /\ pass[j].plan # <<>>
  /\ LET g == Head(pass[j].plan)
     IN  MergeDuplicateGroup(g.survivor, {m \in g.members : ~Protected(m)}, pass[j].at)
  /\ pass' = [pass EXCEPT ![j].plan = Tail(@)]
  /\ UNCHANGED <<blocks, declines, themes, epoch, started, own>>

(* The pass is done, gives way to ingest, or dies with the worker. *)
EndPass(j) ==
  /\ pass[j].on
  /\ pass' = [pass EXCEPT ![j] = NoPass]
  /\ UNCHANGED <<obs, ledger, blocks, declines, themes, epoch, folds, started, own>>

-----------------------------------------------------------------------------
(* Undoing folds                                                           *)

OpenInto(s) == {e \in ledger : e.survivor = s /\ e.open}

(* The order `merged_at, id` of the ledger. *)
Before(e, f) == e.at < f.at \/ (e.at = f.at /\ e.fold < f.fold)

EarliestOf(S) == CHOOSE e \in S : \A f \in S : ~Before(f, e)

(* The ledger rows whose counts an undo takes off the survivor. *)
Reversed(s, picked) == picked \cap OpenInto(s)

(* Mutant: the rows to bring back are read off the survivor, which lists its last fold only. *)
BroughtBackListed(s, picked) == {e.member : e \in picked} \cap obs[s].members

(* The rows an undo un-archives, unless they were folded elsewhere since. *)
BroughtBack(s, picked) == {m \in {e.member : e \in picked} : obs[m].into = s}

(* unmergeDuplicateGroup: `picked` are the open rows the selectors named. The last one
   undone restores the recency the earliest of them recorded; when the earliest of all
   open rows goes first, what it recorded moves to the earliest one left. *)
UnmergeDuplicateGroup(s, picked) ==
  LET left     == OpenInto(s) \ picked
      off      == CountSum([e \in Reversed(s, picked) |-> e.count])
      earliest == EarliestOf(picked)
      heir     == IF left # {} /\ earliest = EarliestOf(OpenInto(s)) THEN {EarliestOf(left)} ELSE {}
  IN  /\ picked # {} /\ picked \subseteq OpenInto(s)
      /\ obs' = [i \in Id |->
           IF i = s THEN [obs[s] EXCEPT !.count = Minus(@, off), !.members = {e.member : e \in left},
                                        !.last = IF left = {} THEN earliest.prev ELSE @]
           ELSE IF i \in BroughtBack(s, picked) THEN [obs[i] EXCEPT !.archived = FALSE, !.into = 0]
           ELSE obs[i]]
      /\ ledger' = (ledger \ (picked \cup heir)) \cup {[e EXCEPT !.open = FALSE] : e \in picked}
                     \cup {[e EXCEPT !.prev = earliest.prev] : e \in heir}
      /\ blocks' = blocks \cup {{s, e.member} : e \in picked}
      /\ UNCHANGED <<declines, pass, themes, epoch, folds, started, own>>

(* dedup --undo, whole or with selectors: open rows of one survivor per transaction. *)
UndoFolds(s) == \E picked \in SUBSET OpenInto(s) : UnmergeDuplicateGroup(s, picked)

(* dedup --allow-refold *)
ClearRefoldBlocks ==
  /\ blocks # {} /\ blocks' = {}
  /\ UNCHANGED <<obs, ledger, declines, pass, themes, epoch, folds, started, own>>

-----------------------------------------------------------------------------
(* Themes                                                                  *)

StartTheme ==
  /\ ~themes.on /\ started < MaxPasses /\ started' = started + 1
  /\ \E i \in Spare : obs[i].kind = "none"
  /\ \E sweeping \in BOOLEAN :
       /\ ThemeClusters(sweeping) # <<>>
       /\ themes' = [on |-> TRUE, plan |-> ThemeClusters(sweeping), at |-> epoch]
  /\ UNCHANGED <<obs, ledger, blocks, declines, pass, epoch, folds, own>>

(* createTheme: the counts of the members that are still live go onto a new row, which
   lists every member of the cluster and archives the live ones. *)
CreateTheme(t, ms) ==
  LET live == ms \cap Live
      sum  == CountSum([m \in live |-> obs[m].count])
  IN  /\ obs' = [i \in Id |->
           IF i = t THEN [FreshRow("theme") EXCEPT !.count = sum, !.members = ms,
                                                   !.last = Later({obs[m].last : m \in live})]
           ELSE IF i \in live THEN [obs[i] EXCEPT !.archived = TRUE, !.into = t]
           ELSE obs[i]]
      /\ own' = [own EXCEPT ![t] = sum]

(* runThemePass, one cluster: the judge's answer may be minutes after the cluster was found. *)
JudgeCluster ==
  /\ themes.on /\ themes.plan # <<>>
  /\ LET g  == Head(themes.plan)
         ms == g.members \cup {g.survivor}
     IN  \/ /\ declines' = declines \cup {ms} /\ UNCHANGED <<obs, own>>
         \/ /\ \E t \in Spare : obs[t].kind = "none" /\ CreateTheme(t, ms)
            /\ UNCHANGED declines
  /\ themes' = [themes EXCEPT !.plan = Tail(@)]
  /\ UNCHANGED <<ledger, blocks, pass, epoch, folds, started>>

EndTheme ==
  /\ themes.on /\ themes' = NoPass
  /\ UNCHANGED <<obs, ledger, blocks, declines, pass, epoch, folds, started, own>>

(* unmakeTheme: the members listed that are still archived into the theme come back, the
   theme row is archived; nothing for a row that is no live theme or lists nobody. *)
UnmakeTheme(t) ==
  /\ IsTheme(t) /\ ~obs[t].archived /\ obs[t].members # {}
  /\ obs' = [i \in Id |->
       IF i = t THEN [obs[t] EXCEPT !.archived = TRUE]
       ELSE IF i \in obs[t].members /\ obs[i].into = t THEN [obs[i] EXCEPT !.archived = FALSE, !.into = 0]
       ELSE obs[i]]
  /\ UNCHANGED <<ledger, blocks, declines, pass, themes, epoch, folds, started, own>>

-----------------------------------------------------------------------------
StoreNext ==
  \/ \E i \in Id : Bump(i, "search") \/ Bump(i, "drill") \/ UndoFolds(i) \/ UnmakeTheme(i)
  \/ \E j \in Job : StartPass(j) \/ FoldGroup(j) \/ EndPass(j)
  \/ StartTheme \/ JudgeCluster \/ EndTheme
  \/ ClearRefoldBlocks

StoreSpec == StoreInit /\ [][StoreNext]_storeVars

-----------------------------------------------------------------------------
(* Properties                                                              *)

(* A row's counts are what it was recalled itself plus what the open folds into it
   brought, whatever was folded, undone in parts, folded twice or made a theme since:
   merge_events is all it takes to give every row its own counts back. *)
CountsAreLedgered ==
  \A i \in Id : obs[i].count = Plus(own[i], CountSum([e \in OpenInto(i) |-> e.count]))

(* No fold is for ever: a row archived into another observation has an open ledger row
   with that survivor, so an undo of the survivor's folds brings it back. *)
FoldsAreReversible ==
  \A i \in Stored : obs[i].archived /\ obs[i].into # 0 /\ ~IsTheme(obs[i].into)
                      => \E e \in OpenInto(obs[i].into) : e.member = i

(* Undoing a theme is complete (cli/commands/theme.ts: "members come back unarchived"):
   a row under a live theme is one its undo restores. *)
ThemesAreReversible ==
  \A i \in Stored : obs[i].archived /\ obs[i].into # 0
                      => LET t == obs[i].into IN IsTheme(t) => i \in obs[t].members
=============================================================================
