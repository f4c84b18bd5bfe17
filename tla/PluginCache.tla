----------------------------- MODULE PluginCache -----------------------------
(***************************************************************************)
(* The copies of the plugin Claude Code keeps, one tree per version.  A    *)
(* session runs from the tree that was active when it began; the           *)
(* session-start hook moves the active one to the checkout's version; and  *)
(* `captain-memo maintenance` deletes trees nobody needs any more, from a  *)
(* plan it makes first.                                                    *)
(***************************************************************************)
EXTENDS Naturals, FiniteSets

CONSTANTS
  Claude,        \* Claude sessions at a time
  Refresher,      \* session-start hooks at a time
  MaxVersion,     \* releases the checkout can reach (bound)
  SeesProcesses   \* the platform shows what running processes are loaded from (/proc)

ASSUME PluginCacheAssumption == MaxVersion \in Nat \ {0} /\ SeesProcesses \in BOOLEAN

CacheVersion == 1 .. MaxVersion

VARIABLES
  checkout,       \* the version of the working tree
  active,         \* the version installed_plugins.json names
  tree,           \* per version: no tree, one, one marked orphaned, and one marked past the grace period
  loaded,         \* per session: the version it runs from (0: not running)
  refresh,        \* per session-start hook: where its refresh is
  doomed          \* the trees the prune under way has planned to delete

cacheVars == <<checkout, active, tree, loaded, refresh, doomed>>

CacheTypeOK ==
  /\ {checkout, active} \subseteq CacheVersion /\ doomed \subseteq CacheVersion
  /\ tree \in [CacheVersion -> {"none", "kept", "orphaned", "expired"}]
  /\ loaded \in [Claude -> 0 .. MaxVersion]
  /\ refresh \in [Refresher -> {"idle", "market", "plugin"}]

CacheInit ==
  /\ checkout = 1 /\ active = 1 /\ tree = [v \in CacheVersion |-> IF v = 1 THEN "kept" ELSE "none"]
  /\ loaded = [s \in Claude |-> 0] /\ refresh = [h \in Refresher |-> "idle"] /\ doomed = {}

-----------------------------------------------------------------------------
(* Claude Code and git                                                     *)

CheckoutMoves ==
  /\ checkout < MaxVersion /\ checkout' = checkout + 1
  /\ UNCHANGED <<active, tree, loaded, refresh, doomed>>

SessionLoads(s) ==
  /\ loaded[s] = 0 /\ loaded' = [loaded EXCEPT ![s] = active]
  /\ UNCHANGED <<checkout, active, tree, refresh, doomed>>

SessionEnds(s) ==
  /\ loaded[s] # 0 /\ loaded' = [loaded EXCEPT ![s] = 0]
  /\ UNCHANGED <<checkout, active, tree, refresh, doomed>>

(* An orphaned tree is never marked again, so its age only grows. *)
GracePasses(v) ==
  /\ tree[v] = "orphaned" /\ tree' = [tree EXCEPT ![v] = "expired"]
  /\ UNCHANGED <<checkout, active, loaded, refresh, doomed>>

-----------------------------------------------------------------------------
(* refreshPluginCacheIfStale, under the hook's lock file                   *)

NeedsCacheRefresh == active # checkout

RefreshBegins(h) ==
  /\ \A g \in Refresher : refresh[g] = "idle"
  /\ NeedsCacheRefresh /\ refresh' = [refresh EXCEPT ![h] = "market"]
  /\ UNCHANGED <<checkout, active, tree, loaded, doomed>>

MarketplaceUpdate(h) ==
  /\ refresh[h] = "market"
  /\ \E next \in {"plugin", "idle"} : refresh' = [refresh EXCEPT ![h] = next]
  /\ UNCHANGED <<checkout, active, tree, loaded, doomed>>

(* `plugin update` copies the checkout in, names the copy active and marks the old one; the plugin is never gone. *)
PluginUpdate(h) ==
  /\ refresh[h] = "plugin" /\ refresh' = [refresh EXCEPT ![h] = "idle"]
  /\ \/ /\ active' = checkout
        /\ tree' = [v \in CacheVersion |-> IF v = checkout THEN "kept"
                                      ELSE IF v = active THEN "orphaned" ELSE tree[v]]
     \/ UNCHANGED <<active, tree>>
  /\ UNCHANGED <<checkout, loaded, doomed>>

(* Claude Code stops a SessionStart hook after a minute. *)
HookKilled(h) ==
  /\ refresh[h] # "idle" /\ refresh' = [refresh EXCEPT ![h] = "idle"]
  /\ UNCHANGED <<checkout, active, tree, loaded, doomed>>

-----------------------------------------------------------------------------
(* maintenance --apply                                                     *)

(* readLivePluginPins; without /proc they are unknown, and that is a veto. *)
LivePins == {loaded[s] : s \in Claude} \ {0}

(* Mutant: any tree past the grace period. *)
PrunableByAge(v) == tree[v] = "expired" /\ v # active /\ SeesProcesses

(* planPrune: not the active tree, not one a process runs from, and marked longer ago than the grace period. *)
Prunable(v) == tree[v] = "expired" /\ v # active /\ SeesProcesses /\ v \notin LivePins

PlanPrune ==
  /\ doomed = {} /\ doomed' = {v \in CacheVersion : Prunable(v)} /\ doomed' # {}
  /\ UNCHANGED <<checkout, active, tree, loaded, refresh>>

(* removeCacheTree deletes what the plan named; one that vanished, or is no plain directory inside the cache, stays. *)
RemoveCacheTree(v) ==
  /\ v \in doomed /\ doomed' = doomed \ {v}
  /\ tree' \in {tree, [tree EXCEPT ![v] = "none"]}
  /\ UNCHANGED <<checkout, active, loaded, refresh>>

CacheNext ==
  \/ CheckoutMoves \/ PlanPrune
  \/ \E s \in Claude : SessionLoads(s) \/ SessionEnds(s)
  \/ \E h \in Refresher : RefreshBegins(h) \/ MarketplaceUpdate(h) \/ PluginUpdate(h) \/ HookKilled(h)
  \/ \E v \in CacheVersion : GracePasses(v) \/ RemoveCacheTree(v)

CacheSpec == CacheInit /\ [][CacheNext]_cacheVars

(* A running session never loses the files it runs from, however long it
   lives past an update, and a new one always finds the active tree: the
   prune works from a plan that sessions and refreshes overtake.           *)
TreesInUseStay ==
  /\ tree[active] = "kept"
  /\ \A s \in Claude : loaded[s] # 0 => tree[loaded[s]] # "none"
=============================================================================
