---------------------------- MODULE Installation ----------------------------
(***************************************************************************)
(* `captain-memo install` and `uninstall`, one step per system they touch, *)
(* either cut off between any two; the settings they keep in worker.env    *)
(* and its one backup; and the plugin registration of Claude Code, which a *)
(* running worker puts back when it finds it gone.                         *)
(***************************************************************************)
EXTENDS Naturals, FiniteSets

CONSTANTS
  HandKey,        \* settings the wizard does not manage
  MaxSetups,      \* installs and uninstalls explored (bound)
  StopsWorker,    \* removing the service ends the worker process (not so on Windows)
  OffersKeep      \* the operator may answer "No" to "Reconfigure?"

ASSUME InstallationAssumption ==
  /\ MaxSetups \in Nat \ {0} /\ {StopsWorker, OffersKeep} \subseteq BOOLEAN

(* The watched paths are asked for, written and read back the way the summarizer is. *)
Field == {"summarizer", "embedder"}
Value == {"standard", "chosen", "skip"}

(* A worker.env: the managed settings it has a line for, and the hand-added ones. *)
EnvFile == [line : [Field -> Value \cup {"absent"}], own : SUBSET HandKey, exists : BOOLEAN]
NoFile == [line |-> [f \in Field |-> "absent"], own |-> {}, exists |-> FALSE]

VARIABLES
  env, bak,       \* worker.env and worker.env.bak
  unit,           \* the service is registered
  up,             \* a worker process runs
  setup,          \* the install or uninstall under way: its step, the settings it gathered, and for the
                  \* properties the file the operator may expect of it
  setups,         \* how many were begun (bound)
  plugin,         \* Claude Code has the plugin
  market,         \* its marketplace points at this checkout
  marker,         \* DATA_DIR/plugin-removed
  healing,        \* the worker's heal tick: what it does next
  chosen,         \* the file the operator last settled on, kept for the properties
  removed         \* an uninstall went through and nothing was asked for since, kept likewise

settingsVars == <<env, bak, chosen>>
pluginVars   == <<plugin, market, marker, healing>>
installationVars == <<settingsVars, unit, up, setup, setups, pluginVars, removed>>

InstallSteps == {"backup", "write", "service", "clear", "mktRemove", "mktAdd", "install"}
RemoveSteps  == {"units", "retire", "unplug", "unmarket", "mark", "purge"}
Idle == [step |-> "idle", answers |-> [f \in Field |-> "standard"], expects |-> NoFile]

InstallationTypeOK ==
  /\ {env, bak, chosen} \subseteq EnvFile
  /\ {unit, up, plugin, market, marker, removed} \subseteq BOOLEAN
  /\ setup \in [step : InstallSteps \cup RemoveSteps \cup {"idle"}, answers : [Field -> Value], expects : EnvFile]
  /\ setups \in 0 .. MaxSetups /\ healing \in {"idle", "add", "install"}

InstallationInit ==
  /\ env = NoFile /\ bak = NoFile /\ chosen = NoFile /\ unit = FALSE /\ up = FALSE /\ setup = Idle /\ setups = 0
  /\ plugin = FALSE /\ market = FALSE /\ marker = FALSE /\ healing = "idle" /\ removed = FALSE

-----------------------------------------------------------------------------
(* worker.env                                                              *)

(* workerEnvLines: a skipped summarizer or watch has no line, a skipped embedder has a flag. *)
AnswerLines(answers) ==
  [f \in Field |-> IF answers[f] = "skip" /\ f # "embedder" THEN "absent" ELSE answers[f]]

(* Mutant: a missing line always means the default. *)
LoadedDefaults(file) == [f \in Field |-> IF file.line[f] # "absent" THEN file.line[f] ELSE "standard"]

(* loadExistingConfig: in a file of ours a missing summarizer or watch line means skip. *)
LoadedConfig(file) ==
  LET isOurs == \E f \in Field : file.line[f] # "absent"
  IN  [f \in Field |-> IF file.line[f] # "absent" THEN file.line[f]
                       ELSE IF isOurs /\ f # "embedder" THEN "skip" ELSE "standard"]

(* gatherConfig: without prompts a flag wins, then the existing value; with them everything is asked. *)
Gathered(prompts, existing, flags) ==
  IF prompts THEN [Field -> Value] ELSE {[f \in Field |-> IF f \in flags THEN "chosen" ELSE existing[f]]}

(* preservedHandEdits, composeWorkerEnvBody. *)
Composed(answers, file) == [line |-> AnswerLines(answers), own |-> file.own, exists |-> TRUE]

(* restoreWorkerEnvBackup, before any question. *)
Restored == IF ~env.exists /\ bak.exists THEN bak ELSE env

To(step) == setup' = [setup EXCEPT !.step = step]

-----------------------------------------------------------------------------
(* install                                                                 *)

(* What an install may be expected to write: the answers given, and otherwise what was there. *)
Expected(prompts, answers, flags) ==
  [line |-> IF prompts \/ ~chosen.exists THEN AnswerLines(answers)
            ELSE [f \in Field |-> IF f \in flags THEN "chosen" ELSE chosen.line[f]],
   own |-> chosen.own, exists |-> TRUE]

(* The questions, the summary, the pre-flight: a failed check or a last "No" leaves it at that. "No" to
   "Reconfigure (re-ask all questions)?" leaves `existing` unset, so the questions come all the same, with the
   built-in defaults, although the operator was told that the config is kept. *)
BeginInstall ==
  /\ setup.step = "idle" /\ setups < MaxSetups /\ setups' = setups + 1
  /\ env' = Restored
  /\ \/ /\ removed' = FALSE
        /\ \E prompts \in BOOLEAN, flags \in {{}, {"embedder"}}, keeps \in {FALSE, OffersKeep} :
             \E answers \in Gathered(prompts, LoadedConfig(Restored), flags) :
               setup' = [step |-> "backup", answers |-> answers,
                       expects |-> IF prompts /\ keeps /\ chosen.exists THEN chosen
                                   ELSE Expected(prompts, answers, flags)]
     \/ UNCHANGED <<setup, removed>>
  /\ UNCHANGED <<bak, chosen, unit, up, pluginVars>>

(* writeWorkerEnv copies the live file to the backup first, and writes the new body. *)
BackUpEnv ==
  /\ setup.step = "backup" /\ To("write") /\ bak' = IF env.exists THEN env ELSE bak
  /\ UNCHANGED <<env, chosen, unit, up, setups, pluginVars, removed>>

WriteEnv ==
  /\ setup.step = "write" /\ To("service")
  /\ env' = Composed(setup.answers, env) /\ chosen' = setup.expects
  /\ UNCHANGED <<bak, unit, up, setups, pluginVars, removed>>

(* installWorkerService: write the unit, enable, restart. A failure ends the run; on Windows it is carried to the
   end and the rest still happens. *)
InstallService ==
  /\ setup.step = "service"
  /\ \/ unit' = TRUE /\ up' = TRUE /\ To("clear")
     \/ unit' \in {unit, TRUE} /\ up' = up /\ IF StopsWorker THEN setup' = Idle ELSE To("clear")
  /\ UNCHANGED <<settingsVars, setups, pluginVars, removed>>

(* registerPlugin: the marker goes first; then the marketplace is removed, which takes the plugin with it. *)
ClearRemoved ==
  /\ setup.step = "clear" /\ To("mktRemove") /\ marker' = FALSE
  /\ UNCHANGED <<settingsVars, unit, up, setups, plugin, market, healing, removed>>

RemoveMarketplace ==
  /\ setup.step \in {"mktRemove", "unmarket"}
  /\ To(IF setup.step = "mktRemove" THEN "mktAdd" ELSE "mark")
  /\ \/ market' = FALSE /\ plugin' = FALSE
     \/ UNCHANGED <<market, plugin>>
  /\ UNCHANGED <<settingsVars, unit, up, setups, marker, healing, removed>>

AddMarketplace ==
  /\ setup.step = "mktAdd"
  /\ \/ market' = TRUE /\ To("install")
     \/ market' = market /\ setup' = Idle
  /\ UNCHANGED <<settingsVars, unit, up, setups, plugin, marker, healing, removed>>

(* The grant, the shim and the wiring of the other tools follow; none of them touches what is here. *)
InstallPlugin ==
  /\ setup.step = "install" /\ setup' = Idle /\ plugin' \in {plugin, market}
  /\ UNCHANGED <<settingsVars, unit, up, setups, market, marker, healing, removed>>

-----------------------------------------------------------------------------
(* uninstall                                                               *)

BeginUninstall ==
  /\ setup.step = "idle" /\ setups < MaxSetups /\ setups' = setups + 1 /\ unit
  /\ To("units")
  /\ UNCHANGED <<settingsVars, unit, up, pluginVars, removed>>

(* Stopping the unit ends the worker and what it spawned; Unregister-ScheduledTask ends nothing. *)
RemoveUnits ==
  /\ setup.step = "units" /\ To("retire") /\ unit' = FALSE
  /\ IF StopsWorker THEN up' = FALSE /\ healing' = "idle" ELSE UNCHANGED <<up, healing>>
  /\ UNCHANGED <<settingsVars, setups, plugin, market, marker, removed>>

(* retireWorkerEnv: the live file becomes the backup. *)
RetireEnv ==
  /\ setup.step = "retire" /\ To("unplug")
  /\ IF env.exists THEN bak' = env /\ env' = NoFile ELSE UNCHANGED <<env, bak>>
  /\ UNCHANGED <<chosen, unit, up, setups, pluginVars, removed>>

UnplugPlugin ==
  /\ setup.step = "unplug" /\ To("unmarket") /\ plugin' \in {plugin, FALSE}
  /\ UNCHANGED <<settingsVars, unit, up, setups, market, marker, healing, removed>>

(* markPluginRemoved comes after both calls of claude. *)
MarkRemoved ==
  /\ setup.step = "mark" /\ marker' = TRUE /\ removed' = ~plugin
  /\ setup' = Idle
  /\ UNCHANGED <<settingsVars, unit, up, setups, plugin, market, healing>>

Interrupted ==
  /\ setup.step # "idle" /\ setup' = Idle
  /\ UNCHANGED <<settingsVars, unit, up, setups, pluginVars, removed>>

-----------------------------------------------------------------------------
(* The worker, and the operator's own hands                                *)

(* By the service manager, or by hand where there is no service. *)
StartWorker ==
  /\ ~up /\ (unit \/ setup.step = "idle") /\ up' = TRUE
  /\ UNCHANGED <<settingsVars, unit, setup, setups, pluginVars, removed>>

StopWorker ==
  /\ up /\ up' = FALSE /\ healing' = "idle"
  /\ UNCHANGED <<settingsVars, unit, setup, setups, plugin, market, marker, removed>>

(* healPluginRegistration up to its first await: an installed plugin clears a stale marker; a marker, or no sign
   that the plugin was ever here, ends the tick. *)
HealTick ==
  /\ up /\ healing = "idle"
  /\ IF plugin THEN marker' = FALSE /\ UNCHANGED healing
     ELSE ~marker /\ healing' = (IF market THEN "install" ELSE "add") /\ UNCHANGED marker
  /\ UNCHANGED <<settingsVars, unit, up, setup, setups, plugin, market, removed>>

HealAdds ==
  /\ healing = "add"
  /\ \/ market' = TRUE /\ healing' = "install"
     \/ market' = market /\ healing' = "idle"
  /\ UNCHANGED <<settingsVars, unit, up, setup, setups, plugin, marker, removed>>

(* Up to three attempts; the install fails without a marketplace. *)
HealInstalls ==
  /\ healing = "install"
  /\ \/ market /\ plugin' = TRUE /\ healing' = "idle"
     \/ plugin' = plugin /\ healing' \in {"install", "idle"}
  /\ UNCHANGED <<settingsVars, unit, up, setup, setups, market, marker, removed>>

(* `claude plugin install` and `uninstall` by hand. *)
PluginByHand ==
  /\ setup.step = "idle" /\ plugin' = ~plugin /\ (plugin' => market) /\ removed' = FALSE
  /\ UNCHANGED <<settingsVars, unit, up, setup, setups, market, marker, healing>>

(* A key added to worker.env, or one of the wizard's rewritten (setWorkerEnvVar, an editor). *)
EditEnv ==
  /\ env.exists /\ setup.step = "idle"
  /\ \/ \E k \in HandKey : env' = [env EXCEPT !.own = @ \cup {k}]
     \/ \E f \in Field : env' = [env EXCEPT !.line[f] = "chosen"]
  /\ chosen' = env'
  /\ UNCHANGED <<bak, unit, up, setup, setups, pluginVars, removed>>

InstallationNext ==
  \/ BeginInstall \/ BackUpEnv \/ WriteEnv \/ InstallService \/ ClearRemoved
  \/ RemoveMarketplace \/ AddMarketplace \/ InstallPlugin
  \/ BeginUninstall \/ RemoveUnits \/ RetireEnv \/ UnplugPlugin \/ MarkRemoved \/ Interrupted
  \/ StartWorker \/ StopWorker \/ HealTick \/ HealAdds \/ HealInstalls
  \/ PluginByHand \/ EditEnv

InstallationSpec == InstallationInit /\ [][InstallationNext]_installationVars

-----------------------------------------------------------------------------
(* worker-env.ts: nothing that rewrites or removes worker.env may lose the
   settings in it.  Through every sequence of installs, uninstalls and hand
   edits, and wherever one of them is cut off, what the operator settled on
   is in the file or in its backup: a skipped setting, written as no line at
   all, comes back as skipped, and a hand-added key comes back at all.     *)
SettingsSurvive == chosen.exists => chosen \in {env, bak}

(* A plugin that an uninstall took away comes back only when somebody asks
   for it: the worker's heal sees the same missing plugin as after damage. *)
RemovedStaysRemoved == removed => ~plugin

InstallationSafety == SettingsSurvive /\ RemovedStaysRemoved
=============================================================================
