------------------------------- MODULE CrossAi -------------------------------
(***************************************************************************)
(* `captain-memo connect`: how each kind of tool gets the MCP server, the  *)
(* approvals, the hooks and the skill, in configuration files that belong  *)
(* to the tool and its user.  A file is read, and written back as a whole  *)
(* later; others write it too, and a connect may end between two files.    *)
(***************************************************************************)
EXTENDS Naturals, Sequences, SequencesExt

CONSTANTS
  Path,           \* places the checkout can be at
  Entry,          \* what others register in the same files
  MaxConnects,    \* connects explored (bound)
  MaxEdits        \* edits by others explored (bound)

ASSUME CrossAiAssumption == Path # {} /\ {MaxConnects, MaxEdits} \subseteq Nat

(* agy stands for cursor, VS Code and Claude Desktop too: one merge into one JSON file. *)
Steps ==
  [codex    |-> <<"register", "approve", "skill", "hooks">>,
   gemini   |-> <<"register", "skill", "hooks">>,
   agy      |-> <<"register", "skill">>,
   opencode |-> <<"register", "skill">>,
   goose    |-> <<"register">>,
   vibe     |-> <<"register", "skill">>,
   kimi1    |-> <<"models", "register", "skill", "hooks">>,
   kimi2    |-> <<"register", "hooks", "skill">>,
   claude   |-> <<"hooks", "approve">>]

Tool == DOMAIN Steps
OwnCommand == {"codex", "gemini", "kimi1"}              \* registered by the tool's own `mcp add`
Json(t, f) == (f = "main" /\ t \notin {"codex", "vibe"}) \/ (f = "side" /\ t = "codex")

(* Of a file: is it there, of a shape nobody expects, or not parseable; our registrations and hooks by the path they name; what
   others have in it; the permission of one of our tools; and, in Kimi's, the model tables of our block and of others. *)
Model == {"chat", "embed"}
Doc == [state : {"absent", "text", "odd", "broken"}, mine : Seq(Path), hooks : Seq(Path), theirs : SUBSET Entry,
        approval : {"unset", "always", "ask"}, block : SUBSET Model, own : SUBSET Model,
        default : Model \cup {"none"}]
Absent == [state |-> "absent", mine |-> <<>>, hooks |-> <<>>, theirs |-> {}, approval |-> "unset",
           block |-> {}, own |-> {}, default |-> "none"]

VARIABLES
  tool,           \* the tool looked at; their files have nothing in common
  path,           \* where the checkout is
  doc,            \* its "main" file, with the registration, and its "side" file
  skill,          \* the copy of the skill: which checkout's, or none
  pulled,         \* the local models there are
  connect,        \* the connect under way: its step, what it read, what it reports
  count,          \* connects and edits so far (bounds)
  entered         \* for the properties: what others put in each file, less what a write raced with

crossVars == <<tool, path, doc, skill, pulled, connect, count, entered>>

ToolFile == {"main", "side"}
NotRead == [Absent EXCEPT !.state = "unread"]
NoConnect == [at |-> 0, read |-> NotRead, here |-> CHOOSE p \in Path : TRUE, mcp |-> "none", capture |-> "none",
              models |-> {}, alone |-> TRUE]

(* A file as its user may have it before captain-memo comes. *)
Used(f) == [Absent EXCEPT !.state = "text", !.theirs = Entry, !.approval = IF f = "main" THEN "ask" ELSE "unset",
                          !.own = IF tool = "kimi1" /\ f = "side" THEN {"embed"} ELSE {}]

CrossTypeOK ==
  /\ tool \in Tool /\ path \in Path /\ skill \in Path \cup {"none"} /\ pulled \subseteq Model
  /\ \A f \in ToolFile : doc[f].state \in {"absent", "text", "odd", "broken"} /\ doc[f].theirs \subseteq Entry
  /\ connect.at \in 0 .. Len(Steps[tool]) + 1 /\ connect.here \in Path
  /\ connect.mcp \in {"none", "added", "present", "failed"}
  /\ connect.capture \in {"none", "rollout", "native", "failed"}
  /\ count \in [connects : 0 .. MaxConnects, edits : 0 .. MaxEdits]
  /\ entered \in [ToolFile -> [theirs : SUBSET Entry, own : SUBSET Model, asks : BOOLEAN]]

CrossInit ==
  /\ tool \in Tool /\ path = NoConnect.here /\ skill = "none"
  /\ pulled \in IF tool = "kimi1" THEN {{}, {"embed"}, Model} ELSE {{}}
  /\ doc \in {[f \in ToolFile |-> Absent], [f \in ToolFile |-> Used(f)]} /\ connect = NoConnect
  /\ count = [connects |-> 0, edits |-> 0]
  /\ entered = [f \in ToolFile |-> [theirs |-> doc[f].theirs, own |-> doc[f].own, asks |-> doc[f].approval = "ask"]]

-----------------------------------------------------------------------------
(* The merges: what is written for what was read.  Each either gives a     *)
(* document or refuses; a refusal leaves the file as it is.                *)

Unparsed == [Absent EXCEPT !.state = "refused"]

(* A missing file, or one whose root is no object, is started afresh. *)
Fresh(d) == IF d.state = "odd" THEN [Absent EXCEPT !.state = "text"] ELSE [d EXCEPT !.state = "text"]

(* mergeMcpServersConfig, mergeVscodeMcpConfig. *)
MergeMcpServers(d, here) == IF d.state = "broken" THEN Unparsed ELSE [Fresh(d) EXCEPT !.mine = <<here>>]

(* mergeOpencodeConfig: the providers and the agent it writes besides keep what is under other keys. *)
MergeOpencode(d, here) == MergeMcpServers(d, here)

(* mergeGooseConfig, unless the entry is already the wanted one. *)
MergeGoose(d, here) == IF d.mine = <<here>> THEN d ELSE MergeMcpServers(d, here)

(* mergeKimiCodeMcp: another shape is refused as well. *)
MergeKimiCodeMcp(d, here) ==
  IF d.state \in {"broken", "odd"} THEN Unparsed ELSE [d EXCEPT !.state = "text", !.mine = <<here>>]

(* planVibeMcpConfig, planVibeToolPermissions: append-only, and an entry that is there is never edited. *)
PlanVibe(d, here) ==
  [d EXCEPT !.state = "text", !.mine = IF d.mine = <<>> THEN <<here>> ELSE d.mine,
            !.approval = IF @ = "unset" THEN "always" ELSE @]

(* mergeCodexToolApprovals, grantPluginToolPermissions. *)
Approved(d) == [d EXCEPT !.state = "text", !.approval = IF @ = "unset" THEN "always" ELSE @]

(* mergeKimiAllowRule; rules written as a static array are left alone. *)
MergeKimiAllowRule(d) == IF d.state = "odd" THEN d ELSE Approved(d)

(* Mutant: the managed hooks of an earlier connect are not taken out. *)
HooksAppended(d, here) ==
  IF d.state \in {"broken", "odd"} THEN Unparsed ELSE [d EXCEPT !.state = "text", !.hooks = Append(d.hooks, here)]

(* mergeCodexHooks: the managed ones go, from whatever checkout, and one set is added. *)
HooksMerged(d, here) ==
  IF d.state \in {"broken", "odd"} THEN Unparsed ELSE [d EXCEPT !.state = "text", !.hooks = <<here>>]

(* The same, and the switches that turn hooks on; which one depends on the version. *)
MergeGeminiHooks(d, here) == HooksMerged(d, here)

(* mergeKimiHooks works on the text, between two marker lines. *)
MergeKimiHooks(d, here) == [d EXCEPT !.state = IF @ = "odd" THEN @ ELSE "text", !.hooks = <<here>>]

(* applyHookInstall: an event with a managed hook is left alone, whatever the hook names. *)
HookInstalled(d, here) ==
  IF d.state = "broken" THEN Unparsed
  ELSE [d EXCEPT !.state = "text", !.hooks = IF d.hooks = <<>> THEN <<here>> ELSE d.hooks]

(* mergeKimiConfig: our block is written anew without the tables others own, and a default that names no table is
   pointed at the first model that can chat. *)
KimiMerged(d, models) ==
  LET resolves == d.default \in models \cup d.own
  IN  [d EXCEPT !.state = "text", !.block = models \ d.own,
                !.default = IF ~resolves /\ "chat" \in models THEN "chat" ELSE @]

-----------------------------------------------------------------------------
(* A connect                                                               *)

At(step) == connect.at \in DOMAIN Steps[tool] /\ Steps[tool][connect.at] = step

FileOf(step) == IF step \in {"models", "hooks"} /\ tool \in {"codex", "kimi1", "kimi2"} THEN "side" ELSE "main"

ReadsFile(step) == At(step) /\ connect.read # NotRead

(* The step is over: what it reports, and the next one has read nothing yet. *)
Advance(report) == connect' = [k \in DOMAIN connect |->
                     IF k \in DOMAIN report THEN report[k]
                     ELSE CASE k = "at" -> connect.at + 1 [] k = "read" -> NotRead [] OTHER -> connect[k]]

(* A write replaces the file, and with it what others wrote since the read. *)
Write(f, new) ==
  /\ doc' = [doc EXCEPT ![f] = new]
  /\ entered' = [entered EXCEPT ![f].theirs = @ \ (doc[f].theirs \ connect.read.theirs),
                                ![f].own    = @ \ (doc[f].own \ connect.read.own),
                                ![f].asks   = @ /\ doc[f].approval = connect.read.approval]

Keep == UNCHANGED <<doc, entered>>

ConnectBegins ==
  /\ connect.at \in {0, Len(Steps[tool]) + 1} /\ count.connects < MaxConnects
  /\ count' = [count EXCEPT !.connects = @ + 1]
  /\ connect' = [NoConnect EXCEPT !.at = 1, !.here = path, !.capture = "rollout", !.models = pulled]
  /\ UNCHANGED <<tool, path, doc, skill, pulled, entered>>

ReadFile(step) ==
  /\ At(step) /\ connect.read = NotRead /\ ~(step = "register" /\ tool \in OwnCommand)
  /\ connect' = [connect EXCEPT !.read = doc[FileOf(step)]]
  /\ UNCHANGED <<tool, path, doc, skill, pulled, count, entered>>

(* `codex mcp add` and its like: over, refused as already there, or failed. *)
RegisterByCommand ==
  /\ At("register") /\ tool \in OwnCommand
  /\ \/ /\ doc' = [doc EXCEPT !["main"].mine = <<connect.here>>, !["main"].state = "text"]
        /\ doc["main"].state \notin {"broken", "odd"} /\ Advance([mcp |-> "added"])
     \/ doc["main"].mine # <<>> /\ doc' = doc /\ Advance([mcp |-> "present"])
     \/ doc' = doc /\ Advance([mcp |-> "failed"])
  /\ UNCHANGED <<tool, path, skill, pulled, count, entered>>

RegisterMerge(d) ==
  CASE tool = "agy" -> MergeMcpServers(d, connect.here)
    [] tool = "opencode" -> MergeOpencode(d, connect.here)
    [] tool = "goose" -> MergeGoose(d, connect.here)
    [] tool = "vibe" -> PlanVibe(d, connect.here)
    [] tool = "kimi2" -> MergeKimiCodeMcp(d, connect.here)

RegisterByMerge ==
  /\ ReadsFile("register")
  /\ LET new == RegisterMerge(connect.read)
     IN  IF new = Unparsed THEN Keep /\ Advance([mcp |-> "failed"])
         ELSE /\ Advance([mcp |-> IF new.mine = connect.read.mine THEN "present" ELSE "added"])
              /\ IF new = connect.read THEN Keep ELSE Write("main", new)
  /\ UNCHANGED <<tool, path, skill, pulled, count>>

(* Codex's only after a registration; the permission Claude Code needs refuses a file that does not parse. *)
Approve ==
  /\ ReadsFile("approve")
  /\ IF connect.mcp = "failed" \/ connect.read.state = "broken" \/ connect.read.approval # "unset" THEN Keep
     ELSE Write("main", Approved(connect.read))
  /\ Advance([alone |-> connect.alone])
  /\ UNCHANGED <<tool, path, skill, pulled, count>>

(* Where the tool has hooks; a failure leaves the capture to the transcripts. *)
HookMerge(d) ==
  CASE tool = "claude" -> HookInstalled(d, connect.here)
    [] tool = "kimi2" -> MergeKimiHooks(MergeKimiAllowRule(d), connect.here)
    [] tool = "kimi1" -> MergeKimiHooks(d, connect.here)
    [] tool = "gemini" -> MergeGeminiHooks(d, connect.here)
    [] tool = "codex" -> HooksMerged(d, connect.here)

InstallHooks ==
  /\ ReadsFile("hooks")
  /\ \/ LET new == HookMerge(connect.read)
        IN  IF new = Unparsed THEN Keep /\ Advance([capture |-> "failed"])
            ELSE Advance([capture |-> "native"]) /\ Write(FileOf("hooks"), new)
     \/ tool \notin {"claude", "kimi2"} /\ Keep /\ Advance([capture |-> "rollout"])
  /\ UNCHANGED <<tool, path, skill, pulled, count>>

KimiModels ==
  /\ ReadsFile("models")
  /\ IF connect.models = {} THEN Keep ELSE Write("side", KimiMerged(connect.read, connect.models))
  /\ Advance([alone |-> connect.alone])
  /\ UNCHANGED <<tool, path, skill, pulled, count>>

CopySkill ==
  /\ At("skill") /\ skill' \in {skill, connect.here} /\ Advance([alone |-> connect.alone])
  /\ UNCHANGED <<tool, path, doc, pulled, count, entered>>

ConnectKilled ==
  /\ connect.at \in DOMAIN Steps[tool] /\ connect' = NoConnect
  /\ UNCHANGED <<tool, path, doc, skill, pulled, count, entered>>

-----------------------------------------------------------------------------
(* The worker and the session-start hook, on their own                     *)

(* refreshCodexToolApprovals at the worker's start. *)
RefreshCodexApprovals ==
  /\ tool = "codex" /\ doc["main"].mine # <<>> /\ doc["main"].approval = "unset"
  /\ doc' = [doc EXCEPT !["main"] = Approved(@)]
  /\ UNCHANGED <<tool, path, skill, pulled, connect, count, entered>>

RefreshSkill ==
  /\ skill \notin {"none", path} /\ skill' = path
  /\ UNCHANGED <<tool, path, doc, pulled, connect, count, entered>>

-----------------------------------------------------------------------------
(* Everybody else                                                          *)

MoveCheckout ==
  /\ path' \in Path \ {path} /\ UNCHANGED <<tool, doc, skill, pulled, connect, count, entered>>

PullOrRemoveModel ==
  /\ tool = "kimi1" /\ count.edits < MaxEdits /\ count' = [count EXCEPT !.edits = @ + 1]
  /\ pulled' \in {{}, {"embed"}, Model} \ {pulled}
  /\ UNCHANGED <<tool, path, doc, skill, connect, entered>>

(* The tool, its user, another installer: one edit of one file. *)
ForeignEdit(f) ==
  /\ count.edits < MaxEdits /\ count' = [count EXCEPT !.edits = @ + 1]
  /\ doc[f].state \in {"absent", "text"}
  /\ connect' = [connect EXCEPT !.alone = FALSE]
  /\ LET edited == [doc[f] EXCEPT !.state = "text"]
     IN  \/ \E e \in Entry : /\ doc' = [doc EXCEPT ![f] = [edited EXCEPT !.theirs = @ \cup {e}]]
                             /\ entered' = [entered EXCEPT ![f].theirs = @ \cup {e}]
         \/ /\ f = "main" /\ doc[f].approval # "ask"
            /\ doc' = [doc EXCEPT ![f] = [edited EXCEPT !.approval = "ask"]]
            /\ entered' = [entered EXCEPT ![f].asks = TRUE]
         \/ /\ f = "main" /\ doc[f].mine # <<>> /\ doc' = [doc EXCEPT ![f] = [edited EXCEPT !.mine = <<>>]]
            /\ entered' = entered
         \/ /\ tool = "kimi1" /\ f = "side"
            /\ \E m \in Model : \/ /\ doc' = [doc EXCEPT ![f] = [edited EXCEPT !.own = @ \cup {m}]]
                                   /\ entered' = [entered EXCEPT ![f].own = @ \cup {m}]
                                \/ doc' = [doc EXCEPT ![f] = [edited EXCEPT !.default = m]] /\ entered' = entered
         \/ /\ f = "side" /\ tool = "kimi2" /\ doc' = [doc EXCEPT ![f].state = "odd"] /\ entered' = entered
         \/ /\ Json(tool, f) /\ \E s \in {"broken", "odd"} : doc' = [doc EXCEPT ![f] = [Absent EXCEPT !.state = s]]
            /\ entered' = [entered EXCEPT ![f] = [theirs |-> {}, own |-> {}, asks |-> FALSE]]
  /\ UNCHANGED <<tool, path, skill, pulled>>

CrossNext ==
  \/ ConnectBegins \/ RegisterByCommand \/ RegisterByMerge \/ Approve \/ InstallHooks \/ KimiModels
  \/ CopySkill \/ ConnectKilled \/ RefreshCodexApprovals \/ RefreshSkill \/ MoveCheckout \/ PullOrRemoveModel
  \/ \E step \in {"register", "approve", "hooks", "models"} : ReadFile(step)
  \/ \E f \in ToolFile : ForeignEdit(f)

CrossSpec == CrossInit /\ [][CrossNext]_crossVars

-----------------------------------------------------------------------------
Finished == connect.at = Len(Steps[tool]) + 1 /\ connect.alone

(* cross-ai.ts: re-running must not error or duplicate.  Whatever earlier
   connects left behind, cut off or made from another checkout, one that
   reports a registration leaves exactly one, at this checkout, and one that
   reports native hooks exactly one set; only Vibe's and Claude Code's own
   are left as they are when there is one already.                         *)
RerunsDoNotDuplicate ==
  Finished =>
    /\ connect.mcp = "added" \/ (connect.mcp = "present" /\ tool \notin OwnCommand \cup {"vibe"})
         => doc["main"].mine = <<connect.here>>
    /\ connect.capture = "native"
         => doc[FileOf("hooks")].hooks = <<connect.here>> \/ (tool = "claude" /\ Len(doc["main"].hooks) = 1)

(* What others have in the files is there after any number of connects, a
   permission set to ask is never turned into a silent yes; only an edit that
   falls between a connect's read and its write is lost.                   *)
OthersKeepTheirs ==
  \A f \in ToolFile :
    /\ entered[f].theirs \subseteq doc[f].theirs /\ entered[f].own \subseteq doc[f].own
    /\ entered[f].asks => doc[f].approval = "ask"

(* Kimi starts after a connect: no model has two tables, and with a model
   that can chat the default names one that has a table.                   *)
KimiStarts ==
  tool = "kimi1" /\ Finished /\ connect.models # {} =>
    LET d == doc["side"]
    IN  d.block \cap d.own = {} /\ ("chat" \in connect.models => d.default \in d.block \cup d.own)

ConnectIsSafe == RerunsDoNotDuplicate /\ OthersKeepTheirs /\ KimiStarts
=============================================================================
