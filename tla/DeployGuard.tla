----------------------------- MODULE DeployGuard -----------------------------
(***************************************************************************)
(* Sessions that upload to the same files of one server                    *)
(* (src/hooks/deploy-guard.ts and the claim of src/hooks/pre-tool-use.ts). *)
(* Before a command with uploads runs, the hook reads the board, asks the  *)
(* server for the copies the command would overwrite, refuses the command  *)
(* when one of them is nothing the session knows, and then claims the      *)
(* remote names; after a command it remembers what was fetched.  Between   *)
(* any two of these steps other sessions, and people without a guard,      *)
(* upload.  Every failure lets the command through.                        *)
(*                                                                         *)
(* Each session has a checkout of its own with one file; contents are      *)
(* numbered, 0 being the committed one.  A command is the sequence of its  *)
(* copies, with its loops and functions unrolled.  The board is reduced to *)
(* fresh claims of running processes (module WorkBoard has the rest).      *)
(***************************************************************************)
EXTENDS Integers, Sequences, FiniteSets, SequencesExt

CONSTANTS
  Deployer,
  Host,          \* the ways to spell the one server, user@host or host
  Command,       \* the commands there are
  MaxChecked,    \* MAX_CHECKED
  KeptBases,     \* baselines kept for a target
  MaxVersions,   \* bound on new contents
  MaxCommands,   \* bound on commands
  MayLift        \* the names a user may override for

VARIABLES
  isDir,         \* "dir" is a directory on the server
  server,        \* path -> what is there
  copy,          \* session -> its file
  held,          \* history: the contents a session has had
  base,          \* session -> its baselines
  claim,         \* session -> the remote names it claims
  forced,        \* history: the names claimed by an override of somebody's claim
  shell,         \* session -> the command it is at
  versions,      \* contents made so far
  commands       \* commands run so far

deployVars == <<isDir, server, copy, held, base, claim, forced, shell, versions, commands>>

RemotePath == {"dir", "dir/file"}
Key == Host \X RemotePath                \* remoteKey
Missing == -1

(* One copy of a command. *)
Copy == [verb : {"put", "get"}, host : Host, path : RemotePath, plain : BOOLEAN]

ASSUME DeployAssumption == Command \subseteq Seq(Copy) /\ MayLift \subseteq Key

NoRun == [phase |-> "idle", override |-> {}, lifted |-> {}, uploads |-> <<>>, vouched |-> {}, command |-> <<>>, left |-> <<>>]

DeployInit ==
  /\ isDir \in BOOLEAN
  /\ server = [p \in RemotePath |-> [content |-> IF isDir = (p = "dir/file") THEN 0 ELSE Missing, late |-> {}]]
  /\ copy = [s \in Deployer |-> 0]
  /\ held = [s \in Deployer |-> {0}]
  /\ base = [s \in Deployer |-> [k \in Key |-> <<>>]]
  /\ claim = [s \in Deployer |-> {}]
  /\ forced = {}
  /\ shell = [s \in Deployer |-> NoRun]
  /\ versions = 0
  /\ commands = 0

-----------------------------------------------------------------------------
(* What a command copies                                                   *)

(* A copy names its host and path plainly, or through an expression that only
   the shell can resolve, or by more loop values than are followed. *)
Plain(command, verb) == [i \in {j \in DOMAIN command : command[j].verb = verb /\ command[j].plain} |-> command[i]]
Uploads(command) == Plain(command, "put")
Downloads(command) == Plain(command, "get")

NameOf(c) == <<c.host, c.path>>
RemoteNames(copies) == {NameOf(copies[i]) : i \in DOMAIN copies}

(* Where a copy really goes: into the path, when that is a directory. *)
Target(c) == IF c.path = "dir" /\ isDir THEN [c EXCEPT !.path = "dir/file"] ELSE c

-----------------------------------------------------------------------------
(* The hook before a command                                               *)

Edit(s) ==
  /\ shell[s].phase = "idle" /\ versions < MaxVersions
  /\ versions' = versions + 1
  /\ copy' = [copy EXCEPT ![s] = versions']
  /\ held' = [held EXCEPT ![s] = @ \cup {versions'}]
  /\ UNCHANGED <<isDir, server, base, claim, forced, shell, commands>>

(* GET /worknote/active: what the user has lifted by `override: <name>`, or
   nothing when it fails. *)
ReadOverrides(s) ==
  /\ shell[s].phase = "idle" /\ commands < MaxCommands
  /\ commands' = commands + 1
  /\ \E c \in Command, override \in {{}} \cup {{k} : k \in MayLift}, answered \in BOOLEAN :
       shell' = [shell EXCEPT ![s] =
                 [phase |-> IF DOMAIN Uploads(c) = {} THEN "running" ELSE "parsed",
                  override |-> override, lifted |-> IF answered THEN override ELSE {},
                  uploads |-> Uploads(c), vouched |-> {}, command |-> c, left |-> c]]
  /\ UNCHANGED <<isDir, server, copy, held, base, claim, forced, versions>>

Unlifted(s) == {i \in DOMAIN shell[s].uploads : NameOf(shell[s].uploads[i]) \notin shell[s].lifted}

(* The first few uploads the user has not lifted. *)
Checked(s) == {i \in Unlifted(s) : Cardinality({j \in Unlifted(s) : j < i}) < MaxChecked}

(* The check finds the real target of what it asks about. *)
Resolved(s) == [i \in DOMAIN shell[s].uploads |->
                  IF i \in Checked(s) THEN Target(shell[s].uploads[i]) ELSE shell[s].uploads[i]]

(* Mutant: a hash the session saw while it was refused is known from then on. *)
KnownOnceSeen(s, key) == {0, copy[s]} \cup ToSet(base[s][key]) \cup {server[p].content : p \in RemotePath}

(* Committed, the session's own file, or a baseline of this target. *)
Known(s, key) == {0, copy[s]} \cup ToSet(base[s][key])

(* decideDeploy *)
Denied(s) ==
  \E i \in Checked(s) :
    LET u == Resolved(s)[i]
    IN  /\ NameOf(u) \notin shell[s].lifted
        /\ server[u.path].content \notin Known(s, NameOf(u)) \cup {Missing}

(* A baseline list holds a content once. *)
Without(list, content) ==
  IF content \in ToSet(list) THEN RemoveAt(list, CHOOSE i \in DOMAIN list : list[i] = content) ELSE list

(* Mutant: no baseline is ever dropped. *)
RecordedForever(list, content) == Append(Without(list, content), content)

(* recordBaseline: the last few, newest at the end. *)
Recorded(list, content) ==
  LET kept == Append(Without(list, content), content)
  IN  IF Len(kept) > KeptBases THEN Tail(kept) ELSE kept

RecordedAt(baselines, keys, content) ==
  [k \in Key |-> IF k \in keys THEN Recorded(baselines[k], content) ELSE baselines[k]]

(* checkUploads with an answer from the server: refused whole, or the file is
   recorded as uploaded before the upload is made. *)
CheckAnswered(s) ==
  /\ shell[s].phase = "parsed" /\ Checked(s) # {}
  /\ IF Denied(s)
     THEN shell' = [shell EXCEPT ![s] = NoRun] /\ UNCHANGED <<base, server>>
     ELSE /\ base' = [base EXCEPT ![s] =
                        RecordedAt(@, {NameOf(Resolved(s)[i]) : i \in Checked(s)}, copy[s])]
          /\ server' = [p \in RemotePath |-> [server[p] EXCEPT !.late = @ \ {s}]]
          /\ shell' = [shell EXCEPT ![s].phase = "checked", ![s].uploads = Resolved(s),
                                ![s].vouched = {NameOf(Resolved(s)[i]) : i \in Checked(s)} \ shell[s].lifted]
  /\ UNCHANGED <<isDir, copy, held, claim, forced, versions, commands>>

(* No answer, or no time left to ask: nothing is resolved and nothing refused. *)
CheckFails(s) ==
  /\ shell[s].phase = "parsed"
  /\ \/ base' = [base EXCEPT ![s] = RecordedAt(@, {NameOf(shell[s].uploads[i]) : i \in Checked(s)}, copy[s])]
     \/ UNCHANGED base
  /\ shell' = [shell EXCEPT ![s].phase = "checked"]
  /\ UNCHANGED <<isDir, server, copy, held, claim, forced, versions, commands>>

(* What is claimed are the names as the check has left them. *)
Touched(s) == RemoteNames(shell[s].uploads)

(* POST /worknote/set with the remote names, and its denial. *)
Claims(s) ==
  /\ shell[s].phase = "checked"
  /\ LET contested == {k \in Touched(s) \ claim[s] : \E t \in Deployer \ {s} : k \in claim[t]}
     IN  IF contested \ shell[s].override # {}
         THEN shell' = [shell EXCEPT ![s] = NoRun] /\ UNCHANGED <<claim, forced>>
         ELSE /\ claim' = [claim EXCEPT ![s] = @ \cup Touched(s)]
              /\ forced' = forced \cup contested
              /\ shell' = [shell EXCEPT ![s].phase = "running"]
  /\ UNCHANGED <<isDir, server, copy, held, base, versions, commands>>

ClaimFails(s) ==
  /\ shell[s].phase = "checked"
  /\ shell' = [shell EXCEPT ![s].phase = "running"]
  /\ UNCHANGED <<isDir, server, copy, held, base, claim, forced, versions, commands>>

-----------------------------------------------------------------------------
(* The command, and the hook after it                                      *)

NextCopy(s) == Target(Head(shell[s].left))

(* The sessions that have checked, and that no claim of this name on both
   sides shuts out: what is uploaded now comes too late for their check. *)
TooLateFor(name, claimed) ==
  {t \in Deployer : \/ shell[t].phase = "checked"
                    \/ shell[t].phase = "running" /\ ~(claimed /\ name \in claim[t])}

(* The copies are made one by one. *)
Upload(s) ==
  LET c == NextCopy(s)
      claimed == NameOf(c) \in claim[s] \ (forced \cup shell[s].override)
  IN  /\ shell[s].phase = "running" /\ shell[s].left # <<>> /\ Head(shell[s].left).verb = "put"
      /\ c.path = "dir/file" => isDir
      /\ server' = [server EXCEPT ![c.path] =
                      [content |-> copy[s], late |-> TooLateFor(NameOf(c), claimed) \ {s}]]
      /\ shell' = [shell EXCEPT ![s].left = Tail(@)]
      /\ UNCHANGED <<isDir, copy, held, base, claim, forced, versions, commands>>

Download(s) ==
  LET c == NextCopy(s)
  IN  /\ shell[s].phase = "running" /\ shell[s].left # <<>> /\ Head(shell[s].left).verb = "get"
      /\ server[c.path].content # Missing
      /\ copy' = [copy EXCEPT ![s] = server[c.path].content]
      /\ held' = [held EXCEPT ![s] = @ \cup {server[c.path].content}]
      /\ shell' = [shell EXCEPT ![s].left = Tail(@)]
      /\ UNCHANGED <<isDir, server, base, claim, forced, versions, commands>>

(* recordFetchBaselines: after a command, the file it wrote is a baseline of
   the names it was fetched by, whether or not every copy was made. *)
CommandEnds(s) ==
  /\ shell[s].phase = "running"
  /\ base' = [base EXCEPT ![s] = RecordedAt(@, RemoteNames(Downloads(shell[s].command)), copy[s])]
  /\ shell' = [shell EXCEPT ![s] = NoRun]
  /\ UNCHANGED <<isDir, server, copy, held, claim, forced, versions, commands>>

-----------------------------------------------------------------------------
(* Around them                                                             *)

(* A claim goes stale or its session ends, not during a command of its own. *)
ClaimEnds(s) ==
  /\ shell[s].phase = "idle"
  /\ claim' = [claim EXCEPT ![s] = {}]
  /\ UNCHANGED <<isDir, forced, server, copy, held, base, shell, versions, commands>>

(* Somebody with no guard deploys. *)
Outsider ==
  /\ versions < MaxVersions
  /\ versions' = versions + 1
  /\ \E p \in RemotePath :
       /\ server[p].content # Missing
       /\ server' = [server EXCEPT ![p] = [content |-> versions', late |-> TooLateFor(<<"", p>>, FALSE)]]
  /\ UNCHANGED <<isDir, copy, held, base, claim, forced, shell, commands>>

DeployNext ==
  \/ \E s \in Deployer :
       \/ Edit(s) \/ ReadOverrides(s) \/ CheckAnswered(s) \/ CheckFails(s)
       \/ Claims(s) \/ ClaimFails(s) \/ Upload(s) \/ Download(s)
       \/ CommandEnds(s) \/ ClaimEnds(s)
  \/ Outsider

DeploySpec == DeployInit /\ [][DeployNext]_deployVars

-----------------------------------------------------------------------------
DeployTypeOK ==
  /\ isDir \in BOOLEAN
  /\ server \in [RemotePath -> [content : Missing .. MaxVersions, late : SUBSET Deployer]]
  /\ copy \in [Deployer -> 0 .. MaxVersions]
  /\ \A s \in Deployer :
       /\ claim[s] \cup shell[s].vouched \subseteq Key
       /\ shell[s].phase \in {"idle", "parsed", "checked", "running"}
       /\ \A k \in Key : Len(base[s][k]) <= KeptBases

(* "refuses when it is none of those" (deploy-guard.ts): an upload whose check
   was answered, and that nobody has overridden, destroys no work its session
   has not had in its hands, unless the work came after the check from
   somebody no claim could stop: an upload without a claim, under another
   spelling, by an override, or between the check and the claim. *)
Destroys(s) ==
  LET c == NextCopy(s)
  IN  /\ shell[s].phase = "running" /\ Len(shell'[s].left) < Len(shell[s].left)
      /\ c.verb = "put"
      /\ NameOf(c) \in shell[s].vouched \ shell[s].override
      /\ server[c.path].content \notin held[s] \cup {Missing}
      /\ s \notin server[c.path].late

NothingUnknownIsDestroyed == [][\A s \in Deployer : ~Destroys(s)]_deployVars
=============================================================================
