----------------------------- MODULE ToolCalls ------------------------------
(***************************************************************************)
(* The tool executor (internal/tools/executor.go, registry.go) and its     *)
(* safety policy (safety.go): which call runs, in which bounds, and for    *)
(* how long at most.                                                       *)
(*                                                                         *)
(* A path is the sequence of its components; the workspace is a path too.  *)
(* A place is a path with where it is from: the root of the file system    *)
(* ("root"), or the workspace, where the program runs ("workspace").       *)
(* A call has tool, path, command (its words, "&&" for any operator that   *)
(* chains commands), host, and timeout; names are compared as the code     *)
(* does after lowering the case.                                           *)
(***************************************************************************)
EXTENDS Naturals, Sequences, FiniteSets, SequencesExt

DefaultAllowed == {"go", "git", "ls"}
Denied == {"rm"}

(* buildAllowedCommands: the configured list replaces the default one, what*)
(* the command line adds comes on top.                                     *)
AllowedCommands(configured, extra) ==
  ((IF configured # {} THEN configured ELSE DefaultAllowed) \cup extra) \ {""}

NewPolicy(workspace, configured, extra) ==
  [workspace |-> workspace, commands |-> AllowedCommands(configured, extra),
   hosts |-> {}, roots |-> {[from |-> "workspace", path |-> <<>>]},
   pluginRoots |-> {}, capabilities |-> {}]

(* builtinDefinitions, with the default timeouts in seconds; glob,         *)
(* code_search and ask_user are not looked at by the policy.               *)
Tools ==
  [list_dir |-> 5, read_file |-> 5, grep_search |-> 5, write_file |-> 5,
   edit_file |-> 5, glob |-> 5, code_search |-> 10, ask_user |-> 300,
   web_fetch |-> 15, exec_command |-> 10]

-----------------------------------------------------------------------------
(* filepath.Clean of an absolute path: ".." takes the last component away, *)
(* and nothing at the top.                                                 *)
Step(done, component) ==
  CASE component = "."  -> done
    [] component = ".." -> IF done = <<>> THEN <<>> ELSE Front(done)
    [] OTHER            -> Append(done, component)

Walk(from, path) ==
  LET at[n \in 0 .. Len(path)] == IF n = 0 THEN from ELSE Step(at[n - 1], path[n])
  IN  at[Len(path)]

Clean(path) == Walk(<<>>, path)

(* resolveRoots: an absolute place stays where it is.                      *)
Placed(policy, place) ==
  Clean(IF place.from = "root" THEN place.path ELSE policy.workspace \o place.path)

(* The root itself, or below it component by component; the code finds     *)
(* nothing below "/".                                                      *)
Below(root, path) == path = root \/ (root # <<>> /\ IsPrefix(root, path))

PathAllowedUnclean(policy, path, roots) ==
  /\ path # <<>>
  /\ \E root \in roots : Below(Placed(policy, root), policy.workspace \o path)

(* validatePathPayload takes every path, an absolute one as well, to lie   *)
(* below the workspace.                                                    *)
PathAllowed(policy, path, roots) ==
  /\ path # <<>>
  /\ \E root \in roots : Below(Placed(policy, root), Clean(policy.workspace \o path))

(* validateCommand looks at the whole line for operators and at the first  *)
(* word for the program.                                                   *)
CommandAllowed(policy, words) ==
  /\ words # <<>>
  /\ \A i \in DOMAIN words : words[i] # "&&"
  /\ words[1] \in policy.commands
  /\ words[1] \notin Denied

HostAllowed(policy, host) ==
  /\ host # ""
  /\ policy.hosts = {} \/ host \in policy.hosts

(* SafetyPolicy.Validate.                                                  *)
CallAllowed(policy, call) ==
  /\ policy.workspace # <<>>
  /\ CASE call.tool \in {"read_file", "list_dir", "grep_search", "write_file", "edit_file"} ->
            PathAllowed(policy, call.path, policy.roots)
       [] call.tool = "web_fetch"    -> HostAllowed(policy, call.host)
       [] call.tool = "exec_command" -> CommandAllowed(policy, call.command)
       [] OTHER                      -> TRUE

(* Executor.Execute: the deadline is never later than the one of the call. *)
Execute(policy, call) ==
  IF call.tool \notin DOMAIN Tools \/ ~CallAllowed(policy, call)
  THEN [runs |-> FALSE, deadline |-> 0]
  ELSE [runs |-> TRUE,
        deadline |-> IF call.timeout > 0 THEN call.timeout ELSE Tools[call.tool]]

-----------------------------------------------------------------------------
(* Plugins: where they may lie, and what they may declare.  A target has   *)
(* from, path, major, capabilities and name.  It is from the root or the   *)
(* workspace when its reference is a path; a bare name is looked for in the*)
(* directory of plugins ("directory"), but one with an extension is        *)
(* executed by its name, which the system looks up ("search").             *)

PluginPathAllowed(policy, path) ==
  \/ policy.pluginRoots = {}
  \/ policy.workspace # <<>> /\ PathAllowed(policy, path, policy.pluginRoots)

CapabilitiesAllowed(policy, declared) ==
  \/ policy.capabilities = {}
  \/ /\ declared # {}
     /\ declared \subseteq policy.capabilities \ {""}

HostMajor == 1

(* ResolvePluginTargets for one reference.  In "." a bare name stays one.  *)
ResolvePluginTarget(directory, target) ==
  IF target.from # "directory" THEN [from |-> target.from, path |-> target.path]
  ELSE [from |-> IF directory.from = "workspace" /\ directory.path = <<>> THEN "search"
                 ELSE directory.from,
        path |-> directory.path \o target.path]

(* PluginManager.Load and Registry.Register for one target, after those    *)
(* whose names are registered.  The path is checked as if it lay below the *)
(* workspace, and then executed as it is.                                  *)
Loadable(policy, place, target, registered) ==
  /\ PluginPathAllowed(policy, place.path)
  /\ target.major = HostMajor
  /\ CapabilitiesAllowed(policy, target.capabilities)
  /\ target.name \notin registered

(* buildPluginExecutor: one that cannot be loaded refuses them all.        *)
BuildPluginExecutor(policy, directory, targets) ==
  LET Before(i) == DOMAIN Tools \cup {targets[j].name : j \in 1 .. i - 1}
  IN IF \A i \in DOMAIN targets :
          Loadable(policy, ResolvePluginTarget(directory, targets[i]), targets[i], Before(i))
     THEN {targets[i] : i \in DOMAIN targets} ELSE {}

=============================================================================
