----------------------------- MODULE Decisions ------------------------------
(***************************************************************************)
(* The decisions of the program that need no state of their own, asked one *)
(* at a time: a question from a finite set and the answer of the code.     *)
(* The properties compare the answers with what they should mean, which is *)
(* written here without a look at how the code finds them.                 *)
(*                                                                         *)
(* A question is a pair of a kind and a record, an answer the same with    *)
(* the result, <<>> as long as it is not given.                            *)
(***************************************************************************)
EXTENDS Registries, ConfigLoad, ToolCalls

CONSTANTS
  Iterations,      \* records with front, mode, task, action, o
  Delegates,       \* what the verifier of a plugin may do
  Merges,          \* pairs of sequences of metadata: two runs of a session
  Loads,           \* records with path, disk, env, flags, first
  Requests,        \* sequences of registrations of verifiers
  Strategies,      \* records with requests and id
  Calls,           \* records with policy and call
  Plugins          \* records with policy, directory and targets

(* Evidence comes as JSON arrays.                                          *)
ASSUME IterationsAssumption ==
  \A q \in Iterations : /\ DOMAIN q.o.research.sources \subseteq Nat \ {0}
                        /\ DOMAIN q.o.files.results \subseteq Nat \ {0}

ASSUME DelegatesAssumption ==
  \A d \in Delegates : d.verdict \in [passed : BOOLEAN, status : STRING, reason : STRING]

(* Registrations and metadata come one after the other.                    *)
ASSUME SequencesAssumption ==
  /\ \A q \in Merges : q[1] \in Seq(Range(q[1])) /\ q[2] \in Seq(Range(q[2]))
  /\ \A q \in Requests : q \in Seq(Range(q))
  /\ \A q \in Strategies : q.requests \in Seq(Range(q.requests))

(* A limit is a number.  The providers of a file have names, and the model *)
(* of the flags shows where it comes from.                                 *)
ASSUME LoadsAssumption ==
  \A q \in Loads :
    /\ q.flags.limit # ""
    /\ \A place \in DOMAIN q.disk :
         /\ q.disk[place].limit # "" /\ q.disk[place].oldLimit # ""
         /\ "" \notin DOMAIN q.disk[place].providers
    /\ Given(q.flags.model) =>
         /\ q.flags.model # "builtin" /\ q.flags.model # q.env.model
         /\ \A place \in DOMAIN q.disk :
              /\ q.flags.model # q.disk[place].model
              /\ \A p \in DOMAIN q.disk[place].providers : q.flags.model # FileModel(p)

(* Paths have names as components, and that of the workspace is clean: the *)
(* executor makes it absolute, and allows what lies below it.              *)
WorkspaceIsClean(policy) ==
  policy.workspace \in Seq(STRING) /\ Clean(policy.workspace) = policy.workspace

ASSUME CallsAssumption ==
  \A q \in Calls :
    /\ WorkspaceIsClean(q.policy) /\ q.policy.roots = {[from |-> "workspace", path |-> <<>>]}
    /\ q.call.path \in Seq(STRING)

(* A blank reference to a plugin is skipped, and the directory of plugins  *)
(* is written without dots, "." being the empty path.                      *)
Places == [from : {"root", "workspace"}, path : Seq(STRING)]

ASSUME PluginsAssumption ==
  \A q \in Plugins :
    /\ WorkspaceIsClean(q.policy) /\ q.policy.pluginRoots \subseteq Places
    /\ q.directory \in Places
    /\ q.targets \in Seq([from : {"root", "workspace", "directory", "search"},
                          path : Seq(STRING), major : Nat, capabilities : SUBSET STRING,
                          name : STRING])

VARIABLES question, answer

decisionVars == <<question, answer>>

DecisionInit ==
  /\ answer = <<>>
  /\ \/ \E q \in Iterations : question = <<"iteration", q>>
     \/ \E q \in Delegates  : question = <<"delegate", q>>
     \/ \E q \in Merges     : question = <<"merge", q>>
     \/ \E q \in Loads      : question = <<"load", q>>
     \/ \E q \in Requests   : question = <<"verifiers", q>>
     \/ \E q \in Strategies : question = <<"strategy", q>>
     \/ \E q \in Calls      : question = <<"call", q>>
     \/ \E q \in Plugins    : question = <<"plugins", q>>

Asked(kind) == answer = <<>> /\ question[1] = kind

Answer(result) == answer' = <<question[1], result>> /\ UNCHANGED question

Answered(kind) == answer # <<>> /\ question[1] = kind

Q == question[2]
A == answer[2]

JudgeIteration ==
  /\ Asked("iteration")
  /\ Answer(Iterate(Q.front, Q.mode, Q.task, Q.action, Q.o))

(* A plugin's verdict on its way into the store and back.                  *)
StoreVerdict ==
  /\ Asked("delegate")
  /\ LET verdict == PluginVerify(Q)
     IN Answer([given |-> verdict, read |-> UnmarshalVerdict(MarshalVerdict(verdict))])

(* Two runs of a session, each of which collects its plugins and saves.    *)
StoreProvenance ==
  /\ Asked("merge")
  /\ Answer(MergeStored(MergeStored(NoProvenance, AllMerged(Q[1])), AllMerged(Q[2])))

LoadConfig ==
  /\ Asked("load")
  /\ Answer(Load(Q.path, Q.disk, Q.env, Q.flags, Q.first))

RegisterVerifiers ==
  /\ Asked("verifiers")
  /\ Answer(RegisteredAfter(NewVerifierRegistry, Q))

ChooseStrategy ==
  /\ Asked("strategy")
  /\ Answer(ResolveStrategy(StrategiesOf(Q.requests), Q.id))

ExecuteCall ==
  /\ Asked("call")
  /\ Answer(Execute(Q.policy, Q.call))

LoadPlugins ==
  /\ Asked("plugins")
  /\ Answer(BuildPluginExecutor(Q.policy, Q.directory, Q.targets))

DecisionNext ==
  \/ JudgeIteration \/ StoreVerdict \/ StoreProvenance \/ LoadConfig
  \/ RegisterVerifiers \/ ChooseStrategy \/ ExecuteCall \/ LoadPlugins

DecisionSpec == DecisionInit /\ [][DecisionNext]_decisionVars

-----------------------------------------------------------------------------
(* What evidence is worth.                                                 *)

CommandsSucceeded(o) ==
  \A i \in Commands :
    ~o.runs[i].error /\ o.runs[i].codes # <<>> /\ Last(o.runs[i].codes) = 0

(* Every claim rests on sources that are each named once and can be found. *)
ClaimsAreBacked(r) ==
  /\ r.present /\ r.concluded /\ r.findings # <<>>
  /\ \A finding \in Range(r.findings) :
       /\ finding.supports # <<>>
       /\ \A id \in Range(finding.supports) :
            /\ Cardinality({i \in DOMAIN r.sources : r.sources[i].id = id}) = 1
            /\ \A source \in Range(r.sources) : source.id = id => source.located

(* Every expected file has one result, which is as expected.               *)
FilesAreAsExpected(f) ==
  /\ f.present /\ f.expectations # <<>>
  /\ \A e \in Range(f.expectations) :
       LET here == {i \in DOMAIN f.results : f.results[i].path = e.path}
       IN /\ Cardinality(here) = 1
          /\ \A i \in here :
               /\ ~f.results[i].error /\ (f.results[i].exists <=> e.shouldExist)
               /\ e.shouldExist => e.required \ {""} \subseteq f.results[i].content

(* What README.md promises for a task type, unless the task names a policy.*)
Promised(task) ==
  IF task.policy = "" THEN
    CASE task.category = "coding"        -> "commands"
      [] task.category = "file_workflow" -> "files"
      [] OTHER                           -> "claims"
  ELSE
    CASE task.policy \in Aliases.command      -> "commands"
      [] task.policy \in Aliases.evidence     -> "claims"
      [] task.policy \in Aliases.state_output -> "files"
      [] OTHER                                -> "nothing passes"

(* A session succeeds only on an iteration whose evidence is of the kind   *)
(* that the task asks for, and holds; with verification off, which only    *)
(* the command line can run, on a final response.  A policy that nobody    *)
(* knows lets nothing pass.  (runtime.go verifyIteration, verify/*.go)     *)
SuccessIsEarned ==
  Answered("iteration") /\ A.outcome = "success" =>
    /\ Q.action # "request_input"
    /\ IF Q.mode = "off" THEN Q.front = "cli" /\ Q.o.response
       ELSE CASE Promised(Q.task) = "commands" -> CommandsSucceeded(Q.o)
              [] Promised(Q.task) = "claims"   -> ClaimsAreBacked(Q.o.research)
              [] Promised(Q.task) = "files"    -> FilesAreAsExpected(Q.o.files)
              [] OTHER                         -> FALSE

(* Whatever a plugin does, the step with its verdict can be read back as   *)
(* it was, and what it did not properly pass has not passed: otherwise the *)
(* session could neither be inspected nor resumed.                         *)
(* (verify/registry.go pluginVerifier, domain/verification.go)             *)
VerdictsReadBack ==
  Answered("delegate") =>
    /\ A.read.ok /\ A.read.verdict = A.given
    /\ A.given.passed => Q.does = "answers" /\ Q.verdict.passed

(* The first valid metadata with its key.                                  *)
IsFirstMet(met, j) ==
  /\ MetadataValid(met[j])
  /\ \A k \in 1 .. j - 1 : MetadataValid(met[k]) => ~SameKey(met[k], met[j])

(* The provenance of two runs, stored one after the other, has every plugin*)
(* that either of them met with valid metadata, and has it as it was when  *)
(* it was met first: a later version neither replaces the entry nor stands *)
(* beside it, for one duplicate would lose them all.                       *)
(* (runtime.go mergeProvenance, store/provenance.go)                       *)
ProvenanceKeepsTheFirst ==
  Answered("merge") =>
    LET met == Q[1] \o Q[2]
    IN /\ ProvenanceValid(A)
       /\ \A j \in DOMAIN met : MetadataValid(met[j]) => HasKey(A, met[j])
       /\ \A i \in DOMAIN A : \E j \in DOMAIN met : A[i] = met[j] /\ IsFirstMet(met, j)

(* What one run stores the next one can load, as it was: verdicts and      *)
(* provenance.  (domain/verification.go, store/provenance.go)              *)
StoredFormsLoad == VerdictsReadBack /\ ProvenanceKeepsTheFirst

(* The last of the values that is given.                                   *)
LastGiven(values, n) ==
  /\ Given(values[n])
  /\ \A k \in n + 1 .. Len(values) : ~Given(values[k])

Chosen(source) == IF Given(source.plugin) THEN source.plugin ELSE source.provider

NoFile == [plugin |-> None, provider |-> None, providers |-> <<>>,
           model |-> None, limit |-> None, oldLimit |-> None]

(* The provider, the model and the limits of a configuration that loads    *)
(* are those of the last source in the order default, file, environment,   *)
(* flags that names one, and no provider gets a setting meant for another: *)
(* an override reaches only the provider selected when it is read.  Two    *)
(* selections are not followed: the plugin of a file, unless it is listed  *)
(* under that very name and no blank provider comes with it, and whatever  *)
(* came before a blank --provider or --plugin-provider flag, which goes    *)
(* back to the default provider, and leaves --model without effect.        *)
(* (config.go Load, applyEnv, loadFromFile)                                *)
LoadRespectsPrecedence ==
  Answered("load") /\ A.ok =>
    LET c == A.config
        where == ConfigFile(Q.path, Q.disk)
        file == IF where = None THEN NoFile ELSE Q.disk[where]
        sources == <<file, Q.env, Q.flags>>
        chosen == <<Chosen(file), Chosen(Q.env), Chosen(Q.flags)>>
        limits == <<"builtin", file.limit, file.oldLimit, Q.env.limit, Q.flags.limit>>
        followed == Given(file.plugin) =>
                      file.plugin \in DOMAIN file.providers /\ file.provider # ""
        back == "" \in {Q.flags.provider, Q.flags.plugin}
    IN /\ \A n \in 1 .. 5 : LastGiven(limits, n) => c.limit = limits[n]
       /\ back => c.provider = Lower(c.default) /\ c.plugin = ""
       /\ \A n \in 1 .. 3 : LastGiven(chosen, n) /\ (n > 1 \/ followed) /\ ~back =>
            /\ c.provider = Lower(chosen[n])
            /\ c.plugin # "" <=> Given(sources[n].plugin)
       /\ c.plugin # "" <=> c.providers[c.provider].type = "plugin"
       /\ Given(Q.flags.model) /\ ~back => c.providers[c.provider].model = Q.flags.model
       /\ \A p \in DOMAIN c.providers :
            /\ c.providers[p].model \in {"", "builtin", FileModel(p)}
                 \cup {file.model, Q.env.model, Q.flags.model}
            /\ p # c.provider /\ Given(Q.flags.model) =>
                 c.providers[p].model # Q.flags.model

(* A request that the host accepts as a plugin's verifier of the policy.   *)
Binds(request, p) ==
  /\ request.via = "contract"
  /\ NormalizePolicy(request.policy) = p
  /\ ContractAccepted(request.metadata, "verifier")

(* After any sequence of registrations a policy has the verifier of the    *)
(* first contract that the host accepted for it, whatever name the contract*)
(* gave it and whatever else was asked for before or after, and the        *)
(* built-in one as long as there is none: a plugin goes before the built-in*)
(* verifier, a later plugin never before an earlier.  A strategy that is   *)
(* chosen is the one that first claimed the id, host_default like any      *)
(* other, and the host accepts it.  docs/ADR-008-v3-extensibility.md:104-108*)
(* has it that neither a built-in verifier nor host_default can be taken:  *)
(* the code never compares a plugin with the built-ins, and this property  *)
(* is about the order among those that claim the same.  (verify/registry.go*)
(* RegisterPlugin, resolveDescriptor, plugin/registry.go,                  *)
(* agent_strategy.go Register, Resolve)                                    *)
BindingsStand ==
  /\ Answered("verifiers") =>
       \A n \in DOMAIN A : \A p \in Policies :
         \/ /\ \A k \in 1 .. n : ~Binds(Q[k], p)
            /\ ResolveVerifier(A[n], p) = [by |-> "builtin", id |-> p]
         \/ \E k \in 1 .. n :
              /\ Binds(Q[k], p) /\ \A j \in 1 .. k - 1 : ~Binds(Q[j], p)
              /\ ResolveVerifier(A[n], p) = [by |-> "plugin", id |-> Q[k].metadata.id]
  /\ Answered("strategy") /\ A # "" =>
       /\ A = (IF Q.id = "" THEN HostDefault ELSE Q.id)
       /\ \A k \in DOMAIN Q.requests :
            Q.requests[k].id = A /\ (\A j \in 1 .. k - 1 : Q.requests[j].id # A) =>
              /\ Q.requests[k].metadata.id = A
              /\ ContractAccepted(Q.requests[k].metadata, "agent_strategy")

FileTools == {"read_file", "list_dir", "write_file", "edit_file"}

(* A file tool that runs works on a path in the workspace, however the path*)
(* goes up and down: policy and adapter take it, an absolute one as well,  *)
(* to start there.  This is about the names in the path, which is all that *)
(* the code looks at; where a symbolic link leads the model does not say.  *)
(* (tools/safety.go validatePathPayload, adapters/files.go resolve)        *)
FilesStayInWorkspace ==
  Answered("call") /\ A.runs /\ Q.call.tool \in FileTools =>
    IsPrefix(Q.policy.workspace, Walk(Q.policy.workspace, Q.call.path))

(* The plugins of a host load together or not at all, under names of their *)
(* own that hide no tool of the host, declare only what the configuration  *)
(* allows, and those that are named by a path relative to the workspace lie*)
(* in a directory that it allows.  It says nothing of where an absolute    *)
(* path or a name that the system looks up leads: the check takes both to  *)
(* lie below the workspace, and the program is started as it is named.     *)
(* (runtimebuilder/builder.go buildPluginExecutor, tools/safety.go)        *)
PluginsLoadTogether ==
  Answered("plugins") /\ A # {} =>
    /\ Cardinality({t.name : t \in A}) = Len(Q.targets)
    /\ \A t \in A :
         LET named == t.from = "directory"
             path == IF named THEN Q.directory.path \o t.path ELSE t.path
             relative == IF named THEN Q.directory.from = "workspace" /\ Q.directory.path # <<>>
                         ELSE t.from = "workspace"
         IN /\ t.name \notin DOMAIN Tools
            /\ Q.policy.capabilities # {} => t.capabilities \subseteq Q.policy.capabilities
            /\ relative /\ Q.policy.pluginRoots # {} =>
                 \E root \in Q.policy.pluginRoots :
                   Below(Placed(Q.policy, root), Walk(Q.policy.workspace, path))

(* The checks of the policy keep files in the workspace, and let plugins   *)
(* through together or not at all, those named by a path relative to the   *)
(* workspace from allowed directories alone: see the two parts.            *)
(* (tools/safety.go, runtimebuilder/builder.go)                            *)
CallsStayInBounds == FilesStayInWorkspace /\ PluginsLoadTogether

=============================================================================
