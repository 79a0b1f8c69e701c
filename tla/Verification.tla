---------------------------- MODULE Verification ----------------------------
(***************************************************************************)
(* How one iteration of the engine is judged: the task registry completes  *)
(* the task (internal/runtime/task_registry.go), the front end chooses the *)
(* verifier, the TaskAwareVerifier chooses the policy (internal/verify/),  *)
(* a built-in or plugin verifier returns a verdict                         *)
(* (internal/domain/verification.go), and the verdict is stored with the   *)
(* step and read back.  Everything here is a function of its arguments.    *)
(*                                                                         *)
(* An observation o has                                                    *)
(*   toolError   the tool reported an error                                *)
(*   response    the final response is not empty                           *)
(*   research    a record with present, concluded, sources, findings       *)
(*   files       a record with present, expectations, results              *)
(*   runs        what each of the three commands does when it is run: an   *)
(*               error or none, and the exit codes of its records          *)
(* "" is a field that is empty after trimming.                             *)
(***************************************************************************)
EXTENDS Naturals, Sequences, FiniteSets, Functions, SequencesExt

-----------------------------------------------------------------------------
(* Verdicts: VerificationResult and its JSON form.                         *)

Verdict(passed, status, reason) ==
  [passed |-> passed, status |-> status, reason |-> reason]

Passed == Verdict(TRUE, "passed", "why")
Failed == Verdict(FALSE, "failed", "why")
NotApplicable == Verdict(FALSE, "not_applicable", "why")

NormalizeVerdict(v) ==
  IF v.status # "" THEN v
  ELSE [v EXCEPT !.status = IF v.passed THEN "passed" ELSE "failed"]

Valid(v) ==
  LET n == NormalizeVerdict(v)
  IN /\ n.reason # ""
     /\ n.status \in {"passed", "failed", "not_applicable"}
     /\ n.passed <=> n.status = "passed"

(* The writer fills in a reason and checks nothing; the reader, which      *)
(* ResumeSession and InspectSession need for every step, does.             *)
MarshalVerdict(v) ==
  LET n == NormalizeVerdict(v)
  IN IF n.reason = "" THEN [n EXCEPT !.reason = "verified"] ELSE n

UnmarshalVerdict(stored) ==
  IF Valid(stored) THEN [ok |-> TRUE, verdict |-> NormalizeVerdict(stored)]
  ELSE [ok |-> FALSE, verdict |-> Failed]

-----------------------------------------------------------------------------
(* The verifiers of the three policies.                                    *)

Commands == 1 .. 3     \* go test, go build, go vet

(* A command counts only with a record, and with its last one.             *)
CommandFails(run) ==
  \/ run.error
  \/ run.codes = <<>>
  \/ Last(run.codes) # 0

CommandVerify(o) ==
  IF \E i \in Commands : CommandFails(o.runs[i]) THEN Failed ELSE Passed

SupportKnown(r, finding) ==
  /\ finding.claimed
  /\ finding.supports # <<>>
  /\ \A k \in DOMAIN finding.supports :
       /\ finding.supports[k] # ""
       /\ \E i \in DOMAIN r.sources : r.sources[i].id = finding.supports[k]

ResearchHoldsWithRepeats(r) ==
  /\ r.concluded /\ r.sources # <<>> /\ r.findings # <<>>
  /\ \A i \in DOMAIN r.sources : r.sources[i].id # "" /\ r.sources[i].located
  /\ \A i \in DOMAIN r.findings : SupportKnown(r, r.findings[i])

(* validateResearchEvidence.                                               *)
ResearchHolds(r) ==
  /\ r.concluded /\ r.sources # <<>> /\ r.findings # <<>>
  /\ \A i \in DOMAIN r.sources :
       /\ r.sources[i].id # ""
       /\ \A j \in 1 .. i - 1 : r.sources[j].id # r.sources[i].id
       /\ r.sources[i].located
  /\ \A i \in DOMAIN r.findings : SupportKnown(r, r.findings[i])

Meets(result, expectation) ==
  /\ result.exists <=> expectation.shouldExist
  /\ ~result.error
  /\ expectation.shouldExist =>
       expectation.required \ {""} \subseteq result.content

(* validateFileWorkflowEvidence: results by path, refused when two have    *)
(* the same, then every expectation against the result of its path.        *)
FilesHold(f) ==
  /\ f.expectations # <<>> /\ f.results # <<>>
  /\ \A i \in DOMAIN f.results :
       /\ f.results[i].path # ""
       /\ \A j \in 1 .. i - 1 : f.results[j].path # f.results[i].path
  /\ \A e \in Range(f.expectations) :
       /\ e.path # ""
       /\ \E i \in DOMAIN f.results :
            f.results[i].path = e.path /\ Meets(f.results[i], e)

EvidenceVerify(o, present, holds) ==
  IF o.toolError THEN Failed
  ELSE IF ~present THEN NotApplicable
  ELSE IF holds THEN Passed ELSE Failed

(* The registries of both kinds build these for the three policies.        *)
BuiltinVerify(policy, o) ==
  CASE policy = "command"      -> CommandVerify(o)
    [] policy = "evidence"     ->
         EvidenceVerify(o, o.research.present, ResearchHolds(o.research))
    [] policy = "state_output" ->
         EvidenceVerify(o, o.files.present, FilesHold(o.files))

-----------------------------------------------------------------------------
(* A verifier that a plugin provides: delegate.does is "missing", "panics",*)
(* "fails" or "answers".                                                   *)

PluginVerifyUnchecked(delegate) ==
  IF delegate.does = "answers" THEN NormalizeVerdict(delegate.verdict) ELSE Failed

(* pluginVerifier.Verify with failClosed.                                  *)
PluginVerify(delegate) ==
  IF delegate.does = "answers" /\ Valid(delegate.verdict)
  THEN NormalizeVerdict(delegate.verdict) ELSE Failed

-----------------------------------------------------------------------------
(* From the task to the policy.                                            *)

Policies == {"command", "evidence", "state_output"}

NormalizeCategory(c) ==
  IF c \in {"coding", "research", "file_workflow"} THEN c ELSE "general"

(* TaskRegistry: the policy of a category, and what Resolve fills in.      *)
CategoryPolicy ==
  [coding |-> "command", research |-> "evidence",
   file_workflow |-> "state_output", general |-> "evidence"]

ResolveTask(task) ==
  LET category == NormalizeCategory(task.category)
  IN [category |-> category,
      policy |-> IF task.policy = "" THEN CategoryPolicy[category] ELSE task.policy]

(* normalizeVerificationPolicy, after lower-casing.                        *)
Aliases ==
  [command |-> {"command", "command_based", "coding", "code", "exec_command"},
   evidence |-> {"evidence", "evidence_based", "research"},
   state_output |-> {"state_output", "state", "output", "checklist",
                     "file_workflow", "file-workflow"}]

NormalizePolicy(raw) ==
  IF \E p \in Policies : raw \in Aliases[p]
  THEN CHOOSE p \in Policies : raw \in Aliases[p] ELSE ""

(* selectPolicy: without the engine's registry a general task would be     *)
(* judged by commands.                                                     *)
SelectPolicy(task) ==
  LET named == NormalizePolicy(task.policy)
      category == NormalizeCategory(task.category)
  IN IF named # "" THEN named
     ELSE IF category = "general" THEN "command" ELSE CategoryPolicy[category]

TaskAwareVerify(task, o) ==
  IF task.policy # "" /\ NormalizePolicy(task.policy) = "" THEN Failed
  ELSE BuiltinVerify(SelectPolicy(task), o)

-----------------------------------------------------------------------------
(* The front ends and the engine.                                          *)

(* NewVerifierFromConfig has no verifier for "off".  The command line puts *)
(* its FakeVerifier in; the server leaves the engine without one, and Run  *)
(* refuses to start.                                                       *)
VerifierOf(front, mode) ==
  IF mode # "off" THEN "task_aware"
  ELSE IF front = "cli" THEN "fake" ELSE "none"

(* verifyIteration.                                                        *)
VerifyIteration(verifier, task, action, o) ==
  IF action = "request_input" THEN NotApplicable
  ELSE IF verifier = "fake" THEN IF o.response THEN Passed ELSE Failed
  ELSE TaskAwareVerify(ResolveTask(task), o)

(* decideIterationOutcome.                                                 *)
Outcome(action, verdict) ==
  IF action = "request_input" THEN "blocked_input"
  ELSE IF verdict.passed THEN "success" ELSE "goes_on"

Iterate(front, mode, task, action, o) ==
  LET verifier == VerifierOf(front, mode)
      verdict == VerifyIteration(verifier, task, action, o)
  IN IF verifier = "none" THEN [outcome |-> "refused", verdict |-> NotApplicable]
     ELSE [outcome |-> Outcome(action, verdict), verdict |-> verdict]

=============================================================================
