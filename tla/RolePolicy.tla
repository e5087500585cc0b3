----------------------------- MODULE RolePolicy -----------------------------
(***************************************************************************)
(* The broker's tables of authority, as functions of an identity: the      *)
(* roles and capabilities of broker/src/role-policy.ts, the host tool      *)
(* policy of broker/src/validation.ts, and authorizeHostDispatch of        *)
(* broker/src/service.ts, which decides on the recorded identity alone.    *)
(***************************************************************************)
CONSTANT None   \* no identity, no class

ReadOnlyAgents == {"gentle-orchestrator", "pm-odd", "pm-systematic", "pm-sdd",
                   "pm-odd-astra", "pm-systematic-astra"}

Roles == {"general", "researcher", "worker", "advisor", "solver", "challenger",
          "judge", "fresh_eyes", "planner", "pm"}

ASSUME NoneAssumption == None \notin ReadOnlyAgents \cup Roles \cup {"fresh-eyes"}

normalizeRoleKey(a) ==
    CASE a = "fresh-eyes"                  -> "fresh_eyes"
      [] a \in {"pm-odd", "pm-systematic"} -> "pm"
      [] OTHER                             -> a

MutationClasses == {"MUTATE_PROJECT", "HOST_APPROVED_MUTATION", "EXECUTE_PROJECT",
                    "TEST_EXECUTION", "SECURITY_MUTATION", "HOST_ADMIN_STRUCTURED"}

----------------------------------------------------------------------------
(* The host_* tools of the plugin and the broker operation behind each: the *)
(* one it asks for last.  An install and a persist make a read request      *)
(* before their question.  The legacy host_sdd_* tools are left out.        *)

ReadHostTools ==
    [host_sandbox_result |-> "sandboxResult", host_review_assess |-> "reviewAssess",
     host_review_mode_status |-> "reviewModeStatus", host_review_status |-> "reviewStatus",
     host_review_lens_context |-> "reviewLensContext",
     host_review_diff_read |-> "reviewDiffRead"]

RunTools ==
    [host_review_materialize |-> "reviewMaterialize",
     host_review_pipeline_run |-> "reviewPipelineRun", host_review_persist |-> "reviewPersist"]

GitTools ==
    [host_sandbox_result_install |-> "sandboxResultInstall", host_git_commit |-> "gitCommit",
     host_git_clear_commit_intent |-> "gitClearCommitIntent", host_git_push |-> "gitPush",
     host_gh_issue_create |-> "ghIssueCreate", host_register_project |-> "registerProject"]

PlanTools ==
    [host_test_run |-> "testRun", host_plan_write |-> "planDocWrite",
     host_task_mark |-> "taskMark", host_gate_verdict |-> "gateVerdict",
     host_plan_append |-> "planDocAppend"]

CaptureTools ==
    [host_review_start |-> "reviewStart", host_review_capture_result |-> "reviewCaptureResult",
     host_review_capture_unachievable |-> "reviewCaptureUnachievable",
     host_review_acknowledge_approved |-> "reviewAcknowledgeApproved",
     host_review_capture_correction_plan |-> "reviewCaptureCorrectionPlan",
     host_review_capture_refuter |-> "reviewCaptureRefuter",
     host_review_capture_validation |-> "reviewCaptureValidation",
     host_review_validate |-> "reviewValidate", host_review_recover |-> "reviewRecover"]

HostTables == {ReadHostTools, RunTools, GitTools, PlanTools, CaptureTools}
HostTools == UNION {DOMAIN table : table \in HostTables}
Operation == [t \in HostTools |-> (CHOOSE table \in HostTables : t \in DOMAIN table)[t]]

\* HOST_READ_OPERATIONS and HOST_MUTATION_OPERATIONS, as far as the tools above
\* reach them; testRun is in neither.
HostReads == {ReadHostTools[t] : t \in DOMAIN ReadHostTools} \cup {"reviewPersistPreflight"}
HostMutations == {Operation[t] : t \in HostTools} \ (HostReads \cup {"testRun"})

\* TOOL_CLASSIFICATION_INVENTORY: the host tools, and for the other tools one
\* or more of each class; a tool that is not listed has no class.
classifyOperation(t) ==
    CASE t \in DOMAIN ReadHostTools \cup {"host_review_materialize"} -> "HOST_READ_STRUCTURED"
      [] t = "host_test_run"      -> "TEST_EXECUTION"
      [] t \in HostTools \ (DOMAIN ReadHostTools \cup {"host_review_materialize", "host_test_run"})
                                  -> "HOST_APPROVED_MUTATION"
      [] t = "bash"               -> "HOST_ADMIN_STRUCTURED"
      [] t = "gitCommit"          -> "MUTATE_PROJECT"
      [] t = "exec"               -> "EXECUTE_PROJECT"
      [] t = "webfetch"           -> "RESEARCH_EXTERNAL"
      [] t = "ast_grep_search"    -> "READ_PROJECT"
      [] t = "question"           -> "CONSULT"
      [] t = "task"               -> "DELIBERATE"
      [] OTHER                    -> None

----------------------------------------------------------------------------
(* Capabilities, and the decision on a recorded identity. *)

\* The capabilities a role has; HOST_READ_STRUCTURED is decided apart.
ROLE_CAPABILITY_MATRIX(role) ==
    {cap \in {"READ_PROJECT", "RESEARCH_EXTERNAL", "MUTATE_PROJECT",
              "HOST_APPROVED_MUTATION", "EXECUTE_PROJECT", "CONSULT", "DELIBERATE"} :
       CASE cap = "READ_PROJECT" ->
              role \in {"general", "researcher", "worker", "planner", "pm"}
         [] cap = "RESEARCH_EXTERNAL" -> role \in {"researcher", "advisor", "planner"}
         [] cap \in {"MUTATE_PROJECT", "EXECUTE_PROJECT"} -> role = "worker"
         [] cap = "HOST_APPROVED_MUTATION" -> role \in {"planner", "pm"}
         [] cap = "CONSULT" ->
              role \notin {"solver", "challenger", "judge", "fresh_eyes"}
         [] cap = "DELIBERATE" -> role # "advisor"}

OrchestratorDenied == {"MUTATE_PROJECT", "EXECUTE_PROJECT", "SECURITY_MUTATION",
                       "HOST_ADMIN_STRUCTURED"}

\* decide.  The location is the record's project, which ensureWorker sets.
decide(r, cap) ==
    LET role == normalizeRoleKey(r.agent)
    IN IF r.agent \in ReadOnlyAgents THEN cap \notin OrchestratorDenied
       ELSE /\ role \in Roles
            /\ cap \notin {"SECURITY_MUTATION", "HOST_ADMIN_STRUCTURED"}
            /\ cap \in {"MUTATE_PROJECT", "EXECUTE_PROJECT"} => r.entered
            /\ IF cap = "HOST_READ_STRUCTURED"
               THEN role \in {"researcher", "general"} /\ r.state = "HOST_READ_ONLY"
               ELSE cap \in ROLE_CAPABILITY_MATRIX(role)

\* buildToolAdmissionOp.
toolAdmission(r, t) ==
    LET cap == classifyOperation(t)
    IN /\ cap # None
       /\ IF r.agent = None
          THEN /\ cap \notin MutationClasses
               /\ cap = "HOST_READ_STRUCTURED" => r.state = "HOST_READ_ONLY"
          ELSE decide(r, cap)

\* HOST_MUTATION_IDENTITY_OPERATIONS, for the agents of readOnlyAgents.
IdentityOperations(a) ==
    HostMutations \ {IF a = "gentle-orchestrator" THEN "taskMark" ELSE "registerProject"}

\* authorizeHostDispatch: reads are open; the plan operations are decided in
\* the plan-writer category; testRun has its own check of the same record.
authorizeHostDispatch(op, trusted) ==
    LET planRole == normalizeRoleKey(trusted) \in {"planner", "pm"}
    IN CASE op \in HostReads -> TRUE
         [] op = "planDocWrite" -> planRole \/ trusted \in ReadOnlyAgents
         [] op = "gateVerdict"  -> planRole
         [] op = "taskMark"     -> normalizeRoleKey(trusted) = "pm"
         [] op = "testRun"      -> trusted \in ReadOnlyAgents
         [] OTHER -> trusted \in ReadOnlyAgents /\ op \in IdentityOperations(trusted)

\* HostMutationOperation: the mutations a human is asked about first, and
\* gitClearCommitIntent, whose tool asks without a builder.
AskingTools ==
    {t \in HostTools : Operation[t] \in HostMutations \
       {"planDocWrite", "taskMark", "gateVerdict", "reviewMaterialize", "reviewPipelineRun"}}

\* assertBindableAgent.
Bindable(a) == a \in ReadOnlyAgents \/ normalizeRoleKey(a) \in Roles

=============================================================================
