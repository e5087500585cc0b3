SPECIFICATION Spec
CONSTANTS
  Calls = {c1, c2}
  Agents = {"gentle-orchestrator", "planner", "build"}
  Tools = {"read", "sandbox_write", "sandbox_finish", "host_git_commit", "host_gate_verdict", "host_review_status"}
  None = None
INVARIANTS TypeOK ReadsRouted
PROPERTIES MutationIsAuthorized OrchestratorStays
SYMMETRY CallSymmetry
