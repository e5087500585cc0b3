SPECIFICATION Spec
CONSTANTS
    Calls = {c1, c2, c3}
    HostCalls = {h1, h2}
    Tools = {"sandbox_write", "sandbox_edit", "sandbox_apply_patch", "sandbox_bash", "sandbox_finish", "sandbox_discard", "sandbox_apply", "sandbox_copy_out", "sandbox_copy_in", "host_sandbox_result_install", "host_review_pipeline_run", "host_review_persist"}
    MaxLines = 1
    None = None
SYMMETRY Symmetry
INVARIANTS TypeOK  LandedAsApproved
CHECK_DEADLOCK FALSE
