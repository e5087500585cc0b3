SPECIFICATION Spec
CONSTANTS
  Session = {s1}
  Reaper = {r1}
  Edit = {e1}
  Slots = 1
  QueueMax = 1
  ClientOps = {"ensureWorker", "exec", "execCommit", "prepareResult", "applyResult", "keepResult", "discardResult", "destroyWorker"}
  Faults = {"create", "exec", "export", "remove", "apply", "discard"}
  MaxCrashes = 1
  HomeSession = {s1}
  None = None
INVARIANTS CreationOwnsRecord VMIsOwned ReapKeepsDirty
PROPERTY FinishExportsAll
