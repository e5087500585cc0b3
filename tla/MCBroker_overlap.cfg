SPECIFICATION Spec
CONSTANTS
  Session = {s1}
  Reaper = {r1, r2}
  Edit = {}
  Slots = 2
  QueueMax = 1
  ClientOps = {"ensureWorker", "exec", "prepareResult", "applyResult", "keepResult", "discardResult", "destroyWorker"}
  Faults = {"create", "exec", "export", "remove", "apply", "discard"}
  MaxCrashes = 0
  HomeSession = {s1}
  None = None
INVARIANT PoolCountsWorkers
