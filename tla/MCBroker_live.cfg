SPECIFICATION FairSpec
CONSTANTS
  Session = {s1}
  Reaper = {r1}
  Edit = {}
  Slots = 1
  QueueMax = 1
  ClientOps = {"ensureWorker", "prepareResult", "keepResult", "destroyWorker"}
  Faults = {"create", "export", "remove"}
  MaxCrashes = 0
  HomeSession = {}
  None = None
PROPERTIES LockReleased LeftoverReleased
