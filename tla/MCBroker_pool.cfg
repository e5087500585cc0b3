SPECIFICATION Spec
CONSTANTS
  Session = {s1, s2, s3}
  Reaper = {}
  Edit = {}
  Slots = 1
  QueueMax = 2
  ClientOps = {"ensureWorker", "destroyWorker"}
  Faults = {"create", "remove"}
  MaxCrashes = 0
  HomeSession = {}
  None = None
INVARIANTS TypeOK NoLostWakeup PromisesExact
PROPERTY PoolSpec
SYMMETRY SessionSymmetry
