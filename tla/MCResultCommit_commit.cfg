SPECIFICATION Spec
CONSTANTS
  Caller = {c1, c2}
  Owner = o1
  MaxResult = 2
  MaxHistory = 3
  MaxCrashes = 1
  CallerOps = {"install", "commit", "clear"}
  OwnerOps = {"finish", "apply", "keep", "discard"}
  UserOps = {"edit", "commit"}
  Faults = {"read", "write", "commit"}
SYMMETRY Symmetry
INVARIANTS TypeOK RecordedIsTheCommit IntentNamesCommit
PROPERTIES NoSecondCommit
