SPECIFICATION Spec
CONSTANTS
  Writers = {"planner", "pm-odd", "pm-systematic"}
  Targets = {"tasks", "mini", "todo"}
  Tasks = {"T1", "T2"}
  MaxRevs = 3
  MaxGates = 2
  MaxTicks = 2
  None = None
INVARIANTS TypeOK
PROPERTIES TickIsGated RevisionsCount AppendsKept
