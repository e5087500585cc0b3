SPECIFICATION Spec
CONSTANTS
    Sessions = {s1}
    Runs = {r1}
    Slices = {"slice0", "slice1"}
    Reviewers = {"security"}
    Documents = {1, 2, 3, 4}
    Malformed = {2}
    NotWriting = {4}
    Unversioned = {3}
    SliceSizes = {2, 3, 4, 5, 6}
    OutputSizes = {1}
    MaxBytes = 13
    MaxFileBytes = 8
    MaxSliceBytes = 5
    MaxDiffBytes = 5
    MaxPerSession = 1
    MaxRuns = 0
    MaxFaults = 1
    None = None
INVARIANTS TypeOK PublishedComplete SummaryVouched
PROPERTIES RejectedNotPersisted
CHECK_DEADLOCK FALSE
