CONSTANTS
    MaxId = 4
    MaxLen = 3
SPECIFICATION AppendSpec
CHECK_DEADLOCK FALSE
INVARIANTS MergeIsAppend SeesWhatBothSee
