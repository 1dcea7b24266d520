SPECIFICATION SpecAnyMerge
CONSTANTS
    Replica = {r1, r2, r3}
    Limits = {4}
    Times = {}
    CountRange = 2
    MaxWrites = 2
CHECK_DEADLOCK FALSE
PROPERTY
    MergeCovers
