CONSTANTS
    Loaders = {l1, l2}
    Files = {f1, f2, f3}
    NoFile = NoFile
    Size = 2
    MaxLength = 3
    MaxFaults = 0
SPECIFICATION Spec
PROPERTY FullNameIsNeverHalfAFile
CHECK_DEADLOCK FALSE
