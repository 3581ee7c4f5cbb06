CONSTANTS
    Loaders = {l1}
    Files = {f1, f2, f3}
    NoFile = NoFile
    Size = 3
    MaxLength = 5
    MaxFaults = 3
SPECIFICATION Spec
INVARIANTS
    DownloadTypeOK
    DoneMeansWhole
PROPERTIES
    FullNameIsNeverHalfAFile
    PartialIsKept
    ModelArrives
CHECK_DEADLOCK FALSE
