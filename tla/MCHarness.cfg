CONSTANTS
    Questions = {q1, q2}
    Models = {m1}
    NoOne = NoOne
    MaxPid = 3
SPECIFICATION Spec
INVARIANTS
    HarnessTypeOK
    NoStrayServer
    SlotNamesTheAnsweringModel
    FoundIsCurrent
PROPERTIES
    KeepsThePromise
    EndsWithNothingRunning
CHECK_DEADLOCK FALSE
