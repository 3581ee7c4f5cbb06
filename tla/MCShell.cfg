CONSTANTS
    a1 = a1
    a2 = a2
    selftest = selftest
    Asks <- MCAsks
    Questions <- MCQuestions
    Test = selftest
    Models = {m1, m2}
    NoOne = NoOne
    Timers = {t1}
    TestRounds = 2
    MaxPid = 2
SPECIFICATION Spec
INVARIANTS
    ShellTypeOK
    OnlyTheHolderIsInside
    OneAnswerAtATime
    FlagDownInside
    NoStrayServer
    SlotNamesTheAnsweringModel
    NoSessionNoServers
PROPERTIES
    StopSparesTheSearchModel
    EveryAskReturns
CHECK_DEADLOCK FALSE
