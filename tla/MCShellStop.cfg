CONSTANTS
    a1 = a1
    a2 = a2
    selftest = selftest
    Asks <- MCAsks
    Questions <- MCQuestions
    Test = selftest
    Models = {m1}
    NoOne = NoOne
    Timers = {t1}
    TestRounds = 1
    MaxPid = 2
SPECIFICATION Spec
PROPERTY StopRaisesTheFlag
CHECK_DEADLOCK FALSE
