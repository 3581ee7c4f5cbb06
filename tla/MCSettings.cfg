CONSTANTS
    ask = ask
    selftest = selftest
    standard = standard
    smaller = smaller
    Workers <- MCWorkers
    Test = selftest
    Main = Main
    Models <- MCModels
    Needs <- MCNeeds
    Card = 2
    None = None
SPECIFICATION Spec
INVARIANTS
    SettingsTypeOK
    TheModeIsObeyed
    SessionIsRightOrLate
    CacheIsRightOrLate
PROPERTY AnAnswerKeepsItsSettings
