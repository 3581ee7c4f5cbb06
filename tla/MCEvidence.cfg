CONSTANTS
    Verses <- MCVerses
    Books <- MCBooks
    Deutero <- MCDeutero
    TopicVerses <- MCTopicVerses
    Parent <- MCParent
    NoTopic = "none"
    CrossRefs <- MCCrossRefs
    TopN = 2
    DeuteroSlice = 2
    Pool = 3
    TopicHits = 2
    TopicCap = 2
    TskAnchors = 2
    TskCap = 2
    Variants <- MCVariants
    TskNames <- MCTskNames
    Digit <- MCDigit
    Ambiguous <- MCAmbiguous
    Queries <- MCQueries
    Texts <- MCTexts
    OldFiles <- MCOldFiles
    MaxId = 4
    MaxAnswers = 2
    MaxKills = 1
SPECIFICATION Spec
INVARIANTS
    EvidenceTypeOK
    TokensNameWhatWasSent
    CitedMarksSurvive
    NothingUnsentIsShown
    GroupsPartitionThePassages
    BothOnlyAdds
    OnlyTheUnnumberedAreLost
    RowsNameTheirEntry
    TurningBackReturns
CHECK_DEADLOCK FALSE
