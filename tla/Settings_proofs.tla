-------------------------- MODULE Settings_proofs --------------------------
(***************************************************************************)
(* Which settings are used, for any number of workers and models, whatever *)
(* each model needs and whatever card there is.                            *)
(***************************************************************************)
EXTENDS Settings, TLAPS

\* A decision to use the processor is never turned into layers on the card.
Honest(c) == c.mode = "cpu" => c.using = "cpu"

\* What a thread holds at each of its places.  A decision that was just made is
\* for the thread's own model; a cached one may be for another.
CopiesAreHeld ==
    \A t \in Threads :
        pc[t] \in {"looking", "deciding", "storing", "waiting"} => copy[t] \in AppSettings

ChoicesFit ==
    \A t \in Threads :
        /\ pc[t] \in {"storing", "waiting"} =>
               /\ choice[t] \in ComputeChoice
               /\ choice[t].mode = copy[t].mode
               /\ Honest(choice[t])
        /\ pc[t] = "storing" => choice[t].model = copy[t].model

CacheIsHonest == cache # None => cache \in ComputeChoice /\ Honest(cache)

EngineFits ==
    engine # None => /\ engine \in EngineSettings
                     /\ engine.by.mode = engine.of.mode
                     /\ Honest(engine.by)

\* Only the main thread writes the table, so in set_setting its copy is current.
MainIsCurrent ==
    /\ setting => pc[Main] # "idle"
    /\ pc[Main] \in {"written", "cleared"} => setting
    /\ setting /\ pc[Main] \in {"looking", "deciding", "storing", "waiting"} =>
           copy[Main] = table

\* The cache is wrong from the writing of the table to its clearing, and no longer.
CacheIsClearedOrLate ==
    pc[Main] # "written" /\ cache # None
        /\ (cache.model # table.model \/ cache.mode # table.mode) => "cache" \in late

\* An answer is under way only in an open session.
OpenInside ==
    \A t \in Threads :
        pc[t] \in {"inside", "answering"} =>
            t \in Workers /\ t = holder /\ engine \in EngineSettings

SettingsInv ==
    /\ SettingsTypeOK
    /\ CopiesAreHeld
    /\ ChoicesFit
    /\ CacheIsHonest
    /\ EngineFits
    /\ MainIsCurrent
    /\ CacheIsClearedOrLate
    /\ SessionIsRightOrLate
    /\ OpenInside

LEMMA SettingsInitInv == Init => SettingsInv
  <1> SUFFICES ASSUME Init
               PROVE  SettingsInv
    OBVIOUS
  <1>1. SettingsTypeOK
    BY DEF Init, SettingsTypeOK, Places
  <1>2. CopiesAreHeld /\ ChoicesFit /\ MainIsCurrent /\ OpenInside
    BY DEF Init, CopiesAreHeld, ChoicesFit, MainIsCurrent, OpenInside, Threads
  <1>3. CacheIsHonest /\ EngineFits /\ CacheIsClearedOrLate /\ SessionIsRightOrLate
    BY DEF Init, CacheIsHonest, EngineFits, CacheIsClearedOrLate, SessionIsRightOrLate
  <1> QED
    BY <1>1, <1>2, <1>3 DEF SettingsInv

LEMMA ThreadsAssumption ==
    /\ Main \in Threads
    /\ Workers \subseteq Threads
    /\ Test \in Workers
    /\ Main \notin Workers
    /\ None \notin Workers
BY SettingsAssumption DEF SettingsAssumption, Threads

LEMMA ReadsInv ==
    ASSUME SettingsInv, NEW t \in Threads, Reads(t)
    PROVE  SettingsInv'
  <1> USE ThreadsAssumption DEF SettingsInv, SettingsTypeOK, Reads, Moves
  <1>1. SettingsTypeOK'
    BY DEF Places, sessionVars
  <1>2. CopiesAreHeld'
    BY DEF CopiesAreHeld
  <1>3. ChoicesFit'
    BY DEF ChoicesFit, Honest
  <1>4. MainIsCurrent'
    BY DEF MainIsCurrent
  <1>5. CacheIsHonest' /\ EngineFits' /\ CacheIsClearedOrLate' /\ SessionIsRightOrLate'
    BY DEF CacheIsHonest, EngineFits, CacheIsClearedOrLate, SessionIsRightOrLate,
           Honest, sessionVars
  <1>6. OpenInside'
    BY DEF OpenInside, sessionVars
  <1> QED
    BY <1>1, <1>2, <1>3, <1>4, <1>5, <1>6

LEMMA FindsAChoiceInv ==
    ASSUME SettingsInv, NEW t \in Threads, FindsAChoice(t)
    PROVE  SettingsInv'
  <1> USE ThreadsAssumption DEF SettingsInv, SettingsTypeOK, FindsAChoice, Moves,
          Remembered
  <1>1. SettingsTypeOK'
    BY DEF Places, sessionVars
  <1>2. CopiesAreHeld'
    BY DEF CopiesAreHeld
  <1>3. ChoicesFit'
    BY DEF ChoicesFit, Honest, CacheIsHonest
  <1>4. CacheIsHonest' /\ EngineFits' /\ CacheIsClearedOrLate' /\ SessionIsRightOrLate'
    BY DEF CacheIsHonest, EngineFits, CacheIsClearedOrLate, SessionIsRightOrLate,
           Honest, sessionVars, MainIsCurrent
  <1>5. MainIsCurrent'
    BY DEF MainIsCurrent
  <1>6. OpenInside'
    BY DEF OpenInside, sessionVars
  <1> QED
    BY <1>1, <1>2, <1>3, <1>4, <1>5, <1>6

LEMMA FindsNoChoiceInv ==
    ASSUME SettingsInv, NEW t \in Threads, FindsNoChoice(t)
    PROVE  SettingsInv'
  <1> USE ThreadsAssumption DEF SettingsInv, SettingsTypeOK, FindsNoChoice, Moves
  <1>1. SettingsTypeOK'
    BY DEF Places, sessionVars
  <1>2. CopiesAreHeld'
    BY DEF CopiesAreHeld
  <1>3. ChoicesFit'
    BY DEF ChoicesFit, Honest
  <1>4. MainIsCurrent'
    BY DEF MainIsCurrent
  <1>5. CacheIsHonest' /\ EngineFits' /\ CacheIsClearedOrLate' /\ SessionIsRightOrLate'
    BY DEF CacheIsHonest, EngineFits, CacheIsClearedOrLate, SessionIsRightOrLate,
           Honest, sessionVars
  <1>6. OpenInside'
    BY DEF OpenInside, sessionVars
  <1> QED
    BY <1>1, <1>2, <1>3, <1>4, <1>5, <1>6

LEMMA DecidesInv ==
    ASSUME SettingsInv, NEW t \in Threads, Decides(t)
    PROVE  SettingsInv'
  <1> USE ThreadsAssumption DEF SettingsInv, SettingsTypeOK, Decides, Moves, Use
  <1>1. SettingsTypeOK'
    BY DEF Places, sessionVars, CopiesAreHeld, AppSettings, ComputeChoice
  <1>2. CopiesAreHeld'
    BY DEF CopiesAreHeld
  <1>3. ChoicesFit'
    BY DEF ChoicesFit, Honest, CopiesAreHeld, AppSettings, ComputeChoice
  <1>4. MainIsCurrent'
    BY DEF MainIsCurrent
  <1>5. CacheIsHonest' /\ EngineFits' /\ CacheIsClearedOrLate' /\ SessionIsRightOrLate'
    BY DEF CacheIsHonest, EngineFits, CacheIsClearedOrLate, SessionIsRightOrLate,
           Honest, sessionVars
  <1>6. OpenInside'
    BY DEF OpenInside, sessionVars
  <1> QED
    BY <1>1, <1>2, <1>3, <1>4, <1>5, <1>6

LEMMA StoresInv ==
    ASSUME SettingsInv, NEW t \in Threads, Stores(t)
    PROVE  SettingsInv'
  <1> USE ThreadsAssumption DEF SettingsInv, SettingsTypeOK, Stores, Moves, Writes
  <1>1. SettingsTypeOK'
    BY DEF Places, sessionVars
  <1>2. CopiesAreHeld' /\ ChoicesFit' /\ MainIsCurrent'
    BY DEF CopiesAreHeld, ChoicesFit, MainIsCurrent, Honest
  <1>3. CacheIsHonest'
    BY DEF CacheIsHonest, Honest, ChoicesFit
  <1>4. CacheIsClearedOrLate'
    BY DEF CacheIsClearedOrLate, ChoicesFit
  <1>5. EngineFits' /\ SessionIsRightOrLate'
    BY DEF EngineFits, SessionIsRightOrLate, Honest, sessionVars
  <1>6. OpenInside'
    BY DEF OpenInside, sessionVars
  <1> QED
    BY <1>1, <1>2, <1>3, <1>4, <1>5, <1>6

LEMMA SetsInv ==
    ASSUME SettingsInv, NEW s \in AppSettings, Sets(s)
    PROVE  SettingsInv'
  <1> USE ThreadsAssumption DEF SettingsInv, SettingsTypeOK, Sets, Moves
  <1>1. SettingsTypeOK'
    BY DEF Places, sessionVars
  <1>2. CopiesAreHeld' /\ ChoicesFit'
    BY DEF CopiesAreHeld, ChoicesFit, Honest
  <1>3. MainIsCurrent'
    BY DEF MainIsCurrent
  <1>4. CacheIsHonest' /\ EngineFits' /\ CacheIsClearedOrLate' /\ SessionIsRightOrLate'
    BY DEF CacheIsHonest, EngineFits, CacheIsClearedOrLate, SessionIsRightOrLate,
           Honest, sessionVars
  <1>5. OpenInside'
    BY DEF OpenInside, sessionVars
  <1> QED
    BY <1>1, <1>2, <1>3, <1>4, <1>5

LEMMA SetsTheCanonInv ==
    ASSUME SettingsInv, SetsTheCanon
    PROVE  SettingsInv'
  <1> USE ThreadsAssumption DEF SettingsInv, SettingsTypeOK, SetsTheCanon, Moves
  <1>1. SettingsTypeOK'
    BY DEF Places, sessionVars
  <1>2. CopiesAreHeld' /\ ChoicesFit'
    BY DEF CopiesAreHeld, ChoicesFit, Honest
  <1>3. MainIsCurrent'
    BY DEF MainIsCurrent
  <1>4. CacheIsHonest' /\ EngineFits' /\ CacheIsClearedOrLate' /\ SessionIsRightOrLate'
    BY DEF CacheIsHonest, EngineFits, CacheIsClearedOrLate, SessionIsRightOrLate,
           Honest, sessionVars
  <1>5. OpenInside'
    BY DEF OpenInside, sessionVars
  <1> QED
    BY <1>1, <1>2, <1>3, <1>4, <1>5

LEMMA ClearsTheCacheInv ==
    ASSUME SettingsInv, ClearsTheCache
    PROVE  SettingsInv'
  <1> USE ThreadsAssumption DEF SettingsInv, SettingsTypeOK, ClearsTheCache, Moves
  <1>1. SettingsTypeOK'
    BY DEF Places, sessionVars
  <1>2. CopiesAreHeld' /\ ChoicesFit'
    BY DEF CopiesAreHeld, ChoicesFit, Honest
  <1>3. MainIsCurrent'
    BY DEF MainIsCurrent
  <1>4. CacheIsHonest' /\ EngineFits' /\ CacheIsClearedOrLate' /\ SessionIsRightOrLate'
    BY DEF CacheIsHonest, EngineFits, CacheIsClearedOrLate, SessionIsRightOrLate,
           Honest, sessionVars
  <1>5. OpenInside'
    BY DEF OpenInside, sessionVars
  <1> QED
    BY <1>1, <1>2, <1>3, <1>4, <1>5

LEMMA ReadsAgainInv ==
    ASSUME SettingsInv, ReadsAgain
    PROVE  SettingsInv'
  <1> USE ThreadsAssumption DEF SettingsInv, SettingsTypeOK, ReadsAgain, Moves
  <1>1. SettingsTypeOK'
    BY DEF Places, sessionVars
  <1>2. CopiesAreHeld'
    BY DEF CopiesAreHeld
  <1>3. ChoicesFit'
    BY DEF ChoicesFit, Honest
  <1>4. MainIsCurrent'
    BY DEF MainIsCurrent
  <1>5. CacheIsHonest' /\ EngineFits' /\ CacheIsClearedOrLate' /\ SessionIsRightOrLate'
    BY DEF CacheIsHonest, EngineFits, CacheIsClearedOrLate, SessionIsRightOrLate,
           Honest, sessionVars
  <1>6. OpenInside'
    BY DEF OpenInside, sessionVars
  <1> QED
    BY <1>1, <1>2, <1>3, <1>4, <1>5, <1>6

LEMMA ShowsInv ==
    ASSUME SettingsInv, Shows
    PROVE  SettingsInv'
  <1> USE ThreadsAssumption DEF SettingsInv, SettingsTypeOK, Shows, Moves, Drops
  <1>1. SettingsTypeOK'
    BY DEF Places, sessionVars
  <1>2. CopiesAreHeld' /\ ChoicesFit'
    BY DEF CopiesAreHeld, ChoicesFit, Honest
  <1>3. MainIsCurrent'
    BY DEF MainIsCurrent
  <1>4. CacheIsHonest' /\ EngineFits' /\ CacheIsClearedOrLate' /\ SessionIsRightOrLate'
    BY DEF CacheIsHonest, EngineFits, CacheIsClearedOrLate, SessionIsRightOrLate,
           Honest, sessionVars
  <1>5. OpenInside'
    BY DEF OpenInside, sessionVars
  <1> QED
    BY <1>1, <1>2, <1>3, <1>4, <1>5

LEMMA AppliesInv ==
    ASSUME SettingsInv, Applies
    PROVE  SettingsInv'
  <1> USE ThreadsAssumption DEF SettingsInv, SettingsTypeOK, Applies, Moves, Drops,
          EngineSettings
  <1>1. SettingsTypeOK'
    <2>1. copy[Main] \in AppSettings /\ choice[Main] \in ComputeChoice
      BY DEF CopiesAreHeld, ChoicesFit
    <2>2. engine' \in EngineSettings' \cup {None}
      BY <2>1 DEF EngineSettings
    <2>3. late' \subseteq {"cache", "session"}
      OBVIOUS
    <2>4. /\ pc' \in [Threads -> Places]
          /\ copy' \in [Threads -> AppSettings \cup {None}]
          /\ choice' \in [Threads -> ComputeChoice \cup {None}]
      BY DEF Places
    <2>5. /\ table' \in AppSettings
          /\ cache' \in ComputeChoice \cup {None}
          /\ server' \in ServerOptions \cup {None}
          /\ holder' \in Workers \cup {None}
          /\ setting' \in BOOLEAN
      OBVIOUS
    <2> QED
      BY <2>2, <2>3, <2>4, <2>5
  <1>2. CopiesAreHeld' /\ ChoicesFit'
    BY DEF CopiesAreHeld, ChoicesFit, Honest
  <1>3. MainIsCurrent'
    BY DEF MainIsCurrent
  <1>4. EngineFits'
    BY DEF EngineFits, Honest, CopiesAreHeld, ChoicesFit
  <1>5. SessionIsRightOrLate'
    BY DEF SessionIsRightOrLate, MainIsCurrent, CopiesAreHeld
  <1>6. CacheIsHonest' /\ CacheIsClearedOrLate'
    BY DEF CacheIsHonest, CacheIsClearedOrLate, Honest
  <1>7. OpenInside'
    BY DEF OpenInside
  <1> QED
    BY <1>1, <1>2, <1>3, <1>4, <1>5, <1>6, <1>7

LEMMA ClosesInv ==
    ASSUME SettingsInv, Closes
    PROVE  SettingsInv'
  <1> USE ThreadsAssumption DEF SettingsInv, SettingsTypeOK, Closes, Moves, LetsGo
  <1>1. SettingsTypeOK'
    BY DEF Places, threadVars
  <1>2. CopiesAreHeld' /\ ChoicesFit' /\ MainIsCurrent'
    BY DEF CopiesAreHeld, ChoicesFit, MainIsCurrent, Honest, threadVars
  <1>3. CacheIsHonest' /\ EngineFits' /\ CacheIsClearedOrLate' /\ SessionIsRightOrLate'
    BY DEF CacheIsHonest, EngineFits, CacheIsClearedOrLate, SessionIsRightOrLate, Honest
  <1>4. OpenInside'
    BY DEF OpenInside, threadVars
  <1> QED
    BY <1>1, <1>2, <1>3, <1>4

LEMMA EntersInv ==
    ASSUME SettingsInv, NEW w \in Workers, Enters(w)
    PROVE  SettingsInv'
  <1> USE ThreadsAssumption DEF SettingsInv, SettingsTypeOK, Enters, Moves, Drops,
          Writes, EngineSettings
  <1>1. SettingsTypeOK'
    <2>1. copy[w] \in AppSettings /\ choice[w] \in ComputeChoice
      BY DEF CopiesAreHeld, ChoicesFit
    <2>2. engine' \in EngineSettings' \cup {None}
      BY <2>1 DEF EngineSettings
    <2>3. late' \subseteq {"cache", "session"}
      OBVIOUS
    <2>4. /\ pc' \in [Threads -> Places]
          /\ copy' \in [Threads -> AppSettings \cup {None}]
          /\ choice' \in [Threads -> ComputeChoice \cup {None}]
      BY DEF Places
    <2>5. /\ table' \in AppSettings
          /\ cache' \in ComputeChoice \cup {None}
          /\ server' \in ServerOptions \cup {None}
          /\ holder' \in Workers \cup {None}
          /\ setting' \in BOOLEAN
      OBVIOUS
    <2> QED
      BY <2>2, <2>3, <2>4, <2>5
  <1>2. CopiesAreHeld' /\ ChoicesFit'
    BY DEF CopiesAreHeld, ChoicesFit, Honest
  <1>3. MainIsCurrent'
    BY DEF MainIsCurrent
  <1>4. EngineFits'
    BY DEF EngineFits, Honest, CopiesAreHeld, ChoicesFit
  <1>5. SessionIsRightOrLate'
    BY DEF SessionIsRightOrLate, CopiesAreHeld
  <1>6. CacheIsHonest' /\ CacheIsClearedOrLate'
    BY DEF CacheIsHonest, CacheIsClearedOrLate, Honest
  <1>7. OpenInside'
    BY DEF OpenInside, EngineFits, CopiesAreHeld, ChoicesFit
  <1> QED
    BY <1>1, <1>2, <1>3, <1>4, <1>5, <1>6, <1>7

LEMMA CannotOpenInv ==
    ASSUME SettingsInv, NEW w \in Workers, CannotOpen(w)
    PROVE  SettingsInv'
  <1> USE ThreadsAssumption DEF SettingsInv, SettingsTypeOK, CannotOpen, Moves, Drops
  <1>1. SettingsTypeOK'
    BY DEF Places, sessionVars
  <1>2. CopiesAreHeld' /\ ChoicesFit'
    BY DEF CopiesAreHeld, ChoicesFit, Honest
  <1>3. MainIsCurrent'
    BY DEF MainIsCurrent
  <1>4. CacheIsHonest' /\ EngineFits' /\ CacheIsClearedOrLate' /\ SessionIsRightOrLate'
    BY DEF CacheIsHonest, EngineFits, CacheIsClearedOrLate, SessionIsRightOrLate,
           Honest, sessionVars
  <1>5. OpenInside'
    BY DEF OpenInside, sessionVars
  <1> QED
    BY <1>1, <1>2, <1>3, <1>4, <1>5

LEMMA LoadsInv ==
    ASSUME SettingsInv, NEW w \in Workers, Loads(w)
    PROVE  SettingsInv'
  <1> USE ThreadsAssumption DEF SettingsInv, SettingsTypeOK, Loads, Moves
  <1>1. SettingsTypeOK'
    BY DEF Places, OpenInside, EngineFits, EngineSettings, ComputeChoice, AppSettings,
           ServerOptions
  <1>2. CopiesAreHeld' /\ ChoicesFit'
    BY DEF CopiesAreHeld, ChoicesFit, Honest
  <1>3. MainIsCurrent'
    BY DEF MainIsCurrent
  <1>4. CacheIsHonest' /\ EngineFits' /\ CacheIsClearedOrLate' /\ SessionIsRightOrLate'
    BY DEF CacheIsHonest, EngineFits, CacheIsClearedOrLate, SessionIsRightOrLate, Honest
  <1>5. OpenInside'
    BY DEF OpenInside
  <1> QED
    BY <1>1, <1>2, <1>3, <1>4, <1>5

LEMMA CannotLoadInv ==
    ASSUME SettingsInv, NEW w \in Workers, CannotLoad(w)
    PROVE  SettingsInv'
  <1> USE ThreadsAssumption DEF SettingsInv, SettingsTypeOK, CannotLoad, Moves
  <1>1. SettingsTypeOK'
    BY DEF Places
  <1>2. CopiesAreHeld' /\ ChoicesFit'
    BY DEF CopiesAreHeld, ChoicesFit, Honest
  <1>3. MainIsCurrent'
    BY DEF MainIsCurrent
  <1>4. CacheIsHonest' /\ EngineFits' /\ CacheIsClearedOrLate' /\ SessionIsRightOrLate'
    BY DEF CacheIsHonest, EngineFits, CacheIsClearedOrLate, SessionIsRightOrLate, Honest
  <1>5. OpenInside'
    BY DEF OpenInside
  <1> QED
    BY <1>1, <1>2, <1>3, <1>4, <1>5

LEMMA ReturnsInv ==
    ASSUME SettingsInv, NEW w \in Workers, Returns(w)
    PROVE  SettingsInv'
  <1> USE ThreadsAssumption DEF SettingsInv, SettingsTypeOK, Returns, Moves
  <1>1. SettingsTypeOK'
    BY DEF Places
  <1>2. CopiesAreHeld' /\ ChoicesFit'
    BY DEF CopiesAreHeld, ChoicesFit, Honest
  <1>3. MainIsCurrent'
    BY DEF MainIsCurrent
  <1>4. CacheIsHonest' /\ EngineFits' /\ CacheIsClearedOrLate' /\ SessionIsRightOrLate'
    BY DEF CacheIsHonest, EngineFits, CacheIsClearedOrLate, SessionIsRightOrLate, Honest
  <1>5. OpenInside'
    BY DEF OpenInside
  <1> QED
    BY <1>1, <1>2, <1>3, <1>4, <1>5

LEMMA TestLetsGoInv ==
    ASSUME SettingsInv, TestLetsGo
    PROVE  SettingsInv'
  <1> USE ThreadsAssumption DEF SettingsInv, SettingsTypeOK, TestLetsGo, Moves, LetsGo
  <1>1. SettingsTypeOK'
    BY DEF Places
  <1>2. CopiesAreHeld' /\ ChoicesFit'
    BY DEF CopiesAreHeld, ChoicesFit, Honest
  <1>3. MainIsCurrent'
    BY DEF MainIsCurrent
  <1>4. CacheIsHonest' /\ EngineFits' /\ CacheIsClearedOrLate' /\ SessionIsRightOrLate'
    BY DEF CacheIsHonest, EngineFits, CacheIsClearedOrLate, SessionIsRightOrLate, Honest
  <1>5. OpenInside'
    BY DEF OpenInside
  <1> QED
    BY <1>1, <1>2, <1>3, <1>4, <1>5

-----------------------------------------------------------------------------

LEMMA SettingsNextInv == SettingsInv /\ [Next]_vars => SettingsInv'
  <1> SUFFICES ASSUME SettingsInv, [Next]_vars
               PROVE  SettingsInv'
    OBVIOUS
  <1>1. CASE \E s \in AppSettings : Sets(s)
    BY <1>1, SetsInv
  <1>2. CASE SetsTheCanon \/ ClearsTheCache \/ ReadsAgain
    BY <1>2, SetsTheCanonInv, ClearsTheCacheInv, ReadsAgainInv
  <1>3. CASE Shows \/ Applies \/ Closes
    BY <1>3, ShowsInv, AppliesInv, ClosesInv
  <1>4. CASE \E t \in Threads : Reads(t) \/ Chooses(t)
    <2> PICK t \in Threads : Reads(t) \/ Chooses(t)
      BY <1>4
    <2> QED
      BY ReadsInv, FindsAChoiceInv, FindsNoChoiceInv, DecidesInv, StoresInv DEF Chooses
  <1>5. CASE \E w \in Workers : WorkerStep(w)
    <2> PICK w \in Workers : WorkerStep(w)
      BY <1>5
    <2> QED
      BY EntersInv, CannotOpenInv, LoadsInv, CannotLoadInv, ReturnsInv DEF WorkerStep
  <1>6. CASE TestLetsGo
    BY <1>6, TestLetsGoInv
  <1>7. CASE UNCHANGED vars
    <2> USE <1>7 DEF vars, sessionVars, threadVars, SettingsInv
    <2>1. SettingsTypeOK'
      BY DEF SettingsTypeOK
    <2>2. CopiesAreHeld' /\ ChoicesFit' /\ MainIsCurrent' /\ OpenInside'
      BY DEF CopiesAreHeld, ChoicesFit, Honest, MainIsCurrent, OpenInside
    <2>3. CacheIsHonest' /\ EngineFits' /\ CacheIsClearedOrLate' /\ SessionIsRightOrLate'
      BY DEF CacheIsHonest, EngineFits, Honest, CacheIsClearedOrLate,
             SessionIsRightOrLate
    <2> QED
      BY <2>1, <2>2, <2>3
  <1> QED
    BY <1>1, <1>2, <1>3, <1>4, <1>5, <1>6, <1>7 DEF Next, MainStep

LEMMA SettingsInvariance == Spec => []SettingsInv
BY SettingsInitInv, SettingsNextInv, PTL DEF Spec

-----------------------------------------------------------------------------
\* The types of Settings, for any workers, models and card.
THEOREM SettingsTypeCorrect == Spec => []SettingsTypeOK
  <1>1. SettingsInv => SettingsTypeOK
    BY DEF SettingsInv
  <1> QED
    BY <1>1, SettingsInvariance, PTL

\* No decision that compute_choice hands out is used under another mode than it
\* was made for, and a session set to the processor never gets layers on the card.
THEOREM DecisionsFitTheirMode == Spec => []TheModeIsObeyed
  <1>1. SettingsInv => TheModeIsObeyed
    BY DEF SettingsInv, TheModeIsObeyed, ChoicesFit, EngineFits, Honest
  <1> QED
    BY <1>1, SettingsInvariance, PTL

\* Between two calls of set_setting an open session has the table's settings, or
\* was opened by a worker that had read them before the last change.
THEOREM SessionOldOnlyIfLate == Spec => []SessionIsRightOrLate
  <1>1. SettingsInv => SessionIsRightOrLate
    BY DEF SettingsInv
  <1> QED
    BY <1>1, SettingsInvariance, PTL

\* Between two calls of set_setting a cached decision is for the table's model and
\* mode, or was stored by a thread that had read the table before the last change.
THEOREM CacheOldOnlyIfLate == Spec => []CacheIsRightOrLate
  <1>1. SettingsInv => CacheIsRightOrLate
    BY DEF SettingsInv, CacheIsClearedOrLate, CacheIsRightOrLate, MainIsCurrent
  <1> QED
    BY <1>1, SettingsInvariance, PTL

\* Nobody replaces the settings under an answer: whoever would waits for the session
\* (lib.rs:523-526).
THEOREM SettingsHoldStill == Spec => AnAnswerKeepsItsSettings
  <1>1. [Next]_vars
        => [holder # None /\ holder' = holder => engine' = engine]_vars
    <2> SUFFICES ASSUME Next, holder # None, holder' = holder
                 PROVE  engine' = engine
      OBVIOUS
    <2>1. CASE MainStep
      BY <2>1 DEF MainStep, Sets, SetsTheCanon, ClearsTheCache, ReadsAgain, Shows, Applies,
                  Closes, sessionVars
    <2>2. CASE \E t \in Threads : Reads(t) \/ Chooses(t)
      BY <2>2 DEF Reads, Chooses, FindsAChoice, FindsNoChoice, Decides, Stores, sessionVars
    <2>3. CASE \E w \in Workers : WorkerStep(w)
      BY <2>3 DEF WorkerStep, Enters, CannotOpen, Loads, CannotLoad, Returns, sessionVars
    <2>4. CASE TestLetsGo
      BY <2>4 DEF TestLetsGo, LetsGo
    <2> QED
      BY <2>1, <2>2, <2>3, <2>4 DEF Next
  <1> QED
    BY <1>1, PTL DEF Spec, AnAnswerKeepsItsSettings
=============================================================================
