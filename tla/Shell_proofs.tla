--------------------------- MODULE Shell_proofs ---------------------------
(***************************************************************************)
(* The session in the hands of the window, for any number of asks, presses *)
(* of Stop, self-test questions, models and servers.                       *)
(***************************************************************************)
EXTENDS Shell, Session_proofs

\* Whoever holds the session mutex holds it on an open session, and a session
\* that is not open has no server: it was shut down before it went.
OpenInside ==
    /\ ~SessionFree => open
    /\ NoSessionNoServers

ShellInv ==
    /\ SessionInv
    /\ ShellTypeOK
    /\ OnlyTheHolderIsInside
    /\ OneAnswerAtATime
    /\ FlagDownInside
    /\ OpenInside

LEMMA ShellInitInv == Init => ShellInv
  <1> SUFFICES ASSUME Init
               PROVE  ShellInv
    OBVIOUS
  <1>1. SessionInv
    BY SessionInitInv DEF Init
  <1>2. ShellTypeOK
    <2>1. TypeOK /\ saved \subseteq Asks
      BY <1>1 DEF Init, SessionInv
    <2>2. open \in BOOLEAN /\ busy \in BOOLEAN
      BY DEF Init
    <2>3. sess \in Questions \cup {NoOne} /\ test \in {"off", "queued", "inside"}
          /\ ui \in {"idle", "history", "waiting"}
      BY DEF Init
    <2>4. round \in 0 .. TestRounds
      BY ShellAssumption DEF Init
    <2>5. pc \in [Asks -> AskPlaces] /\ timer \in [Timers -> {"unset", "running", "over"}]
      BY DEF Init, AskPlaces, BusyPlaces, Claimed
    <2> QED
      BY <2>1, <2>2, <2>3, <2>4, <2>5 DEF ShellTypeOK
  <1>3. OnlyTheHolderIsInside /\ OneAnswerAtATime
    BY ShellAssumption, SessionAssumption
       DEF Init, SessionInit, OnlyTheHolderIsInside, OneAnswerAtATime, SessionFree,
           BusyPlaces, Claimed
  <1>4. FlagDownInside /\ OpenInside
    BY DEF Init, SessionInit, FlagDownInside, OpenInside, NoSessionNoServers, SessionFree
  <1> QED
    BY <1>1, <1>2, <1>3, <1>4 DEF ShellInv

-----------------------------------------------------------------------------
(* One lemma for each kind of step. *)

\* An ask outside the session: only its place and the busy flag change.
LEMMA AskOutsideInv ==
    ASSUME ShellInv, NEW a \in Asks,
           \/ AskChecksTheModels(a) \/ AskClaims(a) \/ AskReadsTheSettings(a) \/ AskIsDropped(a)
           \/ AskCannotOpen(a) \/ AskLeaves(a)
    PROVE  ShellInv'
  <1> USE DEF AskChecksTheModels, AskClaims, AskReadsTheSettings,
              AskIsDropped, AskCannotOpen, AskLeaves
  <1>1. SessionInv'
    BY QuietInv DEF ShellInv, SessionInv, TypeOK, sessionVars, serverVars, answerVars
  <1>2. ShellTypeOK'
    BY <1>1 DEF ShellInv, ShellTypeOK, SessionInv, AskPlaces, BusyPlaces, Claimed
  <1>3. OnlyTheHolderIsInside'
    BY DEF ShellInv, ShellTypeOK, OnlyTheHolderIsInside, SessionFree, sessionVars
  <1>4. OneAnswerAtATime'
    BY DEF ShellInv, ShellTypeOK, OneAnswerAtATime, BusyPlaces, Claimed
  <1>5. FlagDownInside' /\ OpenInside'
    BY DEF ShellInv, FlagDownInside, OpenInside, NoSessionNoServers, SessionFree, sessionVars
  <1> QED
    BY <1>1, <1>2, <1>3, <1>4, <1>5 DEF ShellInv

\* Entering the session lowers the flag.
LEMMA EnterInv ==
    ASSUME ShellInv, NEW q \in Questions, Enter(q)
    PROVE  SessionInv' /\ step = "idle" /\ step' # "idle" /\ ~flag' /\ sess' = q /\ open'
  BY BeginInv DEF ShellInv, Enter, BeginWith, SessionInv, TypeOK, OnlyTheHolderIsInside

LEMMA AskInsideInv ==
    ASSUME ShellInv, NEW a \in Asks, AskEnters(a) \/ AskSaves(a) \/ AskGivesUp(a)
    PROVE  ShellInv'
  <1>a. a \in Questions /\ a # NoOne /\ a # Test
    BY ShellAssumption, SessionAssumption
  <1>1. CASE AskEnters(a)
    <2>1. SessionInv' /\ step = "idle" /\ step' # "idle" /\ ~flag' /\ sess' = a /\ open'
      BY <1>1, <1>a, EnterInv DEF AskEnters
    <2>2. ShellTypeOK'
      BY <1>1, <1>a, <2>1 DEF ShellInv, ShellTypeOK, SessionInv, AskPlaces,
                                  BusyPlaces, Claimed, AskEnters
    <2>a. /\ sess = NoOne /\ test # "inside" /\ test' = test /\ sess' # NoOne
          /\ \A b \in Asks : pc[b] # "inside" /\ (pc'[b] = "inside" <=> b = a)
      BY <1>1, <1>a, <2>1, SessionAssumption, ShellAssumption
         DEF ShellInv, ShellTypeOK, OnlyTheHolderIsInside, SessionFree, AskEnters, Enter
    <2>b. OnlyTheHolderIsInside'
      BY <1>a, <2>1, <2>a DEF OnlyTheHolderIsInside, SessionFree
    <2>c. /\ busy' = busy
          /\ \A b \in Asks : pc'[b] \in BusyPlaces <=> pc[b] \in BusyPlaces
      BY <1>1 DEF ShellInv, ShellTypeOK, AskEnters, BusyPlaces, Claimed
    <2>3. OnlyTheHolderIsInside' /\ OneAnswerAtATime'
      BY <2>b, <2>c DEF ShellInv, OneAnswerAtATime
    <2>4. FlagDownInside' /\ OpenInside'
      BY <2>1 DEF FlagDownInside, OpenInside, NoSessionNoServers
    <2> QED
      BY <2>1, <2>2, <2>3, <2>4 DEF ShellInv
  <1>2. CASE AskSaves(a) \/ AskGivesUp(a)
    <2> USE DEF AskSaves, AskGivesUp, Return
    <2>1. SessionInv'
      BY <1>2, ReturnInv DEF ShellInv
    <2>2. ShellTypeOK'
      BY <1>2, <2>1 DEF ShellInv, ShellTypeOK, SessionInv, AskPlaces, BusyPlaces, Claimed
    <2>3. OnlyTheHolderIsInside' /\ OneAnswerAtATime'
      BY <1>2, <1>a, SessionAssumption, ShellAssumption
         DEF ShellInv, ShellTypeOK, OnlyTheHolderIsInside, OneAnswerAtATime, SessionFree,
             BusyPlaces, Claimed
    <2>4. FlagDownInside' /\ OpenInside'
      BY <1>2 DEF ShellInv, FlagDownInside, OpenInside, NoSessionNoServers, SessionFree,
                  serverVars
    <2> QED
      BY <2>1, <2>2, <2>3, <2>4 DEF ShellInv
  <1> QED
    BY <1>1, <1>2

LEMMA TestInv ==
    ASSUME ShellInv, TestStep
    PROVE  ShellInv'
  <1>a. Test \in Questions /\ Test # NoOne /\ Test \notin Asks
    BY ShellAssumption, SessionAssumption
  <1>b. TestRounds \in Nat \ {0}
    BY ShellAssumption
  <1>1. CASE TestStarts \/ TestCannotOpen
    <2> USE DEF TestStarts, TestCannotOpen
    <2>1. SessionInv'
      BY <1>1, QuietInv DEF ShellInv, SessionInv, TypeOK, sessionVars, serverVars, answerVars
    <2>2. ShellTypeOK'
      BY <1>1, <2>1 DEF ShellInv, ShellTypeOK, SessionInv
    <2>3. OnlyTheHolderIsInside' /\ OneAnswerAtATime'
      BY <1>1 DEF ShellInv, OnlyTheHolderIsInside, OneAnswerAtATime, SessionFree, sessionVars
    <2>4. FlagDownInside' /\ OpenInside'
      BY <1>1 DEF ShellInv, FlagDownInside, OpenInside, NoSessionNoServers, SessionFree,
                  sessionVars
    <2> QED
      BY <2>1, <2>2, <2>3, <2>4 DEF ShellInv
  <1>2. CASE TestEnters
    <2>1. SessionInv' /\ step = "idle" /\ step' # "idle" /\ ~flag' /\ sess' = Test /\ open'
      BY <1>2, <1>a, EnterInv DEF TestEnters
    <2>2. ShellTypeOK'
      BY <1>2, <1>a, <1>b, <2>1 DEF ShellInv, ShellTypeOK, SessionInv, TestEnters
    <2>3. OnlyTheHolderIsInside' /\ OneAnswerAtATime'
      <3>1. /\ sess = NoOne /\ test' = "inside" /\ sess' # NoOne /\ UNCHANGED <<pc, busy>>
            /\ \A b \in Asks : pc[b] # "inside" /\ b # Test
        BY <1>2, <1>a, <2>1, SessionAssumption, ShellAssumption
           DEF ShellInv, OnlyTheHolderIsInside, SessionFree, TestEnters, Enter
      <3>2. OnlyTheHolderIsInside'
        BY <1>a, <2>1, <3>1 DEF OnlyTheHolderIsInside, SessionFree
      <3>3. OneAnswerAtATime'
        BY <3>1 DEF ShellInv, OneAnswerAtATime
      <3> QED
        BY <3>2, <3>3
    <2>4. FlagDownInside' /\ OpenInside'
      BY <2>1 DEF FlagDownInside, OpenInside, NoSessionNoServers
    <2> QED
      BY <2>1, <2>2, <2>3, <2>4 DEF ShellInv
  <1>3. CASE TestAsksOn
    <2>1. SessionInv'
      BY <1>3, <1>a, BeginInv DEF ShellInv, TestAsksOn, Begin, SessionInv, TypeOK
    <2>2. ShellTypeOK'
      BY <1>3, <1>b, <2>1 DEF ShellInv, ShellTypeOK, SessionInv, TestAsksOn
    <2>3. OnlyTheHolderIsInside' /\ OneAnswerAtATime'
      BY <1>3, <1>a
         DEF ShellInv, OnlyTheHolderIsInside, OneAnswerAtATime, SessionFree, TestAsksOn,
             Begin, BeginWith
    <2>4. FlagDownInside' /\ OpenInside'
      BY <1>3, <1>a
         DEF ShellInv, FlagDownInside, OpenInside, NoSessionNoServers, SessionFree, TestAsksOn,
             Begin, BeginWith
    <2> QED
      BY <2>1, <2>2, <2>3, <2>4 DEF ShellInv
  <1>4. CASE TestRecordsItsResult
    <2> USE DEF TestRecordsItsResult, TestLeaves, Return
    <2>1. SessionInv'
      BY <1>4, ReturnInv DEF ShellInv
    <2>2. ShellTypeOK'
      BY <1>4, <1>b, <2>1 DEF ShellInv, ShellTypeOK, SessionInv
    <2>3. OnlyTheHolderIsInside' /\ OneAnswerAtATime'
      BY <1>4, <1>a, SessionAssumption, ShellAssumption
         DEF ShellInv, OnlyTheHolderIsInside, OneAnswerAtATime, SessionFree
    <2>4. FlagDownInside' /\ OpenInside'
      BY <1>4 DEF ShellInv, FlagDownInside, OpenInside, NoSessionNoServers, SessionFree,
                  serverVars
    <2> QED
      BY <2>1, <2>2, <2>3, <2>4 DEF ShellInv
  <1>5. CASE TestLetsGo
    <2> USE DEF TestLetsGo, TestLeaves, Return
    <2>1. SessionInv' /\ alive' = {}
      BY <1>5, ShutdownInv DEF ShellInv
    <2>a. open' \in BOOLEAN
      BY <1>5
    <2>2. ShellTypeOK'
      BY <1>5, <1>b, <2>1, <2>a DEF ShellInv, ShellTypeOK, SessionInv
    <2>3. OnlyTheHolderIsInside' /\ OneAnswerAtATime'
      BY <1>5, <1>a, SessionAssumption, ShellAssumption
         DEF ShellInv, OnlyTheHolderIsInside, OneAnswerAtATime, SessionFree
    <2>4. FlagDownInside' /\ OpenInside'
      BY <1>5, <2>1 DEF FlagDownInside, OpenInside, NoSessionNoServers, SessionFree
    <2> QED
      BY <2>1, <2>2, <2>3, <2>4 DEF ShellInv
  <1> QED
    BY <1>1, <1>2, <1>3, <1>4, <1>5 DEF TestStep

\* The thread inside goes on: it never touches the flag, and it runs only while
\* somebody holds the mutex of an open session.
LEMMA InsideInv ==
    ASSUME ShellInv, InsideStep
    PROVE  ShellInv'
  <1>1. SessionInv' /\ step # "idle" /\ step' # "idle" /\ flag' = flag
    BY SessionStepInv, SessionStepKeeps DEF ShellInv, InsideStep
  <1>2. ShellTypeOK'
    BY <1>1 DEF ShellInv, ShellTypeOK, SessionInv, InsideStep, shellVars
  <1>3. OnlyTheHolderIsInside' /\ OneAnswerAtATime'
    BY <1>1 DEF ShellInv, OnlyTheHolderIsInside, OneAnswerAtATime, SessionFree, InsideStep,
                shellVars
  <1>4. FlagDownInside' /\ OpenInside'
    BY <1>1 DEF ShellInv, OnlyTheHolderIsInside, FlagDownInside, OpenInside,
                NoSessionNoServers, SessionFree, InsideStep, shellVars
  <1> QED
    BY <1>1, <1>2, <1>3, <1>4 DEF ShellInv

\* The main thread.  It changes the flag and the settings only with the session
\* mutex free, that is between calls.
LEMMA MainInv ==
    ASSUME ShellInv,
           \/ TakesCommand \/ HistoryAnswers \/ ChapterAnswers \/ SettingReachesTheSession
           \/ CollectsPassages \/ \E t \in Timers : PressesStop(t)
    PROVE  ShellInv'
  <1> USE DEF TakesCommand, HistoryAnswers, ChapterAnswers, SettingReachesTheSession,
              CollectsPassages, PressesStop
  <1>1. SessionInv'
    BY QuietInv DEF ShellInv, SessionInv, TypeOK, sessionVars, serverVars, answerVars
  <1>2. ShellTypeOK'
    BY <1>1 DEF ShellInv, ShellTypeOK, SessionInv, shellVars
  <1>3. UNCHANGED <<step, open, sess, pc, test, busy, alive>>
    BY DEF sessionVars, shellVars, serverVars
  <1>4. OnlyTheHolderIsInside' /\ OneAnswerAtATime'
    BY <1>3 DEF ShellInv, OnlyTheHolderIsInside, OneAnswerAtATime, SessionFree
  <1>5. FlagDownInside' /\ OpenInside'
    BY <1>3 DEF ShellInv, OnlyTheHolderIsInside, FlagDownInside, OpenInside, NoSessionNoServers,
           SessionFree, sessionVars, shellVars, serverVars
  <1> QED
    BY <1>1, <1>2, <1>4, <1>5 DEF ShellInv

LEMMA CloseInv ==
    ASSUME ShellInv, SessionCloses
    PROVE  ShellInv'
  <1> USE DEF SessionCloses
  <1>a. step = "idle"
    BY DEF ShellInv, OnlyTheHolderIsInside
  <1>1. SessionInv' /\ alive' = {}
    <2>1. CASE open
      BY <2>1, <1>a, ShutdownInv DEF ShellInv
    <2>2. CASE ~open
      BY <2>2, QuietInv
         DEF ShellInv, OpenInside, NoSessionNoServers, SessionInv, TypeOK, serverVars
    <2> QED
      BY <2>1, <2>2
  <1>2. ShellTypeOK'
    BY <1>1 DEF ShellInv, ShellTypeOK, SessionInv
  <1>3. OnlyTheHolderIsInside' /\ OneAnswerAtATime'
    BY DEF ShellInv, OnlyTheHolderIsInside, OneAnswerAtATime, SessionFree
  <1>4. FlagDownInside' /\ OpenInside'
    BY <1>1, <1>a DEF FlagDownInside, OpenInside, NoSessionNoServers, SessionFree
  <1> QED
    BY <1>1, <1>2, <1>3, <1>4 DEF ShellInv

\* A server goes: a timer stops it, or it dies.
LEMMA GoneInv ==
    ASSUME ShellInv,
           \/ \E t \in Timers : TimerFires(t)
           \/ ServerDies /\ UNCHANGED shellVars
    PROVE  ShellInv'
  <1> USE DEF TimerFires, ServerDies
  <1>1. SessionInv' /\ alive' \subseteq alive
    BY ServerGoneInv DEF ShellInv
  <1>2. ShellTypeOK'
    BY <1>1 DEF ShellInv, ShellTypeOK, SessionInv, shellVars
  <1>3. OnlyTheHolderIsInside' /\ OneAnswerAtATime'
    BY DEF ShellInv, OnlyTheHolderIsInside, OneAnswerAtATime, SessionFree, shellVars
  <1>4. FlagDownInside' /\ OpenInside'
    BY <1>1 DEF ShellInv, FlagDownInside, OpenInside, NoSessionNoServers, SessionFree,
                shellVars
  <1> QED
    BY <1>1, <1>2, <1>3, <1>4 DEF ShellInv

LEMMA ShellNextInv == ShellInv /\ [Next]_vars => ShellInv'
  <1> SUFFICES ASSUME ShellInv, [Next]_vars
               PROVE  ShellInv'
    OBVIOUS
  <1>1. ASSUME NEW a \in Asks, AskStep(a)
        PROVE  ShellInv'
    BY <1>1, AskOutsideInv, AskInsideInv DEF AskStep
  <1>2. CASE UNCHANGED vars
    <2>1. SessionInv'
      BY <1>2, QuietInv DEF vars, sessionVars, serverVars, answerVars, ShellInv, SessionInv, TypeOK
    <2>2. ShellTypeOK'
      BY <1>2, <2>1 DEF ShellInv, ShellTypeOK, SessionInv, vars, shellVars
    <2>3. OnlyTheHolderIsInside' /\ OneAnswerAtATime'
      BY <1>2 DEF ShellInv, OnlyTheHolderIsInside, OneAnswerAtATime, SessionFree, vars,
                  shellVars, sessionVars
    <2>4. FlagDownInside' /\ OpenInside'
      BY <1>2 DEF ShellInv, FlagDownInside, OpenInside, NoSessionNoServers, SessionFree,
                  vars, shellVars, sessionVars
    <2> QED
      BY <2>1, <2>2, <2>3, <2>4 DEF ShellInv
  <1> QED
    BY <1>1, <1>2, TestInv, InsideInv, MainInv, CloseInv, GoneInv DEF Next, MainReturns

LEMMA ShellInvariant == Spec => []ShellInv
  BY ShellInitInv, ShellNextInv, PTL DEF Spec

-----------------------------------------------------------------------------
\* The window's process keeps to its types.
THEOREM ShellTypeCorrect == Spec => []ShellTypeOK
  <1>1. ShellInv => ShellTypeOK
    BY DEF ShellInv
  <1> QED
    BY <1>1, ShellInvariant, PTL

\* A call is under way exactly while its worker holds the session (lib.rs:594-611,
\* 696-730).
THEOREM CallsAreHeld == Spec => []OnlyTheHolderIsInside
  <1>1. ShellInv => OnlyTheHolderIsInside
    BY DEF ShellInv
  <1> QED
    BY <1>1, ShellInvariant, PTL

\* The busy flag admits one ask at a time, however many are made, and it stays up after
\* an ask that returned early, once that has happened for good (lib.rs:578-590).
THEOREM OneAnswer == Spec => []OneAnswerAtATime
  <1>1. ShellInv => OneAnswerAtATime
    BY DEF ShellInv
  <1> QED
    BY <1>1, ShellInvariant, PTL

\* The flag that Stop raises is never up while anybody could see it: in the window
\* it is the timer that ends an answer (lib.rs:651-675, session.rs:246).
THEOREM StopIsNeverHeard == Spec => []FlagDownInside
  <1>1. ShellInv => FlagDownInside
    BY DEF ShellInv
  <1> QED
    BY <1>1, ShellInvariant, PTL

\* No server is lost, whatever asks, self-tests and timers did (lib.rs:706-720,
\* session.rs:403-419).
THEOREM ShellLosesNoServer == Spec => []NoStrayServer
  <1>1. ShellInv => NoStrayServer
    BY DEF ShellInv, SessionInv
  <1> QED
    BY <1>1, ShellInvariant, PTL

\* None is left when the session is put away: by the window's end, by the button
\* that frees the memory, or by a self-test that failed (lib.rs:706-720, 877-884,
\* 1085-1103).
THEOREM ClosedMeansNoServers == Spec => []NoSessionNoServers
  <1>1. ShellInv => NoSessionNoServers
    BY DEF ShellInv, OpenInside
  <1> QED
    BY <1>1, ShellInvariant, PTL

\* The slot a timer reads names the answering model whenever one is held, and never
\* the search model (session.rs:74-102, lib.rs:666-675).
THEOREM TimersStopTheRightServer == Spec => []SlotNamesTheAnsweringModel
  <1>1. ShellInv => SlotNamesTheAnsweringModel
    BY DEF ShellInv, SessionInv
  <1> QED
    BY <1>1, ShellInvariant, PTL

\* Stop, and a timer however late, can stop the search model only while no answering
\* model is held and nothing is answered: process ids are given again, and only a
\* slot that has outlived its model can name one (session.rs:74-76, lib.rs:666-675).
THEOREM StopIsSelective == Spec => StopSparesTheSearchModel
  <1>1. ShellInv /\ [Next]_vars
            => [timer' # timer /\ embed \in alive /\ embed \notin alive'
                  => chat = NoPid /\ step \notin Answering]_vars
    <2> SUFFICES ASSUME ShellInv, Next, timer' # timer, embed \in alive, embed \notin alive'
                 PROVE  chat = NoPid /\ step \notin Answering
      OBVIOUS
    <2>1. /\ chat # NoPid => slot # embed
          /\ step \in Answering => chat # NoPid
      BY DEF ShellInv, SessionInv, SlotNamesTheAnsweringModel, HeldWhileAnswering
    <2>2. CASE \E t \in Timers : TimerFires(t)
      BY <2>1, <2>2 DEF TimerFires
    <2>3. CASE \E t \in Timers : PressesStop(t)
      BY <2>3 DEF PressesStop, serverVars
    <2>4. timer' = timer \/ (\E t \in Timers : TimerFires(t)) \/ \E t \in Timers : PressesStop(t)
      BY DEF Next, AskStep, TestStep, InsideStep, TakesCommand, MainReturns, CollectsPassages,
             ServerDies, shellVars, AskChecksTheModels, AskClaims, AskReadsTheSettings,
             AskIsDropped, AskEnters, AskCannotOpen, AskSaves, AskGivesUp, AskLeaves,
             TestStarts, TestEnters,
             TestCannotOpen, TestAsksOn, TestRecordsItsResult, TestLetsGo, TestLeaves,
             HistoryAnswers, ChapterAnswers, SettingReachesTheSession, SessionCloses
    <2> QED
      BY <2>2, <2>3, <2>4
  <1> QED
    BY <1>1, ShellInvariant, PTL DEF Spec, StopSparesTheSearchModel

\* The window is never given the passages of an earlier question: whenever it asks
\* for them, what waits belongs to the question under way or nothing does
\* (session.rs:62-67, lib.rs:639-648).
THEOREM WindowFindsWhatIsCurrent == Spec => []FoundIsCurrent
  <1> USE DEF FoundIsCurrent
  <1>1. Init => FoundIsCurrent
    BY DEF Init, SessionInit
  <1>2. ShellInv /\ FoundIsCurrent /\ [Next]_vars => FoundIsCurrent'
    <2> SUFFICES ASSUME ShellInv, FoundIsCurrent, [Next]_vars
                 PROVE  FoundIsCurrent'
      OBVIOUS
    <2>1. CASE SessionStep
      BY <2>1, FoundInSession
    <2>2. CASE \E a \in Asks : AskStep(a)
      BY <2>2 DEF AskStep, AskChecksTheModels, AskClaims, AskReadsTheSettings, AskIsDropped,
                  AskEnters,
                  AskCannotOpen, AskSaves, AskGivesUp, AskLeaves, Enter, BeginWith, Return,
                  sessionVars, answerVars, Working, Answering, Loading
    <2>3. CASE TestStep
      BY <2>3 DEF TestStep, TestStarts, TestEnters, TestCannotOpen, TestAsksOn,
                  TestRecordsItsResult, TestLetsGo, TestLeaves, Enter, Begin, BeginWith, Return,
                  sessionVars, answerVars, Working, Answering, Loading
    <2>4. CASE \/ TakesCommand \/ MainReturns \/ CollectsPassages \/ ServerDies
               \/ \E t \in Timers : PressesStop(t) \/ TimerFires(t)
      BY <2>4 DEF TakesCommand, MainReturns, CollectsPassages, ServerDies, PressesStop,
                  TimerFires, HistoryAnswers, ChapterAnswers, SettingReachesTheSession,
                  SessionCloses, sessionVars, answerVars, Working, Answering, Loading
    <2>5. CASE UNCHANGED vars
      BY <2>5 DEF vars, sessionVars, answerVars
    <2> QED
      BY <2>1, <2>2, <2>3, <2>4, <2>5 DEF Next, InsideStep
  <1> QED
    BY <1>1, <1>2, ShellInvariant, PTL DEF Spec

LEMMA ShellPromiseStep ==
    ShellInv /\ [Next]_vars => [Promise!PromiseNext]_(Promise!promiseVars)
  <1> SUFFICES ASSUME ShellInv, [Next]_vars
               PROVE  [Promise!PromiseNext]_(Promise!promiseVars)
    OBVIOUS
  <1>a. SessionInv /\ OnlyTheHolderIsInside
    BY DEF ShellInv
  <1>b. SessionFree => step \notin Working
    BY <1>a DEF OnlyTheHolderIsInside, Working, Answering, Loading
  <1>c. ASSUME NEW q \in Questions, Enter(q)
        PROVE  Promise!PromiseNext
    BY <1>b, <1>c, BeginAsks DEF Enter, Promise!PromiseNext
  <1>d. ASSUME Return, step \in Returned
        PROVE  Promise!PromiseNext
    BY <1>d, ReturnCollects DEF Return, Returned, Working, Answering, Loading, Promise!PromiseNext
  <1>1. ASSUME NEW a \in Asks, AskStep(a)
        PROVE  [Promise!PromiseNext]_(Promise!promiseVars)
    <2>1. CASE AskEnters(a)
      BY <1>c, <2>1, ShellAssumption DEF AskEnters
    <2>2. CASE AskSaves(a) \/ AskGivesUp(a)
      BY <1>d, <2>2 DEF AskSaves, AskGivesUp, Returned
    <2>3. CASE \/ AskChecksTheModels(a) \/ AskClaims(a) \/ AskReadsTheSettings(a) \/ AskIsDropped(a)
               \/ AskCannotOpen(a) \/ AskLeaves(a)
      BY <2>3 DEF AskChecksTheModels, AskClaims, AskReadsTheSettings, AskIsDropped,
                  AskCannotOpen, AskLeaves,
                  sessionVars, Promise!promiseVars
    <2> QED
      BY <1>1, <2>1, <2>2, <2>3 DEF AskStep
  <1>2. CASE TestStep
    <2>1. CASE TestEnters
      BY <1>c, <2>1, ShellAssumption DEF TestEnters
    <2>2. CASE TestAsksOn
      BY <2>2, BeginAsks, ShellAssumption
         DEF TestAsksOn, Begin, Working, Answering, Loading, Promise!PromiseNext
    <2>3. CASE TestRecordsItsResult \/ TestLetsGo
      BY <1>d, <2>3 DEF TestRecordsItsResult, TestLetsGo, TestLeaves, Returned
    <2>4. CASE TestStarts \/ TestCannotOpen
      BY <2>4 DEF TestStarts, TestCannotOpen, sessionVars, Promise!promiseVars
    <2> QED
      BY <1>2, <2>1, <2>2, <2>3, <2>4 DEF TestStep
  <1>3. CASE InsideStep
    BY <1>a, <1>3, SessionStepPromises DEF InsideStep
  <1>4. CASE \/ TakesCommand \/ MainReturns \/ CollectsPassages \/ ServerDies
             \/ \E t \in Timers : PressesStop(t) \/ TimerFires(t)
    BY <1>4 DEF TakesCommand, MainReturns, CollectsPassages, ServerDies, PressesStop, TimerFires,
                HistoryAnswers, ChapterAnswers, SettingReachesTheSession, SessionCloses,
                sessionVars, answerVars, Promise!promiseVars
  <1>5. CASE UNCHANGED vars
    BY <1>5 DEF vars, sessionVars, Promise!promiseVars
  <1> QED
    BY <1>1, <1>2, <1>3, <1>4, <1>5 DEF Next

\* In the window as in the harness, a text is shown only if the verifier passed that
\* very text, whoever waits, stops, closes or changes a setting meanwhile
\* (docs/API.md:19).
THEOREM WindowKeepsThePromise == Spec => KeepsThePromise
  <1>1. Init => Promise!PromiseInit
    BY PromiseInitially DEF Init
  <1> QED
    BY <1>1, ShellPromiseStep, ShellInvariant, PTL
       DEF Spec, KeepsThePromise, Promise!PromiseSpec
=============================================================================
