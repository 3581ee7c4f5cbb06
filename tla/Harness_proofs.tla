-------------------------- MODULE Harness_proofs --------------------------
(***************************************************************************)
(* The session in the hands of the harness: type correctness, what the     *)
(* handles and the slot say, and that an answer is what AnswerPromise says *)
(* it is, for every set of questions and any number of servers.            *)
(***************************************************************************)
EXTENDS Harness, Session_proofs

\* `ask` is called between calls only.
EntersBetweenCalls == place = "entering" => step \in {"idle", "answered"}

HarnessInv == SessionInv /\ HarnessTypeOK /\ EntersBetweenCalls

LEMMA HarnessInitInv == Init => HarnessInv
  BY SessionInitInv DEF Init, HarnessInv, HarnessTypeOK, EntersBetweenCalls, SessionInv

\* Every step of the harness, its watcher, its session and its servers preserves
\* the invariant.
LEMMA HarnessNextInv == HarnessInv /\ [Next]_vars => HarnessInv'
  <1> SUFFICES ASSUME HarnessInv, [Next]_vars
               PROVE  HarnessInv'
    OBVIOUS
  <1> DEFINE Rest == asked \subseteq Questions
                     /\ watcher \in {"none", "sleeping", "pressed"}
                     /\ place \in {"asking", "entering", "settling", "over"}
                     /\ EntersBetweenCalls
  <1> USE DEF EntersBetweenCalls
  <1>a. SessionInv /\ TypeOK /\ Rest
    BY DEF HarnessInv, HarnessTypeOK
  <1>b. SessionInv' /\ Rest' => HarnessInv'
    BY DEF HarnessInv, HarnessTypeOK, SessionInv
  <1>0. CASE HarnessTurnsToTheNext
    <2>1. SessionInv'
      BY <1>0, <1>a, QuietInv
         DEF HarnessTurnsToTheNext, sessionVars, serverVars, answerVars, TypeOK
    <2>2. Rest'
      BY <1>0, <1>a DEF HarnessTurnsToTheNext, sessionVars
    <2> QED
      BY <2>1, <2>2, <1>b
  <1>1. ASSUME NEW q \in Questions, HarnessAsks(q)
        PROVE  HarnessInv'
    <2>1. SessionInv'
      BY <1>1, <1>a, BeginInv DEF HarnessAsks, Begin, TypeOK
    <2>2. Rest'
      BY <1>1, <1>a DEF HarnessAsks
    <2> QED
      BY <2>1, <2>2, <1>b
  <1>2. CASE HarnessSettles
    <2>1. SessionInv'
      BY <1>2, <1>a
         DEF HarnessSettles, SessionInv, TypeOK, FewAttempts, SomebodyAsked,
             NoStrayServer, SlotNamesTheAnsweringModel, HeldWhileAnswering, Answering, serverVars,
             Steps, Working
    <2>2. Rest'
      BY <1>2, <1>a DEF HarnessSettles
    <2> QED
      BY <2>1, <2>2, <1>b
  <1>3. CASE HarnessSettled
    <2>1. SessionInv'
      BY <1>3, <1>a
         DEF HarnessSettled, SessionInv, TypeOK, FewAttempts, SomebodyAsked,
             NoStrayServer, SlotNamesTheAnsweringModel, HeldWhileAnswering, Answering, serverVars,
             answerVars, Steps
    <2>2. Rest'
      BY <1>3, <1>a DEF HarnessSettled
    <2> QED
      BY <2>1, <2>2, <1>b
  <1>4. CASE HarnessEnds
    <2>1. SessionInv'
      BY <1>4, <1>a, ShutdownInv DEF HarnessEnds
    <2>2. Rest'
      BY <1>4, <1>a DEF HarnessEnds
    <2> QED
      BY <2>1, <2>2, <1>b
  <1>5. CASE WatcherStep
    <2>1. SessionInv'
      <3>1. CASE WatcherRaisesTheFlag
        BY <3>1, <1>a, QuietInv DEF WatcherRaisesTheFlag, TypeOK
      <3>2. CASE WatcherStopsTheModel
        BY <3>2, <1>a, ServerGoneInv DEF WatcherStopsTheModel
      <3> QED
        BY <1>5, <3>1, <3>2 DEF WatcherStep
    <2>2. Rest'
      BY <1>5, <1>a DEF WatcherStep, WatcherRaisesTheFlag, WatcherStopsTheModel
    <2> QED
      BY <2>1, <2>2, <1>b
  <1>6. CASE SessionStep /\ UNCHANGED harnessVars
    BY <1>6, <1>a, <1>b, SessionStepInv, SessionStepKeeps
       DEF harnessVars, Working, Answering, Loading
  <1>7. CASE ServerDies /\ UNCHANGED harnessVars
    <2>1. SessionInv'
      BY <1>7, <1>a, ServerGoneInv DEF ServerDies
    <2> QED
      BY <1>7, <2>1, <1>a, <1>b DEF harnessVars, ServerDies
  <1>8. CASE UNCHANGED vars
    <2>1. SessionInv'
      BY <1>8, <1>a, QuietInv DEF vars, sessionVars, serverVars, answerVars, TypeOK
    <2> QED
      BY <1>8, <2>1, <1>a, <1>b DEF vars, sessionVars, harnessVars
  <1> QED
    BY <1>0, <1>1, <1>2, <1>3, <1>4, <1>5, <1>6, <1>7, <1>8 DEF Next, HarnessStep

LEMMA HarnessInvariant == Spec => []HarnessInv
  BY HarnessInitInv, HarnessNextInv, PTL DEF Spec

\* The harness and its session keep to their types; in particular no question is
\* judged a third time (session.rs:319-340).
THEOREM HarnessTypeCorrect == Spec => []HarnessTypeOK
  <1>1. HarnessInv => HarnessTypeOK
    BY DEF HarnessInv
  <1> QED
    BY <1>1, HarnessInvariant, PTL

\* Every running server is one the session holds, whatever was cancelled, killed,
\* restarted or failed (session.rs:198-242, 403-419).
THEOREM HarnessLosesNoServer == Spec => []NoStrayServer
  <1>1. HarnessInv => NoStrayServer
    BY DEF HarnessInv, SessionInv
  <1> QED
    BY <1>1, HarnessInvariant, PTL

\* The slot the watcher reads names the answering model whenever one is held
\* (session.rs:74-102, cli.rs:244-258).
THEOREM WatcherStopsTheRightServer == Spec => []SlotNamesTheAnsweringModel
  <1>1. HarnessInv => SlotNamesTheAnsweringModel
    BY DEF HarnessInv, SessionInv
  <1> QED
    BY <1>1, HarnessInvariant, PTL

\* The passages waiting are those of the question under way or none, through every
\* failure and cancellation (session.rs:62-67, 246-290).
THEOREM HarnessFoundIsCurrent == Spec => []FoundIsCurrent
  <1> USE DEF FoundIsCurrent
  <1>1. Init => FoundIsCurrent
    BY DEF Init, SessionInit
  <1>2. HarnessInv /\ FoundIsCurrent /\ [Next]_vars => FoundIsCurrent'
    <2> SUFFICES ASSUME HarnessInv, FoundIsCurrent, [Next]_vars
                 PROVE  FoundIsCurrent'
      OBVIOUS
    <2>1. CASE SessionStep
      BY <2>1, FoundInSession
    <2>2. CASE HarnessStep
      BY <2>2 DEF HarnessStep, HarnessTurnsToTheNext, HarnessAsks, Begin, BeginWith,
                  HarnessSettles, HarnessSettled, HarnessEnds, Working, Answering, Loading,
                  sessionVars
    <2>3. CASE WatcherStep \/ ServerDies \/ UNCHANGED vars
      BY <2>3 DEF WatcherStep, WatcherRaisesTheFlag, WatcherStopsTheModel, ServerDies, vars,
                  sessionVars, answerVars
    <2> QED
      BY <2>1, <2>2, <2>3 DEF Next
  <1> QED
    BY <1>1, <1>2, HarnessInvariant, PTL DEF Spec

-----------------------------------------------------------------------------
(* The end of the program: with it EndsWithNothingRunning is left to say that *)
(* the end comes.                                                            *)

NothingRunsAfterTheEnd ==
    place = "over" => alive = {} /\ step = "idle" /\ watcher = "none"

\* Whatever was cancelled, killed or failed, the end of the harness leaves no server,
\* no call and no watcher that could still act (session.rs:403-419, cli.rs:244-262).
THEOREM TheEndLeavesNothing == Spec => []NothingRunsAfterTheEnd
  <1> USE DEF NothingRunsAfterTheEnd
  <1>1. Init => NothingRunsAfterTheEnd
    BY DEF Init
  <1>2. HarnessInv /\ NothingRunsAfterTheEnd /\ [Next]_vars => NothingRunsAfterTheEnd'
    <2> SUFFICES ASSUME HarnessInv, NothingRunsAfterTheEnd, [Next]_vars
                 PROVE  NothingRunsAfterTheEnd'
      OBVIOUS
    <2>1. CASE HarnessEnds
      <3>1. alive \subseteq {embed, chat}
        BY DEF HarnessInv, SessionInv, NoStrayServer
      <3> QED
        BY <2>1, <3>1 DEF HarnessEnds, Shutdown
    <2>2. CASE HarnessSettles \/ HarnessSettled \/ HarnessTurnsToTheNext
                  \/ \E q \in Questions : HarnessAsks(q)
      BY <2>2 DEF HarnessSettles, HarnessSettled, HarnessTurnsToTheNext, HarnessAsks
    <2>3. CASE WatcherStep
      BY <2>3 DEF WatcherStep, WatcherRaisesTheFlag, WatcherStopsTheModel
    <2>4. CASE SessionStep /\ UNCHANGED harnessVars
      BY <2>4, SessionStepKeeps DEF harnessVars
    <2>5. CASE ServerDies /\ UNCHANGED harnessVars
      BY <2>5 DEF ServerDies, harnessVars
    <2>6. CASE UNCHANGED vars
      BY <2>6 DEF vars, sessionVars, harnessVars
    <2> QED
      BY <2>1, <2>2, <2>3, <2>4, <2>5, <2>6 DEF Next, HarnessStep
  <1> QED
    BY <1>1, <1>2, HarnessInvariant, PTL DEF Spec

-----------------------------------------------------------------------------
(* The session implements AnswerPromise. *)

LEMMA PromiseStep ==
    HarnessInv /\ [Next]_vars => [Promise!PromiseNext]_(Promise!promiseVars)
  <1> SUFFICES ASSUME HarnessInv, [Next]_vars
               PROVE  [Promise!PromiseNext]_(Promise!promiseVars)
    OBVIOUS
  <1> USE DEF Working, Answering, Loading, Promise!promiseVars
  <1>0. CASE HarnessTurnsToTheNext
    BY <1>0 DEF HarnessTurnsToTheNext, sessionVars
  <1>1. ASSUME NEW q \in Questions, HarnessAsks(q)
        PROVE  Promise!Ask
    <2>1. step \notin Working
      BY <1>1 DEF HarnessInv, EntersBetweenCalls, HarnessAsks
    <2> QED
      BY <1>1, <2>1, BeginAsks DEF HarnessAsks, Begin
  <1>2. CASE HarnessSettles
    BY <1>2 DEF HarnessSettles
  <1>3. CASE HarnessSettled
    BY <1>3 DEF HarnessSettled, Returned, answerVars
  <1>4. CASE HarnessEnds
    BY <1>4 DEF HarnessEnds, answerVars
  <1>5. CASE WatcherStep
    BY <1>5 DEF WatcherStep, WatcherRaisesTheFlag, WatcherStopsTheModel, answerVars
  <1>6. CASE ServerDies
    BY <1>6 DEF ServerDies, answerVars
  <1>7. CASE UNCHANGED vars
    BY <1>7 DEF vars, sessionVars
  <1>8. CASE SessionStep
    BY <1>8, SessionStepPromises DEF HarnessInv
  <1> QED
    BY <1>0, <1>1, <1>2, <1>3, <1>4, <1>5, <1>6, <1>7, <1>8
       DEF Next, HarnessStep, Promise!PromiseNext

\* A reader of an answer is shown a text only if the verifier passed that very
\* text, whatever was retried, cancelled, killed or failed (docs/API.md:19).
THEOREM HarnessKeepsThePromise == Spec => KeepsThePromise
  <1> QED
    <2>1. Init => Promise!PromiseInit
      BY PromiseInitially DEF Init
    <2> QED
      BY <2>1, PromiseStep, HarnessInvariant, PTL
         DEF Spec, KeepsThePromise, Promise!PromiseSpec
=============================================================================
