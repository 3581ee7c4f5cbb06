-------------------------- MODULE Session_proofs --------------------------
(***************************************************************************)
(* What every step of a session preserves, for any number of questions,    *)
(* models and servers.  Harness_proofs and Shell_proofs build on this.     *)
(***************************************************************************)
EXTENDS Session, TLAPS

\* No text beyond the second is ever asked for: before the verdict on a text at
\* most one text was judged, and none before the first prompt.
FewAttempts ==
    /\ step \in {"loading", "retrieving"} => attempts = <<>>
    /\ step \in {"prompting", "reading", "checking"} => Len(attempts) <= 1

\* A call that may still show something was made for a question.
SomebodyAsked ==
    step \in {"loading", "retrieving", "prompting", "reading", "checking"} => question # NoOne

\* From the end of the load until the text is judged both models are held.
HeldWhileAnswering == step \in Answering => chat # NoPid /\ embed # NoPid

SessionInv ==
    /\ TypeOK
    /\ FewAttempts
    /\ SomebodyAsked
    /\ NoStrayServer
    /\ SlotNamesTheAnsweringModel
    /\ HeldWhileAnswering

LEMMA NothingJudged == <<>> \in Seq({"ok", "violation"}) /\ Len(<<>>) = 0
  OBVIOUS

\* A new session satisfies the invariant.
LEMMA SessionInitInv == SessionInit => SessionInv
  <1> SUFFICES ASSUME SessionInit
               PROVE  SessionInv
    OBVIOUS
  <1>a. attempts \in Seq({"ok", "violation"}) /\ Len(attempts) <= 2
    <2>1. attempts = <<>>
      BY DEF SessionInit
    <2> QED
      BY <2>1, NothingJudged
  <1>1. TypeOK
    <2>1. flag \in BOOLEAN
      BY DEF SessionInit
    <2>2. embed \in {NoPid} \cup Pids /\ chat \in {NoPid} \cup Pids /\ slot \in {NoPid} \cup Pids
      BY DEF SessionInit
    <2>3. loaded \in Models \cup {NoOne} /\ want \in Models /\ found \in Questions \cup {NoOne}
      BY DEF SessionInit
    <2>4. alive \subseteq Pids
      BY DEF SessionInit
    <2>6. step \in Steps /\ question \in Questions \cup {NoOne}
          /\ shown \in {"nothing", "first", "second", "passages"}
      BY DEF SessionInit, Steps
    <2> QED
      BY <1>a, <2>1, <2>2, <2>3, <2>4, <2>6 DEF TypeOK
  <1>2. FewAttempts /\ SomebodyAsked
    BY NothingJudged DEF SessionInit, FewAttempts, SomebodyAsked
  <1>3. NoStrayServer /\ SlotNamesTheAnsweringModel
        /\ HeldWhileAnswering
    BY DEF SessionInit, NoStrayServer, SlotNamesTheAnsweringModel,
           HeldWhileAnswering, Answering, NoPid
  <1> QED
    BY <1>1, <1>2, <1>3 DEF SessionInv

\* Session::ask may begin on any session between calls.
LEMMA BeginInv ==
    ASSUME SessionInv, NEW q \in Questions, NEW m \in Models, BeginWith(q, m)
    PROVE  SessionInv'
  <1>a. attempts' \in Seq({"ok", "violation"}) /\ Len(attempts') <= 2
    <2>1. attempts' = <<>>
      BY DEF BeginWith
    <2> QED
      BY <2>1, NothingJudged
  <1>1. TypeOK'
    BY <1>a
       DEF SessionInv, BeginWith, TypeOK, serverVars, Steps, Working, Answering, Loading, Returned
  <1>2. (FewAttempts /\ SomebodyAsked)'
    BY NothingJudged, SessionAssumption DEF BeginWith, FewAttempts, SomebodyAsked
  <1>3. (NoStrayServer /\ SlotNamesTheAnsweringModel
         /\ HeldWhileAnswering)'
    BY DEF SessionInv, BeginWith, NoStrayServer, serverVars,
           SlotNamesTheAnsweringModel, HeldWhileAnswering, Answering
  <1> QED
    BY <1>1, <1>2, <1>3 DEF SessionInv

\* Every step of the call preserves it.
LEMMA SessionStepInv == SessionInv /\ SessionStep => SessionInv'
  <1> SUFFICES ASSUME SessionInv, SessionStep
               PROVE  SessionInv'
    OBVIOUS
  <1> USE SessionAssumption
      DEF SessionInv, TypeOK, FewAttempts, SomebodyAsked, NoStrayServer,
          serverVars, SlotNamesTheAnsweringModel, HeldWhileAnswering, NoPid, Pids, FreePids,
          Steps, Working, Answering, Loading, Returned, answerVars, PutDown
  <1>1. CASE SearchModelLoads
    BY <1>1 DEF SearchModelLoads
  <1>2. CASE OldModelStops
    BY <1>2 DEF OldModelStops
  <1>3. CASE AnsweringModelLoads
    BY <1>3 DEF AnsweringModelLoads
  <1>4. CASE LoadFails
    BY <1>4 DEF LoadFails
  <1>5. CASE BothLoaded
    BY <1>5 DEF BothLoaded
  <1>6. CASE Retrieves
    BY <1>6 DEF Retrieves
  <1>7. CASE RetrievalFails
    BY <1>7 DEF RetrievalFails
  <1>8. CASE PromptAccepted
    BY <1>8 DEF PromptAccepted
  <1>9. CASE ReadsToTheEnd
    BY <1>9 DEF ReadsToTheEnd
  <1>10. CASE SeesTheFlag
    BY <1>10 DEF SeesTheFlag
  <1>11. CASE GenerationBreaks
    BY <1>11 DEF GenerationBreaks
  <1>12. ASSUME NEW verdict \in {"ok", "violation"}, Checks(verdict)
         PROVE  SessionInv'
    BY <1>12 DEF Checks
  <1>13. CASE SettlesDead
    BY <1>13 DEF SettlesDead
  <1>14. CASE SettlesIdle
    BY <1>14 DEF SettlesIdle
  <1>15. CASE SettlesByRestart
    BY <1>15 DEF SettlesByRestart
  <1> QED
    BY <1>1, <1>2, <1>3, <1>4, <1>5, <1>6, <1>7, <1>8, <1>9, <1>10, <1>11, <1>12,
       <1>13, <1>14, <1>15 DEF SessionStep

\* What changes nothing in the session preserves its invariant, and so does a
\* change to the flag, the wanted model or the passages, or the end of a call.
LEMMA QuietInv ==
    SessionInv /\ UNCHANGED <<serverVars, step, answerVars>>
        /\ flag' \in BOOLEAN /\ want' \in Models /\ found' \in Questions \cup {NoOne}
    => SessionInv'
  BY DEF SessionInv, TypeOK, FewAttempts, SomebodyAsked, NoStrayServer,
         SlotNamesTheAnsweringModel, HeldWhileAnswering, serverVars, answerVars

\* A server that stops running, by itself or by its process id, is still held.
LEMMA ServerGoneInv ==
    SessionInv /\ alive' \subseteq alive
        /\ UNCHANGED <<flag, embed, chat, loaded, want, slot, found, step, answerVars>>
    => SessionInv'
  BY DEF SessionInv, TypeOK, FewAttempts, SomebodyAsked, NoStrayServer,
         SlotNamesTheAnsweringModel, HeldWhileAnswering, answerVars

\* Session::shutdown on a session between calls leaves no server.
LEMMA ShutdownInv ==
    SessionInv /\ Shutdown /\ step' = "idle" /\ UNCHANGED <<want, found>>
        /\ (UNCHANGED answerVars \/ (question' = NoOne /\ attempts' = <<>> /\ shown' = "nothing"))
    => SessionInv' /\ alive' = {}
  <1> SUFFICES ASSUME SessionInv, Shutdown, step' = "idle", UNCHANGED <<want, found>>,
                      UNCHANGED answerVars
                        \/ (question' = NoOne /\ attempts' = <<>> /\ shown' = "nothing")
               PROVE  SessionInv' /\ alive' = {}
    OBVIOUS
  <1>1. attempts' \in Seq({"ok", "violation"}) /\ Len(attempts') <= 2
    <2>1. CASE attempts' = <<>>
      BY <2>1, NothingJudged
    <2>2. CASE attempts' = attempts
      BY <2>2 DEF SessionInv, TypeOK
    <2> QED
      BY <2>1, <2>2 DEF answerVars
  <1>2. alive' = {}
    BY DEF SessionInv, NoStrayServer, Shutdown
  <1>3. /\ flag' \in BOOLEAN
        /\ question' \in Questions \cup {NoOne}
        /\ shown' \in {"nothing", "first", "second", "passages"}
    BY DEF Shutdown, SessionInv, TypeOK, answerVars
  <1>4. TypeOK'
    BY <1>1, <1>2, <1>3 DEF SessionInv, TypeOK, Shutdown, Steps
  <1> QED
    BY <1>2, <1>4
       DEF SessionInv, FewAttempts, SomebodyAsked, NoStrayServer, Shutdown,
           SlotNamesTheAnsweringModel, HeldWhileAnswering, Answering, TypeOK, NoPid, Pids

\* The end of a call: what it judged and showed is gone.
LEMMA ReturnInv ==
    SessionInv /\ step' = "idle" /\ question' = NoOne /\ attempts' = <<>> /\ shown' = "nothing"
        /\ UNCHANGED <<flag, want, found, serverVars>>
    => SessionInv'
  <1> SUFFICES ASSUME SessionInv, step' = "idle", question' = NoOne, attempts' = <<>>,
                      shown' = "nothing", UNCHANGED <<flag, want, found, serverVars>>
               PROVE  SessionInv'
    OBVIOUS
  <1>1. attempts' \in Seq({"ok", "violation"}) /\ Len(attempts') <= 2
    BY NothingJudged
  <1> QED
    BY <1>1
       DEF SessionInv, TypeOK, FewAttempts, SomebodyAsked, NoStrayServer,
           SlotNamesTheAnsweringModel, HeldWhileAnswering, Answering, serverVars, Steps

\* A step of a call neither begins nor ends it, and leaves the flag alone.
LEMMA SessionStepKeeps ==
    SessionStep => step \in Working /\ step # "idle" /\ step' # "idle" /\ flag' = flag
  BY DEF SessionStep, SearchModelLoads, OldModelStops, AnsweringModelLoads, LoadFails,
         BothLoaded, Retrieves, RetrievalFails, PromptAccepted, ReadsToTheEnd,
         SeesTheFlag, GenerationBreaks, Checks, SettlesDead, SettlesIdle,
         SettlesByRestart, Working, Answering, Loading

\* No step of a call mixes the passages of two questions.
LEMMA FoundInSession == FoundIsCurrent /\ SessionStep => FoundIsCurrent'
  BY DEF FoundIsCurrent, SessionStep, SearchModelLoads, OldModelStops, AnsweringModelLoads,
         LoadFails, BothLoaded, Retrieves, RetrievalFails, PromptAccepted, ReadsToTheEnd,
         SeesTheFlag, GenerationBreaks, Checks, SettlesDead, SettlesIdle, SettlesByRestart,
         Loading, Working, Answering, answerVars
-----------------------------------------------------------------------------
(* The session implements AnswerPromise, for whoever drives it. *)

LEMMA PromiseInitially == SessionInit => Promise!PromiseInit
  BY DEF SessionInit, Promise!PromiseInit, Working, Answering, Loading

LEMMA BeginAsks ==
    ASSUME NEW q \in Questions, NEW m, BeginWith(q, m), step \notin Working
    PROVE  Promise!Ask
  BY SessionAssumption DEF BeginWith, Promise!Ask, Working, Answering, Loading

\* A call that is over and forgotten.
LEMMA ReturnCollects ==
    ASSUME step \notin Working, step' = "idle", attempts' = <<>>, shown' = "nothing"
    PROVE  Promise!Collect
  BY DEF Promise!Collect, Working, Answering, Loading

LEMMA SessionStepPromises ==
    ASSUME SessionInv, SessionStep
    PROVE  [Promise!PromiseNext]_(Promise!promiseVars)
  <1> USE DEF Working, Answering, Loading, Promise!promiseVars
  <1>a. TypeOK /\ FewAttempts /\ SomebodyAsked
    BY DEF SessionInv
  <1>1. CASE SearchModelLoads \/ OldModelStops \/ AnsweringModelLoads
    BY <1>1 DEF SearchModelLoads, OldModelStops, AnsweringModelLoads, answerVars
  <1>2. CASE LoadFails \/ BothLoaded \/ Retrieves \/ RetrievalFails
    BY <1>2 DEF LoadFails, BothLoaded, Retrieves, RetrievalFails, answerVars,
                Promise!PromiseNext, Promise!GiveUp
  <1>3. CASE PromptAccepted \/ ReadsToTheEnd \/ SeesTheFlag \/ GenerationBreaks
    BY <1>3 DEF PromptAccepted, ReadsToTheEnd, SeesTheFlag, GenerationBreaks, answerVars,
                Promise!PromiseNext, Promise!GiveUp
  <1>4. CASE SettlesDead \/ SettlesIdle \/ SettlesByRestart
    BY <1>4 DEF SettlesDead, SettlesIdle, SettlesByRestart, answerVars,
                Promise!PromiseNext, Promise!GiveUp
  <1>5. ASSUME NEW verdict \in {"ok", "violation"}, Checks(verdict)
        PROVE  [Promise!PromiseNext]_(Promise!promiseVars)
    <2>1. /\ question # NoOne
          /\ Len(attempts) < 2
          /\ attempts \in Seq({"ok", "violation"})
          /\ Len(attempts) = 0 <=> attempts = <<>>
      BY <1>5, <1>a DEF Checks, SomebodyAsked, FewAttempts, TypeOK
    <2>2. CASE verdict = "ok"
      <3>1. Promise!Approve
        BY <1>5, <2>1, <2>2 DEF Checks, Promise!Approve
      <3> QED
        BY <3>1 DEF Promise!PromiseNext
    <2>3. CASE verdict = "violation"
      <3>1. Promise!Reject
        BY <1>5, <2>1, <2>3 DEF Checks, Promise!Reject
      <3> QED
        BY <3>1 DEF Promise!PromiseNext
    <2> QED
      BY <2>2, <2>3
  <1> QED
    BY <1>1, <1>2, <1>3, <1>4, <1>5 DEF SessionStep
=============================================================================
