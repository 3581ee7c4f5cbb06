------------------------------- MODULE Shell -------------------------------
(***************************************************************************)
(* The window's process (src-tauri/src/lib.rs): the main thread, which     *)
(* runs every synchronous command one at a time, the worker threads that   *)
(* carry `ask` and `run_self_test`, and the two-second timers `cancel_ask` *)
(* leaves behind.  They share the session behind one mutex, the database   *)
(* behind another, the busy flag and the process-id slot.                  *)
(*                                                                         *)
(* A worker holds the session mutex from entry to return, `sess` says who. *)
(* Every thread but the main one holds the database mutex only within a    *)
(* step, so it is held across steps exactly when the main thread waits for *)
(* the session with the database in hand: DbHeld.                          *)
(***************************************************************************)
EXTENDS Session, FiniteSets

CONSTANTS
    Asks,       \* calls of the `ask` command
    Test,       \* the self-test
    Timers,     \* presses of Stop
    TestRounds  \* questions in the self-test: SELF_TEST_IDS.len()

ASSUME ShellAssumption ==
    /\ Questions = Asks \cup {Test}
    /\ Test \notin Asks
    /\ TestRounds \in Nat \ {0}

VARIABLES
    open,   \* AppState.session holds a session
    sess,   \* which worker holds the session mutex
    busy,   \* AppState.busy
    pc,     \* where each ask stands
    test,   \* where the self-test stands
    round,  \* its question
    ui,     \* what the main thread is doing
    timer,  \* each press of Stop and the two seconds that follow it
    saved   \* the asks whose answer is in the history

shellVars == <<open, sess, busy, pc, test, round, ui, timer, saved>>
vars == <<sessionVars, shellVars>>

Claimed == {"claimed", "queued", "inside", "leaving"}
\* An ask refused after it set `busy`, and nobody else, keeps it set for good.
BusyPlaces == Claimed \cup {"dropped"}
AskPlaces == {"new", "checked", "done"} \cup BusyPlaces

\* history_get, history_export and app_info take the database, then the session.
DbHeld == ui = "history"

SessionFree == sess = NoOne

\* The worker gives the session back; what the call kept goes with it.
Return ==
    /\ sess' = NoOne
    /\ step' = "idle"
    /\ question' = NoOne
    /\ attempts' = <<>>
    /\ shown' = "nothing"

Running == {a \in Asks : pc[a] \notin {"new", "done", "dropped"}}

ShellTypeOK ==
    /\ TypeOK
    /\ open \in BOOLEAN
    /\ sess \in Questions \cup {NoOne}
    /\ busy \in BOOLEAN
    /\ pc \in [Asks -> AskPlaces]
    /\ test \in {"off", "queued", "inside"}
    /\ round \in 0 .. TestRounds
    /\ ui \in {"idle", "history", "waiting"}
    /\ timer \in [Timers -> {"unset", "running", "over"}]
    /\ saved \subseteq Asks

Init ==
    /\ SessionInit
    /\ open = FALSE
    /\ sess = NoOne
    /\ busy = FALSE
    /\ pc = [a \in Asks |-> "new"]
    /\ test = "off"
    /\ round = 0
    /\ ui = "idle"
    /\ timer = [t \in Timers |-> "unset"]
    /\ saved = {}

-----------------------------------------------------------------------------
(* ask *)

\* The settings are read under the database lock; a missing model file or a
\* failed checksum of the search model refuses the question there and then.
AskChecksTheModels(a) ==
    /\ pc[a] = "new"
    /\ ~DbHeld
    /\ \E place \in {"checked", "done"} : pc' = [pc EXCEPT ![a] = place]
    /\ UNCHANGED <<sessionVars, open, sess, busy, test, round, ui, timer, saved>>

\* Variant: the flag is set and its old value is not looked at.
AskClaimsAnyway(a) ==
    /\ pc[a] = "checked"
    /\ busy' = TRUE
    /\ pc' = [pc EXCEPT ![a] = "claimed"]
    /\ UNCHANGED <<sessionVars, open, sess, test, round, ui, timer, saved>>

\* busy.swap(true): a second question is refused rather than queued.
AskClaims(a) ==
    /\ pc[a] = "checked"
    /\ busy' = TRUE
    /\ pc' = [pc EXCEPT ![a] = IF busy THEN "done" ELSE "claimed"]
    /\ UNCHANGED <<sessionVars, open, sess, test, round, ui, timer, saved>>

AskReadsTheSettings(a) ==
    /\ pc[a] = "claimed"
    /\ ~DbHeld
    /\ pc' = [pc EXCEPT ![a] = "queued"]
    /\ UNCHANGED <<sessionVars, open, sess, busy, test, round, ui, timer, saved>>

\* A stored setting whose value is unknown, in compute_choice or engine_settings:
\* the question is refused, and `busy` is not put back.
AskIsDropped(a) ==
    /\ pc[a] = "claimed"
    /\ ~DbHeld
    /\ pc' = [pc EXCEPT ![a] = "dropped"]
    /\ UNCHANGED <<sessionVars, open, sess, busy, test, round, ui, timer, saved>>

\* Variant: the session is used without its mutex.
EnterWithoutTheMutex(q) ==
    /\ sess' = q
    /\ open' = TRUE
    /\ \E m \in IF open THEN {want} ELSE Models : BeginWith(q, m)

\* With the session mutex: the open session, or a new one with the settings read
\* earlier, and Session::ask begins.
Enter(q) ==
    /\ SessionFree
    /\ sess' = q
    /\ open' = TRUE
    /\ \E m \in IF open THEN {want} ELSE Models : BeginWith(q, m)

AskEnters(a) ==
    /\ pc[a] = "queued"
    /\ Enter(a)
    /\ pc' = [pc EXCEPT ![a] = "inside"]
    /\ UNCHANGED <<busy, test, round, ui, timer, saved>>

\* Engine::open fails: no session is left behind.
AskCannotOpen(a) ==
    /\ pc[a] = "queued"
    /\ SessionFree
    /\ ~open
    /\ pc' = [pc EXCEPT ![a] = "leaving"]
    /\ UNCHANGED <<sessionVars, open, sess, busy, test, round, ui, timer, saved>>

\* The answer is there; with the session mutex still held, the database is
\* taken to save it.  The save may fail, and then the answer is not returned.
AskSaves(a) ==
    /\ sess = a
    /\ step = "answered"
    /\ ~DbHeld
    /\ Return
    /\ pc' = [pc EXCEPT ![a] = "leaving"]
    /\ saved' \in {saved, saved \cup {a}}
    /\ UNCHANGED <<flag, want, found, serverVars, open, busy, test, round, ui,
                   timer>>

AskGivesUp(a) ==
    /\ sess = a
    /\ step \in {"failed", "cancelled"}
    /\ Return
    /\ pc' = [pc EXCEPT ![a] = "leaving"]
    /\ UNCHANGED <<flag, want, found, serverVars, open, busy, test, round, ui,
                   timer, saved>>

\* busy.store(false), after the session mutex was released.
AskLeaves(a) ==
    /\ pc[a] = "leaving"
    /\ busy' = FALSE
    /\ pc' = [pc EXCEPT ![a] = "done"]
    /\ UNCHANGED <<sessionVars, open, sess, test, round, ui, timer, saved>>

AskStep(a) ==
    \/ AskChecksTheModels(a)
    \/ AskClaims(a)
    \/ AskReadsTheSettings(a)
    \/ AskIsDropped(a)
    \/ AskEnters(a)
    \/ AskCannotOpen(a)
    \/ AskSaves(a)
    \/ AskGivesUp(a)
    \/ AskLeaves(a)

-----------------------------------------------------------------------------
(* run_self_test: no busy flag, the session mutex for all of its questions.  *)

TestStarts ==
    /\ test = "off"
    /\ ~DbHeld
    /\ test' = "queued"
    /\ UNCHANGED <<sessionVars, open, sess, busy, pc, round, ui, timer, saved>>

TestEnters ==
    /\ test = "queued"
    /\ Enter(Test)
    /\ test' = "inside"
    /\ round' = 1
    /\ UNCHANGED <<busy, pc, ui, timer, saved>>

TestCannotOpen ==
    /\ test = "queued"
    /\ SessionFree
    /\ ~open
    /\ test' = "off"
    /\ UNCHANGED <<sessionVars, open, sess, busy, pc, round, ui, timer, saved>>

\* self_test asks its next question: Session::ask on a session just answered.
TestAsksOn ==
    /\ sess = Test
    /\ step = "answered"
    /\ round < TestRounds
    /\ round' = round + 1
    /\ Begin(Test)
    /\ UNCHANGED <<open, sess, busy, pc, test, ui, timer, saved>>

TestLeaves ==
    /\ Return
    /\ test' = "off"
    /\ round' = 0
    /\ UNCHANGED <<want, found, busy, pc, ui, timer, saved>>

TestRecordsItsResult ==
    /\ sess = Test
    /\ step = "answered"
    /\ round = TestRounds
    /\ ~DbHeld
    /\ TestLeaves
    /\ UNCHANGED <<flag, serverVars, open>>

\* A question fails: the session is taken out and shut down.
TestLetsGo ==
    /\ sess = Test
    /\ step \in {"failed", "cancelled"}
    /\ TestLeaves
    /\ Shutdown
    /\ open' = FALSE

TestStep ==
    \/ TestStarts
    \/ TestEnters
    \/ TestCannotOpen
    \/ TestAsksOn
    \/ TestRecordsItsResult
    \/ TestLetsGo

-----------------------------------------------------------------------------
(* The main thread.  A command that needs the session blocks the thread, and *)
(* with it every other command, until a worker gives the session back.  Of   *)
(* those that need nothing else, "waiting" does not say which one it is.     *)

TakesCommand ==
    /\ ui = "idle"
    /\ ui' \in {"history", "waiting"}
    /\ UNCHANGED <<sessionVars, open, sess, busy, pc, test, round, timer, saved>>

\* The session mutex after the database mutex, then both are released.
HistoryAnswers ==
    /\ ui = "history"
    /\ SessionFree
    /\ ui' = "idle"
    /\ UNCHANGED <<sessionVars, open, sess, busy, pc, test, round, timer, saved>>

\* chapter releases the database before it asks for the session.
ChapterAnswers ==
    /\ ui = "waiting"
    /\ SessionFree
    /\ ui' = "idle"
    /\ UNCHANGED <<sessionVars, open, sess, busy, pc, test, round, timer, saved>>

\* set_setting puts the new settings into the session that is open, if one is.
SettingReachesTheSession ==
    /\ ui = "waiting"
    /\ SessionFree
    /\ want' \in IF open THEN Models ELSE {want}
    /\ ui' = "idle"
    /\ UNCHANGED <<flag, found, step, serverVars, answerVars, open, sess, busy, pc,
                   test, round, timer, saved>>

\* shutdown_models and the window's close event.
SessionCloses ==
    /\ ui = "waiting"
    /\ SessionFree
    /\ IF open THEN Shutdown ELSE UNCHANGED <<flag, serverVars>>
    /\ open' = FALSE
    /\ ui' = "idle"
    /\ UNCHANGED <<want, found, step, answerVars, sess, busy, pc, test, round, timer,
                   saved>>

\* Variant: the flag is raised whoever holds the session.
PressesStopDirectly(t) ==
    /\ ui = "idle"
    /\ timer[t] = "unset"
    /\ Running # {}
    /\ flag' = IF open THEN TRUE ELSE flag
    /\ timer' = [timer EXCEPT ![t] = "running"]
    /\ UNCHANGED <<want, found, step, serverVars, answerVars, open, sess, busy, pc,
                   test, round, ui, saved>>

\* cancel_ask: the flag only if the session mutex can be had at once, and a timer.
PressesStop(t) ==
    /\ ui = "idle"
    /\ timer[t] = "unset"
    /\ Running # {}
    /\ flag' = IF SessionFree /\ open THEN TRUE ELSE flag
    /\ timer' = [timer EXCEPT ![t] = "running"]
    /\ UNCHANGED <<want, found, step, serverVars, answerVars, open, sess, busy, pc,
                   test, round, ui, saved>>

\* retrieved_passages takes what is there and needs no session.
CollectsPassages ==
    /\ ui = "idle"
    /\ found # NoOne
    /\ found' = NoOne
    /\ UNCHANGED <<flag, want, step, serverVars, answerVars, shellVars>>

MainReturns ==
    \/ HistoryAnswers
    \/ ChapterAnswers
    \/ SettingReachesTheSession
    \/ SessionCloses

\* Two seconds after Stop: whatever is busy by then loses the server in the slot.
TimerFires(t) ==
    /\ timer[t] = "running"
    /\ alive' = IF busy THEN alive \ {slot} ELSE alive
    /\ timer' = [timer EXCEPT ![t] = "over"]
    /\ UNCHANGED <<flag, embed, chat, loaded, want, slot, found, step,
                   answerVars, open, sess, busy, pc, test, round, ui, saved>>

InsideStep == SessionStep /\ UNCHANGED shellVars

Next ==
    \/ \E a \in Asks : AskStep(a)
    \/ TestStep
    \/ InsideStep
    \/ TakesCommand
    \/ MainReturns
    \/ \E t \in Timers : PressesStop(t)
    \/ CollectsPassages
    \/ \E t \in Timers : TimerFires(t)
    \/ ServerDies /\ UNCHANGED shellVars

\* Threads that can run do run.  The reader need not press anything.  A blocked
\* worker gets a mutex that stays free; nothing is assumed of one that is taken
\* and given back again and again.
Fairness ==
    /\ \A a \in Asks : WF_vars(AskStep(a))
    /\ WF_vars(TestStep /\ test # "off")
    /\ WF_vars(InsideStep)
    /\ WF_vars(MainReturns)
    /\ \A t \in Timers : WF_vars(TimerFires(t))

Spec == Init /\ [][Next]_vars /\ Fairness
-----------------------------------------------------------------------------
(* What holds. *)

\* A call is under way in the session exactly while a worker holds the mutex,
\* and that worker is the ask or the self-test that entered.
OnlyTheHolderIsInside ==
    /\ step = "idle" <=> SessionFree
    /\ \A a \in Asks : sess = a <=> pc[a] = "inside"
    /\ sess = Test <=> test = "inside"

\* One question at a time, "so a second Ask is refused" (lib.rs:54-55): no two asks
\* are past the claim, and the busy flag is up exactly while one is or since one was
\* dropped there (lib.rs:586-590).  A dropped ask is the last that ever claims.
OneAnswerAtATime ==
    /\ busy <=> \E a \in Asks : pc[a] \in BusyPlaces
    /\ \A a, b \in Asks : pc[a] \in BusyPlaces /\ pc[b] \in BusyPlaces => a = b

\* A press of Stop never reaches the thread that is writing: `cancel_ask` raises
\* the flag only when the session mutex is free, and entering lowers it again
\* (lib.rs:651-661, session.rs:246).  What ends a stopped answer is the timer.
FlagDownInside == step # "idle" => ~flag

\* When no session is open no model server runs: closing the window, and a
\* self-test that lets go of everything, leave nothing behind (lib.rs:706-720,
\* 1086-1089).
NoSessionNoServers == ~open => alive = {}

\* Stopping an answer does not cost the reader the search model (session.rs:74-76),
\* though process ids are given again: a timer can stop it only while no answering
\* model is held and nothing is being answered, by an id the slot has kept from a
\* model that was stopped (session.rs:166, 406-411).
StopSparesTheSearchModel ==
    [][timer' # timer /\ embed \in alive /\ embed \notin alive'
        => chat = NoPid /\ step \notin Answering]_vars

\* The worker waits for the database with the session in hand, the main thread
\* for the session with the database in hand.
LockCycle ==
    /\ DbHeld
    /\ step = "answered"
    /\ sess # Test \/ round = TestRounds

\* A question that reached the session comes back to the reader, unless it meets
\* the one lock cycle there is (lib.rs:596-613).
EveryAskReturns ==
    \A a \in Asks : pc[a] = "inside" ~> (pc[a] = "done" \/ LockCycle)

-----------------------------------------------------------------------------
(* What the documents say and the code does not keep. *)

\* docs/API.md, "ask(question) ... returns the Answer above and saves it to
\* history": an answer that was written is returned.
AnswersAreReturned ==
    \A a \in Asks : (sess = a /\ step = "answered") ~> pc[a] = "done"

\* lib.rs:640-642, "the flag is set, and the thread reading the answer sees it
\* between chunks".
StopRaisesTheFlag ==
    [][(\E t \in Timers : PressesStop(t)) /\ step = "reading" /\ sess # Test => flag']_vars

\* session.rs:98-99 and lib.rs:646-648, "the answering model is stopped outright
\* and the session starts it again": once the last Stop has done its work and
\* the session is free, every later question has a running model to write it.
StoppedModelIsStartedAgain ==
    [](SessionFree /\ (\A t \in Timers : timer[t] = "over")
        => [](step = "prompting" => chat \in alive))

\* The system when no server dies by itself.
SpecWithoutCrashes ==
    Init /\ [][Next /\ ~(ServerDies /\ UNCHANGED shellVars)]_vars /\ Fairness
=============================================================================
