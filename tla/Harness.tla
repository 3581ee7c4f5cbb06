------------------------------ MODULE Harness ------------------------------
(***************************************************************************)
(* The measurement harness: `pastor-bible-cli session` (core/src/bin/      *)
(* cli.rs).  One session, several questions, and for each of them, when    *)
(* --cancel-after is given, a watcher thread that raises the flag and two  *)
(* seconds later stops the answering model by its process id.              *)
(***************************************************************************)
EXTENDS Session

VARIABLES
    asked,    \* the questions asked so far
    watcher,  \* the watcher thread of the question under way
    place     \* where cmd_session stands

harnessVars == <<asked, watcher, place>>
vars == <<sessionVars, harnessVars>>

Init ==
    /\ SessionInit
    /\ asked = {}
    /\ watcher = "none"
    /\ place = "asking"

\* The next question, once the watcher of the last one was joined: with
\* --cancel-after a new watcher starts before `ask` does.
HarnessTurnsToTheNext ==
    /\ place = "asking"
    /\ step \in {"idle", "answered"}
    /\ watcher = "none"
    /\ asked # Questions
    /\ watcher' \in {"none", "sleeping"}
    /\ place' = "entering"
    /\ UNCHANGED <<sessionVars, asked>>

\* Session::ask lowers the flag, the watcher's too if that was quicker.
HarnessAsks(q) ==
    /\ place = "entering"
    /\ q \notin asked
    /\ Begin(q)
    /\ asked' = asked \cup {q}
    /\ place' = "asking"
    /\ UNCHANGED watcher

WatcherRaisesTheFlag ==
    /\ watcher = "sleeping"
    /\ flag' = TRUE
    /\ watcher' = "pressed"
    /\ UNCHANGED <<want, found, step, serverVars, answerVars, asked, place>>

WatcherStopsTheModel ==
    /\ watcher = "pressed"
    /\ alive' = alive \ {slot}
    /\ watcher' = "none"
    /\ UNCHANGED <<flag, embed, chat, loaded, want, slot, found, step,
                   answerVars, asked, place>>

\* A cancelled question: cancel_and_settle, whose own outcome is not looked at.
HarnessSettles ==
    /\ place = "asking"
    /\ step = "cancelled"
    /\ watcher = "none"
    /\ flag' = TRUE
    /\ step' = "settling"
    /\ question' = NoOne
    /\ place' = "settling"
    /\ UNCHANGED <<want, found, serverVars, attempts, shown, asked, watcher>>

HarnessSettled ==
    /\ place = "settling"
    /\ step \in Returned
    /\ step' = "idle"
    /\ place' = "asking"
    /\ UNCHANGED <<flag, want, found, serverVars, answerVars, asked, watcher>>

\* A failed question ends the program, and so does the last one.
HarnessEnds ==
    /\ place = "asking"
    /\ watcher = "none"
    /\ step = "failed" \/ (step \in {"idle", "answered"} /\ asked = Questions)
    /\ Shutdown
    /\ step' = "idle"
    /\ place' = "over"
    /\ UNCHANGED <<want, found, answerVars, asked, watcher>>

WatcherStep == WatcherRaisesTheFlag \/ WatcherStopsTheModel

HarnessStep ==
    \/ HarnessTurnsToTheNext
    \/ \E q \in Questions : HarnessAsks(q)
    \/ HarnessSettles
    \/ HarnessSettled
    \/ HarnessEnds

\* The harness reads its settings once, so `want` stays as it is.
Next ==
    \/ HarnessStep
    \/ WatcherStep
    \/ SessionStep /\ UNCHANGED harnessVars
    \/ ServerDies /\ UNCHANGED harnessVars

\* Each thread runs on: a server that hangs is given up by the read timeout.
Spec ==
    /\ Init
    /\ [][Next]_vars
    /\ WF_vars(SessionStep /\ UNCHANGED harnessVars)
    /\ WF_vars(HarnessStep)
    /\ WF_vars(WatcherStep)

-----------------------------------------------------------------------------
HarnessTypeOK ==
    /\ TypeOK
    /\ asked \subseteq Questions
    /\ watcher \in {"none", "sleeping", "pressed"}
    /\ place \in {"asking", "entering", "settling", "over"}

\* The harness gets through its questions, and when it is done no model server
\* is left, whatever was cancelled, killed or failed on the way
\* (session_lifecycle.rs:95-97).
EndsWithNothingRunning == <>[](place = "over" /\ alive = {})
=============================================================================
