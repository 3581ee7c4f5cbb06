------------------------------ MODULE Session ------------------------------
(***************************************************************************)
(* One open session (core/src/session.rs): the two model servers it keeps, *)
(* and one question going through load, retrieve, generate, verify, retry  *)
(* and fall back.  A call holds `&mut self`, so at most one is under way:  *)
(* `step` is where it stands and `question` is whose it is.                *)
(*                                                                         *)
(* Module Harness puts these actions in the hands of the measurement       *)
(* harness, where a second thread holds the cancel flag and the process-id *)
(* slot; module Shell puts them in the hands of the window.                *)
(***************************************************************************)
EXTENDS Naturals, Sequences

CONSTANTS
    Questions,  \* who may call `ask`
    Models,     \* answering models the reader may choose
    NoOne,      \* no question, no model
    MaxPid      \* bound: how many process ids there are

ASSUME SessionAssumption ==
    /\ NoOne \notin Questions
    /\ NoOne \notin Models
    /\ Models # {}
    /\ MaxPid \in Nat \ {0}

VARIABLES
    flag,      \* Session.cancel
    embed,     \* process id of the search model, 0 for None
    chat,      \* process id of the answering model, 0 for None
    loaded,    \* Session.loaded_chat_model
    want,      \* engine.settings.chat_model
    slot,      \* Session.chat_pid, shared with whoever may stop the server
    found,     \* whose passages wait in Session.retrieved
    alive,     \* the process ids that are running
    step,      \* where the call under way stands
    question,  \* whose question it is
    attempts,  \* the verdict on each generation, in order
    shown      \* what the Answer carries

serverVars == <<embed, chat, loaded, slot, alive>>
answerVars == <<question, attempts, shown>>
sessionVars == <<flag, embed, chat, loaded, want, slot, found, alive, step,
                 question, attempts, shown>>

NoPid == 0
Pids == 1 .. MaxPid

\* A process id may be given again once nobody runs under it and its handle, whose
\* `finish` waits for it, is gone.  What else remembers it, the slot, is not asked.
FreePids == Pids \ (alive \cup {embed, chat})

Loading == {"loading", "reloading"}
Returned == {"answered", "failed", "cancelled"}
Answering == {"retrieving", "prompting", "reading", "checking"}
Working == Loading \cup Answering \cup {"settling"}
Steps == {"idle"} \cup Working \cup Returned

TypeOK ==
    /\ flag \in BOOLEAN
    /\ embed \in {NoPid} \cup Pids
    /\ chat \in {NoPid} \cup Pids
    /\ loaded \in Models \cup {NoOne}
    /\ want \in Models
    /\ slot \in {NoPid} \cup Pids
    /\ found \in Questions \cup {NoOne}
    /\ alive \subseteq Pids
    /\ step \in Steps
    /\ question \in Questions \cup {NoOne}
    /\ attempts \in Seq({"ok", "violation"})
    /\ Len(attempts) <= 2
    /\ shown \in {"nothing", "first", "second", "passages"}

\* Session::new: nothing loaded, nothing asked.
SessionInit ==
    /\ flag = FALSE
    /\ embed = NoPid
    /\ chat = NoPid
    /\ loaded = NoOne
    /\ want \in Models
    /\ slot = NoPid
    /\ found = NoOne
    /\ alive = {}
    /\ step = "idle"
    /\ question = NoOne
    /\ attempts = <<>>
    /\ shown = "nothing"

-----------------------------------------------------------------------------
(* Session::ask, its start: the flag comes down and no passages wait.  The   *)
(* answering model is the one the session was opened with or was given since.*)
\* Variant: the passages of the last question stay in their slot.
BeginsWithOldPassages(q, m) ==
    /\ step' = "loading"
    /\ want' = m
    /\ flag' = FALSE
    /\ question' = q
    /\ attempts' = <<>>
    /\ shown' = "nothing"
    /\ UNCHANGED <<found, serverVars>>

BeginWith(q, m) ==
    /\ step' = "loading"
    /\ want' = m
    /\ flag' = FALSE
    /\ found' = NoOne
    /\ question' = q
    /\ attempts' = <<>>
    /\ shown' = "nothing"
    /\ UNCHANGED serverVars

Begin(q) == BeginWith(q, want)

-----------------------------------------------------------------------------
(* ensure_loaded: the search model, then the answering model, each started   *)
(* only when its handle is None.  Whether the process behind a handle still  *)
(* runs is not looked at.                                                    *)

SearchModelLoads ==
    /\ step \in Loading
    /\ embed = NoPid
    /\ embed' \in FreePids
    /\ alive' = alive \cup {embed'}
    /\ UNCHANGED <<flag, chat, loaded, want, slot, found, step, answerVars>>

\* Variant: the handle is dropped and the process behind it is not stopped.
OldModelIsForgotten ==
    /\ step \in Loading
    /\ embed # NoPid
    /\ chat # NoPid
    /\ loaded # want
    /\ chat' = NoPid
    /\ loaded' = NoOne
    /\ UNCHANGED <<flag, embed, want, slot, found, alive, step, answerVars>>

\* The reader changed the model: the old server is stopped, the slot is not cleared.
OldModelStops ==
    /\ step \in Loading
    /\ embed # NoPid
    /\ chat # NoPid
    /\ loaded # want
    /\ alive' = alive \ {chat}
    /\ chat' = NoPid
    /\ loaded' = NoOne
    /\ UNCHANGED <<flag, embed, want, slot, found, step, answerVars>>

\* Variant: the new server's process id is not published.
AnsweringModelLoadsUnannounced ==
    /\ step \in Loading
    /\ embed # NoPid
    /\ chat = NoPid
    /\ chat' \in FreePids
    /\ loaded' = want
    /\ alive' = alive \cup {chat'}
    /\ UNCHANGED <<flag, embed, want, slot, found, step, answerVars>>

\* Variant: a process id that is there already is left in the slot.
AnsweringModelLoadsIntoAnEmptySlot ==
    /\ step \in Loading
    /\ embed # NoPid
    /\ chat = NoPid
    /\ chat' \in FreePids
    /\ slot' = IF slot = NoPid THEN chat' ELSE slot
    /\ loaded' = want
    /\ alive' = alive \cup {chat'}
    /\ UNCHANGED <<flag, embed, want, found, step, answerVars>>

AnsweringModelLoads ==
    /\ step \in Loading
    /\ embed # NoPid
    /\ chat = NoPid
    /\ chat' \in FreePids
    /\ slot' = chat'
    /\ loaded' = want
    /\ alive' = alive \cup {chat'}
    /\ UNCHANGED <<flag, embed, want, found, step, answerVars>>

\* Too little memory, no model file, a server that is not ready in time.
LoadFails ==
    /\ step \in Loading
    /\ embed = NoPid \/ chat = NoPid
    /\ step' = "failed"
    /\ UNCHANGED <<flag, want, found, serverVars, answerVars>>

BothLoaded ==
    /\ step \in Loading
    /\ embed # NoPid
    /\ chat # NoPid
    /\ loaded = want
    /\ step' = IF step = "loading" THEN "retrieving" ELSE "cancelled"
    /\ UNCHANGED <<flag, want, found, serverVars, answerVars>>

-----------------------------------------------------------------------------
(* Session::ask, from the query vector to the passages in their slot, and    *)
(* the one look at the flag outside a generation.                            *)

Retrieves ==
    /\ step = "retrieving"
    /\ embed \in alive
    /\ found' = question
    /\ step' = IF flag THEN "cancelled" ELSE "prompting"
    /\ UNCHANGED <<flag, want, serverVars, answerVars>>

\* The search model does not answer.
RetrievalFails ==
    /\ step = "retrieving"
    /\ step' = "failed"
    /\ UNCHANGED <<flag, want, found, serverVars, answerVars>>

-----------------------------------------------------------------------------
(* generate and complete_streaming.  The flag is looked at once the request  *)
(* is accepted and then between chunks, and not after the last of them.      *)

PromptAccepted ==
    /\ step = "prompting"
    /\ chat \in alive
    /\ step' = IF flag THEN "settling" ELSE "reading"
    /\ UNCHANGED <<flag, want, found, serverVars, answerVars>>

\* What a server sent before it died is still read to its end.
ReadsToTheEnd ==
    /\ step = "reading"
    /\ step' = "checking"
    /\ UNCHANGED <<flag, want, found, serverVars, answerVars>>

SeesTheFlag ==
    /\ step = "reading"
    /\ flag
    /\ step' = "settling"
    /\ UNCHANGED <<flag, want, found, serverVars, answerVars>>

\* Variant: a stream that breaks off is read again until Stop is pressed.
GenerationBreaksOnlyWhenStopped ==
    /\ step \in {"prompting", "reading"}
    /\ flag
    /\ step' = "settling"
    /\ UNCHANGED <<flag, want, found, serverVars, answerVars>>

\* The request or the stream breaks off: a cancellation if the flag is up, a
\* failure otherwise, and then the dead server is left where it is.
GenerationBreaks ==
    /\ step \in {"prompting", "reading"}
    /\ step' = IF flag THEN "settling" ELSE "failed"
    /\ UNCHANGED <<flag, want, found, serverVars, answerVars>>

\* Variant: a text that does not pass is written again, however often.
ChecksForever(verdict) ==
    /\ step = "checking"
    /\ attempts' = Append(attempts, verdict)
    /\ IF verdict = "violation"
       THEN step' = "prompting" /\ shown' = shown
       ELSE step' = "answered" /\ shown' = IF attempts = <<>> THEN "first" ELSE "second"
    /\ UNCHANGED <<flag, want, found, question, serverVars>>

\* Variant: the second text is shown without a look at its verdict.
ChecksOnce(verdict) ==
    /\ step = "checking"
    /\ attempts' = Append(attempts, verdict)
    /\ IF verdict = "violation" /\ attempts = <<>>
       THEN step' = "prompting" /\ shown' = shown
       ELSE step' = "answered" /\ shown' = IF attempts = <<>> THEN "first" ELSE "second"
    /\ UNCHANGED <<flag, want, found, question, serverVars>>

\* Verifier::check on what was written; one retry; then the passages alone.
Checks(verdict) ==
    /\ step = "checking"
    /\ attempts' = Append(attempts, verdict)
    /\ IF verdict = "violation" /\ attempts = <<>>
       THEN step' = "prompting" /\ shown' = shown
       ELSE /\ step' = "answered"
            /\ shown' = CASE verdict = "violation" -> "passages"
                          [] attempts = <<>> -> "first"
                          [] OTHER -> "second"
    /\ UNCHANGED <<flag, want, found, question, serverVars>>

-----------------------------------------------------------------------------
(* settle_after_cancel *)

PutDown ==
    /\ chat' = NoPid
    /\ loaded' = NoOne
    /\ slot' = NoPid

\* The process is gone: put it down; the next question pays for the load.
SettlesDead ==
    /\ step = "settling"
    /\ chat # NoPid
    /\ chat \notin alive
    /\ PutDown
    /\ step' = "cancelled"
    /\ UNCHANGED <<flag, embed, want, found, alive, answerVars>>

SettlesIdle ==
    /\ step = "settling"
    /\ chat = NoPid \/ chat \in alive
    /\ step' = "cancelled"
    /\ UNCHANGED <<flag, want, found, serverVars, answerVars>>

\* Variant: the handle goes and the process stays.
SettlesLeavingItRunning ==
    /\ step = "settling"
    /\ chat # NoPid
    /\ PutDown
    /\ step' = "reloading"
    /\ UNCHANGED <<flag, embed, want, found, alive, answerVars>>

\* Not idle within two seconds, which is also how a killed process looks where
\* an unreaped child still counts as alive: stop it and load again.
SettlesByRestart ==
    /\ step = "settling"
    /\ chat # NoPid
    /\ alive' = alive \ {chat}
    /\ PutDown
    /\ step' = "reloading"
    /\ UNCHANGED <<flag, embed, want, found, answerVars>>

-----------------------------------------------------------------------------
\* Variant: the search model is not stopped.
ShutdownOfTheChatOnly ==
    /\ flag' = TRUE
    /\ alive' = alive \ {chat}
    /\ chat' = NoPid
    /\ embed' = NoPid
    /\ loaded' = NoOne
    /\ UNCHANGED slot

\* Session::shutdown, and Drop.  The process-id slot keeps its last value.
Shutdown ==
    /\ flag' = TRUE
    /\ alive' = alive \ {chat, embed}
    /\ chat' = NoPid
    /\ embed' = NoPid
    /\ loaded' = NoOne
    /\ UNCHANGED slot

\* What a thread inside the session may do next.
SessionStep ==
    \/ SearchModelLoads
    \/ OldModelStops
    \/ AnsweringModelLoads
    \/ LoadFails
    \/ BothLoaded
    \/ Retrieves
    \/ RetrievalFails
    \/ PromptAccepted
    \/ ReadsToTheEnd
    \/ SeesTheFlag
    \/ GenerationBreaks
    \/ \E verdict \in {"ok", "violation"} : Checks(verdict)
    \/ SettlesDead
    \/ SettlesIdle
    \/ SettlesByRestart

\* A server dies by itself.
ServerDies ==
    /\ \E p \in alive : alive' = alive \ {p}
    /\ UNCHANGED <<flag, embed, chat, loaded, want, slot, found, step, answerVars>>
-----------------------------------------------------------------------------
(* Properties of the session, whoever drives it. *)

\* No server outlives the handle that owns it: whatever loads, model changes,
\* failures, restarts and shutdowns happened, every running server is one the
\* session still holds, so that Drop can stop it (session.rs:403-419).
NoStrayServer == alive \subseteq {embed, chat}

\* The process-id slot names the answering model whenever one is held, so Stop
\* reaches the server that is writing and never the search model
\* (session.rs:74-102).  Of a slot left over while none is held it says nothing.
SlotNamesTheAnsweringModel == chat # NoPid => slot = chat /\ chat # embed

\* While a question is under way the passages waiting for the window are that
\* question's or none, never those of the question before it (session.rs:62-67).
FoundIsCurrent ==
    step \in Working /\ question # NoOne => found \in {question, NoOne}

\* The reader is shown a text only if the verifier passed it (docs/API.md:19):
\* the session implements AnswerPromise.
Promise ==
    INSTANCE AnswerPromise WITH working <- step \in Working /\ question # NoOne

KeepsThePromise == Promise!PromiseSpec
=============================================================================
