--------------------------- MODULE AnswerPromise ---------------------------
(***************************************************************************)
(* What a reader is promised of an answer: at most two texts are written   *)
(* for a question, a text is shown only if the verifier passed that very   *)
(* text, and when neither passed the passages are shown instead.           *)
(***************************************************************************)
EXTENDS Sequences, Naturals

VARIABLES working, attempts, shown

promiseVars == <<working, attempts, shown>>

PromiseInit ==
    /\ working = FALSE
    /\ attempts = <<>>
    /\ shown = "nothing"

Ask ==
    /\ ~working
    /\ working' = TRUE
    /\ attempts' = <<>>
    /\ shown' = "nothing"

\* The text just written passes, and is what is shown.
Approve ==
    /\ working
    /\ Len(attempts) < 2
    /\ attempts' = Append(attempts, "ok")
    /\ shown' = IF Len(attempts) = 0 THEN "first" ELSE "second"
    /\ working' = FALSE

\* The text just written does not pass: another is written, once.
Reject ==
    /\ working
    /\ Len(attempts) < 2
    /\ attempts' = Append(attempts, "violation")
    /\ IF Len(attempts) = 0
       THEN UNCHANGED <<working, shown>>
       ELSE shown' = "passages" /\ working' = FALSE

\* A failure or a cancellation: nothing is shown.
GiveUp ==
    /\ working
    /\ working' = FALSE
    /\ UNCHANGED <<attempts, shown>>

\* The caller has what it was given, and nothing of it is kept.
Collect ==
    /\ ~working
    /\ attempts' = <<>>
    /\ shown' = "nothing"
    /\ UNCHANGED working

PromiseNext == Ask \/ Approve \/ Reject \/ GiveUp \/ Collect

PromiseSpec == PromiseInit /\ [][PromiseNext]_promiseVars
=============================================================================
