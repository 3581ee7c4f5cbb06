------------------------------ MODULE MCShell ------------------------------
(* Two asks and a self-test around one session; each Stop starts its own timer. *)
EXTENDS Shell

CONSTANTS a1, a2, selftest

MCAsks == {a1, a2}
MCQuestions == {a1, a2, selftest}
=============================================================================
