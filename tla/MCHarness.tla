----------------------------- MODULE MCHarness -----------------------------
(* Two questions, and one process id more than two servers need. *)
EXTENDS Harness
=============================================================================
