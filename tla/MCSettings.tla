---------------------------- MODULE MCSettings ----------------------------
(* An ask and the self-test beside the main thread; a card that holds the    *)
(* smaller model and not the standard one.                                   *)
EXTENDS Settings

CONSTANTS ask, selftest, standard, smaller

MCWorkers == {ask, selftest}
MCModels == {standard, smaller}
MCNeeds == [m \in MCModels |-> IF m = standard THEN 3 ELSE 2]
=============================================================================
