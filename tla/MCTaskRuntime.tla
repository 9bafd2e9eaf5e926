--------------------------- MODULE MCTaskRuntime ---------------------------
(***************************************************************************)
(* Small instances of TaskRuntime.                                         *)
(***************************************************************************)
EXTENDS TaskRuntime, TLC

CONSTANTS c1, c2

MCOnePlan   == {<<"recall", "remember">>}
MCTwoPlans  == {<<"recall">>, <<"remember", "recall">>}
MCCallers   == Permutations(Clients)

=============================================================================
