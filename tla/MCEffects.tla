------------------------------ MODULE MCEffects ------------------------------
(***************************************************************************)
(* A small instance of the three controllers.                              *)
(***************************************************************************)
EXTENDS Effects, TLC

CONSTANTS c1, c2, c3, allowedApp, otherApp

\* Two sessions with names of their own; the third call closes the first of them.
MCNamed == [c \in Calls |-> IF c = c2 THEN "second" ELSE "first"]

=============================================================================
