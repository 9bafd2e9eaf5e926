---------------------------- MODULE MCTaskLease ----------------------------
(***************************************************************************)
(* Two API processes, p2's clock one unit ahead; TTL = 3 * Beat as in      *)
(* TaskRunner (30 and 10 seconds).                                         *)
(***************************************************************************)
EXTENDS TaskLease

CONSTANTS p1, p2, p3

MCSkew == [p \in Procs |-> IF p = p1 THEN 0 ELSE 1]

=============================================================================
