----------------------------- MODULE TaskLedger -----------------------------
(***************************************************************************)
(* What a task promises to whoever reads its row: a status, a plan, the    *)
(* steps proved by recorded evidence, and whether its work is over.  Runs, *)
(* leases, checkpoints, retries, requests and losses of the process are    *)
(* not visible here.                                                       *)
(***************************************************************************)
EXTENDS Naturals, Sequences

CONSTANTS
    Plans,     \* the plans a task may be given
    MaxSteps   \* bound on the length of a plan

VARIABLES
    status,    \* the task's status
    plan,      \* its plan
    evidence,  \* the steps with recorded evidence
    closed     \* its graph has finished for good

ledger == <<status, plan, evidence, closed>>

Ended   == {"success", "cancelled"}
Ongoing == {"queued", "planning", "running", "waiting", "failed"}
Open    == status \in Ongoing /\ ~closed

Init == status = "queued" /\ plan = <<>> /\ evidence = {} /\ ~closed

\* Any status but the two final ones, while the task is open.
Move ==
    /\ Open
    /\ status' \in Ongoing
    /\ UNCHANGED <<plan, evidence, closed>>

\* A task may be planned anew as long as it is open; its evidence stays.
Adopt ==
    /\ Open
    /\ plan' \in Plans
    /\ status' = "running"
    /\ UNCHANGED <<evidence, closed>>

\* Steps of the plan are proved in order.
Prove(i) ==
    /\ Open
    /\ i \in DOMAIN plan
    /\ 1..(i - 1) \subseteq evidence
    /\ evidence' = evidence \cup {i}
    /\ UNCHANGED <<status, plan, closed>>

Succeed ==
    /\ Open
    /\ DOMAIN plan \subseteq evidence
    /\ status' = "success"
    /\ UNCHANGED <<plan, evidence, closed>>

Cancel ==
    /\ Open
    /\ status' = "cancelled"
    /\ UNCHANGED <<plan, evidence, closed>>

\* Two late writes can hide a final status: the failure of the node that announces
\* it, while the work goes on, and a resume that was checked before it.
Overwrite ==
    /\ status \in Ended
    /\ status' = "queued" \/ (status' = "failed" /\ ~closed)
    /\ UNCHANGED <<plan, evidence, closed>>

\* The work is over; it is final, unless a resume has hidden it.
Close ==
    /\ ~closed /\ status \in Ended \cup {"queued"}
    /\ closed' = TRUE
    /\ UNCHANGED <<status, plan, evidence>>

Next == Move \/ Adopt \/ (\E i \in 1..MaxSteps : Prove(i)) \/ Succeed \/ Cancel \/ Overwrite \/ Close

Spec == Init /\ [][Next]_ledger

=============================================================================
