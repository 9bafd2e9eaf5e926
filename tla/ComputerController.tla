-------------------------- MODULE ComputerController --------------------------
(***************************************************************************)
(* ComputerController and the macOS helper it starts for every request: a  *)
(* gate (GatedCalls) whose input actions first ask which application is    *)
(* in front, and helper processes that live on their own.                  *)
(***************************************************************************)
EXTENDS GatedCalls

CONSTANT Inputs  \* the calls that type text or press keys; the others open or list

VARIABLES
    helper,  \* helper[c]: the helper process of call c
    cut      \* history: the calls whose request ended while their helper ran

controllerVars == <<gate, helper, cut>>

Helpers == {"none", "running", "exited", "killed"}

Silent == UNCHANGED <<helper, cut>>

\* The helper runs although the request that waits for it ends.
Outlived(c) == cut' = IF helper[c] = "running" THEN cut \cup {c} ELSE cut

First(c) == IF c \in Inputs THEN "held" ELSE "acting"

\* Policy refuses a call before it touches any state; such calls are not enumerated.
Execute(c) == Admit(c, First(c)) /\ Silent
AcquireComputer(c) == Enter(c, First(c)) /\ Silent

\* The helper names the frontmost application: another one, or no answer, refuses the
\* call, and so does an order that has come meanwhile.
Proceed(c) == at[c] = "held" /\ (Dispatch(c) \/ Refuse(c)) /\ Silent

\* The request's task starts the helper process.
Launch(c) ==
    /\ at[c] = "acting" /\ helper[c] = "none"
    /\ helper' = [helper EXCEPT ![c] = "running"]
    /\ UNCHANGED <<gate, cut>>

HelperExits(c) ==
    /\ helper[c] = "running"
    /\ helper' = [helper EXCEPT ![c] = "exited"]
    /\ UNCHANGED <<gate, cut>>

\* An answer that does not fit the request, or reports an error, is a failure.
Answer(c) ==
    /\ helper[c] = "exited"
    /\ \E ok \in BOOLEAN : Return(c, ok)
    /\ Silent

\* Mutant: a helper that does not answer in time is left running.
TimeoutLeaves(c) ==
    /\ helper[c] = "running"
    /\ Return(c, FALSE)
    /\ UNCHANGED <<helper, cut>>

\* A helper that does not answer in time is killed.
Timeout(c) ==
    /\ helper[c] = "running"
    /\ Return(c, FALSE)
    /\ helper' = [helper EXCEPT ![c] = "killed"]
    /\ UNCHANGED cut

\* A cancellation ends the request and not the process it waits for.
CancelRequest(c)  == Unwind(c) /\ Outlived(c) /\ UNCHANGED helper
AbandonRequest(c) == Abandon(c) /\ Outlived(c) /\ UNCHANGED helper

StopComputer   == Stop /\ Silent
ResumeComputer == Resume /\ Silent

ControllerStep(c) ==
    AcquireComputer(c) \/ Proceed(c) \/ Launch(c) \/ HelperExits(c) \/ Answer(c) \/ Timeout(c) \/ CancelRequest(c)

ControllerInit ==
    /\ GateInit
    /\ helper = [c \in Calls |-> "none"]
    /\ cut = {}

ControllerNext ==
    \/ StopComputer \/ ResumeComputer
    \/ \E c \in Calls : Execute(c) \/ AbandonRequest(c) \/ ControllerStep(c)

ControllerSpec == ControllerInit /\ [][ControllerNext]_controllerVars

-----------------------------------------------------------------------------
ControllerTypeOK ==
    /\ GateTypeOK
    /\ helper \in [Calls -> Helpers]
    /\ cut \subseteq Calls

\* Unless a cancellation has cut a request off from its helper, one helper process at a
\* time acts on the desktop, and only for the call that holds the lock.  (A cancelled
\* request leaves its helper running: MacHelperClient.request kills it on a timeout only.)
OneHelper ==
    \A c \in Calls : helper[c] = "running" => c \in cut \/ (holder = c /\ at[c] = "acting")

=============================================================================
