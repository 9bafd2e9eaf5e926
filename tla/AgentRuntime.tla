---------------------------- MODULE AgentRuntime ----------------------------
(***************************************************************************)
(* The bounded workforce: AgentRuntime over the agents and                 *)
(* agent_assignments tables.  delegate creates temporary workers, runs one *)
(* assignment on each and terminates them; assign runs one assignment on   *)
(* an existing agent; the lifecycle endpoints pause, resume and terminate  *)
(* agents meanwhile.                                                       *)
(*                                                                         *)
(* Every transition is the code between two awaits.  An assignment's pc is *)
(* the await its _execute_assignment coroutine is suspended on; a          *)
(* cancelled coroutine gets CancelledError at that await, whether or not   *)
(* the statement it was waiting for has reached the database.              *)
(***************************************************************************)
EXTENDS Naturals, Sequences, FiniteSets

CONSTANTS
    Delegations,  \* calls of delegate
    Team,         \* Team[d]: the workers d creates, in order (ids are fresh uuids)
    Hired,        \* agents created by the create and clone endpoints
    Assigns,      \* calls of assign
    Clients,      \* callers of the lifecycle endpoints
    Ops,          \* the lifecycle operations they call
    Permits,      \* global_max_concurrency
    MaxCalls,     \* bound on the lifecycle calls
    MaxFaults,    \* bound on the publishes that raise
    Nobody        \* no agent, no assignment

\* delegate refuses more workers.
MaxWorkers == 10

Crew(d) == {Team[d][i] : i \in DOMAIN Team[d]}
Hands   == UNION {Crew(d) : d \in Delegations}
Agents  == Hands \cup Hired
\* An assignment of a delegation is named by its worker, any other by its call.
Jobs    == Hands \cup Assigns

ASSUME TeamAssumption ==
    /\ \A d \in Delegations : \E n \in 1..MaxWorkers : DOMAIN Team[d] = 1..n /\ Len(Team[d]) = n
    /\ \A d, e \in Delegations : \A i \in DOMAIN Team[d], j \in DOMAIN Team[e] :
          Team[d][i] = Team[e][j] => d = e /\ i = j
    /\ Hired \cap Hands = {}
    /\ Assigns \cap Hands = {}
ASSUME JobsAssumption == IsFiniteSet(Jobs) /\ Nobody \notin Jobs \cup Agents
ASSUME OpsAssumption == Ops \subseteq {"pause", "resume", "terminate"}
ASSUME BoundsAssumption == Permits \in Nat \ {0} /\ MaxCalls \in Nat /\ MaxFaults \in Nat

VARIABLES
    \* --- the database ---
    agents,   \* agents[w]: AgentStatus, "absent" before the row
    rows,     \* rows[j]: AssignmentStatus, "absent" before the row
    sent,     \* the assignments whose assignment.result message is stored
    \* --- the process ---
    at,       \* at[j]: where j's coroutine is
    onto,     \* onto[j]: the agent j runs on
    doomed,   \* the coroutines with a cancellation on its way
    running,  \* _running: agent -> assignment
    awaited,  \* the assign calls that still await their task
    permits,  \* the semaphore's value
    deleg,    \* deleg[d]: the pc of a delegate call and the worker it is at
    call,     \* call[c]: the lifecycle call c has checked and not yet written
    phase,    \* serving, stopping (shutdown awaits the tasks it owned) or down
    \* --- bounds ---
    calls, faults

db   == <<agents, rows, sent>>
proc == <<at, onto, doomed, running, awaited, permits>>
vars == <<db, proc, deleg, call, phase, calls, faults>>

Ended == {"returned", "raised", "cancelled"}
Live  == {"scheduled", "announcing", "acquiring", "working", "recording",
          "reporting", "closing", "failing", "cancelling"}
Final == {"success", "failed", "cancelled"}
Over  == {"returned", "raised"}

DelegPc == {"idle", "creating", "enlisting", "announcing", "gathering",
            "cleaning", "retiring", "terminating"} \cup Over

\* j's coroutine moves on; a cancelled one only unwinds.
Step(j, from, to) ==
    /\ at[j] = from /\ j \notin doomed
    /\ at' = [at EXCEPT ![j] = to]

\* events.publish raises: only RuntimeError is caught, and a websocket that is gone
\* raises WebSocketDisconnect.
Fault == faults < MaxFaults /\ faults' = faults + 1

-----------------------------------------------------------------------------
(* _execute_assignment                                                     *)

\* The status it checks is that of the record its caller read or created.
MarkRunning(j) ==
    /\ Step(j, "scheduled", "announcing")
    /\ rows' = [rows EXCEPT ![j] = "running"]
    /\ UNCHANGED <<agents, sent, onto, doomed, running, awaited, permits, deleg, call, phase, calls, faults>>

\* The started event is published before the try: a fault here leaves the row running.
AnnounceStart(j) ==
    /\ \/ Step(j, "announcing", "acquiring") /\ UNCHANGED faults
       \/ Step(j, "announcing", "raised") /\ Fault
    /\ UNCHANGED <<db, onto, doomed, running, awaited, permits, deleg, call, phase, calls>>

AcquirePermit(j) ==
    /\ Step(j, "acquiring", "working")
    /\ permits > 0
    /\ permits' = permits - 1
    /\ UNCHANGED <<db, onto, doomed, running, awaited, deleg, call, phase, calls, faults>>

\* The executor answers within its budget; or it raises, times out or overspends.
Work(j) ==
    /\ Step(j, "working", "recording") \/ Step(j, "working", "failing")
    /\ permits' = permits + 1
    /\ UNCHANGED <<db, onto, doomed, running, awaited, deleg, call, phase, calls, faults>>

RecordSuccess(j) ==
    /\ Step(j, "recording", "reporting")
    /\ rows' = [rows EXCEPT ![j] = "success"]
    /\ UNCHANGED <<agents, sent, onto, doomed, running, awaited, permits, deleg, call, phase, calls, faults>>

\* send_message stores the result for the parent.
SendResult(j) ==
    /\ Step(j, "reporting", "closing")
    /\ sent' = sent \cup {j}
    /\ UNCHANGED <<agents, rows, onto, doomed, running, awaited, permits, deleg, call, phase, calls, faults>>

\* The message and completed events.
AnnounceResult(j) ==
    /\ \/ Step(j, "closing", "returned") /\ UNCHANGED faults
       \/ Step(j, "closing", "failing") /\ Fault
    /\ UNCHANGED <<db, onto, doomed, running, awaited, permits, deleg, call, phase, calls>>

\* Mutant: the handler does not raise again.
RecordFailureReturns(j) ==
    /\ Step(j, "failing", "returned")
    /\ rows' = [rows EXCEPT ![j] = "failed"]
    /\ UNCHANGED <<agents, sent, onto, doomed, running, awaited, permits, deleg, call, phase, calls, faults>>

\* except Exception, whatever the row says by now.
RecordFailure(j) ==
    /\ Step(j, "failing", "raised")
    /\ rows' = [rows EXCEPT ![j] = "failed"]
    /\ UNCHANGED <<agents, sent, onto, doomed, running, awaited, permits, deleg, call, phase, calls, faults>>

\* except CancelledError
RecordCancelled(j) ==
    /\ Step(j, "cancelling", "cancelled")
    /\ rows' = [rows EXCEPT ![j] = "cancelled"]
    /\ UNCHANGED <<agents, sent, onto, doomed, running, awaited, permits, deleg, call, phase, calls, faults>>

\* The row the statement j waits for would leave.
Pending(j) ==
    CASE at[j] = "scheduled"  -> "running"
      [] at[j] = "recording"  -> "success"
      [] at[j] = "failing"    -> "failed"
      [] at[j] = "cancelling" -> "cancelled"
      [] OTHER                -> rows[j]

\* The awaits inside the try of _execute_assignment.
InTry == {"acquiring", "working", "recording", "reporting", "closing"}

\* CancelledError arrives: where it is handled the row will say so, elsewhere it
\* escapes; async with gives the permit back.
UnwindFrom(j, holding, handled) ==
    /\ at[j] \in Live /\ j \in doomed
    /\ doomed' = doomed \ {j}
    /\ \E row \in {rows[j], Pending(j)} : rows' = [rows EXCEPT ![j] = row]
    /\ sent' \in {sent, IF at[j] = "reporting" THEN sent \cup {j} ELSE sent}
    /\ permits' = IF at[j] \in holding THEN permits + 1 ELSE permits
    /\ at' = [at EXCEPT ![j] = IF at[j] \in handled THEN "cancelling" ELSE "cancelled"]
    /\ UNCHANGED <<agents, onto, running, awaited, deleg, call, phase, calls, faults>>

\* Mutant: a permit is also given back by a coroutine that waited for one.
UnwindReleasesTwice(j) == UnwindFrom(j, {"acquiring", "working"}, InTry)

\* Mutant: a cancelled executor keeps its permit.
UnwindKeepsPermit(j) == UnwindFrom(j, {}, InTry)

\* Mutant: the failure handler runs inside the try of the cancellation handler.
UnwindReenters(j) == UnwindFrom(j, {"working"}, InTry \cup {"failing"})

Unwind(j) == UnwindFrom(j, {"working"}, InTry)

Execute(j) ==
    \/ MarkRunning(j) \/ AnnounceStart(j) \/ AcquirePermit(j) \/ Work(j) \/ RecordSuccess(j)
    \/ SendResult(j) \/ AnnounceResult(j) \/ RecordFailure(j) \/ RecordCancelled(j)
    \/ Unwind(j)

-----------------------------------------------------------------------------
(* delegate                                                                *)

Worker(d)  == Team[d][deleg[d].i]
DelegAt(d, pc, i) == deleg' = [deleg EXCEPT ![d] = [pc |-> pc, i |-> i]]

\* Validated, and the Research Director, a permanent agent, is always active.
Delegate(d) ==
    /\ phase.pc = "serving"
    /\ deleg[d].pc = "idle"
    /\ DelegAt(d, "creating", 1)
    /\ UNCHANGED <<db, proc, call, phase, calls, faults>>

CreateWorker(d) ==
    /\ deleg[d].pc = "creating"
    /\ agents' = [agents EXCEPT ![Worker(d)] = "active"]
    /\ DelegAt(d, "enlisting", deleg[d].i)
    /\ UNCHANGED <<rows, sent, proc, call, phase, calls, faults>>

\* agent.created is published, then the assignment's row is stored.
CreateAssignment(d) ==
    /\ deleg[d].pc = "enlisting"
    /\ \/ /\ rows' = [rows EXCEPT ![Worker(d)] = "queued"]
          /\ IF deleg[d].i < Len(Team[d]) THEN DelegAt(d, "creating", deleg[d].i + 1)
                                          ELSE DelegAt(d, "announcing", 1)
          /\ UNCHANGED faults
       \/ /\ Fault /\ DelegAt(d, "raised", 1)
          /\ UNCHANGED rows
    /\ UNCHANGED <<agents, sent, proc, call, phase, calls>>

\* delegation.started is published, then every assignment becomes a task.
Dispatch(d) ==
    /\ deleg[d].pc = "announcing"
    /\ \/ /\ at' = [j \in Jobs |-> IF j \in Crew(d) THEN "scheduled" ELSE at[j]]
          /\ onto' = [j \in Jobs |-> IF j \in Crew(d) THEN j ELSE onto[j]]
          /\ running' = [w \in Agents |-> IF w \in Crew(d) THEN w ELSE running[w]]
          /\ DelegAt(d, "gathering", 1)
          /\ UNCHANGED faults
       \/ /\ Fault /\ DelegAt(d, "raised", 1)
          /\ UNCHANGED <<at, onto, running>>
    /\ UNCHANGED <<db, doomed, awaited, permits, call, phase, calls>>

\* gather, with return_exceptions, waits for all of them.
Gather(d) ==
    /\ deleg[d].pc = "gathering"
    /\ \A j \in Crew(d) : at[j] \in Ended
    /\ DelegAt(d, "cleaning", 1)
    /\ UNCHANGED <<db, proc, call, phase, calls, faults>>

\* The cancellation of w's registered task, if it has one that is not done.
Cancelled(w) == {j \in Jobs : running[w] = j /\ at[j] \in Live}

\* The clean-up loop: the worker is unregistered and its status read.
ReadWorker(d) ==
    /\ deleg[d].pc = "cleaning" /\ deleg[d].i <= Len(Team[d])
    /\ running' = [running EXCEPT ![Worker(d)] = Nobody]
    /\ IF agents[Worker(d)] = "terminated" THEN DelegAt(d, "cleaning", deleg[d].i + 1)
                                           ELSE DelegAt(d, "retiring", deleg[d].i)
    /\ UNCHANGED <<db, at, onto, doomed, awaited, permits, call, phase, calls, faults>>

\* terminate_agent reads it again and raises if it is terminated by now.
CheckWorker(d) ==
    /\ deleg[d].pc = "retiring"
    /\ \/ /\ agents[Worker(d)] = "terminated"
          /\ DelegAt(d, "raised", 1)
          /\ UNCHANGED doomed
       \/ /\ agents[Worker(d)] # "terminated"
          /\ doomed' = doomed \cup Cancelled(Worker(d))
          /\ DelegAt(d, "terminating", deleg[d].i)
    /\ UNCHANGED <<db, at, onto, running, awaited, permits, call, phase, calls, faults>>

\* The write, then agent.terminated is published.
TerminateWorker(d) ==
    /\ deleg[d].pc = "terminating"
    /\ agents' = [agents EXCEPT ![Worker(d)] = "terminated"]
    /\ \/ DelegAt(d, "cleaning", deleg[d].i + 1) /\ UNCHANGED faults
       \/ DelegAt(d, "raised", 1) /\ Fault
    /\ UNCHANGED <<rows, sent, proc, call, phase, calls>>

\* Mutant: the last worker is forgotten.
SynthesizeEarly(d) ==
    /\ deleg[d].pc = "cleaning" /\ deleg[d].i >= Len(Team[d])
    /\ \/ DelegAt(d, "returned", 1) /\ UNCHANGED faults
       \/ DelegAt(d, "raised", 1) /\ Fault
    /\ UNCHANGED <<db, proc, call, phase, calls>>

\* The synthesis, and delegation.completed.
Synthesize(d) ==
    /\ deleg[d].pc = "cleaning" /\ deleg[d].i > Len(Team[d])
    /\ \/ DelegAt(d, "returned", 1) /\ UNCHANGED faults
       \/ DelegAt(d, "raised", 1) /\ Fault
    /\ UNCHANGED <<db, proc, call, phase, calls>>

DelegateStep(d) ==
    \/ CreateWorker(d) \/ CreateAssignment(d) \/ Dispatch(d) \/ Gather(d)
    \/ ReadWorker(d) \/ CheckWorker(d) \/ TerminateWorker(d) \/ Synthesize(d)

-----------------------------------------------------------------------------
(* create_agent, clone_agent, assign, the lifecycle endpoints, shutdown    *)

HireAgent(w) ==
    /\ phase.pc = "serving"
    /\ agents[w] = "absent"
    /\ agents' = [agents EXCEPT ![w] = "active"]
    /\ UNCHANGED <<rows, sent, proc, deleg, call, phase, calls, faults>>

Assign(a, w) ==
    /\ phase.pc = "serving"
    /\ at[a] = "absent"
    /\ agents[w] = "active"
    /\ at' = [at EXCEPT ![a] = "admitted"]
    /\ onto' = [onto EXCEPT ![a] = w]
    /\ UNCHANGED <<db, doomed, running, awaited, permits, deleg, call, phase, calls, faults>>

\* The row is stored, and its task takes the agent's place in _running.
Enlist(a) ==
    /\ at[a] = "admitted"
    /\ rows' = [rows EXCEPT ![a] = "queued"]
    /\ at' = [at EXCEPT ![a] = "scheduled"]
    /\ running' = [running EXCEPT ![onto[a]] = a]
    /\ awaited' = awaited \cup {a}
    /\ UNCHANGED <<agents, sent, onto, doomed, permits, deleg, call, phase, calls, faults>>

\* finally: whatever is registered for the agent is dropped.
AssignReturns(a) ==
    /\ a \in awaited
    /\ at[a] \in Ended
    /\ awaited' = awaited \ {a}
    /\ running' = [running EXCEPT ![onto[a]] = Nobody]
    /\ UNCHANGED <<db, at, onto, doomed, permits, deleg, call, phase, calls, faults>>

Idle == [op |-> "none", agent |-> Nobody]

\* _require_mutable_agent and the checks, and terminate's cancellation.
Request(c, op, w) ==
    /\ phase.pc = "serving"
    /\ calls < MaxCalls /\ calls' = calls + 1
    /\ call[c] = Idle
    /\ agents[w] \notin {"absent", "terminated"}
    /\ op = "pause" => agents[w] = "active"
    /\ op = "resume" => agents[w] = "paused"
    /\ doomed' = IF op = "terminate" THEN doomed \cup Cancelled(w) ELSE doomed
    /\ call' = [call EXCEPT ![c] = [op |-> op, agent |-> w]]
    /\ UNCHANGED <<db, at, onto, running, awaited, permits, deleg, phase, faults>>

\* update_agent writes the status whatever it has become.
Apply(c) ==
    /\ call[c] # Idle
    /\ agents' = [agents EXCEPT ![call[c].agent] =
                     CASE call[c].op = "pause"     -> "paused"
                       [] call[c].op = "resume"    -> "active"
                       [] call[c].op = "terminate" -> "terminated"]
    /\ call' = [call EXCEPT ![c] = Idle]
    /\ UNCHANGED <<rows, sent, proc, deleg, phase, calls, faults>>

\* AgentRuntime.shutdown cancels the registered tasks and waits for them.
Shutdown ==
    /\ phase.pc = "serving"
    /\ LET owned == UNION {Cancelled(w) : w \in Agents}
       IN  /\ doomed' = doomed \cup owned
           /\ phase' = [pc |-> "stopping", owned |-> owned]
    /\ UNCHANGED <<db, at, onto, running, awaited, permits, deleg, call, calls, faults>>

ShutdownEnds ==
    /\ phase.pc = "stopping"
    /\ \A j \in phase.owned : at[j] \in Ended
    /\ running' = [w \in Agents |-> Nobody]
    /\ phase' = [pc |-> "down", owned |-> {}]
    /\ UNCHANGED <<db, at, onto, doomed, awaited, permits, deleg, call, calls, faults>>

\* TaskRunner.shutdown, which comes later, cancels the run that called the tool: the
\* cancellation reaches the assignments gather waits for, and no clean-up follows.
CancelDelegate(d) ==
    /\ phase.pc = "down"
    /\ deleg[d].pc \notin {"idle"} \cup Over
    /\ doomed' = IF deleg[d].pc = "gathering"
                 THEN doomed \cup {j \in Crew(d) : at[j] \in Live} ELSE doomed
    /\ agents' \in {agents, CASE deleg[d].pc = "creating"    -> [agents EXCEPT ![Worker(d)] = "active"]
                              [] deleg[d].pc = "terminating" -> [agents EXCEPT ![Worker(d)] = "terminated"]
                              [] OTHER                       -> agents}
    /\ rows' \in {rows, IF deleg[d].pc = "enlisting" THEN [rows EXCEPT ![Worker(d)] = "queued"] ELSE rows}
    /\ DelegAt(d, "raised", 1)
    /\ UNCHANGED <<sent, at, onto, running, awaited, permits, call, phase, calls, faults>>

-----------------------------------------------------------------------------
Init ==
    /\ agents = [w \in Agents |-> "absent"]
    /\ rows = [j \in Jobs |-> "absent"]
    /\ sent = {}
    /\ at = [j \in Jobs |-> "absent"]
    /\ onto = [j \in Jobs |-> Nobody]
    /\ doomed = {}
    /\ running = [w \in Agents |-> Nobody]
    /\ awaited = {}
    /\ permits = Permits
    /\ deleg = [d \in Delegations |-> [pc |-> "idle", i |-> 1]]
    /\ call = [c \in Clients |-> Idle]
    /\ phase = [pc |-> "serving", owned |-> {}]
    /\ calls = 0
    /\ faults = 0

Next ==
    \/ \E j \in Jobs : Execute(j)
    \/ \E d \in Delegations : Delegate(d) \/ DelegateStep(d) \/ CancelDelegate(d)
    \/ \E w \in Hired : HireAgent(w)
    \/ \E a \in Assigns : (\E w \in Agents : Assign(a, w)) \/ Enlist(a) \/ AssignReturns(a)
    \/ \E c \in Clients : (\E op \in Ops, w \in Agents : Request(c, op, w)) \/ Apply(c)
    \/ Shutdown \/ ShutdownEnds

Spec == Init /\ [][Next]_vars

\* Coroutines that can run do: asyncio serves its ready queue and the semaphore's
\* waiters in order, and asyncio.timeout ends every executor call.
Fairness ==
    /\ \A j \in Jobs : WF_vars(Execute(j))
    /\ \A d \in Delegations : WF_vars(DelegateStep(d))
    /\ \A a \in Assigns : WF_vars(Enlist(a)) /\ WF_vars(AssignReturns(a))

FairSpec == Spec /\ Fairness

-----------------------------------------------------------------------------
\* Every variable stays in its type.
TypeOK ==
    /\ agents \in [Agents -> {"absent", "active", "paused", "terminated"}]
    /\ rows \in [Jobs -> {"absent", "queued", "running"} \cup Final]
    /\ sent \subseteq Jobs
    /\ at \in [Jobs -> {"absent", "admitted"} \cup Live \cup Ended]
    /\ onto \in [Jobs -> Agents \cup {Nobody}]
    /\ doomed \subseteq Jobs
    /\ running \in [Agents -> Jobs \cup {Nobody}]
    /\ awaited \subseteq Assigns
    /\ permits \in 0..Permits
    /\ deleg \in [Delegations -> [pc : DelegPc, i : Nat]]
    /\ \A d \in Delegations :
          deleg[d].i \in 1..(IF deleg[d].pc = "cleaning" THEN Len(Team[d]) + 1 ELSE Len(Team[d]))
    /\ call \in [Clients -> [op : Ops, agent : Agents] \cup {Idle}]
    /\ phase \in [pc : {"serving", "stopping", "down"}, owned : SUBSET Jobs]
    /\ calls \in 0..MaxCalls
    /\ faults \in 0..MaxFaults

\* No way out of an assignment, be it success, overspending, time-out or a
\* cancellation at any await, loses a permit of the semaphore or returns it twice.
PermitsConserved == permits + Cardinality({j \in Jobs : at[j] = "working"}) = Permits

\* What delegate counts as completed is recorded as a success and has been sent to
\* the parent: the synthesis never reports work the tables do not show.
CompletedIsRecorded ==
    \A j \in Jobs : at[j] = "returned" => rows[j] = "success" /\ j \in sent

\* A row that says failed or cancelled is never revised, and success is only ever
\* withdrawn by its own coroutine's handlers, before the caller has the result.
OutcomeKept ==
    [][\A j \in Jobs : rows[j] \in Final /\ rows'[j] # rows[j]
                       => at[j] \in {"reporting", "closing", "failing", "cancelling"} /\ rows[j] = "success"]_vars

\* When termination is the only lifecycle operation, a delegation that returns its
\* result leaves none of its temporary workers behind.
WorkersRetired ==
    \A d \in Delegations : deleg[d].pc = "returned" => \A w \in Crew(d) : agents[w] = "terminated"

\* Every delegation ends, whatever its workers do and whoever terminates them: nobody
\* waits for a permit or for an assignment for ever.
DelegationEnds ==
    \A d \in Delegations : deleg[d].pc # "idle" ~> deleg[d].pc \in Over

-----------------------------------------------------------------------------
(* What the documents say and the code does not do.                        *)

\* tests/test_agents.py: resuming a terminated agent is refused as terminated.
TerminatedIsFinal ==
    [][\A w \in Agents : agents[w] = "terminated" => agents'[w] = "terminated"]_vars

=============================================================================
