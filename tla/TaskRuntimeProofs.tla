------------------------- MODULE TaskRuntimeProofs -------------------------
(***************************************************************************)
(* Proofs about TaskRuntime, for every plan set and every bound.           *)
(*                                                                         *)
(* The invariant has parts: types, the chain of runs that             *)
(* TaskRunner.start and _run_after build, what the graph state says about  *)
(* the step records, and how the plan column, the checkpoint and the       *)
(* running graph agree.  A fifth says when a task is over, which the       *)
(* refinement of TaskLedger needs; a sixth, for a process that is never    *)
(* lost, who will move a task that is neither terminal nor parked.         *)
(***************************************************************************)
EXTENDS TaskRuntime, TLAPS

\* The awaits inside _execute, and those where the step has no evidence yet.
Executing  == {"execute", "beginning", "calling", "completing", "completed",
               "transient", "permanent"}
Unfinished == Executing \ {"execute", "completed"}

\* The node whose code an await belongs to.
NodeOf(at) ==
    CASE at \in {"plan", "planning"} -> "plan"
      [] at \in {"control", "pausing", "interrupting", "opening"} -> "control"
      [] at \in Executing -> "execute"
      [] at \in {"success", "succeeding"} -> "success"
      [] OTHER -> "cancelled"

\* Runs are created one after the other, and all but the oldest unfinished one
\* wait.
Chain ==
    /\ \A r \in RunIds : r > nrun => pc[r] = "none"
    /\ \A r, s \in RunIds : r < s /\ s <= nrun /\ pc[r] \in Alive => pc[s] = "wait"

\* Past acquire_lease the lease is held; before and after, there is no graph state.
Held ==
    /\ \A r \in RunIds : pc[r] \in Holding => lease = "mine"
    /\ \A r \in RunIds : pc[r] \notin Holding \/ pc[r] = "begin" => g[r] = NewGraph

\* The executing node has a step to execute; a graph at "success" has none left.
GraphOK(h) ==
    /\ h.next = "execute" => h.idx < Len(h.plan)
    /\ h.next = "success" => h.idx >= Len(h.plan)

Located ==
    /\ GraphOK(ckpt)
    /\ \A r \in RunIds : GraphOK(g[r])
    /\ \A r \in RunIds : pc[r] \in InGraph \ {"finishing"} => g[r].next = NodeOf(pc[r])
    /\ \A r \in RunIds : pc[r] = "finishing" => g[r].next \in {"success", "cancelled"}

\* Evidence backs every index; the step in flight has none yet.
Evidence ==
    /\ CheckpointBacked
    /\ \A r \in RunIds : pc[r] \in Unfinished => steps[Current(r)].st # "success"
    /\ \A r \in RunIds : pc[r] = "completed" => steps[Current(r)].st = "success"

\* The plan column is the plan the graph executes; before the plan is checkpointed
\* the persisted graph still has to plan.
PlannedBy(h) == h.next # "plan" => h.plan = plan

Planned ==
    /\ PlannedBy(ckpt)
    /\ \A r \in RunIds : pc[r] \in Holding \ {"begin"} =>
          /\ PlannedBy(g[r])
          /\ g[r].next = "plan" => ckpt.next = "plan"

\* A run is in the graph, or records the failure of a node, only while the persisted graph
\* is unfinished.
OpenWork == \A r \in RunIds : pc[r] \in InGraph \cup {"fail"} => WorkLeft

\* A task that has succeeded or been cancelled has a finished graph, a run on its last
\* steps, or nobody left to touch it.
Final       == {"success", "cancelled"}
Dead        == (\A r \in RunIds : Done(r)) /\ (\A c \in Clients : req[c] = Idle)
FinalIsOver ==
    status \in Final =>
        ckpt.next = "end" \/ (\E r \in RunIds : pc[r] \in {"finishing", "fail"}) \/ Dead

\* Whoever finishes the graph has written a final status, and only a resume hides it since.
Finishing == \E r \in RunIds : pc[r] = "finishing"
LastWords == Finishing \/ ~WorkLeft => status \in Final \cup {"queued"}

IInv == /\ TypeOK /\ Chain /\ Held /\ Located /\ Evidence
        /\ StepsInOrder /\ Planned /\ SuccessHasEvidence
        /\ OpenWork /\ FinalIsOver /\ LastWords

\* With no lost process only a run past acquire_lease has the lease.
LeaseBacked == up /\ (lease # "free" => \E r \in RunIds : pc[r] \in Holding)

\* A request that is certain to create a run, or a run that has yet to load the
\* checkpoint; and a run whose next exits from the graph write a settled status.
Starting ==
    \/ \E c \in Clients : /\ req[c] # Idle /\ req[c].at = "start"
                          /\ \/ req[c].kind = "resume"
                             \/ req[c].kind = "submit" /\ nrun = 0
    \/ \E r \in RunIds : pc[r] \in {"wait", "acquire", "begin"}
Advancing == \E r \in RunIds : pc[r] \in (InGraph \ {"interrupting"}) \cup {"fail"}

\* Work that is left has settled, or somebody is bound to take it up.
Attended == WorkLeft => Settled \/ Starting \/ Advancing

PInv == LeaseBacked /\ Attended

-----------------------------------------------------------------------------
\* What the initial state and the constants give.
LEMMA PlanLength ==
    ASSUME NEW p \in Plans \cup {<<>>}
    PROVE  /\ Len(p) \in 0..MaxSteps
           /\ \A i \in 1..Len(p) : p[i] \in Caps
<1>1. CASE p \in Plans
  <2>1. PICK n \in 0..MaxSteps : DOMAIN p = 1..n /\ Len(p) = n
    BY <1>1, PlansAssumption
  <2>2. \A i \in 1..Len(p) : p[i] \in Caps
    BY <1>1, <2>1 DEF Caps
  <2> QED BY <2>1, <2>2
<1>2. CASE p = <<>>
  BY <1>2, PlansAssumption
<1> QED BY <1>1, <1>2

LEMMA InitIInv == Init => IInv
<1> SUFFICES ASSUME Init PROVE IInv
  OBVIOUS
<1>1. TypeOK
  <2>1. NewGraph \in Graph
    BY PlansAssumption DEF NewGraph, Graph, Nodes
  <2>2. steps \in [StepIdx -> StepRow]
    BY DEF Init, StepRow
  <2>3. req \in [Clients -> Requests \cup {Idle}]
    BY DEF Init, Requests, Status, Terminal
  <2>4. pc \in [RunIds -> Pc]
    BY DEF Init, Pc
  <2>5. tries \in [RunIds -> 0..(MaxAttempts - 1)]
    BY DEF Init, MaxAttempts
  <2>6. /\ g \in [RunIds -> Graph]
        /\ ckpt \in Graph
        /\ resume \in [RunIds -> BOOLEAN]
        /\ seen \in [RunIds -> Control \cup {"none"}]
    BY <2>1 DEF Init
  <2>7. nrun \in 0..MaxRuns /\ requests \in 0..MaxRequests /\ crashes \in 0..MaxCrashes
    BY BoundsAssumption DEF Init
  <2>8. /\ status \in Status /\ control \in Control /\ lease \in Lease
        /\ plan \in Plans \cup {<<>>} /\ episode \in BOOLEAN /\ up \in BOOLEAN
    BY DEF Init, Status, Control, Lease
  <2> QED
    BY <2>2, <2>3, <2>4, <2>5, <2>6, <2>7, <2>8 DEF TypeOK
<1>2. Chain /\ Held
  BY DEF Init, Chain, Held, Alive, Holding, InGraph, Nodes
<1>3. Located
  BY DEF Init, Located, GraphOK, NewGraph, InGraph, Nodes
<1>4. Evidence
  BY PlansAssumption
  DEF Init, Evidence, CheckpointBacked, NewGraph, StepIdx, Unfinished, Executing
<1>5. StepsInOrder /\ Planned /\ SuccessHasEvidence
  BY <1>2 DEF Init, StepsInOrder, Planned, PlannedBy, SuccessHasEvidence, NewGraph, Holding,
     InGraph, Nodes
<1>6. OpenWork /\ FinalIsOver /\ LastWords
  BY DEF Init, OpenWork, FinalIsOver, LastWords, Finishing, WorkLeft, NewGraph, Final, InGraph, Nodes
<1> QED BY <1>1, <1>2, <1>3, <1>4, <1>5, <1>6 DEF IInv

-----------------------------------------------------------------------------
(***************************************************************************)
(* Type correctness.  The graph nodes need to know that a run in _execute  *)
(* has a step to execute, so the proof uses Located as well.               *)
(***************************************************************************)
LEMMA StartType ==
    ASSUME TypeOK, NEW flag \in BOOLEAN, Start(flag)
    PROVE  /\ nrun' \in 0..MaxRuns
           /\ pc' \in [RunIds -> Pc]
           /\ resume' \in [RunIds -> BOOLEAN]
           /\ g' \in [RunIds -> Graph]
           /\ tries' \in [RunIds -> 0..(MaxAttempts - 1)]
           /\ seen' \in [RunIds -> Control \cup {"none"}]
<1>1. CASE UNCHANGED runVars
  BY <1>1 DEF TypeOK, runVars
<1>2. CASE ~UNCHANGED runVars
  <2>1. nrun < MaxRuns /\ nrun' = nrun + 1
    BY <1>2 DEF Start
  <2>2. nrun' \in 0..MaxRuns /\ nrun + 1 \in RunIds
    BY <2>1, BoundsAssumption DEF TypeOK, RunIds
  <2>3. pc' \in [RunIds -> Pc] /\ resume' \in [RunIds -> BOOLEAN]
    BY <1>2, <2>2 DEF Start, TypeOK, Pc, Alive, Holding
  <2> QED BY <1>2, <2>2, <2>3 DEF Start, TypeOK
<1> QED BY <1>1, <1>2

LEMMA FinishType ==
    ASSUME TypeOK, NEW r \in RunIds, Finish(r)
    PROVE  /\ pc' \in [RunIds -> Pc]
           /\ resume' \in [RunIds -> BOOLEAN]
           /\ g' \in [RunIds -> Graph]
           /\ tries' \in [RunIds -> 0..(MaxAttempts - 1)]
           /\ seen' \in [RunIds -> Control \cup {"none"}]
<1>1. NewGraph \in Graph
  BY PlansAssumption DEF NewGraph, Graph, Nodes
<1> QED
  BY <1>1 DEF TypeOK, Finish, Goto, Advance, Pc, MaxAttempts

LEMMA SuperstepType ==
    ASSUME TypeOK, NEW r \in RunIds, NEW new \in Graph, Superstep(r, new)
    PROVE  g' \in [RunIds -> Graph] /\ pc' \in [RunIds -> Pc]
<1>1. [new EXCEPT !.token = FALSE] \in Graph
  BY DEF Graph
<1>2. Entry(new.next) \in Pc
  BY DEF Entry, Graph, Pc, Alive, Holding, InGraph
<1> QED
  BY <1>1, <1>2 DEF TypeOK, Superstep, Goto, Advance

\* A run inside _execute has a step of its plan to execute.
LEMMA ExecutingHasStep ==
    ASSUME TypeOK, Located, NEW r \in RunIds, pc[r] \in Executing
    PROVE  /\ g[r].next = "execute"
           /\ g[r].idx \in Nat /\ g[r].idx + 1 \in 0..MaxSteps
           /\ Current(r) = g[r].idx + 1
           /\ Current(r) \in StepIdx /\ Current(r) \in 1..Len(g[r].plan)
           /\ g[r].plan[Current(r)] \in Caps
<1>1. g[r] \in Graph
  BY DEF TypeOK
<1>2. g[r].plan \in Plans \cup {<<>>} /\ g[r].idx \in 0..MaxSteps
  BY <1>1 DEF Graph
<1>3. g[r].next = "execute"
  BY DEF Located, NodeOf, Executing, InGraph, Nodes
<1>4. g[r].idx < Len(g[r].plan)
  BY <1>3 DEF Located, GraphOK
<1>5. Len(g[r].plan) \in 0..MaxSteps /\ \A i \in 1..Len(g[r].plan) : g[r].plan[i] \in Caps
  BY <1>2, PlanLength
<1> QED
  BY <1>2, <1>3, <1>4, <1>5, PlansAssumption DEF Current, StepIdx

LEMMA StepDoneType ==
    ASSUME TypeOK, Located, NEW r \in RunIds, pc[r] \in Executing, StepDone(r)
    PROVE  /\ g' \in [RunIds -> Graph] /\ pc' \in [RunIds -> Pc]
           /\ tries' \in [RunIds -> 0..(MaxAttempts - 1)]
<1> DEFINE new == [g[r] EXCEPT !.next = "control", !.idx = @ + 1]
<1>1. new \in Graph
  BY ExecutingHasStep DEF TypeOK, Graph, Nodes
<1>2. Superstep(r, new)
  BY DEF StepDone
<1>3. g' \in [RunIds -> Graph] /\ pc' \in [RunIds -> Pc]
  <2> HIDE DEF new
  <2> QED BY <1>1, <1>2, SuperstepType
<1>4. tries' \in [RunIds -> 0..(MaxAttempts - 1)]
  <2>1. tries' = [tries EXCEPT ![r] = 0] /\ tries \in [RunIds -> 0..(MaxAttempts - 1)]
    BY DEF StepDone, TypeOK
  <2>2. 0 \in 0..(MaxAttempts - 1)
    BY DEF MaxAttempts
  <2> QED BY <2>1, <2>2
<1> QED
  BY <1>3, <1>4

LEMMA RunStepType ==
    ASSUME TypeOK, Located, NEW r \in RunIds, RunStep(r)
    PROVE  TypeOK'
<1> USE DEF TypeOK
<1>1. CASE PredecessorDone(r)
  BY <1>1 DEF PredecessorDone, Goto, rows, budgets, Pc, Alive
<1>2. CASE AcquireLease(r)
  <2>1. CASE Finish(r)
    BY <1>2, <2>1, FinishType DEF AcquireLease, budgets, Lease
  <2>2. CASE lease' = "mine" /\ Goto(r, "begin") /\ UNCHANGED <<resume, g, tries, seen>>
    BY <1>2, <2>2 DEF AcquireLease, Goto, budgets, Lease, Pc, Alive, Holding
  <2> QED BY <1>2, <2>1, <2>2 DEF AcquireLease
<1>3. CASE BeginExecute(r)
  <2>1. g' \in [RunIds -> Graph]
    BY <1>3 DEF BeginExecute, Advance, Graph
  <2>2. Entry(ckpt.next) \in Pc
    BY DEF Entry, Graph, Pc, Alive, Holding, InGraph
  <2> QED BY <1>3, <2>1, <2>2 DEF BeginExecute, Goto, rows, budgets
<1>4. CASE EnterPlan(r)
  BY <1>4 DEF EnterPlan, Goto, budgets, Status, Pc, Alive, Holding, InGraph
<1>5. CASE StorePlan(r)
  <2>1. PICK p \in Plans : plan' = p /\ Superstep(r, [g[r] EXCEPT !.next = "control", !.plan = p])
    BY <1>5 DEF StorePlan
  <2>2. [g[r] EXCEPT !.next = "control", !.plan = p] \in Graph
    BY DEF Graph, Nodes
  <2> QED
    BY <1>5, <2>1, <2>2, SuperstepType DEF StorePlan, budgets, Status
<1>6. CASE ReadControl(r)
  <2>1. [g[r] EXCEPT !.next = "cancelled"] \in Graph
    BY DEF Graph, Nodes
  <2>2. g' \in [RunIds -> Graph] /\ pc' \in [RunIds -> Pc]
    BY <1>6, <2>1, SuperstepType DEF ReadControl, Goto, Pc, Alive, Holding, InGraph
  <2> QED BY <1>6, <2>2 DEF ReadControl, rows, budgets
<1>7. CASE PauseTask(r)
  BY <1>7 DEF PauseTask, Goto, budgets, Status, Pc, Alive, Holding, InGraph
<1>8. CASE Interrupt(r)
  <2>1. ckpt' \in Graph /\ g' \in [RunIds -> Graph]
    BY <1>8 DEF Interrupt, LeaveGraph, Advance
  <2>2. pc' \in [RunIds -> Pc]
    BY <1>8 DEF Interrupt, LeaveGraph, Goto, Pc, Alive, Holding, InGraph
  <2>3. UNCHANGED <<rows, up, nrun, resume, tries, seen, req, budgets>>
    BY <1>8 DEF Interrupt
  <2> QED BY <2>1, <2>2, <2>3 DEF rows, budgets
<1>9. CASE OpenGate(r)
  <2> DEFINE new == [g[r] EXCEPT !.next = IF g[r].idx < Len(g[r].plan) THEN "execute" ELSE "success"]
  <2>1. new \in Graph
    BY DEF Graph, Nodes
  <2>2. g' \in [RunIds -> Graph] /\ pc' \in [RunIds -> Pc]
    BY <1>9, <2>1, SuperstepType DEF OpenGate
  <2> QED BY <1>9, <2>2 DEF OpenGate, budgets, Status
<1>10. CASE LookupStep(r)
  <2>1. CASE StepDone(r)
    BY <1>10, <2>1, StepDoneType DEF LookupStep, Executing, rows, budgets
  <2>2. CASE Goto(r, "beginning") /\ UNCHANGED <<g, tries>>
    BY <1>10, <2>2 DEF LookupStep, Goto, rows, budgets, Pc, Alive, Holding, InGraph
  <2> QED BY <1>10, <2>1, <2>2 DEF LookupStep
<1>11. CASE BeginStep(r)
  <2>1. g[r].plan[Current(r)] \in Caps
    BY <1>11, ExecutingHasStep DEF BeginStep, Executing
  <2>2. steps' \in [StepIdx -> StepRow]
    BY <1>11, <2>1 DEF BeginStep, StepRow
  <2> QED BY <1>11, <2>2 DEF BeginStep, Goto, budgets, Pc, Alive, Holding, InGraph
<1>12. CASE CallCapability(r)
  BY <1>12 DEF CallCapability, Goto, rows, budgets, Pc, Alive, Holding, InGraph
<1>13. CASE CompleteStep(r)
  BY <1>13 DEF CompleteStep, Goto, budgets, StepRow, Pc, Alive, Holding, InGraph
<1>14. CASE PublishStep(r)
  BY <1>14, StepDoneType DEF PublishStep, Executing, rows, budgets
<1>15. CASE FailStep(r)
  <2>1. steps' \in [StepIdx -> StepRow]
    BY <1>15 DEF FailStep, StepRow
  <2>2. tries' \in [RunIds -> 0..(MaxAttempts - 1)]
    BY <1>15 DEF FailStep, MaxAttempts
  <2>3. pc' \in [RunIds -> Pc]
    BY <1>15 DEF FailStep, Goto, Pc, Alive, Holding, InGraph, Nodes
  <2>4. ckpt' \in Graph
    BY <1>15 DEF FailStep
  <2> QED BY <1>15, <2>1, <2>2, <2>3, <2>4 DEF FailStep, budgets
<1>16. CASE RecordEpisode(r)
  BY <1>16 DEF RecordEpisode, Goto, budgets, Pc, Alive, Holding, InGraph
<1>17. CASE Conclude(r)
  BY <1>17 DEF Conclude, Goto, budgets, Status, Terminal, Pc, Alive, Holding, InGraph
<1>18. CASE EndGraph(r)
  <2>1. [g[r] EXCEPT !.next = "end", !.token = FALSE] \in Graph
    BY DEF Graph
  <2> QED
    BY <1>18, <2>1 DEF EndGraph, LeaveGraph, Goto, Advance, rows, budgets, Pc, Alive, Holding
<1>19. CASE RecordFailure(r)
  BY <1>19 DEF RecordFailure, Goto, budgets, Status, Terminal, Pc, Alive, Holding
<1>20. CASE ReleaseLease(r)
  BY <1>20, FinishType DEF ReleaseLease, budgets, Lease
<1> QED
  BY <1>1, <1>2, <1>3, <1>4, <1>5, <1>6, <1>7, <1>8, <1>9, <1>10, <1>11, <1>12, <1>13,
     <1>14, <1>15, <1>16, <1>17, <1>18, <1>19, <1>20 DEF RunStep

LEMMA NextType == ASSUME TypeOK, Located, [Next]_vars PROVE TypeOK'
<1>1. ASSUME NEW r \in RunIds, RunStep(r) PROVE TypeOK'
  BY <1>1, RunStepType
<1>2. ASSUME NEW r \in RunIds, Persist(r) PROVE TypeOK'
  BY <1>2 DEF Persist, TypeOK, rows, runVars, budgets
<1>3. ASSUME NEW r \in RunIds, NodeRaises(r) PROVE TypeOK'
  BY <1>3 DEF NodeRaises, TypeOK, Goto, rows, budgets, Pc, Alive, Holding
<1>4. ASSUME NEW c \in Clients, WriteControl(c) PROVE TypeOK'
  <2>1. req' \in [Clients -> Requests \cup {Idle}]
    BY <1>4 DEF WriteControl, TypeOK, Requests
  <2> QED
    BY <1>4, <2>1 DEF WriteControl, TypeOK, runVars, budgets, Status, Control
<1>5. ASSUME NEW c \in Clients, StartRun(c) PROVE TypeOK'
  BY <1>5, StartType DEF StartRun, TypeOK, rows, budgets
<1>6. ASSUME NEW c \in Clients, NEW kind \in Kinds, Accept(c, kind) PROVE TypeOK'
  <2>1. req' \in [Clients -> Requests \cup {Idle}]
    BY <1>6, KindsAssumption DEF Accept, TypeOK, Requests
  <2> QED
    BY <1>6, <2>1, BoundsAssumption DEF Accept, TypeOK, rows, runVars
<1>7. ASSUME ProcessGone, lease' \in Lease, ckpt' \in Graph PROVE TypeOK'
  <2>1. NewGraph \in Graph
    BY PlansAssumption DEF NewGraph, Graph, Nodes
  <2>2. pc' \in [RunIds -> Pc] /\ tries' \in [RunIds -> 0..(MaxAttempts - 1)]
    BY <1>7 DEF ProcessGone, Pc, MaxAttempts
  <2>3. crashes' \in 0..MaxCrashes
    BY <1>7, BoundsAssumption DEF ProcessGone, TypeOK
  <2>4. req' \in [Clients -> Requests \cup {Idle}]
    BY <1>7 DEF ProcessGone
  <2>5. /\ g' \in [RunIds -> Graph] /\ resume' \in [RunIds -> BOOLEAN]
        /\ seen' \in [RunIds -> Control \cup {"none"}] /\ up' \in BOOLEAN
        /\ nrun' \in 0..MaxRuns
    BY <1>7, <2>1 DEF ProcessGone, TypeOK
  <2> QED
    BY <1>7, <2>2, <2>3, <2>4, <2>5 DEF ProcessGone, TypeOK
<1>8. CASE Crash
  BY <1>7, <1>8 DEF Crash, TypeOK, Lease
<1>9. CASE Shutdown
  BY <1>7, <1>9 DEF Shutdown, TypeOK, Lease
<1>10. CASE LeaseExpires
  BY <1>10 DEF LeaseExpires, TypeOK, Lease, runVars, budgets
<1>11. CASE Restart
  <2>1. CASE Recoverable
    <3>1. Start(status \in {"queued", "waiting"})
      BY <1>11, <2>1 DEF Restart
    <3>2. (status \in {"queued", "waiting"}) \in BOOLEAN
      OBVIOUS
    <3>3. /\ nrun' \in 0..MaxRuns /\ pc' \in [RunIds -> Pc] /\ resume' \in [RunIds -> BOOLEAN]
          /\ g' \in [RunIds -> Graph] /\ tries' \in [RunIds -> 0..(MaxAttempts - 1)]
          /\ seen' \in [RunIds -> Control \cup {"none"}]
      BY <3>1, <3>2, StartType
    <3> QED BY <1>11, <3>3 DEF Restart, TypeOK, rows, budgets
  <2>2. CASE ~Recoverable
    BY <1>11, <2>2 DEF Restart, TypeOK, rows, budgets, runVars
  <2> QED BY <2>1, <2>2
<1>12. CASE UNCHANGED vars
  BY <1>12 DEF vars, rows, runVars, budgets, TypeOK
<1> QED
  BY <1>1, <1>2, <1>3, <1>4, <1>5, <1>6, <1>8, <1>9, <1>10, <1>11, <1>12 DEF Next, RequestStep

-----------------------------------------------------------------------------
(***************************************************************************)
(* The chain of runs: at most one run of the task is past its wait.        *)
(***************************************************************************)
LEMMA OneActive ==
    ASSUME TypeOK, Chain, NEW r \in RunIds, NEW s \in RunIds,
           pc[r] \in Alive \ {"wait"}, pc[s] \in Alive \ {"wait"}
    PROVE  r = s
<1>1. r <= nrun /\ s <= nrun
  BY DEF Chain, TypeOK, RunIds, Alive, Holding, InGraph, Nodes
<1> QED
  BY <1>1, BoundsAssumption DEF Chain, RunIds

\* What a run's own step does to the table of runs.
LEMMA RunStepShape ==
    ASSUME TypeOK, NEW r \in RunIds, RunStep(r), ~PredecessorDone(r)
    PROVE  /\ pc[r] \in Alive \ {"wait"}
           /\ nrun' = nrun
           /\ \A s \in RunIds \ {r} : pc'[s] = pc[s] /\ g'[s] = g[s]
           /\ pc'[r] \in (Alive \ {"wait"}) \cup {"done"}
           /\ \/ AcquireLease(r) \/ ReleaseLease(r)
              \/ pc[r] \in Holding /\ pc'[r] \in Holding \ {"begin"}
<1> USE DEF TypeOK, Alive, Holding, InGraph, Nodes
<1>1. CASE AcquireLease(r) \/ ReleaseLease(r)
  BY <1>1 DEF AcquireLease, ReleaseLease, Finish, Goto, Advance
<1>2. CASE BeginExecute(r)
  BY <1>2 DEF BeginExecute, Goto, Advance, Entry, Graph
<1>3. CASE EnterPlan(r) \/ PauseTask(r) \/ BeginStep(r) \/ CallCapability(r) \/ CompleteStep(r)
  BY <1>3 DEF EnterPlan, PauseTask, BeginStep, CallCapability, CompleteStep, Goto
<1>4. CASE StorePlan(r) \/ ReadControl(r) \/ OpenGate(r)
  <2> DEFINE at(x) == [g[r] EXCEPT !.next = x]
  <2>1. /\ \A p \in Plans : [g[r] EXCEPT !.next = "control", !.plan = p].next = "control"
        /\ \A x \in Nodes : at(x).next = x
    BY DEF Graph
  <2>2. \E x \in InGraph : pc' = [pc EXCEPT ![r] = x]
    <3>1. CASE StorePlan(r)
      BY <2>1, <3>1 DEF StorePlan, Superstep, Entry, Goto
    <3>2. CASE ReadControl(r)
      BY <2>1, <3>2 DEF ReadControl, Superstep, Entry, Goto
    <3>3. CASE OpenGate(r)
      BY <2>1, <3>3 DEF OpenGate, Superstep, Entry, Goto
    <3> QED BY <1>4, <3>1, <3>2, <3>3
  <2>3. pc[r] \in InGraph /\ nrun' = nrun /\ \A s \in RunIds \ {r} : g'[s] = g[s]
    BY <1>4 DEF StorePlan, ReadControl, OpenGate, Superstep, Advance
  <2> QED BY <2>2, <2>3
<1>5. CASE Interrupt(r) \/ EndGraph(r)
  BY <1>5 DEF Interrupt, EndGraph, LeaveGraph, Goto, Advance
<1>6. CASE LookupStep(r) \/ PublishStep(r)
  BY <1>6 DEF LookupStep, PublishStep, StepDone, Superstep, Entry, Goto, Advance
<1>7. CASE FailStep(r) \/ RecordEpisode(r) \/ Conclude(r) \/ RecordFailure(r)
  BY <1>7 DEF FailStep, RecordEpisode, Conclude, RecordFailure, Goto
<1> QED
  BY <1>1, <1>2, <1>3, <1>4, <1>5, <1>6, <1>7 DEF RunStep

\* TaskRunner.start keeps the chain: the new run waits for an unfinished last one.
LEMMA StartChain ==
    ASSUME TypeOK, TypeOK', Chain, NEW flag \in BOOLEAN, Start(flag)
    PROVE  Chain'
<1>1. CASE UNCHANGED runVars
  BY <1>1 DEF Chain, runVars
<1>2. CASE ~UNCHANGED runVars
  <2> DEFINE n == nrun + 1
  <2>1. nrun < MaxRuns /\ nrun' = n /\ n \in RunIds /\ nrun \in Nat
    BY <1>2, BoundsAssumption DEF Start, TypeOK, RunIds
  <2>2. pc' = [pc EXCEPT ![n] = IF nrun > 0 /\ ~Done(nrun) THEN "wait" ELSE "acquire"]
    BY <1>2 DEF Start
  <2>3. \A r \in RunIds : r > nrun' => pc'[r] = "none"
    BY <2>1, <2>2 DEF Chain, TypeOK, RunIds
  <2>4. ASSUME NEW r \in RunIds, NEW s \in RunIds, r < s, s <= nrun', pc'[r] \in Alive
        PROVE  pc'[s] = "wait"
    <3>1. r <= nrun /\ pc'[r] = pc[r]
      BY <2>1, <2>2, <2>4 DEF TypeOK, RunIds
    <3>2. CASE s = n
      <4>1. nrun \in RunIds /\ nrun > 0
        BY <2>1, <3>1, BoundsAssumption DEF RunIds
      <4>2. ~Done(nrun)
        BY <2>4, <3>1, <4>1 DEF Chain, Done, Alive, Holding, InGraph, Nodes, RunIds
      <4> QED BY <2>1, <2>2, <3>2, <4>1, <4>2 DEF TypeOK
    <3>3. CASE s # n
      <4>1. s <= nrun /\ pc'[s] = pc[s]
        BY <2>1, <2>2, <2>4, <3>3 DEF TypeOK, RunIds
      <4> QED BY <2>4, <3>1, <4>1 DEF Chain
    <3> QED BY <3>2, <3>3
  <2> QED BY <2>3, <2>4 DEF Chain
<1> QED BY <1>1, <1>2

LEMMA NextChain ==
    ASSUME TypeOK, TypeOK', Chain, [Next]_vars
    PROVE  Chain'
<1>1. ASSUME NEW q \in RunIds, RunStep(q) PROVE Chain'
  <2>1. CASE PredecessorDone(q)
    <3>1. nrun' = nrun /\ q <= nrun /\ nrun \in Nat /\ pc[q] = "wait"
      BY <2>1 DEF PredecessorDone, Chain, TypeOK, RunIds
    <3>2. pc' = [pc EXCEPT ![q] = "acquire"]
      BY <2>1 DEF PredecessorDone, Goto
    <3>3. \A r \in RunIds : r < q => pc[r] \notin Alive
      <4> SUFFICES ASSUME NEW r \in RunIds, r < q, pc[r] \in Alive PROVE FALSE
        OBVIOUS
      <4>1. q - 1 \in RunIds /\ r <= q - 1 /\ q - 1 <= nrun
        BY <3>1, BoundsAssumption DEF RunIds
      <4>2. Done(q - 1)
        BY <2>1, <4>1 DEF PredecessorDone, RunIds
      <4>3. pc[q - 1] \in Alive
        BY <4>1 DEF Chain, Alive, RunIds
      <4> QED BY <4>2, <4>3 DEF Done, Alive, Holding, InGraph, Nodes
    <3>4. \A r \in RunIds : r > nrun => r # q
      BY <3>1, BoundsAssumption DEF RunIds
    <3> QED
      BY <3>1, <3>2, <3>3, <3>4, BoundsAssumption DEF Chain, TypeOK, Alive, Holding, InGraph, Nodes, RunIds
  <2>2. CASE ~PredecessorDone(q)
    <3>1. /\ pc[q] \in Alive \ {"wait"} /\ nrun' = nrun
          /\ \A s \in RunIds \ {q} : pc'[s] = pc[s]
          /\ pc'[q] \in (Alive \ {"wait"}) \cup {"done"}
      BY <1>1, <2>2, RunStepShape
    <3>2. q <= nrun
      BY <3>1 DEF Chain, Alive, Holding, InGraph, Nodes, RunIds, TypeOK
    <3>3. \A r \in RunIds : r > nrun => r # q
      BY <3>2, BoundsAssumption DEF RunIds, TypeOK
    <3>4. \A r \in RunIds : r < q => pc[r] \notin Alive
      BY <3>1, <3>2 DEF Chain
    <3> QED
      BY <3>1, <3>3, <3>4, BoundsAssumption DEF Chain, RunIds
  <2> QED BY <2>1, <2>2
<1>2. ASSUME NEW q \in RunIds, Persist(q) \/ NodeRaises(q) PROVE Chain'
  <2>1. nrun' = nrun /\ \A r \in RunIds : pc'[r] = pc[r] \/ (pc[r] \in InGraph /\ pc'[r] = "fail")
    BY <1>2 DEF Persist, NodeRaises, Goto, runVars, TypeOK
  <2> QED
    BY <2>1 DEF Chain, Alive, Holding, InGraph, Nodes
<1>3. ASSUME NEW c \in Clients, WriteControl(c) PROVE Chain'
  BY <1>3 DEF WriteControl, runVars, Chain
<1>4. ASSUME NEW c \in Clients, StartRun(c) PROVE Chain'
  BY <1>4, StartChain DEF StartRun
<1>5. ASSUME NEW c \in Clients, NEW kind \in Kinds, Accept(c, kind) PROVE Chain'
  BY <1>5 DEF Accept, runVars, Chain
<1>6. CASE Crash \/ Shutdown
  BY <1>6 DEF Crash, Shutdown, ProcessGone, Chain, Alive, Holding, InGraph, Nodes
<1>7. CASE LeaseExpires
  BY <1>7 DEF LeaseExpires, runVars, Chain
<1>8. CASE Restart
  <2>1. Start(status \in {"queued", "waiting"}) \/ UNCHANGED runVars
    BY <1>8 DEF Restart
  <2>2. CASE UNCHANGED runVars
    BY <2>2 DEF runVars, Chain
  <2>3. CASE Start(status \in {"queued", "waiting"})
    <3>1. (status \in {"queued", "waiting"}) \in BOOLEAN
      OBVIOUS
    <3> QED BY <2>3, <3>1, StartChain
  <2> QED BY <2>1, <2>2, <2>3
<1>9. CASE UNCHANGED vars
  BY <1>9 DEF vars, runVars, Chain
<1> QED
  BY <1>1, <1>2, <1>3, <1>4, <1>5, <1>6, <1>7, <1>8, <1>9 DEF Next, RequestStep

\* A holder keeps the lease until its own release: nobody else takes or frees it.
LEMMA RunStepHeld ==
    ASSUME TypeOK, Chain, Held, NEW r \in RunIds, RunStep(r)
    PROVE  Held'
<1>1. CASE PredecessorDone(r)
  BY <1>1 DEF PredecessorDone, Goto, rows, Held, TypeOK, Holding, InGraph, Nodes
<1>2. CASE ~PredecessorDone(r)
  <2>1. /\ pc[r] \in Alive \ {"wait"}
        /\ \A s \in RunIds \ {r} : pc'[s] = pc[s] /\ g'[s] = g[s]
    BY <1>2, RunStepShape
  <2>2. \A s \in RunIds \ {r} : pc[s] \notin Holding
    BY <2>1, OneActive DEF Alive, Holding, InGraph, Nodes
  <2>3. \A s \in RunIds \ {r} : pc'[s] \notin Holding /\ g'[s] = NewGraph
    BY <2>1, <2>2 DEF Held
  <2>4. pc'[r] \in Holding => lease' = "mine"
    <3>1. CASE AcquireLease(r)
      BY <3>1 DEF AcquireLease, Finish, Goto, TypeOK, Holding, InGraph, Nodes
    <3>2. CASE ReleaseLease(r)
      BY <3>2 DEF ReleaseLease, Finish, Goto, TypeOK, Holding, InGraph, Nodes
    <3>3. CASE pc[r] \in Holding /\ lease' = lease
      BY <3>3 DEF Held
    <3>4. AcquireLease(r) \/ ReleaseLease(r) \/ (pc[r] \in Holding /\ lease' = lease)
      BY <1>2 DEF RunStep, BeginExecute, EnterPlan, StorePlan, ReadControl, PauseTask,
           Interrupt, OpenGate, LookupStep, BeginStep, CallCapability, CompleteStep,
           PublishStep, FailStep, RecordEpisode, Conclude, EndGraph, RecordFailure,
           rows, Holding, InGraph, Nodes, Executing
    <3> QED BY <3>1, <3>2, <3>3, <3>4
  <2>5. pc'[r] \notin Holding \/ pc'[r] = "begin" => g'[r] = NewGraph
    <3>1. CASE AcquireLease(r)
      BY <3>1 DEF AcquireLease, Finish, Goto, Advance, TypeOK, Held, Holding, InGraph, Nodes
    <3>2. CASE ReleaseLease(r)
      BY <3>2 DEF ReleaseLease, Finish, Goto, Advance, TypeOK
    <3>3. CASE ~AcquireLease(r) /\ ~ReleaseLease(r)
      BY <1>2, <3>3, RunStepShape
    <3> QED BY <3>1, <3>2, <3>3
  <2> QED BY <2>3, <2>4, <2>5 DEF Held
<1> QED BY <1>1, <1>2

\* An endpoint, a restart or a clock: runs may be created, none moves.
RunsUntouched ==
    /\ UNCHANGED <<g, seen, tries>>
    /\ \A r \in RunIds : \/ pc'[r] = pc[r]
                         \/ pc[r] = "none" /\ pc'[r] \in {"wait", "acquire"}

FromOutside ==
    /\ RunsUntouched
    /\ UNCHANGED <<steps, ckpt, plan>>
    /\ lease' = lease \/ lease = "stale"
    /\ status' = status \/ status' = "queued"

LEMMA StartShape ==
    ASSUME TypeOK, Chain, NEW flag \in BOOLEAN, Start(flag)
    PROVE  RunsUntouched
<1>1. CASE UNCHANGED runVars
  BY <1>1 DEF runVars, RunsUntouched
<1>2. CASE ~UNCHANGED runVars
  <2>1. nrun + 1 \in RunIds /\ nrun + 1 > nrun
    BY <1>2, BoundsAssumption DEF Start, TypeOK, RunIds
  <2>2. pc[nrun + 1] = "none"
    BY <2>1 DEF Chain
  <2>3. pc' = [pc EXCEPT ![nrun + 1] = IF nrun > 0 /\ ~Done(nrun) THEN "wait" ELSE "acquire"]
    BY <1>2 DEF Start
  <2>4. UNCHANGED <<g, seen, tries>>
    BY <1>2 DEF Start
  <2>5. \A r \in RunIds : \/ pc'[r] = pc[r]
                          \/ pc[r] = "none" /\ pc'[r] \in {"wait", "acquire"}
    BY <2>1, <2>2, <2>3 DEF TypeOK
  <2> QED BY <2>4, <2>5 DEF RunsUntouched
<1> QED BY <1>1, <1>2

LEMMA OutsideShape ==
    ASSUME TypeOK, Chain, [Next]_vars, ~(\E r \in RunIds : RunStep(r))
    PROVE  \/ FromOutside
           \/ \E r \in RunIds : Persist(r) \/ NodeRaises(r)
           \/ Crash \/ Shutdown
<1> USE DEF FromOutside
<1>1. ASSUME NEW c \in Clients, StartRun(c) PROVE FromOutside
  <2> DEFINE flag == req[c].kind = "resume" \/ (req[c].kind = "cancel" /\ req[c].was = "waiting")
  <2>1. flag \in BOOLEAN /\ Start(flag)
    BY <1>1 DEF StartRun
  <2>2. RunsUntouched
    <3> HIDE DEF flag
    <3> QED BY <2>1, StartShape
  <2> QED BY <1>1, <2>2 DEF StartRun, rows
<1>2. CASE Restart
  <2>1. CASE Recoverable
    <3> DEFINE flag == status \in {"queued", "waiting"}
    <3>1. flag \in BOOLEAN /\ Start(flag)
      BY <1>2, <2>1 DEF Restart
    <3>2. RunsUntouched
      <4> HIDE DEF flag
      <4> QED BY <3>1, StartShape
    <3> QED BY <1>2, <3>2 DEF Restart, rows
  <2>2. CASE ~Recoverable
    BY <1>2, <2>2 DEF Restart, RunsUntouched, rows, runVars
  <2> QED BY <2>1, <2>2
<1>3. ASSUME NEW c \in Clients, WriteControl(c) PROVE FromOutside
  BY <1>3 DEF WriteControl, RunsUntouched, runVars
<1>4. ASSUME NEW c \in Clients, NEW kind \in Kinds, Accept(c, kind) PROVE FromOutside
  BY <1>4 DEF Accept, RunsUntouched, rows, runVars
<1>5. CASE LeaseExpires
  BY <1>5 DEF LeaseExpires, RunsUntouched, runVars
<1>6. CASE UNCHANGED vars
  BY <1>6 DEF vars, RunsUntouched, rows, runVars
<1> QED
  BY <1>1, <1>2, <1>3, <1>4, <1>5, <1>6 DEF Next, RequestStep

LEMMA NextHeld ==
    ASSUME TypeOK, Chain, Held, [Next]_vars
    PROVE  Held'
<1>1. CASE \E r \in RunIds : RunStep(r)
  BY <1>1, RunStepHeld
<1>2. CASE \E r \in RunIds : Persist(r) \/ NodeRaises(r)
  BY <1>2 DEF Persist, NodeRaises, Goto, rows, runVars, TypeOK, Held, Holding, InGraph, Nodes
<1>3. CASE Crash \/ Shutdown
  BY <1>3 DEF Crash, Shutdown, ProcessGone, Held, Holding, InGraph, Nodes
<1>4. CASE FromOutside
  BY <1>4 DEF FromOutside, RunsUntouched, Held, Holding, InGraph, Nodes
<1> QED
  BY <1>1, <1>2, <1>3, <1>4, OutsideShape

\* TaskRunner's mutual exclusion, as the run table and the lease give it.
LEMMA OneExecutorFromChain == TypeOK /\ Chain /\ Held => OneExecutor
BY OneActive DEF OneExecutor, Held, Alive, Holding, InGraph, Nodes

-----------------------------------------------------------------------------
(***************************************************************************)
(* Where the graph is: its next node is the one the run's await belongs to *)
(***************************************************************************)
LocatedAt(r) ==
    /\ GraphOK(g[r])
    /\ pc[r] \in InGraph \ {"finishing"} => g[r].next = NodeOf(pc[r])
    /\ pc[r] = "finishing" => g[r].next \in {"success", "cancelled"}

LEMMA RunStepLocated ==
    ASSUME TypeOK, Located, NEW r \in RunIds, RunStep(r)
    PROVE  GraphOK(ckpt') /\ LocatedAt(r)'
<1>0. /\ g[r] \in Graph /\ ckpt \in Graph /\ GraphOK(g[r]) /\ GraphOK(ckpt)
      /\ g \in [RunIds -> Graph] /\ pc \in [RunIds -> Pc]
  BY DEF TypeOK, Located
<1>1. CASE PredecessorDone(r) \/ EnterPlan(r) \/ PauseTask(r) \/ BeginStep(r)
           \/ CallCapability(r) \/ CompleteStep(r) \/ RecordEpisode(r) \/ Conclude(r)
           \/ FailStep(r) \/ RecordFailure(r)
  <2>1. g' = g /\ ckpt' \in {ckpt, g[r]}
    BY <1>1 DEF PredecessorDone, EnterPlan, PauseTask, BeginStep, CallCapability, CompleteStep,
         RecordEpisode, Conclude, FailStep, RecordFailure
  <2>2. /\ pc[r] \in InGraph \ {"finishing"} \/ pc'[r] \notin InGraph
        /\ pc'[r] \in InGraph \ {"finishing"} => NodeOf(pc'[r]) = NodeOf(pc[r])
        /\ pc'[r] = "finishing" => NodeOf(pc[r]) \in {"success", "cancelled"}
    BY <1>0, <1>1 DEF PredecessorDone, EnterPlan, PauseTask, BeginStep, CallCapability, CompleteStep,
         RecordEpisode, Conclude, FailStep, RecordFailure, Goto, NodeOf, Executing, InGraph, Nodes
  <2> QED BY <1>0, <2>1, <2>2 DEF Located, LocatedAt, InGraph
<1>2. CASE AcquireLease(r) \/ ReleaseLease(r)
  <2>1. ckpt' = ckpt /\ pc'[r] \notin InGraph /\ g'[r] \in {g[r], NewGraph}
    BY <1>0, <1>2 DEF AcquireLease, ReleaseLease, Finish, Goto, Advance, InGraph, Nodes
  <2> QED BY <1>0, <2>1 DEF LocatedAt, GraphOK, NewGraph, InGraph
<1>3. CASE BeginExecute(r)
  <2>1. /\ ckpt' = ckpt /\ g'[r].next = ckpt.next /\ g'[r].plan = ckpt.plan /\ g'[r].idx = ckpt.idx
        /\ pc'[r] = Entry(ckpt.next)
    BY <1>0, <1>3 DEF BeginExecute, Goto, Advance, Graph
  <2>2. Entry(ckpt.next) \in InGraph => NodeOf(Entry(ckpt.next)) = ckpt.next
    BY <1>0 DEF Entry, Graph, NodeOf, Executing, InGraph, Nodes
  <2>3. Entry(ckpt.next) # "finishing"
    BY <1>0 DEF Entry, Graph, Nodes
  <2> QED BY <1>0, <2>1, <2>2, <2>3 DEF LocatedAt, GraphOK
<1>4. ASSUME NEW new \in Graph, Superstep(r, new), GraphOK(new), new.next \in Nodes, ckpt' = ckpt
      PROVE  GraphOK(ckpt') /\ LocatedAt(r)'
  <2>1. g'[r].next = new.next /\ g'[r].plan = new.plan /\ g'[r].idx = new.idx /\ pc'[r] = new.next
    BY <1>0, <1>4 DEF Superstep, Goto, Advance, Entry, Graph, Nodes
  <2>2. NodeOf(new.next) = new.next
    BY <1>4 DEF NodeOf, Executing, Nodes
  <2> QED BY <1>0, <1>4, <2>1, <2>2 DEF LocatedAt, GraphOK, Nodes
<1>5. CASE StorePlan(r)
  <2>1. PICK p \in Plans : Superstep(r, [g[r] EXCEPT !.next = "control", !.plan = p])
    BY <1>5 DEF StorePlan
  <2> DEFINE new == [g[r] EXCEPT !.next = "control", !.plan = p]
  <2>2. new \in Graph /\ GraphOK(new) /\ new.next \in Nodes
    BY <1>0 DEF Graph, GraphOK, Nodes
  <2>3. ckpt' = ckpt /\ Superstep(r, new)
    BY <1>5, <2>1 DEF StorePlan
  <2> HIDE DEF new
  <2> QED BY <1>4, <2>2, <2>3
<1>6. CASE ReadControl(r)
  <2>1. CASE control = "cancel"
    <3> DEFINE new == [g[r] EXCEPT !.next = "cancelled"]
    <3>1. new \in Graph /\ GraphOK(new) /\ new.next \in Nodes
      BY <1>0 DEF Graph, GraphOK, Nodes
    <3>2. ckpt' = ckpt /\ Superstep(r, new)
      BY <1>6, <2>1 DEF ReadControl
    <3> HIDE DEF new
    <3> QED BY <1>4, <3>1, <3>2
  <2>2. CASE control # "cancel"
    <3>1. g' = g /\ ckpt' = ckpt /\ pc'[r] \in {"pausing", "opening"} /\ pc[r] = "control"
      BY <1>0, <1>6, <2>2 DEF ReadControl, Goto
    <3> QED BY <1>0, <3>1 DEF Located, LocatedAt, NodeOf, Executing, InGraph, Nodes
  <2> QED BY <2>1, <2>2
<1>7. CASE Interrupt(r)
  <2>1. g'[r] = g[r] /\ ckpt' \in {ckpt, g[r]} /\ pc'[r] \in {"opening", "release"} /\ pc[r] = "interrupting"
    BY <1>0, <1>7 DEF Interrupt, LeaveGraph, Goto, Advance
  <2> QED BY <1>0, <2>1 DEF Located, LocatedAt, NodeOf, Executing, InGraph, Nodes
<1>8. CASE OpenGate(r)
  <2> DEFINE new == [g[r] EXCEPT !.next = IF g[r].idx < Len(g[r].plan) THEN "execute" ELSE "success"]
  <2>1. g[r].idx \in 0..MaxSteps /\ Len(g[r].plan) \in 0..MaxSteps
    BY <1>0, PlanLength DEF Graph
  <2>2. new \in Graph /\ new.next \in Nodes
    BY <1>0 DEF Graph, Nodes
  <2>3. GraphOK(new)
    BY <1>0, <2>1 DEF Graph, GraphOK
  <2>4. ckpt' = ckpt /\ Superstep(r, new)
    BY <1>8 DEF OpenGate
  <2> HIDE DEF new
  <2> QED BY <1>4, <2>2, <2>3, <2>4
<1>9. ASSUME StepDone(r), ckpt' = ckpt, pc[r] \in Executing PROVE GraphOK(ckpt') /\ LocatedAt(r)'
  <2> DEFINE new == [g[r] EXCEPT !.next = "control", !.idx = @ + 1]
  <2>1. new \in Graph /\ GraphOK(new) /\ new.next \in Nodes
    BY <1>0, <1>9, ExecutingHasStep DEF Graph, GraphOK, Nodes
  <2>2. Superstep(r, new)
    BY <1>9 DEF StepDone
  <2> HIDE DEF new
  <2> QED BY <1>4, <1>9, <2>1, <2>2
<1>10. CASE LookupStep(r)
  <2>1. CASE StepDone(r)
    BY <1>9, <1>10, <2>1 DEF LookupStep, Executing
  <2>2. CASE Goto(r, "beginning") /\ UNCHANGED <<g, tries>>
    BY <1>0, <1>10, <2>2 DEF LookupStep, Goto, Located, LocatedAt, NodeOf, Executing, InGraph, Nodes
  <2> QED BY <1>10, <2>1, <2>2 DEF LookupStep
<1>11. CASE PublishStep(r)
  BY <1>9, <1>11 DEF PublishStep, Executing
<1>12. CASE EndGraph(r)
  <2> DEFINE new == [g[r] EXCEPT !.next = "end", !.token = FALSE]
  <2>1. g'[r] = new /\ ckpt' = new /\ pc'[r] = "release"
    BY <1>0, <1>12 DEF EndGraph, LeaveGraph, Goto, Advance
  <2>2. GraphOK(new)
    BY <1>0 DEF GraphOK, Graph
  <2> QED BY <2>1, <2>2 DEF LocatedAt, InGraph, Nodes
<1> QED
  BY <1>1, <1>2, <1>3, <1>5, <1>6, <1>7, <1>8, <1>10, <1>11, <1>12 DEF RunStep

LEMMA NextLocated ==
    ASSUME TypeOK, Chain, Located, [Next]_vars
    PROVE  Located'
<1>0. Located <=> GraphOK(ckpt) /\ \A r \in RunIds : LocatedAt(r)
  BY DEF Located, LocatedAt
<1>1. ASSUME NEW r \in RunIds, RunStep(r) PROVE Located'
  <2>1. \A s \in RunIds \ {r} : pc'[s] = pc[s] /\ g'[s] = g[s]
    <3>1. CASE PredecessorDone(r)
      BY <3>1 DEF PredecessorDone, Goto, TypeOK
    <3>2. CASE ~PredecessorDone(r)
      BY <1>1, <3>2, RunStepShape
    <3> QED BY <3>1, <3>2
  <2>2. GraphOK(ckpt') /\ LocatedAt(r)'
    BY <1>1, RunStepLocated
  <2> QED BY <2>1, <2>2 DEF Located, LocatedAt
<1>2. CASE \E r \in RunIds : Persist(r) \/ NodeRaises(r)
  <2>1. PICK r \in RunIds : Persist(r) \/ NodeRaises(r)
    BY <1>2
  <2>2. ckpt' = g[r] /\ g' = g
    BY <2>1 DEF Persist, NodeRaises, runVars
  <2>3. \A s \in RunIds : pc'[s] = pc[s] \/ pc'[s] = "fail"
    BY <2>1 DEF Persist, NodeRaises, Goto, runVars, TypeOK
  <2> QED BY <2>2, <2>3 DEF Located, InGraph, Nodes
<1>3. CASE Crash \/ Shutdown
  <2>1. ckpt' = ckpt \/ \E r \in RunIds : ckpt' = g[r]
    BY <1>3 DEF Crash, Shutdown
  <2>2. \A r \in RunIds : g'[r] = NewGraph /\ pc'[r] \in {"none", "done"}
    BY <1>3 DEF Crash, Shutdown, ProcessGone
  <2> QED BY <2>1, <2>2 DEF Located, GraphOK, NewGraph, InGraph, Nodes
<1>4. CASE FromOutside
  BY <1>4 DEF FromOutside, RunsUntouched, Located, InGraph, Nodes
<1> QED
  BY <1>1, <1>2, <1>3, <1>4, OutsideShape

-----------------------------------------------------------------------------
(***************************************************************************)
(* Evidence: a step counted by a graph state has its record, and the step  *)
(* in flight has none until complete_step.                                 *)
(***************************************************************************)
Backed(h) == \A k \in StepIdx : k <= h.idx => steps[k].st = "success"

EvidenceAt(r) ==
    /\ Backed(g[r])
    /\ pc[r] \in Unfinished => steps[Current(r)].st # "success"
    /\ pc[r] = "completed" => steps[Current(r)].st = "success"

LEMMA EvidenceIsLocal ==
    Evidence <=> Backed(ckpt) /\ \A r \in RunIds : EvidenceAt(r)
BY DEF Evidence, CheckpointBacked, Backed, EvidenceAt

LEMMA RunStepEvidence ==
    ASSUME TypeOK, Chain, Held, Located, Evidence, NEW r \in RunIds, RunStep(r),
           ~PredecessorDone(r)
    PROVE  Evidence'
<1>0. /\ g[r] \in Graph /\ ckpt \in Graph /\ Backed(ckpt) /\ EvidenceAt(r)
      /\ g \in [RunIds -> Graph] /\ pc \in [RunIds -> Pc] /\ steps \in [StepIdx -> StepRow]
  BY EvidenceIsLocal DEF TypeOK
<1>1. \A s \in RunIds \ {r} : pc'[s] = pc[s] /\ g'[s] = g[s] /\ pc[s] \notin Holding /\ g[s] = NewGraph
  BY RunStepShape, OneActive DEF Held, Alive, Holding, InGraph, Nodes
\* The other runs are outside the graph: their empty graph state claims nothing.
<1>2. \A s \in RunIds \ {r} : EvidenceAt(s)'
  <2> SUFFICES ASSUME NEW s \in RunIds \ {r} PROVE EvidenceAt(s)'
    OBVIOUS
  <2>1. g'[s].idx = 0 /\ pc'[s] \notin Unfinished \cup {"completed"}
    BY <1>1 DEF NewGraph, Unfinished, Executing, Holding, InGraph, Nodes
  <2> QED BY <2>1 DEF EvidenceAt, Backed, StepIdx
<1>3. ASSUME Backed(ckpt)', EvidenceAt(r)' PROVE Evidence'
  BY <1>2, <1>3, EvidenceIsLocal DEF Evidence, CheckpointBacked, Backed, EvidenceAt
\* Steps that neither touch a record nor move the index.
<1>4. ASSUME UNCHANGED steps, g'[r].idx \in {g[r].idx, ckpt.idx, 0}, g'[r].idx \in Nat,
             ckpt'.idx \in {ckpt.idx, g[r].idx},
             pc'[r] \in Unfinished => pc[r] \in Unfinished /\ g'[r].idx = g[r].idx,
             pc'[r] # "completed"
      PROVE  Evidence'
  <2>1. Backed(ckpt)' /\ Backed(g[r])'
    BY <1>0, <1>4 DEF EvidenceAt, Backed, StepIdx
  <2>2. EvidenceAt(r)'
    BY <1>0, <1>4, <2>1 DEF EvidenceAt, Current
  <2> QED BY <1>3, <2>1, <2>2
<1>5. CASE AcquireLease(r) \/ ReleaseLease(r)
  <2>1. /\ UNCHANGED steps /\ ckpt' = ckpt /\ g'[r] \in {g[r], NewGraph}
        /\ pc'[r] \in {"begin", "done"}
    BY <1>0, <1>5 DEF AcquireLease, ReleaseLease, Finish, Goto, Advance, rows
  <2> QED BY <1>0, <1>4, <2>1 DEF Graph, NewGraph, Unfinished, Executing
<1>6. CASE BeginExecute(r)
  <2>1. UNCHANGED steps /\ ckpt' = ckpt /\ g'[r].idx = ckpt.idx /\ pc'[r] = Entry(ckpt.next)
    BY <1>0, <1>6 DEF BeginExecute, Goto, Advance, rows, Graph
  <2>2. Entry(ckpt.next) \notin Unfinished \cup {"completed"} /\ ckpt.idx \in Nat
    BY <1>0, PlansAssumption DEF Entry, Graph, Nodes, Unfinished, Executing
  <2> QED BY <1>4, <2>1, <2>2
<1>7. CASE EnterPlan(r) \/ StorePlan(r) \/ ReadControl(r) \/ PauseTask(r) \/ Interrupt(r)
           \/ OpenGate(r) \/ RecordEpisode(r) \/ Conclude(r) \/ EndGraph(r) \/ RecordFailure(r)
  <2>1. UNCHANGED steps
    BY <1>7 DEF EnterPlan, StorePlan, ReadControl, PauseTask, Interrupt, OpenGate,
         RecordEpisode, Conclude, EndGraph, RecordFailure, rows
  <2>2. g'[r].idx = g[r].idx /\ g[r].idx \in Nat /\ ckpt'.idx \in {ckpt.idx, g[r].idx}
    <3>0. ASSUME NEW new \in Graph, new.idx = g[r].idx, Superstep(r, new), ckpt' = ckpt
          PROVE  g'[r].idx = g[r].idx /\ g[r].idx \in Nat /\ ckpt'.idx \in {ckpt.idx, g[r].idx}
      BY <1>0, <3>0, PlansAssumption DEF Superstep, Advance, Graph
    <3>1. CASE StorePlan(r)
      <4>1. PICK p \in Plans : Superstep(r, [g[r] EXCEPT !.next = "control", !.plan = p])
        BY <3>1 DEF StorePlan
      <4> DEFINE new == [g[r] EXCEPT !.next = "control", !.plan = p]
      <4>2. new \in Graph /\ new.idx = g[r].idx
        BY <1>0 DEF Graph, Nodes
      <4>3. Superstep(r, new) /\ ckpt' = ckpt
        BY <3>1, <4>1 DEF StorePlan
      <4> HIDE DEF new
      <4> QED BY <3>0, <4>2, <4>3
    <3>2. CASE ReadControl(r)
      <4> DEFINE new == [g[r] EXCEPT !.next = "cancelled"]
      <4>1. new \in Graph /\ new.idx = g[r].idx
        BY <1>0 DEF Graph, Nodes
      <4>2. ckpt' = ckpt /\ (Superstep(r, new) \/ g' = g)
        BY <3>2 DEF ReadControl
      <4>3. CASE g' = g
        BY <1>0, <4>2, <4>3, PlansAssumption DEF Graph
      <4> HIDE DEF new
      <4> QED BY <3>0, <4>1, <4>2, <4>3
    <3>3. CASE OpenGate(r)
      <4> DEFINE new == [g[r] EXCEPT !.next = IF g[r].idx < Len(g[r].plan)
                                              THEN "execute" ELSE "success"]
      <4>1. new \in Graph /\ new.idx = g[r].idx
        BY <1>0 DEF Graph, Nodes
      <4>2. Superstep(r, new) /\ ckpt' = ckpt
        BY <3>3 DEF OpenGate
      <4> HIDE DEF new
      <4> QED BY <3>0, <4>1, <4>2
    <3>4. CASE Interrupt(r) \/ EndGraph(r)
      <4> DEFINE new == [g[r] EXCEPT !.next = "end", !.token = FALSE]
      <4>1. new.idx = g[r].idx /\ g[r].idx \in Nat
        BY <1>0, PlansAssumption DEF Graph
      <4>2. g'[r] \in {g[r], new} /\ ckpt' \in {ckpt, g[r], new}
        BY <1>0, <3>4 DEF Interrupt, EndGraph, LeaveGraph, Advance
      <4> HIDE DEF new
      <4> QED BY <4>1, <4>2
    <3>5. CASE EnterPlan(r) \/ PauseTask(r) \/ RecordEpisode(r) \/ Conclude(r) \/ RecordFailure(r)
      BY <1>0, <3>5, PlansAssumption DEF EnterPlan, PauseTask, RecordEpisode, Conclude,
           RecordFailure, Graph
    <3> QED BY <1>7, <3>1, <3>2, <3>3, <3>4, <3>5
  <2>3. pc'[r] \notin Unfinished \cup {"completed"}
    <3>1. CASE StorePlan(r) \/ OpenGate(r)
      <4>1. pc'[r] \in Nodes
        <5>1. CASE StorePlan(r)
          BY <1>0, <5>1 DEF StorePlan, Superstep, Goto, Entry, Graph, Nodes
        <5>2. CASE OpenGate(r)
          BY <1>0, <5>2 DEF OpenGate, Superstep, Goto, Entry, Graph, Nodes
        <5> QED BY <3>1, <5>1, <5>2
      <4> QED BY <4>1 DEF Unfinished, Executing, Nodes
    <3>2. CASE ReadControl(r)
      <4>1. pc'[r] \in {"cancelled", "pausing", "opening"}
        BY <1>0, <3>2 DEF ReadControl, Superstep, Goto, Entry, Graph, Nodes
      <4> QED BY <4>1 DEF Unfinished, Executing
    <3>3. CASE ~StorePlan(r) /\ ~OpenGate(r) /\ ~ReadControl(r)
      BY <1>0, <1>7, <3>3 DEF EnterPlan, PauseTask, Interrupt, RecordEpisode, Conclude,
           EndGraph, RecordFailure, LeaveGraph, Goto, Unfinished, Executing
    <3> QED BY <3>1, <3>2, <3>3
  <2> QED BY <1>4, <2>1, <2>2, <2>3
<1>8. CASE CallCapability(r)
  BY <1>0, <1>4, <1>8, PlansAssumption DEF CallCapability, Goto, rows, Graph, Unfinished, Executing
\* A recorded success moves the index past its step.
<1>9. ASSUME StepDone(r), UNCHANGED <<steps, ckpt>>, pc[r] \in Executing,
             steps[Current(r)].st = "success"
      PROVE  Evidence'
  <2>1. g'[r].idx = g[r].idx + 1 /\ g[r].idx \in Nat /\ Current(r) = g[r].idx + 1 /\ pc'[r] = "control"
    BY <1>0, <1>9, ExecutingHasStep DEF StepDone, Superstep, Goto, Advance, Entry, Graph
  <2>2. EvidenceAt(r)' /\ Backed(ckpt)'
    BY <1>0, <1>9, <2>1 DEF EvidenceAt, Backed, StepIdx, Unfinished, Executing
  <2> QED BY <1>3, <2>2
<1>10. CASE LookupStep(r)
  <2>1. CASE steps[Current(r)].st = "success"
    BY <1>9, <1>10, <2>1 DEF LookupStep, rows, Executing
  <2>2. CASE steps[Current(r)].st # "success"
    <3>1. UNCHANGED <<steps, ckpt, g>> /\ pc'[r] = "beginning"
      BY <1>0, <1>10, <2>2 DEF LookupStep, Goto, rows
    <3>2. EvidenceAt(r)' /\ Backed(ckpt)'
      BY <1>0, <2>2, <3>1 DEF EvidenceAt, Backed, Current
    <3> QED BY <1>3, <3>2
  <2> QED BY <2>1, <2>2
<1>11. CASE PublishStep(r)
  BY <1>0, <1>9, <1>11 DEF PublishStep, EvidenceAt, rows, Executing
\* begin_step and fail_step only touch a step nothing counts.
<1>12. CASE BeginStep(r) \/ FailStep(r)
  <2>1. /\ pc[r] \in Unfinished /\ g' = g /\ ckpt' \in {ckpt, g[r]}
        /\ pc'[r] # "completed"
        /\ pc'[r] \in Unfinished => pc'[r] = "calling"
    BY <1>0, <1>12 DEF BeginStep, FailStep, Goto, Unfinished, Executing
  <2>2. /\ \A k \in StepIdx \ {Current(r)} : steps'[k] = steps[k]
        /\ Current(r) \in StepIdx /\ steps'[Current(r)].st \in {"running", "failed"}
    BY <1>0, <1>12, <2>1, ExecutingHasStep DEF BeginStep, FailStep, Unfinished, StepRow
  <2>3. steps[Current(r)].st # "success"
    BY <1>0, <2>1 DEF EvidenceAt
  <2>4. Backed(ckpt)' /\ Backed(g[r])'
    BY <1>0, <2>1, <2>2, <2>3 DEF EvidenceAt, Backed
  <2>5. EvidenceAt(r)'
    BY <2>1, <2>2, <2>4 DEF EvidenceAt, Current
  <2> QED BY <1>3, <2>4, <2>5
<1>13. CASE CompleteStep(r)
  <2>1. pc[r] \in Unfinished /\ UNCHANGED <<g, ckpt>> /\ pc'[r] = "completed"
    BY <1>0, <1>13 DEF CompleteStep, Goto, Unfinished, Executing
  <2>2. /\ \A k \in StepIdx : steps[k].st = "success" => steps'[k].st = "success"
        /\ steps'[Current(r)].st = "success"
    BY <1>0, <1>13, <2>1, ExecutingHasStep DEF CompleteStep, Unfinished, StepRow
  <2>3. EvidenceAt(r)' /\ Backed(ckpt)'
    BY <1>0, <2>1, <2>2 DEF EvidenceAt, Backed, Current, Unfinished
  <2> QED BY <1>3, <2>3
<1> QED
  BY <1>5, <1>6, <1>7, <1>8, <1>10, <1>11, <1>12, <1>13 DEF RunStep

LEMMA NextEvidence ==
    ASSUME TypeOK, Chain, Held, Located, Evidence, [Next]_vars
    PROVE  Evidence'
<1>1. ASSUME NEW r \in RunIds, RunStep(r) PROVE Evidence'
  <2>1. CASE PredecessorDone(r)
    BY <2>1 DEF PredecessorDone, Goto, rows, TypeOK, Evidence, CheckpointBacked, Current,
         Unfinished, Executing
  <2> QED BY <1>1, <2>1, RunStepEvidence
<1>2. CASE \E r \in RunIds : Persist(r) \/ NodeRaises(r)
  <2>1. PICK r \in RunIds : Persist(r) \/ NodeRaises(r)
    BY <1>2
  <2>2. ckpt' = g[r] /\ g' = g /\ steps' = steps
    BY <2>1 DEF Persist, NodeRaises, rows, runVars
  <2>3. \A s \in RunIds : pc'[s] = pc[s] \/ pc'[s] = "fail"
    BY <2>1 DEF Persist, NodeRaises, Goto, runVars, TypeOK
  <2> QED BY <2>2, <2>3 DEF Evidence, CheckpointBacked, Current, Unfinished, Executing
<1>3. CASE Crash \/ Shutdown
  <2>1. ckpt' = ckpt \/ \E r \in RunIds : ckpt' = g[r]
    BY <1>3 DEF Crash, Shutdown
  <2>2. steps' = steps /\ \A r \in RunIds : g'[r] = NewGraph /\ pc'[r] \in {"none", "done"}
    BY <1>3 DEF Crash, Shutdown, ProcessGone
  <2> QED BY <2>1, <2>2 DEF Evidence, CheckpointBacked, NewGraph, Unfinished, Executing, StepIdx
<1>4. CASE FromOutside
  BY <1>4 DEF FromOutside, RunsUntouched, Evidence, CheckpointBacked, Current, Unfinished, Executing
<1> QED
  BY <1>1, <1>2, <1>3, <1>4, OutsideShape

-----------------------------------------------------------------------------
(***************************************************************************)
(* Records: what a step of the system may do to the task_steps rows        *)
(***************************************************************************)
\* Only the step in flight is written, and it has no evidence yet.
LEMMA OnlyCurrentStepWritten ==
    ASSUME TypeOK, Chain, Located, Evidence, [Next]_vars, NEW i \in StepIdx, steps'[i] # steps[i]
    PROVE  \E r \in RunIds : /\ BeginStep(r) \/ CompleteStep(r) \/ FailStep(r)
                             /\ i = Current(r) /\ steps[i].st # "success"
<1>1. \E r \in RunIds : BeginStep(r) \/ CompleteStep(r) \/ FailStep(r)
  <2>1. CASE \E r \in RunIds : RunStep(r)
    BY <2>1 DEF RunStep, PredecessorDone, AcquireLease, BeginExecute, EnterPlan, StorePlan,
         ReadControl, PauseTask, Interrupt, OpenGate, LookupStep, CallCapability, PublishStep,
         RecordEpisode, Conclude, EndGraph, RecordFailure, ReleaseLease, rows
  <2>2. CASE ~\E r \in RunIds : RunStep(r)
    BY <2>2, OutsideShape DEF FromOutside, Persist, NodeRaises, Crash, Shutdown, ProcessGone, rows
  <2> QED BY <2>1, <2>2
<1>2. PICK r \in RunIds : BeginStep(r) \/ CompleteStep(r) \/ FailStep(r)
  BY <1>1
<1>3. pc[r] \in Unfinished
  BY <1>2 DEF BeginStep, CompleteStep, FailStep, Unfinished, Executing
<1>4. i = Current(r)
  BY <1>2 DEF BeginStep, CompleteStep, FailStep, TypeOK
<1> QED
  BY <1>2, <1>3, <1>4 DEF Evidence

LEMMA StepKept ==
    ASSUME TypeOK, Chain, Located, Evidence, [Next]_vars
    PROVE  \A i \in StepIdx : steps[i].st = "success" => steps'[i] = steps[i]
BY OnlyCurrentStepWritten

LEMMA NextStepsInOrder ==
    ASSUME TypeOK, Chain, Located, Evidence, StepsInOrder, [Next]_vars
    PROVE  StepsInOrder'
<1> SUFFICES ASSUME NEW i \in StepIdx, NEW j \in 1..(i - 1), steps'[i].st # "none"
             PROVE  steps'[j].st = "success"
  BY DEF StepsInOrder
<1>1. j \in StepIdx /\ j < i
  BY PlansAssumption DEF StepIdx
<1>2. CASE steps'[i] = steps[i]
  BY <1>1, <1>2, StepKept DEF StepsInOrder
<1>3. CASE steps'[i] # steps[i]
  <2>1. PICK r \in RunIds : (BeginStep(r) \/ CompleteStep(r) \/ FailStep(r)) /\ i = Current(r)
    BY <1>3, OnlyCurrentStepWritten
  <2>2. pc[r] \in Executing /\ i = Current(r)
    BY <1>3, <2>1 DEF BeginStep, CompleteStep, FailStep, Executing, TypeOK
  <2>3. j <= g[r].idx
    BY <1>1, <2>2, ExecutingHasStep DEF StepIdx
  <2>4. steps[j].st = "success"
    BY <1>1, <2>3 DEF Evidence, CheckpointBacked
  <2> QED BY <1>1, <2>4, StepKept
<1> QED BY <1>2, <1>3

-----------------------------------------------------------------------------
(***************************************************************************)
(* The plan column, and what SUCCESS means                                 *)
(***************************************************************************)
LEMMA RunStepPlanned ==
    ASSUME TypeOK, Chain, Held, Located, Planned, NEW r \in RunIds, RunStep(r),
           ~PredecessorDone(r)
    PROVE  Planned'
<1>0. /\ g[r] \in Graph /\ ckpt \in Graph
      /\ g \in [RunIds -> Graph] /\ pc \in [RunIds -> Pc]
  BY DEF TypeOK
<1>1. \A s \in RunIds \ {r} : pc'[s] \notin Holding
  BY RunStepShape, OneActive DEF Held, Alive, Holding, InGraph, Nodes
<1>2. ASSUME PlannedBy(ckpt)',
             pc'[r] \in Holding \ {"begin"} => PlannedBy(g[r])',
             pc'[r] \in Holding \ {"begin"} /\ g'[r].next = "plan" => ckpt'.next = "plan"
      PROVE  Planned'
  BY <1>1, <1>2 DEF Planned
<1>3. CASE AcquireLease(r) \/ ReleaseLease(r)
  <2>1. plan' = plan /\ ckpt' = ckpt /\ pc'[r] \in {"begin", "done"}
    BY <1>0, <1>3 DEF AcquireLease, ReleaseLease, Finish, Goto
  <2> QED BY <1>2, <2>1 DEF Planned, PlannedBy, Holding, InGraph, Nodes
<1>4. CASE BeginExecute(r)
  <2>1. plan' = plan /\ ckpt' = ckpt /\ g'[r].next = ckpt.next /\ g'[r].plan = ckpt.plan
    BY <1>0, <1>4 DEF BeginExecute, Advance, rows, Graph
  <2> QED BY <1>2, <2>1 DEF Planned, PlannedBy
<1>5. CASE StorePlan(r)
  <2>1. PICK p \in Plans : plan' = p /\ Superstep(r, [g[r] EXCEPT !.next = "control", !.plan = p])
    BY <1>5 DEF StorePlan
  <2>2. g'[r].next = "control" /\ g'[r].plan = p
    BY <1>0, <2>1 DEF Superstep, Advance, Graph
  <2>3. g[r].next = "plan" /\ pc[r] \in Holding \ {"begin"}
    BY <1>5 DEF StorePlan, Located, NodeOf, Executing, Holding, InGraph, Nodes
  <2>4. ckpt.next = "plan" /\ ckpt' = ckpt
    BY <1>5, <2>3 DEF StorePlan, Planned
  <2> QED BY <1>2, <2>1, <2>2, <2>4 DEF PlannedBy
\* Every other step keeps the plan, and leaves "plan" only through StorePlan.
<1>6. ASSUME plan' = plan, pc[r] \in Holding \ {"begin"},
             g'[r] = g[r] \/ (g[r].next # "plan" /\ g'[r].next # "plan" /\ g'[r].plan = g[r].plan),
             ckpt' \in {ckpt, g[r], g'[r]}
      PROVE  Planned'
  BY <1>2, <1>6 DEF Planned, PlannedBy
<1>7. CASE EnterPlan(r) \/ PauseTask(r) \/ BeginStep(r) \/ CallCapability(r) \/ CompleteStep(r)
           \/ FailStep(r) \/ RecordEpisode(r) \/ Conclude(r) \/ RecordFailure(r) \/ Interrupt(r)
  <2>1. plan' = plan /\ g'[r] = g[r] /\ ckpt' \in {ckpt, g[r]}
    BY <1>0, <1>7 DEF EnterPlan, PauseTask, BeginStep, CallCapability, CompleteStep, FailStep,
         RecordEpisode, Conclude, RecordFailure, Interrupt, LeaveGraph, Advance, rows
  <2>2. pc[r] \in Holding \ {"begin"}
    BY <1>7 DEF EnterPlan, PauseTask, BeginStep, CallCapability, CompleteStep, FailStep,
         RecordEpisode, Conclude, RecordFailure, Interrupt, Holding, InGraph, Nodes
  <2> QED BY <1>6, <2>1, <2>2
<1>8. ASSUME NEW new \in Graph, Superstep(r, new), new.next # "plan", new.plan = g[r].plan,
             pc[r] \in InGraph \ {"finishing", "plan", "planning"}, plan' = plan, ckpt' = ckpt
      PROVE  Planned'
  <2>1. g'[r].next = new.next /\ g'[r].plan = new.plan
    BY <1>0, <1>8 DEF Superstep, Advance, Graph
  <2>2. g[r].next # "plan"
    BY <1>8 DEF Located, NodeOf, Executing
  <2>3. pc[r] \in Holding \ {"begin"}
    BY <1>8 DEF Holding, InGraph, Nodes
  <2> QED BY <1>6, <1>8, <2>1, <2>2, <2>3
<1>9. CASE ReadControl(r)
  <2>1. CASE control = "cancel"
    <3> DEFINE new == [g[r] EXCEPT !.next = "cancelled"]
    <3>1. new \in Graph /\ new.next # "plan" /\ new.plan = g[r].plan
      BY <1>0 DEF Graph, Nodes
    <3>2. /\ ckpt' = ckpt /\ plan' = plan /\ Superstep(r, new)
          /\ pc[r] \in InGraph \ {"finishing", "plan", "planning"}
      BY <1>9, <2>1 DEF ReadControl, rows, InGraph, Nodes
    <3> HIDE DEF new
    <3> QED BY <1>8, <3>1, <3>2
  <2>2. CASE control # "cancel"
    <3>1. g'[r] = g[r] /\ ckpt' = ckpt /\ plan' = plan /\ pc[r] \in Holding \ {"begin"}
      BY <1>9, <2>2 DEF ReadControl, rows, Holding, InGraph, Nodes
    <3> QED BY <1>6, <3>1
  <2> QED BY <2>1, <2>2
<1>10. CASE OpenGate(r)
  <2> DEFINE new == [g[r] EXCEPT !.next = IF g[r].idx < Len(g[r].plan) THEN "execute" ELSE "success"]
  <2>1. new \in Graph /\ new.next # "plan" /\ new.plan = g[r].plan
    BY <1>0 DEF Graph, Nodes
  <2>2. /\ ckpt' = ckpt /\ plan' = plan /\ Superstep(r, new)
        /\ pc[r] \in InGraph \ {"finishing", "plan", "planning"}
    BY <1>10 DEF OpenGate, InGraph, Nodes
  <2> HIDE DEF new
  <2> QED BY <1>8, <2>1, <2>2
<1>11. CASE LookupStep(r) \/ PublishStep(r)
  <2>1. /\ pc[r] \in Executing /\ ckpt' = ckpt /\ plan' = plan
        /\ StepDone(r) \/ g' = g
    BY <1>11 DEF LookupStep, PublishStep, Executing, rows
  <2>2. pc[r] \in InGraph \ {"finishing", "plan", "planning"} /\ pc[r] \in Holding \ {"begin"}
    BY <2>1 DEF Executing, Holding, InGraph, Nodes
  <2>3. CASE g' = g
    BY <1>6, <2>1, <2>2, <2>3
  <2>4. CASE StepDone(r)
    <3> DEFINE new == [g[r] EXCEPT !.next = "control", !.idx = @ + 1]
    <3>1. new \in Graph /\ new.next # "plan" /\ new.plan = g[r].plan
      BY <1>0, <2>1, ExecutingHasStep DEF Graph, Nodes
    <3>2. Superstep(r, new)
      BY <2>4 DEF StepDone
    <3> HIDE DEF new
    <3> QED BY <1>8, <2>1, <2>2, <3>1, <3>2
  <2> QED BY <2>1, <2>3, <2>4
<1>12. CASE EndGraph(r)
  <2> DEFINE new == [g[r] EXCEPT !.next = "end", !.token = FALSE]
  <2>1. plan' = plan /\ g'[r] = new /\ ckpt' = new /\ pc'[r] = "release" /\ pc[r] = "finishing"
    BY <1>0, <1>12 DEF EndGraph, LeaveGraph, Goto, Advance, rows
  <2>2. new.next = "end" /\ new.plan = g[r].plan
    BY <1>0 DEF Graph
  <2>3. g[r].next # "plan"
    BY <2>1 DEF Located
  <2>4. PlannedBy(g[r])
    BY <2>1 DEF Planned, Holding, InGraph, Nodes
  <2> QED BY <1>2, <2>1, <2>2, <2>3, <2>4 DEF PlannedBy
<1> QED
  BY <1>3, <1>4, <1>5, <1>7, <1>9, <1>10, <1>11, <1>12 DEF RunStep

LEMMA NextPlanned ==
    ASSUME TypeOK, Chain, Held, Located, Planned, [Next]_vars
    PROVE  Planned'
<1>1. ASSUME NEW r \in RunIds, RunStep(r) PROVE Planned'
  <2>1. CASE PredecessorDone(r)
    BY <2>1 DEF PredecessorDone, Goto, rows, TypeOK, Planned, PlannedBy, Holding, InGraph, Nodes
  <2> QED BY <1>1, <2>1, RunStepPlanned
<1>2. CASE \E r \in RunIds : Persist(r) \/ NodeRaises(r)
  <2>1. PICK r \in RunIds : Persist(r) \/ NodeRaises(r)
    BY <1>2
  <2>2. ckpt' = g[r] /\ g' = g /\ plan' = plan /\ pc[r] \in InGraph
    BY <2>1 DEF Persist, NodeRaises, rows, runVars
  <2>3. pc'[r] \in Holding /\ \A s \in RunIds \ {r} : pc'[s] = pc[s]
    BY <2>1 DEF Persist, NodeRaises, Goto, runVars, TypeOK, Holding
  <2>4. \A s \in RunIds \ {r} : pc[s] \notin Holding
    BY <2>2, OneActive DEF Alive, Holding, InGraph, Nodes
  <2>5. PlannedBy(g[r])
    BY <2>2 DEF Planned, Holding, InGraph, Nodes
  <2> QED BY <2>2, <2>3, <2>4, <2>5 DEF Planned, PlannedBy
<1>3. CASE Crash \/ Shutdown
  <2>1. ckpt' = ckpt \/ \E r \in RunIds : ckpt' = g[r] /\ pc[r] \in InGraph
    BY <1>3 DEF Crash, Shutdown
  <2>2. plan' = plan /\ \A r \in RunIds : pc'[r] \in {"none", "done"}
    BY <1>3 DEF Crash, Shutdown, ProcessGone
  <2>3. \A r \in RunIds : pc[r] \in InGraph => PlannedBy(g[r])
    BY DEF Planned, Holding, InGraph, Nodes
  <2> QED BY <2>1, <2>2, <2>3 DEF Planned, PlannedBy, Holding, InGraph, Nodes
<1>4. CASE FromOutside
  BY <1>4 DEF FromOutside, RunsUntouched, Planned, PlannedBy, Holding, InGraph, Nodes
<1> QED
  BY <1>1, <1>2, <1>3, <1>4, OutsideShape

LEMMA NextSuccess ==
    ASSUME TypeOK, Chain, Held, Located, Evidence, Planned, SuccessHasEvidence, [Next]_vars
    PROVE  SuccessHasEvidence'
<1> SUFFICES ASSUME status' = "success", NEW i \in DOMAIN plan' PROVE steps'[i].st = "success"
  BY DEF SuccessHasEvidence
\* SUCCESS is written by Conclude alone, and the plan only together with RUNNING.
<1>1. \/ status = "success" /\ plan' = plan
      \/ \E r \in RunIds : pc[r] = "succeeding" /\ UNCHANGED <<plan, steps>>
  <2>1. CASE \E r \in RunIds : RunStep(r)
    BY <2>1 DEF RunStep, PredecessorDone, AcquireLease, BeginExecute, EnterPlan, StorePlan,
         ReadControl, PauseTask, Interrupt, OpenGate, LookupStep, BeginStep, CallCapability,
         CompleteStep, PublishStep, FailStep, RecordEpisode, Conclude, EndGraph, RecordFailure,
         ReleaseLease, rows
  <2>2. CASE ~\E r \in RunIds : RunStep(r)
    BY <2>2, OutsideShape DEF FromOutside, Persist, NodeRaises, Crash, Shutdown, ProcessGone, rows
  <2> QED BY <2>1, <2>2
<1>2. \A p \in Plans \cup {<<>>} : DOMAIN p = 1..Len(p) /\ Len(p) \in 0..MaxSteps
  BY PlanLength, PlansAssumption
<1>3. plan \in Plans \cup {<<>>} /\ MaxSteps \in Nat
  BY PlansAssumption DEF TypeOK
<1>4. CASE status = "success" /\ plan' = plan
  <2>1. i \in StepIdx
    BY <1>2, <1>3, <1>4 DEF StepIdx
  <2>2. steps[i].st = "success"
    BY <1>4 DEF SuccessHasEvidence
  <2> QED BY <2>1, <2>2, StepKept
<1>5. ASSUME NEW r \in RunIds, pc[r] = "succeeding", UNCHANGED <<plan, steps>>
      PROVE  steps'[i].st = "success"
  <2>1. g[r].next = "success"
    BY <1>5 DEF Located, NodeOf, Executing, InGraph, Nodes
  <2>2. g[r].plan = plan /\ g[r].idx >= Len(g[r].plan)
    BY <1>5, <2>1 DEF Located, GraphOK, Planned, PlannedBy, Holding, InGraph, Nodes
  <2>3. i \in StepIdx /\ i <= g[r].idx
    <3>1. g[r].idx \in 0..MaxSteps
      BY DEF TypeOK, Graph
    <3> QED BY <1>2, <1>3, <1>5, <2>2, <3>1 DEF StepIdx
  <2> QED BY <1>5, <2>3 DEF Evidence, CheckpointBacked
<1> QED BY <1>1, <1>4, <1>5

-----------------------------------------------------------------------------
(***************************************************************************)
(* When a task is over: the graph, once finished, is never entered again,  *)
(* and a final status is only written on the way out of it.                *)
(***************************************************************************)
\* A step of a run inside the graph keeps it moving, settles the task, or finishes
\* the graph.
LEMMA GraphStepAttended ==
    ASSUME TypeOK, Located, NEW r \in RunIds, RunStep(r), pc[r] \in Holding,
           pc[r] # "release", OpenWork
    PROVE  /\ pc'[r] \in InGraph \cup {"fail"} => (ckpt.next # "end" /\ ckpt'.next # "end")
           /\ \/ pc'[r] \in (InGraph \ {"interrupting"}) \cup {"fail"}
              \/ Settled'
              \/ ~WorkLeft'
              \/ pc[r] = "interrupting" /\ status' = status /\ ckpt.next # "end"
<1> USE DEF Holding, InGraph, Nodes
<1>0. /\ g[r] \in Graph /\ ckpt \in Graph /\ pc \in [RunIds -> Pc]
      /\ pc[r] \in InGraph => g[r].next # "end" /\ ckpt.next # "end"
  BY DEF TypeOK, Located, OpenWork, WorkLeft, NodeOf, Executing
<1>1. CASE BeginExecute(r)
  BY <1>0, <1>1 DEF BeginExecute, Goto, Entry, Graph, WorkLeft
<1>2. CASE EnterPlan(r) \/ BeginStep(r) \/ CallCapability(r) \/ CompleteStep(r)
           \/ RecordEpisode(r) \/ Conclude(r)
  BY <1>0, <1>2 DEF EnterPlan, BeginStep, CallCapability, CompleteStep, RecordEpisode,
     Conclude, Goto, rows
<1>3. CASE PauseTask(r) \/ RecordFailure(r)
  BY <1>0, <1>3 DEF PauseTask, RecordFailure, Goto, Settled, Terminal
<1>4. CASE StorePlan(r) \/ ReadControl(r) \/ OpenGate(r)
  <2> DEFINE at(x) == [g[r] EXCEPT !.next = x]
  <2>1. /\ \A p \in Plans : [g[r] EXCEPT !.next = "control", !.plan = p].next = "control"
        /\ \A x \in Nodes : at(x).next = x
    BY <1>0 DEF Graph
  <2>2. \E x \in InGraph \ {"interrupting"} : pc' = [pc EXCEPT ![r] = x]
    <3>1. CASE StorePlan(r)
      BY <2>1, <3>1 DEF StorePlan, Superstep, Entry, Goto
    <3>2. CASE ReadControl(r)
      BY <2>1, <3>2 DEF ReadControl, Superstep, Entry, Goto
    <3>3. CASE OpenGate(r)
      BY <2>1, <3>3 DEF OpenGate, Superstep, Entry, Goto
    <3> QED BY <1>4, <3>1, <3>2, <3>3
  <2>3. ckpt' = ckpt /\ pc[r] \in InGraph
    BY <1>4 DEF StorePlan, ReadControl, OpenGate
  <2> QED BY <1>0, <2>2, <2>3
<1>5. CASE Interrupt(r)
  BY <1>0, <1>5 DEF Interrupt, LeaveGraph, Goto, rows
<1>6. CASE EndGraph(r)
  BY <1>0, <1>6 DEF EndGraph, LeaveGraph, Goto, Graph, WorkLeft
<1>7. CASE LookupStep(r) \/ PublishStep(r)
  <2>1. [g[r] EXCEPT !.next = "control", !.idx = @ + 1].next = "control"
    BY <1>0 DEF Graph
  <2> QED
    BY <1>0, <1>7, <2>1 DEF LookupStep, PublishStep, StepDone, Superstep, Entry, Goto
<1>8. CASE FailStep(r)
  BY <1>0, <1>8 DEF FailStep, Goto
<1>9. ~PredecessorDone(r) /\ ~AcquireLease(r) /\ ~ReleaseLease(r)
  BY DEF PredecessorDone, AcquireLease, ReleaseLease
<1> QED
  BY <1>1, <1>2, <1>3, <1>4, <1>5, <1>6, <1>7, <1>8, <1>9 DEF RunStep

\* A run's step leaves the requests alone.
LEMMA RunStepRequests ==
    ASSUME NEW r \in RunIds, RunStep(r)
    PROVE  req' = req /\ nrun' = nrun /\ up' = up
BY DEF RunStep, PredecessorDone, AcquireLease, BeginExecute, EnterPlan, StorePlan, ReadControl,
     PauseTask, Interrupt, OpenGate, LookupStep, BeginStep, CallCapability, CompleteStep,
     PublishStep, FailStep, RecordEpisode, Conclude, EndGraph, RecordFailure, ReleaseLease

LEMMA NextOpenWork ==
    ASSUME TypeOK, Chain, Located, OpenWork, [Next]_vars
    PROVE  OpenWork'
<1> USE DEF Alive, Holding, InGraph, Nodes
<1>1. ASSUME NEW r \in RunIds, RunStep(r) PROVE OpenWork'
  <2>1. CASE PredecessorDone(r) \/ AcquireLease(r) \/ ReleaseLease(r)
    <3>1. ckpt' = ckpt /\ pc'[r] \notin InGraph \cup {"fail"} /\ \A s \in RunIds \ {r} : pc'[s] = pc[s]
      BY <2>1 DEF PredecessorDone, AcquireLease, ReleaseLease, Finish, Goto, TypeOK
    <3> QED BY <3>1 DEF OpenWork, WorkLeft
  <2>2. CASE ~(PredecessorDone(r) \/ AcquireLease(r) \/ ReleaseLease(r))
    <3>1. /\ \A s \in RunIds \ {r} : pc'[s] = pc[s]
          /\ pc[r] \in Holding /\ pc[r] \in Alive \ {"wait"}
      BY <1>1, <2>2, RunStepShape
    <3>2. \A s \in RunIds \ {r} : pc[s] \notin InGraph \cup {"fail"}
      BY <3>1, OneActive
    <3>3. pc[r] # "release"
      BY <1>1, <2>2 DEF RunStep, BeginExecute, EnterPlan, StorePlan, ReadControl, PauseTask,
         Interrupt, OpenGate, LookupStep, BeginStep, CallCapability, CompleteStep, PublishStep,
         FailStep, RecordEpisode, Conclude, EndGraph, RecordFailure
    <3>4. pc'[r] \in InGraph \cup {"fail"} => ckpt'.next # "end"
      BY <1>1, <3>1, <3>3, GraphStepAttended
    <3> QED BY <3>1, <3>2, <3>4 DEF OpenWork, WorkLeft
  <2> QED BY <2>1, <2>2
<1>2. ASSUME NEW r \in RunIds, Persist(r) PROVE OpenWork'
  <2>1. g[r].next # "end" /\ ckpt' = g[r]
    BY <1>2 DEF Persist, Located, NodeOf, Executing
  <2> QED BY <2>1 DEF OpenWork, WorkLeft
<1>3. ASSUME NEW r \in RunIds, NodeRaises(r) PROVE OpenWork'
  <2>1. pc' = [pc EXCEPT ![r] = "fail"] /\ pc[r] \in InGraph /\ ckpt' = g[r]
    BY <1>3 DEF NodeRaises, Goto
  <2>2. g[r].next # "end"
    BY <2>1 DEF Located, NodeOf, Executing
  <2> QED BY <2>1, <2>2 DEF OpenWork, WorkLeft
<1>4. CASE Crash \/ Shutdown
  BY <1>4 DEF Crash, Shutdown, ProcessGone, OpenWork
<1>5. CASE FromOutside
  BY <1>5 DEF FromOutside, RunsUntouched, OpenWork, WorkLeft
<1> QED
  BY <1>1, <1>2, <1>3, <1>4, <1>5, OutsideShape

\* A final status is written by Conclude alone; a finished graph is written by no one.
LEMMA RunStepFinal ==
    ASSUME TypeOK, NEW r \in RunIds, RunStep(r)
    PROVE  /\ ~Done(r)
           /\ pc[r] = "wait" => \A s \in RunIds \ {r} : pc'[s] = pc[s]
           /\ ckpt' = ckpt \/ pc[r] \in InGraph
           /\ status' \in Final => status' = status \/ pc'[r] = "finishing"
           /\ pc[r] = "finishing" => ckpt'.next = "end"
           /\ pc[r] = "fail" => status' = "failed"
<1>1. ~Done(r)
  BY DEF Done, RunStep, PredecessorDone, AcquireLease, BeginExecute, EnterPlan, StorePlan,
     ReadControl, PauseTask, Interrupt, OpenGate, LookupStep, BeginStep, CallCapability,
     CompleteStep, PublishStep, FailStep, RecordEpisode, Conclude, EndGraph, RecordFailure,
     ReleaseLease
<1>2. pc[r] = "wait" => \A s \in RunIds \ {r} : pc'[s] = pc[s]
  <2>1. pc[r] = "wait" => PredecessorDone(r)
    BY DEF RunStep, AcquireLease, BeginExecute, EnterPlan, StorePlan,
     ReadControl, PauseTask, Interrupt, OpenGate, LookupStep, BeginStep, CallCapability,
     CompleteStep, PublishStep, FailStep, RecordEpisode, Conclude, EndGraph, RecordFailure,
     ReleaseLease
  <2> QED BY <2>1 DEF PredecessorDone, Goto, TypeOK
<1>3. ckpt' = ckpt \/ pc[r] \in InGraph
  BY DEF RunStep, PredecessorDone, AcquireLease, BeginExecute, EnterPlan, StorePlan,
     ReadControl, PauseTask, Interrupt, OpenGate, LookupStep, BeginStep, CallCapability,
     CompleteStep, PublishStep, FailStep, RecordEpisode, Conclude, EndGraph, RecordFailure,
     ReleaseLease, InGraph
<1>4. status' \in Final => status' = status \/ pc'[r] = "finishing"
  BY DEF RunStep, PredecessorDone, AcquireLease, BeginExecute, EnterPlan, StorePlan,
     ReadControl, PauseTask, Interrupt, OpenGate, LookupStep, BeginStep, CallCapability,
     CompleteStep, PublishStep, FailStep, RecordEpisode, Conclude, EndGraph, RecordFailure,
     ReleaseLease, rows, Final, Goto, TypeOK
<1>5. pc[r] = "finishing" => ckpt'.next = "end"
  <2>1. pc[r] = "finishing" => EndGraph(r)
    BY DEF RunStep, PredecessorDone, AcquireLease, BeginExecute, EnterPlan, StorePlan,
     ReadControl, PauseTask, Interrupt, OpenGate, LookupStep, BeginStep, CallCapability,
     CompleteStep, PublishStep, FailStep, RecordEpisode, Conclude, RecordFailure, ReleaseLease
  <2>2. g[r] \in Graph
    BY DEF TypeOK
  <2> QED BY <2>1, <2>2 DEF EndGraph, LeaveGraph, Graph
<1>6. pc[r] = "fail" => status' = "failed"
  BY DEF RunStep, PredecessorDone, AcquireLease, BeginExecute, EnterPlan, StorePlan,
     ReadControl, PauseTask, Interrupt, OpenGate, LookupStep, BeginStep, CallCapability,
     CompleteStep, PublishStep, FailStep, RecordEpisode, Conclude, EndGraph, RecordFailure,
     ReleaseLease
<1> QED BY <1>1, <1>2, <1>3, <1>4, <1>5, <1>6

LEMMA NextFinalIsOver ==
    ASSUME TypeOK, Chain, OpenWork, FinalIsOver, [Next]_vars
    PROVE  FinalIsOver'
<1> USE DEF Final
<1>1. ASSUME NEW r \in RunIds, RunStep(r), status' \in Final, status' = status
      PROVE  FinalIsOver'
  <2>1. CASE ckpt.next = "end"
    BY <1>1, <2>1, RunStepFinal DEF FinalIsOver, OpenWork, WorkLeft
  <2>2. ASSUME NEW q \in RunIds, pc[q] \in {"finishing", "fail"} PROVE FinalIsOver'
    <3>1. CASE q = r
      BY <1>1, <2>2, <3>1, RunStepFinal DEF FinalIsOver
    <3>2. CASE q # r
      <4>1. pc[r] = "wait"
        <5>1. pc[r] \in Alive
          BY <1>1, RunStepFinal DEF TypeOK, Pc, Done
        <5> QED BY <2>2, <3>2, <5>1, OneActive DEF Alive, Holding, InGraph, Nodes
      <4>2. pc'[q] = pc[q]
        BY <1>1, <3>2, <4>1, RunStepFinal
      <4> QED BY <2>2, <4>2 DEF FinalIsOver
    <3> QED BY <3>1, <3>2
  <2>3. ~Dead
    BY <1>1, RunStepFinal DEF Dead
  <2> QED BY <1>1, <2>1, <2>2, <2>3 DEF FinalIsOver
<1>2. ASSUME NEW r \in RunIds, RunStep(r) PROVE FinalIsOver'
  <2>1. CASE pc'[r] = "finishing"
    BY <2>1 DEF FinalIsOver
  <2>2. CASE pc'[r] # "finishing"
    BY <1>1, <1>2, <2>2, RunStepFinal DEF FinalIsOver
  <2> QED BY <2>1, <2>2
<1>3. ASSUME NEW r \in RunIds, Persist(r) PROVE FinalIsOver'
  <2>1. ckpt.next # "end" /\ ~Dead /\ UNCHANGED <<pc, status>>
    BY <1>3 DEF Persist, OpenWork, WorkLeft, Dead, Done, InGraph, Nodes, rows, runVars
  <2> QED BY <2>1 DEF FinalIsOver
<1>4. ASSUME NEW r \in RunIds, NodeRaises(r) PROVE FinalIsOver'
  <2>1. pc'[r] = "fail"
    BY <1>4 DEF NodeRaises, Goto, TypeOK
  <2> QED BY <2>1 DEF FinalIsOver
<1>5. CASE Crash \/ Shutdown
  <2>1. Dead'
    BY <1>5 DEF Crash, Shutdown, ProcessGone, Dead, Done
  <2> QED BY <2>1 DEF FinalIsOver
<1>6. ASSUME UNCHANGED <<status, ckpt>>, RunsUntouched, ~Dead PROVE FinalIsOver'
  BY <1>6 DEF FinalIsOver, RunsUntouched
<1>7. ASSUME NEW c \in Clients, NEW kind \in Kinds, Accept(c, kind) PROVE FinalIsOver'
  BY <1>7 DEF Accept, Admissible, Terminal, rows, FinalIsOver
<1>8. ASSUME NEW c \in Clients, WriteControl(c) PROVE FinalIsOver'
  <2>1. ~Dead /\ UNCHANGED <<pc, ckpt>> /\ (status' = status \/ status' = "queued")
    BY <1>8 DEF WriteControl, Dead, runVars
  <2> QED BY <2>1 DEF FinalIsOver
<1>9. ASSUME NEW c \in Clients, StartRun(c) PROVE FinalIsOver'
  <2> DEFINE flag == req[c].kind = "resume" \/ (req[c].kind = "cancel" /\ req[c].was = "waiting")
  <2>1. flag \in BOOLEAN /\ Start(flag)
    BY <1>9 DEF StartRun
  <2>2. RunsUntouched
    <3> HIDE DEF flag
    <3> QED BY <2>1, StartShape
  <2>3. ~Dead /\ UNCHANGED <<status, ckpt>>
    BY <1>9 DEF StartRun, Dead, rows
  <2> QED BY <1>6, <2>2, <2>3
<1>10. CASE Restart
  <2>1. status \in Final => UNCHANGED <<pc, req, ckpt>>
    BY <1>10 DEF Restart, Recoverable, Terminal, runVars
  <2>2. status' = status
    BY <1>10 DEF Restart, rows
  <2> QED BY <2>1, <2>2 DEF FinalIsOver, Dead, Done
<1>11. CASE LeaseExpires \/ UNCHANGED vars
  <2>1. UNCHANGED <<pc, status, ckpt, req>>
    BY <1>11 DEF LeaseExpires, vars, rows, runVars
  <2> QED BY <2>1 DEF FinalIsOver, Dead, Done
<1> QED
  BY <1>2, <1>3, <1>4, <1>5, <1>7, <1>8, <1>9, <1>10, <1>11 DEF Next, RequestStep

\* Only EndGraph finishes the graph, and only a run in it, or recording its failure, writes
\* the status.
LEMMA RunStepWork ==
    ASSUME TypeOK, Located, OpenWork, NEW r \in RunIds, RunStep(r)
    PROVE  /\ pc[r] # "finishing" => WorkLeft' = WorkLeft
           /\ pc[r] = "finishing" => WorkLeft /\ ~WorkLeft' /\ UNCHANGED <<status, plan, steps>>
           /\ status' # status => pc[r] \in (InGraph \ {"finishing"}) \cup {"fail"}
           /\ pc'[r] = "finishing" => status' \in Final
<1>1. /\ status' # status => pc[r] \in (InGraph \ {"finishing"}) \cup {"fail"}
      /\ pc'[r] = "finishing" => status' \in Final
  BY DEF RunStep, PredecessorDone, AcquireLease, BeginExecute, EnterPlan, StorePlan,
     ReadControl, PauseTask, Interrupt, OpenGate, LookupStep, BeginStep, CallCapability,
     CompleteStep, PublishStep, FailStep, StepDone, RecordEpisode, Conclude, EndGraph, RecordFailure,
     ReleaseLease, Superstep, LeaveGraph, Entry, Finish, InGraph, Nodes, rows, Final, Goto, TypeOK, Graph
<1>2. CASE pc[r] = "finishing"
  <2>1. EndGraph(r)
    BY <1>2 DEF RunStep, PredecessorDone, AcquireLease, BeginExecute, EnterPlan, StorePlan,
     ReadControl, PauseTask, Interrupt, OpenGate, LookupStep, BeginStep, CallCapability,
     CompleteStep, PublishStep, FailStep, RecordEpisode, Conclude, RecordFailure, ReleaseLease
  <2>2. g[r] \in Graph /\ WorkLeft
    BY <1>2 DEF TypeOK, OpenWork, InGraph
  <2>3. ~WorkLeft' /\ UNCHANGED <<status, plan, steps>>
    BY <2>1, <2>2 DEF EndGraph, LeaveGraph, Graph, WorkLeft, rows
  <2> QED BY <1>1, <1>2, <2>2, <2>3
<1>3. CASE pc[r] # "finishing"
  <2>1. ckpt' = ckpt \/ (pc[r] \in InGraph \ {"finishing"} /\ ckpt' = g[r])
    BY <1>3 DEF RunStep, PredecessorDone, AcquireLease, BeginExecute, EnterPlan, StorePlan,
     ReadControl, PauseTask, Interrupt, OpenGate, LookupStep, BeginStep, CallCapability,
     CompleteStep, PublishStep, FailStep, RecordEpisode, Conclude, EndGraph, RecordFailure,
     ReleaseLease, LeaveGraph, InGraph
  <2>2. pc[r] \in InGraph \ {"finishing"} => g[r].next # "end" /\ WorkLeft
    BY DEF Located, OpenWork, NodeOf, Executing, InGraph, Nodes
  <2> QED BY <1>1, <1>3, <2>1, <2>2 DEF WorkLeft
<1> QED BY <1>2, <1>3

LEMMA NextLastWords ==
    ASSUME TypeOK, Chain, Located, OpenWork, LastWords, [Next]_vars
    PROVE  LastWords'
<1>1. ASSUME NEW r \in RunIds, RunStep(r) PROVE LastWords'
  <2>1. CASE pc'[r] = "finishing"
    BY <1>1, <2>1, RunStepWork DEF LastWords
  <2>2. CASE pc'[r] # "finishing"
    <3> SUFFICES ASSUME Finishing' \/ ~WorkLeft' PROVE status' \in Final \cup {"queued"}
      BY DEF LastWords
    <3>1. \A s \in RunIds \ {r} : pc'[s] = pc[s]
      BY <1>1, RunStepShape DEF PredecessorDone, Goto, TypeOK
    <3>2. Finishing \/ ~WorkLeft
      BY <1>1, <2>2, <3>1, RunStepWork DEF Finishing
    <3>3. CASE status' = status
      BY <3>2, <3>3 DEF LastWords
    <3>4. CASE status' # status
      <4>1. pc[r] \in (InGraph \ {"finishing"}) \cup {"fail"} /\ WorkLeft
        BY <1>1, <3>4, RunStepWork DEF OpenWork
      <4>2. \A s \in RunIds : pc[s] # "finishing"
        BY <4>1, OneActive DEF Alive, Holding, InGraph, Nodes
      <4> QED BY <3>2, <4>1, <4>2 DEF Finishing
    <3> QED BY <3>3, <3>4
  <2> QED BY <2>1, <2>2
<1>2. ASSUME NEW r \in RunIds, Persist(r) PROVE LastWords'
  <2>1. g[r].next # "end" /\ ckpt' = g[r] /\ UNCHANGED <<pc, status>>
    BY <1>2 DEF Persist, Located, NodeOf, Executing, rows, runVars, InGraph, Nodes
  <2> QED BY <2>1 DEF LastWords, Finishing, WorkLeft
<1>3. ASSUME NEW r \in RunIds, NodeRaises(r) PROVE LastWords'
  <2>1. pc' = [pc EXCEPT ![r] = "fail"] /\ pc[r] \in InGraph /\ ckpt' = g[r]
    BY <1>3 DEF NodeRaises, Goto
  <2>2. g[r].next # "end" /\ \A s \in RunIds \ {r} : pc[s] # "finishing"
    BY <2>1, OneActive DEF Located, NodeOf, Executing, Alive, Holding, InGraph, Nodes
  <2> QED BY <2>1, <2>2 DEF LastWords, Finishing, WorkLeft, TypeOK
<1>4. CASE Crash \/ Shutdown
  <2>1. ~Finishing' /\ status' = status
    BY <1>4 DEF Crash, Shutdown, ProcessGone, Finishing
  <2>2. ckpt' = ckpt \/ \E r \in RunIds : pc[r] \in InGraph /\ ckpt' = g[r]
    BY <1>4 DEF Crash, Shutdown
  <2>3. ckpt'.next = "end" => ckpt.next = "end"
    BY <2>2 DEF Located, NodeOf, Executing, InGraph, Nodes
  <2> QED BY <2>1, <2>3 DEF LastWords, WorkLeft
<1>5. CASE FromOutside
  BY <1>5 DEF FromOutside, RunsUntouched, LastWords, Finishing, WorkLeft
<1> QED
  BY <1>1, <1>2, <1>3, <1>4, <1>5, OutsideShape

-----------------------------------------------------------------------------
(***************************************************************************)
(* The refinement of TaskLedger: what a step of the runtime is to a reader *)
(* of the task's row.                                                      *)
(***************************************************************************)
\* A run inside the graph, before its last write, works on an open task.
LEMMA InGraphIsOpen ==
    ASSUME TypeOK, Chain, OpenWork, FinalIsOver, NEW r \in RunIds,
           pc[r] \in InGraph \ {"finishing"}
    PROVE  Ledger!Open
<1>1. ckpt.next # "end"
  BY DEF OpenWork, WorkLeft
<1>2. \A s \in RunIds : pc[s] \notin {"finishing", "fail"}
  BY OneActive DEF Alive, Holding, InGraph, Nodes
<1>3. ~Dead
  BY DEF Dead, Done, InGraph, Nodes
<1>4. status \notin Final
  BY <1>1, <1>2, <1>3 DEF FinalIsOver
<1> QED
  BY <1>1, <1>4 DEF Final, Ledger!Open, Ledger!Ongoing, TypeOK, Status, Terminal

\* Writing a status that is not final moves an open task or hides a final status.
LEMMA StatusWritten ==
    ASSUME TypeOK, LastWords, UNCHANGED <<plan, Proved>>, WorkLeft' = WorkLeft,
           \/ status' = "queued"
           \/ status' = "failed" /\ WorkLeft
           \/ status' \in {"planning", "running", "waiting"} /\ Ledger!Open
    PROVE  [Ledger!Next]_(Ledger!ledger)
<1>1. (ckpt'.next = "end") = (ckpt.next = "end")
  BY DEF WorkLeft
<1>2. CASE status \in Final
  BY <1>1, <1>2 DEF Ledger!Next, Ledger!Overwrite, Ledger!Open, Ledger!Ongoing, Ledger!Ended, Final, WorkLeft
<1>3. CASE status \notin Final /\ WorkLeft
  BY <1>1, <1>3 DEF Ledger!Next, Ledger!Move, Ledger!Open, Ledger!Ongoing, Final, WorkLeft,
     TypeOK, Status, Terminal
<1>4. CASE status \notin Final /\ ~WorkLeft
  BY <1>1, <1>4 DEF LastWords, Ledger!ledger, Ledger!Open, WorkLeft
<1> QED BY <1>2, <1>3, <1>4

\* Rows whose evidence does not change.
LEMMA SameEvidence ==
    ASSUME steps' = steps
    PROVE  Proved' = Proved
BY DEF Proved

\* complete_step is the one step that proves something, and it proves the next one.
LEMMA CompletesInOrder ==
    ASSUME IInv, NEW r \in RunIds, CompleteStep(r)
    PROVE  \E i \in 1..MaxSteps : Ledger!Prove(i)
<1> DEFINE i == Current(r)
<1>1. pc[r] = "completing" /\ pc[r] \in InGraph \ {"finishing"} /\ pc[r] \in Holding \ {"begin"}
  BY DEF CompleteStep, Holding, InGraph
<1>2. Ledger!Open
  BY <1>1, InGraphIsOpen DEF IInv
<1>3. g[r] \in Graph /\ g[r].next = "execute"
  BY <1>1 DEF IInv, TypeOK, Located, NodeOf, Executing
<1>4. g[r].plan = plan /\ g[r].idx < Len(plan)
  BY <1>1, <1>3 DEF IInv, Planned, PlannedBy, Located, GraphOK
<1>5. DOMAIN plan = 1..Len(plan) /\ Len(plan) \in 0..MaxSteps /\ MaxSteps \in Nat
  <2>1. plan \in Plans \cup {<<>>}
    BY DEF IInv, TypeOK
  <2> QED BY <2>1, PlanLength, PlansAssumption
<1>6. g[r].idx \in Nat /\ i = g[r].idx + 1
  BY <1>3, PlansAssumption DEF Graph, Current
<1>7. i \in DOMAIN plan /\ i \in StepIdx
  BY <1>4, <1>5, <1>6 DEF StepIdx
<1>8. 1..(i - 1) \subseteq Proved
  BY <1>5, <1>6, <1>7 DEF IInv, Evidence, CheckpointBacked, Proved, StepIdx
<1>9. steps' = [steps EXCEPT ![i].st = "success"] /\ UNCHANGED <<status, plan, ckpt>>
  BY DEF CompleteStep
<1>10. steps \in [StepIdx -> StepRow]
  BY DEF IInv, TypeOK
<1>11. Proved' = Proved \cup {i}
  <2>1. /\ steps'[i].st = "success"
        /\ \A k \in StepIdx \ {i} : steps'[k] = steps[k]
    BY <1>7, <1>9, <1>10 DEF StepRow
  <2> QED BY <1>7, <2>1 DEF Proved
<1> HIDE DEF i
<1> QED
  BY <1>2, <1>7, <1>8, <1>9, <1>11 DEF Ledger!Prove, StepIdx

LEMMA RunStepLedger ==
    ASSUME IInv, SuccessHasEvidence', NEW r \in RunIds, RunStep(r)
    PROVE  [Ledger!Next]_(Ledger!ledger)
<1> USE DEF Ledger!ledger
<1>0. TypeOK /\ Chain /\ OpenWork /\ FinalIsOver /\ LastWords /\ Evidence /\ SuccessHasEvidence
  BY DEF IInv
<1>1. /\ pc[r] # "finishing" => WorkLeft' = WorkLeft /\ (ckpt'.next = "end") = (ckpt.next = "end")
      /\ pc[r] = "finishing" => WorkLeft /\ ~WorkLeft' /\ UNCHANGED <<status, plan, steps>>
  BY RunStepWork DEF IInv, WorkLeft
<1>2. CASE pc[r] = "finishing"
  <2>1. Proved' = Proved
    BY <1>1, <1>2, SameEvidence
  <2>2. status \in Final \cup {"queued"}
    BY <1>0, <1>2 DEF LastWords, Finishing
  <2> QED BY <1>1, <1>2, <2>1, <2>2 DEF Ledger!Next, Ledger!Close, Ledger!Ended, Final, WorkLeft
<1>3. CASE UNCHANGED <<status, plan, steps>> /\ pc[r] # "finishing"
  BY <1>1, <1>3, SameEvidence
<1>4. CASE EnterPlan(r) \/ PauseTask(r) \/ OpenGate(r)
  <2>1. pc[r] \in InGraph \ {"finishing"} /\ UNCHANGED <<plan, steps>>
        /\ status' \in {"planning", "running", "waiting"}
    BY <1>4 DEF EnterPlan, PauseTask, OpenGate, InGraph, Nodes
  <2> QED BY <1>0, <1>1, <2>1, InGraphIsOpen, SameEvidence, StatusWritten
<1>5. CASE StorePlan(r)
  <2>1. pc[r] \in InGraph \ {"finishing"} /\ plan' \in Plans /\ status' = "running" /\ steps' = steps
    BY <1>5 DEF StorePlan, InGraph, Nodes
  <2>2. Ledger!Open /\ Proved' = Proved
    BY <1>0, <2>1, InGraphIsOpen, SameEvidence
  <2> QED BY <1>1, <2>1, <2>2 DEF Ledger!Next, Ledger!Adopt
<1>6. CASE BeginStep(r) \/ FailStep(r)
  <2>1. /\ pc[r] \in Unfinished /\ UNCHANGED <<status, plan>>
        /\ \A i \in StepIdx : steps'[i] = steps[i] \/ (i = Current(r) /\ steps'[i].st # "success")
    BY <1>0, <1>6 DEF BeginStep, FailStep, Unfinished, Executing, TypeOK, StepRow
  <2>2. steps[Current(r)].st # "success"
    BY <1>0, <2>1 DEF Evidence
  <2>3. Proved' = Proved
    BY <2>1, <2>2 DEF Proved
  <2>4. pc[r] # "finishing"
    BY <2>1 DEF Unfinished, Executing
  <2> QED BY <1>1, <2>1, <2>3, <2>4
<1>7. CASE CompleteStep(r)
  BY <1>7, CompletesInOrder DEF Ledger!Next
<1>8. CASE Conclude(r)
  <2>1. Ledger!Open /\ UNCHANGED <<plan, steps>> /\ Proved' = Proved /\ (ckpt'.next = "end") = (ckpt.next = "end")
    <3>1. pc[r] \in InGraph \ {"finishing"} /\ UNCHANGED <<plan, steps>>
      BY <1>8 DEF Conclude, InGraph, Nodes
    <3> QED BY <1>0, <1>1, <3>1, InGraphIsOpen, SameEvidence
  <2>2. CASE status' = "success"
    <3>1. \A i \in DOMAIN plan : steps[i].st = "success"
      BY <2>1, <2>2 DEF SuccessHasEvidence
    <3>2. plan \in Plans \cup {<<>>} /\ MaxSteps \in Nat
      BY <1>0, PlansAssumption DEF TypeOK
    <3>3. DOMAIN plan = 1..Len(plan) /\ Len(plan) \in 0..MaxSteps
      BY <3>2, PlanLength, PlansAssumption
    <3>4. DOMAIN plan \subseteq Proved
      BY <3>1, <3>2, <3>3 DEF Proved, StepIdx
    <3> QED BY <2>1, <2>2, <3>4 DEF Ledger!Next, Ledger!Succeed
  <2>3. CASE status' = "cancelled"
    BY <2>1, <2>3 DEF Ledger!Next, Ledger!Cancel
  <2> QED BY <1>8, <2>2, <2>3 DEF Conclude
<1>9. CASE RecordFailure(r)
  <2>1. pc[r] = "fail" /\ status' = "failed" /\ UNCHANGED <<plan, steps>>
    BY <1>9 DEF RecordFailure
  <2>2. WorkLeft
    BY <1>0, <2>1 DEF OpenWork
  <2> QED BY <1>0, <1>1, <2>1, <2>2, SameEvidence, StatusWritten
<1> QED
  BY <1>2, <1>3, <1>4, <1>5, <1>6, <1>7, <1>8, <1>9
  DEF RunStep, PredecessorDone, AcquireLease, BeginExecute, ReadControl, Interrupt, LookupStep,
      CallCapability, PublishStep, RecordEpisode, EndGraph, ReleaseLease, rows

\* Requests, restarts and losses are invisible in the ledger, but for QUEUED.
LEMMA OutsideLedger ==
    ASSUME IInv, [Next]_vars, ~(\E r \in RunIds : RunStep(r))
    PROVE  [Ledger!Next]_(Ledger!ledger)
<1>1. UNCHANGED <<plan, steps>> /\ (status' = status \/ status' = "queued")
      /\ WorkLeft' = WorkLeft
  <2>1. TypeOK /\ Chain
    BY DEF IInv
  <2>2. \/ FromOutside
        \/ \E r \in RunIds : Persist(r) \/ NodeRaises(r)
        \/ Crash \/ Shutdown
    BY <2>1, OutsideShape
  <2>3. UNCHANGED <<plan, steps>> /\ (status' = status \/ status' = "queued")
    BY <2>2 DEF FromOutside, Persist, NodeRaises, Crash, Shutdown, ProcessGone, rows
  <2>4. ckpt' = ckpt \/ \E r \in RunIds : pc[r] \in InGraph /\ ckpt' = g[r]
    BY <2>2 DEF FromOutside, Persist, NodeRaises, Crash, Shutdown
  <2>5. \A r \in RunIds : pc[r] \in InGraph => g[r].next # "end" /\ ckpt.next # "end"
    BY DEF IInv, Located, OpenWork, WorkLeft, NodeOf, Executing, InGraph, Nodes
  <2> QED BY <2>3, <2>4, <2>5 DEF WorkLeft
<1>2. Proved' = Proved
  BY <1>1, SameEvidence
<1>3. CASE status' = status
  BY <1>1, <1>2, <1>3 DEF Ledger!ledger, WorkLeft
<1>4. CASE status' = "queued"
  BY <1>1, <1>2, <1>4, StatusWritten DEF IInv
<1> QED BY <1>1, <1>3, <1>4

-----------------------------------------------------------------------------
(***************************************************************************)
(* Nobody strands a task: while the process lives, work that is left has   *)
(* settled or somebody is bound to take it up.                             *)
(***************************************************************************)
LEMMA InitAttended == Init => PInv
<1> SUFFICES ASSUME Init PROVE PInv
  OBVIOUS
<1>1. PICK c \in Clients :
         req = [d \in Clients |-> IF d = c
                                  THEN [kind |-> "submit", at |-> "start", was |-> "queued"]
                                  ELSE Idle]
  BY DEF Init
<1>2. req[c].at = "start" /\ req[c].kind = "submit" /\ req[c] # Idle
  BY <1>1 DEF Idle
<1>3. Starting
  BY <1>2 DEF Init, Starting
<1> QED
  BY <1>3 DEF Init, PInv, LeaseBacked, Attended

LEMMA RunStepAttended ==
    ASSUME TypeOK, Chain, Held, Located, OpenWork, PInv, NEW r \in RunIds, RunStep(r)
    PROVE  PInv'
<1> USE DEF Alive, Holding, InGraph, Nodes
<1>0. req' = req /\ nrun' = nrun /\ up'
  BY RunStepRequests DEF PInv, LeaseBacked
<1>1. CASE PredecessorDone(r)
  <2>1. pc' = [pc EXCEPT ![r] = "acquire"] /\ pc[r] = "wait" /\ lease' = lease /\ ckpt' = ckpt
    BY <1>1 DEF PredecessorDone, Goto, rows
  <2> QED
    BY <1>0, <2>1 DEF PInv, LeaseBacked, Attended, Starting, WorkLeft, TypeOK
<1>2. CASE ~PredecessorDone(r)
  <2>1. /\ pc[r] \in Alive \ {"wait"}
        /\ \A s \in RunIds \ {r} : pc'[s] = pc[s]
        /\ AcquireLease(r) \/ ReleaseLease(r) \/ (pc[r] \in Holding /\ pc'[r] \in Holding)
    BY <1>2, RunStepShape
  <2>2. \A s \in RunIds \ {r} : pc[s] \in {"none", "wait", "done"}
    BY <2>1, OneActive DEF TypeOK, Pc
  <2>3. CASE AcquireLease(r)
    <3>1. \A s \in RunIds : pc[s] \notin Holding
      BY <2>2, <2>3 DEF AcquireLease
    <3>2. lease = "free"
      BY <3>1 DEF PInv, LeaseBacked
    <3>3. pc' = [pc EXCEPT ![r] = "begin"] /\ ckpt' = ckpt
      BY <2>3, <3>2 DEF AcquireLease, Goto
    <3> QED
      BY <1>0, <3>1, <3>3 DEF PInv, LeaseBacked, Attended, Starting, TypeOK
  <2>4. CASE ReleaseLease(r)
    <3>1. pc' = [pc EXCEPT ![r] = "done"] /\ lease' = "free" /\ UNCHANGED <<ckpt, status>>
      BY <2>4 DEF ReleaseLease, Finish, Goto, Held
    <3>2. Attended
      BY DEF PInv
    <3>3. ~Advancing
      BY <2>2, <2>4 DEF Advancing, ReleaseLease
    <3>4. Starting => Starting'
      BY <1>0, <2>4, <3>1 DEF Starting, ReleaseLease, TypeOK
    <3> QED
      BY <1>0, <2>2, <3>1, <3>2, <3>3, <3>4
      DEF PInv, LeaseBacked, Attended, WorkLeft, Settled, TypeOK
  <2>5. CASE ~AcquireLease(r) /\ ~ReleaseLease(r)
    <3>0. pc[r] # "release"
      BY <2>5 DEF RunStep, PredecessorDone, BeginExecute, EnterPlan, StorePlan, ReadControl, PauseTask,
           Interrupt, OpenGate, LookupStep, BeginStep, CallCapability, CompleteStep, PublishStep,
           FailStep, RecordEpisode, Conclude, EndGraph, RecordFailure
    <3>1. pc[r] \in Holding /\ pc'[r] \in Holding /\ pc[r] # "release"
      BY <2>1, <2>5, <3>0
    <3>3. /\ pc'[r] \in InGraph => (ckpt.next # "end" /\ ckpt'.next # "end")
          /\ \/ pc'[r] \in (InGraph \ {"interrupting"}) \cup {"fail"}
             \/ Settled'
             \/ ~WorkLeft'
             \/ pc[r] = "interrupting" /\ status' = status /\ ckpt.next # "end"
      BY <3>1, GraphStepAttended
    <3>4. LeaseBacked'
      BY <1>0, <3>1 DEF LeaseBacked
    <3>6. ASSUME pc[r] = "interrupting", status' = status, ckpt.next # "end"
          PROVE  Settled' \/ Starting'
      <4>1. Settled \/ Starting \/ Advancing
        BY <3>6 DEF PInv, Attended, WorkLeft
      <4>2. ~Advancing
        BY <2>2, <3>6 DEF Advancing
      <4>3. Starting => Starting'
        BY <1>0, <2>1, <3>6 DEF Starting
      <4> QED BY <3>6, <4>1, <4>2, <4>3 DEF Settled
    <3> QED
      BY <3>3, <3>4, <3>6 DEF PInv, Attended, Advancing
  <2> QED BY <2>3, <2>4, <2>5
<1> QED BY <1>1, <1>2

\* TaskRunner.start, asked to resume or first of all, creates a run; else it
\* creates one or finds one alive.
LEMMA StartAttended ==
    ASSUME TypeOK, Chain, NEW flag \in BOOLEAN, Start(flag)
    PROVE  \/ \E r \in RunIds : pc'[r] \in {"wait", "acquire"}
           \/ UNCHANGED runVars /\ ~flag /\ nrun > 0
<1>1. CASE nrun > 0 /\ ~Done(nrun) /\ ~flag
  BY <1>1 DEF Start
<1>2. CASE ~(nrun > 0 /\ ~Done(nrun) /\ ~flag)
  <2>1. /\ nrun + 1 \in RunIds
        /\ pc' = [pc EXCEPT ![nrun + 1] = IF nrun > 0 /\ ~Done(nrun) THEN "wait" ELSE "acquire"]
    BY <1>2, BoundsAssumption DEF Start, TypeOK, RunIds
  <2> QED BY <2>1 DEF TypeOK
<1> QED BY <1>1, <1>2

\* Requests, a clock that passes nothing and background persistence strand nobody.
LEMMA OutsideAttended ==
    ASSUME TypeOK, Chain, Held, Located, OpenWork, PInv, MaxCrashes = 0, [Next]_vars,
           ~(\E r \in RunIds : RunStep(r))
    PROVE  PInv'
<1>0. up /\ LeaseBacked /\ Attended /\ crashes = 0
  BY DEF PInv, LeaseBacked, TypeOK
<1>1. ASSUME NEW r \in RunIds, Persist(r) PROVE PInv'
  <2>1. g[r].next # "end" /\ ckpt.next # "end" /\ ckpt' = g[r]
    BY <1>0, <1>1 DEF Persist, Located, OpenWork, WorkLeft, NodeOf, Executing, InGraph, Nodes
  <2>2. UNCHANGED <<pc, status, lease, up, req, nrun>>
    BY <1>1 DEF Persist, rows, runVars
  <2>3. (Starting \/ Advancing \/ Settled)'
    BY <1>0, <2>1, <2>2 DEF Attended, WorkLeft, Starting, Advancing, Settled
  <2> QED
    BY <1>0, <2>1, <2>2, <2>3 DEF PInv, LeaseBacked, Attended, WorkLeft
<1>2. ASSUME NEW r \in RunIds, NodeRaises(r) PROVE PInv'
  <2>1. g[r].next # "end" /\ ckpt' = g[r] /\ pc' = [pc EXCEPT ![r] = "fail"] /\ pc[r] \in InGraph
    BY <1>2 DEF NodeRaises, Goto, Located, NodeOf, Executing, InGraph, Nodes
  <2>2. lease' = lease /\ up' = up
    BY <1>2 DEF NodeRaises, rows
  <2> QED
    BY <1>0, <2>1, <2>2
    DEF PInv, LeaseBacked, Attended, WorkLeft, Advancing, TypeOK, Holding, InGraph, Nodes
<1>3. ASSUME UNCHANGED <<pc, lease, up, ckpt, nrun, status>>, Starting => Starting'
      PROVE  PInv'
  BY <1>0, <1>3 DEF PInv, LeaseBacked, Attended, WorkLeft, Advancing, Settled
<1>4. ASSUME NEW c \in Clients, NEW kind \in Kinds, Accept(c, kind) PROVE PInv'
  <2>1. /\ UNCHANGED <<pc, lease, up, ckpt, nrun, status>>
        /\ req[c] = Idle /\ \A d \in Clients \ {c} : req'[d] = req[d]
    BY <1>4 DEF Accept, rows, runVars, TypeOK
  <2> QED BY <1>3, <2>1 DEF Starting
<1>5. ASSUME NEW c \in Clients, WriteControl(c) PROVE PInv'
  <2>1. /\ UNCHANGED <<pc, lease, up, ckpt, nrun>>
        /\ req[c].at = "write" /\ \A d \in Clients \ {c} : req'[d] = req[d]
    BY <1>5 DEF WriteControl, runVars, TypeOK
  <2>2. Starting => Starting'
    BY <2>1 DEF Starting
  <2>3. CASE req[c].kind = "resume"
    <3>1. req[c] \in Requests
      BY <1>5 DEF WriteControl, TypeOK
    <3>2. req'[c] = [req[c] EXCEPT !.at = "start"]
      BY <1>5, <2>3 DEF WriteControl, TypeOK
    <3>3. req'[c].kind = "resume" /\ req'[c].at = "start"
      BY <2>3, <3>1, <3>2 DEF Requests
    <3>4. req'[c] # Idle
      BY <3>3 DEF Idle
    <3>5. Starting'
      BY <3>3, <3>4 DEF Starting
    <3> QED
      BY <1>0, <2>1, <3>5 DEF PInv, LeaseBacked, Attended, WorkLeft
  <2>4. CASE req[c].kind # "resume"
    BY <1>3, <1>5, <2>1, <2>2, <2>4 DEF WriteControl
  <2> QED BY <2>3, <2>4
<1>6. ASSUME NEW c \in Clients, StartRun(c) PROVE PInv'
  <2> DEFINE flag == req[c].kind = "resume" \/ (req[c].kind = "cancel" /\ req[c].was = "waiting")
  <2>1. flag \in BOOLEAN /\ Start(flag)
    BY <1>6 DEF StartRun
  <2>2. /\ UNCHANGED <<lease, up, ckpt, status>>
        /\ \A d \in Clients \ {c} : req'[d] = req[d]
    BY <1>6 DEF StartRun, rows, TypeOK
  <2>3. /\ \/ \E r \in RunIds : pc'[r] \in {"wait", "acquire"}
           \/ UNCHANGED runVars /\ ~flag /\ nrun > 0
        /\ RunsUntouched
    <3> HIDE DEF flag
    <3> QED BY <2>1, StartAttended, StartShape
  <2>4. LeaseBacked'
    BY <1>0, <2>2, <2>3 DEF LeaseBacked, RunsUntouched, Holding, InGraph, Nodes
  <2>5. CASE \E r \in RunIds : pc'[r] \in {"wait", "acquire"}
    BY <2>4, <2>5 DEF PInv, Attended, Starting
  <2>6. CASE UNCHANGED runVars /\ ~flag /\ nrun > 0
    <3>1. UNCHANGED <<pc, nrun>>
      BY <2>6 DEF runVars
    <3>2. Starting => Starting'
      BY <2>2, <2>6, <3>1 DEF Starting, TypeOK
    <3> QED BY <1>3, <2>2, <3>1, <3>2
  <2> QED BY <2>3, <2>5, <2>6
<1>7. ~Crash /\ ~Shutdown /\ ~Restart
  BY <1>0 DEF Crash, Shutdown, ProcessGone, Restart
<1>8. ~LeaseExpires
  <2>1. lease = "stale" => \E r \in RunIds : pc[r] \in Holding
    BY <1>0 DEF LeaseBacked
  <2> QED BY <2>1 DEF LeaseExpires, Held
<1>9. CASE UNCHANGED vars
  <2>1. UNCHANGED <<pc, lease, up, ckpt, nrun, status, req>>
    BY <1>9 DEF vars, rows, runVars
  <2> QED BY <1>3, <2>1 DEF Starting
<1> QED
  BY <1>1, <1>2, <1>4, <1>5, <1>6, <1>7, <1>8, <1>9 DEF Next, RequestStep

-----------------------------------------------------------------------------
(***************************************************************************)
(* Theorems                                                                *)
(***************************************************************************)
\* The invariant is inductive.
LEMMA IInvariant == Spec => []IInv
<1>1. IInv /\ [Next]_vars => IInv'
  BY NextType, NextChain, NextHeld, NextLocated, NextEvidence,
     NextStepsInOrder, NextPlanned, NextSuccess, NextOpenWork, NextFinalIsOver, NextLastWords DEF IInv
<1> QED
  BY InitIInv, <1>1, PTL DEF Spec

\* Types hold in every reachable state, for any plans and bounds.
THEOREM TypeCorrect == Spec => []TypeOK
<1>1. IInv => TypeOK
  BY DEF IInv
<1> QED
  BY IInvariant, <1>1, PTL

\* TaskRunner never lets two runs of a task execute at once, and the run that
\* executes holds the lease.
THEOREM MutualExclusion == Spec => []OneExecutor
<1>1. IInv => OneExecutor
  BY OneExecutorFromChain DEF IInv
<1> QED
  BY IInvariant, <1>1, PTL

\* No checkpoint ever counts a step without evidence: a crash may lose progress
\* of the graph but never invents any.
THEOREM CheckpointsAreBacked == Spec => []CheckpointBacked
<1>1. IInv => CheckpointBacked
  BY DEF IInv, Evidence
<1> QED
  BY IInvariant, <1>1, PTL

\* A task is only ever SUCCESS when every step of its stored plan is recorded with
\* evidence, whatever was re-planned, replayed, resumed or recovered on the way.
THEOREM SuccessIsEvidenced == Spec => []SuccessHasEvidence
<1>1. IInv => SuccessHasEvidence
  BY DEF IInv
<1> QED
  BY IInvariant, <1>1, PTL

\* Steps are begun in the order of the plan.
THEOREM StepsRunInOrder == Spec => []StepsInOrder
<1>1. IInv => StepsInOrder
  BY DEF IInv
<1> QED
  BY IInvariant, <1>1, PTL

\* A recorded success is final: no retry, resume or recovery runs the step again.
THEOREM CompletedStepsAreKept == Spec => CompletedStepsKept
<1>1. IInv /\ [Next]_vars => [\A i \in StepIdx : steps[i].st = "success" => steps'[i] = steps[i]]_vars
  BY StepKept DEF IInv
<1> QED
  BY IInvariant, <1>1, PTL DEF Spec, CompletedStepsKept

\* The runtime implements TaskLedger: to a reader of the row and the evidence, runs,
\* checkpoints, retries, overlapping requests, crashes and recoveries are the steps of
\* a task that proves its plan in order, succeeds with all of its evidence, is left alone
\* once it has succeeded or been cancelled, and for good once its graph has finished.
THEOREM LedgerIsImplemented == Spec => LedgerKept
<1>1. Init => Ledger!Init
  BY DEF Init, Ledger!Init, Proved, NewGraph
<1>2. IInv /\ IInv' /\ [Next]_vars => [Ledger!Next]_(Ledger!ledger)
  BY RunStepLedger, OutsideLedger DEF IInv
<1> QED
  BY IInvariant, <1>1, <1>2, PTL DEF Spec, LedgerKept, Ledger!Spec

\* While no process is lost, and however many callers pause, resume and cancel at
\* once, a task with work left never comes to rest queued, planning or running.
THEOREM RestIsAlwaysSettled ==
    ASSUME MaxCrashes = 0
    PROVE  Spec => []RestIsSettled
<1>1. IInv /\ PInv /\ [Next]_vars => PInv'
  BY RunStepAttended, OutsideAttended DEF IInv
<1>2. IInv /\ PInv => RestIsSettled
  <2> SUFFICES ASSUME IInv, PInv, Quiescent, WorkLeft PROVE Settled
    BY DEF RestIsSettled
  <2>1. ~Starting /\ ~Advancing
    BY DEF Quiescent, Done, Starting, Advancing, InGraph, Nodes
  <2> QED BY <2>1 DEF PInv, Attended
<1> QED
  BY IInvariant, InitAttended, <1>1, <1>2, PTL DEF Spec

=============================================================================
