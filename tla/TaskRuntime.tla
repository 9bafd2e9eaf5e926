---------------------------- MODULE TaskRuntime ----------------------------
(***************************************************************************)
(* The durable life of one task: CeoRuntime, TaskRunner and the lifecycle  *)
(* endpoints of the API process, over the task and step tables and the     *)
(* LangGraph checkpoint.                                                   *)
(*                                                                         *)
(* One task suffices: no operation of the runtime reads another task's     *)
(* rows, checkpoint thread or runner entry.                                *)
(*                                                                         *)
(* Every transition is the code between two awaits.  A run is one          *)
(* asyncio.Task created by TaskRunner.start; its pc names the await it is  *)
(* suspended on.  Node names double as the pc of a node's entry.           *)
(***************************************************************************)
EXTENDS Naturals, Sequences

CONSTANTS
    Plans,        \* the plans the planner may answer with: sequences of capabilities
    MaxSteps,     \* bound on the length of a plan
    Clients,      \* API callers (dashboard, voice) acting on the task
    Kinds,        \* the lifecycle requests they make
    MaxRuns,      \* bound on the asyncio tasks created for the task
    MaxRequests,  \* bound on the lifecycle requests
    MaxCrashes    \* bound on the losses of the API process

ASSUME PlansAssumption ==
    /\ MaxSteps \in Nat
    /\ \A p \in Plans : \E n \in 0..MaxSteps : DOMAIN p = 1..n /\ Len(p) = n
ASSUME KindsAssumption == Kinds \subseteq {"pause", "resume", "cancel"}
ASSUME BoundsAssumption ==
    /\ MaxRuns \in Nat
    /\ MaxRequests \in Nat
    /\ MaxCrashes \in Nat

VARIABLES
    \* --- the tasks row ---
    status,       \* TaskStatus
    control,      \* TaskControl
    lease,        \* lease_owner / lease_expires_at, seen from this process
    plan,         \* the plan column
    \* --- other durable state ---
    steps,        \* the task_steps rows, by step index
    episode,      \* the task's episodic memory exists
    ckpt,         \* the persisted LangGraph checkpoint
    \* --- the API process ---
    up,           \* the process is serving
    nrun,         \* runs created so far: TaskRunner._running[task] is run nrun
    pc,           \* pc[r]: where run r is suspended
    resume,       \* resume[r]: the flag run r was started with
    g,            \* g[r]: the in-memory graph state of run r
    tries,        \* tries[r]: attempts of the current execute node
    seen,         \* seen[r]: what r's latest control gate read; "none" before one
    req,          \* req[c]: the request client c has in flight
    \* --- bounds ---
    requests, crashes

rows     == <<status, control, lease, plan, steps, episode>>
runVars  == <<nrun, pc, resume, g, tries, seen>>
budgets  == <<requests, crashes>>
vars     == <<rows, ckpt, up, runVars, req, budgets>>

Terminal == {"success", "failed", "cancelled"}
Status   == {"queued", "planning", "running", "waiting"} \cup Terminal
Control  == {"run", "pause", "cancel"}
Lease    == {"free", "mine", "stale"}
StepIdx  == 1..MaxSteps
RunIds   == 1..MaxRuns

Caps     == UNION {{p[i] : i \in DOMAIN p} : p \in Plans}
NoCap    == "no capability"
StepRow  == [st : {"none", "running", "success", "failed"}, cap : Caps \cup {NoCap}]

Nodes    == {"plan", "control", "execute", "success", "cancelled"}
Graph    == [next : Nodes \cup {"end"}, idx : 0..MaxSteps,
             plan : Plans \cup {<<>>}, token : BOOLEAN]
NewGraph == [next |-> "plan", idx |-> 0, plan |-> <<>>, token |-> FALSE]

InGraph  == Nodes \cup {"planning", "pausing", "interrupting", "opening", "beginning",
                        "calling", "completing", "completed", "transient", "permanent",
                        "succeeding", "finishing"}
Holding  == InGraph \cup {"begin", "fail", "release"}
Alive    == Holding \cup {"wait", "acquire"}
Pc       == Alive \cup {"none", "done"}

Requests == [kind : {"submit", "pause", "resume", "cancel"},
             at   : {"write", "start"},
             was  : Status]
Idle     == [kind |-> "idle"]

-----------------------------------------------------------------------------
(***************************************************************************)
(* Helpers                                                                 *)
(***************************************************************************)
Goto(r, label)   == pc' = [pc EXCEPT ![r] = label]
Advance(r, new)  == g' = [g EXCEPT ![r] = new]
Current(r)       == g[r].idx + 1

\* The asyncio.Task of run r has finished (or was never created).
Done(r) == pc[r] \in {"none", "done"}

\* Entry pc of a graph node; a finished graph has no task left to run.
Entry(node) == IF node = "end" THEN "release" ELSE node

\* Mutant: start ignores a resume while a run is active.
StartDropsResume(flag) ==
    IF nrun > 0 /\ ~Done(nrun)
    THEN UNCHANGED runVars
    ELSE /\ nrun < MaxRuns
         /\ nrun' = nrun + 1
         /\ pc' = [pc EXCEPT ![nrun + 1] = "acquire"]
         /\ resume' = [resume EXCEPT ![nrun + 1] = flag]
         /\ UNCHANGED <<g, tries, seen>>

\* TaskRunner.start: a second request while a run is active only queues a
\* successor when it resumes; the successor waits for its predecessor.
Start(flag) ==
    IF nrun > 0 /\ ~Done(nrun) /\ ~flag
    THEN UNCHANGED runVars
    ELSE /\ nrun < MaxRuns
         /\ nrun' = nrun + 1
         /\ pc' = [pc EXCEPT ![nrun + 1] =
                      IF nrun > 0 /\ ~Done(nrun) THEN "wait" ELSE "acquire"]
         /\ resume' = [resume EXCEPT ![nrun + 1] = flag]
         /\ UNCHANGED <<g, tries, seen>>

\* END of the run's coroutine: its locals are gone.
Finish(r) ==
    /\ Goto(r, "done")
    /\ Advance(r, NewGraph)
    /\ resume' = [resume EXCEPT ![r] = FALSE]
    /\ tries' = [tries EXCEPT ![r] = 0]
    /\ seen' = [seen EXCEPT ![r] = "none"]

-----------------------------------------------------------------------------
(***************************************************************************)
(* TaskRunner._run and CeoRuntime.execute                                  *)
(***************************************************************************)
\* _run_after: the predecessor has returned, whatever its result.
PredecessorDone(r) ==
    /\ pc[r] = "wait"
    /\ r > 1 => Done(r - 1)
    /\ Goto(r, "acquire")
    /\ UNCHANGED <<rows, ckpt, up, nrun, resume, g, tries, seen, req, budgets>>

\* acquire_lease: a lease another runner still holds ends the run silently.
AcquireLease(r) ==
    /\ pc[r] = "acquire"
    /\ \/ /\ lease = "free"
          /\ lease' = "mine"
          /\ Goto(r, "begin")
          /\ UNCHANGED <<resume, g, tries, seen>>
       \/ /\ lease # "free"
          /\ Finish(r)
          /\ UNCHANGED lease
    /\ UNCHANGED <<status, control, plan, steps, episode, ckpt, up, nrun, req, budgets>>

\* execute: load the snapshot and choose the graph input.  Command(resume=True)
\* leaves a resume token in the first superstep; None keeps a persisted one.
BeginExecute(r) ==
    /\ pc[r] = "begin"
    /\ Advance(r, [ckpt EXCEPT !.token = IF resume[r] /\ ckpt.next # "plan"
                                         THEN TRUE ELSE ckpt.token])
    /\ Goto(r, Entry(ckpt.next))
    /\ UNCHANGED <<rows, ckpt, up, nrun, resume, tries, seen, req, budgets>>

\* The checkpointer persists in the background, at any lag behind the graph.
Persist(r) ==
    /\ pc[r] \in InGraph
    /\ ckpt # g[r]
    /\ ckpt' = g[r]
    /\ UNCHANGED <<rows, up, runVars, req, budgets>>

\* An exception leaves the graph: pending checkpoints are flushed on the way out.
NodeRaises(r) ==
    /\ pc[r] \in InGraph
    /\ ckpt' = g[r]
    /\ Goto(r, "fail")
    /\ UNCHANGED <<rows, up, nrun, resume, g, tries, seen, req, budgets>>

\* The except clause of execute.
RecordFailure(r) ==
    /\ pc[r] = "fail"
    /\ status' = "failed"
    /\ Goto(r, "release")
    /\ UNCHANGED <<control, lease, plan, steps, episode, ckpt, up, nrun, resume, g,
                   tries, seen, req, budgets>>

\* The finally clause of _run: release_lease touches only this owner's lease.
ReleaseLease(r) ==
    /\ pc[r] = "release"
    /\ lease' = IF lease = "mine" THEN "free" ELSE lease
    /\ Finish(r)
    /\ UNCHANGED <<status, control, plan, steps, episode, ckpt, up, nrun, req, budgets>>

-----------------------------------------------------------------------------
(***************************************************************************)
(* The graph nodes                                                         *)
(***************************************************************************)
\* End of a superstep: the next checkpoint carries no resume token.
Superstep(r, new) ==
    /\ Advance(r, [new EXCEPT !.token = FALSE])
    /\ Goto(r, Entry(new.next))

\* Leaving the graph normally (END, interrupt) flushes the checkpoint.
LeaveGraph(r, new) ==
    /\ Advance(r, new)
    /\ ckpt' = new
    /\ Goto(r, "release")

\* _plan: PLANNING is written, the model answers, the plan is stored.
EnterPlan(r) ==
    /\ pc[r] = "plan"
    /\ status' = "planning"
    /\ Goto(r, "planning")
    /\ UNCHANGED <<control, lease, plan, steps, episode, ckpt, up, nrun, resume, g,
                   tries, seen, req, budgets>>

StorePlan(r) ==
    /\ pc[r] = "planning"
    /\ \E p \in Plans :
          /\ plan' = p
          /\ Superstep(r, [g[r] EXCEPT !.next = "control", !.plan = p])
    /\ status' = "running"
    /\ UNCHANGED <<control, lease, steps, episode, ckpt, up, nrun, resume, tries, seen,
                   req, budgets>>

\* _control, up to its first await after reading the control column.
ReadControl(r) ==
    /\ pc[r] = "control"
    /\ seen' = [seen EXCEPT ![r] = control]
    /\ \/ /\ control = "cancel"
          /\ Superstep(r, [g[r] EXCEPT !.next = "cancelled"])
       \/ control = "pause" /\ Goto(r, "pausing") /\ UNCHANGED g
       \/ control = "run" /\ Goto(r, "opening") /\ UNCHANGED g
    /\ UNCHANGED <<rows, ckpt, up, nrun, resume, tries, req, budgets>>

PauseTask(r) ==
    /\ pc[r] = "pausing"
    /\ status' = "waiting"
    /\ Goto(r, "interrupting")
    /\ UNCHANGED <<control, lease, plan, steps, episode, ckpt, up, nrun, resume, g,
                   tries, seen, req, budgets>>

\* Mutant: the gate waits in the node for the resume instead of interrupting.
InterruptBlocks(r) ==
    /\ pc[r] = "interrupting"
    /\ g[r].token
    /\ Goto(r, "opening")
    /\ UNCHANGED <<g, ckpt, rows, up, nrun, resume, tries, seen, req, budgets>>

\* interrupt(): returns when a resume token is present, else leaves the graph.
Interrupt(r) ==
    /\ pc[r] = "interrupting"
    /\ \/ g[r].token /\ Goto(r, "opening") /\ UNCHANGED <<g, ckpt>>
       \/ ~g[r].token /\ LeaveGraph(r, g[r])
    /\ UNCHANGED <<rows, up, nrun, resume, tries, seen, req, budgets>>

\* Mutant: the routing test counts the step about to be executed as done.
OpenGateShort(r) ==
    /\ pc[r] = "opening"
    /\ status' = "running"
    /\ Superstep(r, [g[r] EXCEPT !.next = IF g[r].idx + 1 < Len(g[r].plan)
                                          THEN "execute" ELSE "success"])
    /\ UNCHANGED <<control, lease, plan, steps, episode, ckpt, up, nrun, resume, tries,
                   seen, req, budgets>>

\* _control's last write and _route.
OpenGate(r) ==
    /\ pc[r] = "opening"
    /\ status' = "running"
    /\ Superstep(r, [g[r] EXCEPT !.next = IF g[r].idx < Len(g[r].plan)
                                          THEN "execute" ELSE "success"])
    /\ UNCHANGED <<control, lease, plan, steps, episode, ckpt, up, nrun, resume, tries,
                   seen, req, budgets>>

\* _execute: a step recorded as a success is replayed, any other is begun.
StepDone(r) ==
    /\ Superstep(r, [g[r] EXCEPT !.next = "control", !.idx = @ + 1])
    /\ tries' = [tries EXCEPT ![r] = 0]

\* Mutant: any row that has not failed is replayed.
LookupAnyRow(r) ==
    /\ pc[r] = "execute"
    /\ \/ steps[Current(r)].st \in {"running", "success"} /\ StepDone(r)
       \/ /\ steps[Current(r)].st \in {"none", "failed"}
          /\ Goto(r, "beginning")
          /\ UNCHANGED <<g, tries>>
    /\ UNCHANGED <<rows, ckpt, up, nrun, resume, seen, req, budgets>>

LookupStep(r) ==
    /\ pc[r] = "execute"
    /\ \/ steps[Current(r)].st = "success" /\ StepDone(r)
       \/ /\ steps[Current(r)].st # "success"
          /\ Goto(r, "beginning")
          /\ UNCHANGED <<g, tries>>
    /\ UNCHANGED <<rows, ckpt, up, nrun, resume, seen, req, budgets>>

\* begin_step: an existing row keeps the capability it was created for.
BeginStep(r) ==
    /\ pc[r] = "beginning"
    /\ steps' = [steps EXCEPT ![Current(r)] =
                    [st  |-> "running",
                     cap |-> IF @.st = "none" THEN g[r].plan[Current(r)] ELSE @.cap]]
    /\ Goto(r, "calling")
    /\ UNCHANGED <<status, control, lease, plan, episode, ckpt, up, nrun, resume, g,
                   tries, seen, req, budgets>>

\* capabilities.execute: a result, a connection or timeout error, another error.
CallCapability(r) ==
    /\ pc[r] = "calling"
    /\ \E outcome \in {"completing", "transient", "permanent"} : Goto(r, outcome)
    /\ UNCHANGED <<rows, ckpt, up, nrun, resume, g, tries, seen, req, budgets>>

CompleteStep(r) ==
    /\ pc[r] = "completing"
    /\ steps' = [steps EXCEPT ![Current(r)].st = "success"]
    /\ Goto(r, "completed")
    /\ UNCHANGED <<status, control, lease, plan, episode, ckpt, up, nrun, resume, g,
                   tries, seen, req, budgets>>

PublishStep(r) ==
    /\ pc[r] = "completed"
    /\ StepDone(r)
    /\ UNCHANGED <<rows, ckpt, up, nrun, resume, seen, req, budgets>>

\* fail_step, then RetryPolicy(max_attempts=3) or the exception leaves the graph.
MaxAttempts == 3

\* Mutant: one attempt too many.
FailStepOnceMore(r) ==
    /\ pc[r] \in {"transient", "permanent"}
    /\ steps' = [steps EXCEPT ![Current(r)].st = "failed"]
    /\ \/ /\ pc[r] = "transient" /\ tries[r] + 1 <= MaxAttempts
          /\ tries' = [tries EXCEPT ![r] = @ + 1]
          /\ Goto(r, "execute")
          /\ UNCHANGED ckpt
       \/ /\ (pc[r] = "permanent" \/ tries[r] + 1 > MaxAttempts)
          /\ ckpt' = g[r]
          /\ Goto(r, "fail")
          /\ UNCHANGED tries
    /\ UNCHANGED <<status, control, lease, plan, episode, up, nrun, resume, g, seen,
                   req, budgets>>

\* Mutant: a step that keeps failing is skipped.
FailStepSkips(r) ==
    /\ pc[r] \in {"transient", "permanent"}
    /\ steps' = [steps EXCEPT ![Current(r)].st = "failed"]
    /\ StepDone(r)
    /\ UNCHANGED <<status, control, lease, plan, episode, ckpt, up, nrun, resume, seen,
                   req, budgets>>

FailStep(r) ==
    /\ pc[r] \in {"transient", "permanent"}
    /\ steps' = [steps EXCEPT ![Current(r)].st = "failed"]
    /\ \/ /\ pc[r] = "transient" /\ tries[r] + 1 < MaxAttempts
          /\ tries' = [tries EXCEPT ![r] = @ + 1]
          /\ Goto(r, "execute")
          /\ UNCHANGED ckpt
       \/ /\ (pc[r] = "permanent" \/ tries[r] + 1 >= MaxAttempts)
          /\ ckpt' = g[r]
          /\ Goto(r, "fail")
          /\ UNCHANGED tries
    /\ UNCHANGED <<status, control, lease, plan, episode, up, nrun, resume, g, seen,
                   req, budgets>>

\* _success: the episode, then SUCCESS, then the event.
RecordEpisode(r) ==
    /\ pc[r] = "success"
    /\ episode' = TRUE
    /\ Goto(r, "succeeding")
    /\ UNCHANGED <<status, control, lease, plan, steps, ckpt, up, nrun, resume, g, tries,
                   seen, req, budgets>>

Conclude(r) ==
    /\ \/ pc[r] = "succeeding" /\ status' = "success"
       \/ pc[r] = "cancelled" /\ status' = "cancelled"
    /\ Goto(r, "finishing")
    /\ UNCHANGED <<control, lease, plan, steps, episode, ckpt, up, nrun, resume, g, tries,
                   seen, req, budgets>>

EndGraph(r) ==
    /\ pc[r] = "finishing"
    /\ LeaveGraph(r, [g[r] EXCEPT !.next = "end", !.token = FALSE])
    /\ UNCHANGED <<rows, up, nrun, resume, tries, seen, req, budgets>>

-----------------------------------------------------------------------------
(***************************************************************************)
(* The lifecycle endpoints: a read, a write and a call of TaskRunner.start *)
(* separated by awaits                                                     *)
(***************************************************************************)
\* require_mutable_task, and resume's own check of WAITING.
Admissible(kind) ==
    /\ status \notin Terminal
    /\ kind = "resume" => status = "waiting"

Accept(c, kind) ==
    /\ up /\ req[c] = Idle /\ requests < MaxRequests
    /\ Admissible(kind)
    /\ req' = [req EXCEPT ![c] = [kind |-> kind, at |-> "write", was |-> status]]
    /\ requests' = requests + 1
    /\ UNCHANGED <<rows, ckpt, up, runVars, crashes>>

WriteControl(c) ==
    /\ req[c] # Idle /\ req[c].at = "write"
    /\ \/ /\ req[c].kind = "pause"
          /\ control' = "pause"
          /\ req' = [req EXCEPT ![c] = Idle]
          /\ UNCHANGED status
       \/ /\ req[c].kind = "resume"
          /\ control' = "run" /\ status' = "queued"
          /\ req' = [req EXCEPT ![c].at = "start"]
       \/ /\ req[c].kind = "cancel"
          /\ control' = "cancel"
          /\ req' = [req EXCEPT ![c].at = "start"]
          /\ UNCHANGED status
    /\ UNCHANGED <<lease, plan, steps, episode, ckpt, up, runVars, budgets>>

StartRun(c) ==
    /\ req[c] # Idle /\ req[c].at = "start"
    /\ Start(\/ req[c].kind = "resume"
             \/ (req[c].kind = "cancel" /\ req[c].was = "waiting"))
    /\ req' = [req EXCEPT ![c] = Idle]
    /\ UNCHANGED <<rows, ckpt, up, budgets>>

-----------------------------------------------------------------------------
(***************************************************************************)
(* Loss of the process, graceful shutdown, restart                         *)
(***************************************************************************)
ProcessGone ==
    /\ up /\ crashes < MaxCrashes
    /\ crashes' = crashes + 1
    /\ up' = FALSE
    /\ req' = [c \in Clients |-> Idle]
    /\ nrun' = nrun
    /\ pc' = [r \in RunIds |-> IF pc[r] = "none" THEN "none" ELSE "done"]
    /\ resume' = [r \in RunIds |-> FALSE]
    /\ g' = [r \in RunIds |-> NewGraph]
    /\ tries' = [r \in RunIds |-> 0]
    /\ seen' = [r \in RunIds |-> "none"]
    /\ UNCHANGED <<status, control, plan, steps, episode, requests>>

\* A crash leaves the last persisted checkpoint and a lease nobody renews.
Crash ==
    /\ ProcessGone
    /\ lease' = IF lease = "mine" THEN "stale" ELSE lease
    /\ UNCHANGED ckpt

\* TaskRunner.shutdown cancels the runs: the one in the graph flushes its
\* checkpoint, and _run's finally clause releases the lease.
Shutdown ==
    /\ ProcessGone
    /\ lease' = IF lease = "mine" THEN "free" ELSE lease
    /\ ckpt' = IF \E r \in RunIds : pc[r] \in InGraph
               THEN g[CHOOSE r \in RunIds : pc[r] \in InGraph] ELSE ckpt

\* Mutant: the heartbeat does not renew, a working run's lease expires too.
LeaseExpiresUnderfoot ==
    /\ lease \in {"mine", "stale"}
    /\ lease' = "free"
    /\ UNCHANGED <<status, control, plan, steps, episode, ckpt, up, runVars, req, budgets>>

\* lease_expires_at of the lost process passes.
LeaseExpires ==
    /\ lease = "stale"
    /\ lease' = "free"
    /\ UNCHANGED <<status, control, plan, steps, episode, ckpt, up, runVars, req, budgets>>

\* Mutant: recovery does not look at the status.
RecoverableAny == lease = "free" /\ control # "pause"

\* The lifespan of the API: recover() runs once, before requests are served.
Recoverable == status \notin Terminal /\ lease = "free" /\ control # "pause"

Restart ==
    /\ ~up
    /\ up' = TRUE
    /\ IF Recoverable THEN Start(status \in {"queued", "waiting"}) ELSE UNCHANGED runVars
    /\ UNCHANGED <<rows, ckpt, req, budgets>>

-----------------------------------------------------------------------------
\* The state after TaskRepository.create, with the submitter about to start
\* the runner; a crash may come first.
Init ==
    /\ status = "queued" /\ control = "run" /\ lease = "free" /\ plan = <<>>
    /\ steps = [i \in StepIdx |-> [st |-> "none", cap |-> NoCap]]
    /\ episode = FALSE
    /\ ckpt = NewGraph
    /\ up = TRUE
    /\ nrun = 0
    /\ pc = [r \in RunIds |-> "none"]
    /\ resume = [r \in RunIds |-> FALSE]
    /\ g = [r \in RunIds |-> NewGraph]
    /\ tries = [r \in RunIds |-> 0]
    /\ seen = [r \in RunIds |-> "none"]
    /\ \E c \in Clients :
         req = [d \in Clients |-> IF d = c
                                 THEN [kind |-> "submit", at |-> "start", was |-> "queued"]
                                 ELSE Idle]
    /\ requests = 0 /\ crashes = 0

\* What the event loop drives once it has started: none of it waits for a client.
RunStep(r) ==
    \/ PredecessorDone(r) \/ AcquireLease(r) \/ BeginExecute(r)
    \/ EnterPlan(r) \/ StorePlan(r)
    \/ ReadControl(r) \/ PauseTask(r) \/ Interrupt(r) \/ OpenGate(r)
    \/ LookupStep(r) \/ BeginStep(r) \/ CallCapability(r)
    \/ CompleteStep(r) \/ PublishStep(r) \/ FailStep(r)
    \/ RecordEpisode(r) \/ Conclude(r) \/ EndGraph(r)
    \/ RecordFailure(r) \/ ReleaseLease(r)

RequestStep(c) == WriteControl(c) \/ StartRun(c)

Next ==
    \/ \E r \in RunIds : RunStep(r) \/ Persist(r) \/ NodeRaises(r)
    \/ \E c \in Clients : RequestStep(c)
    \/ \E c \in Clients, kind \in Kinds : Accept(c, kind)
    \/ Crash \/ Shutdown \/ LeaseExpires \/ Restart

Spec == Init /\ [][Next]_vars

\* The event loop serves every ready coroutine, providers answer or time out,
\* a lost process is restarted by its supervisor and clocks advance.
Fairness ==
    /\ \A r \in RunIds : WF_vars(RunStep(r))
    /\ \A c \in Clients : WF_vars(RequestStep(c))
    /\ WF_vars(Restart) /\ WF_vars(LeaseExpires)

FairSpec == Spec /\ Fairness

-----------------------------------------------------------------------------
(***************************************************************************)
(* Properties                                                              *)
(***************************************************************************)
\* Every variable stays in its type.
TypeOK ==
    /\ status \in Status /\ control \in Control /\ lease \in Lease
    /\ plan \in Plans \cup {<<>>}
    /\ steps \in [StepIdx -> StepRow]
    /\ episode \in BOOLEAN /\ up \in BOOLEAN
    /\ ckpt \in Graph
    /\ nrun \in 0..MaxRuns
    /\ pc \in [RunIds -> Pc]
    /\ resume \in [RunIds -> BOOLEAN]
    /\ g \in [RunIds -> Graph]
    /\ tries \in [RunIds -> 0..(MaxAttempts - 1)]
    /\ seen \in [RunIds -> Control \cup {"none"}]
    /\ req \in [Clients -> Requests \cup {Idle}]
    /\ requests \in 0..MaxRequests /\ crashes \in 0..MaxCrashes

\* At most one run of the task is past acquire_lease, and it holds the lease:
\* neither TaskRunner.start's successor nor a recovered run overlaps another.
OneExecutor ==
    \A r \in RunIds : pc[r] \in Holding =>
        /\ lease = "mine"
        /\ \A s \in RunIds \ {r} : pc[s] \notin Holding

\* A checkpoint, persisted or in memory, never counts a step whose record does
\* not hold its evidence, however late it was written and whoever resumed it.
CheckpointBacked ==
    \A k \in StepIdx :
        /\ k <= ckpt.idx => steps[k].st = "success"
        /\ \A r \in RunIds : k <= g[r].idx => steps[k].st = "success"

\* SUCCESS is only ever written when each step of the plan has its evidence.
SuccessHasEvidence ==
    status = "success" => \A i \in DOMAIN plan : steps[i].st = "success"

\* begin_step is only reached in order: a step that has ever been begun has all
\* its predecessors recorded as successes.
StepsInOrder ==
    \A i \in StepIdx : steps[i].st # "none" =>
        \A j \in 1..(i - 1) : steps[j].st = "success"

\* Evidence is never lost: a completed step is neither begun nor failed again,
\* by a retry, a resumed run, a recovered run or an old checkpoint.
CompletedStepsKept ==
    [][\A i \in StepIdx : steps[i].st = "success" => steps'[i] = steps[i]]_vars

\* What the row, the plan and the evidence promise together is kept through every
\* interleaving of runs, requests and losses: evidence only grows, in the order of the
\* plan; a success has all of it; a task that has succeeded or been cancelled is not
\* planned, executed or moved, but for the two late writes of TaskLedger!Overwrite; and
\* once its graph has finished nothing but a resume's QUEUED is ever written again.
Proved == {i \in StepIdx : steps[i].st = "success"}

Ledger == INSTANCE TaskLedger WITH evidence <- Proved, closed <- (ckpt.next = "end")

LedgerKept == Ledger!Spec

\* --- Promises that need a process that is never lost ---

\* The graph has a node left to run, whatever the task row says of it.
WorkLeft == ckpt.next # "end"

\* Terminal, or parked where the resume endpoint can let it out.
Settled == status \in Terminal \cup {"waiting"}

\* Every run ends, wherever it is, the first run of a task as well as a successor:
\* none waits for ever for its predecessor and none stays in the graph for ever.
RunsEnd == \A r \in RunIds : pc[r] \in Alive ~> pc[r] = "done"

\* No request, however it overlaps the others, strands a task that has work left:
\* it ends in a terminal state or parked at WAITING.
TaskSettles == <>[](WorkLeft => Settled)

\* Nothing runs and nothing is requested.
Quiescent ==
    /\ up
    /\ \A r \in RunIds : Done(r)
    /\ \A c \in Clients : req[c] = Idle

\* MILESTONE-02: "Pause reaches `waiting`, resume completes from the same thread".
\* A task at rest with work left is never queued, planning or running, states from
\* which no endpoint starts it.  A finished graph is excepted: resume_task writes
\* QUEUED over a status it does not read again, and a run of a finished graph
\* writes no status.
RestIsSettled == Quiescent /\ WorkLeft => Settled

\* --- What the documents promise, and the code does not keep ---

\* docs/04-TASK-RUNTIME.md: "Cancel routes to a terminal state": once everything
\* is at rest a task whose control says CANCEL is terminal.
CancelIsTerminal == Quiescent /\ control = "cancel" => status \in Terminal

\* MILESTONE-02: "Tasks must survive process loss [...] recover abandoned work
\* through leases": a task nobody touched reaches a terminal state.
AbandonedWorkRecovered == <>(status \in Terminal)

=============================================================================
