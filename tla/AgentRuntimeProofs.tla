------------------------- MODULE AgentRuntimeProofs -------------------------
(***************************************************************************)
(* Proofs about AgentRuntime, for every team, semaphore and bound.         *)
(*                                                                         *)
(* The invariant relates the row of an assignment to the await its         *)
(* coroutine is at, keeps the assignments of a delegation untouched until  *)
(* they are dispatched, and counts the permits.                            *)
(***************************************************************************)
EXTENDS AgentRuntime, FiniteSetTheorems, TLAPS

\* What the row says while the coroutine is at an await.
RowAt ==
    \A j \in Jobs :
        /\ at[j] \in {"absent", "admitted", "scheduled"} => rows[j] \in {"absent", "queued"}
        /\ at[j] \in {"announcing", "acquiring", "working", "recording"} => rows[j] = "running"
        /\ at[j] \in {"failing", "cancelling"} => rows[j] \in {"running", "success"}
        /\ at[j] \in {"reporting", "closing", "returned"} => rows[j] = "success"
        /\ at[j] \in {"closing", "returned"} => j \in sent

\* Until Dispatch the assignments of a delegation have no coroutine.
Undispatched ==
    \A d \in Delegations : deleg[d].pc \in {"idle", "creating", "enlisting", "announcing"}
                           => \A j \in Crew(d) : at[j] = "absent"

Working == {j \in Jobs : at[j] = "working"}

Types ==
    /\ agents \in [Agents -> {"absent", "active", "paused", "terminated"}]
    /\ rows \in [Jobs -> {"absent", "queued", "running"} \cup Final]
    /\ sent \subseteq Jobs
    /\ at \in [Jobs -> {"absent", "admitted"} \cup Live \cup Ended]
    /\ onto \in [Jobs -> Agents \cup {Nobody}]
    /\ doomed \subseteq Jobs
    /\ running \in [Agents -> Jobs \cup {Nobody}]
    /\ awaited \subseteq Assigns

DelegTypes ==
    /\ deleg \in [Delegations -> [pc : DelegPc, i : Nat]]
    /\ \A d \in Delegations :
          deleg[d].i \in 1..(IF deleg[d].pc = "cleaning" THEN Len(Team[d]) + 1 ELSE Len(Team[d]))

OtherTypes ==
    /\ call \in [Clients -> [op : Ops, agent : Agents] \cup {Idle}]
    /\ phase \in [pc : {"serving", "stopping", "down"}, owned : SUBSET Jobs]
    /\ calls \in 0..MaxCalls
    /\ faults \in 0..MaxFaults

\* Every assignment that is admitted is going to run on an agent.
Placed == \A j \in Jobs : at[j] # "absent" => onto[j] \in Agents

Counted == permits \in Nat /\ PermitsConserved

IInv == Types /\ DelegTypes /\ OtherTypes /\ Placed /\ RowAt /\ Undispatched /\ Counted

-----------------------------------------------------------------------------
LEMMA TeamFacts ==
    ASSUME NEW d \in Delegations
    PROVE  /\ Len(Team[d]) \in Nat \ {0}
           /\ DOMAIN Team[d] = 1..Len(Team[d])
           /\ Crew(d) \subseteq Hands
           /\ \A i \in 1..Len(Team[d]) : Team[d][i] \in Crew(d)
<1>1. PICK n \in 1..MaxWorkers : DOMAIN Team[d] = 1..n /\ Len(Team[d]) = n
  BY TeamAssumption
<1>2. n \in Nat \ {0}
  BY DEF MaxWorkers
<1> QED BY <1>1, <1>2 DEF Crew, Hands

LEMMA HandsFacts == Hands \subseteq Jobs /\ Hands \subseteq Agents /\ Nobody \notin Agents
BY JobsAssumption DEF Jobs, Agents

LEMMA InitIInv == Init => IInv
<1> SUFFICES ASSUME Init PROVE IInv
  OBVIOUS
<1>1. Types
  BY DEF Init, Types
<1>2. DelegTypes
  BY TeamFacts DEF Init, DelegTypes, DelegPc
<1>3. OtherTypes
  BY BoundsAssumption DEF Init, OtherTypes
<1>4. RowAt /\ Placed
  BY DEF Init, RowAt, Placed
<1>5. Undispatched
  BY TeamFacts, HandsFacts DEF Init, Undispatched
<1>6. Counted
  <2>1. {j \in Jobs : at[j] = "working"} = {}
    BY DEF Init
  <2> QED BY <2>1, FS_EmptySet, BoundsAssumption DEF Counted, PermitsConserved, Init
<1> QED BY <1>1, <1>2, <1>3, <1>4, <1>5, <1>6 DEF IInv

-----------------------------------------------------------------------------
(* One lemma per part of the invariant.                                    *)

LEMMA NextTypes ==
    ASSUME Types, DelegTypes, OtherTypes, Placed, [Next]_vars
    PROVE  Types'
<1> USE TeamFacts, HandsFacts DEF Types, Live, Ended, Final
<1>1. CASE \E j \in Jobs : Execute(j)
  <2> PICK j \in Jobs : Execute(j)
    BY <1>1
  <2>1. CASE Unwind(j)
    BY <2>1 DEF Unwind, UnwindFrom, Pending
  <2>2. CASE ~Unwind(j)
    BY <2>2 DEF Execute, MarkRunning, AnnounceStart, AcquirePermit, Work, RecordSuccess, SendResult,
          AnnounceResult, RecordFailure, RecordCancelled, Step, db
  <2> QED BY <2>1, <2>2
<1>2. CASE \E d \in Delegations : Delegate(d) \/ DelegateStep(d) \/ CancelDelegate(d)
  <2> PICK d \in Delegations : Delegate(d) \/ DelegateStep(d) \/ CancelDelegate(d)
    BY <1>2
  <2>1. deleg[d].pc # "cleaning" => Worker(d) \in Hands
    BY DEF DelegTypes, Worker
  <2>2. CASE Dispatch(d)
    BY <2>2 DEF Dispatch, db
  <2>3. CASE CancelDelegate(d)
    BY <2>1, <2>3 DEF CancelDelegate
  <2>4. CASE ReadWorker(d)
    BY <2>4 DEF ReadWorker, db
  <2>5. CASE CheckWorker(d)
    BY <2>5 DEF CheckWorker, Cancelled, db
  <2>6. CASE Delegate(d) \/ CreateWorker(d) \/ CreateAssignment(d) \/ Gather(d) \/ TerminateWorker(d) \/ Synthesize(d)
    BY <2>1, <2>6 DEF Delegate, CreateWorker, CreateAssignment, Gather, TerminateWorker, Synthesize, db, proc
  <2> QED BY <2>2, <2>3, <2>4, <2>5, <2>6 DEF DelegateStep
<1>3. CASE \E w \in Hired : HireAgent(w)
  BY <1>3 DEF HireAgent, Agents, proc
<1>4. CASE \E a \in Assigns : (\E w \in Agents : Assign(a, w)) \/ Enlist(a) \/ AssignReturns(a)
  <2> PICK a \in Assigns : (\E w \in Agents : Assign(a, w)) \/ Enlist(a) \/ AssignReturns(a)
    BY <1>4
  <2>1. a \in Jobs
    BY DEF Jobs
  <2>2. CASE \E w \in Agents : Assign(a, w)
    BY <2>1, <2>2 DEF Assign, db
  <2>3. CASE Enlist(a)
    BY <2>1, <2>3 DEF Enlist
  <2>4. CASE AssignReturns(a)
    BY <2>1, <2>4 DEF AssignReturns, db
  <2> QED BY <2>2, <2>3, <2>4
<1>5. CASE \E c \in Clients : (\E op \in Ops, w \in Agents : Request(c, op, w)) \/ Apply(c)
  <2> PICK c \in Clients : (\E op \in Ops, w \in Agents : Request(c, op, w)) \/ Apply(c)
    BY <1>5
  <2>1. CASE \E op \in Ops, w \in Agents : Request(c, op, w)
    BY <2>1 DEF Request, Cancelled, db
  <2>2. CASE Apply(c)
    <3>1. call[c] \in [op : Ops, agent : Agents]
      BY <2>2 DEF Apply, OtherTypes
    <3>2. call[c].op \in {"pause", "resume", "terminate"}
      BY <3>1, OpsAssumption
    <3> QED BY <2>2, <3>2 DEF Apply, proc
  <2> QED BY <2>1, <2>2
<1>6. CASE Shutdown
  BY <1>6 DEF Shutdown, Cancelled, db
<1>7. CASE ShutdownEnds
  BY <1>7 DEF ShutdownEnds, db
<1>8. CASE UNCHANGED vars
  BY <1>8 DEF vars, db, proc
<1> QED
  BY <1>1, <1>2, <1>3, <1>4, <1>5, <1>6, <1>7, <1>8 DEF Next


\* deleg changes by one of its own steps, which keep the index in the team.
LEMMA NextDelegTypes ==
    ASSUME DelegTypes, [Next]_vars
    PROVE  DelegTypes'
<1> USE TeamFacts DEF DelegTypes, DelegPc
<1>1. CASE \E d \in Delegations : Delegate(d) \/ DelegateStep(d) \/ CancelDelegate(d)
  <2> PICK d \in Delegations : Delegate(d) \/ DelegateStep(d) \/ CancelDelegate(d)
    BY <1>1
  <2>1. PICK pc \in DelegPc, i \in Nat :
           /\ DelegAt(d, pc, i)
           /\ i \in 1..(IF pc = "cleaning" THEN Len(Team[d]) + 1 ELSE Len(Team[d]))
    <3>1. deleg[d].i \in Nat /\ Len(Team[d]) \in Nat \ {0}
      OBVIOUS
    <3> QED
      BY <3>1 DEF Delegate, DelegateStep, CancelDelegate, CreateWorker, CreateAssignment, Dispatch,
         Gather, ReadWorker, CheckWorker, TerminateWorker, Synthesize, Over
  <2> QED BY <2>1 DEF DelegAt
<1>2. CASE UNCHANGED deleg
  BY <1>2
<1> QED
  BY <1>1, <1>2 DEF Next, Execute, MarkRunning, AnnounceStart, AcquirePermit, Work,
     RecordSuccess, SendResult, AnnounceResult, RecordFailure, RecordCancelled, Unwind, UnwindFrom,
     HireAgent, Assign, Enlist, AssignReturns, Request, Apply, Shutdown, ShutdownEnds, vars

LEMMA NextOtherTypes ==
    ASSUME Types, OtherTypes, [Next]_vars
    PROVE  OtherTypes'
<1> USE BoundsAssumption DEF OtherTypes
<1>1. faults' = faults \/ Fault
  BY DEF Next, Execute, MarkRunning, AnnounceStart, AcquirePermit, Work,
     RecordSuccess, SendResult, AnnounceResult, RecordFailure, RecordCancelled, Unwind, UnwindFrom,
     HireAgent, Assign, Enlist, AssignReturns, Request, Apply, Shutdown, ShutdownEnds, vars,
     Delegate, DelegateStep, CancelDelegate, CreateWorker, CreateAssignment, Dispatch,
     Gather, ReadWorker, CheckWorker, TerminateWorker, Synthesize
<1>2. (faults \in 0..MaxFaults)'
  BY <1>1 DEF Fault
<1>3. CASE \E c \in Clients : (\E op \in Ops, w \in Agents : Request(c, op, w)) \/ Apply(c)
  <2> PICK c \in Clients : (\E op \in Ops, w \in Agents : Request(c, op, w)) \/ Apply(c)
    BY <1>3
  <2>1. CASE \E op \in Ops, w \in Agents : Request(c, op, w)
    BY <1>2, <2>1 DEF Request
  <2>2. CASE Apply(c)
    BY <1>2, <2>2 DEF Apply
  <2> QED BY <2>1, <2>2
<1>4. CASE Shutdown
  <2>1. UNION {Cancelled(w) : w \in Agents} \subseteq Jobs
    BY DEF Cancelled
  <2> QED BY <1>2, <1>4, <2>1 DEF Shutdown
<1>5. CASE ShutdownEnds
  BY <1>2, <1>5 DEF ShutdownEnds
<1>6. CASE UNCHANGED <<call, phase, calls>>
  BY <1>2, <1>6
<1> QED
  BY <1>3, <1>4, <1>5, <1>6 DEF Next, Execute, MarkRunning, AnnounceStart, AcquirePermit, Work,
     RecordSuccess, SendResult, AnnounceResult, RecordFailure, RecordCancelled, Unwind, UnwindFrom,
     HireAgent, Assign, Enlist, AssignReturns, vars,
     Delegate, DelegateStep, CancelDelegate, CreateWorker, CreateAssignment, Dispatch,
     Gather, ReadWorker, CheckWorker, TerminateWorker, Synthesize

\* What a step may do to the coroutine of an assignment and to its row.
Untouched == UNCHANGED <<at, onto, rows, sent, permits>>

LEMMA OtherSteps ==
    ASSUME [Next]_vars
    PROVE  \/ \E j \in Jobs : Execute(j)
           \/ \E d \in Delegations : CreateAssignment(d) \/ Dispatch(d) \/ CancelDelegate(d)
           \/ \E a \in Assigns : (\E w \in Agents : Assign(a, w)) \/ Enlist(a)
           \/ Untouched
BY DEF Untouched, Next, AssignReturns, vars, db, proc, HireAgent, Request, Apply, Shutdown, ShutdownEnds,
   Delegate, DelegateStep, CreateWorker, Gather, ReadWorker, CheckWorker,
   TerminateWorker, Synthesize

LEMMA NextPlaced ==
    ASSUME Types, Placed, [Next]_vars
    PROVE  Placed'
<1> USE HandsFacts DEF Placed, Types
<1>1. CASE \E j \in Jobs : Execute(j)
  BY <1>1 DEF Execute, MarkRunning, AnnounceStart, AcquirePermit, Work, RecordSuccess, SendResult,
     AnnounceResult, RecordFailure, RecordCancelled, Unwind, UnwindFrom, Step, Live
<1>2. CASE \E d \in Delegations : CreateAssignment(d) \/ Dispatch(d) \/ CancelDelegate(d)
  BY <1>2, TeamFacts DEF CreateAssignment, Dispatch, CancelDelegate, proc
<1>3. CASE \E a \in Assigns : (\E w \in Agents : Assign(a, w)) \/ Enlist(a)
  BY <1>3 DEF Assign, Enlist, Jobs
<1>4. CASE Untouched
  BY <1>4 DEF Untouched
<1> QED BY <1>1, <1>2, <1>3, <1>4, OtherSteps

LEMMA NextRowAt ==
    ASSUME Types, DelegTypes, RowAt, Undispatched, [Next]_vars
    PROVE  RowAt'
<1> USE HandsFacts DEF RowAt, Types
<1>1. CASE \E j \in Jobs : Execute(j)
  <2> PICK j \in Jobs : Execute(j)
    BY <1>1
  <2>1. CASE Unwind(j)
    BY <2>1 DEF Unwind, UnwindFrom, Pending, InTry, Live
  <2>2. CASE ~Unwind(j)
    BY <2>2 DEF Execute, MarkRunning, AnnounceStart, AcquirePermit, Work, RecordSuccess, SendResult,
       AnnounceResult, RecordFailure, RecordCancelled, Step, db
  <2> QED BY <2>1, <2>2
<1>2. CASE \E d \in Delegations : CreateAssignment(d) \/ Dispatch(d) \/ CancelDelegate(d)
  <2> PICK d \in Delegations : CreateAssignment(d) \/ Dispatch(d) \/ CancelDelegate(d)
    BY <1>2
  <2>1. deleg[d].pc = "enlisting" => Worker(d) \in Crew(d) /\ at[Worker(d)] = "absent"
    BY TeamFacts DEF DelegTypes, Worker, Undispatched
  <2>2. CASE CreateAssignment(d)
    BY <2>1, <2>2 DEF CreateAssignment, proc
  <2>3. CASE Dispatch(d)
    BY <2>3 DEF Dispatch, Undispatched, db
  <2>4. CASE CancelDelegate(d)
    BY <2>1, <2>4 DEF CancelDelegate
  <2> QED BY <2>2, <2>3, <2>4
<1>3. CASE \E a \in Assigns : (\E w \in Agents : Assign(a, w)) \/ Enlist(a)
  BY <1>3 DEF Assign, Enlist, Jobs, db
<1>4. CASE Untouched
  BY <1>4 DEF Untouched
<1> QED BY <1>1, <1>2, <1>3, <1>4, OtherSteps

LEMMA NextUndispatched ==
    ASSUME Types, DelegTypes, Undispatched, [Next]_vars
    PROVE  Undispatched'
<1> SUFFICES ASSUME NEW d \in Delegations,
                    deleg'[d].pc \in {"idle", "creating", "enlisting", "announcing"},
                    NEW j \in Crew(d)
             PROVE  at'[j] = "absent"
  BY DEF Undispatched
<1>1. j \in Hands /\ j \in Jobs /\ j \notin Assigns
  BY TeamFacts, HandsFacts, TeamAssumption
<1>2. /\ deleg[d].pc \in {"idle", "creating", "enlisting", "announcing"}
      /\ ~Dispatch(d)
  <2>1. CASE \E e \in Delegations : Delegate(e) \/ DelegateStep(e) \/ CancelDelegate(e)
    <3> PICK e \in Delegations : Delegate(e) \/ DelegateStep(e) \/ CancelDelegate(e)
      BY <2>1
    <3>1. PICK pc, i : DelegAt(e, pc, i) /\ (pc \in {"idle", "creating", "enlisting", "announcing"}
                        => deleg[e].pc \in {"idle", "creating", "enlisting", "announcing"} /\ ~Dispatch(e))
      BY DEF Delegate, DelegateStep, CancelDelegate, CreateWorker, CreateAssignment, Dispatch,
         Gather, ReadWorker, CheckWorker, TerminateWorker, Synthesize, Over
    <3> QED BY <3>1 DEF DelegAt, DelegTypes, Dispatch
  <2>2. CASE UNCHANGED deleg
    BY <2>2 DEF Dispatch, DelegAt, DelegTypes
  <2> QED
    BY <2>1, <2>2 DEF Next, Execute, MarkRunning, AnnounceStart, AcquirePermit, Work,
       RecordSuccess, SendResult, AnnounceResult, RecordFailure, RecordCancelled, Unwind, UnwindFrom,
       HireAgent, Assign, Enlist, AssignReturns, Request, Apply, Shutdown, ShutdownEnds, vars
<1>3. at[j] = "absent"
  BY <1>2 DEF Undispatched
<1>4. CASE \E k \in Jobs : Execute(k)
  BY <1>1, <1>3, <1>4 DEF Execute, MarkRunning, AnnounceStart, AcquirePermit, Work, RecordSuccess,
     SendResult, AnnounceResult, RecordFailure, RecordCancelled, Unwind, UnwindFrom, Step, Live, Types
<1>5. CASE \E e \in Delegations : CreateAssignment(e) \/ Dispatch(e) \/ CancelDelegate(e)
  <2> PICK e \in Delegations : CreateAssignment(e) \/ Dispatch(e) \/ CancelDelegate(e)
    BY <1>5
  <2>1. Dispatch(e) => j \notin Crew(e)
    BY <1>2, TeamAssumption DEF Crew
  <2> QED BY <1>1, <1>3, <2>1 DEF CreateAssignment, Dispatch, CancelDelegate, proc
<1>6. CASE \E a \in Assigns : (\E w \in Agents : Assign(a, w)) \/ Enlist(a)
  BY <1>1, <1>3, <1>6 DEF Assign, Enlist, Types
<1>7. CASE Untouched
  BY <1>3, <1>7 DEF Untouched
<1> QED BY <1>4, <1>5, <1>6, <1>7, OtherSteps

\* The semaphore: working coroutines come and go one at a time.
LEMMA NextCounted ==
    ASSUME Types, Undispatched, Counted, [Next]_vars
    PROVE  Counted'
<1> DEFINE W == {j \in Jobs : at[j] = "working"}
<1>1. IsFiniteSet(W) /\ Cardinality(W) \in Nat
  BY JobsAssumption, FS_Subset, FS_CardinalityType
<1>2. permits \in Nat /\ permits + Cardinality(W) = Permits
  BY DEF Counted, PermitsConserved
<1>3. ASSUME NEW j \in Jobs, W' = W \cup {j}, j \notin W, permits' = permits - 1, permits > 0
      PROVE  Counted'
  <2>1. Cardinality(W') = Cardinality(W) + 1
    BY <1>1, <1>3, FS_AddElement
  <2> QED BY <1>1, <1>2, <1>3, <2>1 DEF Counted, PermitsConserved
<1>4. ASSUME NEW j \in W, W' = W \ {j}, permits' = permits + 1
      PROVE  Counted'
  <2>1. Cardinality(W') = Cardinality(W) - 1
    BY <1>1, <1>4, FS_RemoveElement
  <2> QED BY <1>1, <1>2, <1>4, <2>1 DEF Counted, PermitsConserved
<1>5. ASSUME W' = W, permits' = permits
      PROVE  Counted'
  BY <1>2, <1>5 DEF Counted, PermitsConserved
<1>6. CASE \E j \in Jobs : Execute(j)
  <2> PICK j \in Jobs : Execute(j)
    BY <1>6
  <2>1. CASE AcquirePermit(j)
    <3>1. W' = W \cup {j} /\ j \notin W
      BY <2>1 DEF AcquirePermit, Step, Types
    <3> QED BY <1>3, <2>1, <3>1 DEF AcquirePermit
  <2>2. CASE Work(j) \/ (Unwind(j) /\ at[j] = "working")
    <3>1. j \in W /\ W' = W \ {j} /\ permits' = permits + 1
      BY <2>2 DEF Work, Unwind, UnwindFrom, Step, Types
    <3> QED BY <1>4, <3>1
  <2>3. CASE Execute(j) /\ ~AcquirePermit(j) /\ ~Work(j) /\ ~(Unwind(j) /\ at[j] = "working")
    <3>1. W' = W /\ permits' = permits
      BY <2>3 DEF Execute, MarkRunning, AnnounceStart, RecordSuccess, SendResult, AnnounceResult,
         RecordFailure, RecordCancelled, Unwind, UnwindFrom, Step, Types
    <3> QED BY <1>5, <3>1
  <2> QED BY <2>1, <2>2, <2>3
<1>7. CASE \E d \in Delegations : CreateAssignment(d) \/ Dispatch(d) \/ CancelDelegate(d)
  <2>1. W' = W /\ permits' = permits
    BY <1>7, HandsFacts DEF CreateAssignment, Dispatch, CancelDelegate, Undispatched, proc
  <2> QED BY <1>5, <2>1
<1>8. CASE \E a \in Assigns : (\E w \in Agents : Assign(a, w)) \/ Enlist(a)
  <2>1. W' = W /\ permits' = permits
    BY <1>8 DEF Assign, Enlist, Types
  <2> QED BY <1>5, <2>1
<1>9. CASE Untouched
  BY <1>5, <1>9 DEF Untouched
<1> QED BY <1>6, <1>7, <1>8, <1>9, OtherSteps

-----------------------------------------------------------------------------
(***************************************************************************)
(* Theorems                                                                *)
(***************************************************************************)
\* The invariant is inductive.
LEMMA IInvariant == Spec => []IInv
<1>1. IInv /\ [Next]_vars => IInv'
  BY NextTypes, NextDelegTypes, NextOtherTypes, NextPlaced, NextRowAt, NextUndispatched,
     NextCounted DEF IInv
<1> QED
  BY InitIInv, <1>1, PTL DEF Spec

\* Types hold in every reachable state; in particular the semaphore's value never
\* leaves 0..Permits.
THEOREM TypeCorrect == Spec => []TypeOK
<1>1. IInv => TypeOK
  <2>1. ASSUME IInv PROVE permits \in 0..Permits
    <3>1. Cardinality({j \in Jobs : at[j] = "working"}) \in Nat
      BY JobsAssumption, FS_Subset, FS_CardinalityType
    <3> QED BY <2>1, <3>1, BoundsAssumption DEF IInv, Counted, PermitsConserved
  <2> QED BY <2>1 DEF IInv, Types, DelegTypes, OtherTypes, TypeOK
<1> QED
  BY IInvariant, <1>1, PTL

\* Permits are neither lost nor duplicated, on any way out of an assignment.
THEOREM NoPermitLeaks == Spec => []PermitsConserved
<1>1. IInv => PermitsConserved
  BY DEF IInv, Counted
<1> QED
  BY IInvariant, <1>1, PTL

\* Work that delegate or assign reports as completed is recorded and delivered.
THEOREM ReportsAreRecorded == Spec => []CompletedIsRecorded
<1>1. IInv => CompletedIsRecorded
  BY DEF IInv, RowAt, CompletedIsRecorded
<1> QED
  BY IInvariant, <1>1, PTL

\* An outcome is only ever withdrawn by the coroutine that recorded it.
THEOREM OutcomesAreKept == Spec => OutcomeKept
<1> DEFINE Kept == \A j \in Jobs : rows[j] \in Final /\ rows'[j] # rows[j]
              => at[j] \in {"reporting", "closing", "failing", "cancelling"} /\ rows[j] = "success"
<1>1. ASSUME IInv, [Next]_vars PROVE Kept
  <2> SUFFICES ASSUME NEW j \in Jobs, rows[j] \in Final, rows'[j] # rows[j]
               PROVE  at[j] \in {"reporting", "closing", "failing", "cancelling"} /\ rows[j] = "success"
    OBVIOUS
  <2> USE <1>1 DEF IInv, Types, RowAt, Final
  <2>1. CASE \E k \in Jobs : Execute(k)
    BY <2>1 DEF Execute, MarkRunning, AnnounceStart, AcquirePermit, Work, RecordSuccess, SendResult,
       AnnounceResult, RecordFailure, RecordCancelled, Unwind, UnwindFrom, Pending, Step, db, Live
  <2>2. CASE \E d \in Delegations : CreateAssignment(d) \/ Dispatch(d) \/ CancelDelegate(d)
    <3> PICK d \in Delegations : CreateAssignment(d) \/ Dispatch(d) \/ CancelDelegate(d)
      BY <2>2
    <3>1. deleg[d].pc = "enlisting" => Worker(d) \in Crew(d) /\ at[Worker(d)] = "absent"
      BY TeamFacts DEF DelegTypes, Worker, Undispatched
    <3> QED BY <3>1, HandsFacts, TeamFacts DEF CreateAssignment, Dispatch, CancelDelegate, db
  <2>3. CASE \E a \in Assigns : (\E w \in Agents : Assign(a, w)) \/ Enlist(a)
    BY <2>3 DEF Assign, Enlist, db
  <2>4. CASE Untouched
    BY <2>4 DEF Untouched
  <2> QED BY <2>1, <2>2, <2>3, <2>4, OtherSteps
<1>2. IInv /\ [Next]_vars => [Kept]_vars
  BY <1>1
<1> QED
  BY IInvariant, <1>2, PTL DEF Spec, OutcomeKept

\* How far the clean-up has come: the workers before the index are terminated.
Retired ==
    \A d \in Delegations :
        /\ deleg[d].pc \in {"cleaning", "retiring", "terminating"}
              => \A k \in 1..(deleg[d].i - 1) : agents[Team[d][k]] = "terminated"
        /\ deleg[d].pc = "returned" => \A w \in Crew(d) : agents[w] = "terminated"

\* Once a delegation gathers, nothing but a resume or a late pause revives its workers.
LEMMA TerminatedStays ==
    ASSUME Types, DelegTypes, OtherTypes, Ops \subseteq {"terminate"}, [Next]_vars,
           NEW d \in Delegations, NEW w \in Crew(d), agents[w] = "terminated",
           deleg[d].pc \in {"cleaning", "retiring", "terminating", "returned"}
    PROVE  agents'[w] = "terminated"
<1> USE DEF Types
<1>1. w \in Agents /\ w \in Hands /\ w \notin Hired
  BY TeamFacts, HandsFacts, TeamAssumption
<1>2. ASSUME NEW e \in Delegations, deleg[e].pc = "creating"
      PROVE  Worker(e) # w
  <2>1. deleg[e].i \in 1..Len(Team[e])
    BY <1>2 DEF DelegTypes
  <2>2. PICK k \in DOMAIN Team[d] : w = Team[d][k]
    BY DEF Crew
  <2> QED BY <1>2, <2>1, <2>2, TeamFacts, TeamAssumption DEF Worker
<1>3. CASE \E e \in Delegations : CreateWorker(e) \/ CancelDelegate(e) \/ TerminateWorker(e)
  <2> PICK e \in Delegations : CreateWorker(e) \/ CancelDelegate(e) \/ TerminateWorker(e)
    BY <1>3
  <2>1. CASE CreateWorker(e)
    BY <1>1, <1>2, <2>1 DEF CreateWorker
  <2>2. CASE TerminateWorker(e)
    BY <1>1, <2>2 DEF TerminateWorker
  <2>3. CASE CancelDelegate(e)
    BY <1>1, <1>2, <2>3 DEF CancelDelegate
  <2> QED BY <2>1, <2>2, <2>3
<1>4. CASE \E h \in Hired : HireAgent(h)
  BY <1>1, <1>4 DEF HireAgent
<1>5. CASE \E c \in Clients : Apply(c)
  <2> PICK c \in Clients : Apply(c)
    BY <1>5
  <2>1. call[c].op = "terminate"
    BY DEF Apply, OtherTypes
  <2> QED BY <1>1, <2>1 DEF Apply
<1>6. CASE UNCHANGED agents
  BY <1>6
<1> QED
  BY <1>3, <1>4, <1>5, <1>6 DEF Next, Execute, MarkRunning, AnnounceStart, AcquirePermit, Work,
     RecordSuccess, SendResult, AnnounceResult, RecordFailure, RecordCancelled, Unwind, UnwindFrom,
     Assign, Enlist, AssignReturns, Request, Shutdown, ShutdownEnds, vars, db,
     Delegate, DelegateStep, CreateAssignment, Dispatch, Gather, ReadWorker, CheckWorker, Synthesize

LEMMA NextRetired ==
    ASSUME Types, DelegTypes, OtherTypes, Ops \subseteq {"terminate"}, Retired, [Next]_vars
    PROVE  Retired'
<1> SUFFICES ASSUME NEW d \in Delegations
             PROVE  /\ deleg'[d].pc \in {"cleaning", "retiring", "terminating"}
                          => \A k \in 1..(deleg'[d].i - 1) : agents'[Team[d][k]] = "terminated"
                    /\ deleg'[d].pc = "returned" => \A w \in Crew(d) : agents'[w] = "terminated"
  BY DEF Retired
<1> USE TeamFacts
<1>1. CASE UNCHANGED deleg[d]
  <2>1. ASSUME deleg[d].pc \in {"cleaning", "retiring", "terminating"}, NEW k \in 1..(deleg[d].i - 1)
        PROVE  agents'[Team[d][k]] = "terminated"
    <3>1. Team[d][k] \in Crew(d)
      BY <2>1 DEF DelegTypes
    <3> QED BY <2>1, <3>1, TerminatedStays DEF Retired
  <2>2. ASSUME deleg[d].pc = "returned", NEW w \in Crew(d)
        PROVE  agents'[w] = "terminated"
    BY <2>2, TerminatedStays DEF Retired
  <2> QED BY <1>1, <2>1, <2>2
<1>2. CASE Delegate(d) \/ CreateWorker(d) \/ CreateAssignment(d) \/ Dispatch(d) \/ Gather(d) \/ CancelDelegate(d)
  BY <1>2 DEF Delegate, CreateWorker, CreateAssignment, Dispatch, Gather, CancelDelegate, DelegAt, DelegTypes
<1>3. CASE ReadWorker(d) \/ CheckWorker(d)
  BY <1>3 DEF ReadWorker, CheckWorker, DelegAt, DelegTypes, Retired, Worker, db
<1>4. CASE TerminateWorker(d)
  <2>1. Worker(d) \in Agents
    BY <1>4, HandsFacts DEF TerminateWorker, DelegTypes, Worker
  <2>2. \A k \in 1..(deleg[d].i - 1) : agents'[Team[d][k]] = "terminated"
    BY <1>4, <2>1, HandsFacts DEF TerminateWorker, Retired, DelegTypes, Types
  <2>3. agents'[Team[d][deleg[d].i]] = "terminated"
    BY <1>4, <2>1 DEF TerminateWorker, Types, Worker
  <2>4. deleg[d].i \in Nat /\ deleg[d].i >= 1 /\ deleg[d].pc = "terminating"
    BY <1>4 DEF TerminateWorker, DelegTypes
  <2>5. \A k \in 1..((deleg[d].i + 1) - 1) : agents'[Team[d][k]] = "terminated"
    BY <2>2, <2>3, <2>4
  <2>6. \/ deleg'[d] = [pc |-> "cleaning", i |-> deleg[d].i + 1]
        \/ deleg'[d] = [pc |-> "raised", i |-> 1]
    BY <1>4 DEF TerminateWorker, DelegAt, DelegTypes
  <2> QED BY <2>5, <2>6
<1>5. CASE Synthesize(d)
  <2>1. deleg[d].pc = "cleaning" /\ deleg[d].i = Len(Team[d]) + 1
    BY <1>5 DEF Synthesize, DelegTypes
  <2>2. deleg'[d].pc \in {"returned", "raised"} /\ agents' = agents
    BY <1>5 DEF Synthesize, DelegAt, DelegTypes, db
  <2>3. \A k \in 1..Len(Team[d]) : agents[Team[d][k]] = "terminated"
    BY <2>1 DEF Retired
  <2>4. \A w \in Crew(d) : agents[w] = "terminated"
    BY <2>3 DEF Crew
  <2> QED BY <2>2, <2>4
<1>6. \/ UNCHANGED deleg[d]
      \/ Delegate(d) \/ DelegateStep(d) \/ CancelDelegate(d)
  <2>1. CASE \E e \in Delegations : Delegate(e) \/ DelegateStep(e) \/ CancelDelegate(e)
    <3> PICK e \in Delegations : Delegate(e) \/ DelegateStep(e) \/ CancelDelegate(e)
      BY <2>1
    <3>1. \E pc, i : DelegAt(e, pc, i)
      BY DEF Delegate, DelegateStep, CancelDelegate, CreateWorker, CreateAssignment, Dispatch,
         Gather, ReadWorker, CheckWorker, TerminateWorker, Synthesize
    <3> QED BY <3>1 DEF DelegAt, DelegTypes
  <2>2. CASE UNCHANGED deleg
    BY <2>2
  <2> QED
    BY <2>1, <2>2 DEF Next, Execute, MarkRunning, AnnounceStart, AcquirePermit, Work,
       RecordSuccess, SendResult, AnnounceResult, RecordFailure, RecordCancelled, Unwind, UnwindFrom,
       HireAgent, Assign, Enlist, AssignReturns, Request, Apply, Shutdown, ShutdownEnds, vars
<1> QED BY <1>1, <1>2, <1>3, <1>4, <1>5, <1>6 DEF DelegateStep

\* A delegation that returns leaves no worker, if agents are never paused or resumed
\* meanwhile: for any number of workers, terminations, faults and cancellations.
THEOREM DelegationsCleanUp ==
    ASSUME Ops \subseteq {"terminate"}
    PROVE  Spec => []WorkersRetired
<1>1. Init => Retired
  BY DEF Init, Retired
<1>2. IInv /\ Retired /\ [Next]_vars => Retired'
  BY NextRetired DEF IInv
<1>3. Retired => WorkersRetired
  BY DEF Retired, WorkersRetired
<1> QED
  BY IInvariant, <1>1, <1>2, <1>3, PTL DEF Spec

=============================================================================
