----------------------------- MODULE ServicesProofs -----------------------------
(***************************************************************************)
(* Proofs about the services that tasks call, each for any instance of its *)
(* own: what a run checks of one of them it keeps by itself.               *)
(***************************************************************************)
EXTENDS Services, FiniteSetTheorems, SequenceTheorems, TLAPS

-----------------------------------------------------------------------------
(***************************************************************************)
(* Submission.  A creator is answered after its task was started.  A run   *)
(* that returns leaves it ended, paused or to the run that waits for it:   *)
(* whoever resumes it while its gate parks is behind it.  It is out of the *)
(* hands of this life of the process only when an earlier life still has   *)
(* its lease.                                                              *)
(***************************************************************************)
AllKeys == UNION {KeysOf[c] : c \in Callers}
Tasks   == [key : AllKeys \cup {"none"}, status : {"queued", "running", "waiting"} \cup Final,
            control : {"run", "pause", "cancel"}, born : Nat, lease : {"free", "mine", "stale"},
            pausing : {"no", "read", "written"}, over : BOOLEAN]
Places  == {"idle", "inserting", "refused", "announcing", "thinking", "answered", "raised"}
CallersOf == [at : Places, key : AllKeys \cup {"none"}, task : Nat, created : BOOLEAN]

SubmissionTypes ==
    /\ tasks \in Seq(Tasks)
    /\ caller \in [Callers -> CallersOf]
    /\ life \in Nat

\* The unique index: a key that a client sent names one task.
KeysAreUnique == \A t, u \in DOMAIN tasks : tasks[t].key = tasks[u].key => t = u \/ tasks[t].key \in Unkeyed

\* A request holds the task of its key, once it has one.
HoldsItsTask ==
    \A c \in Callers :
        /\ caller[c].created => caller[c].task \in DOMAIN tasks
        /\ caller[c].at \in {"announcing", "thinking", "answered"} =>
            caller[c].task \in DOMAIN tasks /\ tasks[caller[c].task].key = caller[c].key
        /\ caller[c].at = "thinking" => caller[c].key = "chat"

CreatesItsOwn ==
    \A c, d \in Callers : caller[c].created /\ caller[d].created /\ caller[c].task = caller[d].task => c = d

\* A task is born in a life of the process up to now, and a lease left behind is of an
\* earlier one.
LivesAreOrdered ==
    \A t \in DOMAIN tasks : tasks[t].born <= life /\ (tasks[t].lease = "stale" => tasks[t].born < life)

\* A task that is handled with no run of its own.
Settled(task) ==
    \/ task.status \in Final \/ (task.status = "waiting" /\ task.control # "run")
    \/ task.born < life \/ (task.over /\ task.status = "queued")

\* A run whose gate is at a pause has the lease; if the pause was lifted meanwhile, another run
\* is behind it.  A graph at its end has no gate, and nothing but a resume hides its status.
PauseHolds(task, running, more) ==
    /\ task.pausing # "no" => task.lease = "mine" /\ running
    /\ task.pausing = "read" => task.control # "run" \/ more
    /\ task.pausing = "written" => Settled(task) \/ more
    /\ task.over => task.pausing = "no" /\ task.status \in Final \cup {"queued"}

PausesHold == \A t \in DOMAIN tasks : PauseHolds(tasks[t], t \in executing, t \in behind)

CreatedIsHandled ==
    \A c \in Callers :
        caller[c].at = "answered" /\ caller[c].created /\ caller[c].key # "chat" => Handled(caller[c].task)

SubmissionInv ==
    /\ SubmissionTypes /\ KeysAreUnique /\ HoldsItsTask /\ CreatesItsOwn /\ LivesAreOrdered
    /\ PausesHold /\ CreatedIsHandled

\* A step that keeps the tasks in place, their keys and births, and leaves each of them handled
\* that was, keeps the invariant with the requests where they are.
TasksStay ==
    /\ DOMAIN tasks' = DOMAIN tasks
    /\ \A t \in DOMAIN tasks :
        /\ tasks'[t].key = tasks[t].key /\ tasks'[t].born = tasks[t].born
        /\ tasks'[t].lease = "stale" => tasks[t].lease = "stale"
        /\ Handled(t) => Handled(t)'

LEMMA TasksMoveOn ==
    ASSUME SubmissionInv, SubmissionTypes', PausesHold', UNCHANGED caller, UNCHANGED life, TasksStay
    PROVE  SubmissionInv'
<1> USE DEF TasksStay
<1>1. KeysAreUnique'
    BY DEF SubmissionInv, KeysAreUnique
<1>2. HoldsItsTask'
    BY DEF SubmissionInv, HoldsItsTask
<1>3. CreatesItsOwn'
    BY DEF SubmissionInv, CreatesItsOwn
<1>4. LivesAreOrdered'
    BY DEF SubmissionInv, LivesAreOrdered
<1>5. CreatedIsHandled'
    BY DEF SubmissionInv, CreatedIsHandled, HoldsItsTask
<1> QED  BY <1>1, <1>2, <1>3, <1>4, <1>5 DEF SubmissionInv

\* A request that moves on without creating anything, to a task of its key if it is answered.
LEMMA RequestMovesOn ==
    ASSUME SubmissionInv, NEW c \in Callers, NEW new \in CallersOf, caller' = [caller EXCEPT ![c] = new],
           executing \subseteq executing', behind \subseteq behind', UNCHANGED <<tasks, life>>,
           new.created => caller[c].created /\ new.task = caller[c].task,
           new.at \in {"announcing", "thinking", "answered"} =>
               new.task \in DOMAIN tasks /\ tasks[new.task].key = new.key,
           new.at = "thinking" => new.key = "chat",
           new.at = "answered" /\ new.created /\ new.key # "chat" => Handled(new.task)'
    PROVE  SubmissionInv'
<1> USE DEF SubmissionInv
<1>1. SubmissionTypes'
    BY DEF SubmissionTypes
<1>2. KeysAreUnique'
    BY DEF KeysAreUnique
<1>3. HoldsItsTask'
    BY DEF HoldsItsTask, SubmissionTypes
<1>4. CreatesItsOwn'
    BY DEF CreatesItsOwn, SubmissionTypes
<1>5. LivesAreOrdered'
    BY DEF LivesAreOrdered
<1>6. CreatedIsHandled'
    BY DEF CreatedIsHandled, SubmissionTypes, Handled, Parked
<1>7. PausesHold'
    BY DEF PausesHold, PauseHolds, Settled
<1> QED  BY <1>1, <1>2, <1>3, <1>4, <1>5, <1>6, <1>7

LEMMA CallerChanges ==
    ASSUME NEW r \in CallersOf, NEW place \in Places
    PROVE  /\ [r EXCEPT !.at = place] \in CallersOf
           /\ \A t \in Nat, b \in BOOLEAN :
               LET s == [r EXCEPT !.at = place, !.task = t, !.created = b]
               IN  s \in CallersOf /\ s.at = place /\ s.key = r.key /\ s.task = t /\ s.created = b
BY DEF CallersOf

LEMMA EntryChanges ==
    ASSUME NEW S, NEW s \in Seq(S), NEW n \in DOMAIN s, NEW e \in S
    PROVE  /\ [s EXCEPT ![n] = e] \in Seq(S)
           /\ DOMAIN [s EXCEPT ![n] = e] = DOMAIN s
           /\ \A m \in DOMAIN s : [s EXCEPT ![n] = e][m] = IF m = n THEN e ELSE s[m]
OBVIOUS

\* What a step of a task makes of its row, its run and the runs behind it.
TaskSteps(t) ==
    \/ Pause(t) \/ Cancel(t) \/ ResumeChecked(t) \/ ResumeWritten(t)
    \/ Acquire(t) \/ MeetGate(t) \/ Park(t) \/ EndExecution(t)

BecomesOf(t, new) ==
    /\ (tasks' = tasks /\ new = tasks[t]) \/ tasks' = [tasks EXCEPT ![t] = new]
    /\ new.key = tasks[t].key /\ new.born = tasks[t].born
    /\ new.lease = "stale" => tasks[t].lease = "stale"
    /\ Settled(tasks[t]) \/ t \in executing => Settled(new) \/ t \in executing'
    /\ PauseHolds(new, t \in executing', t \in behind')
    /\ executing \ {t} \subseteq executing' /\ behind \ {t} \subseteq behind'

LEMMA TaskStep ==
    ASSUME SubmissionInv, NEW t \in DOMAIN tasks, TaskSteps(t)
    PROVE  \E new \in Tasks : BecomesOf(t, new)
<1>0. /\ tasks[t] \in Tasks /\ PauseHolds(tasks[t], t \in executing, t \in behind)
      /\ tasks[t].lease = "stale" => tasks[t].born < life
    BY DEF SubmissionInv, SubmissionTypes, PausesHold, LivesAreOrdered
<1>1. CASE Pause(t)
    <2> DEFINE new == [tasks[t] EXCEPT !.control = "pause"]
    <2>1. tasks' = [tasks EXCEPT ![t] = new] /\ UNCHANGED <<executing, behind>> /\ tasks[t].status \notin Final
        BY <1>1 DEF Pause, runVars
    <2>2. new \in Tasks
        BY <1>0 DEF Tasks
    <2>3. BecomesOf(t, new)
        BY <1>0, <2>1 DEF BecomesOf, PauseHolds, Settled, Tasks
    <2> QED  BY <2>2, <2>3
<1>2. CASE Cancel(t)
    <2> DEFINE new == [tasks[t] EXCEPT !.control = "cancel"]
    <2>1. /\ tasks' = [tasks EXCEPT ![t] = new] /\ t \in executing'
          /\ executing \subseteq executing' /\ behind \subseteq behind'
        BY <1>2 DEF Cancel, StartTask
    <2>2. new \in Tasks
        BY <1>0 DEF Tasks
    <2>3. BecomesOf(t, new)
        BY <1>0, <2>1 DEF BecomesOf, PauseHolds, Settled, Tasks
    <2> QED  BY <2>2, <2>3
<1>3. CASE ResumeChecked(t)
    BY <1>0, <1>3 DEF ResumeChecked, BecomesOf
<1>4. CASE ResumeWritten(t)
    <2> DEFINE new == [tasks[t] EXCEPT !.control = "run", !.status = "queued"]
    <2>1. /\ tasks' = [tasks EXCEPT ![t] = new] /\ t \in executing'
          /\ executing \subseteq executing' /\ behind \subseteq behind'
          /\ t \in executing => t \in behind'
        BY <1>4 DEF ResumeWritten, StartTask
    <2>2. new \in Tasks
        BY <1>0 DEF Tasks
    <2>3. BecomesOf(t, new)
        BY <1>0, <2>1 DEF BecomesOf, PauseHolds, Settled, Tasks
    <2> QED  BY <2>2, <2>3
<1>5. CASE Acquire(t)
    <2>1. CASE tasks[t].lease = "stale" /\ Leave(t) /\ UNCHANGED tasks
        <3>1. executing \ {t} \subseteq executing' /\ behind \ {t} \subseteq behind'
            BY <2>1 DEF Leave
        <3> QED  BY <1>0, <2>1, <3>1 DEF BecomesOf, PauseHolds, Settled, Tasks
    <2>2. CASE tasks' = [tasks EXCEPT ![t].lease = "mine"] /\ UNCHANGED <<executing, behind>>
        <3> DEFINE new == [tasks[t] EXCEPT !.lease = "mine"]
        <3>1. new \in Tasks /\ tasks' = [tasks EXCEPT ![t] = new]
            BY <1>0, <2>2 DEF Tasks
        <3>2. BecomesOf(t, new)
            BY <1>0, <2>2, <3>1 DEF BecomesOf, PauseHolds, Settled, Tasks
        <3> QED  BY <3>1, <3>2
    <2> QED  BY <1>5, <2>1, <2>2 DEF Acquire
<1>6. CASE MeetGate(t)
    <2>1. /\ t \in executing /\ tasks[t].lease = "mine" /\ tasks[t].pausing = "no" /\ ~tasks[t].over
          /\ UNCHANGED <<executing, behind>>
        BY <1>6 DEF MeetGate, runVars
    <2>2. CASE tasks[t].control = "pause" /\ tasks' = [tasks EXCEPT ![t].pausing = "read"]
        <3> DEFINE new == [tasks[t] EXCEPT !.pausing = "read"]
        <3>1. new \in Tasks /\ tasks' = [tasks EXCEPT ![t] = new]
            BY <1>0, <2>2 DEF Tasks
        <3>2. BecomesOf(t, new)
            BY <1>0, <2>1, <2>2, <3>1 DEF BecomesOf, PauseHolds, Settled, Tasks
        <3> QED  BY <3>1, <3>2
    <2>3. CASE tasks' = [tasks EXCEPT ![t].status = "running"]
        <3> DEFINE new == [tasks[t] EXCEPT !.status = "running"]
        <3>1. new \in Tasks /\ tasks' = [tasks EXCEPT ![t] = new]
            BY <1>0, <2>3 DEF Tasks
        <3>2. BecomesOf(t, new)
            BY <1>0, <2>1, <2>3, <3>1 DEF BecomesOf, PauseHolds, Settled, Tasks
        <3> QED  BY <3>1, <3>2
    <2> QED  BY <1>6, <2>2, <2>3 DEF MeetGate
<1>7. CASE Park(t)
    <2> DEFINE new == [tasks[t] EXCEPT !.pausing = "written", !.status = "waiting"]
    <2>1. tasks' = [tasks EXCEPT ![t] = new] /\ UNCHANGED <<executing, behind>> /\ tasks[t].pausing = "read"
        BY <1>7 DEF Park, runVars
    <2>2. new \in Tasks
        BY <1>0 DEF Tasks
    <2>3. BecomesOf(t, new)
        BY <1>0, <2>1 DEF BecomesOf, PauseHolds, Settled, Tasks
    <2> QED  BY <2>2, <2>3
<1>8. CASE EndExecution(t)
    <2>1. PICK status \in EndsOf(t) :
            tasks' = [tasks EXCEPT ![t].lease = "free", ![t].pausing = "no", ![t].status = status,
                                   ![t].over = @ \/ (tasks[t].pausing = "no" /\ status \in {"success", "cancelled"})]
        BY <1>8 DEF EndExecution
    <2> DEFINE ended == tasks[t].over \/ (tasks[t].pausing = "no" /\ status \in {"success", "cancelled"})
               new == [tasks[t] EXCEPT !.lease = "free", !.pausing = "no", !.status = status, !.over = ended]
    <2>2. tasks' = [tasks EXCEPT ![t] = new]
        BY <1>0, <2>1
    <2>3. status \in {"queued", "running", "waiting"} \cup Final /\ ended \in BOOLEAN
        BY <1>0 DEF EndsOf, Final, Tasks
    <2>4. new \in Tasks
        BY <1>0, <2>3 DEF Tasks
    <2>5. /\ t \in executing /\ tasks[t].pausing # "read"
          /\ executing \ {t} \subseteq executing' /\ behind \ {t} \subseteq behind'
          /\ t \in behind => t \in executing'
        BY <1>8 DEF EndExecution, Leave
    <2>6. Settled(new) \/ t \in executing'
        <3>1. CASE t \in behind
            BY <2>5, <3>1
        <3>2. CASE tasks[t].over
            BY <1>0, <3>2 DEF Settled, PauseHolds, EndsOf, Final, Tasks
        <3>3. CASE status \in Final
            BY <1>0, <3>3 DEF Settled, Tasks
        <3>4. CASE t \notin behind /\ tasks[t].pausing = "written" /\ status = tasks[t].status
            BY <1>0, <3>4 DEF Settled, PauseHolds, Tasks
        <3> QED  BY <3>1, <3>2, <3>3, <3>4 DEF EndsOf, Final
    <2>7. /\ new.pausing = "no" /\ new.lease = "free" /\ new.key = tasks[t].key /\ new.born = tasks[t].born
        BY <1>0 DEF Tasks
    <2>8. new.over => new.status \in Final \cup {"queued"}
        BY <1>0 DEF PauseHolds, EndsOf, Final, Tasks
    <2> HIDE DEF new
    <2> QED  BY <2>2, <2>4, <2>5, <2>6, <2>7, <2>8 DEF BecomesOf, PauseHolds
<1> QED  BY <1>1, <1>2, <1>3, <1>4, <1>5, <1>6, <1>7, <1>8 DEF TaskSteps

LEMMA SubmissionStep ==
    ASSUME SubmissionInv, [SubmissionNext]_submissionVars
    PROVE  SubmissionInv'
<1>1. ASSUME NEW c \in Callers, NEW k \in KeysOf[c], Look(c, k)
      PROVE  SubmissionInv'
    <2>1. PICK new \in CallersOf :
            /\ caller' = [caller EXCEPT ![c] = new]
            /\ ~new.created /\ new.key = k
            /\ new.at = "inserting" \/ (new.at = "answered" /\ new.task \in TaskOf(k))
        <3>1. \A place \in Places, t \in Nat : Asking(place, k, t) \in CallersOf
            BY DEF Asking, CallersOf, AllKeys
        <3>2. TaskOf(k) \subseteq Nat /\ 0 \in Nat /\ {"inserting", "answered"} \subseteq Places
            BY DEF TaskOf, SubmissionInv, SubmissionTypes, Places
        <3> QED  BY <1>1, <3>1, <3>2 DEF Look, Asking
    <2> QED  BY <1>1, <2>1, RequestMovesOn DEF Look, runVars, TaskOf
<1>2. ASSUME NEW c \in Callers, Insert(c)
      PROVE  SubmissionInv'
    <2>1. CASE caller[c].key \notin Unkeyed /\ TaskOf(caller[c].key) # {}
        <3>1. /\ caller' = [caller EXCEPT ![c] = [caller[c] EXCEPT !.at = "refused"]]
              /\ [caller[c] EXCEPT !.at = "refused"] \in CallersOf
            BY <1>2, <2>1 DEF Insert, Goes, SubmissionInv, SubmissionTypes, CallersOf, Places
        <3> QED  BY <1>2, <2>1, <3>1, RequestMovesOn DEF Insert, runVars, SubmissionInv, SubmissionTypes, CallersOf
    <2>2. CASE ~(caller[c].key \notin Unkeyed /\ TaskOf(caller[c].key) # {})
        <3> DEFINE n == Len(tasks) + 1
                   task == NewTask(caller[c].key)
                   new == [caller[c] EXCEPT !.at = "announcing", !.task = n, !.created = TRUE]
        <3>0. tasks' = Append(tasks, task)
            BY <1>2, <2>2 DEF Insert
        <3>1. /\ tasks' = Append(tasks, task) /\ Len(tasks') = n
              /\ caller' = [caller EXCEPT ![c] = new]
              /\ UNCHANGED <<runVars, life>>
            <4>1. Len(tasks') = n
                BY <3>0 DEF SubmissionInv, SubmissionTypes
            <4> QED  BY <1>2, <2>2, <3>0, <4>1 DEF Insert, Told, SubmissionInv, SubmissionTypes
        <3>2. /\ task \in Tasks
              /\ new \in CallersOf /\ new.at = "announcing" /\ new.task = n /\ new.created /\ new.key = caller[c].key
            <4>1. caller[c] \in CallersOf /\ n \in Nat /\ life \in Nat /\ "announcing" \in Places
                BY DEF SubmissionInv, SubmissionTypes, Places
            <4>2. task \in Tasks
                BY <4>1 DEF Tasks, CallersOf, NewTask
            <4> QED  BY <4>1, <4>2, CallerChanges DEF CallersOf
        <3>3. /\ tasks' \in Seq(Tasks) /\ DOMAIN tasks' = DOMAIN tasks \cup {n} /\ n \notin DOMAIN tasks
              /\ tasks'[n] = task /\ \A t \in DOMAIN tasks : tasks'[t] = tasks[t]
            BY <3>1, <3>2 DEF SubmissionInv, SubmissionTypes
        <3>4. caller'[c] = new /\ \A d \in Callers \ {c} : caller'[d] = caller[d]
            BY <3>1 DEF SubmissionInv, SubmissionTypes
        <3> HIDE DEF n, task, new
        <3>5. SubmissionTypes'
            BY <3>1, <3>2, <3>3 DEF SubmissionInv, SubmissionTypes, n
        <3>6. KeysAreUnique'
            BY <2>2, <3>3 DEF SubmissionInv, KeysAreUnique, TaskOf, task, NewTask
        <3>7. HoldsItsTask'
            BY <3>2, <3>3, <3>4 DEF SubmissionInv, HoldsItsTask, CallersOf, task, NewTask
        <3>8. CreatesItsOwn'
            BY <3>2, <3>3, <3>4 DEF SubmissionInv, HoldsItsTask, CreatesItsOwn, CallersOf
        <3>9. LivesAreOrdered'
            BY <3>1, <3>3 DEF SubmissionInv, SubmissionTypes, LivesAreOrdered, task, NewTask
        <3>10. CreatedIsHandled'
            BY <3>1, <3>2, <3>3, <3>4 DEF SubmissionInv, HoldsItsTask, CreatedIsHandled, Handled, Parked, CallersOf, runVars
        <3>11. PausesHold'
            BY <3>1, <3>3 DEF SubmissionInv, PausesHold, PauseHolds, Settled, task, NewTask, runVars
        <3> QED  BY <3>5, <3>6, <3>7, <3>8, <3>9, <3>10, <3>11 DEF SubmissionInv
    <2> QED  BY <2>1, <2>2
<1>3. ASSUME NEW c \in Callers, LookAgain(c)
      PROVE  SubmissionInv'
    <2>1. PICK t \in TaskOf(caller[c].key) :
            caller' = [caller EXCEPT ![c] = [caller[c] EXCEPT !.at = "answered", !.task = t, !.created = FALSE]]
        BY <1>3 DEF LookAgain, Told, SubmissionInv, SubmissionTypes
    <2>2. [caller[c] EXCEPT !.at = "answered", !.task = t, !.created = FALSE] \in CallersOf
        <3>1. t \in Nat /\ caller[c] \in CallersOf /\ "answered" \in Places
            BY DEF SubmissionInv, SubmissionTypes, Places, TaskOf
        <3> QED  BY <3>1, CallerChanges
    <2> QED  BY <1>3, <2>1, <2>2, RequestMovesOn DEF LookAgain, runVars, TaskOf, CallersOf
<1>4. ASSUME NEW c \in Callers, Announced(c) \/ PublishRaises(c)
      PROVE  SubmissionInv'
    <2>1. PICK place \in {"thinking", "answered", "raised"} :
            /\ caller' = [caller EXCEPT ![c] = [caller[c] EXCEPT !.at = place]]
            /\ place = "thinking" => caller[c].key = "chat"
            /\ place = "answered" => executing' = executing \cup {caller[c].task}
        BY <1>4 DEF Announced, PublishRaises, StartTask, Goes, SubmissionInv, SubmissionTypes
    <2>2. [caller[c] EXCEPT !.at = place] \in CallersOf
        BY DEF SubmissionInv, SubmissionTypes, CallersOf, Places
    <2>3. /\ caller[c].at = "announcing" /\ UNCHANGED <<tasks, life>>
          /\ executing \subseteq executing' /\ behind \subseteq behind'
        BY <1>4 DEF Announced, PublishRaises, StartTask, runVars
    <2>4. caller[c].task \in DOMAIN tasks /\ tasks[caller[c].task].key = caller[c].key
        BY <2>3 DEF SubmissionInv, HoldsItsTask
    <2>5. place = "answered" => Handled(caller[c].task)'
        BY <2>1, <2>3 DEF Handled
    <2> QED  BY <2>1, <2>2, <2>3, <2>4, <2>5, RequestMovesOn DEF CallersOf, SubmissionInv, SubmissionTypes
<1>5. ASSUME NEW c \in Callers, ChatAnswered(c)
      PROVE  SubmissionInv'
    <2>1. /\ caller' = [caller EXCEPT ![c] = [caller[c] EXCEPT !.at = "answered"]]
          /\ [caller[c] EXCEPT !.at = "answered"] \in CallersOf
          /\ caller[c].at = "thinking" /\ UNCHANGED <<runVars, life>>
        BY <1>5, CallerChanges DEF ChatAnswered, Goes, SubmissionInv, SubmissionTypes, Places
    <2>2. caller[c].task \in DOMAIN tasks /\ caller[c].key = "chat" /\ tasks[caller[c].task].key = "chat"
        BY <2>1 DEF SubmissionInv, HoldsItsTask
    <2>3. /\ tasks' \in Seq(Tasks) /\ DOMAIN tasks' = DOMAIN tasks
          /\ \A t \in DOMAIN tasks :
                \/ tasks'[t] = tasks[t]
                \/ tasks'[t] = [tasks[t] EXCEPT !.status = "success"]
        <3> DEFINE new == [tasks[caller[c].task] EXCEPT !.status = "success"]
        <3>1. tasks \in Seq(Tasks) /\ tasks[caller[c].task] \in Tasks /\ "success" \in Final
            BY <2>2 DEF SubmissionInv, SubmissionTypes, Final
        <3>2. CASE UNCHANGED tasks
            BY <3>1, <3>2
        <3>3. CASE tasks' = [tasks EXCEPT ![caller[c].task] = new]
            <4>1. new \in Tasks
                BY <3>1 DEF Tasks
            <4> HIDE DEF new
            <4>2. /\ tasks' \in Seq(Tasks) /\ DOMAIN tasks' = DOMAIN tasks
                  /\ \A t \in DOMAIN tasks : tasks'[t] = IF t = caller[c].task THEN new ELSE tasks[t]
                BY <2>2, <3>1, <3>3, <4>1, EntryChanges
            <4> QED  BY <4>2 DEF new
        <3> QED  BY <1>5, <3>2, <3>3 DEF ChatAnswered
    <2>4. \A d \in Callers : /\ caller'[d].created = caller[d].created /\ caller'[d].task = caller[d].task
                             /\ caller'[d].key = caller[d].key
                             /\ caller'[d].at = IF d = c THEN "answered" ELSE caller[d].at
        BY <2>1 DEF SubmissionInv, SubmissionTypes, CallersOf
    <2>9. \A t \in DOMAIN tasks :
            /\ tasks'[t].key = tasks[t].key /\ tasks'[t].born = tasks[t].born /\ tasks'[t].lease = tasks[t].lease
            /\ tasks'[t].control = tasks[t].control /\ tasks'[t].pausing = tasks[t].pausing /\ tasks'[t].over = tasks[t].over
            /\ tasks'[t].status = tasks[t].status \/ tasks'[t].status = "success"
        <3>1. \A t \in DOMAIN tasks : tasks[t] \in Tasks
            BY DEF SubmissionInv, SubmissionTypes
        <3> QED  BY <2>3, <3>1 DEF Tasks
    <2>5. SubmissionTypes'
        BY <2>1, <2>3 DEF SubmissionInv, SubmissionTypes
    <2>6. KeysAreUnique' /\ LivesAreOrdered'
        BY <2>1, <2>3, <2>9 DEF SubmissionInv, KeysAreUnique, LivesAreOrdered
    <2>7. HoldsItsTask' /\ CreatesItsOwn'
        BY <2>2, <2>3, <2>4, <2>9 DEF SubmissionInv, HoldsItsTask, CreatesItsOwn
    <2>8. CreatedIsHandled'
        BY <2>1, <2>2, <2>3, <2>4, <2>9 DEF SubmissionInv, CreatedIsHandled, HoldsItsTask, Handled, Parked, Final, runVars
    <2>10. PausesHold'
        BY <2>1, <2>3, <2>9 DEF SubmissionInv, PausesHold, PauseHolds, Settled, Final, runVars
    <2> QED  BY <2>5, <2>6, <2>7, <2>8, <2>10 DEF SubmissionInv
<1>6. ASSUME NEW t \in DOMAIN tasks, TaskSteps(t)
      PROVE  SubmissionInv'
    <2>1. tasks \in Seq(Tasks) /\ UNCHANGED <<caller, life>>
        BY <1>6 DEF TaskSteps, Pause, Cancel, ResumeChecked, ResumeWritten, Acquire, MeetGate, Park, EndExecution,
                    SubmissionInv, SubmissionTypes
    <2>2. PICK new \in Tasks : BecomesOf(t, new)
        BY <1>6, TaskStep
    <2>3. /\ tasks' \in Seq(Tasks) /\ DOMAIN tasks' = DOMAIN tasks
          /\ \A u \in DOMAIN tasks : tasks'[u] = IF u = t THEN new ELSE tasks[u]
        BY <2>1, <2>2, EntryChanges DEF BecomesOf
    <2>4. SubmissionTypes'
        BY <2>1, <2>3 DEF SubmissionInv, SubmissionTypes
    <2>5. ASSUME NEW u \in DOMAIN tasks
          PROVE  /\ Handled(u) => Handled(u)'
                 /\ PauseHolds(tasks[u], u \in executing, u \in behind)'
        <3>1. CASE u = t
            BY <2>1, <2>2, <2>3, <3>1 DEF BecomesOf, Handled, Parked, Settled, PauseHolds
        <3>2. CASE u # t
            <4>1. PauseHolds(tasks[u], u \in executing, u \in behind)
                BY DEF SubmissionInv, PausesHold
            <4>2. u \in executing => u \in executing'
                BY <2>2, <3>2 DEF BecomesOf
            <4>3. u \in behind => u \in behind'
                BY <2>2, <3>2 DEF BecomesOf
            <4> QED  BY <2>1, <2>3, <3>2, <4>1, <4>2, <4>3 DEF Handled, Parked, Settled, PauseHolds
        <3> QED  BY <3>1, <3>2
    <2>6. PausesHold'
        BY <2>3, <2>5 DEF PausesHold
    <2>7. \A u \in DOMAIN tasks :
            /\ tasks'[u].key = tasks[u].key /\ tasks'[u].born = tasks[u].born
            /\ tasks'[u].lease = "stale" => tasks[u].lease = "stale"
        BY <2>2, <2>3 DEF BecomesOf
    <2>8. UNCHANGED caller /\ UNCHANGED life
        BY <2>1
    <2>9. TasksStay
        BY <2>3, <2>5, <2>7 DEF TasksStay
    <2> QED  BY <2>4, <2>6, <2>8, <2>9, TasksMoveOn
<1>7. CASE Restart
    <2>1. /\ DOMAIN tasks' = DOMAIN tasks /\ tasks' \in Seq(Tasks) /\ life' = life + 1 /\ life \in Nat
          /\ \A t \in DOMAIN tasks :
                /\ tasks'[t].key = tasks[t].key /\ tasks'[t].born = tasks[t].born /\ tasks'[t].pausing = "no"
                /\ tasks'[t].over = tasks[t].over /\ tasks'[t].status = tasks[t].status
        <3>1. tasks \in Seq(Tasks) /\ life \in Nat
            BY DEF SubmissionInv, SubmissionTypes
        <3>2. PICK lapsed \in SUBSET DOMAIN tasks :
                tasks' = [t \in DOMAIN tasks |->
                            [tasks[t] EXCEPT !.lease = IF @ = "free" \/ t \in lapsed THEN "free" ELSE "stale",
                                             !.pausing = "no"]]
            BY <1>7 DEF Restart
        <3>3. \A t \in DOMAIN tasks :
                /\ tasks'[t] \in Tasks
                /\ tasks'[t].key = tasks[t].key /\ tasks'[t].born = tasks[t].born /\ tasks'[t].pausing = "no"
                /\ tasks'[t].over = tasks[t].over /\ tasks'[t].status = tasks[t].status
            <4> TAKE t \in DOMAIN tasks
            <4> DEFINE left == IF tasks[t].lease = "free" \/ t \in lapsed THEN "free" ELSE "stale"
                       new == [tasks[t] EXCEPT !.lease = left, !.pausing = "no"]
            <4>1. tasks[t] \in Tasks /\ left \in {"free", "mine", "stale"}
                BY <3>1
            <4>2. tasks'[t] = new
                BY <3>2
            <4> HIDE DEF left
            <4>3. /\ new \in Tasks /\ new.key = tasks[t].key /\ new.born = tasks[t].born /\ new.pausing = "no"
                  /\ new.over = tasks[t].over /\ new.status = tasks[t].status
                BY <4>1 DEF Tasks
            <4> HIDE DEF new
            <4> QED  BY <4>2, <4>3
        <3>4. life' = life + 1
            BY <1>7 DEF Restart
        <3>5. DOMAIN tasks' = DOMAIN tasks /\ tasks' \in Seq(Tasks)
            <4>1. DOMAIN tasks = 1..Len(tasks) /\ Len(tasks) \in Nat
                BY <3>1
            <4>2. tasks' \in [1..Len(tasks) -> Tasks]
                BY <3>2, <3>3, <4>1
            <4> QED  BY <4>1, <4>2
        <3> QED  BY <3>1, <3>3, <3>4, <3>5
    <2>2. /\ caller' \in [Callers -> CallersOf]
          /\ \A c \in Callers : /\ caller'[c].created = caller[c].created /\ caller'[c].task = caller[c].task
                                /\ caller'[c].key = caller[c].key
                                /\ caller'[c].at = caller[c].at \/ caller'[c].at = "raised"
        <3>1. ASSUME NEW c \in Callers
              PROVE  [caller[c] EXCEPT !.at = "raised"] \in CallersOf
            BY CallerChanges DEF SubmissionInv, SubmissionTypes, Places
        <3> QED  BY <1>7, <3>1 DEF Restart, SubmissionInv, SubmissionTypes, CallersOf
    <2>3. \A t \in DOMAIN tasks : tasks[t].born <= life /\ tasks[t].born \in Nat
        <3>1. \A t \in DOMAIN tasks : tasks[t] \in Tasks
            BY DEF SubmissionInv, SubmissionTypes
        <3> QED  BY <3>1 DEF SubmissionInv, LivesAreOrdered, Tasks
    <2>4. SubmissionTypes' /\ KeysAreUnique' /\ LivesAreOrdered'
        BY <2>1, <2>2, <2>3 DEF SubmissionInv, SubmissionTypes, KeysAreUnique, LivesAreOrdered
    <2>5. HoldsItsTask' /\ CreatesItsOwn'
        BY <2>1, <2>2 DEF SubmissionInv, HoldsItsTask, CreatesItsOwn
    <2>6. CreatedIsHandled'
        BY <2>1, <2>2, <2>3 DEF SubmissionInv, CreatedIsHandled, HoldsItsTask, Handled
    <2>7. PausesHold'
        BY <2>1 DEF SubmissionInv, PausesHold, PauseHolds
    <2> QED  BY <2>4, <2>5, <2>6, <2>7 DEF SubmissionInv
<1>8. CASE UNCHANGED submissionVars
    BY <1>8 DEF submissionVars, runVars, SubmissionInv, SubmissionTypes, KeysAreUnique, HoldsItsTask, CreatesItsOwn,
                LivesAreOrdered, PausesHold, PauseHolds, Settled, CreatedIsHandled, Handled, Parked
<1> QED  BY <1>1, <1>2, <1>3, <1>4, <1>5, <1>6, <1>7, <1>8 DEF SubmissionNext, TaskSteps

\* Requests of one key are told one task, one of them, and only one, that it is new; and what
\* a client submitted is, once its creator was answered, worked on, ended or paused, however
\* pauses, resumes and cancellations overlap with the runs: for any requests, keys, tasks that
\* are paused, and lives of the process.
THEOREM EachKeyHasOneTask == SubmissionSpec => []OneTaskPerKey
<1>1. SubmissionInit => SubmissionInv
    BY DEF SubmissionInit, SubmissionInv, SubmissionTypes, KeysAreUnique, HoldsItsTask, CreatesItsOwn, LivesAreOrdered,
           PausesHold, CreatedIsHandled, CallersOf, Waiting, Asking, Places
<1>2. SubmissionInv /\ [SubmissionNext]_submissionVars => SubmissionInv'
    BY SubmissionStep
<1>3. SubmissionInv => OneTaskPerKey
    BY DEF SubmissionInv, KeysAreUnique, HoldsItsTask, CreatesItsOwn, CreatedIsHandled, OneTaskPerKey
<1> QED  BY <1>1, <1>2, <1>3, PTL DEF SubmissionSpec

-----------------------------------------------------------------------------
(***************************************************************************)
(* Oversight.  The gate, for any risk and confidence; and the firings of   *)
(* triggers, counted over the evaluations that were made while they were   *)
(* there.                                                                  *)
(***************************************************************************)
LEMMA Laxities ==
    /\ Laxity("BLOCK") = 1 /\ Laxity("REQUIRE_HUMAN_APPROVAL") = 2
    /\ Laxity("REQUIRE_ADDITIONAL_EVIDENCE") = 3 /\ Laxity("ALLOW_AUTONOMOUS") = 4
<1>1. ASSUME NEW n \in 1..4
      PROVE  Laxity(Gates[n]) = n
    <2>1. \A m \in DOMAIN Gates : Gates[m] = Gates[n] => m = n
        BY DEF Gates
    <2>2. n \in DOMAIN Gates
        BY DEF Gates
    <2> QED  BY <2>1, <2>2 DEF Laxity
<1>2. /\ Gates[1] = "BLOCK" /\ Gates[2] = "REQUIRE_HUMAN_APPROVAL"
      /\ Gates[3] = "REQUIRE_ADDITIONAL_EVIDENCE" /\ Gates[4] = "ALLOW_AUTONOMOUS"
    BY DEF Gates
<1>3. 1 \in 1..4 /\ 2 \in 1..4 /\ 3 \in 1..4 /\ 4 \in 1..4
    OBVIOUS
<1> QED  BY <1>1, <1>2, <1>3

\* More confidence, more evidence or less risk never meets a stricter gate, whatever the risk
\* and the confidence: a run looks at a few around the thresholds.
THEOREM GateNeverTightens ==
    ASSUME NEW risk1 \in Nat, NEW risk2 \in Nat, risk2 <= risk1,
           NEW confidence1 \in Nat, NEW confidence2 \in Nat, confidence1 <= confidence2,
           NEW evidence1 \in BOOLEAN, NEW evidence2 \in BOOLEAN, evidence1 => evidence2
    PROVE  Laxity(Gate(risk1, confidence1, evidence1)) <= Laxity(Gate(risk2, confidence2, evidence2))
<1>1. CASE risk1 < 2
    BY <1>1, Laxities DEF Gate
<1>2. CASE risk1 >= 2 /\ risk2 < 2
    BY <1>2, Laxities DEF Gate
<1>3. CASE risk1 >= 2 /\ risk2 >= 2
    BY <1>3, Laxities DEF Gate
<1> QED  BY <1>1, <1>2, <1>3

LEMMA GateMonotone == GateIsMonotone
<1> DEFINE Cases == (0..4) \X {0, 49, 50, 59, 60, 84, 85, 100} \X BOOLEAN
<1>1. ASSUME NEW x \in Cases, NEW y \in Cases, x[1] >= y[1], x[2] <= y[2], x[3] => y[3]
      PROVE  Laxity(Gate(x[1], x[2], x[3])) <= Laxity(Gate(y[1], y[2], y[3]))
    <2>1. /\ x[1] \in Nat /\ x[2] \in Nat /\ x[3] \in BOOLEAN
          /\ y[1] \in Nat /\ y[2] \in Nat /\ y[3] \in BOOLEAN
        OBVIOUS
    <2> QED  BY <1>1, <2>1, GateNeverTightens
<1> QED  BY <1>1 DEF GateIsMonotone

\* A reading counts the triggers that were there; the kept insights are those of the last.
OversightTypes ==
    /\ triggers \in Seq([condition : Custom \cup {BuiltinTriggers[n].condition : n \in 1..5},
                         critical : BOOLEAN, enabled : BOOLEAN, firings : Nat])
    /\ readings \in Seq([metrics : {Metrics(o) : o \in Overrides}, met : Nat])
    /\ \A k \in DOMAIN readings : readings[k].met <= Len(triggers)

Firings(n) == {k \in DOMAIN readings : n <= readings[k].met /\ Fires(triggers[n], readings[k].metrics)}

\* What FiringsAreCounted says, with the firings of a trigger as one set.
FiringsCounted ==
    /\ \A n \in DOMAIN triggers : triggers[n].firings = Cardinality(Firings(n))
    /\ alerts \subseteq insights
    /\ readings # <<>> =>
        insights = {n \in 1..Last(readings).met : Fires(triggers[n], Last(readings).metrics)}

OversightInv ==
    /\ OversightTypes
    /\ \A n \in DOMAIN triggers : IsFiniteSet(Firings(n))
    /\ FiringsCounted

LEMMA OversightStarts == OversightInit => OversightInv
<1> SUFFICES ASSUME OversightInit PROVE OversightInv
    OBVIOUS
<1>1. triggers = BuiltinTriggers /\ Len(triggers) = 5 /\ readings = <<>> /\ insights = {} /\ alerts = {}
    BY DEF OversightInit, BuiltinTriggers
<1>2. ASSUME NEW n \in 1..5
      PROVE  /\ BuiltinTriggers[n] \in [condition : {BuiltinTriggers[n].condition}, critical : BOOLEAN, enabled : BOOLEAN, firings : Nat]
             /\ BuiltinTriggers[n].firings = 0
    <2>1. \A condition, critical : Trigger(condition, critical, TRUE) =
              [condition |-> condition, critical |-> critical, enabled |-> TRUE, firings |-> 0]
        BY DEF Trigger
    <2>2. \E condition : \E critical \in BOOLEAN :
              BuiltinTriggers[n] = [condition |-> condition, critical |-> critical, enabled |-> TRUE, firings |-> 0]
        <3>1. n = 1 \/ n = 2 \/ n = 3 \/ n = 4 \/ n = 5
            OBVIOUS
        <3>2. /\ \E condition : BuiltinTriggers[1] = Trigger(condition, TRUE, TRUE)
              /\ \E condition : BuiltinTriggers[2] = Trigger(condition, FALSE, TRUE)
              /\ \E condition : BuiltinTriggers[3] = Trigger(condition, FALSE, TRUE)
              /\ \E condition : BuiltinTriggers[4] = Trigger(condition, TRUE, TRUE)
              /\ \E condition : BuiltinTriggers[5] = Trigger(condition, FALSE, TRUE)
            BY DEF BuiltinTriggers
        <3> QED  BY <2>1, <3>1, <3>2
    <2> QED  BY <2>2
<1>3. OversightTypes
    <2>1. BuiltinTriggers = [n \in 1..5 |-> BuiltinTriggers[n]]
        BY DEF BuiltinTriggers
    <2>2. BuiltinTriggers \in Seq([condition : Custom \cup {BuiltinTriggers[n].condition : n \in 1..5},
                                   critical : BOOLEAN, enabled : BOOLEAN, firings : Nat])
        BY <1>2, <2>1
    <2> QED  BY <1>1, <2>2 DEF OversightTypes
<1>4. \A n \in DOMAIN triggers : Firings(n) = {}
    BY <1>1 DEF Firings
<1>5. FiringsCounted
    BY <1>1, <1>2, <1>4, FS_EmptySet DEF FiringsCounted, Firings, OversightTypes
<1> QED  BY <1>3, <1>4, <1>5, FS_EmptySet DEF OversightInv

LEMMA OversightStep ==
    ASSUME OversightInv, [OversightNext]_oversightVars
    PROVE  OversightInv'
<1> DEFINE TriggersOf == [condition : Custom \cup {BuiltinTriggers[n].condition : n \in 1..5},
                          critical : BOOLEAN, enabled : BOOLEAN, firings : Nat]
           ReadingsOf == [metrics : {Metrics(o) : o \in Overrides}, met : Nat]
<1>1. ASSUME NEW condition \in Custom, NEW critical \in BOOLEAN, NEW enabled \in BOOLEAN, CreateTrigger(condition, critical, enabled)
      PROVE  OversightInv'
    <2> PICK made : made = Trigger(condition, critical, enabled)
        OBVIOUS
    <2>1. /\ made \in TriggersOf /\ made.firings = 0
          /\ triggers \in Seq(TriggersOf) /\ readings' = readings /\ insights' = insights /\ alerts' = alerts
          /\ triggers' = Append(triggers, made)
        BY <1>1 DEF CreateTrigger, Trigger, OversightInv, OversightTypes
    <2>2. /\ triggers' \in Seq(TriggersOf) /\ Len(triggers') = Len(triggers) + 1 /\ Len(triggers) \in Nat
          /\ DOMAIN triggers' = DOMAIN triggers \cup {Len(triggers')} /\ Len(triggers') \notin DOMAIN triggers
          /\ \A n \in DOMAIN triggers : triggers'[n] = triggers[n]
          /\ triggers'[Len(triggers')] = made
        BY <2>1
    <2>3. \A k \in DOMAIN readings : readings[k].met \in Nat /\ readings[k].met <= Len(triggers)
        <3>1. readings \in Seq(ReadingsOf)
            BY DEF OversightInv, OversightTypes
        <3>2. \A k \in DOMAIN readings : readings[k] \in ReadingsOf
            <4> HIDE DEF ReadingsOf
            <4> QED  BY <3>1
        <3> QED  BY <3>2 DEF OversightInv, OversightTypes
    <2> PICK new : new = Len(triggers')
        OBVIOUS
    <2>4. OversightTypes'
        BY <2>1, <2>2, <2>3 DEF OversightInv, OversightTypes
    <2>5. \A n \in DOMAIN triggers : Firings(n)' = Firings(n)
        BY <2>1, <2>2 DEF Firings
    <2>6. Firings(new)' = {}
        BY <2>1, <2>2, <2>3 DEF Firings
    <2>7. \A n \in DOMAIN triggers' : IsFiniteSet(Firings(n)') /\ triggers'[n].firings = Cardinality(Firings(n)')
        <3>1. \A n \in DOMAIN triggers : IsFiniteSet(Firings(n)) /\ triggers[n].firings = Cardinality(Firings(n))
            BY DEF OversightInv, FiringsCounted, Firings
        <3>2. DOMAIN triggers' = DOMAIN triggers \cup {new} /\ triggers'[new].firings = 0
            BY <2>1, <2>2
        <3> QED  BY <2>2, <2>5, <2>6, <3>1, <3>2, FS_EmptySet
    <2>8. readings # <<>> => \A n \in 1..Last(readings).met : triggers'[n] = triggers[n]
        <3>1. readings # <<>> => Last(readings).met \in Nat /\ Last(readings).met <= Len(triggers)
            BY <2>3 DEF Last, OversightInv, OversightTypes
        <3>2. readings # <<>> => \A n \in 1..Last(readings).met : n \in DOMAIN triggers
            BY <2>1, <3>1
        <3> QED  BY <3>2, <2>2
    <2> QED  BY <2>1, <2>4, <2>7, <2>8 DEF OversightInv, FiringsCounted, Firings
<1>2. ASSUME NEW override \in Overrides, Evaluate(override)
      PROVE  OversightInv'
    <2> DEFINE metrics == Metrics(override)
               fired   == {n \in DOMAIN triggers : Fires(triggers[n], metrics)}
               reading == [metrics |-> metrics, met |-> Len(triggers)]
               k       == Len(readings) + 1
    <2>1. /\ triggers' = [n \in DOMAIN triggers |->
                            [triggers[n] EXCEPT !.firings = IF n \in fired THEN @ + 1 ELSE @]]
          /\ insights' = fired /\ alerts' = {n \in fired : triggers[n].critical}
          /\ readings' = Append(readings, reading)
          /\ triggers \in Seq(TriggersOf) /\ readings \in Seq(ReadingsOf)
        BY <1>2 DEF Evaluate, OversightInv, OversightTypes
    <2>2. reading \in ReadingsOf /\ reading.metrics = metrics /\ reading.met = Len(triggers)
        BY <2>1
    <2>3. /\ readings' \in Seq(ReadingsOf) /\ Len(readings') = k /\ k \in Nat
          /\ DOMAIN readings' = DOMAIN readings \cup {k} /\ k \notin DOMAIN readings
          /\ \A j \in DOMAIN readings : readings'[j] = readings[j]
          /\ readings'[k] = reading
        <3> HIDE DEF reading
        <3> QED  BY <2>1, <2>2
    <2>4. /\ triggers' \in Seq(TriggersOf) /\ DOMAIN triggers' = DOMAIN triggers /\ Len(triggers') = Len(triggers)
          /\ \A n \in DOMAIN triggers :
                /\ triggers'[n].condition = triggers[n].condition /\ triggers'[n].enabled = triggers[n].enabled
                /\ triggers'[n].firings = IF n \in fired THEN triggers[n].firings + 1 ELSE triggers[n].firings
        <3> HIDE DEF fired
        <3>1. ASSUME NEW n \in DOMAIN triggers
              PROVE  /\ triggers'[n] \in TriggersOf /\ triggers'[n].condition = triggers[n].condition
                     /\ triggers'[n].enabled = triggers[n].enabled
                     /\ triggers'[n].firings = IF n \in fired THEN triggers[n].firings + 1 ELSE triggers[n].firings
            <4> DEFINE count == IF n \in fired THEN triggers[n].firings + 1 ELSE triggers[n].firings
            <4>1. triggers[n] \in TriggersOf
                <5> HIDE DEF TriggersOf
                <5> QED  BY <2>1
            <4>2. count \in Nat
                BY <4>1
            <4>3. triggers'[n] = [triggers[n] EXCEPT !.firings = count]
                BY <2>1
            <4> HIDE DEF count
            <4>4. /\ triggers'[n] \in TriggersOf /\ triggers'[n].condition = triggers[n].condition
                  /\ triggers'[n].enabled = triggers[n].enabled /\ triggers'[n].firings = count
                BY <4>1, <4>2, <4>3
            <4> QED  BY <4>4 DEF count
        <3>2. triggers' = [n \in DOMAIN triggers |-> triggers'[n]]
            BY <2>1
        <3>3. DOMAIN triggers = 1..Len(triggers) /\ Len(triggers) \in Nat
            <4> HIDE DEF TriggersOf
            <4> QED  BY <2>1
        <3>4. triggers' \in [1..Len(triggers) -> TriggersOf]
            <4> HIDE DEF TriggersOf
            <4> QED  BY <3>1, <3>2, <3>3
        <3>5. triggers' \in Seq(TriggersOf) /\ Len(triggers') = Len(triggers)
            <4> HIDE DEF TriggersOf
            <4> QED  BY <3>3, <3>4
        <3> QED  BY <3>1, <3>3, <3>4, <3>5
    <2>5. \A n \in DOMAIN triggers : \A m : Fires(triggers'[n], m) <=> Fires(triggers[n], m)
        BY <2>4 DEF Fires
    <2>6. OversightTypes'
        BY <2>1, <2>2, <2>3, <2>4 DEF OversightInv, OversightTypes
    <2>7. ASSUME NEW n \in DOMAIN triggers
          PROVE  IsFiniteSet(Firings(n)') /\ triggers'[n].firings = Cardinality(Firings(n)')
        <3>1. IsFiniteSet(Firings(n)) /\ triggers[n].firings = Cardinality(Firings(n))
            BY DEF OversightInv, FiringsCounted, Firings
        <3>2. Firings(n)' = IF n \in fired THEN Firings(n) \cup {k} ELSE Firings(n)
            <4>1. n <= Len(triggers)
                BY <2>1
            <4>2. ASSUME NEW j \in DOMAIN readings'
                  PROVE  j \in Firings(n)' <=> (j \in Firings(n) \/ (j = k /\ n \in fired))
                BY <2>2, <2>3, <2>5, <4>1 DEF Firings
            <4> QED  BY <2>3, <4>2 DEF Firings
        <3>3. k \notin Firings(n)
            BY <2>3 DEF Firings
        <3>4. CASE n \in fired
            BY <2>4, <3>1, <3>2, <3>3, <3>4, FS_AddElement
        <3>5. CASE n \notin fired
            BY <2>4, <3>1, <3>2, <3>5
        <3> QED  BY <3>4, <3>5
    <2>8. Last(readings') = reading
        BY <2>3 DEF Last
    <2>9. insights' = {n \in 1..Last(readings').met : Fires(triggers'[n], Last(readings').metrics)}
        <3>1. DOMAIN triggers = 1..Len(triggers)
            BY <2>1
        <3> HIDE DEF metrics, reading
        <3> QED  BY <2>1, <2>2, <2>5, <2>8, <3>1
    <2> QED  BY <2>1, <2>4, <2>6, <2>7, <2>9 DEF OversightInv, FiringsCounted, Firings
<1>3. CASE CreateGoal \/ UNCHANGED oversightVars
    BY <1>3 DEF CreateGoal, oversightVars, OversightInv, OversightTypes, FiringsCounted, Firings
<1> QED  BY <1>1, <1>2, <1>3 DEF OversightNext

LEMMA FiringsAreBacked ==
    ASSUME OversightInv
    PROVE  FiringsAreCounted
<1>1. ASSUME NEW n \in DOMAIN triggers
      PROVE  triggers[n].firings = IF triggers[n].enabled THEN Cardinality(Meetings(n)) ELSE 0
    <2>1. triggers[n].enabled => Firings(n) = Meetings(n)
        BY DEF Firings, Meetings, Fires
    <2>2. ~triggers[n].enabled => Firings(n) = {}
        BY DEF Firings, Fires
    <2> QED  BY <2>1, <2>2, FS_EmptySet DEF OversightInv, FiringsCounted
<1> QED  BY <1>1 DEF OversightInv, FiringsCounted, FiringsAreCounted, Fires

\* An enabled trigger has fired as often as an evaluation after its creation met its condition
\* and a disabled one never, the insights kept are those of the last evaluation, and the gate
\* is monotone, for any triggers, metrics and number of evaluations.
THEOREM OversightStaysSound == OversightSpec => []OversightIsSound
<1>1. OversightInv /\ [OversightNext]_oversightVars => OversightInv'
    BY OversightStep
<1>2. OversightInv => OversightIsSound
    BY GateMonotone, FiringsAreBacked DEF OversightIsSound
<1> QED  BY <1>1, <1>2, OversightStarts, PTL DEF OversightSpec

-----------------------------------------------------------------------------
(***************************************************************************)
(* AdAccounts.  A report keeps its figure, and a figure that was never     *)
(* kept was never shown: what was shown is what is kept.                   *)
(***************************************************************************)
Owners    == ToSet(Accounts) \cup {Head(Accounts)}
Campaigns == [account : Owners, status : {"PAUSED", "ACTIVE"}, budget : Int]

AdsTypes ==
    /\ campaigns \in Seq(Campaigns)
    /\ figures \in Seq(Int) /\ had \in Seq(SUBSET Int) /\ shown \in Seq(SUBSET Int)
    /\ Len(figures) = Len(campaigns) /\ Len(had) = Len(campaigns) /\ Len(shown) = Len(campaigns)

\* The figure kept of a campaign is a fortnight of a budget it has had, and the only one shown.
Accounted(c) ==
    /\ campaigns[c].account \in accounts
    /\ campaigns[c].budget \in had[c]
    /\ figures[c] # 0 => \E budget \in had[c] : figures[c] = Fortnight(budget)
    /\ shown[c] = {} \/ (shown[c] = {figures[c]} /\ figures[c] # 0 /\ Divides(figures[c]))

AdsInv == AdsTypes /\ \A c \in DOMAIN campaigns : Accounted(c)

LEMMA SpendsAreIntegers == \A budget \in Int : Fortnight(budget) \in Int
BY DEF Fortnight

LEMMA NothingIsNotDivided == ~Divides(0)
BY DEF Divides, Clicks

LEMMA AdsStarts == AdsInit => AdsInv
<1> SUFFICES ASSUME AdsInit PROVE AdsInv
    OBVIOUS
<1>1. Campaign(Head(Accounts), "ACTIVE", 8000) \in Campaigns
    BY DEF Campaign, Campaigns, Owners
<1>2. AdsTypes
    BY <1>1 DEF AdsInit, AdsTypes
<1>3. DOMAIN campaigns = {1}
    BY DEF AdsInit
<1>4. Fortnight(8000) = 112000
    BY DEF Fortnight
<1>5. Accounted(1)
    BY <1>4 DEF AdsInit, Accounted, Campaign
<1> QED  BY <1>2, <1>3, <1>5 DEF AdsInv

LEMMA AdsStep ==
    ASSUME AdsInv, [AdsNext]_adVars
    PROVE  AdsInv'
<1>1. ASSUME NEW account \in ToSet(Accounts), NEW status \in {"PAUSED", "ACTIVE"}, NEW budget \in Budgets,
             CreateCampaign(account, status, budget)
      PROVE  AdsInv'
    <2> DEFINE campaign == Campaign(account, status, budget)
               n        == Len(campaigns) + 1
    <2>1. campaign \in Campaigns /\ campaign.account = account /\ campaign.budget = budget /\ budget \in Int
        BY BudgetsAssumption DEF Campaign, Campaigns, Owners
    <2> HIDE DEF campaign
    <2>2. /\ campaigns' = Append(campaigns, campaign) /\ accounts' = accounts \cup {account}
          /\ figures' = Append(figures, 0) /\ had' = Append(had, {budget}) /\ shown' = Append(shown, {})
        BY <1>1 DEF CreateCampaign, campaign
    <2>3. AdsTypes
        BY DEF AdsInv
    <2>4. /\ AdsTypes' /\ n \in Nat
          /\ DOMAIN campaigns' = DOMAIN campaigns \cup {n} /\ n \notin DOMAIN campaigns
        BY <2>1, <2>2, <2>3 DEF AdsTypes
    <2>5. \A c \in DOMAIN campaigns : /\ campaigns'[c] = campaigns[c] /\ figures'[c] = figures[c]
                                      /\ had'[c] = had[c] /\ shown'[c] = shown[c]
        BY <2>1, <2>2, <2>3 DEF AdsTypes
    <2>6. campaigns'[n] = campaign /\ figures'[n] = 0 /\ had'[n] = {budget} /\ shown'[n] = {}
        BY <2>1, <2>2, <2>3 DEF AdsTypes
    <2>7. ASSUME NEW c \in DOMAIN campaigns'
          PROVE  Accounted(c)'
        <3>1. CASE c = n
            BY <2>1, <2>2, <2>6, <3>1 DEF Accounted
        <3>2. CASE c \in DOMAIN campaigns
            BY <2>2, <2>5, <3>2 DEF Accounted, AdsInv
        <3> QED  BY <2>4, <3>1, <3>2
    <2> QED  BY <2>4, <2>7 DEF AdsInv
<1>2. ASSUME NEW c \in 1..MaxCampaigns, NEW status \in {"PAUSED", "ACTIVE"}, NEW budget \in Budgets,
             UpdateCampaign(c, status, budget)
      PROVE  AdsInv'
    <2> DEFINE new == [campaigns[c] EXCEPT !.status = status, !.budget = budget]
    <2>1. /\ c \in DOMAIN campaigns /\ UNCHANGED <<accounts, figures, shown>>
          /\ campaigns \in Seq(Campaigns) /\ had \in Seq(SUBSET Int) /\ Len(had) = Len(campaigns)
          /\ had' = [had EXCEPT ![c] = had[c] \cup {budget}]
        BY <1>2 DEF UpdateCampaign, Known, AdsInv, AdsTypes
    <2>2. budget \in Int /\ campaigns[c] \in Campaigns
        BY <2>1, BudgetsAssumption
    <2>3. new \in Campaigns /\ new.budget = budget /\ new.account = campaigns[c].account
        BY <2>2 DEF Campaigns
    <2>4. campaigns' = [campaigns EXCEPT ![c] = new]
        BY <1>2, <2>1, <2>2 DEF UpdateCampaign, Campaigns
    <2> HIDE DEF new
    <2>5. /\ campaigns' \in Seq(Campaigns) /\ DOMAIN campaigns' = DOMAIN campaigns
          /\ Len(campaigns') = Len(campaigns)
          /\ \A d \in DOMAIN campaigns : campaigns'[d] = IF d = c THEN new ELSE campaigns[d]
        BY <2>1, <2>3, <2>4, EntryChanges
    <2>6. /\ had' \in Seq(SUBSET Int) /\ Len(had') = Len(had)
          /\ \A d \in DOMAIN campaigns : had'[d] = IF d = c THEN had[c] \cup {budget} ELSE had[d]
        BY <2>1, <2>2
    <2>7. AdsTypes'
        BY <2>1, <2>5, <2>6 DEF AdsInv, AdsTypes
    <2>8. \A d \in DOMAIN campaigns : Accounted(d)'
        BY <2>1, <2>3, <2>5, <2>6 DEF AdsInv, Accounted
    <2> QED  BY <2>5, <2>7, <2>8 DEF AdsInv
<1>3. ASSUME NEW c \in 1..MaxCampaigns, Report(c)
      PROVE  AdsInv'
    <2> DEFINE spend == Spend(c)
    <2>1. /\ c \in DOMAIN campaigns /\ Divides(spend) /\ UNCHANGED <<accounts, campaigns, had>>
          /\ figures' = [figures EXCEPT ![c] = spend] /\ shown' = [shown EXCEPT ![c] = shown[c] \cup {spend}]
          /\ Accounted(c)
        BY <1>3 DEF Report, Known, AdsInv
    <2>2. AdsTypes
        BY DEF AdsInv
    <2>3. campaigns[c] \in Campaigns /\ figures[c] \in Int
        BY <2>1, <2>2 DEF AdsTypes
    <2>4. /\ spend \in Int /\ (figures[c] # 0 => spend = figures[c])
          /\ \E budget \in had[c] : spend = Fortnight(budget)
        BY <2>1, <2>3, SpendsAreIntegers DEF Spend, Accounted, Campaigns
    <2>5. spend # 0
        BY <2>1, NothingIsNotDivided
    <2> HIDE DEF spend
    <2>6. /\ figures' \in Seq(Int) /\ Len(figures') = Len(figures)
          /\ \A d \in DOMAIN campaigns : figures'[d] = IF d = c THEN spend ELSE figures[d]
        BY <2>1, <2>2, <2>4 DEF AdsTypes
    <2>7. /\ shown' \in Seq(SUBSET Int) /\ Len(shown') = Len(shown)
          /\ \A d \in DOMAIN campaigns : shown'[d] = IF d = c THEN shown[c] \cup {spend} ELSE shown[d]
        BY <2>1, <2>2, <2>4 DEF AdsTypes
    <2>8. AdsTypes'
        BY <2>1, <2>2, <2>6, <2>7 DEF AdsTypes
    <2>9. ASSUME NEW d \in DOMAIN campaigns
          PROVE  Accounted(d)'
        BY <2>1, <2>4, <2>5, <2>6, <2>7 DEF AdsInv, Accounted
    <2> QED  BY <2>1, <2>8, <2>9 DEF AdsInv
<1>4. ASSUME \/ \E kind \in {"adset", "creative", "ad"}, parent \in 1..MaxCampaigns : CreateBelow(kind, parent, 0)
             \/ \E n \in 1..MaxBelow, budget \in Budgets : UpdateAdSet(n, "ACTIVE", budget)
             \/ UNCHANGED adVars
      PROVE  AdsInv'
    BY <1>4 DEF CreateBelow, UpdateAdSet, adVars, AdsInv, AdsTypes, Accounted
<1> QED  BY <1>1, <1>2, <1>3, <1>4 DEF AdsNext

\* Every report of a campaign shows one figure, a fortnight of a budget it has had, however
\* its budget was changed between them, for any accounts, budgets and number of campaigns.
THEOREM FiguresAreFinal == AdsSpec => []FiguresStand
<1>1. AdsInv /\ [AdsNext]_adVars => AdsInv'
    BY AdsStep
<1>2. AdsInv => FiguresStand
    <2> SUFFICES ASSUME AdsInv, NEW c \in DOMAIN campaigns
                 PROVE  /\ campaigns[c].account \in accounts
                        /\ Cardinality(shown[c]) <= 1
                        /\ \A spend \in shown[c] : Divides(spend) /\ \E budget \in had[c] : spend = Fortnight(budget)
        BY DEF FiguresStand
    <2>1. Accounted(c)
        BY DEF AdsInv
    <2>2. Cardinality(shown[c]) <= 1
        BY <2>1, FS_EmptySet, FS_Singleton DEF Accounted
    <2> QED  BY <2>1, <2>2 DEF Accounted
<1> QED  BY <1>1, <1>2, AdsStarts, PTL DEF AdsSpec

-----------------------------------------------------------------------------
(***************************************************************************)
(* SkillLibrary.  An execution counts for the definition it began with,    *)
(* which was in use then and is never made anew.                           *)
(***************************************************************************)
Steps ==
    (UNION {ToSet(p) : p \in Procedures}) \cup (UNION {ToSet(BuiltinSkills[d]) : d \in DOMAIN BuiltinSkills})

DefinitionsOf == [steps : Seq(Steps), version : Nat, history : Seq(Nat), enabled : BOOLEAN,
                  runs : Nat, ok : Nat, bad : Nat]
ExecutionsOf  == [at : {"idle", "running", "success", "failed", "cut off"}, id : Skills \cup {"none"},
                  of : Definitions \cup {"none"}, plan : Seq(Steps), did : Seq({"simulated", "done"}), total : Nat]

SkillTypes ==
    /\ shelf \in [Skills -> Definitions \cup {"none"}]
    /\ library \in [Definitions -> DefinitionsOf]
    /\ execution \in [Executions -> ExecutionsOf]

\* What is on the shelf, or was executed, is a definition in use.
InUse ==
    /\ \A s \in Skills : shelf[s] # "none" => library[shelf[s]].version > 0
    /\ \A e \in Executions :
        execution[e].at # "idle" => execution[e].of \in Definitions /\ library[execution[e].of].version > 0

DefinitionCounts(d) ==
    /\ IsFiniteSet(RunsOf(d, {"success"})) /\ library[d].ok = Cardinality(RunsOf(d, {"success"}))
    /\ IsFiniteSet(RunsOf(d, {"failed"})) /\ library[d].bad = Cardinality(RunsOf(d, {"failed"}))
    /\ library[d].runs = library[d].ok + library[d].bad

\* What was done follows the plan, a step simulated just where the registry lacks it.
FollowsPlan(e) ==
    /\ Len(execution[e].did) <= Len(execution[e].plan)
    /\ \A n \in DOMAIN execution[e].did : execution[e].did[n] = "simulated" <=> Simulates(execution[e].plan[n])
    /\ execution[e].at = "success" => Len(execution[e].did) = Len(execution[e].plan)

SkillInv ==
    /\ SkillTypes /\ InUse
    /\ \A d \in Definitions : DefinitionCounts(d)
    /\ \A e \in Executions : FollowsPlan(e)

LEMMA FreshIsADefinition ==
    ASSUME NEW steps \in Seq(Steps)
    PROVE  LET f == Fresh(steps)
           IN  f \in DefinitionsOf /\ f.version = 1 /\ f.runs = 0 /\ f.ok = 0 /\ f.bad = 0
BY DEF Fresh, DefinitionsOf

LEMMA ProceduresAreSteps ==
    ASSUME NEW p \in Procedures
    PROVE  p \in Seq(Steps)
<1>1. p \in Seq(ToSet(p)) /\ ToSet(p) \subseteq Steps
    BY SkillsAssumption DEF Steps
<1> QED  BY <1>1

LEMMA BuiltinsAreProcedures ==
    ASSUME NEW d \in DOMAIN BuiltinSkills
    PROVE  BuiltinSkills[d] \in Seq(Steps)
<1>1. DOMAIN BuiltinSkills = {"prepare_client_report", "launch_meta_campaign", "analyze_weekly_sales", "qualify_lead"}
    BY DEF BuiltinSkills
<1>2. ToSet(BuiltinSkills[d]) \subseteq Steps
    <2> DEFINE All == {ToSet(BuiltinSkills[x]) : x \in DOMAIN BuiltinSkills}
    <2>1. ToSet(BuiltinSkills[d]) \in All
        OBVIOUS
    <2>2. ToSet(BuiltinSkills[d]) \subseteq UNION All
        BY <2>1
    <2>3. Steps = (UNION {ToSet(p) : p \in Procedures}) \cup (UNION All)
        BY DEF Steps
    <2> HIDE DEF All
    <2> QED  BY <2>2, <2>3
<1>3. CASE d = "prepare_client_report"
    <2>1. BuiltinSkills[d] \in Seq(ToSet(BuiltinSkills[d]))
        BY <1>3 DEF BuiltinSkills, ToSet
    <2> QED  BY <1>2, <2>1
<1>4. CASE d = "launch_meta_campaign"
    <2>1. BuiltinSkills[d] \in Seq(ToSet(BuiltinSkills[d]))
        BY <1>4 DEF BuiltinSkills, ToSet
    <2> QED  BY <1>2, <2>1
<1>5. CASE d = "analyze_weekly_sales"
    <2>1. BuiltinSkills[d] \in Seq(ToSet(BuiltinSkills[d]))
        BY <1>5 DEF BuiltinSkills, ToSet
    <2> QED  BY <1>2, <2>1
<1>6. CASE d = "qualify_lead"
    <2>1. BuiltinSkills[d] \in Seq(ToSet(BuiltinSkills[d]))
        BY <1>6 DEF BuiltinSkills, ToSet
    <2> QED  BY <1>2, <2>1
<1> QED  BY <1>1, <1>3, <1>4, <1>5, <1>6

LEMMA SkillStarts == SkillInit => SkillInv
<1> SUFFICES ASSUME SkillInit PROVE SkillInv
    OBVIOUS
<1>1. ASSUME NEW d \in Definitions
      PROVE  library[d] \in DefinitionsOf /\ library[d].runs = 0 /\ library[d].ok = 0 /\ library[d].bad = 0
    <2>1. CASE d \in Builtins
        <3> DEFINE f == Fresh(BuiltinSkills[d])
        <3>1. f \in DefinitionsOf /\ f.runs = 0 /\ f.ok = 0 /\ f.bad = 0
            BY <2>1, SkillsAssumption, BuiltinsAreProcedures, FreshIsADefinition
        <3>2. library[d] = [f EXCEPT !.history = <<>>]
            BY <2>1 DEF SkillInit
        <3> HIDE DEF f
        <3>3. <<>> \in Seq(Nat)
            OBVIOUS
        <3>4. [f EXCEPT !.history = <<>>] \in DefinitionsOf
            BY <3>1, <3>3 DEF DefinitionsOf
        <3>5. /\ [f EXCEPT !.history = <<>>].runs = 0 /\ [f EXCEPT !.history = <<>>].ok = 0
              /\ [f EXCEPT !.history = <<>>].bad = 0
            BY <3>1 DEF DefinitionsOf
        <3> QED  BY <3>2, <3>4, <3>5
    <2>2. CASE d \notin Builtins
        <3>1. Unused \in DefinitionsOf /\ Unused.runs = 0 /\ Unused.ok = 0 /\ Unused.bad = 0
            BY DEF Unused, DefinitionsOf
        <3> QED  BY <2>2, <3>1 DEF SkillInit
    <2> QED  BY <2>1, <2>2
<1>2. \A d \in Builtins : library[d].version > 0
    BY SkillsAssumption DEF SkillInit, Fresh
<1>3. \A e \in Executions : execution[e] = Idle /\ Idle \in ExecutionsOf /\ execution[e].at = "idle"
    BY DEF SkillInit, Idle, ExecutionsOf
<1>4. SkillTypes
    BY <1>1, <1>3, SkillsAssumption DEF SkillInit, SkillTypes
<1>5. InUse
    BY <1>2, <1>3 DEF SkillInit, InUse
<1>6. ASSUME NEW d \in Definitions
      PROVE  DefinitionCounts(d)
    <2>1. RunsOf(d, {"success"}) = {} /\ RunsOf(d, {"failed"}) = {}
        BY <1>3 DEF RunsOf
    <2> QED  BY <1>1, <2>1, FS_EmptySet DEF DefinitionCounts
<1>7. \A e \in Executions : FollowsPlan(e)
    BY <1>3 DEF FollowsPlan, Idle
<1> QED  BY <1>4, <1>5, <1>6, <1>7 DEF SkillInv

\* A step that leaves the executions alone, and the counts of every definition in use.
LEMMA ExecutionsRest ==
    ASSUME SkillInv, SkillTypes', InUse', UNCHANGED execution,
           \A d \in Definitions : \/ /\ library'[d].ok = library[d].ok /\ library'[d].bad = library[d].bad
                                     /\ library'[d].runs = library[d].runs
                                  \/ /\ library[d].version = 0
                                     /\ library'[d].ok = 0 /\ library'[d].bad = 0 /\ library'[d].runs = 0
    PROVE  SkillInv'
<1>1. \A d \in Definitions : RunsOf(d, {"success"})' = RunsOf(d, {"success"}) /\ RunsOf(d, {"failed"})' = RunsOf(d, {"failed"})
    BY DEF RunsOf
<1>2. ASSUME NEW d \in Definitions, library[d].version = 0
      PROVE  RunsOf(d, {"success"}) = {} /\ RunsOf(d, {"failed"}) = {}
    BY <1>2 DEF SkillInv, InUse, RunsOf
<1>3. ASSUME NEW d \in Definitions
      PROVE  DefinitionCounts(d)'
    BY <1>1, <1>2, FS_EmptySet DEF SkillInv, DefinitionCounts
<1>4. \A e \in Executions : FollowsPlan(e)'
    BY DEF SkillInv, FollowsPlan
<1> QED  BY <1>3, <1>4 DEF SkillInv

\* A step of one execution, which does not end by itself.
LEMMA LibraryRests ==
    ASSUME SkillInv, NEW e \in Executions, NEW new \in ExecutionsOf, UNCHANGED <<shelf, library>>,
           execution' = [execution EXCEPT ![e] = new],
           execution[e].at \notin {"success", "failed"}, new.at \notin {"success", "failed"},
           new.at # "idle" => new.of \in Definitions /\ library[new.of].version > 0,
           Len(new.did) <= Len(new.plan),
           \A n \in DOMAIN new.did : new.did[n] = "simulated" <=> Simulates(new.plan[n])
    PROVE  SkillInv'
<1>1. SkillTypes'
    BY DEF SkillInv, SkillTypes
<1>2. execution'[e] = new /\ \A x \in Executions \ {e} : execution'[x] = execution[x]
    BY DEF SkillInv, SkillTypes
<1>3. InUse'
    BY <1>2 DEF SkillInv, InUse
<1>4. \A d \in Definitions : RunsOf(d, {"success"})' = RunsOf(d, {"success"}) /\ RunsOf(d, {"failed"})' = RunsOf(d, {"failed"})
    BY <1>2 DEF RunsOf
<1>5. \A d \in Definitions : DefinitionCounts(d)'
    BY <1>4 DEF SkillInv, DefinitionCounts
<1>6. \A x \in Executions : FollowsPlan(x)'
    BY <1>2 DEF SkillInv, FollowsPlan
<1> QED  BY <1>1, <1>3, <1>5, <1>6 DEF SkillInv

\* An execution that ends by itself is counted for the definition it began with.
LEMMA EndIsCounted ==
    ASSUME SkillInv, NEW e \in Executions, NEW outcome \in {"success", "failed"},
           execution[e].at = "running", library' = Counted(execution[e].of, outcome), Ended(e, outcome), UNCHANGED shelf,
           outcome = "success" => Len(execution[e].did) = Len(execution[e].plan)
    PROVE  SkillInv'
<1> DEFINE d == execution[e].of
           total == Len(library[d].steps)
           new == [execution[e] EXCEPT !.at = outcome, !.total = total]
           ok == IF outcome = "success" THEN library[d].ok + 1 ELSE library[d].ok
           bad == IF outcome = "failed" THEN library[d].bad + 1 ELSE library[d].bad
           counted == [library[d] EXCEPT !.runs = library[d].runs + 1, !.ok = ok, !.bad = bad]
<1>1. d \in Definitions /\ library[d].version > 0 /\ library[d] \in DefinitionsOf /\ execution[e] \in ExecutionsOf
    BY DEF SkillInv, InUse, SkillTypes
<1>2. total \in Nat
    BY <1>1 DEF DefinitionsOf
<1>3. execution' = [execution EXCEPT ![e] = new]
    BY <1>1 DEF Ended, SkillInv, SkillTypes
<1>4. library' = [library EXCEPT ![d] = counted]
    BY <1>1 DEF Counted, SkillInv, SkillTypes, DefinitionsOf
<1> HIDE DEF d, total
<1>5. /\ new \in ExecutionsOf /\ new.at = outcome /\ new.of = execution[e].of
      /\ new.plan = execution[e].plan /\ new.did = execution[e].did
    BY <1>1, <1>2 DEF ExecutionsOf
<1>6. /\ counted \in DefinitionsOf /\ counted.version = library[d].version
      /\ counted.runs = library[d].runs + 1 /\ counted.ok = ok /\ counted.bad = bad
    <2>1. ok \in Nat /\ bad \in Nat /\ library[d].runs + 1 \in Nat
        BY <1>1 DEF DefinitionsOf
    <2> HIDE DEF ok, bad
    <2> QED  BY <1>1, <2>1 DEF DefinitionsOf
<1> HIDE DEF new, counted
<1>7. /\ execution'[e] = new /\ \A x \in Executions \ {e} : execution'[x] = execution[x]
      /\ library'[d] = counted /\ \A c \in Definitions \ {d} : library'[c] = library[c]
    BY <1>1, <1>3, <1>4 DEF SkillInv, SkillTypes
<1>8. SkillTypes'
    BY <1>1, <1>3, <1>4, <1>5, <1>6 DEF SkillInv, SkillTypes
<1>9. InUse'
    BY <1>1, <1>5, <1>6, <1>7 DEF SkillInv, InUse, SkillTypes
<1>10. ASSUME NEW c \in Definitions, NEW o \in {"success", "failed"}
       PROVE  /\ e \notin RunsOf(c, {o})
              /\ RunsOf(c, {o})' = IF c = d /\ o = outcome THEN RunsOf(c, {o}) \cup {e} ELSE RunsOf(c, {o})
    BY <1>5, <1>7 DEF RunsOf, d
<1>11. ASSUME NEW c \in Definitions
       PROVE  DefinitionCounts(c)'
    <2>1. DefinitionCounts(c) /\ library[c].ok \in Nat /\ library[c].bad \in Nat
        BY DEF SkillInv, SkillTypes, DefinitionsOf
    <2>2. CASE c = d /\ outcome = "success"
        <3>1. RunsOf(c, {"success"})' = RunsOf(c, {"success"}) \cup {e} /\ RunsOf(c, {"failed"})' = RunsOf(c, {"failed"})
            BY <1>10, <2>2
        <3>2. e \notin RunsOf(c, {"success"})
            BY <1>10
        <3> QED  BY <1>6, <1>7, <2>1, <2>2, <3>1, <3>2, FS_AddElement DEF DefinitionCounts
    <2>3. CASE c = d /\ outcome = "failed"
        <3>1. RunsOf(c, {"failed"})' = RunsOf(c, {"failed"}) \cup {e} /\ RunsOf(c, {"success"})' = RunsOf(c, {"success"})
            BY <1>10, <2>3
        <3>2. e \notin RunsOf(c, {"failed"})
            BY <1>10
        <3> QED  BY <1>6, <1>7, <2>1, <2>3, <3>1, <3>2, FS_AddElement DEF DefinitionCounts
    <2>4. CASE c # d
        <3>1. RunsOf(c, {"success"})' = RunsOf(c, {"success"}) /\ RunsOf(c, {"failed"})' = RunsOf(c, {"failed"})
            BY <1>10, <2>4
        <3> QED  BY <1>7, <2>1, <2>4, <3>1 DEF DefinitionCounts
    <2> QED  BY <2>2, <2>3, <2>4
<1>12. \A x \in Executions : FollowsPlan(x)'
    BY <1>5, <1>7 DEF SkillInv, FollowsPlan
<1> QED  BY <1>8, <1>9, <1>11, <1>12 DEF SkillInv

LEMMA SkillStep ==
    ASSUME SkillInv, [SkillNext]_skillVars
    PROVE  SkillInv'
<1>0. SkillTypes /\ InUse
    BY DEF SkillInv
<1>1. ASSUME NEW s \in Skills, NEW d \in Definitions, NEW p \in Procedures, CreateSkill(s, d, p)
      PROVE  SkillInv'
    <2>1. Fresh(p) \in DefinitionsOf /\ Fresh(p).version = 1 /\ Fresh(p).runs = 0 /\ Fresh(p).ok = 0 /\ Fresh(p).bad = 0
        BY ProceduresAreSteps, FreshIsADefinition
    <2>2. /\ library[d].version = 0 /\ UNCHANGED execution
          /\ library' = [library EXCEPT ![d] = Fresh(p)] /\ shelf' = [shelf EXCEPT ![s] = d]
        BY <1>1 DEF CreateSkill
    <2>3. SkillTypes'
        BY <1>0, <2>1, <2>2 DEF SkillTypes
    <2>4. library'[d] = Fresh(p) /\ \A c \in Definitions \ {d} : library'[c] = library[c]
        BY <1>0, <2>2 DEF SkillTypes
    <2>5. \A c \in Definitions : library[c].version > 0 => library'[c].version > 0
        BY <2>1, <2>4
    <2>6. InUse'
        BY <1>0, <2>1, <2>2, <2>4, <2>5 DEF SkillTypes, InUse
    <2> QED  BY <2>1, <2>2, <2>3, <2>4, <2>6, ExecutionsRest
<1>2. ASSUME NEW s \in Skills,
             (\E p \in Procedures : VersionSkill(s, p)) \/ \E disabled \in BOOLEAN : DisableSkill(s, disabled)
      PROVE  SkillInv'
    <2> DEFINE d == shelf[s]
    <2>1. d \in Definitions /\ library[d] \in DefinitionsOf /\ library[d].version > 0
        BY <1>0, <1>2 DEF VersionSkill, DisableSkill, Shelved, SkillTypes, InUse
    <2>2. PICK new \in DefinitionsOf :
            /\ library' = [library EXCEPT ![d] = new] /\ new.version > 0
            /\ new.runs = library[d].runs /\ new.ok = library[d].ok /\ new.bad = library[d].bad
        <3>1. CASE \E p \in Procedures : VersionSkill(s, p)
            <4>1. PICK p \in Procedures : VersionSkill(s, p)
                BY <3>1
            <4> DEFINE past == Append(library[d].history, Len(library[d].steps))
                       version == library[d].version + 1
                       new == [library[d] EXCEPT !.history = past, !.version = version, !.steps = p]
            <4>2. past \in Seq(Nat) /\ version \in Nat /\ version > 0 /\ p \in Seq(Steps)
                <5>1. library[d].history \in Seq(Nat) /\ Len(library[d].steps) \in Nat /\ library[d].version \in Nat
                    BY <2>1 DEF DefinitionsOf
                <5> HIDE DEF d
                <5> QED  BY <2>1, <5>1, ProceduresAreSteps
            <4>3. library' = [library EXCEPT ![d] = new]
                BY <2>1, <4>1 DEF VersionSkill, DefinitionsOf
            <4> HIDE DEF past, version, d
            <4>4. new \in DefinitionsOf /\ new.version = version
                  /\ new.runs = library[d].runs /\ new.ok = library[d].ok /\ new.bad = library[d].bad
                BY <2>1, <4>2 DEF DefinitionsOf
            <4> QED  BY <4>2, <4>3, <4>4
        <3>2. CASE \E disabled \in BOOLEAN : DisableSkill(s, disabled)
            <4>1. PICK disabled \in BOOLEAN : DisableSkill(s, disabled)
                BY <3>2
            <4> DEFINE enabled == ~disabled
                       new == [library[d] EXCEPT !.enabled = enabled]
            <4>2. library' = [library EXCEPT ![d] = new] /\ enabled \in BOOLEAN
                BY <2>1, <4>1 DEF DisableSkill
            <4> HIDE DEF enabled, d
            <4>3. new \in DefinitionsOf /\ new.version = library[d].version
                  /\ new.runs = library[d].runs /\ new.ok = library[d].ok /\ new.bad = library[d].bad
                BY <2>1, <4>2 DEF DefinitionsOf
            <4> QED  BY <2>1, <4>2, <4>3
        <3> QED  BY <1>2, <3>1, <3>2
    <2>3. UNCHANGED <<shelf, execution>>
        BY <1>2 DEF VersionSkill, DisableSkill
    <2> HIDE DEF d
    <2>4. SkillTypes' /\ library'[d] = new /\ \A c \in Definitions \ {d} : library'[c] = library[c]
        BY <1>0, <2>1, <2>2, <2>3 DEF SkillTypes
    <2>5. InUse'
        BY <1>0, <2>1, <2>2, <2>3, <2>4 DEF SkillTypes, InUse
    <2> QED  BY <2>2, <2>3, <2>4, <2>5, ExecutionsRest
<1>3. ASSUME NEW e \in Executions, NEW s \in Skills, StartExecution(e, s)
      PROVE  SkillInv'
    <2> DEFINE d == shelf[s]
               plan == library[d].steps
               new == [at |-> "running", id |-> s, of |-> d, plan |-> plan, did |-> <<>>, total |-> 0]
    <2>1. /\ d \in Definitions /\ library[d].version > 0 /\ plan \in Seq(Steps)
          /\ execution[e] = Idle /\ UNCHANGED <<shelf, library>>
          /\ execution' = [execution EXCEPT ![e] = new]
        BY <1>0, <1>3 DEF StartExecution, Shelved, SkillTypes, InUse, DefinitionsOf
    <2> HIDE DEF d, plan
    <2>3. /\ new \in ExecutionsOf /\ new.at = "running" /\ new.of = d /\ new.did = <<>> /\ new.plan = plan
          /\ execution[e].at = "idle"
        <3>1. execution[e].at = "idle" /\ <<>> \in Seq({"simulated", "done"})
            BY <2>1 DEF Idle
        <3> QED  BY <2>1, <3>1 DEF ExecutionsOf
    <2> HIDE DEF new
    <2>4. Len(new.did) <= Len(new.plan) /\ DOMAIN new.did = {}
        BY <2>1, <2>3
    <2> QED  BY <2>1, <2>3, <2>4, LibraryRests
<1>4. ASSUME NEW e \in Executions, DoStep(e)
      PROVE  SkillInv'
    <2>1. /\ execution[e] \in ExecutionsOf /\ execution[e].at = "running" /\ UNCHANGED <<shelf, library>>
          /\ Len(execution[e].did) < Len(execution[e].plan) /\ FollowsPlan(e)
          /\ execution[e].of \in Definitions /\ library[execution[e].of].version > 0
        BY <1>0, <1>4 DEF DoStep, SkillInv, SkillTypes, InUse
    <2>2. PICK outcome \in {"simulated", "done"} :
            /\ execution' = [execution EXCEPT ![e].did = Append(execution[e].did, outcome)]
            /\ outcome = "simulated" <=> Simulates(NextStep(e))
        BY <1>4 DEF DoStep, Simulates, Serves
    <2> DEFINE did == Append(execution[e].did, outcome)
               new == [execution[e] EXCEPT !.did = did]
    <2> PICK before : before = execution[e].did
        OBVIOUS
    <2>3. /\ did \in Seq({"simulated", "done"}) /\ Len(did) = Len(execution[e].did) + 1
          /\ \A n \in DOMAIN did : did[n] = IF n = Len(did) THEN outcome ELSE execution[e].did[n]
          /\ \A n \in DOMAIN did : n # Len(did) => n \in DOMAIN execution[e].did
          /\ Len(execution[e].did) \in Nat /\ Len(execution[e].plan) \in Nat
        <3>0. execution[e].did \in Seq({"simulated", "done"}) /\ execution[e].plan \in Seq(Steps)
            BY <2>1 DEF ExecutionsOf
        <3>1. before \in Seq({"simulated", "done"}) /\ Len(execution[e].plan) \in Nat
            BY <3>0
        <3>2. did = Append(before, outcome)
            OBVIOUS
        <3> HIDE DEF did
        <3> QED  BY <3>1, <3>2
    <2>4. execution' = [execution EXCEPT ![e] = new]
        BY <1>0, <2>2 DEF SkillTypes
    <2> HIDE DEF did
    <2>5. /\ new \in ExecutionsOf /\ new.at = "running" /\ new.of = execution[e].of
          /\ new.plan = execution[e].plan /\ new.did = did
        BY <2>1, <2>3 DEF ExecutionsOf
    <2> HIDE DEF new
    <2>6. \A n \in DOMAIN new.did : new.did[n] = "simulated" <=> Simulates(new.plan[n])
        BY <2>1, <2>2, <2>3, <2>5 DEF FollowsPlan, NextStep
    <2>7. Len(new.did) <= Len(new.plan)
        BY <2>1, <2>3, <2>5
    <2> QED  BY <2>1, <2>4, <2>5, <2>6, <2>7, LibraryRests
<1>5. ASSUME NEW e \in Executions, FinishExecution(e) \/ FailExecution(e)
      PROVE  SkillInv'
    BY <1>5, EndIsCounted DEF FinishExecution, FailExecution
<1>6. ASSUME NEW e \in Executions, CutOffExecution(e)
      PROVE  SkillInv'
    <2> DEFINE new == [execution[e] EXCEPT !.at = "cut off"]
    <2>1. /\ execution[e] \in ExecutionsOf /\ execution[e].at = "running" /\ UNCHANGED <<shelf, library>>
          /\ FollowsPlan(e)
          /\ execution[e].of \in Definitions /\ library[execution[e].of].version > 0
          /\ execution' = [execution EXCEPT ![e] = new]
        BY <1>0, <1>6 DEF CutOffExecution, SkillInv, SkillTypes, InUse
    <2>2. /\ new \in ExecutionsOf /\ new.at = "cut off" /\ new.of = execution[e].of
          /\ new.plan = execution[e].plan /\ new.did = execution[e].did
        BY <2>1 DEF ExecutionsOf
    <2> HIDE DEF new
    <2> QED  BY <2>1, <2>2, LibraryRests DEF FollowsPlan
<1>7. CASE UNCHANGED skillVars
    BY <1>7 DEF skillVars, SkillInv, SkillTypes, InUse, DefinitionCounts, RunsOf, FollowsPlan
<1> QED  BY <1>1, <1>2, <1>3, <1>4, <1>5, <1>6, <1>7 DEF SkillNext

\* A definition counts exactly the executions of it that ended by themselves, whatever was
\* created, versioned or disabled meanwhile, and a success followed the version it began with,
\* for any skills, definitions, executions and procedures.
THEOREM SkillCountsAreTrue == SkillSpec => []SkillRunsAreCounted
<1>1. SkillInv /\ [SkillNext]_skillVars => SkillInv'
    BY SkillStep
<1>2. SkillInv => SkillRunsAreCounted
    <2> SUFFICES ASSUME SkillInv PROVE SkillRunsAreCounted
        OBVIOUS
    <2>1. ASSUME NEW e \in Executions, execution[e].at = "success"
          PROVE  /\ Len(execution[e].did) = Len(execution[e].plan)
                 /\ TestPasses(execution[e].plan) <=> "simulated" \notin ToSet(execution[e].did)
        <3>1. /\ execution[e].plan \in Seq(Steps) /\ execution[e].did \in Seq({"simulated", "done"})
              /\ FollowsPlan(e)
            BY DEF SkillInv, SkillTypes, ExecutionsOf
        <3>2. DOMAIN execution[e].plan = DOMAIN execution[e].did /\ Len(execution[e].did) = Len(execution[e].plan)
            BY <2>1, <3>1 DEF FollowsPlan
        <3> QED  BY <3>1, <3>2 DEF FollowsPlan, TestPasses, Simulates, ToSet
    <2> QED  BY <2>1 DEF SkillInv, DefinitionCounts, SkillRunsAreCounted
<1> QED  BY <1>1, <1>2, SkillStarts, PTL DEF SkillSpec

-----------------------------------------------------------------------------
(***************************************************************************)
(* Outreach.  A key names one call; the key of a place that was made up    *)
(* holds the number of the attempt, which is that of its call.             *)
(***************************************************************************)
PlaceIds    == (Numbers \cup {w.place : w \in Wants}) \X Nat
BookingKeys == {BookingKey(p, w.time) : p \in PlaceIds, w \in Wants}
CallsOf     == [to : PlaceIds, key : StepKeys \cup BookingKeys, status : {"completed"},
                party : {0} \cup {w.party : w \in Wants}]
EventsOf    == [place : PlaceIds]
BookingsOf  == [at : {"none", "called", "scheduled", "confirmed", "cut off"}, wants : Wants \cup {"none"},
                call : Nat, event : Nat]

OutreachTypes ==
    /\ calls \in Seq(CallsOf) /\ history \subseteq DOMAIN calls
    /\ events \in Seq(EventsOf)
    /\ booking \in [Bookings -> BookingsOf]

KeysRingOnce == \A m, n \in DOMAIN calls : calls[m].key = calls[n].key => m = n \/ calls[m].key = NoKey

\* The key of a call to a place that was made up for it.
MadeUp(key) == key \in BookingKeys /\ key[2][1] \notin Listed

AttemptsAreCalls == \A n \in DOMAIN calls : MadeUp(calls[n].key) => calls[n].key[2][2] = n

HasItsCall(b) ==
    LET w == booking[b].wants
    IN  /\ w \in Wants /\ booking[b].call \in history
        /\ calls[booking[b].call].key = BookingKey(PlaceId(w.place, booking[b].call), w.time)

BookingsHaveCalls ==
    \A b \in Bookings : booking[b].at \in {"called", "scheduled", "confirmed"} => HasItsCall(b)

EventsAreApart ==
    /\ \A b \in Bookings : /\ booking[b].event <= Len(events)
                           /\ booking[b].at \in {"scheduled", "confirmed"} => booking[b].event > 0
    /\ \A b, c \in Bookings : booking[b].event = booking[c].event => b = c \/ booking[b].event = 0

OutreachInv ==
    OutreachTypes /\ KeysRingOnce /\ AttemptsAreCalls /\ BookingsHaveCalls /\ EventsAreApart

LEMMA KeysOfTwoKinds ==
    /\ \A key \in StepKeys : key \notin BookingKeys
    /\ NoKey \notin BookingKeys
<1>1. \A key \in BookingKeys : Len(key) = 3 /\ key # NoKey
    <2> SUFFICES ASSUME NEW p \in PlaceIds, NEW w \in Wants
                 PROVE  Len(BookingKey(p, w.time)) = 3 /\ BookingKey(p, w.time) # NoKey
        BY DEF BookingKeys
    <2>1. Len(BookingKey(p, w.time)) = 3
        BY DEF BookingKey
    <2>2. Len(NoKey) = 0
        BY DEF NoKey
    <2> QED  BY <2>1, <2>2
<1> QED  BY <1>1, StepKeysAssumption

LEMMA PlacesRung ==
    ASSUME NEW name \in Numbers \cup {w.place : w \in Wants}, NEW n \in Nat
    PROVE  PlaceId(name, n) \in PlaceIds
BY DEF PlaceId, PlaceIds

LEMMA EventsAreCounted ==
    ASSUME OutreachTypes
    PROVE  Len(events) \in Nat /\ Len(events) <= Len(events)
BY DEF OutreachTypes

\* A call with a key of its own is added, another is the one that has the key.
LEMMA Rings ==
    ASSUME OutreachInv, NEW call \in CallsOf, Ring(call),
           MadeUp(call.key) => call.key[2][2] = Len(calls) + 1
    PROVE  /\ calls' \in Seq(CallsOf) /\ history \subseteq history' /\ history' \subseteq DOMAIN calls'
           /\ DOMAIN calls \subseteq DOMAIN calls' /\ \A n \in DOMAIN calls : calls'[n].key = calls[n].key
           /\ KeysRingOnce' /\ AttemptsAreCalls'
           /\ Rung(call) \in history' /\ calls'[Rung(call)].key = call.key
           /\ MadeUp(call.key) => Rung(call) = Len(calls) + 1
<1> DEFINE n == Len(calls) + 1
<1>1. calls \in Seq(CallsOf) /\ n \in Nat /\ DOMAIN calls = 1..Len(calls) /\ history \subseteq DOMAIN calls
    BY DEF OutreachInv, OutreachTypes
<1>2. CASE Keyed(call.key) # {}
    <2>1. Rung(call) \in Keyed(call.key) /\ UNCHANGED calls /\ history' = history \cup Keyed(call.key)
        BY <1>2 DEF Rung, Ring
    <2>2. Rung(call) \in DOMAIN calls /\ calls[Rung(call)].key = call.key
        BY <2>1 DEF Keyed
    <2>3. Keyed(call.key) \subseteq DOMAIN calls
        BY DEF Keyed
    <2>4. ~MadeUp(call.key)
        <3>1. Rung(call) < n
            BY <1>1, <2>2
        <3>2. MadeUp(call.key) => call.key[2][2] = Rung(call)
            BY <2>2 DEF OutreachInv, AttemptsAreCalls
        <3> QED  BY <1>1, <3>1, <3>2, <2>2
    <2> QED  BY <1>1, <2>1, <2>2, <2>3, <2>4 DEF OutreachInv, KeysRingOnce, AttemptsAreCalls
<1>3. CASE Keyed(call.key) = {}
    <2>1. Rung(call) = n /\ calls' = Append(calls, call)
        BY <1>3 DEF Rung, Ring
    <2>2. /\ calls' \in Seq(CallsOf) /\ Len(calls') = n /\ calls'[n] = call
          /\ DOMAIN calls' = DOMAIN calls \cup {n} /\ n \notin DOMAIN calls
          /\ \A m \in DOMAIN calls : calls'[m] = calls[m]
        BY <1>1, <2>1
    <2>3. history' = history \cup {n}
        BY <1>3, <2>2 DEF Ring
    <2>4. KeysRingOnce'
        BY <1>3, <2>2 DEF OutreachInv, KeysRingOnce, Keyed
    <2>5. AttemptsAreCalls'
        BY <2>2 DEF OutreachInv, AttemptsAreCalls
    <2> QED  BY <1>1, <2>1, <2>2, <2>3, <2>4, <2>5
<1> QED  BY <1>2, <1>3

\* The bookings rest, and a call that a booking has is kept.
LEMMA BookingsRest ==
    ASSUME OutreachInv, OutreachTypes', KeysRingOnce', AttemptsAreCalls', UNCHANGED booking,
           history \subseteq history', \A n \in DOMAIN calls : calls'[n].key = calls[n].key,
           Len(events) <= Len(events')
    PROVE  OutreachInv'
<1>1. BookingsHaveCalls'
    BY DEF OutreachInv, OutreachTypes, BookingsHaveCalls, HasItsCall
<1>2. EventsAreApart'
    <2>1. \A b \in Bookings : booking[b].event \in Nat
        BY DEF OutreachInv, OutreachTypes, BookingsOf
    <2>2. Len(events) \in Nat /\ Len(events') \in Nat
        BY DEF OutreachInv, OutreachTypes
    <2> QED  BY <2>1, <2>2 DEF OutreachInv, EventsAreApart
<1> QED  BY <1>1, <1>2 DEF OutreachInv

\* One booking moves on, with its call and an event of its own.
LEMMA BookingMovesOn ==
    ASSUME OutreachInv, OutreachTypes', KeysRingOnce', AttemptsAreCalls',
           NEW b \in Bookings, NEW new \in BookingsOf, booking' = [booking EXCEPT ![b] = new],
           history \subseteq history', \A n \in DOMAIN calls : calls'[n].key = calls[n].key,
           Len(events) <= Len(events'),
           new.at \in {"called", "scheduled", "confirmed"} => HasItsCall(b)',
           new.at \in {"scheduled", "confirmed"} => new.event > 0,
           new.event <= Len(events'),
           new.event \in {0, booking[b].event} \/ new.event > Len(events)
    PROVE  OutreachInv'
<1>1. booking'[b] = new /\ \A c \in Bookings \ {b} : booking'[c] = booking[c]
    BY DEF OutreachInv, OutreachTypes
<1>2. BookingsHaveCalls'
    BY <1>1 DEF OutreachInv, OutreachTypes, BookingsHaveCalls, HasItsCall
<1>3. EventsAreApart'
    <2>1. \A c \in Bookings : booking[c].event \in Nat
        BY DEF OutreachInv, OutreachTypes, BookingsOf
    <2>2. Len(events) \in Nat /\ Len(events') \in Nat
        BY DEF OutreachInv, OutreachTypes
    <2>3. new.event \in Nat
        BY DEF BookingsOf
    <2> QED  BY <1>1, <2>1, <2>2, <2>3 DEF OutreachInv, EventsAreApart
<1> QED  BY <1>2, <1>3 DEF OutreachInv

LEMMA OutreachStep ==
    ASSUME OutreachInv, [OutreachNext \/ MessagesNext]_outreachVars
    PROVE  OutreachInv'
<1>0. OutreachTypes /\ KeysRingOnce /\ AttemptsAreCalls
    BY DEF OutreachInv
<1>1. ASSUME NEW number \in Numbers, NEW key \in StepKeys, PlaceCall(number, key)
      PROVE  OutreachInv'
    <2> DEFINE call == Call(PlaceId(number, 0), key, "completed", 0)
    <2>1. call \in CallsOf /\ call.key = key
        BY PlacesRung DEF Call, CallsOf
    <2>2. Ring(call) /\ UNCHANGED <<events, booking>> /\ ~MadeUp(call.key)
        BY <1>1, <2>1, KeysOfTwoKinds DEF PlaceCall, MadeUp
    <2> HIDE DEF call
    <2>3. /\ OutreachTypes' /\ KeysRingOnce' /\ AttemptsAreCalls' /\ history \subseteq history'
          /\ \A n \in DOMAIN calls : calls'[n].key = calls[n].key
        BY <1>0, <2>1, <2>2, Rings DEF OutreachTypes
    <2> QED  BY <1>0, <2>2, <2>3, BookingsRest DEF OutreachTypes
<1>2. ASSUME NEW n \in 1..MaxCalls, TerminateCall(n)
      PROVE  OutreachInv'
    <2> DEFINE new == [calls[n] EXCEPT !.status = "completed"]
    <2>1. /\ calls \in Seq(CallsOf) /\ n \in DOMAIN calls /\ calls[n] \in CallsOf
          /\ calls' = [calls EXCEPT ![n] = new] /\ history' = history \cup {n} /\ UNCHANGED <<events, booking>>
        BY <1>0, <1>2 DEF TerminateCall, OutreachTypes
    <2>2. new \in CallsOf /\ new.key = calls[n].key
        BY <2>1 DEF CallsOf
    <2> HIDE DEF new
    <2>3. /\ calls' \in Seq(CallsOf) /\ DOMAIN calls' = DOMAIN calls
          /\ \A m \in DOMAIN calls : calls'[m].key = calls[m].key
        BY <2>1, <2>2, EntryChanges
    <2>4. OutreachTypes'
        BY <1>0, <2>1, <2>3 DEF OutreachTypes
    <2>5. KeysRingOnce' /\ AttemptsAreCalls'
        BY <1>0, <2>3 DEF KeysRingOnce, AttemptsAreCalls
    <2> QED  BY <1>0, <2>1, <2>3, <2>4, <2>5, BookingsRest DEF OutreachTypes
<1>3. ASSUME NEW b \in Bookings, NEW w \in Wants, StartBooking(b, w)
      PROVE  OutreachInv'
    <2> DEFINE place == PlaceId(w.place, 1 + Len(calls))
               call  == Call(place, BookingKey(place, w.time), "completed", w.party)
               new   == [at |-> "called", wants |-> w, call |-> Rung(call), event |-> 0]
    <2>1. Len(calls) \in Nat /\ place \in PlaceIds
        <3>1. Len(calls) \in Nat
            BY <1>0 DEF OutreachTypes
        <3>2. 1 + Len(calls) \in Nat /\ w.place \in Numbers \cup {v.place : v \in Wants}
            BY <3>1
        <3> QED  BY <3>1, <3>2, PlacesRung
    <2>2. call \in CallsOf /\ call.key = BookingKey(place, w.time)
        <3>1. BookingKey(place, w.time) \in BookingKeys
            BY <2>1 DEF BookingKeys
        <3> HIDE DEF place
        <3> QED  BY <2>1, <3>1 DEF Call, CallsOf
    <2>3. Ring(call) /\ booking' = [booking EXCEPT ![b] = new] /\ UNCHANGED events
        BY <1>3 DEF StartBooking
    <2>4. MadeUp(call.key) => call.key[2][2] = Len(calls) + 1
        BY <2>1, <2>2 DEF MadeUp, BookingKey, PlaceId
    <2>5. place = PlaceId(w.place, Rung(call))
        <3>1. CASE w.place \in Listed
            BY <3>1 DEF PlaceId
        <3>2. CASE w.place \notin Listed
            <4>1. MadeUp(call.key)
                <5>1. BookingKey(place, w.time) \in BookingKeys
                    BY <2>1 DEF BookingKeys
                <5>2. BookingKey(place, w.time)[2] = place /\ place[1] = w.place
                    BY DEF BookingKey, PlaceId
                <5> HIDE DEF call, place
                <5> QED  BY <2>2, <3>2, <5>1, <5>2 DEF MadeUp
            <4>2. Rung(call) = Len(calls) + 1
                <5> HIDE DEF call
                <5> QED  BY <2>2, <2>3, <2>4, <4>1, Rings
            <4> QED  BY <2>1, <4>2
        <3> QED  BY <3>1, <3>2
    <2>6. BookingKey(place, w.time) = BookingKey(PlaceId(w.place, Rung(call)), w.time)
        BY <2>5
    <2> HIDE DEF call, place
    <2>7. /\ calls' \in Seq(CallsOf) /\ history \subseteq history' /\ history' \subseteq DOMAIN calls'
          /\ \A n \in DOMAIN calls : calls'[n].key = calls[n].key
          /\ KeysRingOnce' /\ AttemptsAreCalls'
          /\ Rung(call) \in history' /\ calls'[Rung(call)].key = call.key
        BY <2>2, <2>3, <2>4, Rings
    <2>8. new \in BookingsOf /\ new.at = "called" /\ new.event = 0 /\ new.call = Rung(call) /\ new.wants = w
        <3>1. Rung(call) \in Nat
            BY <2>7
        <3> QED  BY <3>1 DEF BookingsOf
    <2> PICK rung : rung = Rung(call)
        OBVIOUS
    <2> HIDE DEF new
    <2>9. booking'[b] = new
        BY <1>0, <2>3 DEF OutreachTypes
    <2>10. HasItsCall(b)'
        BY <2>2, <2>6, <2>7, <2>8, <2>9 DEF HasItsCall
    <2>11. OutreachTypes'
        BY <1>0, <2>3, <2>7, <2>8 DEF OutreachTypes
    <2>12. 0 <= Len(events') /\ Len(events) <= Len(events')
        BY <1>0, <2>3 DEF OutreachTypes
    <2> QED  BY <2>3, <2>7, <2>8, <2>10, <2>11, <2>12, BookingMovesOn
<1>4. ASSUME NEW b \in Bookings, CallRemembered(b)
      PROVE  OutreachInv'
    <2> DEFINE n     == Len(events) + 1
               event == [place |-> calls[booking[b].call].to]
               new   == [booking[b] EXCEPT !.at = "scheduled", !.event = n]
    <2>1. booking[b] \in BookingsOf /\ booking[b].at = "called" /\ HasItsCall(b) /\ UNCHANGED <<calls, history>>
        BY <1>0, <1>4 DEF CallRemembered, OutreachInv, OutreachTypes, BookingsHaveCalls
    <2>2. event \in EventsOf /\ events \in Seq(EventsOf) /\ n \in Nat
        <3>1. booking[b].call \in DOMAIN calls
            BY <1>0, <2>1 DEF HasItsCall, OutreachTypes
        <3>2. calls[booking[b].call] \in CallsOf
            BY <1>0, <3>1 DEF OutreachTypes
        <3>3. event \in EventsOf
            BY <3>2 DEF CallsOf, EventsOf
        <3> QED  BY <1>0, <3>3 DEF OutreachTypes
    <2> HIDE DEF event
    <2>3. events' = Append(events, event)
        BY <1>4 DEF CallRemembered, event
    <2>4. events' \in Seq(EventsOf) /\ Len(events') = n
        BY <2>2, <2>3
    <2>5. booking' = [booking EXCEPT ![b] = new]
        BY <1>0, <1>4, <2>4 DEF CallRemembered, OutreachTypes, BookingsOf
    <2>6. new \in BookingsOf /\ new.at = "scheduled" /\ new.event = n /\ new.call = booking[b].call /\ new.wants = booking[b].wants
        <3> HIDE DEF n
        <3> QED  BY <2>1, <2>2 DEF BookingsOf
    <2> HIDE DEF new
    <2>7. OutreachTypes'
        BY <1>0, <2>1, <2>4, <2>5, <2>6 DEF OutreachTypes
    <2>8. booking'[b] = new
        BY <1>0, <2>5 DEF OutreachTypes
    <2>9. HasItsCall(b)' /\ KeysRingOnce' /\ AttemptsAreCalls'
        BY <1>0, <2>1, <2>6, <2>8 DEF HasItsCall, KeysRingOnce, AttemptsAreCalls
    <2>10. n > 0 /\ n <= Len(events') /\ n > Len(events) /\ Len(events) <= Len(events')
        BY <2>2, <2>4
    <2> HIDE DEF n
    <2> QED  BY <2>1, <2>5, <2>6, <2>7, <2>9, <2>10, BookingMovesOn
<1>5. ASSUME NEW b \in Bookings, BookingRemembered(b) \/ CutOffBooking(b)
      PROVE  OutreachInv'
    <2>1. PICK place \in {"confirmed", "cut off"} :
            /\ booking' = [booking EXCEPT ![b] = [booking[b] EXCEPT !.at = place]]
            /\ place = "confirmed" => booking[b].at = "scheduled"
        BY <1>0, <1>5 DEF BookingRemembered, CutOffBooking, OutreachTypes
    <2> DEFINE new == [booking[b] EXCEPT !.at = place]
    <2>2. /\ booking[b] \in BookingsOf /\ UNCHANGED <<calls, history, events>>
          /\ booking[b].event <= Len(events) /\ (booking[b].at = "scheduled" => HasItsCall(b) /\ booking[b].event > 0)
        BY <1>0, <1>5 DEF BookingRemembered, CutOffBooking, OutreachInv, OutreachTypes, BookingsHaveCalls, EventsAreApart
    <2>3. /\ new \in BookingsOf /\ new.at = place /\ new.event = booking[b].event
          /\ new.call = booking[b].call /\ new.wants = booking[b].wants
        BY <2>2 DEF BookingsOf
    <2> HIDE DEF new
    <2>4. booking' = [booking EXCEPT ![b] = new] /\ booking'[b] = new
        BY <1>0, <2>1 DEF OutreachTypes, new
    <2>5. OutreachTypes' /\ KeysRingOnce' /\ AttemptsAreCalls'
        BY <1>0, <2>2, <2>3, <2>4 DEF OutreachTypes, KeysRingOnce, AttemptsAreCalls
    <2>6. place = "confirmed" => HasItsCall(b)'
        BY <2>1, <2>2, <2>3, <2>4 DEF HasItsCall
    <2>7. Len(events) <= Len(events') /\ booking[b].event \in Nat
        <3>1. booking[b].event \in Nat
            BY <2>2 DEF BookingsOf
        <3> QED  BY <1>0, <2>2, <3>1, EventsAreCounted
    <2> QED  BY <2>1, <2>2, <2>3, <2>4, <2>5, <2>6, <2>7, BookingMovesOn
<1>6. ASSUME NEW w \in Wants,
             CreateEvent(PlaceId(w.place, 0)) \/ \E n \in 1..MaxEvents : UpdateEvent(n, PlaceId(w.place, 0))
      PROVE  OutreachInv'
    <2> PICK place \in PlaceIds : place = PlaceId(w.place, 0)
        BY PlacesRung
    <2>1. UNCHANGED <<calls, history, booking>> /\ events \in Seq(EventsOf)
        BY <1>0, <1>6 DEF CreateEvent, UpdateEvent, OutreachTypes
    <2>2. events' \in Seq(EventsOf) /\ Len(events) <= Len(events')
        <3>1. [place |-> place] \in EventsOf
            BY DEF EventsOf
        <3>2. CASE CreateEvent(PlaceId(w.place, 0))
            <4> PICK event \in EventsOf : event = [place |-> place]
                BY <3>1
            <4>1. events' = Append(events, event)
                BY <3>2 DEF CreateEvent
            <4> QED  BY <2>1, <4>1
        <3>3. CASE \E n \in 1..MaxEvents : UpdateEvent(n, PlaceId(w.place, 0))
            <4>1. PICK n \in DOMAIN events : events' = [events EXCEPT ![n] = [events[n] EXCEPT !.place = place]]
                BY <3>3 DEF UpdateEvent
            <4>2. events[n] \in EventsOf
                BY <2>1, <4>1
            <4>3. [events[n] EXCEPT !.place = place] \in EventsOf
                BY <4>2 DEF EventsOf
            <4> QED  BY <2>1, <4>1, <4>3, EntryChanges
        <3> QED  BY <1>6, <3>2, <3>3
    <2>3. OutreachTypes' /\ KeysRingOnce' /\ AttemptsAreCalls'
        BY <1>0, <2>1, <2>2 DEF OutreachTypes, KeysRingOnce, AttemptsAreCalls
    <2> QED  BY <2>1, <2>2, <2>3, BookingsRest
<1>7. CASE LoseProcess
    <2>0. calls' = <<>> /\ events' = <<>> /\ history' = {}
        BY <1>7 DEF LoseProcess
    <2>1. \A b \in Bookings :
                /\ booking'[b] \in BookingsOf
                /\ booking'[b].at \in {"none", "cut off"} /\ booking'[b].event = 0
        <3>1. ASSUME NEW b \in Bookings
              PROVE  LET new == [booking[b] EXCEPT !.at = "cut off", !.call = 0, !.event = 0]
                     IN  new \in BookingsOf /\ new.at = "cut off" /\ new.event = 0
            <4>1. booking[b] \in BookingsOf
                BY <1>0 DEF OutreachTypes
            <4> QED  BY <4>1 DEF BookingsOf
        <3>2. Unbooked \in BookingsOf /\ Unbooked.at = "none" /\ Unbooked.event = 0
            BY DEF Unbooked, BookingsOf
        <3> QED  BY <1>7, <3>1, <3>2 DEF LoseProcess
    <2>2. booking' \in [Bookings -> BookingsOf]
        BY <1>7, <2>1 DEF LoseProcess
    <2>3. DOMAIN calls' = {} /\ calls' \in Seq(CallsOf) /\ events' \in Seq(EventsOf) /\ Len(events') = 0
        <3>1. <<>> \in Seq(CallsOf) /\ <<>> \in Seq(EventsOf) /\ DOMAIN <<>> = {} /\ Len(<<>>) = 0
            OBVIOUS
        <3> QED  BY <2>0, <3>1
    <2>4. OutreachTypes' /\ KeysRingOnce' /\ AttemptsAreCalls'
        BY <2>0, <2>2, <2>3 DEF OutreachTypes, KeysRingOnce, AttemptsAreCalls
    <2>5. BookingsHaveCalls'
        BY <2>1 DEF BookingsHaveCalls
    <2>6. EventsAreApart'
        <3>1. \A b \in Bookings : booking'[b].at \notin {"scheduled", "confirmed"} /\ booking'[b].event = 0
            BY <2>1
        <3>2. 0 <= Len(events')
            BY <2>3
        <3> QED  BY <3>1, <3>2 DEF EventsAreApart
    <2> QED  BY <2>4, <2>5, <2>6 DEF OutreachInv
<1>8. CASE MessagesNext \/ UNCHANGED outreachVars
    <2>1. UNCHANGED <<calls, history, events, booking>>
        BY <1>8 DEF MessagesNext, SendEmail, SendText, Broadcast, GmailSend, GmailDraft, ScheduleFollowUp, Sends, outreachVars
    <2>2. OutreachTypes' /\ KeysRingOnce' /\ AttemptsAreCalls'
        BY <1>0, <2>1 DEF OutreachTypes, KeysRingOnce, AttemptsAreCalls
    <2>3. Len(events) <= Len(events')
        BY <1>0, <2>1 DEF OutreachTypes
    <2> QED  BY <2>1, <2>2, <2>3, BookingsRest
<1> QED  BY <1>1, <1>2, <1>3, <1>4, <1>5, <1>6, <1>7, <1>8 DEF OutreachNext

\* A place is rung once for a time, however often its booking is tried, and a confirmed
\* booking has its own call and its own event, for any bookings and places, through cut-offs
\* and losses of the process.
THEOREM BookingsAreBacked == OutreachSpec => []BookingsBacked
<1>1. OutreachInit => OutreachInv
    <2> SUFFICES ASSUME OutreachInit PROVE OutreachInv
        OBVIOUS
    <2>1. Unbooked \in BookingsOf /\ Unbooked.at = "none" /\ Unbooked.event = 0
        BY DEF Unbooked, BookingsOf
    <2> QED  BY <2>1 DEF OutreachInit, OutreachInv, OutreachTypes, KeysRingOnce, AttemptsAreCalls, BookingsHaveCalls,
                         EventsAreApart
<1>2. OutreachInv /\ [OutreachNext \/ MessagesNext]_outreachVars => OutreachInv'
    BY OutreachStep
<1>3. OutreachInv => BookingsBacked
    <2> SUFFICES ASSUME OutreachInv PROVE BookingsBacked
        OBVIOUS
    <2>1. KeysRingOnce /\ history \subseteq DOMAIN calls
        BY DEF OutreachInv, OutreachTypes
    <2>2. ASSUME NEW b \in Bookings, booking[b].at = "confirmed"
          PROVE  /\ HasItsCall(b) /\ booking[b].event \in DOMAIN events
                 /\ \A c \in Bookings \ {b} : booking[c].event # booking[b].event
        <3>1. booking[b] \in BookingsOf /\ DOMAIN events = 1..Len(events) /\ Len(events) \in Nat
            BY DEF OutreachInv, OutreachTypes
        <3>2. booking[b].event \in Nat
            BY <3>1 DEF BookingsOf
        <3> QED  BY <2>2, <3>1, <3>2 DEF OutreachInv, BookingsHaveCalls, EventsAreApart
    <2> QED  BY <2>1, <2>2 DEF KeysRingOnce, HasItsCall, BookingsBacked
<1> QED  BY <1>1, <1>2, <1>3, PTL DEF OutreachSpec

-----------------------------------------------------------------------------
(***************************************************************************)
(* ReasoningLoop.  A run below another works while that one waits for it,  *)
(* and ends before it.                                                     *)
(***************************************************************************)
ToolCalls == Callable \cup {ToolCall("answer", TRUE)} \cup {Head(Deterministic(w)) : w \in Words}
Outcome  == {"ok", "error", "simulated", "none"}
StepsOf  == ToolCalls \X Outcome
Working  == {"thinking", "acting", "waiting", "closing", "exhausted"}
LoopsOf  == [at : Working \cup {"unborn", "ended", "raised", "cut off"}, given : Nat, turn : Nat, calls : Seq(ToolCalls),
             steps : Seq(StepsOf), parent : Runs \cup {"none"},
             status : {"none", "SUCCESS", "FAILED", "INCOMPLETE", "PARTIAL_SUCCESS"}]

LoopTypes == run \in [Runs -> LoopsOf] /\ trajectories \in Seq(Runs)

\* What the place of a run in its loop says of its turns, its steps and its status.
InTurn(loop) ==
    /\ loop.at = "unborn" => loop = Unborn
    /\ loop.at \in {"thinking", "acting", "waiting", "exhausted"} =>
         loop.given > 0 /\ Called(loop.steps) = DOMAIN loop.steps
    /\ loop.at \in {"acting", "waiting"} => loop.calls # <<>>
    /\ loop.at = "closing" => loop.given = 0 \/ Called(loop.steps) # DOMAIN loop.steps
    /\ loop.turn <= IF loop.given = 0 THEN 1 ELSE loop.given
    /\ loop.at # "ended" => loop.status = "none"
    /\ loop.at = "raised" => Malformed(loop.steps) # {}
    /\ loop.at = "ended" =>
         /\ Malformed(loop.steps) = {}
         /\ loop.status = "SUCCESS" => Errors(loop.steps) = {}
         /\ loop.status = "FAILED" => Oks(loop.steps) = {} /\ Errors(loop.steps) # {}
         /\ loop.status = "INCOMPLETE" <=> loop.given > 0 /\ Called(loop.steps) = DOMAIN loop.steps

RunsInTurn == \A r \in Runs : InTurn(run[r])

NotBelowItself == \A c \in Runs : run[c].parent # c

ParentsWait == \A c \in Runs : run[c].at \in Working /\ run[c].parent # "none" =>
                 run[run[c].parent].at \in {"waiting", "cut off"}

OneAtWork == \A c, d \in Runs :
    run[c].at \in Working /\ run[d].at \in Working /\ run[c].parent = run[d].parent => c = d \/ run[c].parent = "none"

SomeoneIsAwaited == \A r \in Runs : run[r].at = "waiting" =>
                      \E c \in Runs : run[c].parent = r /\ run[c].at \notin {"ended", "raised", "unborn"}

\* A parent waits for its subagent, and has one at work at most.
Family == NotBelowItself /\ ParentsWait /\ OneAtWork /\ SomeoneIsAwaited

RecordedEnded  == \A n \in DOMAIN trajectories : run[trajectories[n]].at = "ended"
EndedRecorded  == \A r \in Runs : run[r].at = "ended" => \E n \in DOMAIN trajectories : trajectories[n] = r
RecordedOnce   == \A m, n \in DOMAIN trajectories : trajectories[m] = trajectories[n] => m = n
RecordedBefore == \A m, n \in DOMAIN trajectories : run[trajectories[m]].parent = trajectories[n] => m < n

Recorded == RecordedEnded /\ EndedRecorded /\ RecordedOnce /\ RecordedBefore

LoopInv == LoopTypes /\ RunsInTurn /\ Family /\ Recorded

LEMMA UnbornLoop == Unborn \in LoopsOf /\ InTurn(Unborn)
<1>1. /\ Unborn.at = "unborn" /\ Unborn.given = 0 /\ Unborn.turn = 0 /\ Unborn.status = "none"
      /\ Unborn.steps = <<>> /\ Unborn.calls = <<>> /\ Unborn.parent = "none"
    BY DEF Unborn
<1>2. Unborn \in LoopsOf
    <2>1. <<>> \in Seq(ToolCalls) /\ <<>> \in Seq(StepsOf)
        OBVIOUS
    <2> QED  BY <2>1 DEF Unborn, LoopsOf
<1> QED  BY <1>1, <1>2 DEF InTurn

\* A run that begins.
LEMMA Begins ==
    ASSUME NEW r, NEW turns \in Nat, NEW parent \in Runs \cup {"none"}
    PROVE  LET new == Begin(r, turns, parent)
           IN  /\ new \in LoopsOf /\ InTurn(new) /\ new.parent = parent
               /\ new.at \in {"closing", "thinking"}
<1> DEFINE at  == IF turns = 0 THEN "closing" ELSE "thinking"
           new == [at |-> at, given |-> turns, turn |-> 1, calls |-> <<>>, steps |-> <<>>, parent |-> parent,
                   status |-> "none"]
<1>1. new = Begin(r, turns, parent)
    <2>1. Begin(r, turns, parent) = [Unborn EXCEPT !.at = at, !.given = turns, !.turn = 1, !.parent = parent]
        BY DEF Begin
    <2> HIDE DEF at
    <2> QED  BY <2>1 DEF Unborn
<1>2. <<>> \in Seq(ToolCalls) /\ <<>> \in Seq(StepsOf) /\ DOMAIN <<>> = {}
    OBVIOUS
<1>3. new \in LoopsOf
    BY <1>2 DEF LoopsOf, Working
<1>4. /\ new.at = at /\ new.given = turns /\ new.turn = 1 /\ new.steps = <<>> /\ new.status = "none"
      /\ new.parent = parent
    OBVIOUS
<1>5. Called(new.steps) = DOMAIN new.steps
    BY <1>2, <1>4 DEF Called
<1> HIDE DEF new
<1>6. InTurn(new) /\ new.at \in {"closing", "thinking"}
    BY <1>4, <1>5 DEF InTurn
<1> QED  BY <1>1, <1>3, <1>4, <1>6

\* A step is added.
LEMMA StepAdded ==
    ASSUME NEW steps \in Seq(StepsOf), NEW step \in StepsOf
    PROVE  /\ Append(steps, step) \in Seq(StepsOf)
           /\ step[2] # "none" /\ Called(steps) = DOMAIN steps =>
                Called(Append(steps, step)) = DOMAIN Append(steps, step)
           /\ step[2] = "none" => Called(Append(steps, step)) # DOMAIN Append(steps, step)
<1> DEFINE more == Append(steps, step)
<1>1. /\ more \in Seq(StepsOf) /\ DOMAIN more = DOMAIN steps \cup {Len(steps) + 1} /\ more[Len(steps) + 1] = step
      /\ \A n \in DOMAIN steps : more[n] = steps[n]
    OBVIOUS
<1> HIDE DEF more
<1>2. step[2] # "none" /\ Called(steps) = DOMAIN steps => Called(more) = DOMAIN more
    BY <1>1 DEF Called
<1>3. step[2] = "none" => Called(more) # DOMAIN more
    BY <1>1 DEF Called
<1> QED  BY <1>1, <1>2, <1>3 DEF more

\* The step of a call that is in line.
LEMMA StepsOn ==
    ASSUME NEW loop \in LoopsOf, InTurn(loop), loop.at \in {"acting", "waiting"}, NEW outcome \in Outcome \ {"none"}
    PROVE  LET new == Stepped(loop, outcome)
           IN  /\ new \in LoopsOf /\ InTurn(new) /\ new.parent = loop.parent
               /\ new.at \in {"acting", "thinking", "exhausted"}
<1> DEFINE rest  == Tail(loop.calls)
           last  == rest = <<>> /\ loop.turn = loop.given
           at    == IF rest # <<>> THEN "acting" ELSE IF last THEN "exhausted" ELSE "thinking"
           turn  == IF rest = <<>> /\ ~last THEN loop.turn + 1 ELSE loop.turn
           steps == Append(loop.steps, <<Head(loop.calls), outcome>>)
           new   == [loop EXCEPT !.steps = steps, !.calls = rest, !.at = at, !.turn = turn]
<1>1. new = Stepped(loop, outcome)
    BY DEF Stepped
<1>2. /\ loop.calls \in Seq(ToolCalls) /\ loop.steps \in Seq(StepsOf) /\ loop.given \in Nat /\ loop.turn \in Nat
      /\ loop.parent \in Runs \cup {"none"}
    BY DEF LoopsOf
<1>3. /\ loop.calls # <<>> /\ loop.given > 0 /\ Called(loop.steps) = DOMAIN loop.steps
      /\ loop.turn <= loop.given /\ loop.status = "none"
    BY <1>2 DEF InTurn
<1>4. rest \in Seq(ToolCalls) /\ Head(loop.calls) \in ToolCalls
    BY <1>2, <1>3
<1>5. <<Head(loop.calls), outcome>> \in StepsOf
    BY <1>4 DEF StepsOf
<1>6. steps \in Seq(StepsOf) /\ Called(steps) = DOMAIN steps
    <2> PICK step \in StepsOf : step = <<Head(loop.calls), outcome>>
        BY <1>5
    <2>1. step[2] # "none"
        OBVIOUS
    <2> QED  BY <1>2, <1>3, <2>1, StepAdded
<1>7. turn \in Nat /\ turn <= loop.given
    BY <1>2, <1>3
<1>8. at \in {"acting", "thinking", "exhausted"} /\ (at = "acting" => rest # <<>>)
    OBVIOUS
<1> HIDE DEF rest, last, at, turn, steps
<1>9. /\ new.at = at /\ new.turn = turn /\ new.calls = rest /\ new.steps = steps /\ new.given = loop.given
      /\ new.parent = loop.parent /\ new.status = loop.status
    BY DEF LoopsOf
<1>10. new \in LoopsOf
    BY <1>4, <1>6, <1>7, <1>8 DEF LoopsOf, Working
<1> HIDE DEF new
<1>11. InTurn(new)
    BY <1>2, <1>3, <1>6, <1>7, <1>8, <1>9 DEF InTurn
<1> QED  BY <1>1, <1>8, <1>9, <1>10, <1>11

LEMMA RecordsRest ==
    ASSUME LoopTypes, Recorded, UNCHANGED trajectories,
           \A x \in Runs : run'[x].at = "ended" <=> run[x].at = "ended",
           \A x \in Runs : run[x].at = "ended" => run'[x].parent = run[x].parent
    PROVE  Recorded'
<1>1. \A n \in DOMAIN trajectories : trajectories[n] \in Runs
    BY DEF LoopTypes
<1>2. RecordedEnded'
    BY <1>1 DEF Recorded, RecordedEnded
<1>3. EndedRecorded'
    BY DEF Recorded, EndedRecorded
<1>4. RecordedOnce'
    BY DEF Recorded, RecordedOnce
<1>5. RecordedBefore'
    <2>1. \A n \in DOMAIN trajectories : run'[trajectories[n]].parent = run[trajectories[n]].parent
        BY <1>1 DEF Recorded, RecordedEnded
    <2> QED  BY <1>1, <2>1 DEF Recorded, RecordedBefore
<1> QED  BY <1>2, <1>3, <1>4, <1>5 DEF Recorded

\* A run that works goes on, its parent waiting as before.
LEMMA RunGoesOn ==
    ASSUME LoopInv, NEW r \in Runs, run[r].at \in {"thinking", "acting"}, NEW new \in LoopsOf, InTurn(new),
           new.parent = run[r].parent, new.at \in {"acting", "thinking", "closing", "exhausted"},
           run' = [run EXCEPT ![r] = new], UNCHANGED trajectories
    PROVE  LoopInv'
<1>1. /\ run'[r] = new /\ \A x \in Runs \ {r} : run'[x] = run[x]
      /\ \A x \in Runs : run'[x].parent = run[x].parent /\ run[x].parent \in Runs \cup {"none"}
    BY DEF LoopInv, LoopTypes, LoopsOf
<1>2. LoopTypes'
    BY DEF LoopInv, LoopTypes
<1>3. RunsInTurn'
    BY <1>1 DEF LoopInv, RunsInTurn
<1>4. Family'
    <2>0. NotBelowItself /\ ParentsWait /\ OneAtWork /\ SomeoneIsAwaited
        BY DEF LoopInv, Family
    <2>1. \A c \in Runs : run'[c].at \in Working => run[c].at \in Working
        BY <1>1 DEF Working
    <2>2. \A c \in Runs : run[c].at \in Working => run[c].parent # r
        BY <2>0, LoopAssumption DEF ParentsWait
    <2>3. ParentsWait'
        <3> SUFFICES ASSUME NEW c \in Runs, run'[c].at \in Working, run'[c].parent # "none"
                     PROVE  run'[run'[c].parent].at \in {"waiting", "cut off"}
            BY DEF ParentsWait
        <3>1. run[c].at \in Working /\ run'[c].parent = run[c].parent /\ run[c].parent \in Runs \ {r}
            BY <1>1, <2>1, <2>2
        <3>2. run[run[c].parent].at \in {"waiting", "cut off"}
            BY <2>0, <3>1 DEF ParentsWait
        <3> QED  BY <1>1, <3>1, <3>2
    <2>4. SomeoneIsAwaited'
        <3> SUFFICES ASSUME NEW x \in Runs, run'[x].at = "waiting"
                     PROVE  \E c \in Runs : run'[c].parent = x /\ run'[c].at \notin {"ended", "raised", "unborn"}
            BY DEF SomeoneIsAwaited
        <3>1. run[x].at = "waiting"
            BY <1>1
        <3>2. PICK c \in Runs : run[c].parent = x /\ run[c].at \notin {"ended", "raised", "unborn"}
            BY <2>0, <3>1 DEF SomeoneIsAwaited
        <3>3. run'[c].parent = x /\ run'[c].at \notin {"ended", "raised", "unborn"}
            BY <1>1, <3>2
        <3> QED  BY <3>3
    <2>5. OneAtWork'
        BY <1>1, <2>0, <2>1 DEF OneAtWork
    <2>6. NotBelowItself'
        BY <1>1, <2>0 DEF NotBelowItself
    <2> QED  BY <2>3, <2>4, <2>5, <2>6 DEF Family
<1>5. Recorded'
    <2>1. \A x \in Runs : run'[x].at = "ended" <=> run[x].at = "ended"
        BY <1>1
    <2> QED  BY <1>1, <2>1, RecordsRest DEF LoopInv
<1> QED  BY <1>2, <1>3, <1>4, <1>5 DEF LoopInv

\* A run that begins, of its own or for a parent that waits for it from now on.
LEMMA RunBegins ==
    ASSUME LoopInv, NEW c \in Runs, run[c] = Unborn, NEW turns \in Nat, NEW p \in (Runs \ {c}) \cup {"none"},
           p # "none" => run[p].at = "acting",
           run' \in [Runs -> LoopsOf], run'[c] = Begin(c, turns, p),
           p # "none" => run'[p] = [run[p] EXCEPT !.at = "waiting"],
           \A x \in Runs \ {c, p} : run'[x] = run[x],
           UNCHANGED trajectories
    PROVE  LoopInv'
<1>0. /\ "none" \notin Runs /\ LoopTypes /\ RunsInTurn /\ Recorded
      /\ NotBelowItself /\ ParentsWait /\ OneAtWork /\ SomeoneIsAwaited
    BY LoopAssumption DEF LoopInv, Family
<1>1. /\ run'[c] \in LoopsOf /\ InTurn(run'[c]) /\ run'[c].parent = p /\ run'[c].at \in {"closing", "thinking"}
      /\ run[c].at = "unborn" /\ run[c].parent = "none"
    BY Begins DEF Unborn
<1>2. ASSUME p # "none"
      PROVE  /\ p \in Runs /\ InTurn(run'[p]) /\ run'[p].at = "waiting" /\ run'[p].parent = run[p].parent
    <2>1. run[p] \in LoopsOf /\ InTurn(run[p]) /\ run[p].at = "acting" /\ p \in Runs
        BY <1>0, <1>2 DEF LoopTypes, RunsInTurn
    <2> DEFINE new == [run[p] EXCEPT !.at = "waiting"]
    <2>2. /\ new.at = "waiting" /\ new.parent = run[p].parent /\ new.given = run[p].given
          /\ new.steps = run[p].steps /\ new.calls = run[p].calls /\ new.turn = run[p].turn
          /\ new.status = run[p].status
        BY <2>1 DEF LoopsOf
    <2>3. run'[p] = new
        BY <1>2
    <2> HIDE DEF new
    <2> QED  BY <2>1, <2>2, <2>3 DEF InTurn
<1>3. LoopTypes'
    BY <1>0 DEF LoopTypes
<1>4. RunsInTurn'
    BY <1>0, <1>1, <1>2 DEF RunsInTurn
<1>5. \A x \in Runs \ {c} : run'[x].parent = run[x].parent
    BY <1>0, <1>2
<1>6. \A x \in Runs \ {c} : run'[x].at \in Working => run[x].at \in Working
    BY <1>0, <1>2 DEF Working
<1>7. Family'
    <2>1. \A x \in Runs : run[x].at \in Working /\ p # "none" => run[x].parent # p
        BY <1>0 DEF ParentsWait
    <2>2. \A x \in Runs : run[x].at \in Working => run[x].parent # c
        BY <1>0, <1>1 DEF ParentsWait
    <2>3. NotBelowItself'
        BY <1>0, <1>1, <1>5 DEF NotBelowItself
    <2>4. ParentsWait'
        <3> SUFFICES ASSUME NEW x \in Runs, run'[x].at \in Working, run'[x].parent # "none"
                     PROVE  run'[run'[x].parent].at \in {"waiting", "cut off"}
            BY DEF ParentsWait
        <3>1. CASE x = c
            BY <3>1, <1>1, <1>2
        <3>2. CASE x # c
            <4>1. run[x].at \in Working /\ run'[x].parent = run[x].parent /\ run[x].parent \notin {c, p}
                BY <3>2, <1>5, <1>6, <2>1, <2>2
            <4>2. run[x].parent \in Runs
                BY <1>0, <4>1 DEF LoopTypes, LoopsOf
            <4>3. run[run[x].parent].at \in {"waiting", "cut off"}
                BY <1>0, <4>1 DEF ParentsWait
            <4> QED  BY <4>1, <4>2, <4>3
        <3> QED  BY <3>1, <3>2
    <2>5. OneAtWork'
        BY <1>0, <1>1, <1>5, <1>6, <2>1 DEF OneAtWork
    <2>6. SomeoneIsAwaited'
        <3> SUFFICES ASSUME NEW x \in Runs, run'[x].at = "waiting"
                     PROVE  \E y \in Runs : run'[y].parent = x /\ run'[y].at \notin {"ended", "raised", "unborn"}
            BY DEF SomeoneIsAwaited
        <3>1. CASE x = p
            BY <3>1, <1>1
        <3>2. CASE x # p
            <4>1. run[x].at = "waiting"
                BY <3>2, <1>1
            <4>2. PICK y \in Runs : run[y].parent = x /\ run[y].at \notin {"ended", "raised", "unborn"}
                BY <1>0, <4>1 DEF SomeoneIsAwaited
            <4>3. y # c /\ run'[y].parent = x
                BY <4>2, <1>1, <1>5
            <4>4. run'[y].at \notin {"ended", "raised", "unborn"}
                BY <4>2, <4>3, <1>0, <1>2
            <4> QED  BY <4>3, <4>4
        <3> QED  BY <3>1, <3>2
    <2> QED  BY <2>3, <2>4, <2>5, <2>6 DEF Family
<1>8. Recorded'
    <2>1. \A x \in Runs : run'[x].at = "ended" <=> run[x].at = "ended"
        BY <1>0, <1>1, <1>2
    <2>2. \A x \in Runs : run[x].at = "ended" => run'[x].parent = run[x].parent
        BY <1>1, <1>5
    <2> QED  BY <1>0, <2>1, <2>2, RecordsRest
<1> QED  BY <1>3, <1>4, <1>7, <1>8 DEF LoopInv

\* How a run leaves its loop: recorded, or with an error.
Leaving(r, at, status) ==
    \/ /\ at = "ended" /\ status = Judged(r) /\ Malformed(run[r].steps) = {}
       /\ trajectories' = Append(trajectories, r)
    \/ at = "raised" /\ status = "none" /\ Malformed(run[r].steps) # {} /\ UNCHANGED trajectories

\* The run is over, and its parent, if it waits, has the step of the call.
LEMMA RunEnds ==
    ASSUME LoopInv, NEW r \in Runs, run[r].at \in {"closing", "exhausted"}, NEW at, NEW status,
           NEW outcome \in Outcome \ {"none"}, EndRun(r, at, status, outcome), Leaving(r, at, status)
    PROVE  LoopInv'
<1> DEFINE p    == run[r].parent
           ends == [run[r] EXCEPT !.at = at, !.status = status]
           on   == Stepped(run[p], outcome)
<1>0. /\ "none" \notin Runs /\ LoopTypes /\ RunsInTurn /\ Recorded
      /\ NotBelowItself /\ ParentsWait /\ OneAtWork /\ SomeoneIsAwaited
    BY LoopAssumption DEF LoopInv, Family
<1>1. /\ run[r] \in LoopsOf /\ InTurn(run[r]) /\ run[r].at \in {"closing", "exhausted"} /\ p \in Runs \cup {"none"} /\ p # r
      /\ p # "none" => run[p] \in LoopsOf /\ run[p].at \in {"waiting", "cut off"}
    <2>1. run[r] \in LoopsOf /\ run[r].at \in {"closing", "exhausted"} /\ p # r /\ InTurn(run[r])
        BY <1>0 DEF LoopTypes, RunsInTurn, NotBelowItself
    <2>2. p \in Runs \cup {"none"}
        BY <2>1 DEF LoopsOf
    <2>3. p # "none" => run[p].at \in {"waiting", "cut off"}
        BY <1>0, <2>1 DEF ParentsWait, Working
    <2> QED  BY <1>0, <2>1, <2>2, <2>3 DEF LoopTypes
<1>2. ends \in LoopsOf /\ InTurn(ends) /\ ends.at = at /\ at \in {"ended", "raised"} /\ ends.parent = p
    <2>1. /\ Judged(r) \in {"SUCCESS", "FAILED", "INCOMPLETE", "PARTIAL_SUCCESS"}
          /\ status \in {"none", "SUCCESS", "FAILED", "INCOMPLETE", "PARTIAL_SUCCESS"}
          /\ \/ at = "ended" /\ status = Judged(r) /\ Malformed(run[r].steps) = {}
             \/ at = "raised" /\ status = "none" /\ Malformed(run[r].steps) # {}
        BY DEF Judged, Leaving
    <2>2. ends \in LoopsOf
        BY <1>1, <2>1 DEF LoopsOf
    <2>3. /\ ends.at = at /\ ends.status = status /\ ends.given = run[r].given /\ ends.turn = run[r].turn
          /\ ends.steps = run[r].steps /\ ends.parent = p
        BY <1>1 DEF LoopsOf
    <2> HIDE DEF ends, p
    <2>4. /\ Judged(r) = "INCOMPLETE" <=> run[r].given > 0 /\ Called(run[r].steps) = DOMAIN run[r].steps
          /\ run[r].turn <= IF run[r].given = 0 THEN 1 ELSE run[r].given
        <3>1. run[r].given \in Nat
            BY <1>1 DEF LoopsOf
        <3>2. run[r].turn <= IF run[r].given = 0 THEN 1 ELSE run[r].given
            BY <1>1 DEF InTurn
        <3>3. run[r].at = "exhausted" <=> run[r].given > 0 /\ Called(run[r].steps) = DOMAIN run[r].steps
            <4>1. run[r].at = "exhausted" => run[r].given > 0 /\ Called(run[r].steps) = DOMAIN run[r].steps
                BY <1>1 DEF InTurn
            <4>2. run[r].at = "closing" => run[r].given = 0 \/ Called(run[r].steps) # DOMAIN run[r].steps
                BY <1>1 DEF InTurn
            <4>3. ~(run[r].given > 0 /\ run[r].given = 0)
                BY <3>1
            <4>4. run[r].at = "closing" => ~(run[r].given > 0 /\ Called(run[r].steps) = DOMAIN run[r].steps)
                BY <4>2, <4>3
            <4>5. run[r].at \in {"closing", "exhausted"} /\ "closing" # "exhausted"
                BY <1>1
            <4> QED  BY <4>1, <4>4, <4>5
        <3>4. run[r].at = "exhausted" <=> Judged(r) = "INCOMPLETE"
            BY <1>1 DEF Judged
        <3> QED  BY <3>2, <3>3, <3>4
    <2>5. /\ Judged(r) = "SUCCESS" => Errors(run[r].steps) = {}
          /\ Judged(r) = "FAILED" => Oks(run[r].steps) = {} /\ Errors(run[r].steps) # {}
        BY DEF Judged
    <2> QED  BY <2>1, <2>2, <2>3, <2>4, <2>5 DEF InTurn
<1>3. ASSUME p # "none", run[p].at = "waiting"
      PROVE  on \in LoopsOf /\ InTurn(on) /\ on.parent = run[p].parent /\ on.at \in {"acting", "thinking", "exhausted"}
    <2>1. p \in Runs /\ InTurn(run[p])
        BY <1>0, <1>1, <1>3 DEF RunsInTurn
    <2> HIDE DEF p
    <2> QED  BY <1>1, <1>3, <2>1, StepsOn
<1>4. \/ at = "ended" /\ trajectories' = Append(trajectories, r)
      \/ at = "raised" /\ UNCHANGED trajectories
    BY DEF Leaving
<1>5. /\ run' \in [Runs -> LoopsOf] /\ run'[r] = ends
      /\ p # "none" /\ run[p].at = "waiting" => run'[p] = on
      /\ \A x \in Runs \ {r} : x # p \/ run[x].at # "waiting" => run'[x] = run[x]
    <2> DEFINE judged == [run EXCEPT ![r] = ends]
    <2>1. run' = IF p # "none" /\ run[p].at = "waiting" THEN [judged EXCEPT ![p] = on] ELSE judged
        BY <1>0 DEF EndRun, LoopTypes, LoopsOf
    <2> HIDE DEF ends, on
    <2>2. judged \in [Runs -> LoopsOf]
        BY <1>0, <1>2 DEF LoopTypes
    <2>3. judged[r] = ends /\ \A x \in Runs \ {r} : judged[x] = run[x]
        BY <1>0 DEF LoopTypes
    <2> HIDE DEF judged, p
    <2>4. CASE p # "none" /\ run[p].at = "waiting"
        <3>1. p \in Runs \ {r} /\ run' = [judged EXCEPT ![p] = on] /\ on \in LoopsOf
            BY <1>1, <1>3, <2>1, <2>4
        <3> QED  BY <2>2, <2>3, <2>4, <3>1
    <2>5. CASE ~(p # "none" /\ run[p].at = "waiting")
        BY <1>0, <2>1, <2>2, <2>3, <2>5
    <2> QED  BY <2>4, <2>5
<1> HIDE DEF ends, on
<1>51. ASSUME NEW x \in Runs \ {r}
       PROVE  \/ run'[x] = run[x] /\ ~(x = p /\ run[x].at = "waiting")
              \/ /\ x = p /\ run[x].at = "waiting"
                 /\ run'[x].at \in {"acting", "thinking", "exhausted"} /\ run'[x].parent = run[x].parent
    BY <1>0, <1>3, <1>5
<1>6. \A x \in Runs : run'[x].parent = run[x].parent
    BY <1>2, <1>5, <1>51
<1>7. /\ \A x \in Runs : run'[x].at \in Working => run[x].at \in Working /\ x # r
      /\ \A x \in Runs : run'[x].at = "waiting" => run[x].at = "waiting" /\ x # p
      /\ \A x \in Runs \ {r} : x # p => run'[x].at = run[x].at
    BY <1>2, <1>5, <1>51 DEF Working
<1>8. LoopTypes'
    BY <1>0, <1>4, <1>5 DEF LoopTypes
<1>9. RunsInTurn'
    BY <1>0, <1>2, <1>3, <1>5 DEF RunsInTurn
<1>10. Family'
    <2>1. \A x \in Runs : run'[x].at \in Working /\ p # "none" => run[x].parent # p
        BY <1>0, <1>1, <1>7 DEF OneAtWork, Working
    <2>2. \A x \in Runs : run[x].at \in Working => run[x].parent # r
        BY <1>0, <1>1 DEF ParentsWait
    <2>3. NotBelowItself'
        BY <1>0, <1>6 DEF NotBelowItself
    <2>4. ParentsWait'
        <3> SUFFICES ASSUME NEW x \in Runs, run'[x].at \in Working, run'[x].parent # "none"
                     PROVE  run'[run'[x].parent].at \in {"waiting", "cut off"}
            BY DEF ParentsWait
        <3>1. run[x].at \in Working /\ run'[x].parent = run[x].parent /\ run[x].parent \notin {r, p}
            BY <1>6, <1>7, <2>1, <2>2
        <3>2. run[x].parent \in Runs
            BY <1>0, <3>1 DEF LoopTypes, LoopsOf
        <3>3. run[run[x].parent].at \in {"waiting", "cut off"}
            BY <1>0, <3>1 DEF ParentsWait
        <3> QED  BY <1>7, <3>1, <3>2, <3>3
    <2>5. OneAtWork'
        BY <1>0, <1>6, <1>7 DEF OneAtWork
    <2>6. SomeoneIsAwaited'
        <3> SUFFICES ASSUME NEW x \in Runs, run'[x].at = "waiting"
                     PROVE  \E y \in Runs : run'[y].parent = x /\ run'[y].at \notin {"ended", "raised", "unborn"}
            BY DEF SomeoneIsAwaited
        <3>1. run[x].at = "waiting" /\ x # p
            BY <1>7
        <3>2. PICK y \in Runs : run[y].parent = x /\ run[y].at \notin {"ended", "raised", "unborn"}
            BY <1>0, <3>1 DEF SomeoneIsAwaited
        <3>3. y # r
            BY <3>1, <3>2
        <3>4. run'[y].at \notin {"ended", "raised", "unborn"}
            BY <1>51, <3>2, <3>3
        <3> QED  BY <1>6, <3>2, <3>4
    <2> QED  BY <2>3, <2>4, <2>5, <2>6 DEF Family
<1>11. CASE at = "raised"
    <2>1. \A x \in Runs : run'[x].at = "ended" <=> run[x].at = "ended"
        BY <1>1, <1>2, <1>5, <1>51, <1>11
    <2>2. Recorded'
        BY <1>0, <1>4, <1>6, <1>11, <2>1, RecordsRest
    <2> QED  BY <1>8, <1>9, <1>10, <2>2 DEF LoopInv
<1>12. CASE at = "ended"
    <2> DEFINE n == Len(trajectories) + 1
    <2>1. /\ trajectories' \in Seq(Runs) /\ DOMAIN trajectories' = DOMAIN trajectories \cup {n} /\ trajectories'[n] = r
          /\ \A m \in DOMAIN trajectories : trajectories'[m] = trajectories[m] /\ trajectories[m] \in Runs /\ m < n
          /\ n \in Nat /\ n \notin DOMAIN trajectories
        BY <1>0, <1>4, <1>12 DEF LoopTypes
    <2> HIDE DEF n
    <2>2. \A x \in Runs : run'[x].at = "ended" <=> run[x].at = "ended" \/ x = r
        BY <1>2, <1>5, <1>51, <1>12
    <2>3. \A m \in DOMAIN trajectories : trajectories[m] # r /\ trajectories[m] # p
        <3>1. \A m \in DOMAIN trajectories : run[trajectories[m]].at = "ended" /\ trajectories[m] \in Runs
            BY <1>0, <2>1 DEF Recorded, RecordedEnded
        <3> QED  BY <1>0, <1>1, <3>1
    <2>4. RecordedEnded'
        BY <1>0, <2>1, <2>2 DEF Recorded, RecordedEnded
    <2>5. EndedRecorded'
        BY <1>0, <2>1, <2>2 DEF Recorded, EndedRecorded
    <2>6. RecordedOnce'
        BY <1>0, <2>1, <2>3 DEF Recorded, RecordedOnce
    <2>7. RecordedBefore'
        <3> SUFFICES ASSUME NEW l \in DOMAIN trajectories', NEW m \in DOMAIN trajectories',
                            run'[trajectories'[l]].parent = trajectories'[m]
                     PROVE  l < m
            BY DEF RecordedBefore
        <3>1. CASE l = n
            <4>1. run'[trajectories'[l]].parent = p
                BY <1>6, <2>1, <3>1
            <4> QED  BY <1>1, <2>1, <2>3, <4>1
        <3>2. CASE l # n
            <4>1. /\ l \in DOMAIN trajectories /\ trajectories'[l] = trajectories[l]
                  /\ run[trajectories[l]].parent = trajectories'[m]
                BY <1>6, <2>1, <3>2
            <4> QED  BY <1>0, <2>1, <4>1 DEF Recorded, RecordedBefore
        <3> QED  BY <3>1, <3>2
    <2>8. Recorded'
        BY <2>4, <2>5, <2>6, <2>7 DEF Recorded
    <2> QED  BY <1>8, <1>9, <1>10, <2>8 DEF LoopInv
<1> QED  BY <1>2, <1>11, <1>12

\* Some runs that have not ended are cut off, and nothing else changes.
LEMMA RunsAreCutOff ==
    ASSUME LoopInv, NEW r \in Runs, CutOff(r)
    PROVE  LoopInv'
<1>0. /\ "none" \notin Runs /\ LoopTypes /\ RunsInTurn /\ Recorded
      /\ NotBelowItself /\ ParentsWait /\ OneAtWork /\ SomeoneIsAwaited
    BY LoopAssumption DEF LoopInv, Family
<1>1. UNCHANGED trajectories
    BY DEF CutOff
<1>2. PICK under : run' = [x \in Runs |-> IF under[x] /\ run[x].at \notin {"ended", "raised"} THEN [run[x] EXCEPT !.at = "cut off"]
                                          ELSE run[x]]
    BY DEF CutOff
<1>3. ASSUME NEW x \in Runs
      PROVE  /\ run'[x] \in LoopsOf /\ InTurn(run'[x]) /\ run'[x].parent = run[x].parent
             /\ run'[x].at = run[x].at \/ (run'[x].at = "cut off" /\ run[x].at \notin {"ended", "raised"})
    <2>1. run[x] \in LoopsOf /\ InTurn(run[x])
        BY <1>0 DEF LoopTypes, RunsInTurn
    <2> DEFINE new == [run[x] EXCEPT !.at = "cut off"]
    <2>2. /\ new \in LoopsOf /\ new.at = "cut off" /\ new.parent = run[x].parent /\ new.given = run[x].given
          /\ new.turn = run[x].turn /\ new.status = run[x].status
        BY <2>1 DEF LoopsOf
    <2>3. run'[x] = run[x] \/ (run'[x] = new /\ run[x].at \notin {"ended", "raised"})
        BY <1>2
    <2> HIDE DEF new
    <2>4. run[x].at \notin {"ended", "raised"} => InTurn(new)
        BY <2>1, <2>2 DEF InTurn
    <2> QED  BY <2>1, <2>2, <2>3, <2>4
<1>4. LoopTypes'
    BY <1>0, <1>1, <1>2, <1>3 DEF LoopTypes
<1>5. RunsInTurn'
    BY <1>3 DEF RunsInTurn
<1>6. Family'
    <2>1. \A x \in Runs : run'[x].at \in Working => run[x].at \in Working
        BY <1>3 DEF Working
    <2>2. NotBelowItself' /\ OneAtWork'
        BY <1>0, <1>3, <2>1 DEF NotBelowItself, OneAtWork
    <2>3. ParentsWait'
        <3> SUFFICES ASSUME NEW x \in Runs, run'[x].at \in Working, run'[x].parent # "none"
                     PROVE  run'[run'[x].parent].at \in {"waiting", "cut off"}
            BY DEF ParentsWait
        <3>1. run[x].at \in Working /\ run'[x].parent = run[x].parent
            BY <1>3, <2>1
        <3>2. run[x].parent \in Runs
            BY <1>0, <3>1 DEF LoopTypes, LoopsOf
        <3>3. run[run[x].parent].at \in {"waiting", "cut off"}
            BY <1>0, <3>1 DEF ParentsWait
        <3> QED  BY <1>3, <3>1, <3>2, <3>3
    <2>4. SomeoneIsAwaited'
        <3> SUFFICES ASSUME NEW x \in Runs, run'[x].at = "waiting"
                     PROVE  \E y \in Runs : run'[y].parent = x /\ run'[y].at \notin {"ended", "raised", "unborn"}
            BY DEF SomeoneIsAwaited
        <3>1. run[x].at = "waiting"
            BY <1>3
        <3>2. PICK y \in Runs : run[y].parent = x /\ run[y].at \notin {"ended", "raised", "unborn"}
            BY <1>0, <3>1 DEF SomeoneIsAwaited
        <3>3. run'[y].parent = x /\ run'[y].at \notin {"ended", "raised", "unborn"}
            BY <1>3, <3>2
        <3> QED  BY <3>3
    <2> QED  BY <2>2, <2>3, <2>4 DEF Family
<1>7. Recorded'
    <2>1. \A x \in Runs : run'[x].at = "ended" <=> run[x].at = "ended"
        BY <1>3
    <2> QED  BY <1>0, <1>1, <1>3, <2>1, RecordsRest
<1> QED  BY <1>4, <1>5, <1>6, <1>7 DEF LoopInv

LEMMA LoopStep ==
    ASSUME LoopInv, [LoopNext]_loopVars
    PROVE  LoopInv'
<1>0. /\ "none" \notin Runs /\ Started \subseteq Runs /\ LoopTypes /\ RunsInTurn
      /\ \A r \in Runs : Turns[r] \subseteq Nat
      /\ \A r \in Runs : run[r] \in LoopsOf /\ InTurn(run[r])
    BY LoopAssumption DEF LoopInv, LoopTypes, RunsInTurn
<1>1. ASSUME NEW r \in Started, NEW turns \in Turns[r], StartRun(r, turns)
      PROVE  LoopInv'
    <2>1. r \in Runs /\ turns \in Nat /\ run[r] = Unborn /\ run' = [run EXCEPT ![r] = Begin(r, turns, "none")]
          /\ UNCHANGED trajectories
        BY <1>0, <1>1 DEF StartRun
    <2>2. Begin(r, turns, "none") \in LoopsOf
        BY <2>1, Begins
    <2>3. /\ run' \in [Runs -> LoopsOf] /\ run'[r] = Begin(r, turns, "none")
          /\ \A x \in Runs \ {r} : run'[x] = run[x]
        BY <1>0, <2>1, <2>2 DEF LoopTypes
    <2> QED  BY <2>1, <2>3, RunBegins
<1>2. ASSUME NEW r \in Runs, NEW c \in Runs, NEW turns \in Turns[c], Spawn(r, c, turns)
      PROVE  LoopInv'
    <2> DEFINE waits == [run[r] EXCEPT !.at = "waiting"]
               child == Begin(c, turns, r)
    <2>1. /\ turns \in Nat /\ run[c] = Unborn /\ c # r /\ run[r].at = "acting" /\ UNCHANGED trajectories
          /\ run' = [run EXCEPT ![r].at = "waiting", ![c] = child]
        BY <1>0, <1>2 DEF Spawn
    <2>2. child \in LoopsOf
        BY <2>1, Begins
    <2>3. waits \in LoopsOf
        <3>1. run[r] \in LoopsOf
            BY <1>0
        <3> QED  BY <3>1 DEF LoopsOf, Working
    <2>4. run' = [run EXCEPT ![r] = waits, ![c] = child]
        BY <2>1
    <2> HIDE DEF waits, child
    <2>5. /\ run' \in [Runs -> LoopsOf] /\ run'[c] = child /\ run'[r] = waits
          /\ \A x \in Runs \ {c, r} : run'[x] = run[x]
        BY <1>0, <2>1, <2>2, <2>3, <2>4 DEF LoopTypes
    <2> USE DEF waits, child
    <2> QED  BY <1>0, <2>1, <2>5, RunBegins
<1>3. ASSUME NEW r \in Runs, NEW answer \in Seq(ToolCalls), Answer(r, answer)
      PROVE  LoopInv'
    <2> DEFINE at    == IF answer = <<>> THEN "closing" ELSE "acting"
               steps == IF answer = <<>> THEN Append(run[r].steps, <<ToolCall("answer", TRUE), "none">>) ELSE run[r].steps
               new   == [run[r] EXCEPT !.at = at, !.calls = answer, !.steps = steps]
    <2>1. run[r].at = "thinking" /\ run' = [run EXCEPT ![r] = new] /\ UNCHANGED trajectories
        BY <1>0, <1>3 DEF Answer, LoopTypes
    <2>2. /\ run[r].steps \in Seq(StepsOf) /\ run[r].given > 0 /\ Called(run[r].steps) = DOMAIN run[r].steps
          /\ run[r].status = "none" /\ run[r].turn <= IF run[r].given = 0 THEN 1 ELSE run[r].given
        BY <1>0, <2>1 DEF LoopsOf, InTurn
    <2>3. <<ToolCall("answer", TRUE), "none">> \in StepsOf
        BY DEF StepsOf, ToolCalls, Outcome
    <2>4. /\ steps \in Seq(StepsOf)
          /\ IF answer = <<>> THEN Called(steps) # DOMAIN steps ELSE Called(steps) = DOMAIN steps
        <3> PICK step \in StepsOf : step = <<ToolCall("answer", TRUE), "none">>
            BY <2>3
        <3>1. step[2] = "none"
            OBVIOUS
        <3> QED  BY <2>2, <3>1, StepAdded
    <2>5. at \in {"closing", "acting"} /\ (at = "closing" <=> answer = <<>>)
        OBVIOUS
    <2> HIDE DEF at, steps
    <2>6. /\ new \in LoopsOf /\ new.at = at /\ new.calls = answer /\ new.steps = steps
          /\ new.given = run[r].given /\ new.turn = run[r].turn /\ new.status = run[r].status
          /\ new.parent = run[r].parent
        BY <1>0, <2>4, <2>5 DEF LoopsOf, Working
    <2> HIDE DEF new
    <2>7. InTurn(new)
        BY <2>2, <2>4, <2>5, <2>6 DEF InTurn
    <2> QED  BY <2>1, <2>5, <2>6, <2>7, RunGoesOn
<1>4. ASSUME NEW r \in Runs, CallTool(r) \/ SpawnRaises(r)
      PROVE  LoopInv'
    <2>1. PICK outcome \in Outcome \ {"none"} : run' = [run EXCEPT ![r] = Stepped(run[r], outcome)]
        BY <1>4 DEF CallTool, SpawnRaises, Outcomes, Outcome
    <2>2. run[r].at = "acting" /\ UNCHANGED trajectories
        BY <1>4 DEF CallTool, SpawnRaises
    <2> QED  BY <1>0, <2>1, <2>2, StepsOn, RunGoesOn
<1>5. CASE UNCHANGED <<run, trajectories>>
    <2>1. LoopTypes' /\ RunsInTurn'
        BY <1>0, <1>5 DEF LoopTypes, RunsInTurn
    <2>2. Family'
        BY <1>5 DEF LoopInv, Family, NotBelowItself, ParentsWait, OneAtWork, SomeoneIsAwaited
    <2>3. Recorded'
        BY <1>0, <1>5, RecordsRest DEF LoopInv
    <2> QED  BY <2>1, <2>2, <2>3 DEF LoopInv
<1>6. ASSUME NEW answer \in Answers
      PROVE  answer \in Seq(ToolCalls)
    <2> PICK n \in 0..MaxAnswer : answer \in [1..n -> Callable]
        BY DEF Answers
    <2>1. Callable \subseteq ToolCalls
        BY DEF ToolCalls
    <2>2. n \in Nat /\ answer \in [1..n -> ToolCalls]
        BY <2>1, LoopAssumption
    <2> QED  BY <2>2
<1>7. ASSUME NEW w \in Words, NEW r \in Runs, AnswerByTable(r, w)
      PROVE  LoopInv'
    <2>1. Deterministic(w) \in Seq(ToolCalls) /\ <<>> \in Seq(ToolCalls)
        <3>1. Head(Deterministic(w)) \in ToolCalls
            BY DEF ToolCalls
        <3>2. <<>> \in Seq(ToolCalls)
            OBVIOUS
        <3>3. Deterministic(w) = <<>> \/ Deterministic(w) = <<Head(Deterministic(w))>>
            <4>1. \A name : Head(<<name>>) = name
                OBVIOUS
            <4> QED  BY <4>1 DEF Deterministic
        <3>4. <<Head(Deterministic(w))>> \in Seq(ToolCalls)
            BY <3>1
        <3> QED  BY <3>2, <3>3, <3>4
    <2> QED  BY <1>3, <1>7, <2>1 DEF AnswerByTable
<1>8. CASE UNCHANGED loopVars \/ \E t \in Ruled, level \in {"ALLOW", "DENY"} : Permit(t, level)
    BY <1>5, <1>8 DEF loopVars, Permit
<1>9. ASSUME NEW r \in Runs, Conclude(r) \/ ConcludeRaises(r)
      PROVE  LoopInv'
    <2>1. {"ok", "error"} \subseteq Outcome \ {"none"}
        BY DEF Outcome
    <2>2. CASE Conclude(r)
        BY <2>1, <2>2, RunEnds DEF Conclude, Leaving
    <2>3. CASE ConcludeRaises(r)
        BY <2>1, <2>3, RunEnds DEF ConcludeRaises, Leaving
    <2> QED  BY <1>9, <2>2, <2>3
<1> QED  BY <1>1, <1>2, <1>3, <1>4, <1>6, <1>7, <1>8, <1>9, RunsAreCutOff DEF LoopNext

LEMMA LoopHolds == LoopSpec => []LoopInv
<1>1. LoopInit => LoopInv
    <2> SUFFICES ASSUME LoopInit PROVE LoopInv
        OBVIOUS
    <2>1. \A r \in Runs : run[r] = Unborn /\ Unborn \in LoopsOf /\ InTurn(Unborn)
        BY UnbornLoop DEF LoopInit
    <2>2. trajectories = <<>> /\ run \in [Runs -> LoopsOf]
        BY <2>1 DEF LoopInit
    <2>3. trajectories \in Seq(Runs) /\ DOMAIN trajectories = {}
        BY <2>2
    <2>4. Unborn.at = "unborn" /\ Unborn.parent = "none"
        BY DEF Unborn
    <2>5. LoopTypes /\ RunsInTurn
        BY <2>1, <2>2, <2>3 DEF LoopTypes, RunsInTurn
    <2>6. Family
        BY <2>1, <2>4, LoopAssumption DEF Family, NotBelowItself, ParentsWait, OneAtWork, SomeoneIsAwaited, Working
    <2>7. Recorded
        BY <2>1, <2>3, <2>4 DEF Recorded, RecordedEnded, EndedRecorded, RecordedOnce, RecordedBefore
    <2> QED  BY <2>5, <2>6, <2>7 DEF LoopInv
<1>2. LoopInv /\ [LoopNext]_loopVars => LoopInv'
    BY LoopStep
<1> QED  BY <1>1, <1>2, PTL DEF LoopSpec

\* The places of the runs and the record of trajectories have the types the loop keeps them in.
THEOREM LoopTypesHold == LoopSpec => []LoopTypeOK
<1>1. LoopInv => LoopTypeOK
    BY DEF LoopInv, LoopTypes, LoopsOf, Working, LoopTypeOK
<1> QED  BY <1>1, LoopHolds, PTL

\* A run that ended is recorded once, with the status its steps justify, after those of its
\* subagents, and one that raised had a call without an object of arguments and is recorded
\* never, and whoever waits has somebody to wait for: for any runs, tools, answers and
\* numbers of turns.
THEOREM RunsAreJudgedTruly == LoopSpec => []RunsAreJudged
<1>1. LoopInv => RunsAreJudged
    <2> SUFFICES ASSUME LoopInv PROVE RunsAreJudged
        OBVIOUS
    <2>1. ASSUME NEW r \in Runs
          PROVE  Cardinality({n \in DOMAIN trajectories : trajectories[n] = r}) = (IF run[r].at = "ended" THEN 1 ELSE 0)
        <3> DEFINE records == {n \in DOMAIN trajectories : trajectories[n] = r}
        <3>1. CASE run[r].at = "ended"
            <4>1. PICK n \in DOMAIN trajectories : trajectories[n] = r
                BY <3>1 DEF LoopInv, Recorded, EndedRecorded
            <4>2. records = {n}
                BY <4>1 DEF LoopInv, Recorded, RecordedOnce
            <4> QED  BY <3>1, <4>2, FS_Singleton
        <3>2. CASE run[r].at # "ended"
            <4>1. records = {}
                BY <3>2 DEF LoopInv, Recorded, RecordedEnded
            <4> QED  BY <3>2, <4>1, FS_EmptySet
        <3> QED  BY <3>1, <3>2
    <2>2. ASSUME NEW r \in Runs
          PROVE  /\ run[r].status = "SUCCESS" => Errors(run[r].steps) = {}
                 /\ run[r].status = "FAILED" => Oks(run[r].steps) = {} /\ Errors(run[r].steps) # {}
                 /\ run[r].turn <= IF run[r].given = 0 THEN 1 ELSE run[r].given
                 /\ run[r].at = "raised" => Malformed(run[r].steps) # {}
                 /\ run[r].at = "ended" => Malformed(run[r].steps) = {}
        <3>1. InTurn(run[r])
            BY DEF LoopInv, RunsInTurn
        <3> QED  BY <3>1 DEF InTurn
    <2>3. ASSUME NEW r \in Runs
          PROVE  run[r].status = "INCOMPLETE" <=>
                   run[r].at = "ended" /\ run[r].given > 0 /\ Called(run[r].steps) = DOMAIN run[r].steps
        <3>1. InTurn(run[r])
            BY DEF LoopInv, RunsInTurn
        <3>2. CASE run[r].at = "ended"
            BY <3>1, <3>2 DEF InTurn
        <3>3. CASE run[r].at # "ended"
            BY <3>1, <3>3 DEF InTurn
        <3> QED  BY <3>2, <3>3
    <2>4. \A r \in Runs : run[r].at = "waiting" => \E c \in Runs : run[c].parent = r /\ run[c].at \notin {"ended", "raised"}
        BY DEF LoopInv, Family, SomeoneIsAwaited
    <2>5. \A r \in Runs : PlanOf(r) \subseteq Tools
        BY LoopAssumption DEF PlanOf
    <2>6. \A m, n \in DOMAIN trajectories : run[trajectories[m]].parent = trajectories[n] => m < n
        BY DEF LoopInv, Recorded, RecordedBefore
    <2> QED  BY <2>1, <2>2, <2>3, <2>4, <2>5, <2>6 DEF RunsAreJudged
<1> QED  BY <1>1, LoopHolds, PTL

==============================================================================
