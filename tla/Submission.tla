------------------------------ MODULE Submission ------------------------------
(***************************************************************************)
(* How a task comes to be: the message endpoint, the voice session and the *)
(* interactive chat, over TaskRepository.create and TaskRunner.            *)
(*                                                                         *)
(* A transition is the code between two awaits, as the database sees it.   *)
(* What a run of the graph does is TaskRuntime's: here a task that is      *)
(* executed ends, parks for a pause, or the process is lost.  The checks   *)
(* of a pause and of a cancellation are one step with what they write;     *)
(* those of a resume, which writes a status, are a step of their own.      *)
(***************************************************************************)
EXTENDS Naturals, Sequences, SequencesExt, FiniteSets

CONSTANTS
    Callers,   \* requests
    KeysOf,    \* request -> the keys it may come with, a client's or of Unkeyed
    Steered,   \* bound on the tasks that clients pause, resume and cancel
    MaxLives   \* bound on the lives of the process

VARIABLES
    tasks,      \* the tasks table, in order of creation, with the state of each one's graph
    caller,     \* request -> where it is
    executing,  \* the tasks TaskRunner executes
    behind,     \* those of them with runs that wait for the run's end
    resuming,   \* tasks that requests to resume have found paused
    life        \* number of the process's life

runVars == <<executing, behind, resuming>>
submissionVars == <<tasks, caller, executing, behind, resuming, life>>

\* A chat makes up a key; the voice session gives none.
Unkeyed == {"chat", "voice"}

Asking(place, k, t) == [at |-> place, key |-> k, task |-> t, created |-> FALSE]
Waiting == Asking("idle", "none", 0)

Final == {"success", "failed", "cancelled"}

\* pausing: how far the gate of the task's run is with a pause; over: the graph is at its end.
NewTask(k) == [key |-> k, status |-> "queued", control |-> "run", born |-> life, lease |-> "free",
               pausing |-> "no", over |-> FALSE]

TaskOf(k) == {t \in DOMAIN tasks : tasks[t].key = k}

Goes(c, place) == [caller EXCEPT ![c].at = place]
Told(c, t, created, place) == [caller EXCEPT ![c].at = place, ![c].task = t, ![c].created = created]

\* TaskRunner.start: a task that is executed is not started again, but for a resume.
StartTask(t, resume) ==
    /\ executing' = executing \cup {t}
    /\ behind' = IF t \in executing /\ resume THEN behind \cup {t} ELSE behind

\* A run returns: the one that waited for it, if any, is next, and more may wait for that one.
Leave(t) ==
    IF t \in behind
    THEN behind' \in {behind, behind \ {t}} /\ UNCHANGED executing
    ELSE executing' = executing \ {t} /\ UNCHANGED behind

-----------------------------------------------------------------------------
\* The lookup by key; a request without one, or with one of its own, finds nothing.
Look(c, k) ==
    /\ caller[c] = Waiting
    /\ \/ k \notin Unkeyed /\ \E t \in TaskOf(k) : caller' = [caller EXCEPT ![c] = Asking("answered", k, t)]
       \/ (k \in Unkeyed \/ TaskOf(k) = {}) /\ caller' = [caller EXCEPT ![c] = Asking("inserting", k, 0)]
    /\ UNCHANGED <<tasks, runVars, life>>

\* Mutant: the key has no unique index.
InsertAnyway(c) ==
    /\ caller[c].at = "inserting"
    /\ tasks' = Append(tasks, NewTask(caller[c].key))
    /\ caller' = Told(c, Len(tasks'), TRUE, "announcing")
    /\ UNCHANGED <<runVars, life>>

\* The commit: the unique index refuses a key that came in since the lookup.
Insert(c) ==
    /\ caller[c].at = "inserting"
    /\ IF caller[c].key \notin Unkeyed /\ TaskOf(caller[c].key) # {}
       THEN /\ caller' = Goes(c, "refused")
            /\ UNCHANGED tasks
       ELSE /\ tasks' = Append(tasks, NewTask(caller[c].key))
            /\ caller' = Told(c, Len(tasks'), TRUE, "announcing")
    /\ UNCHANGED <<runVars, life>>

LookAgain(c) ==
    /\ caller[c].at = "refused"
    /\ \E t \in TaskOf(caller[c].key) : caller' = Told(c, t, FALSE, "answered")
    /\ UNCHANGED <<tasks, runVars, life>>

\* task.created is published, then the task started; a chat is answered by the agent instead.
Announced(c) ==
    /\ caller[c].at = "announcing"
    /\ IF caller[c].key = "chat"
       THEN caller' = Goes(c, "thinking") /\ UNCHANGED <<executing, behind>>
       ELSE caller' = Goes(c, "answered") /\ StartTask(caller[c].task, FALSE)
    /\ UNCHANGED <<tasks, resuming, life>>

\* publish lets all but a RuntimeError through: the caller sees an error, and nobody
\* starts what it created.
PublishRaises(c) ==
    /\ caller[c].at = "announcing"
    /\ caller' = Goes(c, "raised")
    /\ UNCHANGED <<tasks, runVars, life>>

\* The agent has answered: the row says SUCCESS whatever the agent or a cancellation says.
\* When the agent raises, or the update does, the row is left as it is.
ChatAnswered(c) ==
    /\ caller[c].at = "thinking"
    /\ caller' = Goes(c, "answered")
    /\ \/ tasks' = [tasks EXCEPT ![caller[c].task].status = "success"]
       \/ UNCHANGED tasks
    /\ UNCHANGED <<runVars, life>>

-----------------------------------------------------------------------------
Pause(t) ==
    /\ t <= Steered /\ tasks[t].status \notin Final
    /\ tasks' = [tasks EXCEPT ![t].control = "pause"]
    /\ UNCHANGED <<caller, runVars, life>>

\* A cancellation starts a run that sees it: of a chat's task, too.
Cancel(t) ==
    /\ t <= Steered /\ tasks[t].status \notin Final
    /\ tasks' = [tasks EXCEPT ![t].control = "cancel"]
    /\ StartTask(t, tasks[t].status = "waiting")
    /\ UNCHANGED <<caller, resuming, life>>

ResumeChecked(t) ==
    /\ t <= Steered /\ tasks[t].status = "waiting"
    /\ resuming' = resuming \cup {t}
    /\ UNCHANGED <<tasks, caller, executing, behind, life>>

\* The update is unconditional: of a task that has ended meanwhile, too.
ResumeWritten(t) ==
    /\ t \in resuming
    /\ tasks' = [tasks EXCEPT ![t].control = "run", ![t].status = "queued"]
    /\ StartTask(t, TRUE)
    /\ resuming' \in {resuming, resuming \ {t}}
    /\ UNCHANGED <<caller, life>>

-----------------------------------------------------------------------------
\* A run that meets a live lease returns; one that has ended gives its lease back.
Acquire(t) ==
    /\ t \in executing /\ tasks[t].lease # "mine"
    /\ \/ tasks' = [tasks EXCEPT ![t].lease = "mine"] /\ UNCHANGED <<executing, behind>>
       \/ tasks[t].lease = "stale" /\ Leave(t) /\ UNCHANGED tasks
    /\ UNCHANGED <<caller, resuming, life>>

\* The gate before a step reads the control: a cancellation goes to its node, which ends.
MeetGate(t) ==
    /\ t \in executing /\ tasks[t].lease = "mine" /\ tasks[t].pausing = "no" /\ ~tasks[t].over
    /\ \/ tasks[t].control = "pause" /\ tasks' = [tasks EXCEPT ![t].pausing = "read"]
       \/ tasks[t].control = "run" /\ tasks' = [tasks EXCEPT ![t].status = "running"]
    /\ UNCHANGED <<caller, runVars, life>>

Park(t) ==
    /\ tasks[t].pausing = "read"
    /\ tasks' = [tasks EXCEPT ![t].pausing = "written", ![t].status = "waiting"]
    /\ UNCHANGED <<caller, runVars, life>>

\* How a run may end: a parked one, and one of a graph at its end, leave the status as it is
\* unless they raise.
EndsOf(t) == IF tasks[t].over \/ tasks[t].pausing = "written" THEN {tasks[t].status, "failed"} ELSE Final

EndExecution(t) ==
    /\ t \in executing /\ tasks[t].lease = "mine" /\ tasks[t].pausing # "read"
    /\ \E status \in EndsOf(t) :
        tasks' = [tasks EXCEPT ![t].lease = "free", ![t].pausing = "no", ![t].status = status,
                               ![t].over = @ \/ (tasks[t].pausing = "no" /\ status \in {"success", "cancelled"})]
    /\ Leave(t)
    /\ UNCHANGED <<caller, resuming, life>>

\* The process is lost, and starts what it finds neither ended nor leased nor paused; a lease
\* that has not lapsed by then stays.
Restart ==
    /\ life < MaxLives
    /\ \E lapsed \in SUBSET {t \in DOMAIN tasks : tasks[t].lease # "free"} :
        tasks' = [t \in DOMAIN tasks |->
                    [tasks[t] EXCEPT !.lease = IF @ = "free" \/ t \in lapsed THEN "free" ELSE "stale",
                                     !.pausing = "no"]]
    /\ executing' = {t \in DOMAIN tasks :
                        tasks[t].status \notin Final /\ tasks'[t].lease = "free" /\ tasks[t].control # "pause"}
    /\ behind' = {} /\ resuming' = {}
    /\ caller' = [c \in Callers |-> IF caller[c].at \in {"idle", "answered"} THEN caller[c]
                                    ELSE [caller[c] EXCEPT !.at = "raised"]]
    /\ life' = life + 1

SubmissionInit ==
    /\ tasks = <<>>
    /\ caller = [c \in Callers |-> Waiting]
    /\ executing = {} /\ behind = {} /\ resuming = {}
    /\ life = 1

SubmissionNext ==
    \/ \E c \in Callers :
        \/ \E k \in KeysOf[c] : Look(c, k)
        \/ Insert(c) \/ LookAgain(c) \/ Announced(c) \/ PublishRaises(c) \/ ChatAnswered(c)
    \/ \E t \in DOMAIN tasks :
        \/ Pause(t) \/ Cancel(t) \/ ResumeChecked(t) \/ ResumeWritten(t)
        \/ Acquire(t) \/ MeetGate(t) \/ Park(t) \/ EndExecution(t)
    \/ Restart

SubmissionSpec == SubmissionInit /\ [][SubmissionNext]_submissionVars

-----------------------------------------------------------------------------
Parked(t) == tasks[t].status = "waiting" /\ tasks[t].control # "run"

\* Somebody works on the task, it has ended, it is paused, or the life of the process that
\* created it is gone; a resume that was checked before the end of its graph may have
\* written QUEUED over that.
Handled(t) ==
    \/ tasks[t].status \in Final \/ t \in executing \/ Parked(t)
    \/ tasks[t].born < life \/ (tasks[t].over /\ tasks[t].status = "queued")

\* Requests of one key are told one task, one of them, and only one, that it is new; a
\* task a client submitted is handled from the moment its creator was answered, whatever
\* pauses, resumes and cancellations overlap: a resume that comes while the run parks is
\* followed by a run, and none is left WAITING with a control of RUN.
OneTaskPerKey ==
    /\ \A t, u \in DOMAIN tasks : tasks[t].key = tasks[u].key => t = u \/ tasks[t].key \in Unkeyed
    /\ \A c, d \in Callers :
        /\ caller[c].at = "answered" => tasks[caller[c].task].key = caller[c].key
        /\ caller[c].created /\ caller[d].created /\ caller[c].task = caller[d].task => c = d
    /\ \A c \in Callers :
        caller[c].at = "answered" /\ caller[c].created /\ caller[c].key # "chat" => Handled(caller[c].task)

=============================================================================
