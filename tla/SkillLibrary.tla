----------------------------- MODULE SkillLibrary -----------------------------
(***************************************************************************)
(* SkillsEngine (skills/engine.py): procedures of named capabilities that  *)
(* are created, versioned, disabled, tested and executed while other       *)
(* requests run.                                                           *)
(*                                                                         *)
(* "shelf" is the dict of definitions; an execution keeps the definition   *)
(* object and the list of steps it began with, whatever the shelf holds    *)
(* later.  A step is a capability and the arguments its template gives.    *)
(***************************************************************************)
EXTENDS Naturals, Sequences, SequencesExt, FiniteSets

CONSTANTS
    Skills,        \* ids in use
    Builtins,      \* those of the built-in skills loaded
    Definitions,   \* definition objects: one for each built-in skill, others for skills created
    Executions,    \* requests to execute a skill
    Registered,    \* the capabilities in the registry
    NeedsOf,       \* the arguments without which each of them raises
    Procedures,    \* what a client may create a skill of, or a version
    MaxVersions    \* bound on the versions of a definition

VARIABLES
    shelf,      \* skill id -> definition, or "none"
    library,    \* definition -> its steps, version, history, enabled flag and statistics
    execution   \* execution -> where it is

skillVars == <<shelf, library, execution>>

Do(cap, gives) == [cap |-> cap, gives |-> gives]

\* _load_builtin_skills.
BuiltinSkills == [
    prepare_client_report |-> <<
        Do("business.finance.invoices", {"status"}), Do("marketing.snapshot.get", {}),
        Do("comms.email.send", {"to_email", "subject", "body"}) >>,
    launch_meta_campaign |-> <<
        Do("meta.campaign.create", {"name", "objective", "daily_budget"}),
        Do("meta.adset.create", {"campaign_id", "name", "daily_budget", "targeting"}) >>,
    analyze_weekly_sales |-> <<
        Do("business.sales.pipeline", {}), Do("business.finance.overview", {}),
        Do("comms.notification.broadcast", {"title", "message", "severity"}) >>,
    qualify_lead |-> <<
        Do("comms.conversation.analyze", {"transcript"}),
        Do("comms.followup.schedule", {"channel", "to_email", "name", "objective", "days_from_now"}) >> ]

\* The built-in skills are loaded into definitions of their own; a procedure is a list.
ASSUME SkillsAssumption ==
    /\ Builtins \subseteq Definitions \cap DOMAIN BuiltinSkills
    /\ \A p \in Procedures : p \in Seq(ToSet(p))

Fresh(steps) ==
    [steps |-> steps, version |-> 1, history |-> <<Len(steps)>>, enabled |-> TRUE, runs |-> 0, ok |-> 0, bad |-> 0]

Unused == [steps |-> <<>>, version |-> 0, history |-> <<>>, enabled |-> FALSE, runs |-> 0, ok |-> 0, bad |-> 0]

Idle == [at |-> "idle", id |-> "none", of |-> "none", plan |-> <<>>, did |-> <<>>, total |-> 0]

Shelved == {s \in Skills : shelf[s] # "none"}

-----------------------------------------------------------------------------
\* create_skill replaces what the id named before, its statistics included.
CreateSkill(s, d, steps) ==
    /\ library[d].version = 0
    /\ library' = [library EXCEPT ![d] = Fresh(steps)]
    /\ shelf' = [shelf EXCEPT ![s] = d]
    /\ UNCHANGED execution

\* version_skill archives the length of the steps it leaves, and changes the definition in place.
VersionSkill(s, steps) ==
    /\ s \in Shelved /\ library[shelf[s]].version <= MaxVersions
    /\ LET d == shelf[s] IN
       library' = [library EXCEPT ![d].history = Append(@, Len(library[d].steps)), ![d].version = @ + 1,
                                  ![d].steps = steps]
    /\ UNCHANGED <<shelf, execution>>

DisableSkill(s, disabled) ==
    /\ s \in Shelved
    /\ library' = [library EXCEPT ![shelf[s]].enabled = ~disabled]
    /\ UNCHANGED <<shelf, execution>>

\* test_skill: a dry run looks whether the capabilities are registered, not what they need.
TestPasses(steps) == \A n \in DOMAIN steps : steps[n].cap \in Registered

-----------------------------------------------------------------------------
\* execute_skill looks at the flag once.
StartExecution(e, s) ==
    /\ execution[e] = Idle /\ s \in Shelved /\ library[shelf[s]].enabled
    /\ execution' = [execution EXCEPT ![e] = [at |-> "running", id |-> s, of |-> shelf[s],
                                              plan |-> library[shelf[s]].steps, did |-> <<>>, total |-> 0]]
    /\ UNCHANGED <<shelf, library>>

NextStep(e) == execution[e].plan[Len(execution[e].did) + 1]

\* A capability the registry lacks is reported as done.
Simulates(step) == step.cap \notin Registered
Serves(step)    == step.cap \in Registered /\ NeedsOf[step.cap] \subseteq step.gives

DoStep(e) ==
    /\ execution[e].at = "running" /\ Len(execution[e].did) < Len(execution[e].plan)
    /\ \/ Simulates(NextStep(e)) /\ execution' = [execution EXCEPT ![e].did = Append(@, "simulated")]
       \/ Serves(NextStep(e)) /\ execution' = [execution EXCEPT ![e].did = Append(@, "done")]
    /\ UNCHANGED <<shelf, library>>

\* The mean runtime is left out.
Counted(d, outcome) ==
    [library EXCEPT ![d].runs = @ + 1, ![d].ok = IF outcome = "success" THEN @ + 1 ELSE @,
                    ![d].bad = IF outcome = "failed" THEN @ + 1 ELSE @]

Ended(e, outcome) ==
    execution' = [execution EXCEPT ![e].at = outcome, ![e].total = Len(library[execution[e].of].steps)]

\* Mutant: the statistics go to the definition the id names now.
FinishOnShelf(e) ==
    /\ execution[e].at = "running" /\ Len(execution[e].did) = Len(execution[e].plan)
    /\ library' = Counted(shelf[execution[e].id], "success")
    /\ Ended(e, "success")
    /\ UNCHANGED shelf

FinishExecution(e) ==
    /\ execution[e].at = "running" /\ Len(execution[e].did) = Len(execution[e].plan)
    /\ library' = Counted(execution[e].of, "success")
    /\ Ended(e, "success")
    /\ UNCHANGED shelf

\* A tool raises, or lacks an argument: the execution ends, what was done stays done.
FailExecution(e) ==
    /\ execution[e].at = "running" /\ Len(execution[e].did) < Len(execution[e].plan)
    /\ ~Simulates(NextStep(e))
    /\ library' = Counted(execution[e].of, "failed")
    /\ Ended(e, "failed")
    /\ UNCHANGED shelf

\* TaskRunner.shutdown cancels the task that awaits the execution: `except Exception` does not
\* see it, and the library, an object of main.py's module, is there when the application
\* starts again.
CutOffExecution(e) ==
    /\ execution[e].at = "running" /\ Len(execution[e].did) < Len(execution[e].plan)
    /\ ~Simulates(NextStep(e))
    /\ execution' = [execution EXCEPT ![e].at = "cut off"]
    /\ UNCHANGED <<shelf, library>>

SkillInit ==
    /\ shelf = [s \in Skills |-> IF s \in Builtins THEN s ELSE "none"]
    /\ library = [d \in Definitions |-> IF d \in Builtins THEN [Fresh(BuiltinSkills[d]) EXCEPT !.history = <<>>]
                                         ELSE Unused]
    /\ execution = [e \in Executions |-> Idle]

SkillNext ==
    \/ \E s \in Skills :
        \/ \E d \in Definitions, p \in Procedures : CreateSkill(s, d, p)
        \/ \E p \in Procedures : VersionSkill(s, p)
        \/ \E disabled \in BOOLEAN : DisableSkill(s, disabled)
        \/ \E e \in Executions : StartExecution(e, s)
    \/ \E e \in Executions : DoStep(e) \/ FinishExecution(e) \/ FailExecution(e) \/ CutOffExecution(e)

SkillSpec == SkillInit /\ [][SkillNext]_skillVars

-----------------------------------------------------------------------------
RunsOf(d, outcomes) == {e \in Executions : execution[e].of = d /\ execution[e].at \in outcomes}

\* A definition counts exactly the executions of it that ended by themselves, whatever took
\* its place meanwhile; and a success did every step of the version it began with, in order,
\* without a simulated one if a dry run of that version passes.
SkillRunsAreCounted ==
    /\ \A d \in Definitions :
        /\ library[d].ok = Cardinality(RunsOf(d, {"success"}))
        /\ library[d].bad = Cardinality(RunsOf(d, {"failed"}))
        /\ library[d].runs = library[d].ok + library[d].bad
    /\ \A e \in Executions :
        execution[e].at = "success" =>
            /\ Len(execution[e].did) = Len(execution[e].plan)
            /\ TestPasses(execution[e].plan) <=> "simulated" \notin ToSet(execution[e].did)

=============================================================================
