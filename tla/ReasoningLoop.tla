----------------------------- MODULE ReasoningLoop -----------------------------
(***************************************************************************)
(* CeoAIAgent.run (ceo_agent/agent.py): turns of a model that answers with *)
(* calls of tools or with a text, the tools it reaches, the subagents that *)
(* a call spawns, and the trajectories that are kept of it.                *)
(*                                                                         *)
(* A run is a task of the event loop: it is suspended while the model, a   *)
(* tool or a subagent is awaited.  Of a call its name is kept, and whether *)
(* its arguments are an object: the parser does not check that they are.   *)
(***************************************************************************)
EXTENDS Naturals, Sequences, SequencesExt, FiniteSets

CONSTANTS
    Runs,        \* runs, subagents included
    Tools,       \* the capabilities in the registry
    Callable,    \* the calls a model may answer with
    Turns,       \* run -> the numbers of turns it may be given
    Started,     \* the runs that a request starts, not a run
    Words,       \* directives, each the words in it
    Ruled,       \* the tools whose permission the owner sets
    MaxAnswer    \* bound on the calls of one answer

ASSUME LoopAssumption ==
    /\ "none" \notin Runs /\ Started \subseteq Runs
    /\ \A r \in Runs : Turns[r] \subseteq Nat
    /\ "time.now" \in Tools  \* registered whenever the process starts
    /\ MaxAnswer \in Nat

VARIABLES
    run,           \* run -> its loop
    trajectories,  \* CeoTrajectoryStore: the runs recorded, in order
    permission     \* Jarvis's permission for each of its tools

loopVars == <<run, trajectories, permission>>

-----------------------------------------------------------------------------
\* JarvisToolRegistry._register_default_tools.
JarvisTools == {
    "open_application", "close_application", "set_volume", "get_volume", "mute", "unmute", "clipboard_read",
    "clipboard_write", "get_active_application", "get_active_window_title", "run_shortcut", "get_system_stats",
    "open_url", "search_google", "open_youtube", "open_spotify", "play_pause_media", "next_track",
    "previous_track", "delegate_to_joice"}

\* The prefixes that _execute_tool strips before it asks Jarvis.
Namespaces == {x[1] \o x[2] \o x[3] : x \in {"", "browser."} \X {"", "macos."} \X {"", "media."}}

JarvisServes(t, name) == \E prefix \in Namespaces : name = prefix \o t

ToolCall(name, sound) == [name |-> name, sound |-> sound]

\* DeterministicCeoEngine: the first group that holds a word of the directive names the call.
Directives == <<
    <<{"competitor", "suppremo", "research", "analyze", "analysis", "compare", "benchmark"},
      "agents.delegate.research">>,
    <<{"finops", "cost", "spend", "aws", "cloud", "bill"}, "production.cost.overview">>,
    <<{"security", "threat", "appsec", "vulnerability", "audit"}, "production.security.audit">>,
    <<{"marketing", "ad", "campaign", "growth", "roas"}, "marketing.intelligence.snapshot">>,
    <<{"agency", "specialist", "hire", "persona", "match"}, "agency.skills.match">>,
    <<{"spotify", "music", "song", "playlist"}, "media.open_spotify">>,
    <<{"open youtube", "youtube.com"}, "browser.open_youtube">>,
    <<{"search", "google", "find"}, "browser.search_google">>,
    <<{"remember", "recall", "memory", "saved"}, "memory.search">>,
    <<{"system", "cpu", "battery", "stats", "telemetry"}, "macos.get_system_stats">>,
    <<{"time", "date", "clock", "day"}, "time.now">> >>

Deterministic(words) ==
    LET heard == {n \in DOMAIN Directives : Directives[n][1] \cap words # {}}
    IN  IF heard = {} THEN <<>> ELSE <<ToolCall(Directives[CHOOSE n \in heard : \A m \in heard : n <= m][2], TRUE)>>

-----------------------------------------------------------------------------
Unborn == [at |-> "unborn", given |-> 0, turn |-> 0, calls |-> <<>>, steps |-> <<>>, parent |-> "none",
           status |-> "none"]

Called(steps) == {n \in DOMAIN steps : steps[n][2] # "none"}
Oks(steps)    == {n \in DOMAIN steps : steps[n][2] \in {"ok", "simulated"}}
Errors(steps) == {n \in DOMAIN steps : steps[n][2] = "error"}

\* create_safe_execution_summary asks each call for the keys of its arguments, which raises
\* when they are not an object.
Malformed(steps) == {n \in DOMAIN steps : ~steps[n][1].sound}

Begin(r, turns, parent) ==
    [Unborn EXCEPT !.at = IF turns = 0 THEN "closing" ELSE "thinking", !.given = turns, !.turn = 1,
                   !.parent = parent]

StartRun(r, turns) ==
    /\ run[r] = Unborn
    /\ run' = [run EXCEPT ![r] = Begin(r, turns, "none")]
    /\ UNCHANGED <<trajectories, permission>>

\* The model answers with a text: the loop is over.  An answer of calls is worked off in order.
Answer(r, calls) ==
    /\ run[r].at = "thinking"
    /\ run' = [run EXCEPT ![r].at = IF calls = <<>> THEN "closing" ELSE "acting",
                          ![r].calls = calls,
                          ![r].steps = IF calls = <<>> THEN Append(@, <<ToolCall("answer", TRUE), "none">>) ELSE @]
    /\ UNCHANGED <<trajectories, permission>>

\* The deterministic model answers a directive with at most a call, and a tool with a text.
AnswerByTable(r, words) == Answer(r, IF run[r].steps = <<>> THEN Deterministic(words) ELSE <<>>)

\* The step of the call that is first in line; after the last of the answer the next turn.
Stepped(loop, outcome) ==
    LET rest == Tail(loop.calls)
        last == rest = <<>> /\ loop.turn = loop.given
    IN  [loop EXCEPT !.steps = Append(@, <<Head(loop.calls), outcome>>),
                     !.calls = rest,
                     !.at = IF rest # <<>> THEN "acting" ELSE IF last THEN "exhausted" ELSE "thinking",
                     !.turn = IF rest = <<>> /\ ~last THEN @ + 1 ELSE @]

Spawns(r) == Head(run[r].calls).name = "ceo.agent.spawn" /\ "ceo.agent.spawn" \in Tools

\* What _execute_tool may make of a call: a tool of the registry that answers or raises; else
\* one of Jarvis's, which needs permission and an object; else, or when Jarvis cannot be
\* asked, a simulated execution.
Outcomes(call) ==
    LET served == {t \in JarvisTools : JarvisServes(t, call.name)}
    IN  IF call.name \in Tools THEN {"ok", "error"}
        ELSE IF served = {} THEN {"simulated"}
        ELSE {"error", "simulated"}
               \cup (IF call.sound /\ \A t \in served : permission[t] # "DENY" THEN {"ok"} ELSE {})

CallTool(r) ==
    /\ run[r].at = "acting" /\ ~Spawns(r)
    /\ \E outcome \in Outcomes(Head(run[r].calls)) : run' = [run EXCEPT ![r] = Stepped(run[r], outcome)]
    /\ UNCHANGED <<trajectories, permission>>

\* CeoSubagentSwarm.spawn: a child with the parent's model, tools and store.
Spawn(r, c, turns) ==
    /\ run[r].at = "acting" /\ Spawns(r) /\ Head(run[r].calls).sound /\ run[c] = Unborn /\ c # r
    /\ run' = [run EXCEPT ![r].at = "waiting", ![c] = Begin(c, turns, r)]
    /\ UNCHANGED <<trajectories, permission>>

\* The call lacks an argument, and raises.
SpawnRaises(r) ==
    /\ run[r].at = "acting" /\ Spawns(r)
    /\ run' = [run EXCEPT ![r] = Stepped(run[r], "error")]
    /\ UNCHANGED <<trajectories, permission>>

Judged(r) ==
    IF run[r].at = "exhausted" THEN "INCOMPLETE"
    ELSE IF Errors(run[r].steps) = {} THEN "SUCCESS"
    ELSE IF Oks(run[r].steps) = {} THEN "FAILED"
    ELSE "PARTIAL_SUCCESS"

\* The run is over, and its parent, if it waits, has the step of its call.
EndRun(r, at, status, outcome) ==
    LET over == [run EXCEPT ![r].at = at, ![r].status = status]
        p    == run[r].parent
    IN  run' = IF p # "none" /\ run[p].at = "waiting" THEN [over EXCEPT ![p] = Stepped(run[p], outcome)] ELSE over

\* The record is saved and reflected upon; the output of a subagent's call holds the child's
\* status, but no "error": to the parent it is a success.
Conclude(r) ==
    /\ run[r].at \in {"closing", "exhausted"} /\ Malformed(run[r].steps) = {}
    /\ trajectories' = Append(trajectories, r)
    /\ EndRun(r, "ended", Judged(r), "ok")
    /\ UNCHANGED permission

\* The summary raises before the record is saved: whoever awaits the run gets the error, a
\* parent as that of its call.
ConcludeRaises(r) ==
    /\ run[r].at \in {"closing", "exhausted"} /\ Malformed(run[r].steps) # {}
    /\ EndRun(r, "raised", "none", "error")
    /\ UNCHANGED <<trajectories, permission>>

\* TaskRunner.shutdown cancels the task that awaits it: neither the run nor those below it
\* leave a record.
CutOff(r) ==
    /\ run[r].parent = "none" /\ run[r].at \in {"thinking", "acting", "waiting"}
    /\ LET under[x \in Runs] == x = r \/ (run[x].parent # "none" /\ under[run[x].parent])
       IN  run' = [x \in Runs |-> IF under[x] /\ run[x].at \notin {"ended", "raised"} THEN [run[x] EXCEPT !.at = "cut off"]
                                  ELSE run[x]]
    /\ UNCHANGED <<trajectories, permission>>

\* set_permission, by the owner.
Permit(t, level) ==
    /\ permission' = [permission EXCEPT ![t] = level]
    /\ UNCHANGED <<run, trajectories>>

\* CeoModelProvider.plan: what the steps of a run without a registry call that is a
\* capability, or else the time.
PlanOf(r) ==
    LET named == {run[r].steps[n][1].name : n \in Called(run[r].steps)} \cap Tools
    IN  IF named = {} THEN {"time.now"} ELSE named

LoopInit ==
    /\ run = [r \in Runs |-> Unborn]
    /\ trajectories = <<>>
    /\ permission = [t \in JarvisTools |-> IF t = "delegate_to_joice" THEN "ASK" ELSE "ALLOW"]

Answers == UNION {[1..n -> Callable] : n \in 0..MaxAnswer}

LoopNext ==
    \/ \E r \in Started : \E turns \in Turns[r] : StartRun(r, turns)
    \/ \E r \in Runs :
        \/ \E calls \in Answers : Answer(r, calls)
        \/ \E w \in Words : AnswerByTable(r, w)
        \/ CallTool(r) \/ SpawnRaises(r) \/ Conclude(r) \/ ConcludeRaises(r) \/ CutOff(r)
        \/ \E c \in Runs : \E turns \in Turns[c] : Spawn(r, c, turns)
    \/ \E t \in Ruled, level \in {"ALLOW", "DENY"} : Permit(t, level)

LoopSpec == LoopInit /\ [][LoopNext]_loopVars

-----------------------------------------------------------------------------
LoopTypeOK ==
    /\ \A r \in Runs : run[r].at \in {"unborn", "thinking", "acting", "waiting", "closing", "exhausted", "ended",
                                      "raised", "cut off"}
    /\ trajectories \in Seq(Runs)

\* A run that ended is recorded once, a subagent's before its parent's, and no other is: one
\* that raised had a call without an object of arguments, and one that ended had none.  A
\* success holds no failed call of its own, a failure no other; an incomplete run used its
\* turns; every call waited for has a subagent at work; and what a planner keeps of a run can
\* be executed.
RunsAreJudged ==
    /\ \A r \in Runs :
        /\ Cardinality({n \in DOMAIN trajectories : trajectories[n] = r}) = (IF run[r].at = "ended" THEN 1 ELSE 0)
        /\ run[r].at = "raised" => Malformed(run[r].steps) # {}
        /\ run[r].at = "ended" => Malformed(run[r].steps) = {}
        /\ run[r].status = "SUCCESS" => Errors(run[r].steps) = {}
        /\ run[r].status = "FAILED" => Oks(run[r].steps) = {} /\ Errors(run[r].steps) # {}
        /\ run[r].status = "INCOMPLETE" <=>
             run[r].at = "ended" /\ run[r].given > 0 /\ Called(run[r].steps) = DOMAIN run[r].steps
        /\ run[r].turn <= IF run[r].given = 0 THEN 1 ELSE run[r].given
        /\ run[r].at = "waiting" => \E c \in Runs : run[c].parent = r /\ run[c].at \notin {"ended", "raised"}
        /\ PlanOf(r) \subseteq Tools
    /\ \A m, n \in DOMAIN trajectories : run[trajectories[m]].parent = trajectories[n] => m < n

=============================================================================
