----------------------------- MODULE VoiceSession -----------------------------
(***************************************************************************)
(* A voice session (voice/runtime.py) and its WebSocket (/ws/voice in      *)
(* main.py).  Four kinds of actors share it: the socket's loop, which      *)
(* carries out the client's orders one after the other; the pump, which    *)
(* turns transcripts into tasks; one watcher per task, which waits for its *)
(* result; and the speeches.  A step is the code between two awaits.       *)
(***************************************************************************)
EXTENDS Naturals

CONSTANTS
    MaxTurns,  \* bound on committed turns
    MaxStops   \* bound on stop and resume orders, and on interruptions

ASSUME VoiceAssumption == MaxTurns \in Nat /\ MaxStops \in Nat

\* The tasks the session submits, in order; each turn makes one at most.
VoiceTasks == 1..MaxTurns
Nobody     == 0

VARIABLES
    stopped, vgeneration,     \* stopped, generation
    speechGeneration,         \* _speech_generation
    turn,                     \* whether turn_bytes > 0
    turns,                    \* turns committed so far
    transcripts,              \* those whose transcript has not been heard
    loop,                     \* what the socket's loop is doing, and with which task
    pump,                     \* what the pump is doing, and with which task
    active,                   \* active_task_id
    voices,                   \* speeches under way
    latest,                   \* _speech_task
    watchers,                 \* _complete_task coroutines
    fate,                     \* the tasks, as the task runtime keeps them
    announced, withdrawn,     \* ghosts: results told, tasks that an order has taken back
    hushed                    \* ghost: tasks whose result an order has silenced

voiceVars == <<stopped, vgeneration, speechGeneration, turn, turns, transcripts, loop, pump, active, voices, latest,
               watchers, fate, announced, withdrawn, hushed>>

Resting   == [at |-> "ready", task |-> Nobody]
Speech(purpose, t) == [purpose |-> purpose, task |-> t]
Silence   == Speech("none", Nobody)
Speaking  == latest \in voices
Terminal(t) == fate[t] \in {"finished", "cancelled"}

\* interrupt: the speech that was begun last is cancelled; the results that wait at one of
\* these places are not to be spoken any more.
Hush(places) ==
    /\ speechGeneration' = speechGeneration + 1
    /\ voices' = voices \ {latest}
    /\ hushed' = hushed \cup {w.task : w \in {x \in watchers : x.at \in places}}

-----------------------------------------------------------------------------
AppendAudio ==
    /\ loop = Resting /\ ~stopped /\ ~turn /\ turns < MaxTurns
    /\ IF Speaking THEN speechGeneration < MaxStops /\ Hush({"queued"}) ELSE UNCHANGED <<speechGeneration, voices, hushed>>
    /\ turn' = TRUE
    /\ UNCHANGED <<stopped, vgeneration, turns, transcripts, loop, pump, active, latest, watchers, fate, announced, withdrawn>>

Sent == turns' = turns + 1 /\ transcripts' = transcripts + 1 /\ turn' = FALSE

Commit(replace) ==
    /\ loop = Resting /\ ~stopped /\ turn
    /\ IF replace /\ active # Nobody
       THEN loop' = [at |-> "replacing", task |-> active] /\ UNCHANGED <<turn, turns, transcripts>>
       ELSE Sent /\ UNCHANGED loop
    /\ UNCHANGED <<stopped, vgeneration, speechGeneration, pump, active, voices, latest, watchers, fate, announced, withdrawn, hushed>>

Interrupt ==
    /\ loop = Resting /\ speechGeneration < MaxStops
    /\ Hush({"queued"})
    /\ UNCHANGED <<stopped, vgeneration, turn, turns, transcripts, loop, pump, active, latest, watchers, fate, announced, withdrawn>>

\* stop waits for the speech to end before it looks at the active task.
Stop ==
    /\ loop = Resting /\ vgeneration < MaxStops /\ speechGeneration < MaxStops
    /\ stopped' = TRUE /\ vgeneration' = vgeneration + 1 /\ turn' = FALSE
    /\ Hush({"queued", "waiting"})
    /\ loop' = IF Speaking THEN [at |-> "stopping", task |-> Nobody]
               ELSE IF active # Nobody THEN [at |-> "cancelling", task |-> active] ELSE Resting
    /\ UNCHANGED <<turns, transcripts, pump, active, latest, watchers, fate, announced, withdrawn>>

StopLooks ==
    /\ loop.at = "stopping"
    /\ loop' = IF active # Nobody THEN [at |-> "cancelling", task |-> active] ELSE Resting
    /\ UNCHANGED <<stopped, vgeneration, speechGeneration, turn, turns, transcripts, pump, active, voices, latest, watchers, fate, announced, withdrawn, hushed>>

\* Mutant: the task that was taken back stays the active one.
WithdrawKeeping ==
    /\ withdrawn' = withdrawn \cup {loop.task}
    /\ UNCHANGED active

\* The active task is forgotten, whichever it is by now.
Withdraw ==
    /\ withdrawn' = withdrawn \cup {loop.task}
    /\ active' = Nobody

\* The cancellation is recorded (_voice_cancel: unless the task has ended), and then the
\* order ends.
CancelRecorded ==
    /\ loop.at \in {"cancelling", "replacing"}
    /\ fate' = [fate EXCEPT ![loop.task] = IF @ = "live" THEN "cancelled" ELSE @]
    /\ loop' = [loop EXCEPT !.at = IF @ = "replacing" THEN "replaced" ELSE "cancelled"]
    /\ UNCHANGED <<stopped, vgeneration, speechGeneration, turn, turns, transcripts, pump, active, voices, latest, watchers, announced, withdrawn, hushed>>

OrderEnds ==
    /\ loop.at \in {"cancelled", "replaced"}
    /\ Withdraw
    /\ IF loop.at = "replaced" THEN Sent ELSE UNCHANGED <<turn, turns, transcripts>>
    /\ loop' = Resting
    /\ UNCHANGED <<stopped, vgeneration, speechGeneration, pump, voices, latest, watchers, fate, announced, hushed>>

Resume ==
    /\ loop = Resting /\ vgeneration < MaxStops
    /\ stopped' = FALSE /\ vgeneration' = vgeneration + 1
    /\ UNCHANGED <<speechGeneration, turn, turns, transcripts, loop, pump, active, voices, latest, watchers, fate, announced, withdrawn, hushed>>

\* close cancels the pump, the last speech and the last watcher.
Close ==
    /\ loop = Resting
    /\ loop' = [at |-> "closed", task |-> Nobody]
    /\ pump' = [at |-> "closed", task |-> Nobody]
    /\ voices' = voices \ {latest}
    /\ watchers' = {w \in watchers : \E t \in VoiceTasks : t > w.task /\ fate[t] # "absent" /\ pump.task # t}
    /\ UNCHANGED <<stopped, vgeneration, speechGeneration, turn, turns, transcripts, active, latest, fate, announced, withdrawn, hushed>>

-----------------------------------------------------------------------------
\* The pump hears a transcript and, unless the session is stopped, submits a task.
Hear ==
    /\ pump = Resting /\ transcripts > 0
    /\ transcripts' = transcripts - 1
    /\ pump' = IF stopped THEN Resting
               ELSE [at |-> "submitting", task |-> CHOOSE t \in VoiceTasks :
                        fate[t] = "absent" /\ \A u \in VoiceTasks : fate[u] = "absent" => t <= u]
    /\ UNCHANGED <<stopped, vgeneration, speechGeneration, turn, turns, loop, active, voices, latest, watchers, fate, announced, withdrawn, hushed>>

Submitted ==
    /\ pump.at = "submitting"
    /\ fate' = [fate EXCEPT ![pump.task] = "live"]
    /\ active' = pump.task
    /\ pump' = [pump EXCEPT !.at = "acknowledging"]
    /\ UNCHANGED <<stopped, vgeneration, speechGeneration, turn, turns, transcripts, loop, voices, latest, watchers, announced, withdrawn, hushed>>

\* The acknowledgment is spoken over what is being said, and the result is watched in the
\* generation of now.
Acknowledged ==
    /\ pump.at = "acknowledging"
    /\ latest' = Speech("acknowledgment", pump.task)
    /\ voices' = voices \cup {latest'}
    /\ watchers' = watchers \cup {[task |-> pump.task, generation |-> vgeneration, at |-> "waiting",
                                   speech |-> Silence, heard |-> 0]}
    /\ pump' = Resting
    /\ UNCHANGED <<stopped, vgeneration, speechGeneration, turn, turns, transcripts, loop, active, fate, announced, withdrawn, hushed>>

Becomes(w, next) == watchers' = (watchers \ {w}) \cup next

\* The result is told if the task is still the active one of the same generation.
ResultSeen(w) ==
    /\ w \in watchers /\ w.at = "waiting" /\ Terminal(w.task)
    /\ IF active # w.task \/ stopped \/ vgeneration # w.generation
       THEN Becomes(w, {}) /\ UNCHANGED announced
       ELSE Becomes(w, {[w EXCEPT !.at = "announcing"]}) /\ announced' = announced \cup {w.task}
    /\ UNCHANGED <<stopped, vgeneration, speechGeneration, turn, turns, transcripts, loop, pump, active, voices, latest, fate, withdrawn, hushed>>

\* Only once it is told is the speech generation noted, and the last speech waited for.
ResultTold(w) ==
    /\ w \in watchers /\ w.at = "announcing"
    /\ Becomes(w, {[w EXCEPT !.at = "queued", !.speech = latest, !.heard = speechGeneration]})
    /\ UNCHANGED <<stopped, vgeneration, speechGeneration, turn, turns, transcripts, loop, pump, active, voices, latest, fate, announced, withdrawn, hushed>>

ResultSpoken(w) ==
    /\ w \in watchers /\ w.at = "queued" /\ w.speech \notin voices
    /\ Becomes(w, {})
    /\ IF speechGeneration # w.heard THEN UNCHANGED <<voices, latest>>
       ELSE latest' = Speech("completion", w.task) /\ voices' = voices \cup {latest'}
    /\ UNCHANGED <<stopped, vgeneration, speechGeneration, turn, turns, transcripts, loop, pump, active, fate, announced, withdrawn, hushed>>

SpeechEnds(v) ==
    /\ v \in voices
    /\ voices' = voices \ {v}
    /\ UNCHANGED <<stopped, vgeneration, speechGeneration, turn, turns, transcripts, loop, pump, active, latest, watchers, fate, announced, withdrawn, hushed>>

\* The task runtime ends a task.
TaskEnds(t) ==
    /\ fate[t] = "live"
    /\ fate' = [fate EXCEPT ![t] = "finished"]
    /\ UNCHANGED <<stopped, vgeneration, speechGeneration, turn, turns, transcripts, loop, pump, active, voices, latest, watchers, announced, withdrawn, hushed>>

VoiceInit ==
    /\ stopped = FALSE /\ vgeneration = 0 /\ speechGeneration = 0
    /\ turn = FALSE /\ turns = 0 /\ transcripts = 0
    /\ loop = Resting /\ pump = Resting
    /\ active = Nobody
    /\ voices = {} /\ latest = Silence /\ watchers = {}
    /\ fate = [t \in VoiceTasks |-> "absent"]
    /\ announced = {} /\ withdrawn = {} /\ hushed = {}

VoiceNext ==
    \/ AppendAudio \/ Interrupt \/ Stop \/ StopLooks \/ CancelRecorded \/ OrderEnds \/ Resume \/ Close
    \/ \E replace \in BOOLEAN : Commit(replace)
    \/ Hear \/ Submitted \/ Acknowledged
    \/ \E w \in watchers : ResultSeen(w) \/ ResultTold(w) \/ ResultSpoken(w)
    \/ \E v \in voices : SpeechEnds(v)
    \/ \E t \in VoiceTasks : TaskEnds(t)

VoiceSpec == VoiceInit /\ [][VoiceNext]_voiceVars

-----------------------------------------------------------------------------
VoiceTypeOK ==
    /\ stopped \in BOOLEAN /\ turn \in BOOLEAN
    /\ {vgeneration, speechGeneration} \subseteq 0..MaxStops /\ {turns, transcripts} \subseteq 0..MaxTurns
    /\ active \in VoiceTasks \cup {Nobody}
    /\ \A w \in watchers : fate[w.task] # "absent" /\ w.generation <= vgeneration
    /\ fate \in [VoiceTasks -> {"absent", "live", "finished", "cancelled"}]

\* Once an order to stop or to replace it has taken a task back, its result is not told,
\* however late it comes and whatever was resumed or submitted since; and a result that was
\* awaited when the session was stopped, or that waited for a speech to end when the session was
\* stopped or interrupted, is neither told nor begun to be spoken afterwards.  A result whose
\* message is being sent at that moment is still spoken: only then is the generation noted.
WithdrawnIsSilent ==
    [][/\ announced' \cap (withdrawn \cup hushed) \subseteq announced
       /\ \A t \in hushed : Speech("completion", t) \in voices' => Speech("completion", t) \in voices]_voiceVars

=============================================================================
