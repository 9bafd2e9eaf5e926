---------------------------- MODULE JarvisSession ----------------------------
(***************************************************************************)
(* The local assistant's sessions: JarvisAgentManager, which keeps the     *)
(* wake word or one Gemini Live session, GeminiLiveSession with its        *)
(* watchdog, and the websocket under it.                                   *)
(*                                                                         *)
(* Every transition is the code between two awaits.  Coroutines made by    *)
(* create_task start in the order they were made (ready); request          *)
(* handlers, microphone frames and completed I/O may come between any two. *)
(***************************************************************************)
EXTENDS Naturals, Sequences

CONSTANT MaxCalls  \* bound on the requests and detected wake words

ASSUME MaxCallsAssumption == MaxCalls \in Nat

Sessions == 1..MaxCalls
None     == 0

VARIABLES
    \* --- the manager ---
    state,      \* JarvisState
    running,    \* _is_running, and the microphone with it
    listening,  \* the wake word manager is not paused
    active,     \* active_session
    ready,      \* the coroutines create_task has made and the loop has not started
    \* --- the sessions ---
    made,       \* how many sessions have been made
    place,      \* place[k]: where the activation that made session k is
    up,         \* up[k]: _running of session k
    sock,       \* sock[k]: its websocket: none, open, or lost to either side
    closing,    \* the sessions whose socket an end_session waits to close
    usage,      \* usage[k]: the usage records of session k
    \* --- bounds and history ---
    calls,
    rushed    \* a request or wake word has come too soon (see Call)

manager  == <<state, running, listening, active, ready>>
sessions == <<made, place, up, sock, closing, usage>>
vars     == <<manager, sessions, calls, rushed>>

States == {"starting", "idle", "wake", "connecting", "active", "ending", "error"}
Places == {"unused", "connecting", "handshake", "backoff", "live", "over"}

\* What is queued; a teardown also names the session whose end or stop queued it.
Activation  == [op |-> "activate", of |-> None]
Teardown(k) == [op |-> "end", of |-> k]
Entry       == {Activation} \cup {Teardown(k) : k \in Sessions}

\* Neither between two states nor with work queued.
Settled == state \in {"starting", "idle", "active"} /\ ready = <<>>

\* An activation is queued: nothing tells the next wake word.
Waking == \E i \in DOMAIN ready : ready[i].op = "activate"

Call(inTime) ==
    /\ calls < MaxCalls /\ calls' = calls + 1
    /\ rushed' = (rushed \/ ~inTime)

-----------------------------------------------------------------------------
(* activate_session and end_session, up to their first await               *)

\* Mutant: a session that is there does not refuse another one.
ActivateAlways ==
    LET k == made + 1
    IN  /\ made < MaxCalls
        /\ state' = "connecting"
        /\ listening' = FALSE
        /\ made' = k
        /\ active' = k
        /\ place' = [place EXCEPT ![k] = "connecting"]
        /\ up' = [up EXCEPT ![k] = TRUE]

\* Refused while connecting or active, and in no other state.  (Each session takes a
\* call, so the bound on made never blocks it.)
Activate ==
    \/ /\ state \in {"connecting", "active"}
       /\ UNCHANGED <<state, listening, active, made, place, up>>
    \/ LET k == made + 1
       IN  /\ state \notin {"connecting", "active"}
           /\ made < MaxCalls
           /\ state' = "connecting"
           /\ listening' = FALSE
           /\ made' = k
           /\ active' = k
           /\ place' = [place EXCEPT ![k] = "connecting"]
           /\ up' = [up EXCEPT ![k] = TRUE]

\* The active session runs: it has not been stopped yet.
Runs     == \E k \in Sessions : k = active /\ up[k]
\* Stopping it waits for a socket to close.
MustWait == \E k \in Sessions : k = active /\ up[k] /\ sock[k] # "none"

\* There is no session, it was stopped before, or it has no socket to wait for; in the
\* last case its on_session_ended queues another teardown.
EndAtOnce(queue) ==
    /\ ~MustWait
    /\ up' = [k \in Sessions |-> up[k] /\ k # active]
    /\ usage' = [k \in Sessions |-> usage[k] + (IF k = active THEN 1 ELSE 0)]
    /\ ready' = IF Runs THEN Append(queue, Teardown(active)) ELSE queue
    /\ active' = None
    /\ listening' = TRUE
    /\ state' = "idle"
    /\ UNCHANGED closing

\* Mutant: the idle state is announced before the socket is closed.
EndAnnouncedEarly(queue) ==
    /\ MustWait
    /\ up' = [up EXCEPT ![active] = FALSE]
    /\ closing' = closing \cup {active}
    /\ active' = None
    /\ state' = "idle"
    /\ ready' = queue
    /\ UNCHANGED <<listening, usage>>

\* Mutant: active_session is cleared after the wait.
EndKeepsActive(queue) ==
    /\ MustWait
    /\ up' = [up EXCEPT ![active] = FALSE]
    /\ closing' = closing \cup {active}
    /\ state' = "ending"
    /\ ready' = queue
    /\ UNCHANGED <<active, listening, usage>>

\* The session is taken and stopped, and end_session waits for its socket.
EndWaits(queue) ==
    /\ MustWait
    /\ up' = [up EXCEPT ![active] = FALSE]
    /\ closing' = closing \cup {active}
    /\ active' = None
    /\ state' = "ending"
    /\ ready' = queue
    /\ UNCHANGED <<listening, usage>>

EndSession(queue) == EndAtOnce(queue) \/ EndWaits(queue)

-----------------------------------------------------------------------------
(* The callers: endpoints, microphone frames, queued coroutines            *)

Start ==
    /\ Call(Settled)
    /\ ~running
    /\ running' = TRUE
    /\ listening' = TRUE
    /\ state' = "idle"
    /\ UNCHANGED <<active, ready, sessions>>

\* Mutant: the session is not looked at.
StopAnyway ==
    /\ Call(Settled)
    /\ running' = FALSE
    /\ ready' = Append(ready, Teardown(active))
    /\ listening' = FALSE
    /\ state' = "starting"
    /\ UNCHANGED <<active, sessions>>

\* The teardown only begins when the loop comes to it.
Stop ==
    /\ Call(Settled)
    /\ running' = FALSE
    /\ ready' = IF active # None THEN Append(ready, Teardown(active)) ELSE ready
    /\ listening' = FALSE
    /\ state' = "starting"
    /\ UNCHANGED <<active, sessions>>

\* Nothing refuses a session to an agent that is stopped.
RequestActivate ==
    /\ Call(Settled /\ running)
    /\ Activate
    /\ UNCHANGED <<running, ready, sock, closing, usage>>

RequestEnd ==
    /\ Call(Settled)
    /\ EndSession(ready)
    /\ UNCHANGED <<running, made, place, sock>>

\* A frame reaches the detector when idle; the test endpoint calls it in any state.
WakeWord(testing) ==
    /\ Call(IF testing THEN Settled /\ running ELSE ~Waking)
    /\ listening
    /\ testing \/ (state = "idle" /\ running)
    /\ state' = "wake"
    /\ ready' = Append(ready, Activation)
    /\ UNCHANGED <<running, listening, active, sessions>>

RunActivation ==
    /\ ready # <<>> /\ Head(ready).op = "activate"
    /\ ready' = Tail(ready)
    /\ Activate
    /\ UNCHANGED <<running, sock, closing, usage, calls, rushed>>

RunTeardown ==
    /\ ready # <<>> /\ Head(ready).op = "end"
    /\ EndSession(Tail(ready))
    /\ UNCHANGED <<running, made, place, sock, calls, rushed>>

-----------------------------------------------------------------------------
(* What a session waits for                                                *)

\* The websocket is there; its setup message is still to be sent.
Connect(k) ==
    /\ place[k] = "connecting"
    /\ place' = [place EXCEPT ![k] = "handshake"]
    /\ sock' = [sock EXCEPT ![k] = "open"]
    /\ UNCHANGED <<manager, made, up, closing, usage, calls, rushed>>

\* start returns, whatever has become of the session and the manager: the workers are
\* created, and end by themselves if the session was stopped.
Establish(k) ==
    /\ place[k] = "handshake"
    /\ place' = [place EXCEPT ![k] = "live"]
    /\ state' = "active"
    /\ UNCHANGED <<running, listening, active, ready, made, up, sock, closing, usage, calls, rushed>>

\* Mutant: the failed activation does not clean up after itself.
FailSilently(k) ==
    /\ place[k] \in {"connecting", "handshake"}
    /\ place' = [place EXCEPT ![k] = "over"]
    /\ sock' = [sock EXCEPT ![k] = "none"]
    /\ state' = "error"
    /\ UNCHANGED <<running, listening, active, ready, made, up, closing, usage, calls, rushed>>

\* No token, no connection, or the setup message was not taken.
Fail(k) ==
    /\ place[k] \in {"connecting", "handshake"}
    /\ place' = [place EXCEPT ![k] = "backoff"]
    /\ sock' = [sock EXCEPT ![k] = "none"]
    /\ state' = "error"
    /\ UNCHANGED <<running, listening, active, ready, made, up, closing, usage, calls, rushed>>

\* After the pause, end_session takes whatever session is active by then.
BackOff(k) ==
    /\ place[k] = "backoff"
    /\ place' = [place EXCEPT ![k] = "over"]
    /\ EndSession(ready)
    /\ UNCHANGED <<running, made, sock, calls, rushed>>

\* The socket is closed; on_session_ended queues another teardown, the usage is
\* recorded and the wake word resumes.
Closed(k) ==
    /\ k \in closing
    /\ closing' = closing \ {k}
    /\ sock' = [sock EXCEPT ![k] = "none"]
    /\ ready' = Append(ready, Teardown(k))
    /\ usage' = [usage EXCEPT ![k] = @ + 1]
    /\ listening' = TRUE
    /\ state' = "idle"
    /\ UNCHANGED <<running, active, made, place, up, calls, rushed>>

\* The server or the network ends the connection; the receiver loop ends with it and
\* tells nobody.
Drop(k) ==
    /\ sock[k] = "open"
    /\ sock' = [sock EXCEPT ![k] = "lost"]
    /\ UNCHANGED <<manager, made, place, up, closing, usage, calls, rushed>>

\* Silence or the maximal duration: the watchdog calls stop, which cancels the workers
\* and so the watchdog.  At the first await of the close it is cut short, and nobody is
\* told; on a connection already lost the close need not wait, and then
\* on_session_ended is called.
Watchdog(k) ==
    /\ place[k] = "live" /\ up[k]
    /\ up' = [up EXCEPT ![k] = FALSE]
    /\ \/ sock' = [sock EXCEPT ![k] = "lost"] /\ UNCHANGED ready
       \/ /\ sock[k] = "lost"
          /\ sock' = [sock EXCEPT ![k] = "none"]
          /\ ready' = Append(ready, Teardown(k))
    /\ UNCHANGED <<state, running, listening, active, made, place, closing, usage, calls, rushed>>

SessionStep(k) ==
    Connect(k) \/ Establish(k) \/ Fail(k) \/ BackOff(k) \/ Closed(k) \/ Watchdog(k)

-----------------------------------------------------------------------------
\* get_jarvis_manager starts the agent it makes.
Init ==
    /\ state = "idle" /\ running = TRUE /\ listening = TRUE
    /\ active = None /\ ready = <<>>
    /\ made = 0
    /\ place = [k \in Sessions |-> "unused"]
    /\ up = [k \in Sessions |-> FALSE]
    /\ sock = [k \in Sessions |-> "none"]
    /\ closing = {}
    /\ usage = [k \in Sessions |-> 0]
    /\ calls = 0 /\ rushed = FALSE

Next ==
    \/ Start \/ Stop \/ RequestActivate \/ RequestEnd
    \/ \E testing \in BOOLEAN : WakeWord(testing)
    \/ RunActivation \/ RunTeardown
    \/ \E k \in Sessions : SessionStep(k) \/ Drop(k)

Spec == Init /\ [][Next]_vars

\* asyncio starts what is queued; connecting and closing have time limits, the pause is
\* a sleep, and the watchdog's clock runs.
Fairness ==
    /\ WF_vars(RunActivation) /\ WF_vars(RunTeardown)
    /\ \A k \in Sessions : WF_vars(SessionStep(k))

FairSpec == Spec /\ Fairness

-----------------------------------------------------------------------------
\* Every variable stays in its type.
TypeOK ==
    /\ state \in States
    /\ running \in BOOLEAN /\ listening \in BOOLEAN
    /\ active \in Sessions \cup {None}
    /\ ready \in Seq(Entry)
    /\ made \in 0..MaxCalls
    /\ place \in [Sessions -> Places]
    /\ up \in [Sessions -> BOOLEAN]
    /\ sock \in [Sessions -> {"none", "open", "lost"}]
    /\ closing \subseteq Sessions
    /\ usage \in [Sessions -> Nat]
    /\ calls \in 0..MaxCalls
    /\ rushed \in BOOLEAN

\* As long as requests meet a settled manager, no session is asked of a stopped agent
\* and no wake word is heard twice in one turn of the loop, there is no Gemini connection
\* while the manager is idle: not after a failed handshake, a dropped connection, a
\* watchdog or a callback of an earlier session.
IdleMeansDisconnected ==
    ~rushed /\ state \in {"idle", "wake"} => \A k \in Sessions : sock[k] # "open"

\* Under the same condition, a queued teardown never meets a session that began after the one
\* it was queued for: a callback that comes late ends nothing new.
TeardownsHitTheirOwn ==
    ~rushed => \A i \in DOMAIN ready : ready[i].op = "end" => active \in {None, ready[i].of}

\* Whatever users, watchdogs, failures and callbacks do, and in whichever order, the
\* usage of a session is recorded at most once.
UsageRecordedOnce == \A k \in Sessions : usage[k] <= 1

\* The manager is never left between two states, even by requests that overlap.
ManagerSettles ==
    state \in {"wake", "connecting", "ending", "error"} ~> state \in {"starting", "idle", "active"}

-----------------------------------------------------------------------------
(* What the code says and does not do.                                     *)

\* gemini/session.py, the watchdog: "Inactivity timeout ... Returning to wake mode."
InactivityReturnsToWake ==
    \A k \in Sessions :
        (state = "active" /\ active = k /\ place[k] = "live" /\ ~up[k]) ~> active # k

=============================================================================
