---------------------------- MODULE BrowserEngine ----------------------------
(***************************************************************************)
(* PlaywrightBrowserEngine: browser contexts, the sessions that name them  *)
(* and the stop order that closes them, behind one gate (GatedCalls).      *)
(* A context is called after the call that opened it.                      *)
(***************************************************************************)
EXTENDS GatedCalls

CONSTANTS
    Openers,  \* the calls that open a session
    Closers,  \* the calls that close one; the others use a page
    Named,    \* Named[c]: the session name of call c
    Names

ASSUME SessionsAssumption ==
    /\ Openers \subseteq Calls /\ Openers \cap Closers = {}
    /\ Named \in [Calls -> Names]

VARIABLES
    context,   \* context[c]: the browser context opener c has made
    sessions,  \* sessions[n]: the context registered under name n, or None
    sweeps,    \* for each stop that is closing contexts: those it has still to close
    last,      \* those the shutdown has still to close
    stopping,  \* a stop waits for the call it has cancelled
    running,   \* there is a browser: "yes", "closing", "failed" (shutdown raised) or "no"
    known,     \* history: the contexts that have been registered
    left       \* history: those a stop or shutdown that raised has left behind

closing    == <<sweeps, last, left>>
engineVars == <<gate, context, sessions, closing, stopping, running, known>>

Still == UNCHANGED <<context, sessions, closing, stopping, running, known>>

InSessions == {sessions[n] : n \in Names} \ {None}

\* _close_all_sessions forgets every session before it closes the first.
Forget == sessions' = [n \in Names |-> None]

\* The sweep of a stop.
Swept == Forget /\ sweeps' = (sweeps \cup {InSessions}) \ {{}} /\ UNCHANGED <<last, left>>

Request(c) == Admit(c, "acting") /\ Still
AcquireBrowser(c) == Enter(c, "acting") /\ Still

\* A name in use is an error; otherwise the context is made ...
OpenContext(c) ==
    /\ c \in Openers /\ at[c] = "acting" /\ context[c] = "none"
    /\ running # "no" /\ sessions[Named[c]] = None
    /\ context' = [context EXCEPT ![c] = "open"]
    /\ UNCHANGED <<gate, sessions, closing, stopping, running, known>>

\* ... and registered once its requests are routed.
Register(c) ==
    /\ c \in Openers /\ at[c] = "acting" /\ context[c] = "open" /\ c \notin known
    /\ sessions' = [sessions EXCEPT ![Named[c]] = c]
    /\ known' = known \cup {c}
    /\ UNCHANGED <<gate, context, closing, stopping, running>>

\* The first page opens, or fails to: the session stays registered.
Opened(c) ==
    /\ c \in Openers /\ c \in InSessions
    /\ \E ok \in BOOLEAN : Return(c, ok)
    /\ Still

CloseContext(c) ==
    /\ c \in Closers /\ at[c] = "acting" /\ sessions[Named[c]] # None
    /\ context' = [context EXCEPT ![sessions[Named[c]]] = "closed"]
    /\ UNCHANGED <<gate, sessions, closing, stopping, running, known>>

\* close_session saves the profile, closes the context and only then forgets the session.
Closed(c) ==
    /\ c \in Closers /\ sessions[Named[c]] # None /\ context[sessions[Named[c]]] = "closed"
    /\ Return(c, TRUE)
    /\ sessions' = [sessions EXCEPT ![Named[c]] = None]
    /\ UNCHANGED <<context, closing, stopping, running, known>>

\* A page operation ends, or any operation fails: a name in use, an unknown session or
\* page, no browser, a Playwright error, a postcondition.
Ends(c) ==
    /\ \E ok \in BOOLEAN : (ok => c \notin Openers \cup Closers) /\ Return(c, ok)
    /\ Still

\* The cancelled call has ended; the stop that waits for it goes on before any other
\* call gets further, and sweeps.
CancelOperation(c) ==
    /\ Unwind(c)
    /\ IF stopping THEN Swept /\ stopping' = FALSE ELSE UNCHANGED <<sessions, closing, stopping>>
    /\ UNCHANGED <<context, running, known>>

\* The call ended by itself before the cancellation came.
SweepNow ==
    /\ stopping /\ doomed = {}
    /\ Swept
    /\ stopping' = FALSE
    /\ UNCHANGED <<gate, context, running, known>>

AbandonOperation(c) == Abandon(c) /\ Still

\* Mutant: a stop closes the sessions only if it had to cancel a call.
StopLeaves ==
    /\ Stop
    /\ stopping' = (holder # None)
    /\ UNCHANGED <<context, sessions, closing, running, known>>

StopBrowser ==
    /\ Stop
    /\ IF holder = None THEN Swept /\ UNCHANGED stopping
       ELSE stopping' = TRUE /\ UNCHANGED <<sessions, closing>>
    /\ UNCHANGED <<context, running, known>>

ResumeBrowser == Resume /\ Still

\* The next context of a sweep is closed.
CloseSwept(k) ==
    /\ \/ k \in last /\ last' = last \ {k} /\ UNCHANGED sweeps
       \/ \E s \in sweeps : k \in s /\ sweeps' = ((sweeps \ {s}) \cup {s \ {k}}) \ {{}} /\ UNCHANGED last
    /\ context' = [context EXCEPT ![k] = "closed"]
    /\ UNCHANGED <<gate, sessions, left, stopping, running, known>>

\* Closing a context raises: the stop fails, and what was left to close is in no list.
SweepRaises(s) ==
    /\ sweeps' = sweeps \ {s}
    /\ left' = left \cup s
    /\ UNCHANGED <<gate, context, sessions, last, stopping, running, known>>

Shutdown ==
    /\ running = "yes"
    /\ running' = "closing"
    /\ Forget /\ last' = InSessions
    /\ UNCHANGED <<gate, context, sweeps, left, stopping, known>>

\* Saving a profile, closing a context or closing the browser raises: the browser stays.
ShutdownRaises ==
    /\ running = "closing"
    /\ running' = "failed"
    /\ last' = {} /\ left' = left \cup last
    /\ UNCHANGED <<gate, context, sessions, sweeps, stopping, known>>

\* The browser closes after the sessions, with whatever it still has.
BrowserCloses ==
    /\ running = "closing" /\ last = {}
    /\ running' = "no"
    /\ context' = [c \in Calls |-> IF context[c] = "open" THEN "closed" ELSE context[c]]
    /\ UNCHANGED <<gate, sessions, closing, stopping, known>>

EngineStep(c) ==
    \/ AcquireBrowser(c) \/ OpenContext(c) \/ Register(c) \/ Opened(c)
    \/ CloseContext(c) \/ Closed(c) \/ Ends(c) \/ CancelOperation(c)

EngineInit ==
    /\ GateInit
    /\ context = [c \in Calls |-> "none"]
    /\ sessions = [n \in Names |-> None]
    /\ sweeps = {} /\ last = {} /\ left = {} /\ stopping = FALSE /\ running = "yes" /\ known = {}

EngineNext ==
    \/ StopBrowser \/ ResumeBrowser \/ SweepNow \/ Shutdown \/ ShutdownRaises \/ BrowserCloses
    \/ \E s \in sweeps : SweepRaises(s)
    \/ \E c \in Calls : Request(c) \/ EngineStep(c) \/ AbandonOperation(c) \/ CloseSwept(c)

EngineSpec == EngineInit /\ [][EngineNext]_engineVars

-----------------------------------------------------------------------------
EngineTypeOK ==
    /\ GateTypeOK
    /\ context \in [Calls -> {"none", "open", "closed"}]
    /\ sessions \in [Names -> Openers \cup {None}]
    /\ sweeps \subseteq SUBSET Openers
    /\ last \subseteq Openers /\ left \subseteq Openers /\ known \subseteq Openers
    /\ stopping \in BOOLEAN /\ running \in {"yes", "closing", "failed", "no"}

\* Where a registered context may be found: under its name, on the list of a stop or of the
\* shutdown, or among what one of these left behind when it raised.
Sweeping  == UNION sweeps
Accounted == InSessions \cup Sweeping \cup last \cup left

\* Only a stop or a shutdown that raises loses browser contexts: an open one that has been
\* registered is named by a session, is about to be closed by a sweep under way, or was
\* left by a sweep that raised (_close_all_sessions forgets the sessions first, and gives up
\* at the first that it cannot close); an open one that has not is in the hands of the call
\* that opens it or was when that call was cut short (open_session registers a context only
\* after it has awaited its routing).  When a stop has swept no session is left until a
\* resume, and when the shutdown has gone through no context is open.
ContextsAreOwned ==
    /\ \A k \in Openers :
          context[k] = "open" => IF k \in known THEN k \in Accounted ELSE at[k] \in {"acting", "refused"}
    /\ stopped /\ ~stopping => InSessions = {}
    /\ running = "no" => \A k \in Openers : context[k] # "open"

=============================================================================
