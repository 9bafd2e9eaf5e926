-------------------------------- MODULE Effects --------------------------------
(***************************************************************************)
(* The three controllers of the desktop, the screen and the browser.  They *)
(* share no state in the program, each has a gate of its own, so a         *)
(* behaviour of the process is a behaviour of each: a behaviour here runs  *)
(* one of them, and all three are initial states.                          *)
(***************************************************************************)
EXTENDS ComputerController, VisionRuntime, BrowserEngine

VARIABLE which  \* the controller of this behaviour

ofComputer  == <<helper, cut>>
ofVision    == <<desktop, owners, cached, applied, reported>>
ofBrowser   == <<context, sessions, closing, stopping, running, known>>
effectsVars == <<which, gate, ofComputer, ofVision, ofBrowser>>

OnComputer(A) == which = "computer" /\ A /\ UNCHANGED <<which, ofVision, ofBrowser>>
OnVision(A)   == which = "vision" /\ A /\ UNCHANGED <<which, ofComputer, ofBrowser>>
OnBrowser(A)  == which = "browser" /\ A /\ UNCHANGED <<which, ofComputer, ofVision>>

Init ==
    /\ which \in {"computer", "vision", "browser"}
    /\ ControllerInit /\ VisionInit /\ EngineInit

Next ==
    \/ OnComputer(ControllerNext)
    \/ OnVision(VisionNext)
    \/ OnBrowser(EngineNext)

\* asyncio delivers cancellations and wakes the waiters of a lock, and the helper's status
\* request has a time limit.  Drivers and pages are not assumed to answer.
Fairness ==
    \A c \in Calls :
        /\ WF_effectsVars(OnComputer(CancelRequest(c)))
        /\ WF_effectsVars(OnComputer(AcquireComputer(c)))
        /\ WF_effectsVars(OnComputer(Proceed(c)))
        /\ WF_effectsVars(OnVision(CancelTask(c)))
        /\ WF_effectsVars(OnVision(AcquireVision(c)))
        /\ WF_effectsVars(OnBrowser(CancelOperation(c)))
        /\ WF_effectsVars(OnBrowser(AcquireBrowser(c)))

Spec     == Init /\ [][Next]_effectsVars
FairSpec == Spec /\ Fairness

\* The state of every controller stays in its types, the gate's included.
TypeOK == ControllerTypeOK /\ VisionTypeOK /\ EngineTypeOK

\* What a stop finds under way ends, whatever drivers and pages do.
StopReleases ==
    \A c \in Calls :
        (stopped /\ at[c] \in {"waiting", "held", "acting"}) ~> at[c] \in {"done", "refused"}

=============================================================================
