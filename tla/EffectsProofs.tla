----------------------------- MODULE EffectsProofs -----------------------------
(***************************************************************************)
(* Proofs about the three controllers, for any calls and any number of     *)
(* orders, and about their composition.  Every step of a controller is a   *)
(* step of the gate or leaves it alone, so what GatedCallsProofs shows of  *)
(* the gate holds of each.                                                 *)
(***************************************************************************)
EXTENDS Effects, GatedCallsProofs

-----------------------------------------------------------------------------
(***************************************************************************)
(* ComputerController, whichever calls are inputs.  OneHelper is inductive *)
(* together with the types.                                                *)
(***************************************************************************)
ComputerInv == ControllerTypeOK /\ OneHelper

LEMMA ControllerStepIsGated ==
    ASSUME [ControllerNext]_controllerVars
    PROVE  [GateNext]_gate
<1>1. CASE StopComputer \/ ResumeComputer
    BY <1>1 DEF StopComputer, ResumeComputer, GateNext
<1>2. ASSUME NEW c \in Calls, Execute(c) \/ AcquireComputer(c)
      PROVE  GateNext
    <2>1. First(c) \in {"held", "acting"}
        BY DEF First
    <2> QED  BY <1>2, <2>1 DEF Execute, AcquireComputer, GateNext
<1>3. ASSUME NEW c \in Calls, Proceed(c)
      PROVE  GateNext
    BY <1>3 DEF Proceed, GateNext
<1>4. ASSUME NEW c \in Calls, Launch(c) \/ HelperExits(c)
      PROVE  UNCHANGED gate
    BY <1>4 DEF Launch, HelperExits
<1>5. ASSUME NEW c \in Calls, Answer(c) \/ Timeout(c)
      PROVE  GateNext
    <2>1. \E ok \in BOOLEAN : Return(c, ok)
        BY <1>5 DEF Answer, Timeout
    <2> QED  BY <2>1 DEF GateNext
<1>6. ASSUME NEW c \in Calls, CancelRequest(c) \/ AbandonRequest(c)
      PROVE  GateNext
    BY <1>6 DEF CancelRequest, AbandonRequest, GateNext
<1>7. CASE UNCHANGED controllerVars
    BY <1>7 DEF controllerVars
<1> QED  BY <1>1, <1>2, <1>3, <1>4, <1>5, <1>6, <1>7 DEF ControllerNext, ControllerStep

\* The calls of the controller keep the promise of EffectGate.
THEOREM ComputerKeepsItsPromise == ControllerSpec => GateKept
<1>1. ControllerInit => GateInit
    BY DEF ControllerInit
<1>2. [ControllerNext]_controllerVars => [GateNext]_gate
    BY ControllerStepIsGated
<1>3. ControllerSpec => GateSpec
    BY <1>1, <1>2, PTL DEF ControllerSpec, GateSpec
<1> QED  BY <1>3, GateKeepsItsPromise

-----------------------------------------------------------------------------
\* What a call under way loses, it loses with its helper gone or cut off.
LEMMA EndKeepsOthers ==
    ASSUME ComputerInv, NEW c \in Calls, NEW p \in {"done", "refused"}, End(c, p),
           NEW d \in Calls, d # c, holder = d /\ at[d] = "acting"
    PROVE  holder' = d /\ at'[d] = "acting"
BY DEF ComputerInv, ControllerTypeOK, GateTypeOK, End

LEMMA HelperStep ==
    ASSUME ComputerInv, [ControllerNext]_controllerVars
    PROVE  ComputerInv'
<1>1. GateTypeOK'
    BY ControllerStepIsGated, GateTypesStep DEF ComputerInv, ControllerTypeOK
<1> USE DEF ComputerInv, ControllerTypeOK
<1>2. CASE StopComputer \/ ResumeComputer
    BY <1>1, <1>2 DEF StopComputer, ResumeComputer, Stop, Resume, Silent, OneHelper
<1>3. ASSUME NEW c \in Calls, Execute(c) \/ AcquireComputer(c) \/ Proceed(c)
      PROVE  ComputerInv'
    <2>1. UNCHANGED <<helper, cut>>
        BY <1>3 DEF Execute, AcquireComputer, Proceed, Silent
    <2>2. ASSUME NEW d \in Calls, holder = d, at[d] = "acting"
          PROVE  holder' = d /\ at'[d] = "acting"
        <3>1. d # c
            BY <1>3, <2>2, NoneAssumption DEF Execute, AcquireComputer, Proceed, Admit, Enter, GateTypeOK
        <3>2. CASE \E p \in {"done", "refused"} : End(c, p)
            BY <3>1, <3>2, <2>2, EndKeepsOthers
        <3>3. CASE ~\E p \in {"done", "refused"} : End(c, p)
            BY <1>3, <2>2, <3>1, <3>3, NoneAssumption
            DEF Execute, AcquireComputer, Proceed, Admit, Enter, Dispatch, Refuse, Free, GateTypeOK
        <3> QED  BY <3>2, <3>3
    <2> QED  BY <1>1, <2>1, <2>2 DEF OneHelper
<1>4. ASSUME NEW c \in Calls, Launch(c)
      PROVE  ComputerInv'
    BY <1>1, <1>4 DEF Launch, gate, OneHelper, GateTypeOK, Helpers
<1>5. ASSUME NEW c \in Calls, HelperExits(c)
      PROVE  ComputerInv'
    BY <1>1, <1>5 DEF HelperExits, gate, OneHelper, Helpers
<1>6. ASSUME NEW c \in Calls, Answer(c) \/ Timeout(c) \/ CancelRequest(c) \/ AbandonRequest(c)
      PROVE  ComputerInv'
    <2>1. PICK p \in {"done", "refused"} : End(c, p)
        BY <1>6 DEF Answer, Timeout, CancelRequest, AbandonRequest, Return, Unwind, Abandon
    <2>2. /\ helper' \in [Calls -> Helpers] /\ cut' \subseteq Calls /\ cut \subseteq cut'
          /\ helper'[c] = "running" => c \in cut'
          /\ \A d \in Calls \ {c} : helper'[d] = helper[d]
        BY <1>6 DEF Answer, Timeout, CancelRequest, AbandonRequest, Outlived, Silent, Helpers
    <2>3. ASSUME NEW d \in Calls, helper'[d] = "running"
          PROVE  d \in cut' \/ (holder' = d /\ at'[d] = "acting")
        <3>1. CASE d = c
            BY <2>2, <2>3, <3>1
        <3>2. CASE d # c
            BY <2>1, <2>2, <2>3, <3>2, EndKeepsOthers DEF OneHelper
        <3> QED  BY <3>1, <3>2
    <2> QED  BY <1>1, <2>2, <2>3 DEF OneHelper
<1>7. CASE UNCHANGED controllerVars
    BY <1>1, <1>7 DEF controllerVars, gate, OneHelper
<1> QED  BY <1>2, <1>3, <1>4, <1>5, <1>6, <1>7 DEF ControllerNext, ControllerStep

LEMMA ComputerStarts == ControllerInit => ComputerInv
<1> SUFFICES ASSUME ControllerInit PROVE ComputerInv
    OBVIOUS
<1>1. GateTypeOK
    BY GateTypesInit DEF ControllerInit
<1> QED  BY <1>1 DEF ControllerInit, ComputerInv, ControllerTypeOK, OneHelper, Helpers

\* One helper process at a time acts on the desktop, for the call that holds the lock, unless
\* a cancellation has cut a request off from its helper.
THEOREM OneHelperHolds == ControllerSpec => []OneHelper
<1>1. ControllerInit => ComputerInv
    BY ComputerStarts
<1>2. ComputerInv /\ [ControllerNext]_controllerVars => ComputerInv'
    BY HelperStep
<1>3. ComputerInv => OneHelper
    BY DEF ComputerInv
<1> QED  BY <1>1, <1>2, <1>3, PTL DEF ControllerSpec

-----------------------------------------------------------------------------
(***************************************************************************)
(* VisionRuntime.  ReportsAreBacked needs to know of a call that has ended *)
(* well and waits for its title that the driver has carried it out.        *)
(***************************************************************************)
\* An effect that the gate let through to the end has been carried out.
DoneIsApplied == \A c \in Effects : at[c] = "done" => c \in applied

VisionInv == VisionTypeOK /\ DoneIsApplied /\ ReportsAreBacked

LEMMA VisionStepIsGated ==
    ASSUME [VisionNext]_visionVars
    PROVE  [GateNext]_gate
<1>1. CASE StopVision \/ ResumeVision
    BY <1>1 DEF StopVision, ResumeVision, GateNext
<1>2. CASE Rearrange
    BY <1>2 DEF Rearrange
<1>3. ASSUME NEW c \in Calls, Effect(c) \/ List(c) \/ AcquireVision(c)
      PROVE  GateNext
    <2>1. Admit(c, Act) \/ Enter(c, Act) \/ Refuse(c)
        BY <1>3 DEF Effect, List, AcquireVision
    <2> QED  BY <2>1 DEF GateNext, Act
<1>4. ASSUME NEW c \in Calls, Apply(c) \/ TitleSeen(c)
      PROVE  UNCHANGED gate
    BY <1>4 DEF Apply, TitleSeen
<1>5. ASSUME NEW c \in Calls, EffectReturns(c) \/ ListReturns(c)
      PROVE  GateNext
    <2>1. \E ok \in BOOLEAN : Return(c, ok)
        BY <1>5 DEF EffectReturns, ListReturns
    <2> QED  BY <2>1 DEF GateNext
<1>6. ASSUME NEW c \in Calls, CancelTask(c) \/ AbandonTask(c)
      PROVE  GateNext
    BY <1>6 DEF CancelTask, AbandonTask, GateNext
<1>7. CASE UNCHANGED visionVars
    BY <1>7 DEF visionVars
<1> QED  BY <1>1, <1>2, <1>3, <1>4, <1>5, <1>6, <1>7 DEF VisionNext

\* The calls of the runtime keep the promise of EffectGate.
THEOREM VisionKeepsItsPromise == VisionSpec => GateKept
<1>1. VisionInit => GateInit
    BY DEF VisionInit
<1>2. [VisionNext]_visionVars => [GateNext]_gate
    BY VisionStepIsGated
<1>3. VisionSpec => GateSpec
    BY <1>1, <1>2, PTL DEF VisionSpec, GateSpec
<1> QED  BY <1>3, GateKeepsItsPromise

-----------------------------------------------------------------------------
\* A step that ends a call badly, or none, leaves nobody done that was not.
LEMMA EndIsNotDone ==
    ASSUME GateTypeOK, NEW c \in Calls, NEW p \in {"done", "refused"}, End(c, p)
    PROVE  /\ at'[c] = p
           /\ \A d \in Calls \ {c} : at'[d] = at[d]
BY DEF GateTypeOK, End

LEMMA ReportStep ==
    ASSUME VisionInv, [VisionNext]_visionVars
    PROVE  VisionInv'
<1>1. GateTypeOK'
    BY VisionStepIsGated, GateTypesStep DEF VisionInv, VisionTypeOK
<1> USE EffectsAssumption DEF VisionInv, VisionTypeOK
<1>2. CASE StopVision \/ ResumeVision
    BY <1>1, <1>2 DEF StopVision, ResumeVision, Stop, Resume, Quiet, DoneIsApplied, ReportsAreBacked
<1>3. CASE Rearrange
    BY <1>1, <1>3 DEF Rearrange, gate, DoneIsApplied, ReportsAreBacked
<1>4. ASSUME NEW c \in Calls, Effect(c)
      PROVE  VisionInv'
    <2>1. UNCHANGED <<desktop, owners, cached, applied>> /\ c \in Effects
        BY <1>4 DEF Effect
    <2>2. \A d \in Calls : at'[d] = "done" => at[d] = "done"
        <3>1. (Admit(c, Act) /\ ~stopped) \/ End(c, "refused")
            BY <1>4 DEF Effect, Refuse, Admit
        <3>2. CASE End(c, "refused")
            BY <3>2, EndIsNotDone
        <3>3. CASE Admit(c, Act) /\ ~stopped
            BY <3>3 DEF Admit, GateTypeOK, Act
        <3> QED  BY <3>1, <3>2, <3>3
    <2>3. reported' = reported \/ (c \in Keyed /\ cached /\ reported' = reported \cup {c})
        BY <1>4 DEF Effect
    <2>4. DoneIsApplied'
        BY <2>1, <2>2 DEF DoneIsApplied
    <2>5. ReportsAreBacked' /\ reported' \subseteq Effects
        BY <2>1, <2>3 DEF ReportsAreBacked
    <2> QED  BY <1>1, <2>1, <2>4, <2>5
<1>5. ASSUME NEW c \in Calls, List(c) \/ AcquireVision(c) \/ CancelTask(c) \/ AbandonTask(c)
      PROVE  VisionInv'
    <2>1. UNCHANGED <<desktop, owners, cached, applied, reported>>
        BY <1>5 DEF List, AcquireVision, CancelTask, AbandonTask, Quiet
    <2>2. \A d \in Calls : at'[d] = "done" => at[d] = "done"
        <3>1. End(c, "refused") \/ \E p \in {"waiting", "acting"} : at' = [at EXCEPT ![c] = p]
            BY <1>5 DEF List, AcquireVision, CancelTask, AbandonTask, Admit, Enter, Unwind, Abandon, Act
        <3>2. CASE End(c, "refused")
            BY <3>2, EndIsNotDone
        <3>3. CASE \E p \in {"waiting", "acting"} : at' = [at EXCEPT ![c] = p]
            BY <3>3 DEF GateTypeOK
        <3> QED  BY <3>1, <3>2, <3>3
    <2> QED  BY <1>1, <2>1, <2>2 DEF DoneIsApplied, ReportsAreBacked
<1>6. ASSUME NEW c \in Calls, Apply(c)
      PROVE  VisionInv'
    BY <1>1, <1>6 DEF Apply, gate, DoneIsApplied, ReportsAreBacked
<1>7. ASSUME NEW c \in Calls, EffectReturns(c)
      PROVE  VisionInv'
    <2>1. PICK p \in {"done", "refused"} : End(c, p) /\ (p = "done" => c \in applied)
        BY <1>7 DEF EffectReturns, Return
    <2>2. at'[c] = p /\ \A d \in Calls \ {c} : at'[d] = at[d]
        BY <2>1, EndIsNotDone
    <2>3. /\ UNCHANGED <<desktop, owners, applied>> /\ c \in Effects
          /\ cached' = (cached \/ (at'[c] = "done" /\ c \notin Titled /\ c \in Keyed))
          /\ reported' = IF at'[c] = "done" /\ c \notin Titled THEN reported \cup {c} ELSE reported
        BY <1>7 DEF EffectReturns
    <2>4. DoneIsApplied'
        BY <2>1, <2>2, <2>3 DEF DoneIsApplied
    <2>5. ReportsAreBacked' /\ reported' \subseteq Effects
        BY <2>1, <2>2, <2>3 DEF ReportsAreBacked
    <2>6. cached' \in BOOLEAN
        BY <2>3
    <2> QED  BY <1>1, <2>3, <2>4, <2>5, <2>6
<1>8. ASSUME NEW c \in Calls, TitleSeen(c)
      PROVE  VisionInv'
    <2>1. c \in Effects /\ c \in applied
        BY <1>8 DEF TitleSeen, DoneIsApplied
    <2> QED  BY <1>1, <1>8, <2>1 DEF TitleSeen, gate, DoneIsApplied, ReportsAreBacked
<1>9. ASSUME NEW c \in Calls, ListReturns(c)
      PROVE  VisionInv'
    <2>1. PICK p \in {"done", "refused"} : End(c, p)
        BY <1>9 DEF ListReturns, Return
    <2>2. \A d \in Effects : at'[d] = at[d]
        BY <1>9, <2>1, EndIsNotDone DEF ListReturns
    <2>3. UNCHANGED <<desktop, cached, applied, reported>> /\ owners' \in {owners, desktop}
        BY <1>9 DEF ListReturns
    <2> QED  BY <1>1, <2>2, <2>3 DEF DoneIsApplied, ReportsAreBacked
<1>10. CASE UNCHANGED visionVars
    BY <1>1, <1>10 DEF visionVars, gate, DoneIsApplied, ReportsAreBacked
<1> QED  BY <1>2, <1>3, <1>4, <1>5, <1>6, <1>7, <1>8, <1>9, <1>10 DEF VisionNext

LEMMA VisionStarts == VisionInit => VisionInv
<1> SUFFICES ASSUME VisionInit PROVE VisionInv
    OBVIOUS
<1>1. GateTypeOK
    BY GateTypesInit DEF VisionInit
<1>2. \A c \in Calls : at[c] = "idle"
    BY DEF VisionInit, GateInit
<1> QED  BY <1>1, <1>2, EffectsAssumption DEF VisionInit, VisionInv, VisionTypeOK, DoneIsApplied, ReportsAreBacked

\* A success that is told, from the driver or from the cache, is that of an effect carried
\* out, whatever was stopped, resumed, cancelled or cached in between.
THEOREM ReportsAreTrue == VisionSpec => []ReportsAreBacked
<1>1. VisionInit => VisionInv
    BY VisionStarts
<1>2. VisionInv /\ [VisionNext]_visionVars => VisionInv'
    BY ReportStep
<1>3. VisionInv => ReportsAreBacked
    BY DEF VisionInv
<1> QED  BY <1>1, <1>2, <1>3, PTL DEF VisionSpec

-----------------------------------------------------------------------------
(***************************************************************************)
(* BrowserEngine, for any session names.  That a stop leaves no session    *)
(* needs Swift (who acts while the engine is stopped is about to be        *)
(* cancelled, and then a stop waits); where a context is found needs       *)
(* Recorded (a session, a sweep and what a sweep left name only contexts   *)
(* that exist), Reserved and Begun.                                        *)
(***************************************************************************)
USE SessionsAssumption

Swift ==
    /\ stopped => \A c \in Calls : at[c] = "acting" => c \in doomed
    /\ doomed # {} => stopping

Recorded ==
    /\ Accounted \subseteq known
    /\ \A k \in known : context[k] # "none"

\* The name a context is made for stays free until it is registered.
Reserved ==
    \A c \in Openers : (at[c] = "acting" /\ context[c] = "open" /\ c \notin known) => sessions[Named[c]] = None

\* The shutdown has a list only while it closes.
Begun == running = "yes" => last = {}

BrowserInv == EngineTypeOK /\ Swift /\ Recorded /\ Reserved /\ Begun /\ ContextsAreOwned

LEMMA EngineStepIsGated ==
    ASSUME [EngineNext]_engineVars
    PROVE  [GateNext]_gate
<1>1. CASE StopBrowser \/ ResumeBrowser
    BY <1>1 DEF StopBrowser, ResumeBrowser, GateNext
<1>2. CASE SweepNow \/ Shutdown \/ ShutdownRaises \/ BrowserCloses \/ \E s \in sweeps : SweepRaises(s)
    BY <1>2 DEF SweepNow, Shutdown, ShutdownRaises, BrowserCloses, SweepRaises
<1>3. ASSUME NEW c \in Calls, Request(c) \/ AcquireBrowser(c)
      PROVE  GateNext
    BY <1>3 DEF Request, AcquireBrowser, GateNext
<1>4. ASSUME NEW c \in Calls, OpenContext(c) \/ Register(c) \/ CloseContext(c) \/ CloseSwept(c)
      PROVE  UNCHANGED gate
    BY <1>4 DEF OpenContext, Register, CloseContext, CloseSwept
<1>5. ASSUME NEW c \in Calls, Opened(c) \/ Closed(c) \/ Ends(c)
      PROVE  GateNext
    <2>1. \E ok \in BOOLEAN : Return(c, ok)
        BY <1>5 DEF Opened, Closed, Ends
    <2> QED  BY <2>1 DEF GateNext
<1>6. ASSUME NEW c \in Calls, CancelOperation(c) \/ AbandonOperation(c)
      PROVE  GateNext
    BY <1>6 DEF CancelOperation, AbandonOperation, GateNext
<1>7. CASE UNCHANGED engineVars
    BY <1>7 DEF engineVars
<1> QED  BY <1>1, <1>2, <1>3, <1>4, <1>5, <1>6, <1>7 DEF EngineNext, EngineStep

\* The calls of the engine keep the promise of EffectGate.
THEOREM BrowserKeepsItsPromise == EngineSpec => GateKept
<1>1. EngineInit => GateInit
    BY DEF EngineInit
<1>2. [EngineNext]_engineVars => [GateNext]_gate
    BY EngineStepIsGated
<1>3. EngineSpec => GateSpec
    BY <1>1, <1>2, PTL DEF EngineSpec, GateSpec
<1> QED  BY <1>3, GateKeepsItsPromise

-----------------------------------------------------------------------------
LEMMA EndFacts ==
    ASSUME GateTypeOK, NEW c \in Calls, NEW p \in {"done", "refused"}, End(c, p)
    PROVE  /\ at'[c] = p /\ at \in [Calls -> Places]
           /\ \A d \in Calls \ {c} : at'[d] = at[d]
           /\ doomed' = doomed \ {c} /\ stopped' = stopped
BY DEF GateTypeOK, End

\* A call that ends leaves Swift as it is, and so does one that begins.
LEMMA EndIsSwift ==
    ASSUME GateTypeOK, Swift, NEW c \in Calls, NEW p \in {"done", "refused"}, End(c, p), stopping' = stopping
    PROVE  Swift'
BY EndFacts DEF Swift

LEMMA BeginFacts ==
    ASSUME GateTypeOK, Swift, NEW c \in Calls, Admit(c, "acting") \/ Enter(c, "acting"), stopping' = stopping
    PROVE  /\ Swift' /\ stopped' = stopped /\ at[c] \in {"idle", "waiting"}
           /\ \A d \in Calls \ {c} : at'[d] = at[d]
<1>1. at[c] \in {"idle", "waiting"}
    <2>1. CASE Admit(c, "acting")
        BY <2>1 DEF Admit
    <2>2. CASE Enter(c, "acting")
        <3>1. c \in ToSet(queue)
            BY <2>2, HeadTailProperties, LenProperties, EmptySeq DEF Enter, GateTypeOK, ToSet
        <3> QED  BY <3>1 DEF GateTypeOK
    <2> QED  BY <2>1, <2>2
<1>2. CASE End(c, "refused")
    BY <1>1, <1>2, EndFacts, EndIsSwift
<1>3. CASE ~End(c, "refused")
    <2>1. /\ ~stopped /\ UNCHANGED <<stopped, doomed>>
          /\ \E p \in {"waiting", "acting"} : at' = [at EXCEPT ![c] = p]
        BY <1>3 DEF Admit, Enter, Overtaken
    <2> QED  BY <1>1, <2>1 DEF Swift, GateTypeOK
<1> QED  BY <1>2, <1>3

\* While the engine is stopped and no stop waits, no call acts.
LEMMA StoppedIsStill ==
    ASSUME Swift, stopped, ~stopping, NEW c \in Calls
    PROVE  at[c] # "acting"
BY DEF Swift

LEMMA SameLists ==
    ASSUME UNCHANGED <<sessions, closing>>
    PROVE  /\ Accounted' = Accounted /\ InSessions' = InSessions
           /\ sweeps' = sweeps /\ last' = last /\ left' = left
BY DEF Accounted, Sweeping, InSessions, closing

LEMMA SweptFacts ==
    ASSUME EngineTypeOK, Recorded, Swept, UNCHANGED <<context, known>>
    PROVE  /\ Recorded' /\ InSessions' = {} /\ Accounted' = Accounted /\ sweeps' \subseteq SUBSET Openers
           /\ sessions' \in [Names -> Openers \cup {None}] /\ UNCHANGED <<last, left>>
<1>1. InSessions' = {}
    BY DEF Swept, Forget, InSessions
<1>2. InSessions \subseteq Openers
    BY DEF InSessions, EngineTypeOK
<1>3. Sweeping' = Sweeping \cup InSessions
    BY DEF Swept, Sweeping
<1>4. Accounted' = Accounted
    BY <1>1, <1>3 DEF Accounted, Sweeping, Swept
<1> QED  BY <1>1, <1>2, <1>4 DEF Swept, Forget, Recorded, EngineTypeOK

\* A context that is closed leaves the list that it is on, and nothing else changes place.
LEMMA ClosedFacts ==
    ASSUME EngineTypeOK, NEW k \in Openers, NEW c, sessions' = sessions, left' = left,
           CloseContext(c) \/ CloseSwept(k)
    PROVE  /\ Accounted' \subseteq Accounted /\ Accounted \subseteq Accounted' \cup {k} /\ InSessions' = InSessions
           /\ sweeps' \subseteq SUBSET Openers /\ last' \subseteq Openers
<1>1. InSessions' = InSessions
    BY DEF InSessions
<1>2. CASE UNCHANGED <<sweeps, last>>
    BY <1>1, <1>2 DEF Accounted, Sweeping, EngineTypeOK
<1>3. CASE k \in last /\ last' = last \ {k} /\ UNCHANGED sweeps
    BY <1>1, <1>3 DEF Accounted, Sweeping, EngineTypeOK
<1>4. ASSUME NEW s \in sweeps, k \in s, sweeps' = ((sweeps \ {s}) \cup {s \ {k}}) \ {{}}, UNCHANGED last
      PROVE  /\ Sweeping' \subseteq Sweeping /\ Sweeping \subseteq Sweeping' \cup {k}
             /\ sweeps' \subseteq SUBSET Openers
    <2>1. ASSUME NEW j \in Sweeping, j # k
          PROVE  j \in Sweeping'
        <3>1. PICK t \in sweeps : j \in t
            BY DEF Sweeping
        <3>2. CASE t = s
            <4>1. j \in s \ {k} /\ s \ {k} \in sweeps'
                BY <1>4, <2>1, <3>1, <3>2
            <4> QED  BY <4>1 DEF Sweeping
        <3>3. CASE t # s
            BY <1>4, <3>1, <3>3 DEF Sweeping
        <3> QED  BY <3>2, <3>3
    <2>2. ASSUME NEW t \in sweeps'
          PROVE  t \subseteq Openers /\ t \subseteq Sweeping
        BY <1>4, <2>2 DEF EngineTypeOK, Sweeping
    <2> QED  BY <2>1, <2>2 DEF Sweeping
<1>5. CASE CloseContext(c)
    BY <1>2, <1>5 DEF CloseContext, closing
<1>6. CASE CloseSwept(k)
    <2>1. CASE \E s \in sweeps : k \in s /\ sweeps' = ((sweeps \ {s}) \cup {s \ {k}}) \ {{}} /\ UNCHANGED last
        <3>1. /\ Sweeping' \subseteq Sweeping /\ Sweeping \subseteq Sweeping' \cup {k}
              /\ sweeps' \subseteq SUBSET Openers /\ last' = last
            BY <1>4, <2>1
        <3> QED  BY <1>1, <3>1 DEF Accounted, Sweeping, EngineTypeOK
    <2> QED  BY <1>3, <1>6, <2>1 DEF CloseSwept
<1> QED  BY <1>5, <1>6

\* A step that ends a call and opens, registers and forgets no open context.
LEMMA EndOwned ==
    ASSUME BrowserInv, NEW c \in Calls, NEW p \in {"done", "refused"}, End(c, p),
           UNCHANGED <<context, known>>,
           p = "done" => c \notin Openers \/ c \in known,
           \A k \in known : context[k] = "open" => k \in Accounted',
           \A n \in Names : sessions'[n] \in {sessions[n], None}
    PROVE  /\ Reserved'
           /\ \A k \in Openers : context'[k] = "open" =>
                IF k \in known' THEN k \in Accounted' ELSE at'[k] \in {"acting", "refused"}
<1>1. /\ at'[c] = p /\ \A d \in Calls \ {c} : at'[d] = at[d]
    BY EndFacts DEF BrowserInv, EngineTypeOK
<1>2. \A k \in Openers : context'[k] = "open" =>
                IF k \in known' THEN k \in Accounted' ELSE at'[k] \in {"acting", "refused"}
    BY <1>1 DEF BrowserInv, ContextsAreOwned
<1>3. Reserved'
    BY <1>1 DEF BrowserInv, Reserved
<1> QED  BY <1>2, <1>3

LEMMA ReturnEnds ==
    ASSUME NEW c \in Calls, NEW ok \in BOOLEAN, Return(c, ok)
    PROVE  at[c] = "acting" /\ \E p \in {"done", "refused"} : End(c, p) /\ (p = "done" => ok)
BY DEF Return

\* Orders, sweeps and the end of the browser.
LEMMA OrderStepKeeps ==
    ASSUME BrowserInv, GateTypeOK', StopBrowser \/ ResumeBrowser \/ SweepNow \/ Shutdown \/ ShutdownRaises \/ BrowserCloses
           \/ \E s \in sweeps : SweepRaises(s)
    PROVE  BrowserInv'
<1>1. CASE StopBrowser
    <2>1. /\ UNCHANGED <<context, running, known, at>> /\ stopped'
          /\ doomed' = {c \in Calls : at[c] = "acting"}
        BY <1>1 DEF StopBrowser, Stop
    <2>2. CASE holder = None
        <3>1. \A c \in Calls : at[c] # "acting"
            BY <2>2, NoneAssumption DEF BrowserInv, EngineTypeOK, GateTypeOK
        <3>2. Swept /\ stopping' = stopping
            BY <1>1, <2>2 DEF StopBrowser
        <3>3. Swift' /\ Reserved'
            BY <2>1, <3>1 DEF BrowserInv, Swift, Reserved
        <3>4. /\ Recorded' /\ InSessions' = {} /\ Accounted' = Accounted /\ UNCHANGED <<last, left>>
              /\ sweeps' \subseteq SUBSET Openers /\ sessions' \in [Names -> Openers \cup {None}]
            BY <2>1, <3>2, SweptFacts DEF BrowserInv
        <3>5. ContextsAreOwned' /\ Begun'
            BY <2>1, <3>4 DEF BrowserInv, ContextsAreOwned, Begun
        <3>6. EngineTypeOK'
            BY <2>1, <3>2, <3>4 DEF BrowserInv, EngineTypeOK
        <3> QED  BY <3>3, <3>4, <3>5, <3>6 DEF BrowserInv
    <2>3. CASE holder # None
        <3>1. stopping' = TRUE /\ UNCHANGED <<sessions, closing>>
            BY <1>1, <2>3 DEF StopBrowser
        <3>2. Swift' /\ Recorded' /\ ContextsAreOwned' /\ Reserved' /\ Begun'
            BY <2>1, <3>1, SameLists DEF BrowserInv, Swift, Recorded, ContextsAreOwned, Reserved, Begun
        <3>3. EngineTypeOK'
            BY <2>1, <3>1, SameLists DEF BrowserInv, EngineTypeOK
        <3> QED  BY <3>2, <3>3 DEF BrowserInv
    <2> QED  BY <2>2, <2>3
<1>2. CASE ResumeBrowser
    <2>1. ~stopped' /\ UNCHANGED <<at, doomed, context, sessions, closing, stopping, running, known>>
        BY <1>2 DEF ResumeBrowser, Resume, Still
    <2>2. Swift' /\ Recorded' /\ ContextsAreOwned' /\ Reserved' /\ Begun'
        BY <2>1, SameLists DEF BrowserInv, Swift, Recorded, ContextsAreOwned, Reserved, Begun
    <2>3. EngineTypeOK'
        BY <2>1, SameLists DEF BrowserInv, EngineTypeOK
    <2> QED  BY <2>2, <2>3 DEF BrowserInv
<1>3. CASE SweepNow
    <2>1. UNCHANGED <<gate, context, running, known>> /\ Swept /\ doomed = {} /\ stopping' = FALSE
        BY <1>3 DEF SweepNow
    <2>2. Swift'
        BY <2>1 DEF BrowserInv, Swift, gate
    <2>3. /\ Recorded' /\ InSessions' = {} /\ Accounted' = Accounted /\ UNCHANGED <<last, left>>
          /\ sweeps' \subseteq SUBSET Openers /\ sessions' \in [Names -> Openers \cup {None}]
        BY <2>1, SweptFacts DEF BrowserInv
    <2>4. ContextsAreOwned' /\ Begun'
        BY <2>1, <2>3 DEF BrowserInv, ContextsAreOwned, Begun, gate
    <2>5. Reserved'
        BY <2>1 DEF BrowserInv, Reserved, Swept, Forget, gate
    <2>6. EngineTypeOK'
        BY <2>1, <2>3 DEF BrowserInv, EngineTypeOK
    <2> QED  BY <2>2, <2>3, <2>4, <2>5, <2>6 DEF BrowserInv
<1>4. CASE Shutdown
    <2>1. UNCHANGED <<gate, context, sweeps, left, stopping, known>> /\ Forget /\ last' = InSessions /\ running' = "closing"
        BY <1>4 DEF Shutdown
    <2>2. InSessions' = {} /\ InSessions \subseteq Openers /\ sessions' \in [Names -> Openers \cup {None}]
        BY <2>1 DEF Forget, InSessions, BrowserInv, EngineTypeOK
    <2>3. Accounted' = Accounted
        BY <1>4, <2>1, <2>2 DEF Accounted, Sweeping, BrowserInv, Shutdown, Begun, closing
    <2>4. Recorded' /\ EngineTypeOK'
        BY <2>1, <2>2, <2>3 DEF BrowserInv, EngineTypeOK, Recorded
    <2>5. Swift' /\ ContextsAreOwned' /\ Begun'
        BY <2>1, <2>2, <2>3 DEF BrowserInv, Swift, ContextsAreOwned, Begun, gate
    <2>6. Reserved'
        BY <2>1 DEF BrowserInv, Reserved, Forget, gate
    <2> QED  BY <2>4, <2>5, <2>6 DEF BrowserInv
<1>6. CASE ShutdownRaises \/ \E s \in sweeps : SweepRaises(s)
    <2>1. UNCHANGED <<gate, context, sessions, stopping, known>> /\ running' \in {running, "failed"} /\ (running' = running \/ last' = {})
        BY <1>6 DEF ShutdownRaises, SweepRaises
    <2>2. Accounted' = Accounted /\ InSessions' = InSessions
        <3>1. InSessions' = InSessions
            BY <2>1 DEF InSessions
        <3>2. CASE ShutdownRaises
            BY <3>1, <3>2 DEF ShutdownRaises, Accounted, Sweeping
        <3>3. ASSUME NEW s \in sweeps, SweepRaises(s)
              PROVE  Accounted' = Accounted
            <4>1. Sweeping = (UNION (sweeps \ {s})) \cup s
                BY DEF Sweeping
            <4>2. Sweeping' = UNION (sweeps \ {s})
                BY <3>3 DEF SweepRaises, Sweeping
            <4> QED  BY <3>1, <3>3, <4>1, <4>2 DEF SweepRaises, Accounted
        <3> QED  BY <1>6, <3>1, <3>2, <3>3
    <2>3. /\ sweeps' \subseteq SUBSET Openers /\ last' \subseteq Openers /\ left' \subseteq Openers
          /\ running' \in {"closing", "failed"} \/ last' = last
        BY <1>6 DEF ShutdownRaises, SweepRaises, BrowserInv, EngineTypeOK
    <2>4. EngineTypeOK' /\ Recorded' /\ Swift'
        BY <2>1, <2>2, <2>3 DEF BrowserInv, EngineTypeOK, Recorded, Swift, gate
    <2>5. ContextsAreOwned' /\ Reserved' /\ Begun'
        BY <2>1, <2>2, <2>3 DEF BrowserInv, ContextsAreOwned, Reserved, Begun, gate, closing
    <2> QED  BY <2>4, <2>5 DEF BrowserInv
<1>5. CASE BrowserCloses
    <2>1. /\ UNCHANGED <<gate, sessions, closing, stopping, known>> /\ running' = "no"
          /\ context' = [c \in Calls |-> IF context[c] = "open" THEN "closed" ELSE context[c]]
        BY <1>5 DEF BrowserCloses
    <2>2. /\ context' \in [Calls -> {"none", "open", "closed"}] /\ \A c \in Calls : context'[c] # "open"
          /\ \A c \in Calls : context[c] # "none" => context'[c] # "none"
        BY <2>1 DEF BrowserInv, EngineTypeOK
    <2>3. Openers \subseteq Calls
        BY DEF BrowserInv
    <2>4. Swift' /\ Recorded'
        BY <2>1, <2>2, <2>3 DEF BrowserInv, EngineTypeOK, Swift, Recorded, InSessions, Accounted, Sweeping, closing, gate, Begun
    <2>5. ContextsAreOwned' /\ Reserved'
        BY <2>1, <2>2, <2>3 DEF BrowserInv, ContextsAreOwned, InSessions, Accounted, Sweeping, closing, Reserved, gate, Begun
    <2> QED  BY <2>1, <2>2, <2>4, <2>5 DEF BrowserInv, EngineTypeOK, closing, Begun
<1> QED  BY <1>1, <1>2, <1>3, <1>4, <1>5, <1>6

\* What a call does to contexts and sessions while it acts.
LEMMA ContextStepKeeps ==
    ASSUME BrowserInv, NEW c \in Calls, OpenContext(c) \/ Register(c) \/ CloseContext(c) \/ CloseSwept(c)
    PROVE  BrowserInv'
<1>1. GateTypeOK' /\ Swift'
    <2>1. UNCHANGED <<gate, stopping>>
        BY DEF OpenContext, Register, CloseContext, CloseSwept
    <2> QED  BY <2>1 DEF BrowserInv, EngineTypeOK, gate, GateTypeOK, Swift
<1>2. CASE OpenContext(c)
    <2>1. /\ UNCHANGED <<gate, sessions, closing, stopping, running, known>> /\ sessions[Named[c]] = None
          /\ at[c] = "acting" /\ context[c] = "none" /\ context' = [context EXCEPT ![c] = "open"]
          /\ running # "no"
        BY <1>2 DEF OpenContext
    <2>2. c \notin known
        BY <2>1 DEF BrowserInv, Recorded
    <2>3. /\ context' \in [Calls -> {"none", "open", "closed"}] /\ context'[c] = "open"
          /\ \A d \in Calls \ {c} : context'[d] = context[d]
        BY <2>1 DEF BrowserInv, EngineTypeOK
    <2>4. ContextsAreOwned' /\ Begun'
        BY <2>1, <2>2, <2>3, SameLists DEF BrowserInv, ContextsAreOwned, Begun, gate
    <2>5. Reserved' /\ Recorded'
        BY <2>1, <2>2, <2>3, SameLists DEF BrowserInv, Reserved, Recorded, EngineTypeOK, gate
    <2>6. EngineTypeOK'
        BY <1>1, <2>1, <2>3, SameLists DEF BrowserInv, EngineTypeOK
    <2> QED  BY <1>1, <2>4, <2>5, <2>6 DEF BrowserInv
<1>3. CASE Register(c)
    <2>1. /\ UNCHANGED <<gate, context, closing, stopping, running>>
          /\ c \in Openers /\ at[c] = "acting" /\ context[c] = "open" /\ c \notin known
          /\ sessions' = [sessions EXCEPT ![Named[c]] = c] /\ known' = known \cup {c}
        BY <1>3 DEF Register
    <2>2. sessions[Named[c]] = None
        BY <2>1 DEF BrowserInv, ContextsAreOwned, Reserved
    <2>3. /\ sessions' \in [Names -> Openers \cup {None}] /\ sessions'[Named[c]] = c
          /\ \A n \in Names \ {Named[c]} : sessions'[n] = sessions[n]
        BY <2>1 DEF BrowserInv, EngineTypeOK
    <2>4. InSessions' = InSessions \cup {c}
        BY <2>2, <2>3, NoneAssumption DEF InSessions, Accounted, Sweeping, closing, BrowserInv, Begun
    <2>10. Accounted' = Accounted \cup {c} /\ UNCHANGED <<sweeps, last, left>>
        BY <2>1, <2>4 DEF Accounted, Sweeping, closing
    <2>5. Recorded' /\ Begun'
        BY <2>1, <2>10 DEF BrowserInv, Recorded, Begun
    <2>6. ~(stopped /\ ~stopping)
        BY <2>1, StoppedIsStill DEF BrowserInv
    <2>7. ContextsAreOwned'
        BY <2>1, <2>4, <2>6, <2>10 DEF BrowserInv, ContextsAreOwned, gate
    <2>8. \A d \in Calls : at[d] = "acting" => d = c
        BY <2>1 DEF BrowserInv, EngineTypeOK, GateTypeOK
    <2>9. Reserved'
        BY <2>1, <2>8 DEF BrowserInv, Reserved, gate
    <2>11. EngineTypeOK'
        BY <1>1, <2>1, <2>3, <2>10 DEF BrowserInv, EngineTypeOK
    <2> QED  BY <1>1, <2>5, <2>7, <2>9, <2>11 DEF BrowserInv
<1>4. CASE CloseContext(c) \/ CloseSwept(c)
    <2>1. PICK k \in Openers : /\ context' = [context EXCEPT ![k] = "closed"]
                               /\ CloseContext(c) \/ (k = c /\ CloseSwept(c))
        BY <1>4 DEF CloseContext, CloseSwept, BrowserInv, EngineTypeOK
    <2>2. UNCHANGED <<gate, sessions, stopping, running, known, left>>
        BY <1>4 DEF CloseContext, CloseSwept, closing
    <2>5. /\ Accounted' \subseteq Accounted /\ Accounted \subseteq Accounted' \cup {k} /\ InSessions' = InSessions
          /\ sweeps' \subseteq SUBSET Openers /\ last' \subseteq Openers
        BY <2>1, <2>2, ClosedFacts DEF BrowserInv
    <2>3. /\ context' \in [Calls -> {"none", "open", "closed"}] /\ context'[k] = "closed"
          /\ \A d \in Calls \ {k} : context'[d] = context[d]
        BY <2>1 DEF BrowserInv, EngineTypeOK
    <2>4. ContextsAreOwned'
        BY <2>2, <2>3, <2>5 DEF BrowserInv, ContextsAreOwned, gate
    <2>6. Reserved' /\ Recorded'
        BY <2>2, <2>3, <2>5 DEF BrowserInv, Reserved, Recorded, EngineTypeOK, gate
    <2>7. Begun'
        BY <2>1, <2>2 DEF BrowserInv, Begun, CloseContext, CloseSwept, closing
    <2>8. EngineTypeOK'
        BY <1>1, <2>2, <2>3, <2>5 DEF BrowserInv, EngineTypeOK
    <2> QED  BY <1>1, <2>4, <2>6, <2>7, <2>8 DEF BrowserInv
<1> QED  BY <1>2, <1>3, <1>4

\* How a call ends.
LEMMA EndStepKeeps ==
    ASSUME BrowserInv, GateTypeOK', NEW c \in Calls,
           Opened(c) \/ Closed(c) \/ Ends(c) \/ CancelOperation(c) \/ AbandonOperation(c)
    PROVE  BrowserInv'
<1>1. CASE Opened(c) \/ Ends(c) \/ AbandonOperation(c)
    <2>1. PICK p \in {"done", "refused"} : End(c, p) /\ (p = "done" => c \notin Openers \/ c \in known)
        <3>1. InSessions \subseteq known
            BY DEF BrowserInv, Recorded, Accounted
        <3> QED  BY <1>1, <3>1, ReturnEnds DEF Opened, Ends, AbandonOperation, Abandon
    <2>2. UNCHANGED <<context, sessions, closing, stopping, running, known>>
        BY <1>1 DEF Opened, Ends, AbandonOperation, Still
    <2>3. Swift' /\ stopped' = stopped
        BY <2>1, <2>2, EndIsSwift, EndFacts DEF BrowserInv, EngineTypeOK
    <2>4. \A k \in known : context[k] = "open" => k \in Accounted'
        BY <2>2 DEF BrowserInv, ContextsAreOwned, InSessions, Accounted, Sweeping, closing, EngineTypeOK, Begun
    <2>5. Reserved' /\ ContextsAreOwned'
        BY <2>1, <2>2, <2>3, <2>4, EndOwned DEF ContextsAreOwned, BrowserInv, InSessions, Accounted, Sweeping
    <2> QED  BY <2>2, <2>3, <2>5 DEF BrowserInv, EngineTypeOK, Recorded, InSessions, Accounted, Sweeping, closing, Begun
<1>2. CASE Closed(c)
    <2>1. PICK p \in {"done", "refused"} : End(c, p)
        BY <1>2, ReturnEnds DEF Closed
    <2>2. /\ UNCHANGED <<context, closing, stopping, running, known>> /\ c \in Closers
          /\ context[sessions[Named[c]]] = "closed" /\ sessions' = [sessions EXCEPT ![Named[c]] = None]
        BY <1>2 DEF Closed
    <2>3. /\ sessions' \in [Names -> Openers \cup {None}] /\ sessions'[Named[c]] = None
          /\ \A n \in Names \ {Named[c]} : sessions'[n] = sessions[n]
        BY <2>2 DEF BrowserInv, EngineTypeOK
    <2>4. \A k \in known : context[k] = "open" => k \in Accounted'
        BY <2>2, <2>3 DEF BrowserInv, ContextsAreOwned, InSessions, Accounted, Sweeping, closing, EngineTypeOK, Begun
    <2>5. Swift' /\ stopped' = stopped
        BY <2>1, <2>2, EndIsSwift, EndFacts DEF BrowserInv, EngineTypeOK
    <2>6. InSessions' \subseteq InSessions
        BY <2>3 DEF InSessions, Accounted, Sweeping, closing
    <2>7. Reserved' /\ ContextsAreOwned'
        <3>1. c \notin Openers
            BY <2>2 DEF BrowserInv
        <3>2. \A n \in Names : sessions'[n] \in {sessions[n], None}
            BY <2>3
        <3> QED  BY <2>1, <2>2, <2>4, <2>5, <2>6, <3>1, <3>2, EndOwned DEF ContextsAreOwned, BrowserInv
    <2>8. Recorded' /\ Begun' /\ EngineTypeOK'
        <3>1. Accounted' \subseteq Accounted /\ UNCHANGED <<sweeps, last, left>>
            BY <2>2, <2>6 DEF Accounted, Sweeping, closing
        <3> QED  BY <2>2, <2>3, <3>1 DEF BrowserInv, EngineTypeOK, Recorded, Begun
    <2> QED  BY <2>5, <2>7, <2>8 DEF BrowserInv
<1>3. CASE CancelOperation(c)
    <2>1. End(c, "refused") /\ c \in doomed /\ at[c] = "acting"
        BY <1>3 DEF CancelOperation, Unwind, BrowserInv, EngineTypeOK, GateTypeOK
    <2>2. stopping
        BY <2>1 DEF BrowserInv, Swift
    <2>3. Swept /\ stopping' = FALSE /\ UNCHANGED <<context, running, known>>
        BY <1>3, <2>2 DEF CancelOperation
    <2>4. \A d \in Calls : at[d] = "acting" => d = c
        BY <2>1 DEF BrowserInv, EngineTypeOK, GateTypeOK
    <2>5. Swift' /\ stopped' = stopped
        BY <2>1, <2>4, EndFacts DEF BrowserInv, EngineTypeOK, GateTypeOK, Swift
    <2>6. Recorded' /\ EngineTypeOK' /\ InSessions' = {} /\ Accounted' = Accounted
        BY <2>3, SweptFacts DEF BrowserInv, EngineTypeOK
    <2>7. Reserved' /\ ContextsAreOwned'
        <3>1. \A n \in Names : sessions'[n] \in {sessions[n], None}
            BY <2>3 DEF Swept, Forget
        <3>2. \A k \in known : context[k] = "open" => k \in Accounted'
            BY <2>6 DEF BrowserInv, ContextsAreOwned, EngineTypeOK
        <3>3. running' = "no" => \A k \in Openers : context'[k] # "open"
            BY <2>3 DEF BrowserInv, ContextsAreOwned
        <3> QED  BY <2>1, <2>3, <2>6, <3>1, <3>2, <3>3, EndOwned DEF ContextsAreOwned
    <2>8. Begun'
        BY <2>3 DEF BrowserInv, Begun, Swept
    <2> QED  BY <2>5, <2>6, <2>7, <2>8 DEF BrowserInv
<1> QED  BY <1>1, <1>2, <1>3

LEMMA EngineStepKeeps ==
    ASSUME BrowserInv, [EngineNext]_engineVars
    PROVE  BrowserInv'
<1>1. GateTypeOK'
    BY EngineStepIsGated, GateTypesStep DEF BrowserInv, EngineTypeOK
<1>2. CASE StopBrowser \/ ResumeBrowser \/ SweepNow \/ Shutdown \/ ShutdownRaises \/ BrowserCloses
           \/ \E s \in sweeps : SweepRaises(s)
    BY <1>1, <1>2, OrderStepKeeps
<1>3. ASSUME NEW c \in Calls, Request(c) \/ AcquireBrowser(c)
      PROVE  BrowserInv'
    <2>1. UNCHANGED <<context, sessions, closing, stopping, running, known>>
        BY <1>3 DEF Request, AcquireBrowser, Still
    <2>2. /\ Swift' /\ stopped' = stopped /\ at[c] \in {"idle", "waiting"}
          /\ \A d \in Calls \ {c} : at'[d] = at[d]
        BY <1>3, <2>1, BeginFacts DEF BrowserInv, EngineTypeOK, Request, AcquireBrowser
    <2>3. ContextsAreOwned' /\ Reserved'
        BY <2>1, <2>2 DEF BrowserInv, ContextsAreOwned, InSessions, Accounted, Sweeping, closing, Reserved, Begun
    <2> QED  BY <1>1, <2>1, <2>2, <2>3 DEF BrowserInv, EngineTypeOK, Recorded, InSessions, Accounted, Sweeping, closing, Begun
<1>4. ASSUME NEW c \in Calls, OpenContext(c) \/ Register(c) \/ CloseContext(c) \/ CloseSwept(c)
      PROVE  BrowserInv'
    BY <1>4, ContextStepKeeps
<1>5. ASSUME NEW c \in Calls, Opened(c) \/ Closed(c) \/ Ends(c) \/ CancelOperation(c) \/ AbandonOperation(c)
      PROVE  BrowserInv'
    BY <1>1, <1>5, EndStepKeeps
<1>6. CASE UNCHANGED engineVars
    BY <1>1, <1>6 DEF engineVars, gate, BrowserInv, EngineTypeOK, Swift, Recorded, Reserved, ContextsAreOwned, InSessions, Accounted, Sweeping, closing, Begun
<1> QED  BY <1>2, <1>3, <1>4, <1>5, <1>6 DEF EngineNext, EngineStep

LEMMA BrowserStarts == EngineInit => BrowserInv
<1> SUFFICES ASSUME EngineInit PROVE BrowserInv
    OBVIOUS
<1>1. GateTypeOK
    BY GateTypesInit DEF EngineInit
<1>2. (\A c \in Calls : at[c] = "idle") /\ doomed = {} /\ ~stopped
    BY DEF EngineInit, GateInit
<1>3. Accounted = {} /\ InSessions = {} /\ known = {} /\ running = "yes"
    BY DEF EngineInit, InSessions, Accounted, Sweeping, closing
<1> QED  BY <1>1, <1>2, <1>3 DEF EngineInit, BrowserInv, EngineTypeOK, Swift, Recorded, Reserved, ContextsAreOwned, closing, Begun

\* Only a stop or a shutdown that raises loses a registered context, a stop that has swept
\* leaves no session until a resume and a shutdown that went through no open context, for
\* any calls that open and close sessions under any names.
THEOREM ContextsStayOwned == EngineSpec => []ContextsAreOwned
<1>1. EngineInit => BrowserInv
    BY BrowserStarts
<1>2. BrowserInv /\ [EngineNext]_engineVars => BrowserInv'
    BY EngineStepKeeps
<1>3. BrowserInv => ContextsAreOwned
    BY DEF BrowserInv
<1> QED  BY <1>1, <1>2, <1>3, PTL DEF EngineSpec

-----------------------------------------------------------------------------
(***************************************************************************)
(* The composition.  The controller that runs keeps its own invariant, and *)
(* the others stay as they start.                                          *)
(***************************************************************************)
ComputerRests == helper = [c \in Calls |-> "none"] /\ cut = {}
VisionRests   == desktop \in Apps /\ owners = None /\ cached = FALSE /\ applied = {} /\ reported = {}
BrowserRests  ==
    /\ context = [c \in Calls |-> "none"] /\ sessions = [n \in Names |-> None]
    /\ sweeps = {} /\ last = {} /\ left = {} /\ stopping = FALSE /\ running = "yes" /\ known = {}

EffectsInv ==
    /\ which \in {"computer", "vision", "browser"} /\ GateTypeOK
    /\ IF which = "computer" THEN ComputerInv ELSE ComputerRests
    /\ IF which = "vision" THEN VisionInv ELSE VisionRests
    /\ IF which = "browser" THEN BrowserInv ELSE BrowserRests

LEMMA EffectsInit == Init => EffectsInv
<1> SUFFICES ASSUME Init PROVE EffectsInv
    OBVIOUS
<1>1. ComputerInv /\ VisionInv /\ BrowserInv /\ GateTypeOK
    BY ComputerStarts, VisionStarts, BrowserStarts, GateTypesInit DEF Init, ControllerInit
<1>2. ComputerRests /\ VisionRests /\ BrowserRests
    BY DEF Init, ControllerInit, VisionInit, EngineInit, ComputerRests, VisionRests, BrowserRests
<1> QED  BY <1>1, <1>2 DEF Init, EffectsInv

LEMMA EffectsStep ==
    ASSUME EffectsInv, [Next]_effectsVars
    PROVE  EffectsInv' /\ [GateNext]_gate
<1>1. ASSUME OnComputer(ControllerNext)
      PROVE  EffectsInv' /\ [GateNext]_gate
    <2>1. ComputerInv' /\ [GateNext]_gate
        BY <1>1, HelperStep, ControllerStepIsGated DEF EffectsInv, OnComputer
    <2>2. VisionRests' /\ BrowserRests' /\ which' = which
        BY <1>1 DEF EffectsInv, OnComputer, ofVision, ofBrowser, closing, VisionRests, BrowserRests
    <2> QED  BY <1>1, <2>1, <2>2 DEF EffectsInv, OnComputer, ComputerInv, ControllerTypeOK
<1>2. ASSUME OnVision(VisionNext)
      PROVE  EffectsInv' /\ [GateNext]_gate
    <2>1. VisionInv' /\ [GateNext]_gate
        BY <1>2, ReportStep, VisionStepIsGated DEF EffectsInv, OnVision
    <2>2. ComputerRests' /\ BrowserRests' /\ which' = which
        BY <1>2 DEF EffectsInv, OnVision, ofComputer, ofBrowser, closing, ComputerRests, BrowserRests
    <2> QED  BY <1>2, <2>1, <2>2 DEF EffectsInv, OnVision, VisionInv, VisionTypeOK
<1>3. ASSUME OnBrowser(EngineNext)
      PROVE  EffectsInv' /\ [GateNext]_gate
    <2>1. BrowserInv' /\ [GateNext]_gate
        BY <1>3, EngineStepKeeps, EngineStepIsGated DEF EffectsInv, OnBrowser
    <2>2. ComputerRests' /\ VisionRests' /\ which' = which
        BY <1>3 DEF EffectsInv, OnBrowser, ofComputer, ofVision, ComputerRests, VisionRests
    <2> QED  BY <1>3, <2>1, <2>2 DEF EffectsInv, OnBrowser, BrowserInv, EngineTypeOK
<1>4. ASSUME UNCHANGED effectsVars
      PROVE  EffectsInv' /\ [GateNext]_gate
    <2>1. UNCHANGED <<which, gate>> /\ UNCHANGED controllerVars /\ UNCHANGED visionVars /\ UNCHANGED engineVars
        BY <1>4 DEF effectsVars, ofComputer, ofVision, ofBrowser, closing, controllerVars, visionVars, engineVars
    <2>2. GateTypeOK'
        BY <2>1, GateTypesStep DEF EffectsInv
    <2>3. (ComputerInv => ComputerInv') /\ (VisionInv => VisionInv') /\ (BrowserInv => BrowserInv')
        BY <2>1, HelperStep, ReportStep, EngineStepKeeps
    <2>4. (ComputerRests => ComputerRests') /\ (VisionRests => VisionRests') /\ (BrowserRests => BrowserRests')
        BY <2>1 DEF ComputerRests, VisionRests, BrowserRests, controllerVars, visionVars, engineVars, closing
    <2> QED  BY <2>1, <2>2, <2>3, <2>4 DEF EffectsInv
<1> QED  BY <1>1, <1>2, <1>3, <1>4 DEF Next

LEMMA EffectsInvariant == Spec => []EffectsInv
<1>1. EffectsInv /\ [Next]_effectsVars => EffectsInv'
    BY EffectsStep
<1> QED  BY EffectsInit, <1>1, PTL DEF Spec

\* A controller at rest satisfies what its invariant says.
LEMMA RestIsSound ==
    ASSUME GateTypeOK
    PROVE  /\ ComputerRests => ControllerTypeOK /\ OneHelper
           /\ VisionRests => VisionTypeOK /\ ReportsAreBacked
           /\ BrowserRests => EngineTypeOK /\ ContextsAreOwned
<1>1. ComputerRests => ControllerTypeOK /\ OneHelper
    BY DEF ComputerRests, ControllerTypeOK, OneHelper, Helpers
<1>2. VisionRests => VisionTypeOK /\ ReportsAreBacked
    BY DEF VisionRests, VisionTypeOK, ReportsAreBacked
<1>3. BrowserRests => EngineTypeOK /\ ContextsAreOwned
    BY DEF BrowserRests, EngineTypeOK, ContextsAreOwned, InSessions
<1> QED  BY <1>1, <1>2, <1>3

\* The state of each controller stays in its types.
THEOREM TypeCorrect == Spec => []TypeOK
<1>1. EffectsInv => TypeOK
    BY RestIsSound DEF EffectsInv, TypeOK, ComputerInv, VisionInv, BrowserInv
<1> QED  BY <1>1, EffectsInvariant, PTL

\* Whichever controller runs, one helper process acts at a time, for the call that holds the
\* lock, unless a cancellation has cut a request off from its helper.
THEOREM OneHelperActs == Spec => []OneHelper
<1>1. EffectsInv => OneHelper
    BY RestIsSound DEF EffectsInv, ComputerInv
<1> QED  BY <1>1, EffectsInvariant, PTL

\* Whichever controller runs, a success that is told, from the driver or from the cache, is
\* that of an effect carried out.
THEOREM SuccessesAreBacked == Spec => []ReportsAreBacked
<1>1. EffectsInv => ReportsAreBacked
    BY RestIsSound DEF EffectsInv, VisionInv
<1> QED  BY <1>1, EffectsInvariant, PTL

\* Whichever controller runs, only a stop or a shutdown that raises loses a registered context,
\* and a stop that has swept leaves no session until a resume.
THEOREM OnlyRaisingLosesContexts == Spec => []ContextsAreOwned
<1>1. EffectsInv => ContextsAreOwned
    BY RestIsSound DEF EffectsInv, BrowserInv
<1> QED  BY <1>1, EffectsInvariant, PTL

\* Every controller implements EffectGate: one call at a time, and none begins or succeeds
\* across a stop or a resume.
THEOREM EveryGateIsKept == Spec => GateKept
<1>1. Init => GateInit
    BY DEF Init, ControllerInit
<1>2. EffectsInv /\ [Next]_effectsVars => [GateNext]_gate
    BY EffectsStep
<1>3. Spec => GateSpec
    BY <1>1, <1>2, EffectsInvariant, PTL DEF Spec, GateSpec
<1> QED  BY <1>3, GateKeepsItsPromise

=============================================================================
