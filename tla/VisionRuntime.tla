---------------------------- MODULE VisionRuntime ----------------------------
(***************************************************************************)
(* VisionRuntime: window listings, captures and effects through one gate   *)
(* (GatedCalls), the owners of the latest listing and the cache of         *)
(* effects by idempotency key.  One window stands for all: calls meet only *)
(* over the same one.                                                      *)
(***************************************************************************)
EXTENDS GatedCalls

CONSTANTS
    Effects,   \* the calls that act; the others list the windows
    Keyed,     \* the effects that share one idempotency key
    Titled,    \* the effects that wait for a window title afterwards
    Apps, AllowedApps

ASSUME EffectsAssumption == Effects \subseteq Calls /\ Titled \subseteq Effects

VARIABLES
    desktop,   \* the application that owns the window now, or None
    owners,    \* _window_owners: the one the latest listing names, or None
    cached,    \* the key is in _effect_cache
    applied,   \* history: the effects the driver has carried out
    reported   \* history: the effects that have reported success

visionVars == <<gate, desktop, owners, cached, applied, reported>>

Quiet == UNCHANGED <<desktop, owners, cached, applied, reported>>

Act == "acting"

\* The window is in the latest listing, and its application may be acted on.
Targetable == owners \in AllowedApps

\* The target must be listed and allowed; a key that is cached answers at once.
Effect(c) ==
    /\ c \in Effects /\ at[c] = "idle"
    /\ \/ ~Targetable /\ Refuse(c) /\ UNCHANGED reported
       \/ /\ Targetable /\ c \in Keyed /\ cached
          /\ Refuse(c)  \* nothing is done; the earlier output is the answer
          /\ reported' = reported \cup {c}
       \/ /\ Targetable /\ ~(c \in Keyed /\ cached)
          /\ Admit(c, Act)
          /\ UNCHANGED reported
    /\ UNCHANGED <<desktop, owners, cached, applied>>

List(c) == c \notin Effects /\ Admit(c, Act) /\ Quiet

AcquireVision(c) == Enter(c, Act) /\ Quiet

\* The driver carries the effect out, on whatever owns the window by then.
Apply(c) ==
    /\ c \in Effects /\ at[c] = "acting" /\ c \notin applied
    /\ applied' = applied \cup {c}
    /\ UNCHANGED <<gate, desktop, owners, cached, reported>>

\* Mutant: the output is cached before the result is judged.
EffectCachedEarly(c) ==
    /\ c \in Effects
    /\ \E ok \in BOOLEAN : (ok => c \in applied) /\ Return(c, ok)
    /\ cached' = (cached \/ c \in Keyed)
    /\ reported' = IF at'[c] = "done" /\ c \notin Titled THEN reported \cup {c} ELSE reported
    /\ UNCHANGED <<desktop, owners, applied>>

\* The result of an effect; without an expected title the output is cached at once.
EffectReturns(c) ==
    /\ c \in Effects
    /\ \E ok \in BOOLEAN : (ok => c \in applied) /\ Return(c, ok)
    /\ LET done == at'[c] = "done" /\ c \notin Titled
       IN  /\ cached' = (cached \/ (done /\ c \in Keyed))
           /\ reported' = IF done THEN reported \cup {c} ELSE reported
    /\ UNCHANGED <<desktop, owners, applied>>

\* A postcondition is met or is not after fifty more listings; only then is the output
\* cached.  These listings pass the gate like any other and leave the owners alone.
TitleSeen(c) ==
    /\ c \in Titled /\ at[c] = "done" /\ c \notin reported /\ ~stopped
    /\ cached' = (cached \/ c \in Keyed)
    /\ reported' = reported \cup {c}
    /\ UNCHANGED <<gate, desktop, owners, applied>>

\* A listing replaces the owners.
ListReturns(c) ==
    /\ c \notin Effects
    /\ \E ok \in BOOLEAN : Return(c, ok)
    /\ owners' = IF at'[c] = "done" THEN desktop ELSE owners
    /\ UNCHANGED <<desktop, cached, applied, reported>>

CancelTask(c)  == Unwind(c) /\ Quiet
AbandonTask(c) == Abandon(c) /\ Quiet

StopVision   == Stop /\ Quiet
ResumeVision == Resume /\ Quiet

\* Applications come and go.
Rearrange ==
    /\ desktop' \in Apps \cup {None}
    /\ UNCHANGED <<gate, owners, cached, applied, reported>>

VisionInit ==
    /\ GateInit
    /\ desktop \in Apps
    /\ owners = None
    /\ cached = FALSE
    /\ applied = {} /\ reported = {}

VisionNext ==
    \/ StopVision \/ ResumeVision \/ Rearrange
    \/ \E c \in Calls :
          \/ Effect(c) \/ List(c) \/ AcquireVision(c) \/ Apply(c) \/ EffectReturns(c) \/ TitleSeen(c)
          \/ ListReturns(c) \/ CancelTask(c) \/ AbandonTask(c)

VisionSpec == VisionInit /\ [][VisionNext]_visionVars

-----------------------------------------------------------------------------
VisionTypeOK ==
    /\ GateTypeOK
    /\ desktop \in Apps \cup {None} /\ owners \in Apps \cup {None}
    /\ cached \in BOOLEAN
    /\ applied \subseteq Effects /\ reported \subseteq Effects

\* A success that is reported, from the driver or from the cache, is a success of an
\* effect with that key, whose postcondition was seen if it asked for one; and nothing
\* is in the cache that was not reported.
ReportsAreBacked ==
    /\ \A c \in reported : c \in applied \/ (c \in Keyed /\ Keyed \cap applied \cap reported # {})
    /\ cached => Keyed \cap applied \cap reported # {}

=============================================================================
