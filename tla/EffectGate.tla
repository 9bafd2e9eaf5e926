------------------------------ MODULE EffectGate ------------------------------
(***************************************************************************)
(* What the computer, vision and browser controllers promise about their   *)
(* stop order (docs/07-COMPUTER-CONTROL.md, docs/08-BROWSER.md): one call  *)
(* acts at a time, a call admitted before a stop or a resume never begins  *)
(* after it and never reports success after it, and nothing is replayed.   *)
(***************************************************************************)
CONSTANT Calls

VARIABLES
    stopped,  \* the owner's last order
    phase,    \* phase[c]: how far a call is
    barred    \* the calls an order has overtaken

vars == <<stopped, phase, barred>>

Live == {c \in Calls : phase[c] \in {"admitted", "acting"}}

Become(c, p) ==
    /\ phase' = [phase EXCEPT ![c] = p]
    /\ barred' = IF p \in {"done", "refused"} THEN barred \ {c} ELSE barred
    /\ UNCHANGED stopped

Admit(c)  == phase[c] = "idle" /\ ~stopped /\ Become(c, "admitted")
Begin(c)  == /\ phase[c] \in {"idle", "admitted"} /\ c \notin barred /\ ~stopped
             /\ \A d \in Calls : phase[d] # "acting"
             /\ Become(c, "acting")
Finish(c) == phase[c] = "acting" /\ c \notin barred /\ Become(c, "done")
Refuse(c) == phase[c] \in {"idle", "admitted", "acting"} /\ Become(c, "refused")

\* Stop and resume both overtake every call under way.
Order ==
    /\ stopped' \in BOOLEAN
    /\ barred' = Live
    /\ UNCHANGED phase

Init ==
    /\ stopped = FALSE
    /\ phase = [c \in Calls |-> "idle"]
    /\ barred = {}

Next == Order \/ \E c \in Calls : Admit(c) \/ Begin(c) \/ Finish(c) \/ Refuse(c)

Spec == Init /\ [][Next]_vars

=============================================================================
