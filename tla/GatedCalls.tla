------------------------------ MODULE GatedCalls ------------------------------
(***************************************************************************)
(* The gate that VisionRuntime._run, PlaywrightBrowserEngine._run and      *)
(* ComputerController.execute put around every call of their driver: a     *)
(* stop flag, a generation, an asyncio.Lock and the task under way.  The   *)
(* controllers' modules extend this one.                                   *)
(*                                                                         *)
(* One step is the code between two awaits.  asyncio.Lock serves its       *)
(* waiters in order, and a newcomer never overtakes a waiter.              *)
(***************************************************************************)
EXTENDS Naturals, Sequences, SequencesExt

CONSTANTS
    Calls,     \* the calls of the capabilities, each made once
    MaxOrders  \* bound on stop and resume orders

ASSUME GateAssumption == MaxOrders \in Nat

None == "none"
ASSUME NoneAssumption == None \notin Calls

VARIABLES
    stopped,     \* state.stopped
    generation,  \* state.generation
    holder,      \* who holds the lock
    queue,       \* who waits for it
    at,          \* at[c]: where a call is
    seen,        \* seen[c]: the generation it was admitted in
    doomed       \* the call whose task a stop has cancelled and that has not ended yet

gate == <<stopped, generation, holder, queue, at, seen, doomed>>

\* "held": the lock is held and the driver not called yet; "acting": the task is made.
Places == {"idle", "waiting", "held", "acting", "done", "refused"}

Overtaken(c) == stopped \/ seen[c] # generation

\* asyncio.Lock.acquire returns at once.
Free == holder = None /\ queue = <<>>

\* The call ends and releases the lock, if it holds it.
End(c, p) ==
    /\ at' = [at EXCEPT ![c] = p]
    /\ holder' = IF holder = c THEN None ELSE holder
    /\ queue' = RemoveFirst(queue, c)
    /\ doomed' = doomed \ {c}
    /\ UNCHANGED <<stopped, generation, seen>>

-----------------------------------------------------------------------------
\* A call made while stopped is refused; another one notes the generation and takes the
\* lock or waits for it.
Admit(c, first) ==
    /\ at[c] = "idle"
    /\ IF stopped THEN End(c, "refused")
       ELSE /\ seen' = [seen EXCEPT ![c] = generation]
            /\ IF Free THEN holder' = c /\ at' = [at EXCEPT ![c] = first] /\ UNCHANGED queue
               ELSE queue' = Append(queue, c) /\ at' = [at EXCEPT ![c] = "waiting"] /\ UNCHANGED holder
            /\ UNCHANGED <<stopped, generation, doomed>>

\* Mutant: the state is not looked at again once the lock is there.
EnterUnchecked(c, first) ==
    /\ holder = None /\ queue # <<>> /\ c = Head(queue)
    /\ queue' = Tail(queue)
    /\ holder' = c
    /\ at' = [at EXCEPT ![c] = first]
    /\ UNCHANGED <<stopped, generation, seen, doomed>>

\* The lock is released to the first waiter, which looks at the state again.
Enter(c, first) ==
    /\ holder = None /\ queue # <<>> /\ c = Head(queue)
    /\ IF Overtaken(c) THEN End(c, "refused")
       ELSE /\ queue' = Tail(queue)
            /\ holder' = c
            /\ at' = [at EXCEPT ![c] = first]
            /\ UNCHANGED <<stopped, generation, seen, doomed>>

\* The holder calls its driver, unless an order has come since it was admitted.
Dispatch(c) ==
    /\ at[c] = "held" /\ ~Overtaken(c)
    /\ at' = [at EXCEPT ![c] = "acting"]
    /\ UNCHANGED <<stopped, generation, holder, queue, seen, doomed>>

\* A check before or behind the lock refuses the call.
Refuse(c) == at[c] \in {"idle", "held"} /\ End(c, "refused")

\* Mutant: a call that fails keeps the lock.
ReturnHolding(c, ok) ==
    /\ at[c] = "acting"
    /\ IF ok THEN End(c, "done")
       ELSE at' = [at EXCEPT ![c] = "refused"] /\ UNCHANGED <<stopped, generation, holder, queue, seen, doomed>>

\* The task has ended before a cancellation reached it; its result counts only if no
\* order has come in between.
Return(c, ok) ==
    /\ at[c] = "acting"
    /\ End(c, IF ok /\ ~Overtaken(c) THEN "done" ELSE "refused")

\* The cancellation a stop has asked for is delivered.
Unwind(c) == c \in doomed /\ End(c, "refused")

\* The caller is cancelled while it waits for the lock or the driver.
Abandon(c) == at[c] \in {"waiting", "held", "acting"} /\ End(c, "refused")

\* Mutant: the task under way is left alone.
StopQuietly ==
    /\ generation < MaxOrders
    /\ stopped' = TRUE
    /\ generation' = generation + 1
    /\ UNCHANGED <<holder, queue, at, seen, doomed>>

Stop ==
    /\ generation < MaxOrders
    /\ stopped' = TRUE
    /\ generation' = generation + 1
    /\ doomed' = {c \in Calls : at[c] = "acting"}
    /\ UNCHANGED <<holder, queue, at, seen>>

Resume ==
    /\ generation < MaxOrders
    /\ stopped' = FALSE
    /\ generation' = generation + 1
    /\ UNCHANGED <<holder, queue, at, seen, doomed>>

GateInit ==
    /\ stopped = FALSE
    /\ generation = 0
    /\ holder = None
    /\ queue = <<>>
    /\ at = [c \in Calls |-> "idle"]
    /\ seen = [c \in Calls |-> 0]
    /\ doomed = {}

\* What a controller does with its gate.
GateNext ==
    \/ Stop \/ Resume
    \/ \E c \in Calls :
        \/ \E first \in {"held", "acting"} : Admit(c, first) \/ Enter(c, first)
        \/ \E ok \in BOOLEAN : Return(c, ok)
        \/ Dispatch(c) \/ Refuse(c) \/ Unwind(c) \/ Abandon(c)

GateSpec == GateInit /\ [][GateNext]_gate

-----------------------------------------------------------------------------
\* What of this state the promise of EffectGate is about.
Phase == [c \in Calls |-> CASE at[c] \in {"waiting", "held"} -> "admitted"
                            [] OTHER                       -> at[c]]
Barred == {c \in Calls : at[c] \in {"waiting", "held", "acting"} /\ seen[c] # generation}

Promise == INSTANCE EffectGate WITH phase <- Phase, barred <- Barred

\* The gate keeps its promise: one call at a time, and none begins or succeeds across a
\* stop or a resume.
GateKept == Promise!Spec

\* The gate's variables stay in their types, the lock has one holder, and only waiters
\* queue for it.
GateTypeOK ==
    /\ stopped \in BOOLEAN /\ generation \in 0..MaxOrders
    /\ holder \in Calls \cup {None}
    /\ \A c \in Calls : holder = c <=> at[c] \in {"held", "acting"}
    /\ queue \in Seq(Calls) /\ IsInjective(queue)
    /\ \A c \in Calls : at[c] = "waiting" <=> c \in ToSet(queue)
    /\ at \in [Calls -> Places]
    /\ seen \in [Calls -> 0..generation]
    /\ doomed \subseteq {c \in Calls : at[c] = "acting"}

=============================================================================
