------------------------- MODULE JarvisSessionProofs -------------------------
(***************************************************************************)
(* Proofs about JarvisSession, for any number of calls.                    *)
(*                                                                         *)
(* Ledger and Fresh hold in every behaviour.  Calm says what each state of *)
(* the manager means for the sessions, the sockets and the queue as long   *)
(* as no call comes too soon; neither property is inductive without it.    *)
(***************************************************************************)
EXTENDS JarvisSession, TLAPS

\* Nothing has happened to a session that is not made.
Fresh ==
    \A k \in Sessions : k > made => /\ place[k] = "unused" /\ ~up[k] /\ sock[k] = "none"
                                    /\ k \notin closing /\ k # active /\ usage[k] = 0

\* A session is recorded when it has been active and is closed.
Ledger ==
    \A k \in Sessions :
        /\ k = active \/ k \in closing => usage[k] = 0
        /\ ~(k = active /\ k \in closing)
        /\ usage[k] <= 1

Ends(k) == \A i \in DOMAIN ready : ready[i].op = "end" /\ ready[i].of = k

\* Sessions and sockets.
Owned ==
    /\ \A k \in Sessions : sock[k] = "open" => up[k] \/ k \in closing
    /\ \A k \in Sessions : up[k] => k = active
    /\ closing # {} => state = "ending"
    /\ \A j, k \in closing : j = k

\* Activations under way.
Tried ==
    /\ \A k \in Sessions : place[k] \in {"connecting", "handshake"} => k = active /\ state = "connecting"
    /\ \A k \in Sessions : place[k] = "backoff" => k = active /\ state = "error" /\ sock[k] = "none"
    /\ state = "connecting" => active # None /\ up[active] /\ place[active] \in {"connecting", "handshake"}
    /\ state = "error" => active # None /\ place[active] = "backoff"

\* The queue.
Queued ==
    /\ state \in {"connecting", "error", "ending"} => ready = <<>>
    /\ state \in {"idle", "wake", "ending"} => active = None
    /\ state = "active" => active # None /\ Ends(active) /\ (up[active] => ready = <<>>)
    /\ state = "starting" => /\ Ends(active)
                             /\ active # None => ready # <<>> /\ (up[active] => Len(ready) = 1)
    /\ \A i \in DOMAIN ready : ready[i].op = "activate" => i = Len(ready) /\ running

\* Who listens.
Hears ==
    /\ state \in {"wake", "connecting", "active", "error"} => running
    /\ state = "starting" => ~running
    /\ state \in {"connecting", "active", "error"} => ~listening

Calm == ~rushed => Owned /\ Tried /\ Queued /\ Hears

IInv == TypeOK /\ Fresh /\ Ledger /\ Calm

-----------------------------------------------------------------------------
LEMMA EntryFacts ==
    /\ None \notin Sessions
    /\ Activation \in Entry
    /\ \A k \in Sessions : k \in Nat /\ Teardown(k) \in Entry
<1>1. None \notin Sessions /\ \A k \in Sessions : k \in Nat
  BY MaxCallsAssumption DEF None, Sessions
<1>2. Activation \in Entry /\ \A k \in Sessions : Teardown(k) \in Entry
  BY DEF Entry
<1> QED BY <1>1, <1>2

LEMMA QueueTypes ==
    ASSUME NEW q \in Seq(Entry)
    PROVE  /\ \A e \in Entry : Append(q, e) \in Seq(Entry)
           /\ q # <<>> => Tail(q) \in Seq(Entry) /\ Head(q) \in Entry
  OBVIOUS

LEMMA NextTypes ==
    ASSUME TypeOK, [Next]_vars
    PROVE  TypeOK'
<1> USE EntryFacts DEF TypeOK
<1>c. ASSUME NEW inTime \in BOOLEAN, Call(inTime)
      PROVE  calls' \in 0..MaxCalls /\ rushed' \in BOOLEAN
  BY <1>c, MaxCallsAssumption DEF Call
<1>q. ASSUME NEW q \in Seq(Entry), EndSession(q)
      PROVE  /\ state' \in States /\ listening' \in BOOLEAN /\ active' \in Sessions \cup {None}
             /\ ready' \in Seq(Entry) /\ up' \in [Sessions -> BOOLEAN]
             /\ closing' \subseteq Sessions /\ usage' \in [Sessions -> Nat]
  <2>1. CASE EndAtOnce(q)
    <3>1. Runs => Append(q, Teardown(active)) \in Seq(Entry)
      BY QueueTypes DEF Runs
    <3> QED BY <2>1, <3>1 DEF EndAtOnce, States
  <2>2. CASE EndWaits(q)
    BY <2>2 DEF EndWaits, States, MustWait
  <2> QED BY <1>q, <2>1, <2>2 DEF EndSession
<1>1. CASE Start
  BY <1>1, <1>c DEF Start, Settled, sessions, States
<1>2. CASE Stop
  BY <1>2, QueueTypes, <1>c DEF Stop, Settled, sessions, States
<1>a. ASSUME Activate
      PROVE  /\ state' \in States /\ listening' \in BOOLEAN /\ active' \in Sessions \cup {None}
             /\ made' \in 0..MaxCalls /\ place' \in [Sessions -> Places] /\ up' \in [Sessions -> BOOLEAN]
  <2>1. CASE made < MaxCalls
    <3>1. made + 1 \in Sessions /\ made + 1 \in 0..MaxCalls
      BY <2>1, MaxCallsAssumption DEF Sessions
    <3> QED BY <1>a, <3>1 DEF Activate, States, Places
  <2>2. CASE ~(made < MaxCalls)
    BY <1>a, <2>2 DEF Activate
  <2> QED BY <2>1, <2>2
<1>3. CASE RequestActivate
  BY <1>3, <1>a, <1>c DEF RequestActivate, Settled
<1>4. CASE RequestEnd
  BY <1>4, <1>q, <1>c DEF RequestEnd, Settled
<1>5. CASE \E testing \in BOOLEAN : WakeWord(testing)
  BY <1>5, QueueTypes, <1>c DEF WakeWord, Settled, Waking, sessions, States
<1>6. CASE RunActivation
  BY <1>6, <1>a, QueueTypes DEF RunActivation
<1>7. CASE RunTeardown
  BY <1>7, <1>q, QueueTypes DEF RunTeardown
<1>8. CASE \E k \in Sessions : SessionStep(k) \/ Drop(k)
  <2> PICK k \in Sessions : SessionStep(k) \/ Drop(k)
    BY <1>8
  <2>1. CASE Connect(k) \/ Establish(k) \/ Fail(k) \/ Drop(k)
    BY <2>1 DEF Connect, Establish, Fail, Drop, manager, States, Places
  <2>2. CASE BackOff(k)
    BY <1>q, <2>2 DEF BackOff, Places
  <2>3. CASE Closed(k)
    BY <2>3, QueueTypes DEF Closed, States
  <2>4. CASE Watchdog(k)
    <3>0. ready' = ready \/ ready' = Append(ready, Teardown(k))
      BY <2>4 DEF Watchdog
    <3>a. Append(ready, Teardown(k)) \in Seq(Entry)
      BY QueueTypes
    <3>1. ready' \in Seq(Entry)
      BY <3>0, <3>a
    <3>2. sock' \in [Sessions -> {"none", "open", "lost"}] /\ up' \in [Sessions -> BOOLEAN]
      BY <2>4 DEF Watchdog
    <3>3. UNCHANGED <<state, running, listening, active, made, place, closing, usage, calls, rushed>>
      BY <2>4 DEF Watchdog
    <3> QED BY <3>1, <3>2, <3>3
  <2> QED BY <2>1, <2>2, <2>3, <2>4 DEF SessionStep
<1>9. CASE UNCHANGED vars
  BY <1>9 DEF vars, manager, sessions
<1> QED BY <1>1, <1>2, <1>3, <1>4, <1>5, <1>6, <1>7, <1>8, <1>9 DEF Next

LEMMA NextLedger ==
    ASSUME TypeOK, Fresh, Ledger, [Next]_vars
    PROVE  Fresh' /\ Ledger'
<1> USE EntryFacts DEF TypeOK, Fresh, Ledger
<1>q. ASSUME NEW q, EndSession(q), UNCHANGED <<made, place, sock>>
      PROVE  Fresh' /\ Ledger'
  <2>1. CASE EndAtOnce(q)
    BY <1>q, <2>1 DEF EndAtOnce
  <2>2. CASE EndWaits(q)
    BY <1>q, <2>2 DEF EndWaits, MustWait
  <2> QED BY <1>q, <2>1, <2>2 DEF EndSession
<1>a. ASSUME Activate, UNCHANGED <<sock, closing, usage>>
      PROVE  Fresh' /\ Ledger'
  <2>1. CASE UNCHANGED <<state, listening, active, made, place, up>>
    BY <1>a, <2>1
  <2>2. CASE /\ made < MaxCalls /\ made' = made + 1 /\ active' = made + 1
             /\ place' = [place EXCEPT ![made + 1] = "connecting"]
             /\ up' = [up EXCEPT ![made + 1] = TRUE]
    <3>1. made + 1 \in Sessions /\ made + 1 > made
      BY <2>2, MaxCallsAssumption DEF Sessions
    <3>2. \A k \in Sessions : k > made + 1 => k > made /\ k # made + 1
      BY <3>1
    <3> QED BY <1>a, <2>2, <3>1, <3>2
  <2> QED BY <1>a, <2>1, <2>2 DEF Activate
<1>1. CASE Start \/ Stop \/ \E testing \in BOOLEAN : WakeWord(testing)
  BY <1>1 DEF Start, Stop, WakeWord, sessions
<1>2. CASE RequestActivate \/ RunActivation
  BY <1>2, <1>a DEF RequestActivate, RunActivation
<1>3. CASE RequestEnd \/ RunTeardown
  BY <1>3, <1>q DEF RequestEnd, RunTeardown
<1>4. CASE \E k \in Sessions : SessionStep(k) \/ Drop(k)
  <2> PICK k \in Sessions : SessionStep(k) \/ Drop(k)
    BY <1>4
  <2>1. CASE Connect(k) \/ Establish(k) \/ Fail(k) \/ Drop(k)
    BY <2>1 DEF Connect, Establish, Fail, Drop, manager
  <2>2. CASE BackOff(k)
    <3>1. CASE EndAtOnce(ready)
      BY <2>2, <3>1 DEF BackOff, EndAtOnce
    <3>2. CASE EndWaits(ready)
      BY <2>2, <3>2 DEF BackOff, EndWaits, MustWait
    <3> QED BY <2>2, <3>1, <3>2 DEF BackOff, EndSession
  <2>3. CASE Closed(k)
    BY <2>3 DEF Closed
  <2>4. CASE Watchdog(k)
    BY <2>4 DEF Watchdog
  <2> QED BY <2>1, <2>2, <2>3, <2>4 DEF SessionStep
<1>5. CASE UNCHANGED vars
  BY <1>5 DEF vars, manager, sessions
<1> QED BY <1>1, <1>2, <1>3, <1>4, <1>5 DEF Next

\* Where the queue is rebuilt: what an appended or a removed entry does to it.
LEMMA QueueFacts ==
    ASSUME NEW q \in Seq(Entry)
    PROVE  /\ \A e \in Entry : /\ Len(Append(q, e)) = Len(q) + 1
                               /\ DOMAIN Append(q, e) = 1..(Len(q) + 1)
                               /\ \A i \in 1..Len(q) : Append(q, e)[i] = q[i]
                               /\ Append(q, e)[Len(q) + 1] = e
           /\ DOMAIN q = 1..Len(q) /\ Len(q) \in Nat
           /\ q = <<>> <=> Len(q) = 0
           /\ q # <<>> => /\ Head(q) = q[1]
                          /\ Len(Tail(q)) = Len(q) - 1
                          /\ DOMAIN Tail(q) = 1..(Len(q) - 1)
                          /\ \A i \in 1..(Len(q) - 1) : Tail(q)[i] = q[i + 1]
  OBVIOUS

LEMMA EndCalmly ==
    ASSUME TypeOK, Owned, Tried, Queued, Hears, NEW q \in Seq(Entry), EndSession(q),
           state # "ending", running' = running, sock' = sock,
           \A k \in Sessions : place'[k] \notin {"connecting", "handshake", "backoff"},
           Runs => q = <<>>,
           \A i \in DOMAIN q : q[i].op = "activate" => i = Len(q) /\ running
    PROVE  Owned' /\ Tried' /\ Queued' /\ Hears'
<1> USE EntryFacts DEF TypeOK
<1>1. CASE EndAtOnce(q)
  <2>1. Owned'
    BY <1>1 DEF Owned, EndAtOnce, MustWait
  <2>2. Tried' /\ Hears'
    BY <1>1 DEF Tried, Hears, EndAtOnce
  <2>3. Queued'
    <3>1. CASE Runs
      <4>1. ready' = Append(q, Teardown(active)) /\ active \in Sessions
        BY <1>1, <3>1 DEF EndAtOnce, Runs
      <4>2. q = <<>>
        BY <1>1, <3>1 DEF EndAtOnce
      <4>3. \A i \in DOMAIN ready' : ready'[i].op = "end"
        BY <4>1, <4>2, QueueFacts DEF Teardown
      <4> QED BY <1>1, <4>3 DEF EndAtOnce, Queued
    <3>2. CASE ~Runs
      BY <1>1, <3>2 DEF EndAtOnce, Queued
    <3> QED BY <3>1, <3>2
  <2> QED BY <2>1, <2>2, <2>3
<1>2. CASE EndWaits(q)
  <2>1. PICK k \in Sessions : k = active /\ up[k] /\ sock[k] # "none"
    BY <1>2 DEF EndWaits, MustWait
  <2>2. Owned'
    BY <1>2, <2>1 DEF Owned, EndWaits, Queued
  <2>3. Tried' /\ Hears'
    BY <1>2 DEF Tried, Hears, EndWaits
  <2>4. Queued'
    BY <1>2, <2>1 DEF EndWaits, Queued, Runs
  <2> QED BY <2>2, <2>3, <2>4
<1> QED BY <1>1, <1>2 DEF EndSession

LEMMA ActivateCalmly ==
    ASSUME TypeOK, Fresh, Owned, Tried, Queued, Hears, Activate, running,
           running' = running, sock' = sock, closing' = closing,
           (state \in {"idle", "wake"} /\ ready' = <<>>) \/ (state = "active" /\ ready' = ready)
    PROVE  Owned' /\ Tried' /\ Queued' /\ Hears'
<1> USE EntryFacts DEF TypeOK
<1>1. CASE state = "active"
  <2>1. UNCHANGED <<state, listening, active, place, up, ready>>
    BY <1>1 DEF Activate
  <2> QED BY <2>1 DEF Owned, Tried, Queued, Hears, Ends
<1>2. CASE state \in {"idle", "wake"} /\ ready' = <<>>
  <2> DEFINE k == made + 1
  <2>1. /\ k \in Sessions /\ k > made
        /\ state' = "connecting" /\ listening' = FALSE /\ active' = k
        /\ place' = [place EXCEPT ![k] = "connecting"]
        /\ up' = [up EXCEPT ![k] = TRUE]
    BY <1>2, MaxCallsAssumption DEF Activate, Sessions
  <2> HIDE DEF k
  <2>2. active = None /\ sock[k] = "none" /\ closing = {}
    BY <1>2, <2>1 DEF Fresh, Queued, Owned
  <2>3. Owned'
    BY <2>1, <2>2 DEF Owned
  <2>4. Tried'
    BY <1>2, <2>1, <2>2 DEF Tried
  <2>5. Queued' /\ Hears'
    BY <1>2, <2>1 DEF Queued, Hears
  <2> QED BY <2>3, <2>4, <2>5
<1> QED BY <1>1, <1>2

LEMMA NextCalm ==
    ASSUME TypeOK, Fresh, Calm, [Next]_vars
    PROVE  Calm'
<1> SUFFICES ASSUME ~rushed'
             PROVE  Owned' /\ Tried' /\ Queued' /\ Hears'
  BY DEF Calm
<1> USE EntryFacts DEF TypeOK
<1>0. ~rushed
  BY DEF Next, Start, Stop, RequestActivate, RequestEnd, WakeWord, RunActivation, RunTeardown, Call,
     SessionStep, Connect, Establish, Fail, BackOff, Closed, Drop, Watchdog, vars
<1>g. Owned /\ Tried /\ Queued /\ Hears
  BY <1>0 DEF Calm
<1>1. CASE Start
  <2>1. Settled /\ ~running /\ state' = "idle" /\ running' = TRUE /\ UNCHANGED <<active, ready, sessions>>
    BY <1>1 DEF Start, Call
  <2>2. state \in {"starting", "idle"} /\ ready = <<>> /\ active = None
    BY <1>g, <2>1 DEF Settled, Hears, Queued
  <2> QED BY <1>g, <2>1, <2>2 DEF Owned, Tried, Queued, Hears, sessions
<1>2. CASE Stop
  <2>1. /\ Settled /\ running' = FALSE /\ listening' = FALSE /\ state' = "starting"
        /\ ready' = IF active # None THEN Append(ready, Teardown(active)) ELSE ready
        /\ UNCHANGED <<active, sessions>>
    BY <1>2 DEF Stop, Call
  <2>2. Owned' /\ Tried' /\ Hears'
    BY <1>g, <2>1 DEF Settled, Owned, Tried, Hears, sessions
  <2>3. ASSUME active = None PROVE Queued'
    BY <2>1, <2>3 DEF Settled, Queued, Ends, sessions
  <2>4. ASSUME active # None PROVE Queued'
    <3>1. DOMAIN ready' = 1..1 /\ ready'[1] = Teardown(active) /\ Len(ready') = 1
      BY <2>1, <2>4, QueueFacts DEF Settled
    <3> QED BY <2>1, <2>4, <3>1 DEF Queued, Ends, Teardown
  <2> QED BY <2>2, <2>3, <2>4
<1>3. CASE RequestActivate
  <2>1. Settled /\ running /\ Activate /\ UNCHANGED <<running, ready, sock, closing>>
    BY <1>3 DEF RequestActivate, Call
  <2>2. state \in {"idle", "active"} /\ ready = <<>>
    BY <1>g, <2>1 DEF Settled, Hears
  <2> QED BY <1>g, <2>1, <2>2, ActivateCalmly
<1>4. CASE RequestEnd
  <2>1. Settled /\ EndSession(ready) /\ UNCHANGED <<running, place, sock>>
    BY <1>4 DEF RequestEnd, Call
  <2>2. state # "ending" /\ ready = <<>>
    BY <2>1 DEF Settled
  <2>3. \A k \in Sessions : place'[k] \notin {"connecting", "handshake", "backoff"}
    BY <1>g, <2>1 DEF Settled, Tried
  <2>4. \A i \in DOMAIN ready : ready[i].op = "activate" => i = Len(ready) /\ running
    BY <1>g DEF Queued
  <2> QED BY <1>g, <2>1, <2>2, <2>3, <2>4, EndCalmly
<1>5. CASE \E testing \in BOOLEAN : WakeWord(testing)
  <2>1. PICK testing \in BOOLEAN : WakeWord(testing)
    BY <1>5
  <2>2. /\ IF testing THEN Settled /\ running ELSE ~Waking
        /\ listening /\ (testing \/ (state = "idle" /\ running))
        /\ state' = "wake" /\ ready' = Append(ready, Activation)
        /\ UNCHANGED <<running, listening, active, sessions>>
    BY <2>1 DEF WakeWord, Call
  <2>3. state = "idle" /\ running
    BY <1>g, <2>2 DEF Settled, Hears
  <2>4. \A i \in DOMAIN ready : ready[i].op # "activate"
    BY <2>2 DEF Waking, Settled
  <2>5. Owned' /\ Tried' /\ Hears'
    BY <1>g, <2>2, <2>3 DEF Owned, Tried, Hears, sessions
  <2>6. \A i \in DOMAIN ready' : ready'[i].op = "activate" => i = Len(ready')
    BY <2>2, <2>4, QueueFacts
  <2>7. Queued'
    BY <1>g, <2>2, <2>3, <2>6 DEF Queued
  <2> QED BY <2>5, <2>7
<1>6. CASE RunActivation
  <2>1. /\ ready # <<>> /\ Head(ready).op = "activate" /\ ready' = Tail(ready)
        /\ Activate /\ UNCHANGED <<running, sock, closing>>
    BY <1>6 DEF RunActivation
  <2>2. 1 \in DOMAIN ready /\ ready[1].op = "activate"
    BY <2>1, QueueFacts
  <2>3. Len(ready) = 1 /\ running
    BY <1>g, <2>2 DEF Queued
  <2>4. ready' = <<>>
    BY <2>1, <2>3, QueueFacts, QueueTypes
  <2>5. state \in {"idle", "wake"}
    BY <1>g, <2>1, <2>2 DEF Queued, Ends, States
  <2>6. running' = running /\ sock' = sock /\ closing' = closing
    BY <2>1
  <2>7. (state \in {"idle", "wake"} /\ ready' = <<>>) \/ (state = "active" /\ ready' = ready)
    BY <2>4, <2>5
  <2> QED BY <1>g, <2>1, <2>3, <2>6, <2>7, ActivateCalmly
<1>7. CASE RunTeardown
  <2>1. /\ ready # <<>> /\ EndSession(Tail(ready)) /\ UNCHANGED <<running, place, sock>>
    BY <1>7 DEF RunTeardown
  <2>2. state \notin {"connecting", "error", "ending"}
    BY <1>g, <2>1 DEF Queued
  <2>3. \A k \in Sessions : place'[k] \notin {"connecting", "handshake", "backoff"}
    BY <1>g, <2>1, <2>2 DEF Tried
  <2>4. ASSUME Runs PROVE Tail(ready) = <<>>
    <3>1. active # None /\ up[active]
      BY <2>4 DEF Runs
    <3>2. state = "starting" /\ Len(ready) = 1
      BY <1>g, <2>1, <2>2, <3>1 DEF Queued, States
    <3>3. Tail(ready) \in Seq(Entry) /\ Len(Tail(ready)) = 0
      BY <2>1, <3>2, QueueFacts, QueueTypes
    <3> QED BY <3>3, QueueFacts
  <2>5. ASSUME NEW i \in DOMAIN Tail(ready), Tail(ready)[i].op = "activate"
        PROVE  i = Len(Tail(ready)) /\ running
    <3>1. i + 1 \in DOMAIN ready /\ ready[i + 1].op = "activate"
      BY <2>1, <2>5, QueueFacts
    <3>2. i + 1 = Len(ready) /\ running
      BY <1>g, <3>1 DEF Queued
    <3>3. Len(Tail(ready)) = Len(ready) - 1 /\ i \in 1..(Len(ready) - 1) /\ Len(ready) \in Nat
      BY <2>1, <2>5, QueueFacts
    <3> QED BY <3>2, <3>3
  <2>6. Tail(ready) \in Seq(Entry)
    BY <2>1, QueueTypes
  <2> QED BY <1>g, <2>1, <2>2, <2>3, <2>4, <2>5, <2>6, EndCalmly
<1>8. ASSUME NEW k \in Sessions, SessionStep(k) \/ Drop(k)
      PROVE  Owned' /\ Tried' /\ Queued' /\ Hears'
  <2>1. CASE Connect(k)
    BY <1>g, <2>1 DEF Connect, Owned, Tried, Queued, Ends, Hears, manager
  <2>2. CASE Establish(k)
    BY <1>g, <2>2 DEF Establish, Owned, Tried, Queued, Ends, Hears
  <2>3. CASE Fail(k)
    BY <1>g, <2>3 DEF Fail, Owned, Tried, Queued, Ends, Hears
  <2>4. CASE BackOff(k)
    <3>1. EndSession(ready) /\ UNCHANGED <<running, sock>> /\ place' = [place EXCEPT ![k] = "over"]
      BY <2>4 DEF BackOff
    <3>2. k = active /\ state = "error" /\ sock[k] = "none" /\ ready = <<>>
      BY <1>g, <2>4 DEF BackOff, Tried, Queued
    <3>3. \A j \in Sessions : place'[j] \notin {"connecting", "handshake", "backoff"}
      BY <1>g, <3>1, <3>2 DEF Tried
    <3>4. \A i \in DOMAIN ready : ready[i].op = "activate" => i = Len(ready) /\ running
      BY <1>g DEF Queued
    <3> QED BY <1>g, <3>1, <3>2, <3>3, <3>4, EndCalmly
  <2>5. CASE Closed(k)
    <3>1. state = "ending" /\ ready = <<>> /\ active = None /\ closing = {k}
      BY <1>g, <2>5 DEF Closed, Owned, Queued
    <3>2. DOMAIN ready' = 1..1 /\ ready'[1] = Teardown(k)
      BY <2>5, <3>1, QueueFacts DEF Closed
    <3>3. Owned' /\ Tried' /\ Hears'
      BY <1>g, <2>5, <3>1 DEF Closed, Owned, Tried, Hears
    <3>4. Queued'
      BY <2>5, <3>1, <3>2 DEF Closed, Queued, Teardown
    <3> QED BY <3>3, <3>4
  <2>6. CASE Watchdog(k)
    <3>1. /\ k = active /\ place[k] = "live" /\ up' = [up EXCEPT ![k] = FALSE]
          /\ \E s \in {"lost", "none"} : sock' = [sock EXCEPT ![k] = s]
          /\ ready' = ready \/ ready' = Append(ready, Teardown(k))
          /\ UNCHANGED <<state, running, listening, active, place, closing>>
      BY <1>g, <2>6 DEF Watchdog, Owned
    <3>2. state \in {"active", "starting"} /\ Ends(k)
      BY <1>g, <3>1 DEF Tried, Queued, States
    <3>3. Owned' /\ Tried' /\ Hears'
      BY <1>g, <3>1, <3>2 DEF Owned, Tried, Hears
    <3>4. \A i \in DOMAIN ready' : ready'[i] = Teardown(k) \/ (i \in DOMAIN ready /\ ready'[i] = ready[i])
      <4>1. CASE ready' = ready
        BY <4>1
      <4>2. CASE ready' = Append(ready, Teardown(k))
        <5>1. DOMAIN ready' = 1..(Len(ready) + 1) /\ DOMAIN ready = 1..Len(ready) /\ Len(ready) \in Nat
          BY <4>2, QueueFacts
        <5>2. ready'[Len(ready) + 1] = Teardown(k) /\ \A i \in 1..Len(ready) : ready'[i] = ready[i]
          BY <4>2, QueueFacts
        <5> QED BY <5>1, <5>2
      <4> QED BY <3>1, <4>1, <4>2
    <3>5. Ends(k)'
      BY <3>2, <3>4 DEF Ends, Teardown
    <3>6. ready # <<>> => ready' # <<>>
      BY <3>1, QueueFacts
    <3>7. Queued'
      BY <1>g, <3>1, <3>2, <3>5, <3>6 DEF Queued, Ends
    <3> QED BY <3>3, <3>7
  <2>7. CASE Drop(k)
    BY <1>g, <2>7 DEF Drop, Owned, Tried, Queued, Ends, Hears, manager
  <2> QED BY <1>8, <2>1, <2>2, <2>3, <2>4, <2>5, <2>6, <2>7 DEF SessionStep
<1>9. CASE UNCHANGED vars
  BY <1>g, <1>9 DEF vars, manager, sessions, Owned, Tried, Queued, Ends, Hears
<1> QED BY <1>1, <1>2, <1>3, <1>4, <1>5, <1>6, <1>7, <1>8, <1>9 DEF Next

-----------------------------------------------------------------------------
LEMMA IInvariant == Spec => []IInv
<1>1. Init => IInv
  <2> SUFFICES ASSUME Init PROVE IInv
    OBVIOUS
  <2> USE EntryFacts, MaxCallsAssumption DEF Init
  <2>1. ready \in Seq(Entry) /\ DOMAIN ready = {}
    OBVIOUS
  <2>2. TypeOK
    <3>1. state \in States /\ place \in [Sessions -> Places] /\ active \in Sessions \cup {None}
      BY DEF States, Places
    <3>2. made \in 0..MaxCalls /\ calls \in 0..MaxCalls /\ usage \in [Sessions -> Nat]
      OBVIOUS
    <3>3. up \in [Sessions -> BOOLEAN] /\ sock \in [Sessions -> {"none", "open", "lost"}]
      OBVIOUS
    <3> QED BY <2>1, <3>1, <3>2, <3>3 DEF TypeOK
  <2>3. Fresh /\ Ledger
    BY DEF Fresh, Ledger
  <2>4. Calm
    BY <2>1 DEF Calm, Owned, Tried, Queued, Hears
  <2> QED BY <2>2, <2>3, <2>4 DEF IInv
<1>2. IInv /\ [Next]_vars => IInv'
  BY NextTypes, NextLedger, NextCalm DEF IInv
<1> QED
  BY <1>1, <1>2, PTL DEF Spec

\* Every variable stays in its type.
THEOREM TypeCorrect == Spec => []TypeOK
<1>1. IInv => TypeOK
  BY DEF IInv
<1> QED
  BY IInvariant, <1>1, PTL

\* No session's usage is recorded twice, whoever ends it and however often.
THEOREM NoDoubleBilling == Spec => []UsageRecordedOnce
<1>1. IInv => UsageRecordedOnce
  BY DEF IInv, Ledger, UsageRecordedOnce
<1> QED
  BY IInvariant, <1>1, PTL

\* While calls come in time, an idle manager has no Gemini connection.
THEOREM IdleIsFree == Spec => []IdleMeansDisconnected
<1>1. IInv => IdleMeansDisconnected
  BY EntryFacts DEF IInv, Calm, Owned, Queued, IdleMeansDisconnected
<1> QED
  BY IInvariant, <1>1, PTL

\* While calls come in time, no late teardown reaches a newer session.
THEOREM LateTeardownsAreHarmless == Spec => []TeardownsHitTheirOwn
<1>1. ASSUME IInv PROVE TeardownsHitTheirOwn
  <2>1. ASSUME ~rushed PROVE \A i \in DOMAIN ready : ready[i].op = "end" => active \in {None, ready[i].of}
    <3>1. Queued /\ state \in States
      BY <1>1, <2>1 DEF IInv, Calm, TypeOK
    <3>2. CASE state \in {"active", "starting"}
      BY <3>1, <3>2 DEF Queued, Ends
    <3>3. CASE state \in {"connecting", "error", "ending"}
      BY <3>1, <3>3 DEF Queued
    <3>4. CASE state \in {"idle", "wake"}
      BY <3>1, <3>4 DEF Queued
    <3> QED BY <3>1, <3>2, <3>3, <3>4 DEF States
  <2> QED BY <2>1 DEF TeardownsHitTheirOwn
<1> QED
  BY IInvariant, <1>1, PTL

=============================================================================
