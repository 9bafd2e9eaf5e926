----------------------------- MODULE TaskLease -----------------------------
(***************************************************************************)
(* The database lease of one task, contended by several API processes:     *)
(* TaskRepository.acquire_lease, renew_lease and release_lease, and the    *)
(* heartbeat TaskRunner._run keeps beside the execution.                   *)
(*                                                                         *)
(* Every process stamps the row with its own clock, read before the        *)
(* statement is sent.  Nothing tells the execution that its lease is gone. *)
(***************************************************************************)
EXTENDS Integers

CONSTANTS
    Procs,        \* API processes, one runner each
    Skew,         \* Skew[p]: how far p's clock is ahead
    MaxSkew,      \* bound on the skews
    TTL,          \* lease_seconds
    Beat,         \* lease_seconds / 3: the heartbeat's sleep
    Lag,          \* how late a responsive event loop wakes the heartbeat
    Latency,      \* how long a statement may take after its clock was read
    MaxTime       \* bound on the clock

ASSUME SkewAssumption == MaxSkew \in Nat /\ Skew \in [Procs -> 0..MaxSkew]
ASSUME TimeAssumption ==
    /\ TTL \in Nat /\ Beat \in Nat \ {0} /\ Lag \in Nat /\ Latency \in Nat /\ MaxTime \in Nat
    /\ Beat + Lag + Latency + MaxSkew <= TTL

\* lease_owner is NULL.
Nobody  == "nobody"
Stopped == -1
ASSUME NobodyAssumption == Nobody \notin Procs

VARIABLES
    now,      \* real time
    owner,    \* lease_owner
    expires,  \* lease_expires_at
    working,  \* the processes between acquire_lease and release_lease
    due       \* due[p]: when p's heartbeat wakes; Stopped when it has returned

vars == <<now, owner, expires, working, due>>

Clock(p) == now + Skew[p]

Init ==
    /\ now = 0
    /\ owner = Nobody /\ expires = 0
    /\ working = {}
    /\ due = [p \in Procs |-> Stopped]

\* UPDATE ... WHERE lease_owner IS NULL OR lease_expires_at < now
AcquireLease(p) ==
    /\ p \notin working
    /\ \E late \in 0..Latency :
          /\ owner = Nobody \/ expires < Clock(p) - late
          /\ expires' = Clock(p) - late + TTL
    /\ owner' = p
    /\ working' = working \cup {p}
    /\ due' = [due EXCEPT ![p] = now + Beat]
    /\ UNCHANGED now

\* Mutant: the renewed lease ends with the next heartbeat.
RenewShort(p) ==
    /\ p \in working /\ due[p] # Stopped /\ now >= due[p]
    /\ owner = p
    /\ expires' = Clock(p) + Beat
    /\ due' = [due EXCEPT ![p] = now + Beat]
    /\ UNCHANGED <<now, owner, working>>

\* The heartbeat wakes: it renews its own lease, or returns when it has lost it.
RenewLease(p) ==
    /\ p \in working /\ due[p] # Stopped /\ now >= due[p]
    /\ \/ /\ owner = p
          /\ \E late \in 0..Latency : expires' = Clock(p) - late + TTL
          /\ due' = [due EXCEPT ![p] = now + Beat]
       \/ /\ owner # p
          /\ due' = [due EXCEPT ![p] = Stopped]
          /\ UNCHANGED expires
    /\ UNCHANGED <<now, owner, working>>

\* renew_lease raises: the heartbeat task ends and _run does not notice.
HeartbeatFails(p) ==
    /\ p \in working /\ due[p] # Stopped /\ now >= due[p]
    /\ due' = [due EXCEPT ![p] = Stopped]
    /\ UNCHANGED <<now, owner, expires, working>>

\* Mutant: the row is released whoever owns it.
ReleaseAnybody(p) ==
    /\ p \in working
    /\ owner' = Nobody
    /\ working' = working \ {p}
    /\ due' = [due EXCEPT ![p] = Stopped]
    /\ UNCHANGED <<now, expires>>

\* Mutant: an empty owner instead of NULL.
ReleaseEmpty(p) ==
    /\ p \in working
    /\ owner' = IF owner = p THEN "" ELSE owner
    /\ working' = working \ {p}
    /\ due' = [due EXCEPT ![p] = Stopped]
    /\ UNCHANGED <<now, expires>>

\* The finally clause of _run.
ReleaseLease(p) ==
    /\ p \in working
    /\ owner' = IF owner = p THEN Nobody ELSE owner
    /\ working' = working \ {p}
    /\ due' = [due EXCEPT ![p] = Stopped]
    /\ UNCHANGED <<now, expires>>

\* The process is lost; its lease stays in the row.
Crash(p) ==
    /\ p \in working
    /\ working' = working \ {p}
    /\ due' = [due EXCEPT ![p] = Stopped]
    /\ UNCHANGED <<now, owner, expires>>

\* Time passes, also past a heartbeat that is due: the event loop may be blocked.
Tick ==
    /\ now < MaxTime
    /\ now' = now + 1
    /\ UNCHANGED <<owner, expires, working, due>>

Next ==
    \/ \E p \in Procs : \/ AcquireLease(p) \/ RenewLease(p) \/ HeartbeatFails(p)
                        \/ ReleaseLease(p) \/ Crash(p)
    \/ Tick

Spec == Init /\ [][Next]_vars

-----------------------------------------------------------------------------
\* Every variable stays in its type.
TypeOK ==
    /\ now \in 0..MaxTime
    /\ owner \in Procs \cup {Nobody}
    /\ expires \in Int
    /\ working \subseteq Procs
    /\ due \in [Procs -> Nat \cup {Stopped}]

\* p's heartbeat has neither failed nor returned, and is not overdue by more than Lag.
Healthy(p) == due[p] # Stopped /\ now <= due[p] + Lag

\* MILESTONE-02: "an active lease prevents a second runner".  Two processes execute
\* the task at the same time only when the heartbeat of one of them was lost (raised,
\* or found the lease gone) or is late: _run never learns that its lease has lapsed.
NoOverlap == \A p, q \in working : p # q => ~Healthy(p) \/ ~Healthy(q)

\* Only its owner may give up a lease that has not run out on any clock: neither
\* the late release of a process that lost it nor a second acquirer takes it.
UnexpiredLeaseKept ==
    [][\A p \in Procs : owner = p /\ expires >= now + MaxSkew /\ owner' # p
                        => p \in working /\ p \notin working']_vars

=============================================================================
