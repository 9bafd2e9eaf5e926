-------------------------- MODULE TaskLeaseProofs --------------------------
(***************************************************************************)
(* Two runners overlap only if a heartbeat is lost or late, for every set  *)
(* of processes, clock skew, TTL, beat, lag and latency that satisfy       *)
(* TimeAssumption.                                                         *)
(***************************************************************************)
EXTENDS TaskLease, TLAPS

\* A working process with a healthy heartbeat owns the lease, and the lease lasts at
\* least until that heartbeat may be as late as a healthy one can be.
Renewed ==
    \A p \in working :
        Healthy(p) =>
        /\ owner = p
        /\ expires >= due[p] - Beat - Latency + Skew[p] + TTL

IInv == TypeOK /\ Renewed

LEMMA InitIInv == Init => IInv
BY TimeAssumption DEF Init, IInv, TypeOK, Renewed, Stopped

\* The lease of a working process whose heartbeat is healthy has not run out on any
\* other clock.
LEMMA Unexpired ==
    ASSUME IInv, NEW p \in working, Healthy(p), NEW q \in Procs
    PROVE  owner = p /\ expires >= Clock(q)
<1>1. Skew[p] \in 0..MaxSkew /\ Skew[q] \in 0..MaxSkew
  BY SkewAssumption DEF IInv, TypeOK
<1>2. due[p] \in Nat /\ now <= due[p] + Lag /\ now \in Nat /\ expires \in Int
  BY DEF IInv, TypeOK, Healthy
<1>3. owner = p /\ expires >= due[p] - Beat - Latency + Skew[p] + TTL
  BY DEF IInv, Renewed
<1> QED
  BY <1>1, <1>2, <1>3, TimeAssumption, SkewAssumption DEF Clock

LEMMA NextIInv ==
    ASSUME IInv, [Next]_vars
    PROVE  IInv'
<1> USE TimeAssumption, SkewAssumption
<1>1. ASSUME NEW p \in Procs, AcquireLease(p) PROVE IInv'
  <2>1. PICK late \in 0..Latency : /\ owner = Nobody \/ expires < Clock(p) - late
                                   /\ expires' = Clock(p) - late + TTL
    BY <1>1 DEF AcquireLease
  <2>2. Skew[p] \in Nat /\ now \in Nat /\ expires \in Int /\ late \in Nat
    BY DEF IInv, TypeOK
  \* No healthy process is working: it would own an unexpired lease.
  <2>3. \A q \in working : ~Healthy(q)
    <3> SUFFICES ASSUME NEW q \in working, Healthy(q) PROVE FALSE
      OBVIOUS
    <3>1. expires >= Clock(p) /\ owner = q /\ q \in Procs
      BY Unexpired DEF IInv, TypeOK
    <3>2. CASE owner = Nobody
      BY <3>1, <3>2, NobodyAssumption
    <3>3. CASE expires < Clock(p) - late
      BY <2>2, <3>1, <3>3 DEF Clock
    <3> QED BY <2>1, <3>2, <3>3
  <2>4. /\ p \notin working /\ working' = working \cup {p}
        /\ due' = [due EXCEPT ![p] = now + Beat] /\ owner' = p /\ now' = now
    BY <1>1 DEF AcquireLease
  <2>5. TypeOK'
    BY <2>1, <2>2, <2>4 DEF IInv, TypeOK, Clock
  <2>6. \A q \in working : ~Healthy(q)'
    BY <2>3, <2>4 DEF Healthy, IInv, TypeOK
  <2>7. expires' = due'[p] - Beat - late + Skew[p] + TTL
    BY <2>1, <2>2, <2>4 DEF IInv, TypeOK, Clock
  <2>8. Renewed'
    BY <2>2, <2>4, <2>6, <2>7 DEF IInv, TypeOK, Renewed
  <2> QED BY <2>5, <2>8 DEF IInv
<1>2. ASSUME NEW p \in Procs, RenewLease(p), owner = p PROVE IInv'
  <2>1. PICK late \in 0..Latency : expires' = Clock(p) - late + TTL
    BY <1>2 DEF RenewLease
  <2>2. Skew[p] \in Nat /\ now \in Nat /\ late \in Nat
    BY DEF IInv, TypeOK
  <2>3. due' = [due EXCEPT ![p] = now + Beat] /\ UNCHANGED <<now, owner, working>>
    BY <1>2 DEF RenewLease
  \* Any other healthy process would be the owner.
  <2>4. \A q \in working : Healthy(q)' /\ q # p => FALSE
    BY <1>2, <2>3 DEF IInv, TypeOK, Renewed, Healthy
  <2>5. TypeOK'
    BY <2>1, <2>2, <2>3 DEF IInv, TypeOK, Clock
  <2>6. expires' = due'[p] - Beat - late + Skew[p] + TTL
    BY <2>1, <2>2, <2>3 DEF IInv, TypeOK, Clock
  <2>7. Renewed'
    BY <1>2, <2>2, <2>3, <2>4, <2>6 DEF IInv, TypeOK, Renewed
  <2> QED BY <2>5, <2>7 DEF IInv
\* The process stops renewing, or stops working: it is no longer healthy.
<1>3. ASSUME NEW p \in Procs,
             \/ (RenewLease(p) /\ owner # p) \/ HeartbeatFails(p)
             \/ ReleaseLease(p) \/ Crash(p)
      PROVE  IInv'
  <2>1. /\ due' = [due EXCEPT ![p] = Stopped] /\ now' = now /\ expires' = expires
        /\ working' \subseteq working
        /\ owner' = owner \/ (owner = p /\ owner' = Nobody /\ working' = working \ {p})
    BY <1>3 DEF RenewLease, HeartbeatFails, ReleaseLease, Crash
  <2>2. TypeOK'
    BY <2>1 DEF IInv, TypeOK
  <2>3. \A q \in working' : Healthy(q)' => Healthy(q) /\ q # p
    BY <2>1 DEF IInv, TypeOK, Healthy
  <2>4. \A q \in working' : Healthy(q)' => owner' = q /\ due'[q] = due[q]
    BY <2>1, <2>3 DEF IInv, TypeOK, Renewed
  <2>5. Renewed'
    BY <2>1, <2>3, <2>4 DEF IInv, Renewed
  <2> QED BY <2>2, <2>5 DEF IInv
<1>4. CASE Tick
  <2>1. /\ now' = now + 1 /\ now' \in 0..MaxTime
        /\ UNCHANGED <<owner, expires, working, due>>
    BY <1>4 DEF Tick, IInv, TypeOK
  <2>2. \A q \in working : Healthy(q)' => Healthy(q)
    BY <2>1 DEF IInv, TypeOK, Healthy
  <2> QED BY <2>1, <2>2 DEF IInv, TypeOK, Renewed
<1>5. CASE UNCHANGED vars
  BY <1>5 DEF vars, IInv, TypeOK, Renewed, Healthy
<1> QED
  BY <1>1, <1>2, <1>3, <1>4, <1>5 DEF Next

\* Every variable keeps its type, for every set of processes and every timing.
THEOREM TypeCorrect == Spec => []TypeOK
<1>1. IInv => TypeOK
  BY DEF IInv
<1> QED
  BY InitIInv, NextIInv, <1>1, PTL DEF Spec

\* The lease keeps a second runner out while the holder's heartbeat is healthy.
THEOREM LeaseExcludes == Spec => []NoOverlap
<1>1. IInv => NoOverlap
  BY DEF IInv, Renewed, NoOverlap
<1> QED
  BY InitIInv, NextIInv, <1>1, PTL DEF Spec

\* Only its owner gives up a lease that has not run out on any clock.
THEOREM LeaseIsKept == Spec => UnexpiredLeaseKept
<1>1. TypeOK /\ [Next]_vars
      => [\A p \in Procs : owner = p /\ expires >= now + MaxSkew /\ owner' # p
                           => p \in working /\ p \notin working']_vars
  <2> SUFFICES ASSUME TypeOK, Next, NEW p \in Procs,
                      owner = p, expires >= now + MaxSkew, owner' # p
               PROVE  p \in working /\ p \notin working'
    OBVIOUS
  <2>1. PICK q \in Procs : AcquireLease(q) \/ ReleaseLease(q)
    BY DEF Next, RenewLease, HeartbeatFails, Crash, Tick
  <2>2. ~AcquireLease(q)
    <3> SUFFICES ASSUME AcquireLease(q) PROVE FALSE
      OBVIOUS
    <3>1. Skew[q] <= MaxSkew /\ Skew[q] \in Nat /\ MaxSkew \in Nat /\ now \in Nat /\ expires \in Int
      BY SkewAssumption DEF TypeOK
    <3>2. PICK late \in 0..Latency : expires < Clock(q) - late
      BY NobodyAssumption DEF AcquireLease
    <3> QED BY <3>1, <3>2, TimeAssumption DEF Clock
  <2> QED BY <2>1, <2>2 DEF ReleaseLease
<1>2. IInv => TypeOK
  BY DEF IInv
<1> QED
  BY InitIInv, NextIInv, <1>1, <1>2, PTL DEF Spec, UnexpiredLeaseKept

=============================================================================
