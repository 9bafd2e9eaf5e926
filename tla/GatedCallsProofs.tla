--------------------------- MODULE GatedCallsProofs ---------------------------
(***************************************************************************)
(* Proofs about GatedCalls, for any calls and any number of orders.        *)
(*                                                                         *)
(* GateTypeOK is inductive: the lock has the holder its calls say, and the *)
(* queue holds exactly the calls that wait.  With it, every step of the    *)
(* gate is a step of EffectGate or changes nothing EffectGate speaks of.   *)
(***************************************************************************)
EXTENDS GatedCalls, SequenceTheorems, TLAPS

\* A call that is in the queue at most once is taken out of it, and nobody else is.
LEMMA RemovedIsGone ==
    ASSUME NEW s \in Seq(Calls), IsInjective(s), NEW c
    PROVE  /\ RemoveFirst(s, c) \in Seq(Calls)
           /\ IsInjective(RemoveFirst(s, c))
           /\ ToSet(RemoveFirst(s, c)) = ToSet(s) \ {c}
<1>1. CASE ~\E i \in 1..Len(s) : s[i] = c
    <2>1. RemoveFirst(s, c) = s
        BY <1>1 DEF RemoveFirst
    <2> QED  BY <1>1, <2>1 DEF ToSet
<1>2. CASE \E i \in 1..Len(s) : s[i] = c
    <2>1. PICK i \in 1..Len(s) : s[i] = c
        BY <1>2
    <2>2. {j \in 1..Len(s) : s[j] = c} = {i}
        BY <2>1 DEF IsInjective
    <2>3. SelectInSeq(s, LAMBDA v : v = c) = Min({i})
        BY <2>2 DEF SelectInSeq
    <2>4. Min({i}) = i
        BY <2>1 DEF Min
    <2> DEFINE r == SubSeq(s, 1, i - 1) \o SubSeq(s, i + 1, Len(s))
    <2>5. RemoveFirst(s, c) = r
        BY <1>2, <2>3, <2>4 DEF RemoveFirst, RemoveAt
    <2>6. /\ r \in Seq(Calls) /\ Len(r) = Len(s) - 1
          /\ \A j \in 1..(Len(s) - 1) : r[j] = IF j < i THEN s[j] ELSE s[j + 1]
        <3> DEFINE u == SubSeq(s, 1, i - 1)
                   v == SubSeq(s, i + 1, Len(s))
        <3>1. \A j \in 1..Len(s) : s[j] \in Calls
            BY ElementOfSeq
        <3>2. Len(s) \in Nat
            BY LenProperties
        <3>3. /\ u \in Seq(Calls) /\ Len(u) = i - 1
              /\ \A j \in 1..(i - 1) : u[j] = s[j]
            <4>1. \A j \in 1..(i - 1) : s[j] \in Calls
                BY <3>1, <3>2, <2>1
            <4>2. /\ u \in Seq(Calls)
                  /\ Len(u) = IF 1 <= i - 1 THEN (i - 1) - 1 + 1 ELSE 0
                  /\ \A j \in 1..((i - 1) - 1 + 1) : u[j] = s[1 + j - 1]
                <5> HIDE DEF u
                <5>1. i - 1 \in Int /\ 1 \in Int
                    BY <2>1
                <5> QED  BY <4>1, <5>1, SubSeqProperties DEF u
            <4> HIDE DEF u
            <4> QED  BY <4>2, <2>1, <3>2
        <3>4. /\ v \in Seq(Calls) /\ Len(v) = Len(s) - i
              /\ \A j \in 1..(Len(s) - i) : v[j] = s[i + j]
            <4>1. \A j \in (i + 1)..Len(s) : s[j] \in Calls
                BY <3>1, <3>2, <2>1
            <4>2. /\ v \in Seq(Calls)
                  /\ Len(v) = IF i + 1 <= Len(s) THEN Len(s) - (i + 1) + 1 ELSE 0
                  /\ \A j \in 1..(Len(s) - (i + 1) + 1) : v[j] = s[(i + 1) + j - 1]
                <5> HIDE DEF v
                <5>1. i + 1 \in Int /\ Len(s) \in Int
                    BY <2>1, <3>2
                <5> QED  BY <4>1, <5>1, SubSeqProperties DEF v
            <4> HIDE DEF v
            <4> QED  BY <4>2, <2>1, <3>2
        <3> HIDE DEF u, v
        <3>5. /\ u \o v \in Seq(Calls) /\ Len(u \o v) = Len(u) + Len(v)
              /\ \A j \in 1..(Len(u) + Len(v)) : (u \o v)[j] = IF j <= Len(u) THEN u[j] ELSE v[j - Len(u)]
            BY <3>3, <3>4, ConcatProperties
        <3>6. \A j \in 1..(Len(s) - 1) : (u \o v)[j] = IF j < i THEN s[j] ELSE s[j + 1]
            <4> SUFFICES ASSUME NEW j \in 1..(Len(s) - 1)
                         PROVE  (u \o v)[j] = IF j < i THEN s[j] ELSE s[j + 1]
                OBVIOUS
            <4>1. CASE j < i
                BY <4>1, <3>5, <3>3, <3>4, <2>1, <3>2
            <4>2. CASE ~(j < i)
                <5>1. j - (i - 1) \in 1..(Len(s) - i) /\ i + (j - (i - 1)) = j + 1
                    BY <4>2, <2>1, <3>2
                <5>2. j \in 1..(Len(u) + Len(v)) /\ ~(j <= Len(u)) /\ Len(u) = i - 1
                    BY <4>2, <3>3, <3>4, <2>1, <3>2
                <5>3. (u \o v)[j] = v[j - (i - 1)]
                    BY <5>2, <3>5
                <5>4. v[j - (i - 1)] = s[i + (j - (i - 1))]
                    BY <5>1, <3>4
                <5> QED  BY <4>2, <5>1, <5>3, <5>4
            <4> QED  BY <4>1, <4>2
        <3>7. r = u \o v
            BY DEF u, v
        <3> HIDE DEF r
        <3>8. Len(u) + Len(v) = Len(s) - 1
            BY <3>2, <3>3, <3>4, <2>1
        <3> QED  BY <3>5, <3>6, <3>7, <3>8
    <2>9. Len(s) \in Nat /\ DOMAIN s = 1..Len(s)
        BY LenProperties
    <2>10. DOMAIN r = 1..(Len(s) - 1)
        BY <2>6, LenProperties
    <2> HIDE DEF r
    <2>7. IsInjective(r)
        <3> SUFFICES ASSUME NEW a \in DOMAIN r, NEW b \in DOMAIN r, r[a] = r[b] PROVE a = b
            BY DEF IsInjective
        <3>1. \A j, k \in 1..Len(s) : s[j] = s[k] => j = k
            BY <2>9 DEF IsInjective
        <3>2. a \in 1..(Len(s) - 1) /\ b \in 1..(Len(s) - 1)
            BY <2>10
        <3>3. (IF a < i THEN a ELSE a + 1) = (IF b < i THEN b ELSE b + 1)
            BY <3>1, <3>2, <2>6, <2>9, <2>1
        <3> QED  BY <3>2, <3>3, <2>1, <2>9
    <2>8. ToSet(r) = ToSet(s) \ {c}
        <3>1. ASSUME NEW x \in ToSet(r) PROVE x \in ToSet(s) \ {c}
            BY <2>1, <2>6, <3>1 DEF ToSet, IsInjective
        <3>2. ASSUME NEW x \in ToSet(s), x # c PROVE x \in ToSet(r)
            <4>1. PICK j \in 1..Len(s) : s[j] = x
                BY <3>2 DEF ToSet
            <4>2. CASE j < i
                BY <4>1, <4>2, <2>1, <2>6 DEF ToSet
            <4>3. CASE j > i
                <5>1. j - 1 \in 1..Len(r) /\ r[j - 1] = x
                    BY <4>1, <4>3, <2>1, <2>6
                <5> QED  BY <5>1 DEF ToSet
            <4> QED  BY <4>1, <4>2, <4>3, <3>2, <2>1
        <3> QED  BY <3>1, <3>2
    <2> QED  BY <2>5, <2>6, <2>7, <2>8
<1> QED  BY <1>1, <1>2

LEMMA HeadLeaves ==
    ASSUME NEW s \in Seq(Calls), IsInjective(s), s # <<>>
    PROVE  /\ Head(s) \in Calls /\ Tail(s) \in Seq(Calls)
           /\ IsInjective(Tail(s))
           /\ ToSet(Tail(s)) = ToSet(s) \ {Head(s)}
<1>1. /\ Head(s) \in Calls /\ Tail(s) \in Seq(Calls) /\ Len(Tail(s)) = Len(s) - 1
      /\ \A i \in 1..Len(Tail(s)) : Tail(s)[i] = s[i + 1]
    BY HeadTailProperties
<1>2. Len(s) \in Nat \ {0} /\ DOMAIN s = 1..Len(s) /\ DOMAIN Tail(s) = 1..(Len(s) - 1) /\ Head(s) = s[1]
    BY <1>1, LenProperties, EmptySeq
<1>3. IsInjective(Tail(s))
    BY <1>1, <1>2 DEF IsInjective
<1>4. ASSUME NEW x \in ToSet(Tail(s)) PROVE x \in ToSet(s) \ {Head(s)}
    <2>1. PICK i \in 1..(Len(s) - 1) : s[i + 1] = x
        BY <1>1, <1>2, <1>4 DEF ToSet
    <2> QED  BY <2>1, <1>2 DEF ToSet, IsInjective
<1>5. ASSUME NEW x \in ToSet(s), x # Head(s) PROVE x \in ToSet(Tail(s))
    <2>1. PICK i \in 1..Len(s) : s[i] = x
        BY <1>2, <1>5 DEF ToSet
    <2>2. i - 1 \in 1..Len(Tail(s)) /\ Tail(s)[i - 1] = x
        BY <2>1, <1>1, <1>2, <1>5
    <2> QED  BY <2>2, <1>2, <1>1 DEF ToSet
<1> QED  BY <1>1, <1>3, <1>4, <1>5

LEMMA AppendedIsThere ==
    ASSUME NEW s \in Seq(Calls), IsInjective(s), NEW c \in Calls, c \notin ToSet(s)
    PROVE  /\ Append(s, c) \in Seq(Calls)
           /\ IsInjective(Append(s, c))
           /\ ToSet(Append(s, c)) = ToSet(s) \cup {c}
<1>1. /\ Append(s, c) \in Seq(Calls) /\ Len(Append(s, c)) = Len(s) + 1
      /\ \A i \in 1..(Len(s) + 1) : Append(s, c)[i] = IF i = Len(s) + 1 THEN c ELSE s[i]
    OBVIOUS
<1>2. Len(s) \in Nat /\ DOMAIN s = 1..Len(s) /\ DOMAIN Append(s, c) = 1..(Len(s) + 1)
    BY <1>1, LenProperties
<1>3. IsInjective(Append(s, c))
    BY <1>1, <1>2 DEF IsInjective, ToSet
<1>4. ToSet(Append(s, c)) = ToSet(s) \cup {c}
    <2>1. ASSUME NEW x \in ToSet(s) PROVE x \in ToSet(Append(s, c))
        <3>1. PICK i \in 1..Len(s) : s[i] = x
            BY <1>2 DEF ToSet
        <3>2. i \in 1..(Len(s) + 1) /\ Append(s, c)[i] = x
            BY <3>1, <1>1, <1>2
        <3> QED  BY <3>2, <1>2 DEF ToSet
    <2>2. c \in ToSet(Append(s, c))
        BY <1>1, <1>2 DEF ToSet
    <2>3. ASSUME NEW x \in ToSet(Append(s, c)) PROVE x \in ToSet(s) \cup {c}
        BY <1>1, <1>2 DEF ToSet
    <2> QED  BY <2>1, <2>2, <2>3
<1> QED  BY <1>1, <1>3, <1>4

-----------------------------------------------------------------------------
\* A call that ends leaves the lock and the queue as they must be.
LEMMA EndKeepsTypes ==
    ASSUME GateTypeOK, NEW c \in Calls, NEW p \in {"done", "refused"}, End(c, p)
    PROVE  GateTypeOK'
<1>1. /\ queue' \in Seq(Calls) /\ IsInjective(queue') /\ ToSet(queue') = ToSet(queue) \ {c}
    BY RemovedIsGone DEF GateTypeOK, End
<1>2. c # None
    BY NoneAssumption
<1>3. /\ at' \in [Calls -> Places] /\ at'[c] = p /\ \A d \in Calls \ {c} : at'[d] = at[d]
    BY DEF GateTypeOK, End, Places
<1>4. holder' \in Calls \cup {None} /\ \A d \in Calls : holder' = d <=> at'[d] \in {"held", "acting"}
    BY <1>2, <1>3, NoneAssumption DEF GateTypeOK, End
<1>5. \A d \in Calls : at'[d] = "waiting" <=> d \in ToSet(queue')
    BY <1>1, <1>3 DEF GateTypeOK
<1>6. doomed' \subseteq {d \in Calls : at'[d] = "acting"}
    BY <1>3 DEF GateTypeOK, End
<1> QED  BY <1>1, <1>3, <1>4, <1>5, <1>6 DEF GateTypeOK, End

LEMMA AdmitKeepsTypes ==
    ASSUME GateTypeOK, NEW c \in Calls, NEW first \in {"held", "acting"}, Admit(c, first)
    PROVE  GateTypeOK'
<1>1. CASE stopped
    BY <1>1, EndKeepsTypes DEF Admit
<1>2. CASE ~stopped /\ Free
    <2>1. \A d \in Calls : at[d] \notin {"held", "acting"}
        BY <1>2, NoneAssumption DEF Free, GateTypeOK
    <2>2. at' \in [Calls -> Places] /\ at'[c] = first /\ \A d \in Calls \ {c} : at'[d] = at[d]
        BY <1>2 DEF Admit, GateTypeOK, Places
    <2>3. holder' = c /\ queue' = queue /\ doomed' = doomed /\ doomed = {}
        BY <1>2, <2>1 DEF Admit, GateTypeOK
    <2>4. \A d \in Calls : at'[d] = "waiting" <=> d \in ToSet(queue')
        BY <1>2, <2>2, <2>3 DEF Admit, GateTypeOK
    <2>5. seen' \in [Calls -> 0..generation'] /\ generation' = generation /\ stopped' = stopped
        BY <1>2, GateAssumption DEF Admit, GateTypeOK
    <2> QED  BY <2>1, <2>2, <2>3, <2>4, <2>5 DEF GateTypeOK
<1>3. CASE ~stopped /\ ~Free
    <2>1. /\ queue' = Append(queue, c) /\ at' = [at EXCEPT ![c] = "waiting"]
          /\ seen' = [seen EXCEPT ![c] = generation]
          /\ UNCHANGED <<holder, stopped, generation, doomed>>
        BY <1>3 DEF Admit
    <2>2. c \notin ToSet(queue)
        BY DEF Admit, GateTypeOK
    <2>3. queue' \in Seq(Calls) /\ IsInjective(queue') /\ ToSet(queue') = ToSet(queue) \cup {c}
        BY <2>1, <2>2, AppendedIsThere DEF GateTypeOK
    <2>4. at' \in [Calls -> Places] /\ at'[c] = "waiting" /\ \A d \in Calls \ {c} : at'[d] = at[d]
        BY <2>1 DEF GateTypeOK, Places
    <2>5. seen' \in [Calls -> 0..generation']
        BY <2>1, GateAssumption DEF GateTypeOK
    <2>6. at[c] = "idle"
        BY DEF Admit
    <2>7. \A d \in Calls : holder' = d <=> at'[d] \in {"held", "acting"}
        BY <2>1, <2>4, <2>6 DEF GateTypeOK
    <2>8. doomed' \subseteq {d \in Calls : at'[d] = "acting"}
        BY <2>1, <2>4, <2>6 DEF GateTypeOK
    <2>9. \A d \in Calls : at'[d] = "waiting" <=> d \in ToSet(queue')
        BY <2>3, <2>4 DEF GateTypeOK
    <2> QED  BY <2>1, <2>3, <2>4, <2>5, <2>7, <2>8, <2>9 DEF GateTypeOK
<1> QED  BY <1>1, <1>2, <1>3

LEMMA EnterKeepsTypes ==
    ASSUME GateTypeOK, NEW c \in Calls, NEW first \in {"held", "acting"}, Enter(c, first)
    PROVE  GateTypeOK'
<1>1. CASE Overtaken(c)
    BY <1>1, EndKeepsTypes DEF Enter
<1>2. CASE ~Overtaken(c)
    <2>1. /\ holder = None /\ queue # <<>> /\ c = Head(queue)
          /\ queue' = Tail(queue) /\ holder' = c /\ at' = [at EXCEPT ![c] = first]
          /\ UNCHANGED <<stopped, generation, seen, doomed>>
        BY <1>2 DEF Enter
    <2>2. queue' \in Seq(Calls) /\ IsInjective(queue') /\ ToSet(queue') = ToSet(queue) \ {c}
        BY <2>1, HeadLeaves DEF GateTypeOK
    <2>3. \A d \in Calls : at[d] \notin {"held", "acting"}
        BY <2>1, NoneAssumption DEF GateTypeOK
    <2>4. at' \in [Calls -> Places] /\ at'[c] = first /\ \A d \in Calls \ {c} : at'[d] = at[d]
        BY <2>1 DEF GateTypeOK, Places
    <2>5. doomed' = {}
        BY <2>1, <2>3 DEF GateTypeOK
    <2>6. \A d \in Calls : at'[d] = "waiting" <=> d \in ToSet(queue')
        BY <2>2, <2>4 DEF GateTypeOK
    <2>7. \A d \in Calls : holder' = d <=> at'[d] \in {"held", "acting"}
        BY <2>1, <2>3, <2>4
    <2> QED  BY <2>1, <2>2, <2>4, <2>5, <2>6, <2>7 DEF GateTypeOK
<1> QED  BY <1>1, <1>2

LEMMA OrdersKeepTypes ==
    ASSUME GateTypeOK, Stop \/ Resume
    PROVE  GateTypeOK'
<1>1. generation' \in 0..MaxOrders /\ seen' \in [Calls -> 0..generation']
    BY GateAssumption DEF GateTypeOK, Stop, Resume
<1> QED  BY <1>1 DEF GateTypeOK, Stop, Resume

LEMMA GateTypesStep ==
    ASSUME GateTypeOK, [GateNext]_gate
    PROVE  GateTypeOK'
<1>1. CASE Stop \/ Resume
    BY <1>1, OrdersKeepTypes
<1>2. ASSUME NEW c \in Calls, NEW first \in {"held", "acting"}, Admit(c, first) \/ Enter(c, first)
      PROVE  GateTypeOK'
    BY <1>2, AdmitKeepsTypes, EnterKeepsTypes
<1>3. ASSUME NEW c \in Calls, NEW ok \in BOOLEAN, Return(c, ok)
      PROVE  GateTypeOK'
    BY <1>3, EndKeepsTypes DEF Return
<1>4. ASSUME NEW c \in Calls, Dispatch(c)
      PROVE  GateTypeOK'
    <2>1. /\ at' \in [Calls -> Places] /\ at'[c] = "acting" /\ \A d \in Calls \ {c} : at'[d] = at[d]
          /\ at[c] = "held"
        BY <1>4 DEF Dispatch, GateTypeOK, Places
    <2> QED  BY <1>4, <2>1 DEF Dispatch, GateTypeOK
<1>5. ASSUME NEW c \in Calls, Refuse(c) \/ Unwind(c) \/ Abandon(c)
      PROVE  GateTypeOK'
    BY <1>5, EndKeepsTypes DEF Refuse, Unwind, Abandon
<1>6. CASE UNCHANGED gate
    BY <1>6 DEF gate, GateTypeOK
<1> QED  BY <1>1, <1>2, <1>3, <1>4, <1>5, <1>6 DEF GateNext

LEMMA GateTypesInit ==
    ASSUME GateInit
    PROVE  GateTypeOK
<1>1. /\ IsInjective(<<>>) /\ ToSet(<<>>) = {} /\ <<>> \in Seq(Calls)
    BY EmptySeq DEF IsInjective, ToSet
<1>2. at \in [Calls -> Places] /\ \A c \in Calls : at[c] = "idle"
    BY DEF GateInit, Places
<1>3. generation \in 0..MaxOrders /\ seen \in [Calls -> 0..generation]
    BY GateAssumption DEF GateInit
<1>4. \A c \in Calls : holder # c
    BY NoneAssumption DEF GateInit
<1> QED  BY <1>1, <1>2, <1>3, <1>4 DEF GateInit, GateTypeOK

\* The gate's variables stay in their types, in every behaviour: the lock has the holder
\* that the calls say, and exactly the calls that wait are in the queue, each once.
THEOREM GateTypesHold == GateSpec => []GateTypeOK
<1>1. GateInit => GateTypeOK
    BY GateTypesInit
<1>2. GateTypeOK /\ [GateNext]_gate => GateTypeOK'
    BY GateTypesStep
<1> QED  BY <1>1, <1>2, PTL DEF GateSpec

-----------------------------------------------------------------------------
\* The refinement.  Barred are the calls under way that an order has overtaken.
LEMMA EndImplements ==
    ASSUME GateTypeOK, NEW c \in Calls, End(c, "refused"), at[c] \in {"idle", "waiting", "held", "acting"}
    PROVE  Promise!Refuse(c)
<1>1. at' \in [Calls -> Places] /\ at'[c] = "refused" /\ \A d \in Calls \ {c} : at'[d] = at[d]
    BY DEF GateTypeOK, End, Places
<1>2. Phase' = [Phase EXCEPT ![c] = "refused"]
    BY <1>1 DEF Phase
<1>3. Barred' = Barred \ {c}
    BY <1>1 DEF Barred, End
<1>4. Phase[c] \in {"idle", "admitted", "acting"}
    BY DEF Phase
<1> QED  BY <1>2, <1>3, <1>4 DEF Promise!Refuse, Promise!Become, End

LEMMA OrderImplements ==
    ASSUME GateTypeOK, Stop \/ Resume
    PROVE  Promise!Order
<1>1. Phase' = Phase
    BY DEF Phase, Stop, Resume
<1>2. \A c \in Calls : seen'[c] # generation'
    BY GateAssumption DEF GateTypeOK, Stop, Resume
<1>3. Promise!Live = {c \in Calls : at[c] \in {"waiting", "held", "acting"}}
    BY DEF Promise!Live, Phase, GateTypeOK, Places
<1>4. Barred' = Promise!Live
    BY <1>2, <1>3 DEF Barred, Stop, Resume
<1> QED  BY <1>1, <1>4 DEF Promise!Order, Stop, Resume

LEMMA AdmitImplements ==
    ASSUME GateTypeOK, NEW c \in Calls, NEW first \in {"held", "acting"}, Admit(c, first)
    PROVE  Promise!Next
<1>1. CASE stopped
    <2>1. Promise!Refuse(c)
        BY <1>1, EndImplements DEF Admit
    <2> QED  BY <2>1 DEF Promise!Next
<1>2. CASE ~stopped
    <2> DEFINE place == IF Free THEN first ELSE "waiting"
    <2>1. /\ at[c] = "idle" /\ place \in {"waiting", "held", "acting"}
          /\ at' = [at EXCEPT ![c] = place] /\ seen' = [seen EXCEPT ![c] = generation]
          /\ UNCHANGED <<stopped, generation>>
        BY <1>2 DEF Admit
    <2>2. at'[c] = place /\ (\A d \in Calls \ {c} : at'[d] = at[d]) /\ at \in [Calls -> Places]
        BY <2>1 DEF GateTypeOK
    <2>3. seen'[c] = generation /\ \A d \in Calls \ {c} : seen'[d] = seen[d]
        BY <2>1 DEF GateTypeOK
    <2>4. Barred' = Barred /\ c \notin Barred
        BY <2>1, <2>2, <2>3 DEF Barred
    <2>5. CASE place = "acting"
        <3>1. \A d \in Calls : at[d] # "acting"
            BY <2>5, NoneAssumption DEF Free, GateTypeOK
        <3>2. Phase' = [Phase EXCEPT ![c] = "acting"] /\ Phase[c] = "idle" /\ \A d \in Calls : Phase[d] # "acting"
            BY <3>1, <2>1, <2>2, <2>5 DEF Phase
        <3>3. Promise!Begin(c)
            BY <1>2, <2>1, <2>4, <3>2 DEF Promise!Begin, Promise!Become
        <3> QED  BY <3>3 DEF Promise!Next
    <2>6. CASE place # "acting"
        <3>1. Phase' = [Phase EXCEPT ![c] = "admitted"] /\ Phase[c] = "idle"
            BY <2>1, <2>2, <2>6 DEF Phase
        <3>2. Promise!Admit(c)
            BY <1>2, <2>1, <2>4, <3>1 DEF Promise!Admit, Promise!Become
        <3> QED  BY <3>2 DEF Promise!Next
    <2> QED  BY <2>5, <2>6
<1> QED  BY <1>1, <1>2

\* A waiter that is let through begins; if it has a check to make first, nothing has
\* happened yet that the promise speaks of.
LEMMA ProceedImplements ==
    ASSUME GateTypeOK, NEW c \in Calls, NEW place \in {"held", "acting"},
           at[c] \in {"waiting", "held"}, ~Overtaken(c),
           \A d \in Calls \ {c} : at[d] # "acting",
           at' = [at EXCEPT ![c] = place], UNCHANGED <<stopped, generation, seen>>
    PROVE  Promise!Begin(c) \/ UNCHANGED Promise!vars
<1>1. at'[c] = place /\ (\A d \in Calls \ {c} : at'[d] = at[d]) /\ at \in [Calls -> Places]
    BY DEF GateTypeOK
<1>2. Barred' = Barred /\ c \notin Barred
    BY <1>1 DEF Barred, Overtaken
<1>3. CASE place = "held"
    <2>1. Phase' = Phase
        BY <1>1, <1>3 DEF Phase
    <2> QED  BY <2>1, <1>2 DEF Promise!vars
<1>4. CASE place = "acting"
    <2>1. Phase' = [Phase EXCEPT ![c] = "acting"] /\ Phase[c] = "admitted" /\ \A d \in Calls : Phase[d] # "acting"
        BY <1>1, <1>4 DEF Phase
    <2> QED  BY <2>1, <1>2 DEF Promise!Begin, Promise!Become, Overtaken
<1> QED  BY <1>3, <1>4

LEMMA EnterImplements ==
    ASSUME GateTypeOK, NEW c \in Calls, NEW first \in {"held", "acting"}, Enter(c, first)
    PROVE  [Promise!Next]_(Promise!vars)
<1>1. at[c] = "waiting" /\ \A d \in Calls : at[d] # "acting"
    <2>1. c \in ToSet(queue)
        BY HeadTailProperties, LenProperties, EmptySeq DEF Enter, GateTypeOK, ToSet
    <2> QED  BY <2>1, NoneAssumption DEF Enter, GateTypeOK
<1>2. CASE Overtaken(c)
    <2>1. Promise!Refuse(c)
        BY <1>1, <1>2, EndImplements DEF Enter
    <2> QED  BY <2>1 DEF Promise!Next
<1>3. CASE ~Overtaken(c)
    <2>1. Promise!Begin(c) \/ UNCHANGED Promise!vars
        BY <1>1, <1>3, ProceedImplements DEF Enter
    <2> QED  BY <2>1 DEF Promise!Next
<1> QED  BY <1>2, <1>3

LEMMA DispatchImplements ==
    ASSUME GateTypeOK, NEW c \in Calls, Dispatch(c)
    PROVE  [Promise!Next]_(Promise!vars)
<1>1. \A d \in Calls \ {c} : at[d] # "acting"
    BY DEF Dispatch, GateTypeOK
<1>2. Promise!Begin(c) \/ UNCHANGED Promise!vars
    BY <1>1, ProceedImplements DEF Dispatch
<1> QED  BY <1>2 DEF Promise!Next

\* A result that counts is one that no order has overtaken.
LEMMA ReturnImplements ==
    ASSUME GateTypeOK, NEW c \in Calls, NEW ok \in BOOLEAN, Return(c, ok)
    PROVE  Promise!Next
<1>1. CASE ok /\ ~Overtaken(c)
    <2>1. at' = [at EXCEPT ![c] = "done"] /\ at[c] = "acting" /\ UNCHANGED <<stopped, generation, seen>>
        BY <1>1 DEF Return, End
    <2>2. at'[c] = "done" /\ (\A d \in Calls \ {c} : at'[d] = at[d]) /\ at \in [Calls -> Places]
        BY <2>1 DEF GateTypeOK
    <2>3. Phase' = [Phase EXCEPT ![c] = "done"] /\ Phase[c] = "acting"
        BY <2>1, <2>2 DEF Phase
    <2>4. Barred' = Barred \ {c} /\ c \notin Barred
        BY <1>1, <2>1, <2>2 DEF Barred, Overtaken
    <2>5. Promise!Finish(c)
        BY <2>1, <2>3, <2>4 DEF Promise!Finish, Promise!Become
    <2> QED  BY <2>5 DEF Promise!Next
<1>2. CASE ~(ok /\ ~Overtaken(c))
    <2>1. Promise!Refuse(c)
        BY <1>2, EndImplements DEF Return
    <2> QED  BY <2>1 DEF Promise!Next
<1> QED  BY <1>1, <1>2

LEMMA GateStepImplements ==
    ASSUME GateTypeOK, [GateNext]_gate
    PROVE  [Promise!Next]_(Promise!vars)
<1>1. CASE Stop \/ Resume
    BY <1>1, OrderImplements DEF Promise!Next
<1>2. ASSUME NEW c \in Calls, NEW first \in {"held", "acting"}, Admit(c, first) \/ Enter(c, first)
      PROVE  [Promise!Next]_(Promise!vars)
    BY <1>2, AdmitImplements, EnterImplements
<1>3. ASSUME NEW c \in Calls, NEW ok \in BOOLEAN, Return(c, ok)
      PROVE  [Promise!Next]_(Promise!vars)
    BY <1>3, ReturnImplements
<1>4. ASSUME NEW c \in Calls, Dispatch(c)
      PROVE  [Promise!Next]_(Promise!vars)
    BY <1>4, DispatchImplements
<1>5. ASSUME NEW c \in Calls, Refuse(c) \/ Unwind(c) \/ Abandon(c)
      PROVE  [Promise!Next]_(Promise!vars)
    <2>1. at[c] \in {"idle", "waiting", "held", "acting"} /\ End(c, "refused")
        BY <1>5 DEF Refuse, Unwind, Abandon, GateTypeOK
    <2>2. Promise!Refuse(c)
        BY <2>1, EndImplements
    <2> QED  BY <2>2 DEF Promise!Next
<1>6. CASE UNCHANGED gate
    BY <1>6 DEF gate, Phase, Barred, Promise!vars
<1> QED  BY <1>1, <1>2, <1>3, <1>4, <1>5, <1>6 DEF GateNext

LEMMA GateInitImplements ==
    ASSUME GateInit
    PROVE  Promise!Init
BY DEF GateInit, Promise!Init, Phase, Barred

\* The gate implements its promise, for any calls and any number of stops and resumes: one
\* call acts at a time, none begins or reports success across an order, none is replayed.
THEOREM GateKeepsItsPromise == GateSpec => GateKept
<1>1. GateInit => Promise!Init
    BY GateInitImplements
<1>2. GateTypeOK /\ [GateNext]_gate => [Promise!Next]_(Promise!vars)
    BY GateStepImplements
<1>3. GateSpec => []GateTypeOK
    BY GateTypesHold
<1> QED  BY <1>1, <1>2, <1>3, PTL DEF GateSpec, GateKept, Promise!Spec

=============================================================================
