--------------------------- MODULE PlatformProofs ---------------------------
(***************************************************************************)
(* Proofs about the parts of the Platform, each from an invariant of its   *)
(* own, and what follows for the platform as a whole.                      *)
(***************************************************************************)
EXTENDS Platform, ServicesProofs

-----------------------------------------------------------------------------
(***************************************************************************)
(* Credentials.  Identifiers are issued in order, so that one that is new  *)
(* is none of those in use.                                                *)
(***************************************************************************)
TokensOf == [access : Nat, refresh : Nat, expires : Nat]

CredentialTypes ==
    /\ now \in 0..MaxNow /\ issued \in 0..MaxIssued /\ ClientIds \subseteq 1..issued
    /\ DOMAIN vault \subseteq 1..issued
    /\ DOMAIN states \subseteq 1..issued \ ClientIds
    /\ granted \in Seq(Nat) /\ \A n \in DOMAIN granted : granted[n] \in 1..issued
    /\ tokens \in [OAuthProviders -> TokensOf]

TokensApart ==
    /\ \A p \in OAuthProviders : tokens[p] # NoToken =>
         tokens[p].access \in 1..issued /\ tokens[p].refresh = tokens[p].access + 1
    /\ \A p, q \in OAuthProviders :
         p # q /\ tokens[p] # NoToken /\ tokens[q] # NoToken => tokens[p].access # tokens[q].access

GrantedOnce ==
    /\ \A m, n \in DOMAIN granted : granted[m] = granted[n] => m = n
    /\ \A n \in DOMAIN granted : granted[n] \notin DOMAIN states

CredentialInv == CredentialTypes /\ TokensApart /\ GrantedOnce

LEMMA PutAndDrop ==
    /\ \A f, k, v : DOMAIN Put(f, k, v) = DOMAIN f \cup {k}
    /\ \A f, K : DOMAIN Drop(f, K) = DOMAIN f \ K
BY DEF Put, Drop

\* Nothing of the tokens and the grants changes.
LEMMA GrantsRest ==
    ASSUME CredentialInv, UNCHANGED <<tokens, granted>>, CredentialTypes', issued <= issued',
           DOMAIN states' \subseteq DOMAIN states \cup {issued + 1}
    PROVE  CredentialInv'
<1>1. issued \in Nat /\ issued' \in Nat /\ \A p \in OAuthProviders : tokens[p].access \in Nat
    BY DEF CredentialInv, CredentialTypes, TokensOf, CredentialsAssumption
<1>2. TokensApart'
    BY <1>1 DEF CredentialInv, TokensApart
<1>3. \A n \in DOMAIN granted : granted[n] # issued + 1
    BY <1>1 DEF CredentialInv, CredentialTypes
<1>4. GrantedOnce'
    BY <1>3 DEF CredentialInv, GrantedOnce
<1> QED  BY <1>2, <1>4 DEF CredentialInv

LEMMA CredentialsStep ==
    ASSUME CredentialInv, [CredentialsNext]_credentialVars
    PROVE  CredentialInv'
<1>0. /\ CredentialTypes /\ issued \in Nat /\ now \in Nat /\ MaxIssued \in Nat /\ MaxNow \in Nat
      /\ StateLife \in Nat /\ TokenLife \in Nat /\ MaxSecret <= MaxIssued /\ Forever \in Nat
    BY CredentialsAssumption DEF CredentialInv, CredentialTypes, Forever
<1>1. ASSUME NEW p \in OAuthProviders, StartAuthorization(p)
      PROVE  CredentialInv'
    <2>1. issued' = issued + 1 /\ issued < MaxIssued /\ UNCHANGED <<now, vault, tokens, granted>>
        BY <1>1 DEF StartAuthorization
    <2>2. DOMAIN states' = DOMAIN states \cup {issued + 1}
        BY <1>1, <2>1, PutAndDrop DEF StartAuthorization
    <2>3. CredentialTypes'
        BY <1>0, <2>1, <2>2 DEF CredentialTypes
    <2> QED  BY <1>0, <2>1, <2>2, <2>3, GrantsRest
<1>2. ASSUME NEW p \in OAuthProviders, RevokeToken(p)
      PROVE  CredentialInv'
    <2>1. /\ UNCHANGED <<now, issued, states, granted>> /\ tokens' = [tokens EXCEPT ![p] = NoToken]
          /\ DOMAIN vault' \subseteq DOMAIN vault
        <3>1. \A K : DOMAIN Drop(vault, K) = DOMAIN vault \ K
            BY PutAndDrop
        <3>2. vault' = Drop(vault, {tokens[p].access, tokens[p].refresh})
            BY <1>2 DEF RevokeToken
        <3>3. DOMAIN vault' \subseteq DOMAIN vault
            BY <3>1, <3>2
        <3> QED  BY <1>2, <3>3 DEF RevokeToken
    <2>0. NoToken \in TokensOf
        BY DEF NoToken, TokensOf
    <2>2. CredentialTypes'
        BY <1>0, <2>0, <2>1 DEF CredentialTypes
    <2>3. \A q \in OAuthProviders : tokens'[q] = tokens[q] \/ tokens'[q] = NoToken
        BY <1>0, <2>1 DEF CredentialTypes
    <2>4. TokensApart'
        BY <2>1, <2>3 DEF CredentialInv, TokensApart
    <2>5. GrantedOnce'
        BY <2>1 DEF CredentialInv, GrantedOnce
    <2> QED  BY <2>2, <2>4, <2>5 DEF CredentialInv
<1>3. ASSUME NEW p \in OAuthProviders, NEW s \in DOMAIN states, ExchangeCode(p, s)
      PROVE  CredentialInv'
    <2>1. DOMAIN states' = DOMAIN states \ {s} /\ UNCHANGED now /\ issued + 2 <= MaxIssued
        BY <1>3, PutAndDrop DEF ExchangeCode, Consume
    <2>2. CASE UNCHANGED <<issued, vault, tokens, granted>>
        <3>1. CredentialTypes' /\ issued <= issued'
            BY <1>0, <2>1, <2>2 DEF CredentialTypes
        <3> QED  BY <2>1, <2>2, <3>1, GrantsRest
    <2>3. CASE ~UNCHANGED <<issued, vault, tokens, granted>>
        <3> DEFINE new == [access |-> issued + 1, refresh |-> issued + 2, expires |-> now + TokenLife]
        <3>1. /\ issued' = issued + 2 /\ tokens' = [tokens EXCEPT ![p] = new]
              /\ vault' = Put(Put(vault, issued + 1, now + TokenLife), issued + 2, Forever)
              /\ granted' = Append(granted, s)
            BY <1>3, <2>3 DEF ExchangeCode
        <3>0. DOMAIN vault' = DOMAIN vault \cup {issued + 1, issued + 2}
            <4>1. DOMAIN Put(vault, issued + 1, now + TokenLife) = DOMAIN vault \cup {issued + 1}
                BY PutAndDrop
            <4>2. DOMAIN vault' = DOMAIN Put(vault, issued + 1, now + TokenLife) \cup {issued + 2}
                BY <3>1, PutAndDrop
            <4> QED  BY <4>1, <4>2
        <3>2. new \in TokensOf /\ new.access = issued + 1 /\ new.refresh = issued + 2
            BY <1>0 DEF TokensOf
        <3> HIDE DEF new
        <3>3. s \in 1..issued
            BY <1>0 DEF CredentialTypes
        <3>4. /\ granted' \in Seq(Nat) /\ DOMAIN granted' = DOMAIN granted \cup {Len(granted) + 1}
              /\ Len(granted) + 1 \notin DOMAIN granted
              /\ granted'[Len(granted) + 1] = s /\ \A n \in DOMAIN granted : granted'[n] = granted[n]
            <4>1. granted \in Seq(Nat) /\ s \in Nat
                BY <1>0, <3>3 DEF CredentialTypes
            <4> QED  BY <3>1, <4>1
        <3>5. CredentialTypes'
            <4>1. \A n \in DOMAIN granted' : granted'[n] \in 1..issued'
                BY <1>0, <3>1, <3>3, <3>4 DEF CredentialTypes
            <4>2. issued' \in 0..MaxIssued /\ 1..issued \subseteq 1..issued' /\ {issued + 1, issued + 2} \subseteq 1..issued'
                BY <1>0, <2>1, <3>1
            <4>3. tokens' \in [OAuthProviders -> TokensOf]
                BY <1>0, <3>1, <3>2 DEF CredentialTypes
            <4> QED  BY <1>0, <2>1, <3>0, <3>4, <4>1, <4>2, <4>3 DEF CredentialTypes
        <3>6. tokens'[p] = new /\ \A q \in OAuthProviders \ {p} : tokens'[q] = tokens[q]
            BY <1>0, <3>1 DEF CredentialTypes
        <3>7. TokensApart'
            <4>1. \A q \in OAuthProviders : tokens[q] # NoToken => tokens[q].access \in 1..issued
                BY DEF CredentialInv, TokensApart
            <4> QED  BY <1>0, <3>1, <3>2, <3>6, <4>1 DEF CredentialInv, TokensApart
        <3>8. GrantedOnce'
            BY <2>1, <3>4 DEF CredentialInv, GrantedOnce
        <3> QED  BY <3>5, <3>7, <3>8 DEF CredentialInv
    <2> QED  BY <2>2, <2>3
<1>4. ASSUME NEW c \in DOMAIN vault, RevokeSecret(c)
      PROVE  CredentialInv'
    <2>1. UNCHANGED <<now, issued, states, tokens, granted>> /\ DOMAIN vault' \subseteq DOMAIN vault
        <3>1. DOMAIN Drop(vault, {c}) = DOMAIN vault \ {c}
            BY PutAndDrop
        <3> QED  BY <1>4, <3>1 DEF RevokeSecret
    <2>2. CredentialTypes' /\ issued <= issued'
        BY <1>0, <2>1 DEF CredentialTypes
    <2> QED  BY <2>1, <2>2, GrantsRest
<1>5. ASSUME RegisterSecret(now + TokenLife)
      PROVE  CredentialInv'
    <2>1. /\ issued' = issued + 1 /\ issued < MaxIssued /\ UNCHANGED <<now, states, tokens, granted>>
        BY <1>0, <1>5, CredentialsAssumption DEF RegisterSecret
    <2>2. DOMAIN vault' = DOMAIN vault \cup {issued + 1}
        BY <1>5, <2>1, PutAndDrop DEF RegisterSecret
    <2>3. CredentialTypes'
        BY <1>0, <2>1, <2>2 DEF CredentialTypes
    <2> QED  BY <1>0, <2>1, <2>3, GrantsRest
<1>6. CASE Minute \/ UNCHANGED credentialVars
    <2>1. UNCHANGED <<issued, vault, states, tokens, granted>> /\ now' \in 0..MaxNow
        BY <1>0, <1>6 DEF Minute, credentialVars, CredentialTypes
    <2>2. CredentialTypes' /\ issued <= issued'
        BY <1>0, <2>1 DEF CredentialTypes
    <2> QED  BY <2>1, <2>2, GrantsRest
<1> QED  BY <1>1, <1>2, <1>3, <1>4, <1>5, <1>6 DEF CredentialsNext

LEMMA CredentialsHold == CredentialsSpec => []CredentialInv
<1>1. CredentialsInit => CredentialInv
    <2> SUFFICES ASSUME CredentialsInit PROVE CredentialInv
        OBVIOUS
    <2>1. PICK n \in 0..MaxIssued : ClientIds = 1..n
        BY CredentialsAssumption
    <2>2. issued = n
        <3>1. n \in Nat /\ Cardinality(1..n) = n
            BY <2>1, CredentialsAssumption, FS_Interval
        <3> QED  BY <2>1, <3>1 DEF CredentialsInit
    <2>3. DOMAIN vault = ClientIds /\ DOMAIN states = {} /\ granted \in Seq(Nat) /\ DOMAIN granted = {}
        BY DEF CredentialsInit
    <2>4. NoToken \in TokensOf /\ \A p \in OAuthProviders : tokens[p] = NoToken
        BY DEF NoToken, TokensOf, CredentialsInit
    <2>5. CredentialTypes
        BY <2>1, <2>2, <2>3, <2>4, CredentialsAssumption DEF CredentialsInit, CredentialTypes
    <2> QED  BY <2>3, <2>4, <2>5 DEF CredentialInv, TokensApart, GrantedOnce
<1>2. CredentialInv /\ [CredentialsNext]_credentialVars => CredentialInv'
    BY CredentialsStep
<1> QED  BY <1>1, <1>2, PTL DEF CredentialsSpec

\* A state token is exchanged once at most and is then no longer accepted, and no two
\* providers have the same credentials: for any providers, lives of tokens and secrets.
THEOREM GrantsAreOnce == CredentialsSpec => [](CredentialsTypeOK /\ StatesGrantOnce)
<1>1. CredentialInv => CredentialsTypeOK
    BY DEF CredentialInv, CredentialTypes, TokensApart, CredentialsTypeOK
<1>2. CredentialInv => StatesGrantOnce
    BY DEF CredentialInv, TokensApart, GrantedOnce, StatesGrantOnce, IsInjective, ToSet
<1> QED  BY <1>1, <1>2, CredentialsHold, PTL

-----------------------------------------------------------------------------
(***************************************************************************)
(* MemoryService.  A row that a request prepares is nobody else's, and is  *)
(* not there yet; a row that is corrected or deleted has its lock held.    *)
(***************************************************************************)
Statuses   == {"absent", "active", "superseded", "deleted"}
RequestsOf == [op : {"idle", "done"}]
                \cup [op : {"create"}, row : Rows, key : Keys \cup {Keyless}]
                \cup [op : {"correct"}, old : Rows, row : Rows]
                \cup [op : {"delete"}, old : Rows]
                \cup [op : {"search"}, read : SUBSET Rows, seen : [Rows -> Nat]]

MemoryTypes ==
    /\ status \in [Rows -> Statuses]
    /\ supersedes \in [Rows -> Rows \cup {NoRow}]
    /\ key \in [Rows -> Keys \cup {Keyless}]
    /\ count \in [Rows -> Nat]
    /\ locks \in [Rows -> Requests \cup {NoRow}]
    /\ request \in [Requests -> RequestsOf]
    /\ returned \in [Requests -> Rows \cup {NoRow}]

AbsentIsBlank == \A r \in Rows : ~Live(r) => supersedes[r] = NoRow /\ key[r] = Keyless

Prepares(q) == request[q].op \in {"create", "correct"}

\* A row that is prepared is not there yet, and is one request's; what a request reads is there.
PreparedAreNew ==
    /\ \A q \in Requests : Prepares(q) => ~Live(request[q].row)
    /\ \A q, p \in Requests : Prepares(q) /\ Prepares(p) /\ request[q].row = request[p].row => q = p
    /\ \A q \in Requests : request[q].op \in {"correct", "delete"} => Live(request[q].old)

MemoryInv == MemoryTypes /\ AbsentIsBlank /\ PreparedAreNew /\ OneKey

\* What a row's lock is for.
LocksHold ==
    \A q \in Requests :
        /\ request[q].op \in {"correct", "delete"} => locks[request[q].old] = q
        /\ request[q].op = "correct" => status[request[q].old] = "active"

SuccessorInv == LocksHold /\ OneSuccessor

\* The records that requests go through.
LEMMA RequestRecords ==
    /\ \A n \in {"idle", "done"} : [op |-> n] \in RequestsOf
    /\ \A r \in Rows, k \in Keys \cup {Keyless} : [op |-> "create", row |-> r, key |-> k] \in RequestsOf
    /\ \A old, r \in Rows : [op |-> "correct", old |-> old, row |-> r] \in RequestsOf
    /\ \A old \in Rows : [op |-> "delete", old |-> old] \in RequestsOf
    /\ \A read \in SUBSET Rows, seen \in [Rows -> Nat] : [op |-> "search", read |-> read, seen |-> seen] \in RequestsOf
BY DEF RequestsOf

\* What is known of a request by what it does.
LEMMA RequestFields ==
    ASSUME NEW x \in RequestsOf
    PROVE  /\ x.op = "create" => x.row \in Rows /\ x.key \in Keys \cup {Keyless}
           /\ x.op = "correct" => x.old \in Rows /\ x.row \in Rows
           /\ x.op = "delete" => x.old \in Rows
           /\ x.op = "search" => x.read \in SUBSET Rows /\ x.seen \in [Rows -> Nat]
BY DEF RequestsOf

\* An answer ends the request and releases its locks alone.
LEMMA Replied ==
    ASSUME MemoryTypes, NEW q \in Requests, NEW r \in Rows \cup {NoRow}, Reply(q, r)
    PROVE  /\ request' \in [Requests -> RequestsOf] /\ request'[q].op = "done"
           /\ \A p \in Requests \ {q} : request'[p] = request[p]
           /\ returned' \in [Requests -> Rows \cup {NoRow}] /\ returned'[q] = r
           /\ \A p \in Requests \ {q} : returned'[p] = returned[p]
           /\ locks' \in [Rows -> Requests \cup {NoRow}]
           /\ \A s \in Rows : locks[s] # q => locks'[s] = locks[s]
<1>1. [op |-> "done"] \in RequestsOf /\ [op |-> "done"].op = "done"
    BY RequestRecords
<1> DEFINE done == [op |-> "done"]
<1>2. request' = [request EXCEPT ![q] = done] /\ returned' = [returned EXCEPT ![q] = r]
    BY DEF Reply
<1>3. done \in RequestsOf /\ done.op = "done"
    BY <1>1
<1> HIDE DEF done
<1>4. /\ request' \in [Requests -> RequestsOf] /\ request'[q].op = "done"
      /\ \A p \in Requests \ {q} : request'[p] = request[p]
    BY <1>2, <1>3 DEF MemoryTypes
<1>5. /\ returned' \in [Requests -> Rows \cup {NoRow}] /\ returned'[q] = r
      /\ \A p \in Requests \ {q} : returned'[p] = returned[p]
    BY <1>2 DEF MemoryTypes
<1>6. /\ locks' \in [Rows -> Requests \cup {NoRow}]
      /\ \A s \in Rows : locks[s] # q => locks'[s] = locks[s]
    BY DEF MemoryTypes, Reply
<1> QED  BY <1>4, <1>5, <1>6

\* A request that has none prepared one leaves the rows alone, and is answered.
LEMMA AnsweredOnly ==
    ASSUME MemoryInv, NEW q \in Requests, NEW r \in Rows \cup {NoRow}, Reply(q, r), r # NoRow => Live(r),
           UNCHANGED <<status, supersedes, key>>, count' \in [Rows -> Nat]
    PROVE  MemoryInv' /\ (SuccessorInv => SuccessorInv')
<1>0. MemoryTypes /\ AbsentIsBlank /\ PreparedAreNew /\ OneKey
    BY DEF MemoryInv
<1>1. /\ request' \in [Requests -> RequestsOf] /\ request'[q].op = "done"
      /\ \A p \in Requests \ {q} : request'[p] = request[p]
      /\ returned' \in [Requests -> Rows \cup {NoRow}] /\ returned'[q] = r
      /\ \A p \in Requests \ {q} : returned'[p] = returned[p]
      /\ locks' \in [Rows -> Requests \cup {NoRow}]
      /\ \A s \in Rows : locks[s] # q => locks'[s] = locks[s]
    BY <1>0, Replied
<1>2. MemoryTypes' /\ AbsentIsBlank'
    BY <1>0, <1>1 DEF MemoryTypes, AbsentIsBlank, Live
<1>3. PreparedAreNew'
    BY <1>0, <1>1 DEF PreparedAreNew, Prepares, Live
<1>4. OneKey'
    BY <1>0, <1>1 DEF OneKey, Live
<1>5. ASSUME SuccessorInv PROVE SuccessorInv'
    <2>1. OneSuccessor'
        BY <1>5 DEF SuccessorInv, OneSuccessor
    <2>2. LocksHold'
        <3> SUFFICES ASSUME NEW p \in Requests
                     PROVE  /\ request'[p].op \in {"correct", "delete"} => locks'[request'[p].old] = p
                            /\ request'[p].op = "correct" => status'[request'[p].old] = "active"
            BY DEF LocksHold
        <3>1. CASE p = q
            BY <1>1, <3>1
        <3>2. CASE p # q
            <4>1. /\ request[p].op \in {"correct", "delete"} => locks[request[p].old] = p /\ request[p].old \in Rows
                  /\ request[p].op = "correct" => status[request[p].old] = "active"
                BY <1>0, <1>5, RequestFields DEF SuccessorInv, LocksHold, MemoryTypes
            <4> QED  BY <1>1, <3>2, <4>1
        <3> QED  BY <3>1, <3>2
    <2> QED  BY <2>1, <2>2 DEF SuccessorInv
<1> QED  BY <1>2, <1>3, <1>4, <1>5 DEF MemoryInv

\* A request begins; a lock that another holds stays.
LEMMA RequestBegins ==
    ASSUME MemoryInv, NEW q \in Requests, request[q] = Unasked, NEW new \in RequestsOf,
           request' = [request EXCEPT ![q] = new], UNCHANGED <<status, supersedes, key, count, returned>>,
           locks' \in [Rows -> Requests \cup {NoRow}], \A s \in Rows : locks[s] \notin {NoRow, q} => locks'[s] = locks[s],
           new.op \in {"create", "correct"} => Unwritten(new.row),
           new.op \in {"correct", "delete"} => Live(new.old)
    PROVE  /\ MemoryInv'
           /\ /\ SuccessorInv /\ (new.op = "correct" => status[new.old] = "active")
              /\ new.op \in {"correct", "delete"} => locks'[new.old] = q
              => SuccessorInv'
<1>0. MemoryTypes /\ AbsentIsBlank /\ PreparedAreNew /\ OneKey
    BY DEF MemoryInv
<1>1. /\ request' \in [Requests -> RequestsOf] /\ request'[q] = new
      /\ \A p \in Requests \ {q} : request'[p] = request[p]
    BY <1>0 DEF MemoryTypes
<1>2. MemoryTypes' /\ AbsentIsBlank' /\ OneKey'
    BY <1>0, <1>1 DEF MemoryTypes, AbsentIsBlank, OneKey, Live
<1>3. PreparedAreNew'
    <2>1. \A p \in Requests : Prepares(p)' => ~Live(request'[p].row)
        BY <1>0, <1>1 DEF PreparedAreNew, Prepares, Unwritten, Live
    <2>2. \A p, o \in Requests : Prepares(p)' /\ Prepares(o)' /\ request'[p].row = request'[o].row => o = p
        BY <1>0, <1>1 DEF PreparedAreNew, Prepares, Unwritten
    <2>3. \A p \in Requests : request'[p].op \in {"correct", "delete"} => Live(request'[p].old)
        BY <1>0, <1>1 DEF PreparedAreNew, Live
    <2> QED  BY <2>1, <2>2, <2>3 DEF PreparedAreNew, Live
<1>4. ASSUME SuccessorInv, new.op = "correct" => status[new.old] = "active",
             new.op \in {"correct", "delete"} => locks'[new.old] = q
      PROVE  SuccessorInv'
    <2>1. OneSuccessor'
        BY <1>4 DEF SuccessorInv, OneSuccessor
    <2>2. LocksHold'
        <3> SUFFICES ASSUME NEW p \in Requests
                     PROVE  /\ request'[p].op \in {"correct", "delete"} => locks'[request'[p].old] = p
                            /\ request'[p].op = "correct" => status'[request'[p].old] = "active"
            BY DEF LocksHold
        <3>1. CASE p = q
            BY <1>1, <1>4, <3>1
        <3>2. CASE p # q
            <4>1. /\ request[p].op \in {"correct", "delete"} => locks[request[p].old] = p /\ request[p].old \in Rows
                  /\ request[p].op = "correct" => status[request[p].old] = "active"
                BY <1>0, <1>4, RequestFields DEF SuccessorInv, LocksHold, MemoryTypes
            <4>2. p # NoRow
                BY MemoryAssumption
            <4> QED  BY <1>1, <3>2, <4>1, <4>2
        <3> QED  BY <3>1, <3>2
    <2> QED  BY <2>1, <2>2 DEF SuccessorInv
<1> QED  BY <1>2, <1>3, <1>4 DEF MemoryInv

\* A commit writes rows that were prepared, or were locked: never one that another request prepares.
LEMMA RowsCommitted ==
    ASSUME MemoryInv, NEW q \in Requests, NEW r \in Rows, Reply(q, r), UNCHANGED count,
           status' \in [Rows -> Statuses], supersedes' \in [Rows -> Rows \cup {NoRow}],
           key' \in [Rows -> Keys \cup {Keyless}], Live(r)',
           \A s \in Rows : Live(s) => Live(s)',
           \A s \in Rows : Live(s)' => Live(s) \/ (Prepares(q) /\ s = request[q].row),
           \A s \in Rows : ~Live(s)' => supersedes'[s] = supersedes[s] /\ key'[s] = key[s],
           \A s, t \in Rows : (key'[s] = key'[t] /\ key'[s] # Keyless) => s = t
    PROVE  MemoryInv'
<1>0. MemoryTypes /\ AbsentIsBlank /\ PreparedAreNew /\ OneKey
    BY DEF MemoryInv
<1>1. /\ request' \in [Requests -> RequestsOf] /\ request'[q].op = "done"
      /\ \A p \in Requests \ {q} : request'[p] = request[p]
      /\ returned' \in [Requests -> Rows \cup {NoRow}] /\ returned'[q] = r
      /\ \A p \in Requests \ {q} : returned'[p] = returned[p]
      /\ locks' \in [Rows -> Requests \cup {NoRow}]
    BY <1>0, Replied
<1>2. MemoryTypes'
    BY <1>0, <1>1 DEF MemoryTypes
<1>3. AbsentIsBlank'
    BY <1>0 DEF AbsentIsBlank
<1>4. PreparedAreNew'
    <2>1. ASSUME NEW p \in Requests, Prepares(p)'
          PROVE  ~Live(request[p].row)' /\ request'[p] = request[p] /\ Prepares(p) /\ p # q
        <3>1. p # q /\ request'[p] = request[p] /\ Prepares(p)
            BY <1>1, <2>1 DEF Prepares
        <3>2. request[p].row \in Rows
            BY <1>0, <3>1, RequestFields DEF MemoryTypes, Prepares
        <3>3. ~Live(request[p].row) /\ ~(Prepares(q) /\ request[p].row = request[q].row)
            BY <1>0, <3>1 DEF PreparedAreNew
        <3>4. ~Live(request[p].row)'
            <4> PICK s \in Rows : s = request[p].row
                BY <3>2
            <4>1. ~Live(s)'
                BY <3>3
            <4> QED  BY <3>1, <4>1 DEF Live
        <3> QED  BY <3>1, <3>4
    <2>2. ASSUME NEW p \in Requests, request'[p].op \in {"correct", "delete"}
          PROVE  Live(request[p].old)' /\ request'[p] = request[p]
        <3>1. p # q /\ request'[p] = request[p]
            BY <1>1, <2>2
        <3>2. request[p].old \in Rows /\ Live(request[p].old)
            BY <1>0, <2>2, <3>1, RequestFields DEF MemoryTypes, PreparedAreNew
        <3> PICK s \in Rows : s = request[p].old
            BY <3>2
        <3>3. Live(s)'
            BY <3>2
        <3> QED  BY <3>1, <3>3 DEF Live
    <2>3. \A p \in Requests : Prepares(p)' => ~Live(request[p].row)'
        BY <2>1 DEF Live
    <2>4. \A p, o \in Requests : Prepares(p)' /\ Prepares(o)' /\ request'[p].row = request'[o].row => o = p
        BY <1>0, <2>1 DEF PreparedAreNew
    <2>5. \A p \in Requests : request'[p].op \in {"correct", "delete"} => Live(request[p].old)'
        BY <2>2 DEF Live
    <2> QED  BY <2>3, <2>4, <2>5 DEF PreparedAreNew
<1>5. OneKey'
    <2>1. \A p \in Requests : returned'[p] # NoRow => Live(returned[p])'
        BY <1>0, <1>1 DEF OneKey, Live, MemoryTypes
    <2> QED  BY <2>1 DEF OneKey
<1> QED  BY <1>2, <1>3, <1>4, <1>5 DEF MemoryInv

LEMMA LocksStay ==
    ASSUME MemoryTypes, LocksHold, NEW q \in Requests, NEW r \in Rows, Reply(q, r),
           \A p \in Requests \ {q} : request[p].op = "correct" => status'[request[p].old] = "active"
    PROVE  LocksHold'
<1>1. /\ request'[q].op = "done" /\ \A p \in Requests \ {q} : request'[p] = request[p]
      /\ \A s \in Rows : locks[s] # q => locks'[s] = locks[s]
    BY Replied
<1> SUFFICES ASSUME NEW p \in Requests
             PROVE  /\ request'[p].op \in {"correct", "delete"} => locks'[request'[p].old] = p
                    /\ request'[p].op = "correct" => status'[request'[p].old] = "active"
    BY DEF LocksHold
<1>2. CASE p = q
    BY <1>1, <1>2
<1>3. CASE p # q
    <2>1. request[p].op \in {"correct", "delete"} => locks[request[p].old] = p /\ request[p].old \in Rows
        BY RequestFields DEF LocksHold, MemoryTypes
    <2> QED  BY <1>1, <1>3, <2>1
<1> QED  BY <1>2, <1>3

LEMMA CreateCommits ==
    ASSUME MemoryInv, NEW q \in Requests, CommitCreate(q)
    PROVE  MemoryInv' /\ (SuccessorInv => SuccessorInv')
<1> DEFINE k == request[q].key
           r == request[q].row
           e == {x \in Rows : Live(x) /\ key[x] = k}
<1>0. MemoryTypes /\ AbsentIsBlank /\ PreparedAreNew /\ OneKey
    BY DEF MemoryInv
<1>1. Prepares(q) /\ r \in Rows /\ k \in Keys \cup {Keyless} /\ ~Live(r)
    BY <1>0, RequestFields DEF CommitCreate, Prepares, MemoryTypes, PreparedAreNew
<1>2. CASE k # Keyless /\ e # {}
    <2>1. PICK x \in Rows : Live(x) /\ Reply(q, x) /\ UNCHANGED <<status, supersedes, key, count>>
        BY <1>2 DEF CommitCreate
    <2> QED  BY <1>0, <2>1, AnsweredOnly DEF MemoryTypes
<1>3. CASE ~(k # Keyless /\ e # {})
    <2>1. /\ status' = [status EXCEPT ![r] = "active"] /\ key' = [key EXCEPT ![r] = k]
          /\ Reply(q, r) /\ UNCHANGED <<supersedes, count>>
        BY <1>3 DEF CommitCreate
    <2>2. k # Keyless => \A s \in Rows : Live(s) => key[s] # k
        BY <1>3
    <2> HIDE DEF k, e
    <2>3. /\ status' \in [Rows -> Statuses] /\ status'[r] = "active" /\ \A s \in Rows \ {r} : status'[s] = status[s]
          /\ key' \in [Rows -> Keys \cup {Keyless}] /\ key'[r] = k /\ \A s \in Rows \ {r} : key'[s] = key[s]
        BY <1>0, <1>1, <2>1 DEF MemoryTypes, Statuses
    <2>4. \A s, t \in Rows : (key'[s] = key'[t] /\ key'[s] # Keyless) => s = t
        BY <1>0, <2>2, <2>3 DEF OneKey, AbsentIsBlank
    <2>5. /\ \A s \in Rows : Live(s) => Live(s)'
          /\ \A s \in Rows : Live(s)' => Live(s) \/ s = r
          /\ \A s \in Rows : ~Live(s)' => supersedes'[s] = supersedes[s] /\ key'[s] = key[s]
        BY <2>1, <2>3 DEF Live
    <2>6. supersedes' \in [Rows -> Rows \cup {NoRow}] /\ UNCHANGED count /\ status'[r] # "absent"
        BY <1>0, <2>1, <2>3 DEF MemoryTypes
    <2>7. MemoryInv'
        <3> PICK row \in Rows : row = r
            BY <1>1
        <3>1. Live(row)'
            BY <2>6 DEF Live
        <3> QED  BY <1>1, <2>1, <2>3, <2>4, <2>5, <2>6, <3>1, RowsCommitted
    <2>8. ASSUME SuccessorInv PROVE SuccessorInv'
        <3>1. OneSuccessor'
            <4>1. status[r] = "absent"
                BY <1>1 DEF Live
            <4> QED  BY <1>0, <2>1, <2>3, <2>8, <4>1 DEF SuccessorInv, OneSuccessor, MemoryTypes
        <3>2. \A p \in Requests \ {q} : request[p].op = "correct" => status'[request[p].old] = "active"
            <4> SUFFICES ASSUME NEW p \in Requests \ {q}, request[p].op = "correct"
                         PROVE  status'[request[p].old] = "active"
                OBVIOUS
            <4>1. request[p].old \in Rows /\ status[request[p].old] = "active"
                BY <1>0, <2>8, RequestFields DEF MemoryTypes, SuccessorInv, LocksHold
            <4> QED  BY <2>3, <4>1
        <3>3. LocksHold'
            BY <1>0, <1>1, <2>1, <2>8, <3>2, LocksStay DEF SuccessorInv
        <3> QED  BY <3>1, <3>3 DEF SuccessorInv
    <2> QED  BY <2>7, <2>8
<1> QED  BY <1>2, <1>3

LEMMA CorrectCommits ==
    ASSUME MemoryInv, NEW q \in Requests, CommitCorrect(q)
    PROVE  MemoryInv' /\ (SuccessorInv => SuccessorInv')
<1> DEFINE old == request[q].old
           r   == request[q].row
<1>0. MemoryTypes /\ AbsentIsBlank /\ PreparedAreNew /\ OneKey
    BY DEF MemoryInv
<1>1. Prepares(q) /\ r \in Rows /\ old \in Rows /\ ~Live(r) /\ Live(old) /\ old # r
    BY <1>0, RequestFields DEF CommitCorrect, Prepares, MemoryTypes, PreparedAreNew
<1>2. /\ status' = [status EXCEPT ![old] = "superseded", ![r] = "active"]
      /\ supersedes' = [supersedes EXCEPT ![r] = old] /\ Reply(q, r) /\ UNCHANGED <<key, count>>
    BY DEF CommitCorrect
<1>3. /\ status' \in [Rows -> Statuses] /\ status'[r] = "active" /\ status'[old] = "superseded"
      /\ \A s \in Rows \ {r, old} : status'[s] = status[s]
      /\ supersedes' \in [Rows -> Rows \cup {NoRow}] /\ supersedes'[r] = old
      /\ \A s \in Rows \ {r} : supersedes'[s] = supersedes[s]
    BY <1>0, <1>1, <1>2 DEF MemoryTypes, Statuses
<1>4. /\ \A s \in Rows : Live(s) => Live(s)'
      /\ \A s \in Rows : Live(s)' => Live(s) \/ s = r
      /\ \A s \in Rows : ~Live(s)' => supersedes'[s] = supersedes[s] /\ key'[s] = key[s]
      /\ status'[r] # "absent"
    BY <1>1, <1>2, <1>3 DEF Live
<1>5. MemoryInv'
    <2>1. \A s, t \in Rows : (key'[s] = key'[t] /\ key'[s] # Keyless) => s = t
        BY <1>0, <1>2 DEF OneKey
    <2> PICK row \in Rows : row = r
        BY <1>1
    <2>2. Live(row)' /\ key' \in [Rows -> Keys \cup {Keyless}] /\ UNCHANGED count
        BY <1>0, <1>2, <1>4 DEF Live, MemoryTypes
    <2> QED  BY <1>1, <1>2, <1>3, <1>4, <2>1, <2>2, RowsCommitted
<1>6. ASSUME SuccessorInv PROVE SuccessorInv'
    <2>0. status[old] = "active" /\ locks[old] = q
        BY <1>6 DEF SuccessorInv, LocksHold, CommitCorrect
    <2>1. OneSuccessor'
        <3>1. status[r] = "absent" /\ \A s \in Rows : supersedes[s] \notin {r, old}
            BY <1>1, <1>6, <2>0, MemoryAssumption DEF Live, SuccessorInv, OneSuccessor
        <3> QED  BY <1>0, <1>1, <1>3, <1>6, <3>1 DEF SuccessorInv, OneSuccessor, MemoryTypes
    <2>2. \A p \in Requests \ {q} : request[p].op = "correct" => status'[request[p].old] = "active"
        <3> SUFFICES ASSUME NEW p \in Requests \ {q}, request[p].op = "correct"
                     PROVE  status'[request[p].old] = "active"
            OBVIOUS
        <3>1. request[p].old \in Rows /\ status[request[p].old] = "active" /\ locks[request[p].old] = p
            BY <1>0, <1>6, RequestFields DEF MemoryTypes, SuccessorInv, LocksHold
        <3>2. request[p].old \notin {old, r}
            BY <1>1, <2>0, <3>1 DEF Live
        <3> QED  BY <1>3, <3>1, <3>2
    <2>3. LocksHold'
        BY <1>0, <1>1, <1>2, <1>6, <2>2, LocksStay DEF SuccessorInv
    <2> QED  BY <2>1, <2>3 DEF SuccessorInv
<1> QED  BY <1>5, <1>6

LEMMA DeleteCommits ==
    ASSUME MemoryInv, NEW q \in Requests, CommitDelete(q)
    PROVE  MemoryInv' /\ (SuccessorInv => SuccessorInv')
<1> DEFINE old == request[q].old
<1>0. MemoryTypes /\ AbsentIsBlank /\ PreparedAreNew /\ OneKey
    BY DEF MemoryInv
<1>1. old \in Rows /\ Live(old)
    BY <1>0, RequestFields DEF CommitDelete, MemoryTypes, PreparedAreNew
<1>2. status' = [status EXCEPT ![old] = "deleted"] /\ Reply(q, old) /\ UNCHANGED <<supersedes, key, count>>
    BY DEF CommitDelete
<1>3. /\ status' \in [Rows -> Statuses] /\ status'[old] = "deleted"
      /\ \A s \in Rows \ {old} : status'[s] = status[s]
    BY <1>0, <1>1, <1>2 DEF MemoryTypes, Statuses
<1>4. /\ \A s \in Rows : Live(s) <=> Live(s)'
      /\ status'[old] # "absent"
    BY <1>1, <1>2, <1>3 DEF Live
<1>5. MemoryInv'
    <2>1. \A s, t \in Rows : (key'[s] = key'[t] /\ key'[s] # Keyless) => s = t
        BY <1>0, <1>2 DEF OneKey
    <2> PICK row \in Rows : row = old
        BY <1>1
    <2>2. Live(row)' /\ key' \in [Rows -> Keys \cup {Keyless}] /\ supersedes' \in [Rows -> Rows \cup {NoRow}] /\ UNCHANGED count
        BY <1>0, <1>2, <1>4 DEF Live, MemoryTypes
    <2> QED  BY <1>1, <1>2, <1>3, <1>4, <2>1, <2>2, RowsCommitted
<1>6. ASSUME SuccessorInv PROVE SuccessorInv'
    <2>0. locks[old] = q
        BY <1>6 DEF SuccessorInv, LocksHold, CommitDelete
    <2>1. OneSuccessor'
        BY <1>0, <1>2, <1>3, <1>6 DEF SuccessorInv, OneSuccessor, MemoryTypes
    <2>2. \A p \in Requests \ {q} : request[p].op = "correct" => status'[request[p].old] = "active"
        <3> SUFFICES ASSUME NEW p \in Requests \ {q}, request[p].op = "correct"
                     PROVE  status'[request[p].old] = "active"
            OBVIOUS
        <3>1. request[p].old \in Rows /\ status[request[p].old] = "active" /\ locks[request[p].old] = p
            BY <1>0, <1>6, RequestFields DEF MemoryTypes, SuccessorInv, LocksHold
        <3> QED  BY <1>3, <2>0, <3>1
    <2>3. LocksHold'
        BY <1>0, <1>1, <1>2, <1>6, <2>2, LocksStay DEF SuccessorInv
    <2> QED  BY <2>1, <2>3 DEF SuccessorInv
<1> QED  BY <1>5, <1>6

\* A step keeps the rows and keys in order; where a locking read locks, the corrections too.
LEMMA MemoryStep ==
    ASSUME MemoryInv, [MemoryNext]_memoryVars
    PROVE  MemoryInv' /\ (RowLocks /\ SuccessorInv => SuccessorInv')
<1>0. MemoryTypes /\ AbsentIsBlank /\ PreparedAreNew /\ OneKey
    BY DEF MemoryInv
<1>1. ASSUME NEW q \in Requests, NEW k \in Keys \cup {Keyless}, NEW r \in Rows, Create(q, k, r)
      PROVE  MemoryInv' /\ (RowLocks /\ SuccessorInv => SuccessorInv')
    <2>1. CASE \E e \in Rows : Live(e) /\ Reply(q, e)
        <3> PICK e \in Rows : Live(e) /\ Reply(q, e)
            BY <2>1
        <3>1. UNCHANGED <<status, supersedes, key, count>>
            BY <1>1 DEF Create
        <3> QED  BY <1>0, <3>1, AnsweredOnly DEF MemoryTypes
    <2>2. CASE ~\E e \in Rows : Live(e) /\ Reply(q, e)
        <3> DEFINE new == [op |-> "create", row |-> r, key |-> k]
        <3>1. /\ request[q] = Unasked /\ Unwritten(r) /\ request' = [request EXCEPT ![q] = new]
              /\ UNCHANGED <<status, supersedes, key, count, locks, returned>>
            BY <1>1, <2>2 DEF Create
        <3>2. new \in RequestsOf /\ new.op = "create" /\ new.row = r
            BY RequestRecords
        <3> HIDE DEF new
        <3>3. locks' \in [Rows -> Requests \cup {NoRow}]
            BY <1>0, <3>1 DEF MemoryTypes
        <3> QED  BY <3>1, <3>2, <3>3, RequestBegins
    <2> QED  BY <2>1, <2>2
<1>2. ASSUME NEW q \in Requests, NEW r \in Rows, Lockable(q, r), Lock(q, r)
      PROVE  /\ locks' \in [Rows -> Requests \cup {NoRow}]
             /\ \A s \in Rows : locks[s] \notin {NoRow, q} => locks'[s] = locks[s]
             /\ RowLocks => locks'[r] = q
    BY <1>0, <1>2 DEF Lockable, Lock, MemoryTypes
<1>3. ASSUME NEW q \in Requests, NEW old \in Rows, NEW r \in Rows, Correct(q, old, r)
      PROVE  MemoryInv' /\ (RowLocks /\ SuccessorInv => SuccessorInv')
    <2>1. CASE status[old] # "active"
        <3>1. Reply(q, NoRow) /\ UNCHANGED <<status, supersedes, key, count>>
            BY <1>3, <2>1 DEF Correct, Fail
        <3> QED  BY <1>0, <3>1, AnsweredOnly DEF MemoryTypes
    <2>2. CASE status[old] = "active"
        <3> DEFINE new == [op |-> "correct", old |-> old, row |-> r]
        <3>1. /\ request[q] = Unasked /\ Unwritten(r) /\ request' = [request EXCEPT ![q] = new] /\ Lock(q, old)
              /\ UNCHANGED <<status, supersedes, key, count, returned>> /\ Lockable(q, old) /\ Live(old)
            BY <1>3, <2>2 DEF Correct, Lockable
        <3>2. new \in RequestsOf /\ new.op = "correct" /\ new.row = r /\ new.old = old
            BY RequestRecords
        <3> HIDE DEF new
        <3>3. /\ locks' \in [Rows -> Requests \cup {NoRow}]
              /\ \A s \in Rows : locks[s] \notin {NoRow, q} => locks'[s] = locks[s]
              /\ RowLocks => locks'[new.old] = q
            BY <1>2, <3>1, <3>2
        <3>4. Live(new.old) /\ Unwritten(new.row) /\ status[new.old] = "active"
            BY <2>2, <3>1, <3>2
        <3>5. MemoryInv'
            BY <3>1, <3>2, <3>3, <3>4, RequestBegins
        <3>6. ASSUME RowLocks, SuccessorInv PROVE SuccessorInv'
            BY <3>1, <3>2, <3>3, <3>4, <3>6, RequestBegins
        <3> QED  BY <3>5, <3>6
    <2> QED  BY <2>1, <2>2
<1>4. ASSUME NEW q \in Requests, NEW r \in Rows, Delete(q, r)
      PROVE  MemoryInv' /\ (RowLocks /\ SuccessorInv => SuccessorInv')
    <2> DEFINE new == [op |-> "delete", old |-> r]
    <2>1. /\ request[q] = Unasked /\ request' = [request EXCEPT ![q] = new] /\ Lock(q, r)
          /\ UNCHANGED <<status, supersedes, key, count, returned>> /\ Lockable(q, r) /\ Live(r)
        BY <1>4 DEF Delete, Lockable
    <2>2. new \in RequestsOf /\ new.op = "delete" /\ new.old = r
        BY RequestRecords
    <2> HIDE DEF new
    <2> QED  BY <1>2, <2>1, <2>2, RequestBegins
<1>5. ASSUME NEW q \in Requests, Search(q)
      PROVE  MemoryInv' /\ (RowLocks /\ SuccessorInv => SuccessorInv')
    <2> DEFINE new == [op |-> "search", read |-> {r \in Rows : status[r] = "active"}, seen |-> count]
    <2>1. /\ request[q] = Unasked /\ request' = [request EXCEPT ![q] = new]
          /\ UNCHANGED <<status, supersedes, key, count, locks, returned>>
        BY <1>5 DEF Search
    <2>2. new \in RequestsOf /\ new.op = "search"
        <3>1. count \in [Rows -> Nat]
            BY <1>0 DEF MemoryTypes
        <3> QED  BY <3>1, RequestRecords
    <2> HIDE DEF new
    <2>3. locks' \in [Rows -> Requests \cup {NoRow}] /\ new.op \notin {"create", "correct", "delete"}
        BY <1>0, <2>1, <2>2 DEF MemoryTypes
    <2> QED  BY <2>1, <2>2, <2>3, RequestBegins
<1>6. ASSUME NEW q \in Requests, CommitSearch(q)
      PROVE  MemoryInv' /\ (RowLocks /\ SuccessorInv => SuccessorInv')
    <2>1. Reply(q, NoRow) /\ UNCHANGED <<status, supersedes, key>>
        BY <1>6 DEF CommitSearch
    <2>2. count' \in [Rows -> Nat]
        <3>1. request[q].seen \in [Rows -> Nat] /\ count \in [Rows -> Nat]
            BY <1>0, <1>6, RequestFields DEF CommitSearch, MemoryTypes
        <3> QED  BY <1>6, <3>1 DEF CommitSearch
    <2> QED  BY <2>1, <2>2, AnsweredOnly
<1>7. CASE UNCHANGED memoryVars
    BY <1>7 DEF memoryVars, MemoryInv, MemoryTypes, AbsentIsBlank, PreparedAreNew, Prepares, OneKey, Live, SuccessorInv,
                LocksHold, OneSuccessor
<1> QED  BY <1>1, <1>3, <1>4, <1>5, <1>6, <1>7, CreateCommits, CorrectCommits, DeleteCommits DEF MemoryNext

LEMMA MemoryStarts ==
    ASSUME MemoryInit
    PROVE  MemoryInv /\ SuccessorInv
<1>1. /\ Unasked \in RequestsOf /\ Unasked.op = "idle"
    BY RequestRecords DEF Unasked
<1>2. \A q \in Requests : request[q].op = "idle"
    BY <1>1 DEF MemoryInit
<1>3. MemoryTypes
    BY <1>1 DEF MemoryInit, MemoryTypes, Statuses
<1>4. AbsentIsBlank /\ OneKey /\ OneSuccessor
    BY DEF MemoryInit, AbsentIsBlank, OneKey, OneSuccessor
<1>5. PreparedAreNew /\ LocksHold
    BY <1>2 DEF PreparedAreNew, Prepares, LocksHold
<1> QED  BY <1>3, <1>4, <1>5 DEF MemoryInv, SuccessorInv

\* A key names one row, whether or not the database locks rows: for any rows, keys and
\* requests at once.
THEOREM KeysNameOneRow == MemorySpec => [](MemoryTypeOK /\ OneKey)
<1>1. MemoryInit => MemoryInv
    BY MemoryStarts
<1>2. MemoryInv /\ [MemoryNext]_memoryVars => MemoryInv'
    BY MemoryStep
<1>3. MemoryInv => MemoryTypeOK /\ OneKey
    BY DEF MemoryInv, MemoryTypes, Statuses, AbsentIsBlank, MemoryTypeOK
<1> QED  BY <1>1, <1>2, <1>3, PTL DEF MemorySpec

\* Where SELECT ... FOR UPDATE locks, corrections form chains as well.
THEOREM CorrectionsFormChains ==
    ASSUME RowLocks
    PROVE  MemorySpec => []OneSuccessorOneKey
<1> DEFINE Inv == MemoryInv /\ SuccessorInv
<1>1. MemoryInit => Inv
    BY MemoryStarts
<1>2. Inv /\ [MemoryNext]_memoryVars => Inv'
    BY MemoryStep
<1>3. Inv => OneSuccessorOneKey
    BY DEF MemoryInv, SuccessorInv, OneSuccessorOneKey
<1> QED  BY <1>1, <1>2, <1>3, PTL DEF MemorySpec

-----------------------------------------------------------------------------
(***************************************************************************)
(* The refinement of MemoryLedger: a commit is the instant at which its    *)
(* request takes effect, and what the request read before still holds.     *)
(***************************************************************************)
\* A request that is not answered has no answer.
OpenUnanswered == \A q \in Requests : request[q].op # "done" => returned[q] = NoRow

\* A request that begins or goes on, or that is answered, leaves the others' answers.
LEMMA AnswersStay ==
    ASSUME MemoryInv, OpenUnanswered, NEW q \in Requests, request[q].op # "done",
           \/ \E r \in Rows \cup {NoRow} : Reply(q, r)
           \/ UNCHANGED returned /\ \E new \in RequestsOf : request' = [request EXCEPT ![q] = new]
    PROVE  OpenUnanswered'
<1>1. MemoryTypes
    BY DEF MemoryInv
<1>2. CASE \E r \in Rows \cup {NoRow} : Reply(q, r)
    <2> PICK r \in Rows \cup {NoRow} : Reply(q, r)
        BY <1>2
    <2>1. /\ request'[q].op = "done" /\ \A p \in Requests \ {q} : request'[p] = request[p]
          /\ \A p \in Requests \ {q} : returned'[p] = returned[p]
        BY <1>1, Replied
    <2> QED  BY <2>1 DEF OpenUnanswered
<1>3. CASE UNCHANGED returned /\ \E new \in RequestsOf : request' = [request EXCEPT ![q] = new]
    BY <1>1, <1>3 DEF OpenUnanswered, MemoryTypes
<1> QED  BY <1>2, <1>3

\* An answer that leaves the rows alone and names one that has a key is a Find.
LEMMA AnswerFinds ==
    ASSUME MemoryInv, OpenUnanswered, NEW q \in Requests, request[q].op # "done",
           NEW r \in Rows, Reply(q, r), Live(r), key[r] # Keyless, UNCHANGED <<status, supersedes, key>>
    PROVE  Memories!Next
<1>1. Memories!Answer(q, r)
    BY DEF Memories!Answer, Reply, OpenUnanswered
<1>2. Memories!Find(r)
    BY DEF Memories!Find, Memories!Stored, Live
<1> QED  BY <1>1, <1>2 DEF Memories!Next

\* An answer that names no row is not seen.
LEMMA AnswerUnseen ==
    ASSUME MemoryInv, OpenUnanswered, NEW q \in Requests, request[q].op # "done",
           Reply(q, NoRow), UNCHANGED <<status, supersedes, key>>
    PROVE  UNCHANGED Memories!memories
<1>1. returned \in [Requests -> Rows \cup {NoRow}] /\ returned[q] = NoRow
    BY DEF MemoryInv, MemoryTypes, OpenUnanswered
<1>2. returned' = returned
    BY <1>1 DEF Reply
<1> QED  BY <1>2 DEF Memories!memories

LEMMA CreateStores ==
    ASSUME MemoryInv, OpenUnanswered, NEW q \in Requests, CommitCreate(q)
    PROVE  Memories!Next /\ OpenUnanswered'
<1> DEFINE k == request[q].key
           r == request[q].row
           e == {x \in Rows : Live(x) /\ key[x] = k}
<1>1. request[q].op = "create" /\ r \in Rows /\ k \in Keys \cup {Keyless} /\ ~Live(r)
    BY RequestFields DEF CommitCreate, MemoryInv, MemoryTypes, PreparedAreNew, Prepares
<1>2. CASE k # Keyless /\ e # {}
    <2> PICK x \in e : Reply(q, x) /\ UNCHANGED <<status, supersedes, key, count>>
        BY <1>2 DEF CommitCreate
    <2>1. x \in Rows /\ Live(x) /\ key[x] # Keyless
        BY <1>2
    <2>2. Memories!Next
        BY <1>1, <2>1, AnswerFinds
    <2> QED  BY <1>1, <2>1, <2>2, AnswersStay
<1>3. CASE ~(k # Keyless /\ e # {})
    <2>1. /\ status' = [status EXCEPT ![r] = "active"]
          /\ key' = [key EXCEPT ![r] = k]
          /\ Reply(q, r) /\ UNCHANGED <<supersedes, count>>
        BY <1>3 DEF CommitCreate
    <2>2. Memories!Answer(q, r)
        BY <1>1, <2>1 DEF Memories!Answer, Reply, OpenUnanswered
    <2>3. Memories!Store(r, k)
        BY <1>1, <1>3, <2>1 DEF Memories!Store, Memories!Stored, Live
    <2>4. Memories!Next
        BY <1>1, <2>2, <2>3 DEF Memories!Next
    <2> QED  BY <1>1, <2>1, <2>4, AnswersStay
<1> QED  BY <1>2, <1>3

\* What the lock holds is still active: it is replaced in the instant of the commit.
LEMMA CorrectAmends ==
    ASSUME MemoryInv, SuccessorInv, OpenUnanswered, NEW q \in Requests, CommitCorrect(q)
    PROVE  Memories!Next /\ OpenUnanswered'
<1> DEFINE old == request[q].old
           r   == request[q].row
<1>1. request[q].op = "correct" /\ old \in Rows /\ r \in Rows /\ ~Live(r)
    BY RequestFields DEF CommitCorrect, MemoryInv, MemoryTypes, PreparedAreNew, Prepares
<1>2. /\ status' = [status EXCEPT ![old] = "superseded", ![r] = "active"]
      /\ supersedes' = [supersedes EXCEPT ![r] = old]
      /\ Reply(q, r) /\ UNCHANGED <<key, count>>
    BY DEF CommitCorrect
<1>3. status[old] = "active"
    BY <1>1 DEF SuccessorInv, LocksHold
<1>4. Memories!Answer(q, r)
    BY <1>1, <1>2 DEF Memories!Answer, Reply, OpenUnanswered
<1>5. Memories!Amend(old, r)
    BY <1>1, <1>2, <1>3 DEF Memories!Amend, Memories!Stored, Live
<1>6. Memories!Next
    BY <1>1, <1>4, <1>5 DEF Memories!Next
<1> QED  BY <1>1, <1>2, <1>6, AnswersStay

LEMMA DeleteRemoves ==
    ASSUME MemoryInv, OpenUnanswered, NEW q \in Requests, CommitDelete(q)
    PROVE  Memories!Next /\ OpenUnanswered'
<1> DEFINE old == request[q].old
<1>1. request[q].op = "delete" /\ old \in Rows /\ Live(old)
    BY RequestFields DEF CommitDelete, MemoryInv, MemoryTypes, PreparedAreNew
<1>2. status' = [status EXCEPT ![old] = "deleted"] /\ Reply(q, old) /\ UNCHANGED <<supersedes, key>>
    BY DEF CommitDelete
<1>3. Memories!Answer(q, old)
    BY <1>1, <1>2 DEF Memories!Answer, Reply, OpenUnanswered
<1>4. Memories!Remove(old)
    BY <1>1, <1>2 DEF Memories!Remove, Memories!Stored, Live
<1>5. Memories!Next
    BY <1>1, <1>3, <1>4 DEF Memories!Next
<1> QED  BY <1>1, <1>2, <1>5, AnswersStay

\* A request that only begins is not seen.
LEMMA BeginningUnseen ==
    ASSUME MemoryInv, OpenUnanswered, NEW q \in Requests, request[q] = Unasked, NEW new \in RequestsOf,
           request' = [request EXCEPT ![q] = new], UNCHANGED <<status, supersedes, key, returned>>
    PROVE  UNCHANGED Memories!memories /\ OpenUnanswered'
<1>1. request[q].op # "done"
    BY DEF Unasked
<1>2. OpenUnanswered'
    BY <1>1, AnswersStay
<1> QED  BY <1>2 DEF Memories!memories

\* A step of the service is one of the ledger, or is not seen.
LEMMA LedgerStep ==
    ASSUME MemoryInv, SuccessorInv, OpenUnanswered, [MemoryNext]_memoryVars
    PROVE  [Memories!Next]_(Memories!memories) /\ OpenUnanswered'
<1>0. Unasked.op # "done"
    BY DEF Unasked
<1>1. ASSUME NEW q \in Requests, NEW k \in Keys \cup {Keyless}, NEW r \in Rows, Create(q, k, r)
      PROVE  [Memories!Next]_(Memories!memories) /\ OpenUnanswered'
    <2>1. request[q] = Unasked /\ UNCHANGED <<status, supersedes, key>>
        BY <1>1 DEF Create
    <2>2. CASE k # Keyless /\ \E e \in Rows : Live(e) /\ key[e] = k /\ Reply(q, e)
        <3> PICK e \in Rows : Live(e) /\ key[e] = k /\ Reply(q, e)
            BY <2>2
        <3>1. Memories!Next
            BY <1>0, <2>1, <2>2, AnswerFinds
        <3> QED  BY <1>0, <2>1, <3>1, AnswersStay
    <2>3. CASE ~(k # Keyless /\ \E e \in Rows : Live(e) /\ key[e] = k /\ Reply(q, e))
        <3> DEFINE new == [op |-> "create", row |-> r, key |-> k]
        <3>1. request' = [request EXCEPT ![q] = new] /\ UNCHANGED returned
            BY <1>1, <2>3 DEF Create
        <3>2. new \in RequestsOf
            BY RequestRecords
        <3> HIDE DEF new
        <3> QED  BY <2>1, <3>1, <3>2, BeginningUnseen
    <2> QED  BY <2>2, <2>3
<1>2. ASSUME NEW q \in Requests, NEW old \in Rows, NEW r \in Rows, Correct(q, old, r)
      PROVE  [Memories!Next]_(Memories!memories) /\ OpenUnanswered'
    <2>1. request[q] = Unasked
        BY <1>2 DEF Correct
    <2>2. CASE status[old] # "active"
        <3>1. Reply(q, NoRow) /\ UNCHANGED <<status, supersedes, key>>
            BY <1>2, <2>2 DEF Correct, Fail
        <3>2. UNCHANGED Memories!memories
            BY <1>0, <2>1, <3>1, AnswerUnseen
        <3> QED  BY <1>0, <2>1, <3>1, <3>2, AnswersStay
    <2>3. CASE status[old] = "active"
        <3> DEFINE new == [op |-> "correct", old |-> old, row |-> r]
        <3>1. request' = [request EXCEPT ![q] = new] /\ UNCHANGED <<status, supersedes, key, returned>>
            BY <1>2, <2>3 DEF Correct
        <3>2. new \in RequestsOf
            BY RequestRecords
        <3> HIDE DEF new
        <3> QED  BY <2>1, <3>1, <3>2, BeginningUnseen
    <2> QED  BY <2>2, <2>3
<1>3. ASSUME NEW q \in Requests, NEW r \in Rows, Delete(q, r)
      PROVE  [Memories!Next]_(Memories!memories) /\ OpenUnanswered'
    <2> DEFINE new == [op |-> "delete", old |-> r]
    <2>1. request[q] = Unasked /\ request' = [request EXCEPT ![q] = new] /\ UNCHANGED <<status, supersedes, key, returned>>
        BY <1>3 DEF Delete
    <2>2. new \in RequestsOf
        BY RequestRecords
    <2> HIDE DEF new
    <2> QED  BY <2>1, <2>2, BeginningUnseen
<1>4. ASSUME NEW q \in Requests, Search(q)
      PROVE  [Memories!Next]_(Memories!memories) /\ OpenUnanswered'
    <2> DEFINE new == [op |-> "search", read |-> {r \in Rows : status[r] = "active"}, seen |-> count]
    <2>1. request[q] = Unasked /\ request' = [request EXCEPT ![q] = new] /\ UNCHANGED <<status, supersedes, key, returned>>
        BY <1>4 DEF Search
    <2>2. new \in RequestsOf
        <3>1. count \in [Rows -> Nat]
            BY DEF MemoryInv, MemoryTypes
        <3> QED  BY <3>1, RequestRecords
    <2> HIDE DEF new
    <2> QED  BY <2>1, <2>2, BeginningUnseen
<1>5. ASSUME NEW q \in Requests, CommitSearch(q)
      PROVE  [Memories!Next]_(Memories!memories) /\ OpenUnanswered'
    <2>1. request[q].op # "done" /\ Reply(q, NoRow) /\ UNCHANGED <<status, supersedes, key>>
        BY <1>5 DEF CommitSearch
    <2>2. UNCHANGED Memories!memories
        BY <2>1, AnswerUnseen
    <2> QED  BY <2>1, <2>2, AnswersStay
<1>6. CASE UNCHANGED memoryVars
    BY <1>6 DEF memoryVars, Memories!memories, OpenUnanswered
<1> QED  BY <1>1, <1>2, <1>3, <1>4, <1>5, <1>6, CreateStores, CorrectAmends, DeleteRemoves DEF MemoryNext

\* The service implements MemoryLedger: where SELECT ... FOR UPDATE locks, what a create, a
\* correction or a deletion read before it awaited its commit still holds when it commits, so
\* that each takes effect at one instant (memory/service.py), whatever requests run beside it.
THEOREM RequestsTakeEffectAtOnce ==
    ASSUME RowLocks
    PROVE  MemorySpec => RequestsAreAtomic
<1> DEFINE Inv == MemoryInv /\ SuccessorInv /\ OpenUnanswered
<1>1. MemoryInit => Inv /\ Memories!Init
    BY MemoryStarts DEF OpenUnanswered, MemoryInit, Memories!Init
<1>2. Inv /\ [MemoryNext]_memoryVars => Inv' /\ [Memories!Next]_(Memories!memories)
    BY MemoryStep, LedgerStep
<1> QED  BY <1>1, <1>2, PTL DEF MemorySpec, RequestsAreAtomic, Memories!Spec

-----------------------------------------------------------------------------
(***************************************************************************)
(* VoiceSession.  The tasks are submitted in their order, so that one that *)
(* is being submitted has been taken back by nobody.                       *)
(***************************************************************************)
Handed    == {t \in VoiceTasks : fate[t] # "absent"}
Speeches  == [purpose : {"none", "acknowledgment", "completion"}, task : VoiceTasks \cup {Nobody}]
Watchers  == [task : VoiceTasks, generation : Nat, at : {"waiting", "announcing", "queued"}, speech : Speeches, heard : Nat]
Orders    == {"cancelling", "replacing", "cancelled", "replaced"}
Loops     == [at : Orders \cup {"ready", "stopping", "closed"}, task : VoiceTasks \cup {Nobody}]

Counts ==
    /\ vgeneration \in 0..MaxStops /\ speechGeneration \in 0..MaxStops
    /\ turns \in 0..MaxTurns /\ transcripts \in 0..turns

Switches ==
    /\ stopped \in BOOLEAN /\ turn \in BOOLEAN /\ loop \in Loops
    /\ loop.at \in {"replacing", "replaced"} => turn

\* A turn begins only while there are turns left.
TurnsFit == turn => turns < MaxTurns

\* n tasks have been submitted.
InOrder(n) ==
    /\ n \in 0..MaxTurns /\ Handed = 1..n
    /\ pump.at = "submitting" => pump.task = n + 1 /\ n + 1 + transcripts <= turns
    /\ n + transcripts <= turns

TasksInOrder ==
    /\ fate \in [VoiceTasks -> {"absent", "live", "finished", "cancelled"}]
    /\ pump \in [at : {"ready", "submitting", "acknowledging", "closed"}, task : VoiceTasks \cup {Nobody}]
    /\ pump.at = "acknowledging" => pump.task \in Handed
    /\ \E n \in Nat : InOrder(n)

\* Only tasks that were submitted are the active one or are taken back, and never both.
WithdrawnForGood ==
    /\ active \in Handed \cup {Nobody} /\ withdrawn \subseteq Handed /\ active \notin withdrawn
    /\ loop.at \in Orders => loop.task \in Handed

WatchersWait ==
    /\ latest \in Speeches /\ watchers \subseteq Watchers
    /\ \A w \in watchers : w.task \in Handed /\ w.generation <= vgeneration

VoiceInv == Counts /\ Switches /\ TurnsFit /\ TasksInOrder /\ WithdrawnForGood /\ WatchersWait

LEMMA TasksAreNumbers == VoiceTasks \subseteq Nat /\ Nobody \notin VoiceTasks /\ Handed \subseteq VoiceTasks
BY VoiceAssumption DEF VoiceTasks, Nobody, Handed

LEMMA LoopPlaces ==
    /\ Resting \in Loops /\ Resting.at \notin Orders
    /\ \A at \in Orders \cup {"ready", "stopping", "closed"}, t \in VoiceTasks \cup {Nobody} :
          LET place == [at |-> at, task |-> t] IN place \in Loops /\ place.at = at /\ place.task = t
BY DEF Resting, Loops, Orders

LEMMA CountsAreNumbers ==
    ASSUME Counts
    PROVE  /\ MaxTurns \in Nat /\ MaxStops \in Nat /\ vgeneration \in Nat /\ speechGeneration \in Nat
           /\ turns \in Nat /\ transcripts \in Nat /\ turns <= MaxTurns /\ transcripts <= turns
BY VoiceAssumption DEF Counts

\* How an order changes the counts: the generations grow by one at most, and a turn that is
\* sent makes one transcript.
Moved ==
    /\ UNCHANGED vgeneration \/ (vgeneration < MaxStops /\ vgeneration' = vgeneration + 1)
    /\ UNCHANGED speechGeneration \/ (speechGeneration < MaxStops /\ speechGeneration' = speechGeneration + 1)
    /\ UNCHANGED <<turns, transcripts>>
       \/ (turns < MaxTurns /\ turns' = turns + 1 /\ transcripts' = transcripts + 1)

LEMMA Balance ==
    ASSUME NEW a \in Nat, NEW b \in Nat, NEW c \in Nat, NEW d \in Nat, c + b <= a + d
    PROVE  \A k \in Nat : k + a <= b => k + c <= d
OBVIOUS

LEMMA CountsMove ==
    ASSUME Counts, Moved
    PROVE  Counts' /\ vgeneration <= vgeneration' /\ transcripts' + turns <= transcripts + turns'
<1>1. /\ MaxTurns \in Nat /\ MaxStops \in Nat /\ vgeneration \in Nat /\ speechGeneration \in Nat
      /\ turns \in Nat /\ transcripts \in Nat /\ turns <= MaxTurns /\ transcripts <= turns
      /\ vgeneration <= MaxStops /\ speechGeneration <= MaxStops
    BY VoiceAssumption DEF Counts
<1>2. vgeneration' \in 0..MaxStops /\ vgeneration <= vgeneration'
    BY <1>1 DEF Moved
<1>3. speechGeneration' \in 0..MaxStops
    BY <1>1 DEF Moved
<1>4. turns' \in 0..MaxTurns /\ transcripts' \in 0..turns' /\ transcripts' + turns <= transcripts + turns'
    <2>1. CASE UNCHANGED <<turns, transcripts>>
        BY <1>1, <2>1
    <2>2. CASE turns < MaxTurns /\ turns' = turns + 1 /\ transcripts' = transcripts + 1
        BY <1>1, <2>2
    <2> QED  BY <2>1, <2>2 DEF Moved
<1> QED  BY <1>2, <1>3, <1>4 DEF Counts

\* The tasks, and what the pump does with them, stay in order while it rests.
LEMMA TasksRest ==
    ASSUME TasksInOrder, UNCHANGED <<fate, pump>>, Counts, Counts', transcripts' + turns <= transcripts + turns'
    PROVE  TasksInOrder' /\ Handed' = Handed
<1>1. Handed' = Handed
    BY DEF Handed
<1>2. PICK n \in Nat : InOrder(n)
    BY DEF TasksInOrder
<1>3. turns \in Nat /\ transcripts \in Nat /\ turns' \in Nat /\ transcripts' \in Nat
    <2>1. MaxTurns \in Nat
        BY VoiceAssumption
    <2> QED  BY <2>1 DEF Counts
<1>4. \A k \in Nat : k + transcripts <= turns => k + transcripts' <= turns'
    BY <1>3, Balance
<1>5. n + 1 \in Nat
    OBVIOUS
<1>6. n + transcripts' <= turns'
    BY <1>2, <1>4 DEF InOrder
<1>7. pump.at = "submitting" => n + 1 + transcripts' <= turns'
    BY <1>2, <1>4, <1>5 DEF InOrder
<1>8. InOrder(n)'
    BY <1>1, <1>2, <1>6, <1>7 DEF InOrder
<1> QED  BY <1>1, <1>2, <1>8 DEF TasksInOrder

LEMMA WatchersRest ==
    ASSUME WatchersWait, UNCHANGED <<watchers, latest>>, vgeneration <= vgeneration', Handed' = Handed,
           vgeneration \in Nat, vgeneration' \in Nat
    PROVE  WatchersWait'
<1>1. \A w \in watchers : w.generation \in Nat
    BY DEF WatchersWait, Watchers
<1> QED  BY <1>1 DEF WatchersWait

\* What holds after an order or a speech, which leave the tasks, the pump and the watchers alone.
LEMMA OrderPasses ==
    ASSUME VoiceInv, Moved, UNCHANGED <<fate, pump, watchers, latest>>
    PROVE  Counts' /\ TasksInOrder' /\ WatchersWait' /\ Handed' = Handed
<1>1. Counts' /\ vgeneration <= vgeneration' /\ transcripts' + turns <= transcripts + turns'
    BY CountsMove DEF VoiceInv
<1>2. vgeneration \in Nat /\ vgeneration' \in Nat
    <2>1. MaxStops \in Nat
        BY VoiceAssumption
    <2> QED  BY <1>1, <2>1 DEF VoiceInv, Counts
<1>3. TasksInOrder' /\ Handed' = Handed
    BY <1>1, TasksRest DEF VoiceInv
<1>4. WatchersWait'
    BY <1>2, <1>1, <1>3, WatchersRest DEF VoiceInv
<1> QED  BY <1>1, <1>3, <1>4

LEMMA VoiceStep ==
    ASSUME VoiceInv, [VoiceNext]_voiceVars
    PROVE  VoiceInv'
<1>0. Counts /\ Switches /\ TurnsFit /\ TasksInOrder /\ WithdrawnForGood /\ WatchersWait
    BY DEF VoiceInv
<1>a. /\ MaxTurns \in Nat /\ MaxStops \in Nat /\ vgeneration \in Nat /\ speechGeneration \in Nat
      /\ turns \in Nat /\ transcripts \in Nat /\ turns <= MaxTurns /\ transcripts <= turns
    BY <1>0, CountsAreNumbers
<1>b. active \in VoiceTasks \cup {Nobody}
    BY <1>0, TasksAreNumbers DEF WithdrawnForGood
<1>1. ASSUME AppendAudio
      PROVE  VoiceInv'
    <2>1. Moved /\ UNCHANGED <<fate, pump, watchers, latest>>
        <3>1. UNCHANGED <<fate, pump, watchers, latest>>
            BY <1>1 DEF AppendAudio
        <3>2. Moved
            BY <1>0, <1>1 DEF AppendAudio, Hush, Moved, TurnsFit
        <3> QED  BY <3>1, <3>2
    <2>3. Switches'
        BY <1>0, <1>1, LoopPlaces DEF AppendAudio, Hush, Switches, Orders
    <2>4. TurnsFit'
        BY <1>0, <1>1 DEF AppendAudio, Hush, TurnsFit
    <2>5. Counts' /\ TasksInOrder' /\ WatchersWait' /\ Handed' = Handed
        BY <2>1, OrderPasses
    <2>6. WithdrawnForGood'
        BY <1>0, <1>1, <2>5, TasksAreNumbers DEF AppendAudio, WithdrawnForGood
    <2> QED  BY <2>3, <2>4, <2>5, <2>6 DEF VoiceInv
<1>2. ASSUME Interrupt
      PROVE  VoiceInv'
    <2>1. Moved /\ UNCHANGED <<fate, pump, watchers, latest>>
        <3>1. UNCHANGED <<fate, pump, watchers, latest>>
            BY <1>2 DEF Interrupt
        <3>2. Moved
            BY <1>0, <1>2 DEF Interrupt, Hush, Moved, TurnsFit
        <3> QED  BY <3>1, <3>2
    <2>3. Switches'
        BY <1>0, <1>2, LoopPlaces DEF Interrupt, Hush, Switches, Orders
    <2>4. TurnsFit'
        BY <1>0, <1>2 DEF Interrupt, Hush, TurnsFit
    <2>5. Counts' /\ TasksInOrder' /\ WatchersWait' /\ Handed' = Handed
        BY <2>1, OrderPasses
    <2>6. WithdrawnForGood'
        BY <1>0, <1>2, <2>5, TasksAreNumbers DEF Interrupt, WithdrawnForGood
    <2> QED  BY <2>3, <2>4, <2>5, <2>6 DEF VoiceInv
<1>3. ASSUME Stop
      PROVE  VoiceInv'
    <2>1. Moved /\ UNCHANGED <<fate, pump, watchers, latest>>
        <3>1. UNCHANGED <<fate, pump, watchers, latest>>
            BY <1>3 DEF Stop
        <3>2. Moved
            BY <1>0, <1>3 DEF Stop, Hush, Moved, TurnsFit
        <3> QED  BY <3>1, <3>2
    <2>2. loop' \in Loops /\ loop'.at \notin {"replacing", "replaced"} /\ (loop'.at \in Orders => loop'.task = active /\ active # Nobody)
        <3>1. {"cancelling", "replacing", "replaced"} \subseteq Orders /\ "stopping" \notin Orders
            BY DEF Orders
        <3> QED  BY <1>3, <1>b, <3>1, LoopPlaces DEF Stop, Hush
    <2>3. Switches'
        BY <1>0, <1>3, <2>2, LoopPlaces DEF Stop, Hush, Switches, Orders
    <2>4. TurnsFit'
        BY <1>0, <1>3, <2>2 DEF Stop, Hush, TurnsFit
    <2>5. Counts' /\ TasksInOrder' /\ WatchersWait' /\ Handed' = Handed
        BY <2>1, OrderPasses
    <2>6. WithdrawnForGood'
        BY <1>0, <1>3, <2>2, <2>5, TasksAreNumbers DEF Stop, WithdrawnForGood
    <2> QED  BY <2>3, <2>4, <2>5, <2>6 DEF VoiceInv
<1>4. ASSUME StopLooks
      PROVE  VoiceInv'
    <2>1. Moved /\ UNCHANGED <<fate, pump, watchers, latest>>
        <3>1. UNCHANGED <<fate, pump, watchers, latest>>
            BY <1>4 DEF StopLooks
        <3>2. Moved
            BY <1>0, <1>4 DEF StopLooks, Moved, TurnsFit
        <3> QED  BY <3>1, <3>2
    <2>2. loop' \in Loops /\ loop'.at \notin {"replacing", "replaced"} /\ (loop'.at \in Orders => loop'.task = active /\ active # Nobody)
        <3>1. {"cancelling", "replacing", "replaced"} \subseteq Orders /\ "stopping" \notin Orders
            BY DEF Orders
        <3> QED  BY <1>4, <1>b, <3>1, LoopPlaces DEF StopLooks
    <2>3. Switches'
        BY <1>0, <1>4, <2>2, LoopPlaces DEF StopLooks, Switches, Orders
    <2>4. TurnsFit'
        BY <1>0, <1>4, <2>2 DEF StopLooks, TurnsFit
    <2>5. Counts' /\ TasksInOrder' /\ WatchersWait' /\ Handed' = Handed
        BY <2>1, OrderPasses
    <2>6. WithdrawnForGood'
        BY <1>0, <1>4, <2>2, <2>5, TasksAreNumbers DEF StopLooks, WithdrawnForGood
    <2> QED  BY <2>3, <2>4, <2>5, <2>6 DEF VoiceInv
<1>5. ASSUME OrderEnds
      PROVE  VoiceInv'
    <2>1. Moved /\ UNCHANGED <<fate, pump, watchers, latest>>
        <3>1. UNCHANGED <<fate, pump, watchers, latest>>
            BY <1>5 DEF OrderEnds
        <3>2. Moved
            BY <1>0, <1>5 DEF OrderEnds, Sent, Withdraw, Moved, TurnsFit, Switches
        <3> QED  BY <3>1, <3>2
    <2>2. loop' \in Loops /\ loop'.at \notin Orders
        <3>1. {"cancelling", "replacing", "replaced"} \subseteq Orders /\ "stopping" \notin Orders
            BY DEF Orders
        <3> QED  BY <1>5, <1>b, <3>1, LoopPlaces DEF OrderEnds, Sent, Withdraw
    <2>3. Switches'
        BY <1>0, <1>5, <2>2, LoopPlaces DEF OrderEnds, Sent, Withdraw, Switches, Orders
    <2>4. TurnsFit'
        BY <1>0, <1>5, <2>2 DEF OrderEnds, Sent, Withdraw, TurnsFit
    <2>5. Counts' /\ TasksInOrder' /\ WatchersWait' /\ Handed' = Handed
        BY <2>1, OrderPasses
    <2>6. WithdrawnForGood'
        BY <1>0, <1>5, <2>2, <2>5, TasksAreNumbers DEF OrderEnds, Sent, Withdraw, WithdrawnForGood, Orders
    <2> QED  BY <2>3, <2>4, <2>5, <2>6 DEF VoiceInv
<1>6. ASSUME Resume
      PROVE  VoiceInv'
    <2>1. Moved /\ UNCHANGED <<fate, pump, watchers, latest>>
        <3>1. UNCHANGED <<fate, pump, watchers, latest>>
            BY <1>6 DEF Resume
        <3>2. Moved
            BY <1>0, <1>6 DEF Resume, Moved, TurnsFit
        <3> QED  BY <3>1, <3>2
    <2>3. Switches'
        BY <1>0, <1>6, LoopPlaces DEF Resume, Switches, Orders
    <2>4. TurnsFit'
        BY <1>0, <1>6 DEF Resume, TurnsFit
    <2>5. Counts' /\ TasksInOrder' /\ WatchersWait' /\ Handed' = Handed
        BY <2>1, OrderPasses
    <2>6. WithdrawnForGood'
        BY <1>0, <1>6, <2>5, TasksAreNumbers DEF Resume, WithdrawnForGood
    <2> QED  BY <2>3, <2>4, <2>5, <2>6 DEF VoiceInv
<1>7. ASSUME NEW replace \in BOOLEAN, Commit(replace)
      PROVE  VoiceInv'
    <2>1. Moved /\ UNCHANGED <<fate, pump, watchers, latest>>
        <3>1. UNCHANGED <<fate, pump, watchers, latest>>
            BY <1>7 DEF Commit
        <3>2. Moved
            BY <1>0, <1>7 DEF Commit, Sent, Moved, TurnsFit
        <3> QED  BY <3>1, <3>2
    <2>2. /\ loop' \in Loops /\ (loop'.at \in Orders => loop'.task = active /\ active # Nobody)
          /\ (UNCHANGED <<turn, turns>> /\ turn = TRUE) \/ (turn' = FALSE /\ loop' = loop /\ loop = Resting)
        <3>1. {"cancelling", "replacing", "replaced"} \subseteq Orders /\ "stopping" \notin Orders
            BY DEF Orders
        <3>2. turn = TRUE
            BY <1>0, <1>7 DEF Commit, Switches
        <3>3. CASE replace /\ active # Nobody
            <4>1. UNCHANGED <<turn, turns>> /\ loop' = [at |-> "replacing", task |-> active]
                BY <1>7, <3>3 DEF Commit
            <4> QED  BY <1>b, <3>1, <3>2, <3>3, <4>1, LoopPlaces
        <3>4. CASE ~(replace /\ active # Nobody)
            <4>1. turn' = FALSE /\ loop' = loop /\ loop = Resting
                BY <1>7, <3>4 DEF Commit, Sent
            <4> QED  BY <4>1, LoopPlaces
        <3> QED  BY <3>3, <3>4
    <2>3. Switches'
        BY <1>0, <1>7, <2>2, LoopPlaces DEF Commit, Sent, Switches, Orders
    <2>4. TurnsFit'
        BY <1>0, <1>7, <2>2 DEF Commit, Sent, TurnsFit
    <2>5. Counts' /\ TasksInOrder' /\ WatchersWait' /\ Handed' = Handed
        BY <2>1, OrderPasses
    <2>6. WithdrawnForGood'
        BY <1>0, <1>7, <2>2, <2>5, TasksAreNumbers DEF Commit, WithdrawnForGood
    <2> QED  BY <2>3, <2>4, <2>5, <2>6 DEF VoiceInv
<1>8. ASSUME NEW v \in voices, SpeechEnds(v)
      PROVE  VoiceInv'
    <2>1. Moved /\ UNCHANGED <<fate, pump, watchers, latest>>
        <3>1. UNCHANGED <<fate, pump, watchers, latest>>
            BY <1>8 DEF SpeechEnds
        <3>2. Moved
            BY <1>0, <1>8 DEF SpeechEnds, Moved, TurnsFit
        <3> QED  BY <3>1, <3>2
    <2>3. Switches'
        BY <1>0, <1>8, LoopPlaces DEF SpeechEnds, Switches, Orders
    <2>4. TurnsFit'
        BY <1>0, <1>8 DEF SpeechEnds, TurnsFit
    <2>5. Counts' /\ TasksInOrder' /\ WatchersWait' /\ Handed' = Handed
        BY <2>1, OrderPasses
    <2>6. WithdrawnForGood'
        BY <1>0, <1>8, <2>5, TasksAreNumbers DEF SpeechEnds, WithdrawnForGood
    <2> QED  BY <2>3, <2>4, <2>5, <2>6 DEF VoiceInv
<1>9. ASSUME CancelRecorded \/ \E t \in VoiceTasks : TaskEnds(t)
      PROVE  VoiceInv'
    <2>1. /\ UNCHANGED <<pump, turn, turns, transcripts, speechGeneration, stopped, active, withdrawn, watchers, latest, vgeneration>>
          /\ fate' \in [VoiceTasks -> {"absent", "live", "finished", "cancelled"}] /\ Handed' = Handed
        BY <1>0, <1>9 DEF CancelRecorded, TaskEnds, TasksInOrder, Handed
    <2>2. /\ loop' \in Loops /\ (loop'.at \in Orders => loop.at \in Orders /\ loop'.task = loop.task)
          /\ loop'.at \in {"replacing", "replaced"} => loop.at \in {"replacing", "replaced"}
        BY <1>0, <1>9 DEF CancelRecorded, TaskEnds, Switches, Loops, Orders
    <2>3. TasksInOrder'
        BY <1>0, <2>1 DEF TasksInOrder, InOrder
    <2>4. WithdrawnForGood'
        BY <1>0, <2>2, <2>1 DEF WithdrawnForGood
    <2>5. WatchersWait' /\ Counts' /\ TurnsFit'
        BY <1>0, <2>1 DEF WatchersWait, Counts, TurnsFit
    <2>6. Switches'
        BY <1>0, <2>1, <2>2 DEF Switches
    <2> QED  BY <2>3, <2>4, <2>5, <2>6 DEF VoiceInv
<1>10. ASSUME Close
       PROVE  VoiceInv'
    <2>1. /\ UNCHANGED <<turn, stopped, speechGeneration, turns, transcripts, active, withdrawn, fate, latest, vgeneration>>
          /\ Handed' = Handed
          /\ loop' = [at |-> "closed", task |-> Nobody] /\ pump' = [at |-> "closed", task |-> Nobody] /\ watchers' \subseteq watchers
        BY <1>10 DEF Close, Handed
    <2>2. Switches'
        BY <1>0, <2>1, LoopPlaces DEF Switches
    <2>3. TasksInOrder'
        BY <1>0, <2>1 DEF TasksInOrder, InOrder
    <2>4. WithdrawnForGood'
        BY <1>0, <2>1 DEF WithdrawnForGood, Orders
    <2>5. WatchersWait' /\ Counts' /\ TurnsFit'
        BY <1>0, <2>1 DEF WatchersWait, Counts, TurnsFit
    <2> QED  BY <2>2, <2>3, <2>4, <2>5 DEF VoiceInv
<1>11. ASSUME Hear
       PROVE  VoiceInv'
    <2>1. /\ UNCHANGED <<turn, turns, stopped, speechGeneration, loop, active, withdrawn, fate, latest, watchers, vgeneration>>
          /\ Handed' = Handed /\ transcripts > 0 /\ transcripts' = transcripts - 1 /\ pump = Resting
        BY <1>11 DEF Hear, Handed
    <2>2. Counts' /\ Switches' /\ TurnsFit'
        <3>1. transcripts - 1 \in 0..turns
            BY <1>a, <2>1
        <3>2. Counts'
            BY <1>0, <2>1, <3>1 DEF Counts
        <3> QED  BY <1>0, <2>1, <3>2 DEF Switches, TurnsFit
    <2>3. PICK n \in Nat : InOrder(n)
        BY <1>0 DEF TasksInOrder
    <2> DEFINE first == CHOOSE t \in VoiceTasks :
                          fate[t] = "absent" /\ \A u \in VoiceTasks : fate[u] = "absent" => t <= u
    <2>4. n + 1 \in VoiceTasks /\ first = n + 1
        <3>1. n + transcripts <= turns /\ turns <= MaxTurns /\ Handed = 1..n
            BY <1>a, <2>3 DEF InOrder
        <3>2. n + 1 \in VoiceTasks /\ fate[n + 1] = "absent"
            BY <1>a, <2>1, <3>1 DEF VoiceTasks, Handed
        <3>3. \A t \in VoiceTasks : fate[t] = "absent" => n + 1 <= t
            BY <3>1 DEF VoiceTasks, Handed
        <3>4. \A t \in VoiceTasks : fate[t] = "absent" /\ t <= n + 1 => t = n + 1
            BY <3>3, TasksAreNumbers
        <3> QED  BY <3>2, <3>3, <3>4
    <2>5. pump' = Resting \/ pump' = [at |-> "submitting", task |-> n + 1]
        BY <1>11, <2>4 DEF Hear
    <2>6. InOrder(n)'
        <3>1. n + transcripts <= turns => n + transcripts' <= turns /\ n + 1 + transcripts' <= turns
            BY <1>a, <2>1
        <3>2. pump'.at = "submitting" => pump'.task = n + 1
            BY <2>5 DEF Resting
        <3> QED  BY <2>1, <2>3, <3>1, <3>2 DEF InOrder
    <2>7. TasksInOrder'
        BY <1>0, <2>1, <2>4, <2>5, <2>6 DEF TasksInOrder, Resting
    <2>8. WithdrawnForGood' /\ WatchersWait'
        BY <1>0, <2>1 DEF WithdrawnForGood, WatchersWait
    <2> QED  BY <2>2, <2>7, <2>8 DEF VoiceInv
<1>12. ASSUME Submitted
       PROVE  VoiceInv'
    <2>1. PICK n \in Nat : InOrder(n)
        BY <1>0 DEF TasksInOrder
    <2>2. /\ pump.at = "submitting" /\ pump.task = n + 1 /\ n + 1 + transcripts <= turns /\ Handed = 1..n /\ n + 1 \in VoiceTasks
          /\ UNCHANGED <<turn, turns, transcripts, stopped, speechGeneration, loop, withdrawn, latest, watchers, vgeneration>>
          /\ fate' = [fate EXCEPT ![n + 1] = "live"] /\ active' = n + 1 /\ pump' = [pump EXCEPT !.at = "acknowledging"]
        <3>1. pump.at = "submitting" /\ pump.task = n + 1 /\ n + 1 + transcripts <= turns /\ Handed = 1..n
            BY <1>12, <2>1 DEF Submitted, InOrder
        <3>2. n + 1 \in VoiceTasks
            <4>1. n + 1 <= MaxTurns
                BY <1>a, <3>1
            <4> QED  BY <1>a, <4>1 DEF VoiceTasks
        <3> QED  BY <1>12, <3>1, <3>2 DEF Submitted
    <2>3. Handed' = 1..(n + 1)
        <3>1. fate'[n + 1] = "live" /\ \A t \in VoiceTasks : t # n + 1 => fate'[t] = fate[t]
            BY <1>0, <2>2 DEF TasksInOrder
        <3>2. \A t \in VoiceTasks : fate[t] # "absent" <=> t \in 1..n
            BY <2>2 DEF Handed, VoiceTasks
        <3>3. \A t \in VoiceTasks : fate'[t] # "absent" <=> t \in 1..(n + 1)
            BY <3>1, <3>2, TasksAreNumbers
        <3>4. 1..(n + 1) \subseteq VoiceTasks
            BY <1>a, <2>2 DEF VoiceTasks
        <3> QED  BY <3>3, <3>4 DEF Handed
    <2>4. pump' \in [at : {"ready", "submitting", "acknowledging", "closed"}, task : VoiceTasks \cup {Nobody}]
          /\ pump'.at = "acknowledging" /\ pump'.task = n + 1
        BY <1>0, <2>2 DEF TasksInOrder
    <2>5. n + 1 \in 0..MaxTurns /\ n + 1 \in Nat
        BY <1>a, <2>2 DEF VoiceTasks
    <2>6. InOrder(n + 1)'
        BY <2>2, <2>3, <2>4, <2>5 DEF InOrder
    <2>7. fate' \in [VoiceTasks -> {"absent", "live", "finished", "cancelled"}]
        BY <1>0, <2>2 DEF TasksInOrder
    <2>8. n + 1 \in 1..(n + 1) /\ n + 1 \notin 1..n /\ 1..n \subseteq 1..(n + 1)
        OBVIOUS
    <2>9. TasksInOrder'
        BY <2>3, <2>4, <2>5, <2>6, <2>7, <2>8 DEF TasksInOrder
    <2>10. WithdrawnForGood'
        BY <1>0, <2>2, <2>3, <2>8 DEF WithdrawnForGood
    <2>11. WatchersWait' /\ Counts' /\ Switches' /\ TurnsFit'
        BY <1>0, <2>2, <2>3, <2>8 DEF WatchersWait, Counts, Switches, TurnsFit
    <2> QED  BY <2>9, <2>10, <2>11 DEF VoiceInv
<1>13. ASSUME Acknowledged
       PROVE  VoiceInv'
    <2> DEFINE watcher == [task |-> pump.task, generation |-> vgeneration, at |-> "waiting", speech |-> Silence, heard |-> 0]
    <2>1. /\ UNCHANGED <<turn, turns, transcripts, stopped, speechGeneration, loop, active, withdrawn, fate, vgeneration>>
          /\ Handed' = Handed /\ pump.at = "acknowledging" /\ pump.task \in Handed
          /\ latest' = Speech("acknowledgment", pump.task) /\ watchers' = watchers \cup {watcher} /\ pump' = Resting
        BY <1>0, <1>13 DEF Acknowledged, Handed, TasksInOrder
    <2>2. pump.task \in VoiceTasks /\ latest' \in Speeches /\ Silence \in Speeches
        BY <2>1, TasksAreNumbers DEF Speech, Speeches, Silence
    <2>3. watcher \in Watchers /\ watcher.task = pump.task /\ watcher.generation = vgeneration
        BY <1>a, <2>2 DEF Watchers
    <2> HIDE DEF watcher
    <2>4. WatchersWait'
        BY <1>0, <1>a, <2>1, <2>2, <2>3 DEF WatchersWait
    <2>5. Counts' /\ Switches' /\ TurnsFit' /\ WithdrawnForGood'
        BY <1>0, <2>1 DEF Counts, Switches, TurnsFit, WithdrawnForGood
    <2>6. TasksInOrder'
        BY <1>0, <2>1 DEF TasksInOrder, InOrder, Resting
    <2> QED  BY <2>4, <2>5, <2>6 DEF VoiceInv
<1>14. ASSUME NEW w \in watchers, ResultSeen(w) \/ ResultTold(w) \/ ResultSpoken(w)
       PROVE  VoiceInv'
    <2>1. /\ UNCHANGED <<turn, turns, transcripts, stopped, speechGeneration, loop, pump, active, withdrawn, fate, vgeneration>>
          /\ Handed' = Handed
        BY <1>14 DEF ResultSeen, ResultTold, ResultSpoken, Handed
    <2>2. w \in Watchers /\ w.task \in Handed /\ w.generation <= vgeneration /\ latest \in Speeches
          /\ w.task \in VoiceTasks /\ speechGeneration \in Nat
        <3>1. w \in Watchers /\ w.task \in Handed /\ w.generation <= vgeneration /\ latest \in Speeches
            BY <1>0 DEF WatchersWait
        <3> QED  BY <3>1, <1>a, TasksAreNumbers
    <2>3. /\ [w EXCEPT !.at = "announcing"] \in Watchers
          /\ [w EXCEPT !.at = "announcing"].task = w.task /\ [w EXCEPT !.at = "announcing"].generation = w.generation
        BY <2>2 DEF Watchers
    <2>4. LET queued == [w EXCEPT !.at = "queued", !.speech = latest, !.heard = speechGeneration]
          IN  queued \in Watchers /\ queued.task = w.task /\ queued.generation = w.generation
        BY <2>2 DEF Watchers
    <2>5. \/ watchers' \subseteq watchers
          \/ \E x \in Watchers : x.task = w.task /\ x.generation = w.generation /\ watchers' \subseteq watchers \cup {x}
        BY <1>14, <2>3, <2>4 DEF ResultSeen, ResultTold, ResultSpoken, Becomes
    <2>6. latest' \in Speeches
        BY <1>14, <2>2 DEF ResultSeen, ResultTold, ResultSpoken, Speech, Speeches
    <2>7. WatchersWait'
        BY <1>0, <2>1, <2>2, <2>5, <2>6 DEF WatchersWait
    <2>8. Counts' /\ Switches' /\ TurnsFit' /\ WithdrawnForGood'
        BY <1>0, <2>1 DEF Counts, Switches, TurnsFit, WithdrawnForGood
    <2>9. TasksInOrder'
        BY <1>0, <2>1 DEF TasksInOrder, InOrder
    <2> QED  BY <2>7, <2>8, <2>9 DEF VoiceInv
<1>15. CASE UNCHANGED voiceVars
    BY <1>0, <1>15 DEF voiceVars, VoiceInv, Counts, Switches, TurnsFit, TasksInOrder, InOrder, WithdrawnForGood, WatchersWait, Handed
<1> QED  BY <1>1, <1>2, <1>3, <1>4, <1>5, <1>6, <1>7, <1>8, <1>9, <1>10, <1>11, <1>12, <1>13, <1>14, <1>15 DEF VoiceNext

\* One coroutine watches a task, begun once the task was acknowledged, and the generation of
\* speech it noted is not of the future.
OneWatcherEach ==
    /\ \A w, x \in watchers : w.task = x.task => w = x
    /\ pump.at = "acknowledging" => \A w \in watchers : w.task # pump.task
    /\ \A w \in watchers : w.at = "queued" => w.heard <= speechGeneration

\* What watches a silenced task waits in a generation that has passed.
StaysHushed(w) ==
    \/ w.at = "waiting" /\ w.generation < vgeneration
    \/ w.at = "queued" /\ w.heard < speechGeneration

HushedForGood ==
    /\ hushed \subseteq Handed
    /\ pump.at = "acknowledging" => pump.task \notin hushed
    /\ \A w \in watchers : w.task \in hushed => StaysHushed(w)

Quiet == OneWatcherEach /\ HushedForGood

\* The generations only grow, so that what was silenced stays so.
LEMMA QuietRests ==
    ASSUME VoiceInv, VoiceInv', Quiet, Handed \subseteq Handed', UNCHANGED hushed,
           watchers' \subseteq watchers, vgeneration <= vgeneration', speechGeneration <= speechGeneration',
           UNCHANGED pump \/ pump'.at # "acknowledging"
    PROVE  Quiet'
<1>1. /\ vgeneration \in Nat /\ vgeneration' \in Nat /\ speechGeneration \in Nat /\ speechGeneration' \in Nat
      /\ \A w \in watchers : w.generation \in Nat /\ w.heard \in Nat
    BY VoiceAssumption DEF VoiceInv, Counts, WatchersWait, Watchers
<1>2. OneWatcherEach'
    BY <1>1 DEF Quiet, OneWatcherEach
<1>3. \A w \in watchers : StaysHushed(w) => StaysHushed(w)'
    BY <1>1 DEF StaysHushed
<1>4. HushedForGood'
    BY <1>3 DEF Quiet, HushedForGood
<1> QED  BY <1>2, <1>4 DEF Quiet

\* An interruption silences those that wait for a speech, a stop those that wait for a result too.
LEMMA QuietGrows ==
    ASSUME VoiceInv, VoiceInv', Quiet, NEW places \in SUBSET {"queued", "waiting"}, Hush(places),
           UNCHANGED <<watchers, pump, fate>>,
           vgeneration' = IF "waiting" \in places THEN vgeneration + 1 ELSE vgeneration
    PROVE  Quiet'
<1>1. /\ vgeneration \in Nat /\ speechGeneration \in Nat
      /\ \A w \in watchers : w.generation \in Nat /\ w.heard \in Nat /\ w.task \in Handed /\ w.generation <= vgeneration
    BY VoiceAssumption DEF VoiceInv, Counts, WatchersWait, Watchers
<1>2. /\ speechGeneration' = speechGeneration + 1 /\ Handed' = Handed
      /\ hushed' = hushed \cup {w.task : w \in {x \in watchers : x.at \in places}}
    BY DEF Hush, Handed
<1>3. OneWatcherEach'
    BY <1>1, <1>2 DEF Quiet, OneWatcherEach
<1>4. ASSUME NEW w \in watchers, w.task \in hushed'
      PROVE  StaysHushed(w)'
    <2>1. CASE w.task \in hushed
        <3>1. StaysHushed(w)
            BY <2>1 DEF Quiet, HushedForGood
        <3> QED  BY <1>1, <1>2, <3>1 DEF StaysHushed
    <2>2. CASE w.at \in places
        <3>1. CASE w.at = "queued"
            <4>1. w.heard <= speechGeneration
                BY <3>1 DEF Quiet, OneWatcherEach
            <4> QED  BY <1>1, <1>2, <3>1, <4>1 DEF StaysHushed
        <3>2. CASE w.at = "waiting"
            <4>1. vgeneration' = vgeneration + 1
                BY <2>2, <3>2
            <4> QED  BY <1>1, <3>2, <4>1 DEF StaysHushed
        <3> QED  BY <2>2, <3>1, <3>2
    <2>3. w.task \in hushed \/ w.at \in places
        BY <1>2, <1>4 DEF Quiet, OneWatcherEach
    <2> QED  BY <2>1, <2>2, <2>3
<1>5. hushed' \subseteq Handed /\ (pump.at = "acknowledging" => pump.task \notin hushed')
    BY <1>1, <1>2 DEF Quiet, OneWatcherEach, HushedForGood
<1>6. HushedForGood'
    BY <1>2, <1>4, <1>5 DEF HushedForGood
<1> QED  BY <1>3, <1>6 DEF Quiet

LEMMA QuietStep ==
    ASSUME VoiceInv, VoiceInv', Quiet, [VoiceNext]_voiceVars
    PROVE  Quiet'
<1>a. /\ vgeneration \in Nat /\ speechGeneration \in Nat
      /\ \A w \in watchers : w.generation \in Nat /\ w.heard \in Nat /\ w.task \in Handed
    BY VoiceAssumption DEF VoiceInv, Counts, WatchersWait, Watchers
<1>1. CASE AppendAudio
    <2>1. UNCHANGED <<watchers, pump, fate, vgeneration>>
        BY <1>1 DEF AppendAudio
    <2>2. CASE Hush({"queued"})
        BY <2>1, <2>2, QuietGrows
    <2>3. CASE UNCHANGED <<speechGeneration, hushed>>
        BY <1>a, <2>1, <2>3, QuietRests DEF Handed
    <2> QED  BY <1>1, <2>2, <2>3 DEF AppendAudio
<1>2. CASE Interrupt
    <2>1. UNCHANGED <<watchers, pump, fate, vgeneration>> /\ Hush({"queued"})
        BY <1>2 DEF Interrupt
    <2> QED  BY <2>1, QuietGrows
<1>3. CASE Stop
    <2>1. UNCHANGED <<watchers, pump, fate>> /\ vgeneration' = vgeneration + 1 /\ Hush({"queued", "waiting"})
        BY <1>3 DEF Stop
    <2> QED  BY <2>1, QuietGrows
<1>4. CASE \/ StopLooks \/ OrderEnds \/ Resume \/ (\E replace \in BOOLEAN : Commit(replace))
           \/ (\E v \in voices : SpeechEnds(v)) \/ UNCHANGED voiceVars
    <2>1. UNCHANGED <<watchers, pump, fate, hushed, speechGeneration>>
        BY <1>4 DEF StopLooks, OrderEnds, Resume, Commit, SpeechEnds, voiceVars
    <2>2. UNCHANGED vgeneration \/ vgeneration' = vgeneration + 1
        BY <1>4 DEF StopLooks, OrderEnds, Resume, Commit, SpeechEnds, voiceVars
    <2>3. Handed' = Handed
        BY <2>1 DEF Handed
    <2>4. vgeneration <= vgeneration' /\ speechGeneration <= speechGeneration'
        BY <1>a, <2>1, <2>2
    <2> QED  BY <2>1, <2>3, <2>4, QuietRests
<1>5. CASE CancelRecorded \/ \E t \in VoiceTasks : TaskEnds(t)
    <2>1. UNCHANGED <<watchers, pump, hushed, speechGeneration, vgeneration>>
        BY <1>5 DEF CancelRecorded, TaskEnds
    <2>2. \A t \in VoiceTasks : fate[t] # "absent" => fate'[t] # "absent"
        BY <1>5 DEF CancelRecorded, TaskEnds, VoiceInv, TasksInOrder
    <2>3. Handed \subseteq Handed'
        BY <2>2 DEF Handed
    <2> QED  BY <1>a, <2>1, <2>3, QuietRests
<1>6. CASE Close \/ Hear
    <2>1. UNCHANGED <<hushed, speechGeneration, vgeneration, fate>> /\ watchers' \subseteq watchers /\ pump'.at # "acknowledging"
        BY <1>6 DEF Close, Hear, Resting
    <2> QED  BY <1>a, <2>1, QuietRests DEF Handed
<1>7. CASE Submitted
    <2>1. PICK n \in Nat : InOrder(n)
        BY DEF VoiceInv, TasksInOrder
    <2>2. pump.task = n + 1 /\ Handed = 1..n
        BY <1>7, <2>1 DEF Submitted, InOrder
    <2>3. pump.task \notin Handed
        BY <2>2
    <2>4. /\ UNCHANGED <<watchers, hushed, vgeneration, speechGeneration>>
          /\ fate' = [fate EXCEPT ![pump.task] = "live"] /\ pump' = [pump EXCEPT !.at = "acknowledging"]
        BY <1>7 DEF Submitted
    <2>5. pump'.task = pump.task
        BY <2>4 DEF VoiceInv, TasksInOrder
    <2>6. Handed \subseteq Handed'
        BY <2>4 DEF Handed, VoiceInv, TasksInOrder
    <2>7. OneWatcherEach'
        BY <1>a, <2>3, <2>4, <2>5 DEF Quiet, OneWatcherEach
    <2>8. HushedForGood'
        BY <2>3, <2>4, <2>5, <2>6 DEF Quiet, HushedForGood, StaysHushed
    <2> QED  BY <2>7, <2>8 DEF Quiet
<1>8. CASE Acknowledged
    <2> DEFINE watcher == [task |-> pump.task, generation |-> vgeneration, at |-> "waiting", speech |-> Silence, heard |-> 0]
    <2>1. /\ UNCHANGED <<fate, hushed, vgeneration, speechGeneration>> /\ pump.at = "acknowledging"
          /\ watchers' = watchers \cup {watcher} /\ pump'.at # "acknowledging"
        BY <1>8 DEF Acknowledged, Resting
    <2>2. watcher.task = pump.task /\ watcher.at = "waiting"
        OBVIOUS
    <2> HIDE DEF watcher
    <2>3. pump.task \notin hushed /\ \A w \in watchers : w.task # pump.task
        BY <2>1 DEF Quiet, OneWatcherEach, HushedForGood
    <2>4. OneWatcherEach'
        BY <2>1, <2>2, <2>3 DEF Quiet, OneWatcherEach
    <2>5. Handed' = Handed
        BY <2>1 DEF Handed
    <2>6. HushedForGood'
        BY <2>1, <2>2, <2>3, <2>5 DEF Quiet, HushedForGood, StaysHushed
    <2> QED  BY <2>4, <2>6 DEF Quiet
<1>9. ASSUME NEW w \in watchers, ResultSeen(w) \/ ResultTold(w) \/ ResultSpoken(w)
      PROVE  Quiet'
    <2> DEFINE telling == [w EXCEPT !.at = "announcing"]
               queued  == [w EXCEPT !.at = "queued", !.speech = latest, !.heard = speechGeneration]
    <2>1. UNCHANGED <<fate, hushed, vgeneration, speechGeneration, pump>> /\ Handed' = Handed
        BY <1>9 DEF ResultSeen, ResultTold, ResultSpoken, Handed
    <2>2. w \in Watchers
        BY DEF VoiceInv, WatchersWait
    <2>3. /\ telling.task = w.task /\ telling.at = "announcing"
          /\ queued.task = w.task /\ queued.at = "queued" /\ queued.heard = speechGeneration
        BY <2>2 DEF Watchers
    <2>4. w.task \in hushed => StaysHushed(w)
        BY DEF Quiet, HushedForGood
    <2>5. \/ watchers' = watchers \ {w}
          \/ watchers' = (watchers \ {w}) \cup {telling} /\ w.task \notin hushed
          \/ watchers' = (watchers \ {w}) \cup {queued} /\ w.task \notin hushed
        <3>1. CASE ResultSeen(w)
            <4>1. w.at = "waiting"
                BY <3>1 DEF ResultSeen
            <4>2. w.task \in hushed => vgeneration # w.generation
                BY <1>a, <2>4, <4>1 DEF StaysHushed
            <4> QED  BY <3>1, <4>2 DEF ResultSeen, Becomes
        <3>2. CASE ResultTold(w)
            <4>1. w.at = "announcing" /\ watchers' = (watchers \ {w}) \cup {queued}
                BY <3>2 DEF ResultTold, Becomes
            <4> QED  BY <2>4, <4>1 DEF StaysHushed
        <3>3. CASE ResultSpoken(w)
            BY <3>3 DEF ResultSpoken, Becomes
        <3> QED  BY <1>9, <3>1, <3>2, <3>3
    <2> HIDE DEF telling, queued
    <2>6. ASSUME NEW x, x.task = w.task, x.at = "announcing" \/ (x.at = "queued" /\ x.heard = speechGeneration),
                 w.task \notin hushed, watchers' = (watchers \ {w}) \cup {x}
          PROVE  Quiet'
        <3>1. OneWatcherEach'
            BY <1>a, <2>1, <2>6 DEF Quiet, OneWatcherEach
        <3>2. HushedForGood'
            BY <2>1, <2>6 DEF Quiet, HushedForGood, StaysHushed
        <3> QED  BY <3>1, <3>2 DEF Quiet
    <2>7. CASE watchers' = watchers \ {w}
        BY <1>a, <2>1, <2>7, QuietRests
    <2> QED  BY <2>3, <2>5, <2>6, <2>7
<1> QED  BY <1>1, <1>2, <1>3, <1>4, <1>5, <1>6, <1>7, <1>8, <1>9 DEF VoiceNext

LEMMA VoiceHolds == VoiceSpec => []VoiceInv
<1>1. VoiceInit => VoiceInv
    <2> SUFFICES ASSUME VoiceInit PROVE VoiceInv
        OBVIOUS
    <2>1. Handed = {} /\ Resting.at = "ready" /\ Resting.task = Nobody
        BY DEF VoiceInit, Handed, Resting
    <2>2. Counts
        BY VoiceAssumption DEF VoiceInit, Counts
    <2>6. Switches /\ TurnsFit
        BY <2>1, LoopPlaces DEF VoiceInit, Switches, TurnsFit
    <2>3. InOrder(0)
        BY <2>1, VoiceAssumption DEF VoiceInit, InOrder
    <2>4. TasksInOrder
        BY <2>1, <2>3 DEF VoiceInit, TasksInOrder, Resting
    <2>5. WithdrawnForGood /\ WatchersWait
        BY <2>1 DEF VoiceInit, WithdrawnForGood, WatchersWait, Orders, Silence, Speech, Speeches
    <2> QED  BY <2>2, <2>4, <2>5, <2>6 DEF VoiceInv
<1>2. VoiceInv /\ [VoiceNext]_voiceVars => VoiceInv'
    BY VoiceStep
<1> QED  BY <1>1, <1>2, PTL DEF VoiceSpec

\* The session's state keeps its types, whatever the orders and turns.
THEOREM VoiceTypesHold == VoiceSpec => []VoiceTypeOK
<1>1. VoiceInv => VoiceTypeOK
    <2> SUFFICES ASSUME VoiceInv PROVE VoiceTypeOK
        OBVIOUS
    <2>1. transcripts \in 0..MaxTurns
        BY CountsAreNumbers DEF VoiceInv
    <2>2. {vgeneration, speechGeneration} \subseteq 0..MaxStops /\ {turns, transcripts} \subseteq 0..MaxTurns
        BY <2>1 DEF VoiceInv, Counts
    <2>3. \A w \in watchers : fate[w.task] # "absent" /\ w.generation <= vgeneration
        BY DEF VoiceInv, WatchersWait, Handed
    <2>4. active \in VoiceTasks \cup {Nobody}
        BY TasksAreNumbers DEF VoiceInv, WithdrawnForGood
    <2> QED  BY <2>2, <2>3, <2>4 DEF VoiceInv, Switches, TasksInOrder, VoiceTypeOK
<1> QED  BY <1>1, VoiceHolds, PTL

\* What an order has taken back is never told afterwards, and what was awaited or waited to be
\* spoken when it was silenced is neither told nor spoken: for any number of turns, stops,
\* resumptions, interruptions and watchers.
THEOREM WithdrawnStaysSilent == VoiceSpec => WithdrawnIsSilent
<1> DEFINE Said(t)  == Speech("completion", t)
           Silent   == /\ announced' \cap (withdrawn \cup hushed) \subseteq announced
                       /\ \A t \in hushed : Said(t) \in voices' => Said(t) \in voices
<1>1. VoiceInit => Quiet
    BY DEF VoiceInit, Quiet, OneWatcherEach, HushedForGood, Resting
<1>2. VoiceInv /\ Quiet /\ VoiceInv' /\ [VoiceNext]_voiceVars => Quiet'
    BY QuietStep
<1>3. VoiceInv /\ Quiet /\ [VoiceNext]_voiceVars => [Silent]_voiceVars
    <2> SUFFICES ASSUME VoiceInv, Quiet, VoiceNext
                 PROVE  Silent
        OBVIOUS
    <2>1. ASSUME NEW w \in watchers, ResultSeen(w)
          PROVE  Silent
        <3>1. UNCHANGED voices /\ w.at = "waiting"
            BY <2>1 DEF ResultSeen
        <3>2. UNCHANGED announced \/ (active = w.task /\ vgeneration = w.generation /\ announced' = announced \cup {w.task})
            BY <2>1 DEF ResultSeen
        <3>3. active \notin withdrawn
            BY DEF VoiceInv, WithdrawnForGood
        <3>4. vgeneration = w.generation => w.task \notin hushed
            <4>1. w.generation \in Nat
                BY DEF VoiceInv, WatchersWait, Watchers
            <4> QED  BY <3>1, <4>1 DEF Quiet, HushedForGood, StaysHushed
        <3> QED  BY <3>1, <3>2, <3>3, <3>4
    <2>2. ASSUME NEW w \in watchers, ResultSpoken(w)
          PROVE  Silent
        <3>1. UNCHANGED announced /\ w.at = "queued"
            BY <2>2 DEF ResultSpoken
        <3>2. UNCHANGED voices \/ (speechGeneration = w.heard /\ voices' = voices \cup {Said(w.task)})
            BY <2>2 DEF ResultSpoken
        <3>3. speechGeneration = w.heard => w.task \notin hushed
            <4>1. w.heard \in Nat
                BY DEF VoiceInv, WatchersWait, Watchers
            <4> QED  BY <3>1, <4>1 DEF Quiet, HushedForGood, StaysHushed
        <3>4. \A t : Said(t) = Said(w.task) => t = w.task
            BY DEF Speech
        <3> HIDE DEF Said
        <3> QED  BY <3>1, <3>2, <3>3, <3>4
    <2>3. CASE Acknowledged
        <3>1. UNCHANGED announced /\ voices' = voices \cup {Speech("acknowledgment", pump.task)}
            BY <2>3 DEF Acknowledged
        <3>2. \A t : Said(t) # Speech("acknowledgment", pump.task)
            BY DEF Speech
        <3> HIDE DEF Said
        <3> QED  BY <3>1, <3>2
    <2>4. CASE UNCHANGED announced /\ voices' \subseteq voices
        BY <2>4
    <2>5. \/ UNCHANGED announced /\ voices' \subseteq voices
          \/ Acknowledged \/ \E w \in watchers : ResultSeen(w) \/ ResultSpoken(w)
        BY DEF VoiceNext, AppendAudio, Hush, Interrupt, Stop, StopLooks, CancelRecorded, OrderEnds, Resume, Close, Commit, Hear,
               Submitted, ResultTold, SpeechEnds, TaskEnds
    <2> QED  BY <2>1, <2>2, <2>3, <2>4, <2>5
<1> QED  BY <1>1, <1>2, <1>3, VoiceHolds, PTL DEF VoiceSpec, WithdrawnIsSilent

-----------------------------------------------------------------------------
(***************************************************************************)
(* CapabilityRegistry.  Unless a removal is under way, what is offered is  *)
(* what a synchronisation at this moment would offer.                      *)
(***************************************************************************)
Conditions == {"unknown", "healthy", "unavailable"}
Unlike(r)  == \A m, n \in DOMAIN r : NameOf[r[m]] = NameOf[r[n]] => m = n

RegistryTyped ==
    /\ serving \in {"starting", "up", "down", "failed"}
    /\ registry \in Seq(Providers) /\ Unlike(registry)
    /\ ToSet(registry) \subseteq made /\ builds \subseteq made /\ made \subseteq Providers
    /\ health \in [Providers -> Conditions]
    /\ \A p \in Providers : health[p] = "healthy" => p \in made

Errands ==
    /\ awaiting \subseteq {"connect", "disconnect"} \X made
    /\ awaiting # {} => serving = "up"
    /\ serving = "starting" => registry = Startup /\ made = ToSet(Startup)

OfferedOnce == \A a, b \in offered : a[1] = b[1] => a = b

InService(o, r, h, w) == o[2] = Own \/ (o[2] \in ToSet(r) /\ h[o[2]] = "healthy") \/ <<"disconnect", o[2]>> \in w

OffersServe ==
    serving = "up" => /\ \A o \in offered : InService(o, registry, health, awaiting)
                      /\ \A t \in LocalTools : <<t, Own>> \in offered

InStep == serving = "up" /\ ~Removing => offered = Synced(registry, health)

RegistryInv == RegistryTyped /\ Errands /\ OfferedOnce /\ OffersServe /\ InStep

LEMMA SlotsArePairs ==
    ASSUME NEW r \in Seq(Providers), NEW h, NEW s \in Slots(r, h)
    PROVE  /\ s = <<s[1], s[2]>> /\ s[1] \in DOMAIN r /\ s[1] \in Nat /\ s[2] \in Nat
           /\ r[s[1]] \in ToSet(r) /\ h[r[s[1]]] = "healthy"
<1>1. PICK n \in DOMAIN r : s \in {n} \X DOMAIN ToolsOf[r[n]]
    BY DEF Slots
<1>2. s = <<s[1], s[2]>> /\ s[1] = n /\ s[2] \in DOMAIN ToolsOf[r[n]]
    BY <1>1
<1>3. r[n] \in Providers /\ n \in Nat
    BY <1>1
<1> QED  BY <1>1, <1>2, <1>3, RegistryAssumption DEF Slots, ToSet

\* A synchronisation gives each name to one provider, offers the tools of the process, and no
\* other tools than those of providers that are registered and healthy.
LEMMA SyncedIsSound ==
    ASSUME NEW r \in Seq(Providers), NEW h
    PROVE  /\ \A a, b \in Synced(r, h) : a[1] = b[1] => a = b
           /\ \A o \in Synced(r, h) : o[2] = Own \/ (o[2] \in ToSet(r) /\ h[o[2]] = "healthy")
           /\ \A t \in LocalTools : <<t, Own>> \in Synced(r, h)
<1> DEFINE local == {<<t, Own>> : t \in LocalTools}
           free == {s \in Slots(r, h) : ~Clashes(r, h, s)}
<1>1. /\ local \subseteq Synced(r, h)
      /\ \A o \in Synced(r, h) : o \in local \/ \E s \in free : o = ToolAt(r, s)
    BY DEF Synced
<1>2. \A o \in local : o[1] \in LocalTools /\ o[2] = Own /\ o = <<o[1], Own>>
    OBVIOUS
<1>3. \A s \in free : ToolAt(r, s)[1] \notin LocalTools /\ ToolAt(r, s)[2] = r[s[1]]
    BY DEF Clashes, ToolAt
<1>4. \A s, t \in free : ToolAt(r, s)[1] = ToolAt(r, t)[1] => s = t
    <2> SUFFICES ASSUME NEW s \in free, NEW t \in free, ToolAt(r, s)[1] = ToolAt(r, t)[1] PROVE s = t
        OBVIOUS
    <2>1. ~Before(s, t) /\ ~Before(t, s)
        BY DEF Clashes
    <2>2. s = <<s[1], s[2]>> /\ t = <<t[1], t[2]>> /\ s[1] \in Nat /\ s[2] \in Nat /\ t[1] \in Nat /\ t[2] \in Nat
        BY SlotsArePairs
    <2>3. s[1] = t[1] /\ s[2] = t[2]
        BY <2>1, <2>2 DEF Before
    <2> QED  BY <2>2, <2>3
<1>5. \A s \in free : r[s[1]] \in ToSet(r) /\ h[r[s[1]]] = "healthy"
    BY SlotsArePairs
<1> HIDE DEF local, free
<1>6. \A a, b \in Synced(r, h) : a[1] = b[1] => a = b
    BY <1>1, <1>2, <1>3, <1>4
<1>7. \A o \in Synced(r, h) : o[2] = Own \/ (o[2] \in ToSet(r) /\ h[o[2]] = "healthy")
    BY <1>1, <1>2, <1>3, <1>5
<1>8. \A t \in LocalTools : <<t, Own>> \in Synced(r, h)
    BY <1>1 DEF local
<1> QED  BY <1>6, <1>7, <1>8

\* A provider that does not answer changes nothing when it is registered last.
LEMMA SyncedAlike ==
    ASSUME NEW r \in Seq(Providers), NEW h, NEW p \in Providers, h[p] # "healthy"
    PROVE  Synced(Append(r, p), h) = Synced(r, h)
<1> DEFINE q == Append(r, p)
<1>1. q \in Seq(Providers) /\ DOMAIN q = DOMAIN r \cup {Len(r) + 1} /\ q[Len(r) + 1] = p /\ \A n \in DOMAIN r : q[n] = r[n]
    OBVIOUS
<1> HIDE DEF q
<1>2. Slots(q, h) = Slots(r, h)
    <2>1. \A s \in Slots(q, h) : s \in Slots(r, h)
        <3> SUFFICES ASSUME NEW s \in Slots(q, h) PROVE s \in Slots(r, h)
            OBVIOUS
        <3>1. PICK n \in DOMAIN q : s \in {n} \X DOMAIN ToolsOf[q[n]]
            BY DEF Slots
        <3>2. s[1] = n /\ h[q[n]] = "healthy"
            BY <3>1 DEF Slots
        <3>3. n \in DOMAIN r /\ q[n] = r[n]
            BY <1>1, <3>2
        <3> QED  BY <3>1, <3>2, <3>3 DEF Slots
    <2>2. \A s \in Slots(r, h) : s \in Slots(q, h)
        <3> SUFFICES ASSUME NEW s \in Slots(r, h) PROVE s \in Slots(q, h)
            OBVIOUS
        <3>1. PICK n \in DOMAIN r : s \in {n} \X DOMAIN ToolsOf[r[n]]
            BY DEF Slots
        <3>2. s[1] = n /\ h[r[n]] = "healthy"
            BY <3>1 DEF Slots
        <3> QED  BY <1>1, <3>1, <3>2 DEF Slots
    <2> QED  BY <2>1, <2>2
<1>3. \A s \in Slots(r, h) : ToolAt(q, s) = ToolAt(r, s)
    <2> SUFFICES ASSUME NEW s \in Slots(r, h) PROVE ToolAt(q, s) = ToolAt(r, s)
        OBVIOUS
    <2>1. s[1] \in DOMAIN r
        BY SlotsArePairs
    <2> QED  BY <1>1, <2>1 DEF ToolAt
<1>4. \A s \in Slots(r, h) : Clashes(q, h, s) <=> Clashes(r, h, s)
    BY <1>2, <1>3 DEF Clashes
<1> DEFINE reached(t) == {s \in Slots(t, h) : \A u \in Slots(t, h) : (u = s \/ Before(u, s)) => ~Clashes(t, h, u)}
<1>5. reached(q) = reached(r) /\ reached(r) \subseteq Slots(r, h)
    BY <1>2, <1>4
<1>6. Synced(q, h) = {<<t, Own>> : t \in LocalTools} \cup {ToolAt(q, s) : s \in reached(q)}
      /\ Synced(r, h) = {<<t, Own>> : t \in LocalTools} \cup {ToolAt(r, s) : s \in reached(r)}
    BY DEF Synced
<1> HIDE DEF reached
<1>7. {ToolAt(q, s) : s \in reached(q)} = {ToolAt(r, s) : s \in reached(r)}
    BY <1>3, <1>5
<1>8. Synced(q, h) = Synced(r, h)
    BY <1>6, <1>7
<1> QED  BY <1>8 DEF q

\* While no two names are the same, every tool of a healthy provider is offered.
LEMMA DistinctAreOffered ==
    ASSUME Distinct
    PROVE  \A s \in Slots(registry, health) : ToolAt(registry, s) \in Synced(registry, health)
BY DEF Distinct, Synced

\* Taking a provider out leaves the others, in their order.
LEMMA TakenOut ==
    ASSUME registry \in Seq(Providers), Unlike(registry), NEW p \in ToSet(registry)
    PROVE  LET r == RemoveAt(registry, Place(p))
           IN  r \in Seq(Providers) /\ Unlike(r) /\ ToSet(r) = ToSet(registry) \ {p}
<1> DEFINE i == Place(p)
           r == RemoveAt(registry, i)
<1>1. i \in 1..Len(registry) /\ registry[i] = p
    <2>1. \E n \in DOMAIN registry : registry[n] = p
        BY DEF ToSet
    <2> QED  BY <2>1 DEF Place
<1> HIDE DEF i
<1>2. /\ r \in Seq(Providers) /\ Len(r) = Len(registry) - 1
      /\ \A n \in 1..Len(r) : r[n] = IF n < i THEN registry[n] ELSE registry[n + 1]
    <2> DEFINE before == SubSeq(registry, 1, i - 1)
               after == SubSeq(registry, i + 1, Len(registry))
    <2>1. before \in Seq(Providers) /\ Len(before) = i - 1 /\ \A n \in 1..(i - 1) : before[n] = registry[n]
        BY <1>1
    <2>2. after \in Seq(Providers) /\ Len(after) = Len(registry) - i
          /\ \A n \in 1..(Len(registry) - i) : after[n] = registry[n + i]
        BY <1>1
    <2>3. r = before \o after
        BY DEF RemoveAt
    <2> HIDE DEF before, after, r
    <2>4. r \in Seq(Providers) /\ Len(r) = Len(registry) - 1
        BY <1>1, <2>1, <2>2, <2>3
    <2>5. \A n \in 1..Len(r) : r[n] = IF n < i THEN registry[n] ELSE registry[n + 1]
        <3> SUFFICES ASSUME NEW n \in 1..Len(r) PROVE r[n] = IF n < i THEN registry[n] ELSE registry[n + 1]
            OBVIOUS
        <3>1. CASE n < i
            BY <1>1, <2>1, <2>2, <2>3, <2>4, <3>1
        <3>2. CASE ~(n < i)
            <4>1. n - (i - 1) \in 1..(Len(registry) - i) /\ (n - (i - 1)) + i = n + 1
                BY <1>1, <2>4, <3>2
            <4>2. r[n] = after[n - (i - 1)]
                BY <1>1, <2>1, <2>2, <2>3, <2>4, <3>2
            <4> QED  BY <2>2, <3>2, <4>1, <4>2
        <3> QED  BY <3>1, <3>2
    <2> QED  BY <2>4, <2>5
<1> HIDE DEF r
<1>3. \A m, n \in 1..Len(registry) : registry[m] = registry[n] => m = n
    BY DEF Unlike
<1>4. Unlike(r)
    <2> SUFFICES ASSUME NEW m \in 1..Len(r), NEW n \in 1..Len(r), NameOf[r[m]] = NameOf[r[n]] PROVE m = n
        BY <1>2 DEF Unlike
    <2>1. PICK j \in 1..Len(registry) : r[m] = registry[j] /\ j = IF m < i THEN m ELSE m + 1
        BY <1>1, <1>2
    <2>2. PICK k \in 1..Len(registry) : r[n] = registry[k] /\ k = IF n < i THEN n ELSE n + 1
        BY <1>1, <1>2
    <2>3. j = k
        BY <2>1, <2>2 DEF Unlike
    <2> QED  BY <1>1, <2>1, <2>2, <2>3
<1>5. ToSet(r) \subseteq ToSet(registry) \ {p}
    <2> SUFFICES ASSUME NEW n \in 1..Len(r) PROVE r[n] \in ToSet(registry) \ {p}
        BY <1>2 DEF ToSet
    <2>1. PICK j \in 1..Len(registry) : r[n] = registry[j] /\ j = IF n < i THEN n ELSE n + 1
        BY <1>1, <1>2
    <2>2. j # i
        BY <1>1, <2>1
    <2> QED  BY <1>1, <1>3, <2>1, <2>2 DEF ToSet
<1>6. ToSet(registry) \ {p} \subseteq ToSet(r)
    <2> SUFFICES ASSUME NEW j \in 1..Len(registry), registry[j] # p PROVE registry[j] \in ToSet(r)
        BY DEF ToSet
    <2>1. PICK n \in 1..Len(r) : n = IF j < i THEN j ELSE j - 1
        BY <1>1, <1>2
    <2>2. r[n] = registry[j]
        BY <1>1, <1>2, <2>1
    <2> QED  BY <1>2, <2>1, <2>2 DEF ToSet
<1> QED  BY <1>2, <1>4, <1>5, <1>6 DEF r, i

\* What a synchronisation at the end of a step leaves.
LEMMA SyncedAgain ==
    ASSUME registry' \in Seq(Providers), offered' = Synced(registry', health')
    PROVE  OfferedOnce' /\ OffersServe' /\ InStep'
<1>1. PICK r \in Seq(Providers) : r = registry'
    OBVIOUS
<1>2. PICK h : h = health'
    OBVIOUS
<1>3. /\ \A a, b \in offered' : a[1] = b[1] => a = b
      /\ \A o \in offered' : o[2] = Own \/ (o[2] \in ToSet(registry') /\ health'[o[2]] = "healthy")
      /\ \A t \in LocalTools : <<t, Own>> \in offered'
    BY <1>1, <1>2, SyncedIsSound
<1> QED  BY <1>3 DEF OfferedOnce, OffersServe, InStep, InService

\* A provider of a new name is registered last.
LEMMA Appended ==
    ASSUME registry \in Seq(Providers), Unlike(registry), NEW p \in Providers, NameOf[p] \notin Names(registry),
           registry' = Append(registry, p)
    PROVE  registry' \in Seq(Providers) /\ Unlike(registry)' /\ ToSet(registry') = ToSet(registry) \cup {p}
<1> DEFINE r == Append(registry, p)
<1>1. /\ r \in Seq(Providers) /\ DOMAIN r = DOMAIN registry \cup {Len(registry) + 1} /\ r[Len(registry) + 1] = p
      /\ \A n \in DOMAIN registry : r[n] = registry[n]
    OBVIOUS
<1>2. \A n \in DOMAIN registry : NameOf[registry[n]] # NameOf[p]
    BY DEF Names
<1> HIDE DEF r
<1>3. Unlike(r)
    BY <1>1, <1>2 DEF Unlike
<1>4. ToSet(r) = ToSet(registry) \cup {p}
    BY <1>1 DEF ToSet
<1>5. registry' = r
    BY DEF r
<1> QED  BY <1>1, <1>3, <1>4, <1>5

LEMMA RegistryStep ==
    ASSUME RegistryInv, [RegistryNext]_registryVars
    PROVE  RegistryInv'
<1>0. RegistryTyped /\ Errands /\ OfferedOnce /\ OffersServe /\ InStep
    BY DEF RegistryInv
<1>1. ASSUME NEW up \in SUBSET ToSet(Startup), Start(up)
      PROVE  RegistryInv'
    <2>1. /\ serving = "starting" /\ serving' \in {"up", "failed"} /\ UNCHANGED <<registry, made, awaiting, builds>>
          /\ registry = Startup /\ made = ToSet(Startup) /\ awaiting = {}
        BY <1>0, <1>1 DEF Start, Errands
    <2>2. health' \in [Providers -> Conditions] /\ \A p \in Providers : health'[p] = "healthy" => p \in made'
        BY <1>1, <2>1 DEF Start, Conditions
    <2>3. RegistryTyped'
        BY <1>0, <2>1, <2>2 DEF RegistryTyped
    <2>4. Errands'
        BY <2>1 DEF Errands
    <2>5. OfferedOnce' /\ OffersServe' /\ InStep'
        <3>1. CASE serving' = "failed"
            <4>1. UNCHANGED offered
                BY <1>1, <3>1 DEF Start
            <4> QED  BY <1>0, <3>1, <4>1 DEF OfferedOnce, OffersServe, InStep
        <3>2. CASE serving' = "up"
            <4>1. offered' = Synced(registry', health')
                BY <1>1, <2>1, <3>2 DEF Start
            <4>2. registry' \in Seq(Providers)
                BY <2>3 DEF RegistryTyped
            <4> QED  BY <4>1, <4>2, SyncedAgain
        <3> QED  BY <2>1, <3>1, <3>2
    <2> QED  BY <2>3, <2>4, <2>5 DEF RegistryInv
<1>2. ASSUME NEW p \in Providers, InstallMcp(p)
      PROVE  RegistryInv'
    <2>1. serving = "up" /\ p \notin made /\ made' = made \cup {p} /\ UNCHANGED <<serving, health, offered, builds>>
        BY <1>2 DEF InstallMcp
    <2>2. CASE NameOf[p] \in Names(registry)
        <3>1. UNCHANGED <<registry, awaiting>>
            BY <1>2, <2>2 DEF InstallMcp
        <3>2. RegistryTyped'
            BY <1>0, <2>1, <3>1 DEF RegistryTyped
        <3>3. Errands'
            BY <1>0, <2>1, <3>1 DEF Errands
        <3> QED  BY <1>0, <2>1, <3>1, <3>2, <3>3 DEF OfferedOnce, OffersServe, InStep, Removing, RegistryInv
    <2>3. CASE NameOf[p] \notin Names(registry)
        <3>1. registry' = Append(registry, p) /\ awaiting' = awaiting \cup {<<"connect", p>>}
            BY <1>2, <2>3 DEF InstallMcp
        <3>2. registry' \in Seq(Providers) /\ Unlike(registry)' /\ ToSet(registry') = ToSet(registry) \cup {p}
            BY <1>0, <2>3, <3>1, Appended DEF RegistryTyped
        <3>3. RegistryTyped'
            BY <1>0, <2>1, <3>2 DEF RegistryTyped
        <3>4. Errands'
            BY <1>0, <2>1, <3>1 DEF Errands
        <3>5. health[p] # "healthy"
            BY <1>0, <2>1 DEF RegistryTyped
        <3>6. Synced(registry', health') = Synced(registry, health)
            BY <1>0, <2>1, <3>1, <3>5, SyncedAlike DEF RegistryTyped
        <3>7. InStep' /\ OfferedOnce'
            BY <1>0, <2>1, <3>1, <3>6 DEF InStep, Removing, OfferedOnce
        <3>8. OffersServe'
            BY <1>0, <2>1, <3>1, <3>2 DEF OffersServe, InService
        <3> QED  BY <3>3, <3>4, <3>7, <3>8 DEF RegistryInv
    <2> QED  BY <2>2, <2>3
<1>3. ASSUME NEW p \in Providers, NEW h \in {"healthy", "unavailable"}, Connected(p, h)
      PROVE  RegistryInv'
    <2>1. /\ <<"connect", p>> \in awaiting /\ awaiting' = awaiting \ {<<"connect", p>>}
          /\ health' = [health EXCEPT ![p] = h] /\ offered' = Synced(registry', health')
          /\ UNCHANGED <<serving, registry, made, builds>>
        BY <1>3 DEF Connected
    <2>2. p \in made /\ serving = "up"
        BY <1>0, <2>1 DEF Errands
    <2>3. health' \in [Providers -> Conditions] /\ \A x \in Providers : health'[x] = "healthy" => x \in made
        BY <1>0, <2>1, <2>2 DEF RegistryTyped, Conditions
    <2>4. RegistryTyped'
        BY <1>0, <2>1, <2>3 DEF RegistryTyped
    <2>5. Errands'
        BY <1>0, <2>1, <2>2 DEF Errands
    <2>6. registry' \in Seq(Providers)
        BY <2>4 DEF RegistryTyped
    <2> QED  BY <2>1, <2>4, <2>5, <2>6, SyncedAgain DEF RegistryInv
<1>4. ASSUME NEW p \in Providers, NEW passed \in BOOLEAN, Ingest(p, passed)
      PROVE  RegistryInv'
    <2>1. serving = "up" /\ p \notin made /\ made' = made \cup {p} /\ UNCHANGED <<serving, awaiting>>
        BY <1>4 DEF Ingest
    <2>2. Errands'
        BY <1>0, <2>1 DEF Errands
    <2>3. CASE passed /\ NameOf[p] \notin Names(registry)
        <3>1. /\ registry' = Append(registry, p) /\ health' = [health EXCEPT ![p] = "healthy"]
              /\ offered' = Synced(registry', health') /\ builds' = builds \cup {p}
            BY <1>4, <2>3 DEF Ingest
        <3>2. registry' \in Seq(Providers) /\ Unlike(registry)' /\ ToSet(registry') = ToSet(registry) \cup {p}
            BY <1>0, <2>3, <3>1, Appended DEF RegistryTyped
        <3>3. health' \in [Providers -> Conditions] /\ \A x \in Providers : health'[x] = "healthy" => x \in made'
            BY <1>0, <2>1, <3>1 DEF RegistryTyped, Conditions
        <3>4. RegistryTyped'
            BY <1>0, <2>1, <3>1, <3>2, <3>3 DEF RegistryTyped
        <3> QED  BY <2>2, <3>1, <3>2, <3>4, SyncedAgain DEF RegistryInv
    <2>4. CASE ~(passed /\ NameOf[p] \notin Names(registry))
        <3>1. UNCHANGED <<registry, health, offered, builds>>
            BY <1>4, <2>4 DEF Ingest
        <3>2. RegistryTyped'
            BY <1>0, <2>1, <3>1 DEF RegistryTyped
        <3> QED  BY <1>0, <2>1, <2>2, <3>1, <3>2 DEF OfferedOnce, OffersServe, InStep, Removing, RegistryInv
    <2> QED  BY <2>3, <2>4
<1>5. ASSUME NEW p \in Providers, Uninstall(p)
      PROVE  RegistryInv'
    <2>1. /\ serving = "up" /\ p \in ToSet(registry) /\ registry' = RemoveAt(registry, Place(p))
          /\ UNCHANGED <<serving, made, builds>>
        BY <1>5 DEF Uninstall
    <2>2. registry' \in Seq(Providers) /\ Unlike(registry)' /\ ToSet(registry') = ToSet(registry) \ {p}
        <3>1. PICK r : r = RemoveAt(registry, Place(p))
            OBVIOUS
        <3>2. r \in Seq(Providers) /\ Unlike(r) /\ ToSet(r) = ToSet(registry) \ {p}
            BY <1>0, <2>1, <3>1, TakenOut DEF RegistryTyped
        <3> QED  BY <2>1, <3>1, <3>2
    <2>3. p \in made
        BY <1>0, <2>1 DEF RegistryTyped
    <2>4. CASE p \in Mcp
        <3>1. awaiting' = awaiting \cup {<<"disconnect", p>>} /\ UNCHANGED <<health, offered>>
            BY <1>5, <2>4 DEF Uninstall
        <3>2. RegistryTyped'
            BY <1>0, <2>1, <2>2, <3>1 DEF RegistryTyped
        <3>3. Errands'
            BY <1>0, <2>1, <2>3, <3>1 DEF Errands
        <3>4. Removing'
            BY <3>1 DEF Removing
        <3>5. OffersServe'
            BY <1>0, <2>1, <2>2, <3>1 DEF OffersServe, InService
        <3> QED  BY <1>0, <3>1, <3>2, <3>3, <3>4, <3>5 DEF OfferedOnce, InStep, RegistryInv
    <2>5. CASE p \notin Mcp
        <3>1. /\ UNCHANGED awaiting /\ health' = [health EXCEPT ![p] = "unavailable"]
              /\ offered' = Synced(registry', health')
            BY <1>5, <2>5 DEF Uninstall, Gone
        <3>2. health' \in [Providers -> Conditions] /\ \A x \in Providers : health'[x] = "healthy" => x \in made
            BY <1>0, <3>1 DEF RegistryTyped, Conditions
        <3>3. RegistryTyped'
            BY <1>0, <2>1, <2>2, <3>2 DEF RegistryTyped
        <3>4. Errands'
            BY <1>0, <2>1, <3>1 DEF Errands
        <3> QED  BY <2>2, <3>1, <3>3, <3>4, SyncedAgain DEF RegistryInv
    <2> QED  BY <2>4, <2>5
<1>6. ASSUME NEW p \in Providers, Disconnected(p)
      PROVE  RegistryInv'
    <2>1. /\ <<"disconnect", p>> \in awaiting /\ awaiting' = awaiting \ {<<"disconnect", p>>}
          /\ health' = [health EXCEPT ![p] = "unavailable"] /\ offered' = Synced(registry', health')
          /\ UNCHANGED <<serving, registry, made, builds>>
        BY <1>6 DEF Disconnected, Gone
    <2>2. health' \in [Providers -> Conditions] /\ \A x \in Providers : health'[x] = "healthy" => x \in made
        BY <1>0, <2>1 DEF RegistryTyped, Conditions
    <2>3. RegistryTyped'
        BY <1>0, <2>1, <2>2 DEF RegistryTyped
    <2>4. Errands'
        BY <1>0, <2>1 DEF Errands
    <2>5. registry' \in Seq(Providers)
        BY <2>3 DEF RegistryTyped
    <2> QED  BY <2>1, <2>3, <2>4, <2>5, SyncedAgain DEF RegistryInv
<1>7. ASSUME Shutdown
      PROVE  RegistryInv'
    <2>1. /\ serving = "up" /\ serving' = "down" /\ awaiting = {} /\ UNCHANGED <<registry, made, awaiting, builds>>
          /\ offered' = Synced(registry', health')
          /\ health' = [p \in Providers |-> IF p \in ToSet(registry) THEN "unavailable" ELSE health[p]]
        BY <1>7 DEF Shutdown
    <2>2. health' \in [Providers -> Conditions] /\ \A x \in Providers : health'[x] = "healthy" => x \in made
        BY <1>0, <2>1 DEF RegistryTyped, Conditions
    <2>3. RegistryTyped'
        BY <1>0, <2>1, <2>2 DEF RegistryTyped
    <2>4. Errands'
        BY <2>1 DEF Errands
    <2>5. registry' \in Seq(Providers)
        BY <2>3 DEF RegistryTyped
    <2> QED  BY <2>1, <2>3, <2>4, <2>5, SyncedAgain DEF RegistryInv
<1>8. CASE UNCHANGED registryVars
    BY <1>0, <1>8 DEF registryVars, RegistryTyped, Errands, OfferedOnce, OffersServe, InStep, Removing, RegistryInv
<1> QED  BY <1>1, <1>2, <1>3, <1>4, <1>5, <1>6, <1>7, <1>8 DEF RegistryNext

LEMMA RegistryHolds == RegistrySpec => []RegistryInv
<1>1. RegistryInit => RegistryInv
    <2> SUFFICES ASSUME RegistryInit PROVE RegistryInv
        OBVIOUS
    <2>1. ToSet(Startup) \subseteq Providers /\ Unlike(Startup)
        BY RegistryAssumption DEF ToSet, Unlike
    <2>2. RegistryTyped
        BY <2>1, RegistryAssumption DEF RegistryInit, RegistryTyped, Conditions
    <2>3. Errands /\ OfferedOnce /\ OffersServe /\ InStep
        BY DEF RegistryInit, Errands, OfferedOnce, OffersServe, InStep
    <2> QED  BY <2>2, <2>3 DEF RegistryInv
<1>2. RegistryInv /\ [RegistryNext]_registryVars => RegistryInv'
    BY RegistryStep
<1> QED  BY <1>1, <1>2, PTL DEF RegistrySpec

\* The registries keep their types, each integration name belongs to one provider, and each
\* capability name to one tool, for any providers, tools and interleaving of installs and
\* removals.
THEOREM RegistryTypesHold == RegistrySpec => []RegistryTypeOK
<1>1. RegistryInv => RegistryTypeOK
    <2> SUFFICES ASSUME RegistryInv PROVE RegistryTypeOK
        OBVIOUS
    <2>1. IsInjective([n \in DOMAIN registry |-> NameOf[registry[n]]])
        BY DEF RegistryInv, RegistryTyped, Unlike, IsInjective
    <2>2. awaiting \subseteq {"connect", "disconnect"} \X Providers
        BY DEF RegistryInv, RegistryTyped, Errands
    <2> QED  BY <2>1, <2>2 DEF RegistryInv, RegistryTyped, OfferedOnce, Conditions, RegistryTypeOK
<1> QED  BY <1>1, RegistryHolds, PTL

\* The capabilities on offer follow the integrations, whatever connects, fails, is installed,
\* built or removed meanwhile.
THEOREM OffersFollowProviders == RegistrySpec => []ToolsFollowProviders
<1>1. RegistryInv => ToolsFollowProviders
    <2> SUFFICES ASSUME RegistryInv, serving = "up" PROVE ToolsFollowProviders
        BY DEF ToolsFollowProviders
    <2>1. Distinct /\ ~Removing => \A s \in Slots(registry, health) : ToolAt(registry, s) \in offered
        BY DistinctAreOffered DEF RegistryInv, InStep
    <2> QED  BY <2>1 DEF RegistryInv, OffersServe, InService, ToolsFollowProviders
<1> QED  BY <1>1, RegistryHolds, PTL

-----------------------------------------------------------------------------
(***************************************************************************)
(* Planner.  A plan is counted by the steps it should hold: each step that *)
(* is added comes after all of them in the order of the table, so it takes *)
(* the next place and moves no other.                                      *)
(***************************************************************************)
\* The first step of an intent asks for no more than the intent does, and every step names
\* what was looked up for it.
Backed(i) ==
    /\ Len(i.plans) \in Nat \ {0} /\ DOMAIN i.plans = 1..Len(i.plans)
    /\ i.plans[1].needs = {} /\ i.plans[1].hears = {}
    /\ \A m \in DOMAIN i.plans : i.plans[m].cap \in i.needs \cup i.plans[m].needs \cup LocalCapabilities

Tabled(s) == \E S : s \in Seq(S) /\ \A i \in S : Backed(i)

\* Followed, and a command or the first that is.
IsWanted(n) ==
    /\ n \in DOMAIN Intents /\ Follows(n)
    /\ n \in Commands \/ \A m \in DOMAIN Intents : m < n => ~Follows(m)

\* What is due while intent n is at its step m.
DueAt(p, n, m) ==
    /\ p \in Nat \X Nat /\ IsWanted(p[1]) /\ p[2] \in DOMAIN Intents[p[1]].plans
    /\ Earlier(p, <<n, m>>) /\ Ready(Intents[p[1]].plans[p[2]])

PlannerTypes ==
    /\ next \in 1..(Len(Intents) + 1) /\ part \in Nat /\ steps \in Seq(available \cup LocalCapabilities)
    /\ part # 0 => next \in Wanted /\ part \in DOMAIN Intents[next].plans

\* An intent that was followed has left a step.
FollowedIsPlanned ==
    /\ part > 1 => steps # <<>>
    /\ (\E n \in Followed : n < next) => steps # <<>>

Placed == \A p \in Due : steps[Rank(p, Due)] = Intents[p[1]].plans[p[2]].cap

PlannerInv == PlannerTypes /\ FollowedIsPlanned /\ IsFiniteSet(Due) /\ Len(steps) = Cardinality(Due) /\ Placed

LEMMA ShortIntents ==
    /\ \A cap, hears : Backed(One(cap, hears))
    /\ \A cap \in LocalCapabilities : \A hears : Backed(Local(cap, hears))
BY DEF One, Local, Intent, Step, Backed

LEMMA LiteralsAreTabled ==
    ASSUME NEW a, NEW b, NEW c, NEW d, NEW e, NEW f, NEW g, NEW h,
           Backed(a), Backed(b), Backed(c), Backed(d), Backed(e), Backed(f), Backed(g), Backed(h)
    PROVE  /\ Tabled(<<a, b>>) /\ Tabled(<<a, b, c>>) /\ Tabled(<<a, b, c, d>>) /\ Tabled(<<a, b, c, d, e>>)
           /\ Tabled(<<a, b, c, d, e, f>>) /\ Tabled(<<a, b, c, d, e, f, g>>)
           /\ Tabled(<<a, b, c, d, e, f, g, h>>)
<1> DEFINE S == {a, b, c, d, e, f, g, h}
<1>1. \A i \in S : Backed(i)
    OBVIOUS
<1>2. a \in S /\ b \in S /\ c \in S /\ d \in S /\ e \in S /\ f \in S /\ g \in S /\ h \in S
    OBVIOUS
<1> HIDE DEF S
<1>3. /\ <<a, b>> \in Seq(S) /\ <<a, b, c>> \in Seq(S) /\ <<a, b, c, d>> \in Seq(S)
      /\ <<a, b, c, d, e>> \in Seq(S) /\ <<a, b, c, d, e, f>> \in Seq(S)
      /\ <<a, b, c, d, e, f, g>> \in Seq(S) /\ <<a, b, c, d, e, f, g, h>> \in Seq(S)
    BY <1>2
<1> QED  BY <1>1, <1>3 DEF Tabled

LEMMA TablesJoin ==
    ASSUME NEW s, NEW t, Tabled(s), Tabled(t)
    PROVE  Tabled(s \o t)
<1>1. PICK S : s \in Seq(S) /\ \A i \in S : Backed(i)
    BY DEF Tabled
<1>2. PICK T : t \in Seq(T) /\ \A i \in T : Backed(i)
    BY DEF Tabled
<1>3. s \o t \in Seq(S \cup T)
    BY <1>1, <1>2
<1> QED  BY <1>1, <1>2, <1>3 DEF Tabled

\* Every intent of the table is backed.
LEMMA IntentsAreBacked == Tabled(Intents)
<1>1. /\ Backed(Intent({"computer.app.focus", "computer.text.type"}, {{"type <text> in <app>"}},
                       <<Step("computer.app.focus", {}, {}), Step("computer.text.type", {}, {})>>))
      /\ Backed(Intent({}, {{"folder <name>"}, {"create", "make"}},
                       <<Step("files.mkdir", {}, {}), Step("files.write", {}, {{"readme"}})>>))
    BY DEF Intent, Step, Backed, LocalCapabilities
<1>2. Tabled(CommandIntents)
    BY <1>1, ShortIntents, LiteralsAreTabled DEF CommandIntents, LocalCapabilities
<1>3. Tabled(NoteIntents) /\ Tabled(GoogleIntents)
    BY ShortIntents, LiteralsAreTabled DEF NoteIntents, GoogleIntents, LocalCapabilities
<1>4. Backed(Intent({"meta.campaigns.create"}, {{"create a campaign"}},
                    <<Step("meta.campaigns.create", {}, {}),
                      Step("meta.creatives.create", {"meta.creatives.create"}, {}),
                      Step("meta.adsets.create", {"meta.adsets.create"}, {})>>))
    BY DEF Intent, Step, Backed
<1>5. Tabled(ChannelIntents)
    BY <1>4, ShortIntents, LiteralsAreTabled DEF ChannelIntents
<1>6. Tabled(MarketingIntents)
    BY ShortIntents, LiteralsAreTabled DEF MarketingIntents
<1>7. Backed(Intent({"comms.whatsapp.send"}, {{"whatsapp"}},
                    <<Step("comms.whatsapp.send", {}, {}),
                      Step("comms.followup.schedule", {"comms.followup.schedule"}, {{"follow"}})>>))
    BY DEF Intent, Step, Backed
<1>8. Tabled(CommsIntents)
    BY <1>7, ShortIntents, LiteralsAreTabled DEF CommsIntents
<1>9. Tabled(BusinessIntents) /\ Tabled(SkillIntents) /\ Tabled(DeveloperIntents)
    BY ShortIntents, LiteralsAreTabled DEF BusinessIntents, SkillIntents, DeveloperIntents
<1>10. /\ Backed(Intent({"proactive.evaluate"},
                       {{"evaluate", "proactive", "watch business", "anomalies", "trigger"}},
                       <<Step("proactive.evaluate", {}, {}),
                         Step("proactive.insights.get", {"proactive.insights.get"}, {})>>))
       /\ \A hears, first, second, third : Backed(
              Intent({"production.security.audit"}, hears,
                     <<Step("production.security.audit", {}, {}),
                       Step("production.cost.overview", {"production.cost.overview"}, first),
                       Step("production.agent.performance", {"production.agent.performance"}, second),
                       Step("production.resilience.health", {"production.resilience.health"}, third)>>))
    BY DEF Intent, Step, Backed
<1>11. Tabled(OperationsIntents)
    BY <1>10, ShortIntents, LiteralsAreTabled DEF OperationsIntents
<1>12. Tabled(PersonaIntents) /\ Tabled(LastIntents)
    BY ShortIntents, LiteralsAreTabled DEF PersonaIntents, LastIntents, LocalCapabilities
<1> QED
    BY <1>2, <1>3, <1>5, <1>6, <1>8, <1>9, <1>11, <1>12, TablesJoin DEF Intents

LEMMA TableFacts ==
    /\ Len(Intents) \in Nat /\ DOMAIN Intents = 1..Len(Intents)
    /\ \A n \in DOMAIN Intents : Backed(Intents[n])
<1>1. PICK S : Intents \in Seq(S) /\ \A i \in S : Backed(i)
    BY IntentsAreBacked DEF Tabled
<1> HIDE DEF Intents
<1> QED  BY <1>1

LEMMA WantedIs == next \in Nat => \A n : n \in Wanted <=> n <= next /\ IsWanted(n)
<1> HIDE DEF Intents
<1> QED  BY TableFacts DEF Wanted, Followed, IsWanted

LEMMA DueIs == next \in Nat => \A p : p \in Due <=> p[1] <= next /\ DueAt(p, next, part)
<1> SUFFICES ASSUME next \in Nat PROVE \A p : p \in Due <=> p[1] <= next /\ DueAt(p, next, part)
    OBVIOUS
<1>1. \A n \in DOMAIN Intents : n \in Nat /\ DOMAIN Intents[n].plans \subseteq Nat
    BY TableFacts DEF Backed
<1>2. \A n : n \in Wanted => n \in DOMAIN Intents
    BY WantedIs DEF IsWanted
<1>3. \A p : p \in UNION {{n} \X DOMAIN Intents[n].plans : n \in Wanted}
               <=> p \in Nat \X Nat /\ p[1] \in Wanted /\ p[2] \in DOMAIN Intents[p[1]].plans
    BY <1>1, <1>2
<1> QED  BY <1>3, WantedIs DEF Due, DueAt

\* A plan s that holds what is due in D takes step p0, which comes after all of it.
Extends(t, E, s, D, p0, cap) ==
    /\ D \in SUBSET (Nat \X Nat) /\ p0 \in Nat \X Nat /\ \A q \in D : Earlier(q, p0)
    /\ IsFiniteSet(D) /\ E = D \cup {p0}
    /\ Len(s) = Cardinality(D) /\ t = Append(s, cap)
    /\ \E C : s \in Seq(C) /\ cap \in C

\* It takes the next place, and moves none.
LEMMA PlacesStay ==
    ASSUME NEW t, NEW E, NEW s, NEW D, NEW p0, NEW cap, Extends(t, E, s, D, p0, cap)
    PROVE  /\ IsFiniteSet(E) /\ Len(t) = Cardinality(E) /\ t[Rank(p0, E)] = cap
           /\ \A p \in D : t[Rank(p, E)] = s[Rank(p, D)]
<1> PICK C : s \in Seq(C) /\ cap \in C
    BY DEF Extends
<1> USE DEF Extends
<1>1. p0 \notin D
    BY DEF Earlier
<1>2. IsFiniteSet(D \cup {p0}) /\ Cardinality(D \cup {p0}) = Cardinality(D) + 1
    BY <1>1, FS_AddElement
<1>3. {q \in D \cup {p0} : ~Earlier(p0, q)} = D \cup {p0}
    BY DEF Earlier
<1>4. ASSUME NEW p \in D
      PROVE  /\ Rank(p, D \cup {p0}) = Rank(p, D)
             /\ Rank(p, D) \in 1..Len(s)
  <2> DEFINE R == {q \in D : ~Earlier(p, q)}
  <2>1. {q \in D \cup {p0} : ~Earlier(p, q)} = R
      BY <1>4
  <2>2. R \subseteq D /\ p \in R
      BY <1>4 DEF Earlier
  <2>3. IsFiniteSet(R) /\ Cardinality(R) <= Cardinality(D)
      BY <2>2, FS_Subset
  <2>4. Cardinality(R) \in Nat /\ Cardinality(R) # 0
      BY <2>2, <2>3, FS_CardinalityType, FS_EmptySet
  <2>5. Rank(p, D \cup {p0}) = Cardinality(R) /\ Rank(p, D) = Cardinality(R)
      BY <2>1 DEF Rank
  <2> QED  BY <2>3, <2>4, <2>5
<1>5. /\ Len(Append(s, cap)) = Len(s) + 1 /\ Append(s, cap)[Len(s) + 1] = cap
      /\ \A k \in 1..Len(s) : Append(s, cap)[k] = s[k]
    OBVIOUS
<1>6. \A p \in D : Append(s, cap)[Rank(p, D \cup {p0})]
                     = s[Rank(p, D)]
    BY <1>4, <1>5
<1>7. Append(s, cap)[Rank(p0, D \cup {p0})] = cap
    BY <1>2, <1>3, <1>5 DEF Rank
<1> QED  BY <1>2, <1>5, <1>6, <1>7

\* The message and the registry stay, and with them what the message has and what is ready.
LEMMA AskStays ==
    ASSUME said' = said, available' = available
    PROVE  /\ \A s : Ready(s)' <=> Ready(s)
           /\ \A n : Follows(n)' <=> Follows(n)
           /\ \A n : IsWanted(n)' <=> IsWanted(n)
<1>1. /\ \A s : Ready(s)' <=> Ready(s)
      /\ Ready(Intents[3])' <=> Ready(Intents[3])
      /\ \A n : Ready(Intents[n])' <=> Ready(Intents[n])
    BY DEF Ready, Heard
<1> HIDE DEF Intents, Ready
<1>2. \A n : Follows(n)' <=> Follows(n)
    BY <1>1 DEF Follows
<1> QED  BY <1>1, <1>2 DEF IsWanted

LEMMA DueNext ==
    ASSUME said' = said, available' = available, next' \in Nat
    PROVE  \A p : p \in Due' <=> p[1] <= next' /\ DueAt(p, next', part')
<1>1. (next \in Nat => \A p : p \in Due <=> p[1] <= next /\ DueAt(p, next, part))'
    BY DueIs, PTL
<1>2. \A p, n, m : DueAt(p, n, m)' <=> DueAt(p, n, m)
    BY AskStays DEF DueAt
<1> QED  BY <1>1, <1>2

\* What PlannerInv says once the steps and what is due are known to stay.
LEMMA PlanStays ==
    ASSUME PlannerInv, said' = said, available' = available, steps' = steps, Due' = Due
    PROVE  (IsFiniteSet(Due) /\ Len(steps) = Cardinality(Due) /\ Placed)'
BY DEF PlannerInv, Placed, Rank, Earlier

LEMMA IntentIsDecided ==
    ASSUME PlannerInv, Consider
    PROVE  PlannerInv'
<1> HIDE DEF Intents
<1>1. /\ next \in DOMAIN Intents /\ next \in Nat /\ part = 0 /\ next' \in Nat
      /\ said' = said /\ available' = available /\ steps' = steps
    BY TableFacts DEF PlannerInv, PlannerTypes, Consider
<1>2. \A p : p \in Due <=> p[1] <= next /\ DueAt(p, next, part)
    BY <1>1, DueIs
<1>3. \A p : p \in Due' <=> p[1] <= next' /\ DueAt(p, next', part')
    BY <1>1, DueNext
<1>4. \A n : n \in Wanted' <=> n <= next' /\ IsWanted(n)
  <2>1. (next \in Nat => \A n : n \in Wanted <=> n <= next /\ IsWanted(n))'
      BY WantedIs, PTL
  <2> QED  BY <2>1, <1>1, AskStays
<1>5. \A n : n \in Followed' <=> n \in DOMAIN Intents /\ n <= next' /\ Follows(n)
    BY <1>1, AskStays DEF Followed
<1>6. \A p : DueAt(p, next, part) =>
          p[1] \in Nat /\ p[1] \in DOMAIN Intents /\ Follows(p[1]) /\ p[2] \in Nat \ {0} /\ p[1] < next
    BY <1>1, TableFacts DEF DueAt, IsWanted, Backed, Earlier
<1>7. CASE Applies(next)
  <2>1. next' = next /\ part' = 1
      BY <1>7 DEF Consider
  <2>2. Due' = Due
    <3>1. \A p : DueAt(p, next, 1) <=> DueAt(p, next, 0)
        BY <1>1, TableFacts DEF DueAt, IsWanted, Backed, Earlier
    <3> QED  BY <1>1, <1>2, <1>3, <2>1, <3>1
  <2>3. IsWanted(next)
    <3>1. ASSUME next \notin Commands PROVE \A m \in DOMAIN Intents : m < next => ~Follows(m)
        BY <1>1, <1>7, <3>1, TableFacts DEF Applies, PlannerInv, FollowedIsPlanned, Followed
    <3> QED  BY <1>1, <1>7, <3>1 DEF Applies, IsWanted
  <2>4. PlannerTypes'
      BY <1>1, <1>4, <2>1, <2>3, TableFacts DEF PlannerInv, PlannerTypes, Backed
  <2>5. FollowedIsPlanned'
      BY <1>1, <1>5, <2>1 DEF PlannerInv, FollowedIsPlanned, Followed
  <2> QED  BY <1>1, <2>2, <2>4, <2>5, PlanStays DEF PlannerInv
<1>8. CASE ~Applies(next)
  <2>1. next' = next + 1 /\ part' = 0
      BY <1>8 DEF Consider
  <2>2. Follows(next) => next \notin Commands /\ steps # <<>>
      BY <1>8 DEF Applies
  <2>3. ASSUME steps # <<>> PROVE \E n \in DOMAIN Intents : n < next /\ Follows(n)
    <3>1. Due # {}
        BY <2>3, FS_EmptySet DEF PlannerInv, PlannerTypes
    <3> QED  BY <1>2, <1>6, <3>1
  <2>4. ~IsWanted(next)
      BY <2>2, <2>3 DEF IsWanted
  <2>5. Due' = Due
    <3>1. \A p : p[1] <= next + 1 /\ DueAt(p, next + 1, 0) => p[1] <= next /\ DueAt(p, next, 0)
        BY <1>1, <2>4, TableFacts DEF DueAt, Backed, Earlier
    <3>2. \A p : p[1] <= next /\ DueAt(p, next, 0) => p[1] <= next + 1 /\ DueAt(p, next + 1, 0)
        BY <1>1 DEF DueAt, Earlier
    <3> QED  BY <1>1, <1>2, <1>3, <2>1, <3>1, <3>2
  <2>6. PlannerTypes'
      BY <1>1, <2>1, TableFacts DEF PlannerInv, PlannerTypes
  <2>7. FollowedIsPlanned'
      BY <1>1, <1>5, <2>1, <2>2, TableFacts DEF PlannerInv, FollowedIsPlanned, Followed
  <2> QED  BY <1>1, <2>5, <2>6, <2>7, PlanStays DEF PlannerInv
<1> QED  BY <1>7, <1>8

LEMMA StepIsAdded ==
    ASSUME PlannerInv, AddStep
    PROVE  PlannerInv'
<1> HIDE DEF Intents
<1> DEFINE s  == Intents[next].plans[part]
           p0 == <<next, part>>
           C  == available \cup LocalCapabilities
<1>1. /\ next \in DOMAIN Intents /\ next \in Nat /\ next < Len(Intents) + 1
      /\ part \in DOMAIN Intents[next].plans /\ part \in Nat \ {0}
      /\ IsWanted(next) /\ Follows(next) /\ steps \in Seq(C)
    <2>1. part # 0 /\ next \in Nat
        BY TableFacts DEF PlannerInv, PlannerTypes, AddStep
    <2>2. IsWanted(next)
        BY <2>1, WantedIs DEF PlannerInv, PlannerTypes
    <2> QED  BY <2>1, <2>2, TableFacts DEF PlannerInv, PlannerTypes, IsWanted
<1>2. /\ said' = said /\ available' = available
      /\ steps' = IF Ready(s) THEN Append(steps, s.cap) ELSE steps
    BY DEF AddStep
<1>3. /\ Len(Intents[next].plans) \in Nat /\ DOMAIN Intents[next].plans = 1..Len(Intents[next].plans)
      /\ \/ part < Len(Intents[next].plans) /\ part' = part + 1 /\ next' = next
         \/ part = Len(Intents[next].plans) /\ part' = 0 /\ next' = next + 1
    BY <1>1, TableFacts DEF AddStep, Backed
<1>4. next' \in 1..(Len(Intents) + 1) /\ next' \in Nat /\ part' \in Nat
    BY <1>1, <1>3, TableFacts
<1>5. \A n : n \in Wanted' <=> n <= next' /\ IsWanted(n)
  <2>1. (next \in Nat => \A n : n \in Wanted <=> n <= next /\ IsWanted(n))'
      BY WantedIs, PTL
  <2> QED  BY <2>1, <1>2, <1>4, AskStays
<1>6. Due' = IF Ready(s) THEN Due \cup {p0} ELSE Due
  <2>1. \A p : p \in Due <=> p[1] <= next /\ DueAt(p, next, part)
      BY <1>1, DueIs
  <2>2. \A p : p \in Due' <=> p[1] <= next' /\ DueAt(p, next', part')
      BY <1>2, <1>4, DueNext
  <2>3. ASSUME NEW p, p \in Nat \X Nat, IsWanted(p[1]), p[2] \in DOMAIN Intents[p[1]].plans
        PROVE  p[1] <= next' /\ Earlier(p, <<next', part'>>)
                 <=> (p[1] <= next /\ Earlier(p, <<next, part>>)) \/ p = p0
    <3>1. /\ p = <<p[1], p[2]>> /\ p[1] \in Nat /\ p[2] \in Nat \ {0}
          /\ p[1] = next => p[2] <= Len(Intents[next].plans)
        BY <1>3, <2>3, TableFacts DEF IsWanted, Backed
    <3> QED  BY <1>1, <1>3, <3>1 DEF Earlier
  <2>4. \A p : DueAt(p, next', part') /\ p[1] <= next' <=>
           \/ DueAt(p, next, part) /\ p[1] <= next
           \/ p = p0 /\ Ready(s)
    <3> SUFFICES ASSUME NEW p
                 PROVE  DueAt(p, next', part') /\ p[1] <= next'
                          <=> (DueAt(p, next, part) /\ p[1] <= next) \/ (p = p0 /\ Ready(s))
        OBVIOUS
    <3> DEFINE slot == p \in Nat \X Nat /\ IsWanted(p[1]) /\ p[2] \in DOMAIN Intents[p[1]].plans
    <3>1. p = p0 => slot
        BY <1>1
    <3>2. CASE slot
      <4>1. p = p0 => Intents[p[1]].plans[p[2]] = s
          OBVIOUS
      <4> HIDE DEF s, p0
      <4> QED  BY <2>3, <3>2, <4>1 DEF DueAt
    <3>3. CASE ~slot
        BY <3>1, <3>3 DEF DueAt
    <3> QED  BY <3>2, <3>3
  <2> QED  BY <2>1, <2>2, <2>4
<1>7. PlannerTypes'
  <2>1. Ready(s) => s.cap \in C
      BY <1>1, TableFacts DEF Backed, Follows, Ready
  <2>2. steps' \in Seq(available' \cup LocalCapabilities)
      BY <1>1, <1>2, <2>1
  <2>3. part' # 0 => next' \in Wanted' /\ part' \in DOMAIN Intents[next'].plans
      BY <1>1, <1>3, <1>5
  <2> QED  BY <1>4, <2>2, <2>3 DEF PlannerTypes
<1>8. FollowedIsPlanned'
  <2>1. steps' # <<>>
    <3>1. CASE part = 1
      <4>1. Ready(s)
          BY <1>1, <3>1, TableFacts DEF Backed, Ready, Heard
      <4> QED  BY <1>1, <1>2, <4>1
    <3>2. CASE part > 1
        BY <1>1, <1>2, <3>2 DEF PlannerInv, FollowedIsPlanned
    <3> QED  BY <1>1, <3>1, <3>2
  <2> QED  BY <2>1 DEF FollowedIsPlanned
<1>9. CASE Ready(s)
  <2>1. \A q \in Due : q \in Nat \X Nat /\ Earlier(q, p0)
      BY <1>1, DueIs DEF DueAt
  <2>2. /\ Due \in SUBSET (Nat \X Nat) /\ p0 \in Nat \X Nat /\ IsFiniteSet(Due) /\ Len(steps) = Cardinality(Due)
        /\ s.cap \in C /\ steps \in Seq(C) /\ Due' = Due \cup {p0} /\ steps' = Append(steps, s.cap)
      BY <1>1, <1>2, <1>6, <1>9, <2>1, TableFacts DEF PlannerInv, Backed, Follows, Ready
  <2>3. /\ IsFiniteSet(Due') /\ Len(steps') = Cardinality(Due')
        /\ steps'[Rank(p0, Due')] = s.cap
        /\ \A p \in Due : steps'[Rank(p, Due')]
                            = steps[Rank(p, Due)]
    <3>1. Extends(steps', Due', steps, Due, p0, s.cap)
        BY <2>1, <2>2 DEF Extends
    <3> HIDE DEF s, p0
    <3> QED  BY <3>1, PlacesStay
  <2>4. Placed'
    <3> SUFFICES ASSUME NEW p \in Due'
                 PROVE  steps'[Rank(p, Due')] = Intents[p[1]].plans[p[2]].cap
        BY DEF Placed, Rank, Earlier
    <3>1. CASE p = p0
        BY <2>3, <3>1
    <3>2. CASE p \in Due
        BY <2>3, <3>2 DEF PlannerInv, Placed
    <3> QED  BY <2>2, <3>1, <3>2
  <2> QED  BY <1>7, <1>8, <2>3, <2>4 DEF PlannerInv
<1>10. CASE ~Ready(s)
    BY <1>2, <1>6, <1>7, <1>8, <1>10, PlanStays DEF PlannerInv
<1> QED  BY <1>9, <1>10

\* The message and the registry of a behaviour are whatever they are.
PlannerStarts == next = 1 /\ part = 0 /\ steps = <<>>
PlannerSpec   == PlannerStarts /\ [][PlannerNext]_plannerVars

LEMMA PlannerHolds == PlannerSpec => []PlannerInv
<1> HIDE DEF Intents
<1>1. PlannerStarts => PlannerInv
  <2> SUFFICES ASSUME PlannerStarts PROVE PlannerInv
      OBVIOUS
  <2>1. Due = {}
    <3>1. \A p : ~(p[1] <= 1 /\ DueAt(p, 1, 0))
        BY TableFacts DEF DueAt, IsWanted, Backed, Earlier
    <3> QED  BY <3>1, DueIs DEF PlannerStarts
  <2>2. PlannerTypes /\ FollowedIsPlanned
      BY TableFacts DEF PlannerStarts, PlannerTypes, FollowedIsPlanned, Followed
  <2> QED  BY <2>1, <2>2, FS_EmptySet DEF PlannerStarts, PlannerInv, Placed
<1>2. PlannerInv /\ [PlannerNext]_plannerVars => PlannerInv'
  <2> SUFFICES ASSUME PlannerInv, [PlannerNext]_plannerVars PROVE PlannerInv'
      OBVIOUS
  <2>1. CASE PlannerNext
      BY <2>1, IntentIsDecided, StepIsAdded DEF PlannerNext
  <2>2. CASE UNCHANGED plannerVars
    <3>1. /\ said' = said /\ available' = available /\ next' = next /\ part' = part /\ steps' = steps
        BY <2>2 DEF plannerVars
    <3>2. Followed' = Followed
        BY <3>1, AskStays DEF Followed
    <3>3. Wanted' = Wanted /\ Due' = Due
        BY <3>1, <3>2, AskStays DEF Wanted, Due
    <3>4. PlannerTypes' /\ FollowedIsPlanned'
        BY <3>1, <3>2, <3>3 DEF PlannerInv, PlannerTypes, FollowedIsPlanned
    <3> QED  BY <3>1, <3>3, <3>4, PlanStays DEF PlannerInv
  <2> QED  BY <2>1, <2>2
<1> QED  BY <1>1, <1>2, PTL DEF PlannerSpec

\* The plan of any message, for any capabilities registered, is that of its commands or of the
\* first other intent it has, step by step in the order of the table (DeterministicProvider.plan).
THEOREM PlansAreInOrder == PlannerSpec => []PlanIsFirstIntent
<1>1. PlannerInv => PlanIsFirstIntent
  <2> SUFFICES ASSUME PlannerInv PROVE PlanIsFirstIntent
      OBVIOUS
  <2>1. ToSet(steps) \subseteq available \cup LocalCapabilities
      BY DEF PlannerInv, PlannerTypes, ToSet
  <2> QED  BY <2>1 DEF PlannerInv, Placed, PlanIsFirstIntent
<1> QED  BY <1>1, PlannerHolds, PTL

-----------------------------------------------------------------------------
(***************************************************************************)
(* Platform.  A step of the whole is a step of one part and leaves the     *)
(* others as they are, so the whole behaves as each part does, and what is *)
(* proved of a part holds of the whole.                                    *)
(***************************************************************************)
LEMMA PartsBegin ==
    ASSUME Init
    PROVE  /\ PlannerStarts /\ RegistryInit /\ CredentialsInit /\ MemoryInit /\ VoiceInit
           /\ SkillInit /\ LoopInit /\ SubmissionInit /\ OutreachInit /\ AdsInit /\ OversightInit
BY DEF Init, ServicesInit, PlannerInit, PlannerStarts

LEMMA PartsStep ==
    ASSUME [Next]_platformVars
    PROVE  /\ [PlannerNext]_plannerVars /\ [RegistryNext]_registryVars /\ [CredentialsNext]_credentialVars /\ [MemoryNext]_memoryVars
           /\ [VoiceNext]_voiceVars /\ [\E service \in ServiceNames : ServicesNext(service)]_serviceVars
BY DEF Next, platformVars

LEMMA ServicesStep ==
    ASSUME [\E service \in ServiceNames : ServicesNext(service)]_serviceVars
    PROVE  /\ [SkillNext]_skillVars /\ [LoopNext]_loopVars /\ [SubmissionNext]_submissionVars
           /\ [OutreachNext \/ MessagesNext]_outreachVars /\ [AdsNext]_adVars /\ [OversightNext]_oversightVars
BY DEF ServicesNext, serviceVars

LEMMA WholeIsItsParts ==
    Spec => /\ PlannerSpec /\ RegistrySpec /\ CredentialsSpec /\ MemorySpec /\ VoiceSpec /\ SkillSpec /\ LoopSpec
            /\ SubmissionSpec /\ OutreachSpec /\ AdsSpec /\ OversightSpec
<1>1. Init => /\ PlannerStarts /\ RegistryInit /\ CredentialsInit /\ MemoryInit /\ VoiceInit
              /\ SkillInit /\ LoopInit /\ SubmissionInit /\ OutreachInit /\ AdsInit /\ OversightInit
    BY PartsBegin
<1>2. [Next]_platformVars =>
        /\ [PlannerNext]_plannerVars
        /\ [RegistryNext]_registryVars
        /\ [CredentialsNext]_credentialVars
        /\ [MemoryNext]_memoryVars
        /\ [VoiceNext]_voiceVars
        /\ [SkillNext]_skillVars
        /\ [LoopNext]_loopVars
        /\ [SubmissionNext]_submissionVars
        /\ [OutreachNext \/ MessagesNext]_outreachVars
        /\ [AdsNext]_adVars
        /\ [OversightNext]_oversightVars
    BY PartsStep, ServicesStep
<1> QED  BY <1>1, <1>2, PTL DEF Spec, PlannerSpec, RegistrySpec, CredentialsSpec, MemorySpec, VoiceSpec, SkillSpec, LoopSpec, SubmissionSpec, OutreachSpec, AdsSpec, OversightSpec

\* Every part of the platform keeps its types.
THEOREM PlatformTypesHold == Spec => []TypeOK
<1>1. Spec => [](RegistryTypeOK /\ CredentialsTypeOK /\ MemoryTypeOK /\ VoiceTypeOK /\ LoopTypeOK)
    BY WholeIsItsParts, RegistryTypesHold, GrantsAreOnce, KeysNameOneRow, VoiceTypesHold, LoopTypesHold, PTL
<1>2. RegistryTypeOK /\ CredentialsTypeOK /\ MemoryTypeOK /\ VoiceTypeOK /\ LoopTypeOK => TypeOK
    BY DEF TypeOK
<1> QED  BY <1>1, <1>2, PTL

\* The plan of any message, for any capabilities registered, is that of its commands or of the
\* first other intent it has, step by step in the order of the table (DeterministicProvider.plan).
THEOREM PlatformPlansInOrder == Spec => []PlanIsFirstIntent
BY WholeIsItsParts, PlansAreInOrder, PTL

\* The capabilities a plan may name are the process's own and those of integrations that are
\* installed and healthy, or are being removed (core/capabilities.py, main.py's listener).
THEOREM PlatformOffersFollow == Spec => []ToolsFollowProviders
BY WholeIsItsParts, OffersFollowProviders, PTL

\* A state of an authorization is used for one grant at most (integrations/oauth.py).
THEOREM PlatformGrantsOnce == Spec => []StatesGrantOnce
BY WholeIsItsParts, GrantsAreOnce, PTL

\* Where the database locks the rows an update reads, a memory is corrected once and a key
\* names one row (memory/service.py).
THEOREM PlatformCorrectsOnce == ASSUME RowLocks PROVE Spec => []OneSuccessorOneKey
<1>1. MemorySpec => []OneSuccessorOneKey
    BY CorrectionsFormChains
<1> QED  BY <1>1, WholeIsItsParts, PTL

\* And every request to the memories takes effect at one instant.
THEOREM PlatformRequestsAtomic == ASSUME RowLocks PROVE Spec => RequestsAreAtomic
<1>1. MemorySpec => RequestsAreAtomic
    BY RequestsTakeEffectAtOnce
<1> QED  BY <1>1, WholeIsItsParts, PTL

\* What an order took back is never announced (voice/runtime.py).
THEOREM PlatformStaysSilent == Spec => WithdrawnIsSilent
BY WholeIsItsParts, WithdrawnStaysSilent, PTL

\* Executions of skills are counted once, and runs of the executive are judged by what they
\* called (skills/engine.py, ceo_agent/agent.py).
THEOREM PlatformAccounts == Spec => []RunsAreAccounted
<1>1. SkillRunsAreCounted /\ RunsAreJudged => RunsAreAccounted
    BY DEF RunsAreAccounted
<1> QED  BY <1>1, WholeIsItsParts, SkillCountsAreTrue, RunsAreJudgedTruly, PTL

\* Requests with one key are answered with one task (TaskRepository.create).
THEOREM PlatformSubmitsOnce == Spec => []OneTaskPerKey
BY WholeIsItsParts, EachKeyHasOneTask, PTL

\* Bookings and reports of spend are backed (workflows/restaurant, the Meta client).
THEOREM PlatformOutreach == Spec => []OutreachIsBacked
<1>1. BookingsBacked /\ FiguresStand => OutreachIsBacked
    BY DEF OutreachIsBacked
<1> QED  BY <1>1, WholeIsItsParts, BookingsAreBacked, FiguresAreFinal, PTL

\* The policy gate is monotone, and what the oversight engines report is what they evaluated.
THEOREM PlatformOversight == Spec => []OversightIsSound
BY WholeIsItsParts, OversightStaysSound, PTL

==============================================================================
