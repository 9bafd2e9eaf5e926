---------------------------- MODULE MemoryLedger ----------------------------
(***************************************************************************)
(* What the memory service promises to whoever stores, corrects and        *)
(* deletes memories: that each request takes effect at once, as if it were *)
(* alone.  Sessions, locks and reads that precede a commit are not visible *)
(* here.                                                                   *)
(***************************************************************************)
CONSTANTS
    Rows,      \* identifiers of memories
    Requests,  \* requests, each answered once
    Keys,      \* idempotency keys
    NoRow, Keyless

VARIABLES
    status,      \* of a memory, "absent" before it is stored
    supersedes,  \* the memory it corrects
    key,         \* the key it was stored with
    returned     \* the memory a request was answered with

memories == <<status, supersedes, key, returned>>

Init ==
    /\ status = [r \in Rows |-> "absent"]
    /\ supersedes = [r \in Rows |-> NoRow]
    /\ key = [r \in Rows |-> Keyless]
    /\ returned = [q \in Requests |-> NoRow]

Stored(r) == status[r] # "absent"

\* A memory is stored unless its key is taken.
Store(r, k) ==
    /\ ~Stored(r)
    /\ k = Keyless \/ \A s \in Rows : Stored(s) => key[s] # k
    /\ status' = [status EXCEPT ![r] = "active"]
    /\ key' = [key EXCEPT ![r] = k]
    /\ UNCHANGED supersedes

\* The memory that has the key answers for it.
Find(r) ==
    /\ Stored(r) /\ key[r] # Keyless
    /\ UNCHANGED <<status, supersedes, key>>

\* What is corrected is active, and is replaced in the same instant.
Amend(old, r) ==
    /\ status[old] = "active" /\ ~Stored(r)
    /\ status' = [status EXCEPT ![old] = "superseded", ![r] = "active"]
    /\ supersedes' = [supersedes EXCEPT ![r] = old]
    /\ UNCHANGED key

Remove(r) ==
    /\ Stored(r)
    /\ status' = [status EXCEPT ![r] = "deleted"]
    /\ UNCHANGED <<supersedes, key>>

\* What a request did is done in the instant it is answered, and it is answered once.
Answer(q, r) == returned[q] = NoRow /\ returned' = [returned EXCEPT ![q] = r]

Next ==
    \E q \in Requests, r \in Rows :
        /\ Answer(q, r)
        /\ \/ \E k \in Keys \cup {Keyless} : Store(r, k)
           \/ \E old \in Rows : Amend(old, r)
           \/ Find(r)
           \/ Remove(r)

Spec == Init /\ [][Next]_memories

=============================================================================
