---------------------------- MODULE MemoryService ----------------------------
(***************************************************************************)
(* Permanent memories (memory/service.py): rows that are stored once per   *)
(* idempotency key, corrected by a row that supersedes them, deleted, and  *)
(* counted when a search returns them.                                     *)
(*                                                                         *)
(* A request is a session of the database; its reads and its commit are    *)
(* steps of their own.  Contents, provenance and ranks are left out.       *)
(***************************************************************************)
EXTENDS Naturals, FiniteSets

CONSTANTS
    Rows,      \* identifiers of rows
    Requests,  \* requests, each made once
    Keys,      \* idempotency keys
    RowLocks   \* whether SELECT ... FOR UPDATE locks a row: on PostgreSQL, not on SQLite

Keyless == "no key"
NoRow == "no row"

ASSUME MemoryAssumption == NoRow \notin Rows \cup Requests /\ Keyless \notin Keys

VARIABLES
    status,      \* memories.status, "absent" before the row is there
    supersedes,  \* memories.supersedes_id
    key,         \* memories.dedupe_key
    count,       \* memories.access_count
    locks,       \* the request that holds a row's lock
    request,     \* what a request does, and where it is
    returned     \* ghost: the row its answer names

memoryVars == <<status, supersedes, key, count, locks, request, returned>>

Unasked == [op |-> "idle"]
Live(r)  == status[r] # "absent"
Unwritten(r) == status[r] = "absent" /\ \A q \in Requests : request[q].op \in {"create", "correct"} => request[q].row # r

\* The row answers the request, whose locks the end of the session releases.
Reply(q, r) ==
    /\ request' = [request EXCEPT ![q] = [op |-> "done"]]
    /\ returned' = [returned EXCEPT ![q] = r]
    /\ locks' = [r0 \in Rows |-> IF locks[r0] = q THEN NoRow ELSE locks[r0]]

Fail(q) == Reply(q, NoRow) /\ UNCHANGED <<status, supersedes, key, count>>

-----------------------------------------------------------------------------
\* create: a row with the key is returned as it is, whatever its status; without one the
\* row is prepared.
Create(q, k, r) ==
    /\ request[q] = Unasked /\ Unwritten(r)
    /\ \/ /\ k # Keyless
          /\ \E e \in Rows : Live(e) /\ key[e] = k /\ Reply(q, e)
       \/ /\ k = Keyless \/ ~\E e \in Rows : Live(e) /\ key[e] = k
          /\ request' = [request EXCEPT ![q] = [op |-> "create", row |-> r, key |-> k]]
          /\ UNCHANGED <<locks, returned>>
    /\ UNCHANGED <<status, supersedes, key, count>>

\* Mutant: the column is not unique.
CommitCreateTwice(q) ==
    /\ request[q].op = "create"
    /\ LET r == request[q].row
       IN  /\ status' = [status EXCEPT ![r] = "active"]
           /\ key' = [key EXCEPT ![r] = request[q].key]
           /\ Reply(q, r) /\ UNCHANGED <<supersedes, count>>

\* The commit: when another session stored the key first, the unique column refuses the
\* row and the other one is returned.
CommitCreate(q) ==
    /\ request[q].op = "create"
    /\ LET k == request[q].key
           r == request[q].row
           e == {x \in Rows : Live(x) /\ key[x] = k}
       IN  IF k # Keyless /\ e # {}
           THEN \E x \in e : Reply(q, x) /\ UNCHANGED <<status, supersedes, key, count>>
           ELSE /\ status' = [status EXCEPT ![r] = "active"]
                /\ key' = [key EXCEPT ![r] = k]
                /\ Reply(q, r) /\ UNCHANGED <<supersedes, count>>

\* A locking read waits while another session holds the row.
Lockable(q, r) == Live(r) /\ locks[r] \in {NoRow, q}
Lock(q, r)     == locks' = IF RowLocks THEN [locks EXCEPT ![r] = q] ELSE locks

\* correct: only an active row; its replacement is written by the same commit.
Correct(q, old, r) ==
    /\ request[q] = Unasked /\ Unwritten(r) /\ Lockable(q, old)
    /\ IF status[old] # "active" THEN Fail(q)
       ELSE /\ Lock(q, old)
            /\ request' = [request EXCEPT ![q] = [op |-> "correct", old |-> old, row |-> r]]
            /\ UNCHANGED <<status, supersedes, key, count, returned>>

CommitCorrect(q) ==
    /\ request[q].op = "correct"
    /\ LET old == request[q].old
           r   == request[q].row
       IN  /\ status' = [status EXCEPT ![old] = "superseded", ![r] = "active"]
           /\ supersedes' = [supersedes EXCEPT ![r] = old]
           /\ Reply(q, r) /\ UNCHANGED <<key, count>>

\* delete: a row of any status.
Delete(q, r) ==
    /\ request[q] = Unasked /\ Lockable(q, r)
    /\ Lock(q, r)
    /\ request' = [request EXCEPT ![q] = [op |-> "delete", old |-> r]]
    /\ UNCHANGED <<status, supersedes, key, count, returned>>

CommitDelete(q) ==
    /\ request[q].op = "delete"
    /\ status' = [status EXCEPT ![request[q].old] = "deleted"]
    /\ Reply(q, request[q].old) /\ UNCHANGED <<supersedes, key, count>>

\* search: the active rows are read, and their counts written back by the commit.
Search(q) ==
    /\ request[q] = Unasked
    /\ request' = [request EXCEPT ![q] = [op |-> "search", read |-> {r \in Rows : status[r] = "active"}, seen |-> count]]
    /\ UNCHANGED <<status, supersedes, key, count, locks, returned>>

CommitSearch(q) ==
    /\ request[q].op = "search"
    /\ \A r \in request[q].read : locks[r] \in {NoRow, q}
    /\ count' = [r \in Rows |-> IF r \in request[q].read THEN request[q].seen[r] + 1 ELSE count[r]]
    /\ Reply(q, NoRow) /\ UNCHANGED <<status, supersedes, key>>

MemoryInit ==
    /\ status = [r \in Rows |-> "absent"]
    /\ supersedes = [r \in Rows |-> NoRow]
    /\ key = [r \in Rows |-> Keyless]
    /\ count = [r \in Rows |-> 0]
    /\ locks = [r \in Rows |-> NoRow]
    /\ request = [q \in Requests |-> Unasked]
    /\ returned = [q \in Requests |-> NoRow]

MemoryNext ==
    \E q \in Requests :
        \/ \E k \in Keys \cup {Keyless}, r \in Rows : Create(q, k, r)
        \/ \E old, r \in Rows : old # r /\ Correct(q, old, r)
        \/ \E r \in Rows : Delete(q, r)
        \/ CommitCreate(q) \/ CommitCorrect(q) \/ CommitDelete(q)
        \/ Search(q) \/ CommitSearch(q)

MemorySpec == MemoryInit /\ [][MemoryNext]_memoryVars

-----------------------------------------------------------------------------
MemoryTypeOK ==
    /\ status \in [Rows -> {"absent", "active", "superseded", "deleted"}]
    /\ supersedes \in [Rows -> Rows \cup {NoRow}]
    /\ key \in [Rows -> Keys \cup {Keyless}]
    /\ locks \in [Rows -> Requests \cup {NoRow}]
    /\ \A r \in Rows : ~Live(r) => supersedes[r] = NoRow /\ key[r] = Keyless

\* Whichever requests run side by side, an idempotency key names one row, and the row an
\* answer names is there.
OneKey ==
    /\ \A r, s \in Rows : (key[r] = key[s] /\ key[r] # Keyless) => r = s
    /\ \A q \in Requests : returned[q] # NoRow => Live(returned[q])

\* A row is superseded by one row at most, and never while it is active.
OneSuccessor ==
    /\ \A r, s \in Rows : (supersedes[r] = supersedes[s] /\ supersedes[r] # NoRow) => r = s
    /\ \A r \in Rows : supersedes[r] # NoRow => status[supersedes[r]] \in {"superseded", "deleted"}

\* Corrections form chains, and keys name rows.
OneSuccessorOneKey == OneSuccessor /\ OneKey

\* To whoever reads its rows and answers the service takes each request at one instant:
\* what was read before a commit still holds at it.
Memories == INSTANCE MemoryLedger

RequestsAreAtomic == Memories!Spec

=============================================================================
