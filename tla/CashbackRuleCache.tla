------------------------- MODULE CashbackRuleCache -------------------------
(***************************************************************************)
(* The cashback rule of one merchant: a row of CashbackRule, read through  *)
(* Redis by the worker's handlers (getCashbackRule), replaced by the API   *)
(* (upsertRule), which then deletes the cached copy.  Cache entries and    *)
(* the fill lock expire; no call is atomic with another.                   *)
(*                                                                         *)
(* A rule is named by its version: 0 is the default that holds without a   *)
(* row, and each upsert makes the next one.                                *)
(***************************************************************************)
EXTENDS Naturals, FiniteSets

CONSTANTS
    Readers,    \* concurrent calls of getCashbackRule
    Writers,    \* concurrent calls of upsertRule
    NoEntry,    \* the key is not in Redis
    Free        \* the lock's key is not in Redis

\* Bounds of the exploration, not of the program.
CONSTANTS MaxUpserts, MaxFaults, MaxOverruns

ASSUME CacheConstants ==
    /\ IsFiniteSet(Readers)
    /\ NoEntry \notin Nat
    /\ Free \notin Readers
    /\ MaxUpserts \in Nat /\ MaxFaults \in Nat /\ MaxOverruns \in Nat

VARIABLES
    rule,       \* the version in the database
    cache,      \* the version in Redis, or NoEntry
    lock,       \* who set the lock, or Free (in Redis the value is just '1')
    reader,     \* where each call of getCashbackRule is and what it holds
    writer,     \* the version each upsertRule has yet to invalidate for, or 0
    overtaken,  \* history: versions in a reader's hands when they were replaced
    overruns,   \* history: locks that expired under an owner still at work
    faults      \* how many calls have failed

vars == <<rule, cache, lock, reader, writer, overtaken, overruns, faults>>

Places == {"idle", "get", "lock", "reget", "query", "set", "release"}
Idle == [pc |-> "idle", gotLock |-> FALSE, held |-> 0]

Init ==
    /\ rule = 0
    /\ cache = NoEntry
    /\ lock = Free
    /\ reader = [r \in Readers |-> Idle]
    /\ writer = [u \in Writers |-> 0]
    /\ overtaken = {}
    /\ overruns = 0
    /\ faults = 0

Goto(r, pc) == reader' = [reader EXCEPT ![r].pc = pc]

\* A call that returns and remembers the lock it no longer has.
ReturnKeeping(r) == reader' = [reader EXCEPT ![r].pc = "idle"]

Return(r) == reader' = [reader EXCEPT ![r] = Idle]

\* finally { if (gotLock) ... }
LeaveTry(r) == IF reader[r].gotLock THEN Goto(r, "release") ELSE Return(r)

Call(r) ==
    /\ reader[r].pc = "idle"
    /\ Goto(r, "get")
    /\ UNCHANGED <<rule, cache, lock, writer, overtaken, overruns, faults>>

\* readCache, the first time and after the wait of a call without the lock.
Get(r) ==
    /\ \/ reader[r].pc = "get" /\ IF cache = NoEntry THEN Goto(r, "lock") ELSE Return(r)
       \/ reader[r].pc = "reget" /\ IF cache = NoEntry THEN Goto(r, "query") ELSE Return(r)
    /\ UNCHANGED <<rule, cache, lock, writer, overtaken, overruns, faults>>

\* A lock that is set without NX.
AcquireAnyway(r) ==
    /\ reader[r].pc = "lock"
    /\ lock' = r
    /\ reader' = [reader EXCEPT ![r].pc = "query", ![r].gotLock = TRUE]
    /\ UNCHANGED <<rule, cache, writer, overtaken, overruns, faults>>

\* SET ... PX NX.  A call that does not get the lock waits a little, once, and
\* goes on without it.
Acquire(r) ==
    /\ reader[r].pc = "lock"
    /\ IF lock = Free
       THEN /\ lock' = r
            /\ reader' = [reader EXCEPT ![r].pc = "query", ![r].gotLock = TRUE]
       ELSE Goto(r, "reget") /\ UNCHANGED lock
    /\ UNCHANGED <<rule, cache, writer, overtaken, overruns, faults>>

\* cashbackRule.findUnique
Query(r) ==
    /\ reader[r].pc = "query"
    /\ reader' = [reader EXCEPT ![r].pc = "set", ![r].held = rule]
    /\ UNCHANGED <<rule, cache, lock, writer, overtaken, overruns, faults>>

\* writeCache: whatever was read, whatever has happened since.
Set(r) ==
    /\ reader[r].pc = "set"
    /\ cache' = reader[r].held
    /\ LeaveTry(r)
    /\ UNCHANGED <<rule, lock, writer, overtaken, overruns, faults>>

\* releaseLock: a plain DEL, whoever set the lock.
Release(r) ==
    /\ reader[r].pc = "release"
    /\ lock' = Free
    /\ Return(r)
    /\ UNCHANGED <<rule, cache, writer, overtaken, overruns, faults>>

\* A Redis call fails; it may have taken effect before.  The catch blocks turn
\* a failed read into a miss and a failed lock into a lock not got.
RedisFails(r) ==
    /\ faults < MaxFaults
    /\ \/ reader[r].pc = "get" /\ Goto(r, "lock") /\ UNCHANGED <<cache, lock>>
       \/ /\ reader[r].pc = "lock" /\ Goto(r, "reget") /\ UNCHANGED cache
          /\ lock' \in {lock, IF lock = Free THEN r ELSE lock}
       \/ reader[r].pc = "reget" /\ Goto(r, "query") /\ UNCHANGED <<cache, lock>>
       \/ /\ reader[r].pc = "set" /\ LeaveTry(r) /\ UNCHANGED lock
          /\ cache' \in {cache, reader[r].held}
       \/ /\ reader[r].pc = "release" /\ Return(r) /\ UNCHANGED cache
          /\ lock' \in {lock, Free}
    /\ faults' = faults + 1
    /\ UNCHANGED <<rule, writer, overtaken, overruns>>

\* The query throws out of the try block.
QueryFails(r) ==
    /\ faults < MaxFaults
    /\ reader[r].pc = "query"
    /\ LeaveTry(r)
    /\ faults' = faults + 1
    /\ UNCHANGED <<rule, cache, lock, writer, overtaken, overruns>>

\* The worker process dies; its lock stays behind.
Crash(r) ==
    /\ faults < MaxFaults
    /\ reader[r].pc # "idle"
    /\ Return(r)
    /\ faults' = faults + 1
    /\ UNCHANGED <<rule, cache, lock, writer, overtaken, overruns>>

\* A TTL that every read extends.
ExpireUnread ==
    /\ cache # NoEntry
    /\ \A r \in Readers : reader[r].pc = "idle"
    /\ cache' = NoEntry
    /\ UNCHANGED <<rule, lock, reader, writer, overtaken, overruns, faults>>

\* EX cacheTtlSeconds, counted from the write.
Expire ==
    /\ cache # NoEntry
    /\ cache' = NoEntry
    /\ UNCHANGED <<rule, lock, reader, writer, overtaken, overruns, faults>>

\* PX lockTtlMs: under an owner that is still at work, or left behind by one
\* that is gone.
LockExpires ==
    /\ lock # Free
    /\ lock' = Free
    /\ IF reader[lock].gotLock
       THEN overruns < MaxOverruns /\ overruns' = overruns + 1
       ELSE UNCHANGED overruns
    /\ UNCHANGED <<rule, cache, reader, writer, overtaken, faults>>

\* upsertRule, the database's half.
Upsert(u) ==
    /\ writer[u] = 0
    /\ rule < MaxUpserts
    /\ rule' = rule + 1
    /\ writer' = [writer EXCEPT ![u] = rule + 1]
    /\ overtaken' = IF \E r \in Readers : reader[r].pc = "set" /\ reader[r].held = rule
                    THEN overtaken \cup {rule} ELSE overtaken
    /\ UNCHANGED <<cache, lock, reader, overruns, faults>>

\* An upsert that has nothing to do after the database.
InvalidateNothing(u) ==
    /\ writer[u] # 0
    /\ writer' = [writer EXCEPT ![u] = 0]
    /\ UNCHANGED <<rule, cache, lock, reader, overtaken, overruns, faults>>

\* invalidate: DEL, after the commit.
Invalidate(u) ==
    /\ writer[u] # 0
    /\ cache' = NoEntry
    /\ writer' = [writer EXCEPT ![u] = 0]
    /\ UNCHANGED <<rule, lock, reader, overtaken, overruns, faults>>

\* The DEL fails and the error is swallowed, or the pod dies before it.
InvalidateFails(u) ==
    /\ faults < MaxFaults
    /\ writer[u] # 0
    /\ writer' = [writer EXCEPT ![u] = 0]
    /\ faults' = faults + 1
    /\ UNCHANGED <<rule, cache, lock, reader, overtaken, overruns>>

ReaderStep(r) == Get(r) \/ Acquire(r) \/ Query(r) \/ Set(r) \/ Release(r)
Fault(r) == RedisFails(r) \/ QueryFails(r) \/ Crash(r)

Next ==
    \/ \E r \in Readers : Call(r) \/ ReaderStep(r) \/ Fault(r)
    \/ \E u \in Writers : Upsert(u) \/ Invalidate(u) \/ InvalidateFails(u)
    \/ Expire \/ LockExpires

\* Calls in progress go on, and the TTL of an entry elapses.
Fairness ==
    /\ \A r \in Readers : WF_vars(ReaderStep(r))
    /\ \A u \in Writers : WF_vars(Invalidate(u))
    /\ WF_vars(Expire)

Spec == Init /\ [][Next]_vars
FairSpec == Spec /\ Fairness

-----------------------------------------------------------------------------
(* Properties *)

\* Types, and: a call has the lock only between getting and releasing it.
TypeOK ==
    /\ rule \in Nat
    /\ cache \in Nat \cup {NoEntry}
    /\ lock \in Readers \cup {Free}
    /\ reader \in [Readers -> [pc : Places, gotLock : BOOLEAN, held : Nat]]
    /\ writer \in [Writers -> Nat]
    /\ overtaken \subseteq Nat
    /\ overruns \in Nat
    /\ faults \in Nat
    /\ \A r \in Readers : reader[r].gotLock => reader[r].pc \in {"query", "set", "release"}

\* A replaced rule is still cached only while its upsert has yet to invalidate,
\* or if a reader held it across the upsert, or if a call has failed.
StaleIsExplained ==
    cache # NoEntry /\ cache < rule /\ faults = 0 =>
       cache \in overtaken \/ \E u \in Writers : writer[u] # 0

Holders == {r \in Readers : reader[r].gotLock}

\* At most one call fills the cache under the lock, and one more for each lock
\* that expired under its owner: that the owner then deletes the lock of the
\* next one lets no further calls in than the expiry did.
LockAdmits == Cardinality(Holders) <= 1 + overruns

\* Once the rule stops changing, the cache never again holds an old version,
\* for ever: whatever failed or raced, the TTL repairs it.
EventuallyFresh == <>[](cache \in {NoEntry, rule})
=============================================================================
