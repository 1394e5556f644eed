---------------------- MODULE CashbackRuleCacheProofs ----------------------
(***************************************************************************)
(* Theorems about CashbackRuleCache, for any number of concurrent readers  *)
(* and writers and any value of the bounds.                                *)
(***************************************************************************)
EXTENDS CashbackRuleCache, FiniteSetTheorems, TLAPS

CallType == [pc : Places, gotLock : BOOLEAN, held : Nat]

\* Who holds the lock is known from where a call is, in both directions that
\* matter: nobody else has it, and whoever releases it once got it.
LockPlaces ==
    \A r \in Readers :
       /\ reader[r].gotLock => reader[r].pc \in {"query", "set", "release"}
       /\ reader[r].pc = "release" => reader[r].gotLock

StateOK ==
    /\ rule \in Nat
    /\ cache \in Nat \cup {NoEntry}
    /\ lock \in Readers \cup {Free}
    /\ writer \in [Writers -> Nat]
    /\ overtaken \subseteq Nat
    /\ overruns \in Nat
    /\ faults \in Nat

TypeInv == reader \in [Readers -> CallType] /\ LockPlaces /\ StateOK

\* What one call may become: LeaveTry and Return change its own record only.
LEMMA Moves ==
    ASSUME TypeInv, NEW r \in Readers
    PROVE  /\ \A pc \in Places : Goto(r, pc) =>
                 reader' = [reader EXCEPT ![r] = [reader[r] EXCEPT !.pc = pc]]
           /\ LeaveTry(r) => reader' = [reader EXCEPT ![r] =
                 IF reader[r].gotLock THEN [reader[r] EXCEPT !.pc = "release"] ELSE Idle]
           /\ Return(r) => reader' = [reader EXCEPT ![r] = Idle]
  BY DEF TypeInv, Goto, LeaveTry, Return, Places

\* A call moves to a record in which the lock and the place agree.
LEMMA OneCall ==
    ASSUME TypeInv, NEW r \in Readers, NEW c \in CallType, reader' = [reader EXCEPT ![r] = c],
           c.gotLock => c.pc \in {"query", "set", "release"},
           c.pc = "release" => c.gotLock
    PROVE  reader' \in [Readers -> CallType] /\ LockPlaces'
  BY DEF TypeInv, LockPlaces

LEMMA InitTypeInv == Init => TypeInv
  BY DEF Init, TypeInv, LockPlaces, StateOK, Idle, CallType, Places

LEMMA StepTypeInv == TypeInv /\ [Next]_vars => TypeInv'
<1> SUFFICES ASSUME TypeInv, [Next]_vars PROVE TypeInv'
  OBVIOUS
<1>typ. /\ \A r \in Readers : reader[r] \in CallType
        /\ StateOK
        /\ \A r \in Readers : /\ reader[r].gotLock => reader[r].pc \in {"query", "set", "release"}
                              /\ reader[r].pc = "release" => reader[r].gotLock
  BY DEF TypeInv, LockPlaces
<1>idle. Idle \in CallType /\ ~Idle.gotLock /\ Idle.pc = "idle"
  BY DEF Idle, CallType, Places
\* A call that moves to a place where having the lock is of no account.
<1>go. ASSUME NEW r \in Readers, NEW pc \in Places, Goto(r, pc),
              pc # "release", reader[r].gotLock => pc \in {"query", "set"}
       PROVE  reader' \in [Readers -> CallType] /\ LockPlaces'
  <2>1. [reader[r] EXCEPT !.pc = pc] \in CallType
    BY <1>typ DEF CallType
  <2>2. [reader[r] EXCEPT !.pc = pc].gotLock = reader[r].gotLock
        /\ [reader[r] EXCEPT !.pc = pc].pc = pc
    BY <1>typ DEF CallType
  <2>3. reader' = [reader EXCEPT ![r] = [reader[r] EXCEPT !.pc = pc]]
    BY <1>go, Moves
  <2> QED
    BY <1>go, <2>1, <2>2, <2>3, OneCall
<1>ret. ASSUME NEW r \in Readers, Return(r)
        PROVE  reader' \in [Readers -> CallType] /\ LockPlaces'
  BY <1>ret, <1>idle, Moves, OneCall
<1>try. ASSUME NEW r \in Readers, LeaveTry(r)
        PROVE  reader' \in [Readers -> CallType] /\ LockPlaces'
  <2>1. CASE reader[r].gotLock
    <3>1. [reader[r] EXCEPT !.pc = "release"] \in CallType
      BY <1>typ DEF CallType, Places
    <3>2. [reader[r] EXCEPT !.pc = "release"].gotLock
      BY <1>typ, <2>1 DEF CallType
    <3>3. [reader[r] EXCEPT !.pc = "release"].pc = "release"
      BY <1>typ DEF CallType
    <3>4. reader' = [reader EXCEPT ![r] = [reader[r] EXCEPT !.pc = "release"]]
      BY <1>try, <2>1, Moves
    <3> QED
      BY <3>1, <3>2, <3>3, <3>4, OneCall
  <2>2. CASE ~reader[r].gotLock
    BY <1>try, <1>ret, <2>2 DEF LeaveTry
  <2> QED
    BY <2>1, <2>2
<1>1. ASSUME NEW r \in Readers, Call(r) PROVE TypeInv'
  <2>1. reader' \in [Readers -> CallType] /\ LockPlaces'
    BY <1>1, <1>typ, <1>go DEF Call, Places
  <2> QED
    BY <1>1, <1>typ, <2>1 DEF Call, TypeInv, StateOK
<1>2. ASSUME NEW r \in Readers, Get(r) PROVE TypeInv'
  <2>1. reader' \in [Readers -> CallType] /\ LockPlaces'
    BY <1>2, <1>typ, <1>go, <1>ret DEF Get, Places
  <2> QED
    BY <1>2, <1>typ, <2>1 DEF Get, TypeInv, StateOK
<1>3. ASSUME NEW r \in Readers, Acquire(r) PROVE TypeInv'
  <2>1. CASE lock = Free
    <3> DEFINE c == [reader[r] EXCEPT !.pc = "query", !.gotLock = TRUE]
    <3>1. c \in CallType /\ c.gotLock /\ c.pc = "query"
      BY <1>typ DEF CallType, Places
    <3>2. reader' = [reader EXCEPT ![r] = c] /\ lock' = r
      BY <1>3, <2>1 DEF Acquire, TypeInv
    <3> HIDE DEF c
    <3>3. reader' \in [Readers -> CallType] /\ LockPlaces'
      BY <3>1, <3>2, OneCall
    <3> QED
      BY <1>3, <1>typ, <3>2, <3>3 DEF Acquire, TypeInv, StateOK
  <2>2. CASE lock # Free
    <3>1. reader' \in [Readers -> CallType] /\ LockPlaces'
      BY <1>3, <1>typ, <1>go, <2>2 DEF Acquire, Places
    <3> QED
      BY <1>3, <1>typ, <2>2, <3>1 DEF Acquire, TypeInv, StateOK
  <2> QED
    BY <2>1, <2>2
<1>4. ASSUME NEW r \in Readers, Query(r) PROVE TypeInv'
  <2> DEFINE c == [reader[r] EXCEPT !.pc = "set", !.held = rule]
  <2>1. c \in CallType /\ c.pc = "set"
    BY <1>typ DEF CallType, Places, StateOK
  <2>2. reader' = [reader EXCEPT ![r] = c]
    BY <1>4 DEF Query, TypeInv
  <2> HIDE DEF c
  <2>3. reader' \in [Readers -> CallType] /\ LockPlaces'
    BY <2>1, <2>2, OneCall
  <2> QED
    BY <1>4, <1>typ, <2>3 DEF Query, TypeInv, StateOK
<1>5. ASSUME NEW r \in Readers, Set(r) PROVE TypeInv'
  <2>1. reader' \in [Readers -> CallType] /\ LockPlaces'
    BY <1>5, <1>try DEF Set
  <2> QED
    BY <1>5, <1>typ, <2>1 DEF Set, TypeInv, StateOK, CallType
<1>6. ASSUME NEW r \in Readers, Release(r) PROVE TypeInv'
  <2>1. reader' \in [Readers -> CallType] /\ LockPlaces'
    BY <1>6, <1>ret DEF Release
  <2> QED
    BY <1>6, <1>typ, <2>1 DEF Release, TypeInv, StateOK
<1>7. ASSUME NEW r \in Readers, RedisFails(r) PROVE TypeInv'
  <2>1. reader' \in [Readers -> CallType] /\ LockPlaces'
    BY <1>7, <1>typ, <1>go, <1>ret, <1>try DEF RedisFails, Places
  <2>2. StateOK'
    BY <1>7, <1>typ DEF RedisFails, StateOK, CallType
  <2> QED
    BY <2>1, <2>2 DEF TypeInv
<1>8. ASSUME NEW r \in Readers, QueryFails(r) PROVE TypeInv'
  <2>1. reader' \in [Readers -> CallType] /\ LockPlaces'
    BY <1>8, <1>try DEF QueryFails
  <2> QED
    BY <1>8, <1>typ, <2>1 DEF QueryFails, TypeInv, StateOK
<1>9. ASSUME NEW r \in Readers, Crash(r) PROVE TypeInv'
  <2>1. reader' \in [Readers -> CallType] /\ LockPlaces'
    BY <1>9, <1>ret DEF Crash
  <2> QED
    BY <1>9, <1>typ, <2>1 DEF Crash, TypeInv, StateOK
<1>10. ASSUME NEW u \in Writers, Upsert(u) \/ Invalidate(u) \/ InvalidateFails(u)
       PROVE  TypeInv'
  <2>1. UNCHANGED reader
    BY <1>10 DEF Upsert, Invalidate, InvalidateFails
  <2>2. ASSUME Upsert(u) PROVE StateOK'
    <3>1. rule + 1 \in Nat /\ UNCHANGED <<cache, lock, overruns, faults>>
      BY <1>typ, <2>2 DEF Upsert, StateOK
    <3>2. overtaken' \subseteq Nat
      BY <1>typ, <2>2 DEF Upsert, StateOK
    <3>3. writer' \in [Writers -> Nat] /\ rule' \in Nat
      BY <1>typ, <2>2, <3>1 DEF Upsert, StateOK
    <3> QED
      BY <1>typ, <3>1, <3>2, <3>3 DEF StateOK
  <2>3. ASSUME Invalidate(u) \/ InvalidateFails(u) PROVE StateOK'
    <3>1. writer' \in [Writers -> Nat]
      BY <1>typ, <2>3 DEF Invalidate, InvalidateFails, StateOK
    <3>2. faults' \in Nat /\ cache' \in Nat \cup {NoEntry}
      BY <1>typ, <2>3 DEF Invalidate, InvalidateFails, StateOK
    <3> QED
      BY <1>typ, <2>3, <3>1, <3>2 DEF Invalidate, InvalidateFails, StateOK
  <2> QED
    BY <1>10, <2>1, <2>2, <2>3 DEF TypeInv, LockPlaces
<1>11. ASSUME Expire \/ LockExpires PROVE TypeInv'
  <2>1. UNCHANGED reader
    BY <1>11 DEF Expire, LockExpires
  <2>2. overruns' \in Nat
    BY <1>11, <1>typ DEF Expire, LockExpires, StateOK
  <2>3. UNCHANGED <<rule, writer, overtaken, faults>>
    BY <1>11 DEF Expire, LockExpires
  <2>4. cache' \in Nat \cup {NoEntry} /\ lock' \in Readers \cup {Free}
    BY <1>11, <1>typ DEF Expire, LockExpires, StateOK
  <2>5. StateOK'
    BY <1>typ, <2>2, <2>3, <2>4 DEF StateOK
  <2> QED
    BY <2>1, <2>5 DEF TypeInv, LockPlaces
<1>12. ASSUME UNCHANGED vars PROVE TypeInv'
  BY <1>12 DEF vars, TypeInv, LockPlaces, StateOK
<1> QED
  BY <1>1, <1>2, <1>3, <1>4, <1>5, <1>6, <1>7, <1>8, <1>9, <1>10, <1>11, <1>12
     DEF Next, ReaderStep, Fault

\* Every reachable state of the cache is well typed, and a call has the lock
\* only between getting and releasing it.
THEOREM TypeCorrect == Spec => []TypeOK
<1>1. TypeInv => TypeOK
  BY DEF TypeInv, LockPlaces, StateOK, TypeOK, CallType
<1> QED
  BY <1>1, InitTypeInv, StepTypeInv, PTL DEF Spec

-----------------------------------------------------------------------------
(* Staleness.  As long as no call has failed, every replaced version that   *)
(* is still around has a reason to be: in a reader's hands, because it was  *)
(* there when it was replaced; in the cache, because such a reader put it   *)
(* there or because the upsert that replaced it has yet to invalidate.      *)

StaleInv ==
    faults = 0 =>
       /\ \A r \in Readers :
             reader[r].pc = "set" /\ reader[r].held < rule => reader[r].held \in overtaken
       /\ cache # NoEntry /\ cache < rule =>
             cache \in overtaken \/ \E u \in Writers : writer[u] = cache + 1

LEMMA StepStaleInv == TypeInv /\ StaleInv /\ [Next]_vars => StaleInv'
<1> SUFFICES ASSUME TypeInv, StaleInv, [Next]_vars, faults' = 0 PROVE StaleInv'
  BY DEF StaleInv
<1>typ. /\ reader \in [Readers -> CallType]
        /\ \A r \in Readers : reader[r] \in CallType /\ reader[r].held \in Nat
        /\ writer \in [Writers -> Nat]
        /\ rule \in Nat /\ cache \in Nat \cup {NoEntry} /\ faults \in Nat
        /\ lock \in Readers \cup {Free}
  BY DEF TypeInv, StateOK, CallType
\* Steps of calls that put nothing in the cache and read nothing.
<1>calm. ASSUME NEW r \in Readers, UNCHANGED <<rule, writer, overtaken, faults>>,
                cache' \in {cache, NoEntry},
                \A s \in Readers : s # r => reader'[s] = reader[s],
                reader'[r].pc # "set" \/ reader'[r] = reader[r]
         PROVE  StaleInv'
  BY <1>calm DEF StaleInv
<1>1. ASSUME NEW r \in Readers, Call(r) \/ Get(r) \/ Acquire(r) \/ Release(r) PROVE StaleInv'
  <2>1. /\ \A s \in Readers : s # r => reader'[s] = reader[s]
        /\ reader'[r].pc # "set"
    BY <1>1, <1>typ DEF Call, Get, Acquire, Release, Goto, Return, Idle, CallType
  <2> QED
    BY <1>1, <1>calm, <2>1 DEF Call, Get, Acquire, Release
<1>2. ASSUME NEW r \in Readers, Query(r) PROVE StaleInv'
  <2>1. /\ reader'[r].held = rule
        /\ \A s \in Readers : s # r => reader'[s] = reader[s]
    BY <1>2, <1>typ DEF Query, CallType
  <2> QED
    BY <1>2, <1>typ, <2>1 DEF Query, StaleInv
<1>3. ASSUME NEW r \in Readers, Set(r) PROVE StaleInv'
  <2>1. /\ \A s \in Readers : s # r => reader'[s] = reader[s]
        /\ reader'[r].pc # "set"
    BY <1>3, <1>typ DEF Set, LeaveTry, Goto, Return, Idle, CallType
  <2> QED
    BY <1>3, <2>1 DEF Set, StaleInv
<1>4. ASSUME NEW u \in Writers, Upsert(u) PROVE StaleInv'
  <2>1. writer'[u] = rule + 1 /\ UNCHANGED <<cache, reader, faults>> /\ rule' = rule + 1
    BY <1>4, <1>typ DEF Upsert
  <2>2. writer[u] = 0 /\ \A v \in Writers : v # u => writer'[v] = writer[v]
    BY <1>4, <1>typ DEF Upsert
  <2>3. /\ overtaken \subseteq overtaken'
        /\ (\E r \in Readers : reader[r].pc = "set" /\ reader[r].held = rule) => rule \in overtaken'
    BY <1>4 DEF Upsert
  <2>4. ASSUME NEW r \in Readers, reader[r].pc = "set", reader[r].held < rule'
        PROVE  reader[r].held \in overtaken'
    BY <1>typ, <2>1, <2>3, <2>4 DEF StaleInv
  <2>5. ASSUME cache # NoEntry, cache < rule'
        PROVE  cache \in overtaken' \/ \E v \in Writers : writer'[v] = cache + 1
    <3>1. CASE cache = rule
      BY <2>1, <3>1
    <3>2. CASE cache < rule
      <4>1. cache \in overtaken \/ \E v \in Writers : writer[v] = cache + 1
        BY <2>1, <2>5, <3>2 DEF StaleInv
      <4>2. cache + 1 # 0
        BY <1>typ, <2>5
      <4> QED
        BY <2>2, <2>3, <4>1, <4>2
    <3> QED
      BY <1>typ, <2>1, <2>5, <3>1, <3>2
  <2> QED
    BY <2>1, <2>4, <2>5 DEF StaleInv
<1>5. ASSUME NEW u \in Writers, Invalidate(u) PROVE StaleInv'
  BY <1>5 DEF Invalidate, StaleInv
<1>6. ASSUME Expire \/ LockExpires PROVE StaleInv'
  BY <1>6 DEF Expire, LockExpires, StaleInv
<1>7. ASSUME NEW r \in Readers, Fault(r) PROVE FALSE
  BY <1>7, <1>typ DEF Fault, RedisFails, QueryFails, Crash
<1>8. ASSUME NEW u \in Writers, InvalidateFails(u) PROVE FALSE
  BY <1>8, <1>typ DEF InvalidateFails
<1>9. ASSUME UNCHANGED vars PROVE StaleInv'
  BY <1>9 DEF vars, StaleInv
<1> QED
  BY <1>1, <1>2, <1>3, <1>4, <1>5, <1>6, <1>7, <1>8, <1>9 DEF Next, ReaderStep

\* While no call has failed, the only stale entries are those a reader wrote
\* that had read across the upsert, and those about to be deleted.
THEOREM StalenessIsARace == Spec => []StaleIsExplained
<1>1. Init => StaleInv
  BY DEF Init, StaleInv, Idle
<1>2. TypeInv /\ StaleInv => StaleIsExplained
  BY DEF StaleInv, StaleIsExplained, TypeInv, StateOK
<1> QED
  BY <1>1, <1>2, InitTypeInv, StepTypeInv, StepStaleInv, PTL DEF Spec

-----------------------------------------------------------------------------
(* The lock.  Each expiry under an owner at work lets one more call in; the *)
(* owner's late DEL frees the lock of the next one, but then it has left.   *)

LockInv == Cardinality(Holders) <= overruns + (IF lock \in Holders THEN 1 ELSE 0)

LEMMA HoldersFinite ==
    IsFiniteSet(Holders) /\ Cardinality(Holders) \in Nat /\ Free \notin Holders
<1>1. Holders \subseteq Readers
  BY DEF Holders
<1> QED
  BY <1>1, FS_Subset, FS_CardinalityType, CacheConstants

\* A call that lets go of the lock, or of what it took for it.
LEMMA HolderLeaves ==
    ASSUME TypeInv, LockInv, NEW r \in Readers, UNCHANGED overruns,
           Holders' = Holders \ {r},
           lock' = lock \/ (r \in Holders /\ lock' = Free)
    PROVE  LockInv'
<1>1. Cardinality(Holders \ {r}) = IF r \in Holders THEN Cardinality(Holders) - 1
                                   ELSE Cardinality(Holders)
  BY HoldersFinite, FS_RemoveElement
<1>2. overruns \in Nat
  BY DEF TypeInv, StateOK
<1>3. CASE r \in Holders
  <2>1. Cardinality(Holders') <= overruns
    BY <1>1, <1>2, <1>3, HoldersFinite DEF LockInv
  <2> QED
    <3>1. Cardinality(Holders') \in Nat
      BY <1>1, <1>3, HoldersFinite, FS_RemoveElement, FS_CardinalityType
    <3> QED
      BY <1>2, <2>1, <3>1 DEF LockInv
<1>4. CASE r \notin Holders
  <2>1. Holders' = Holders /\ lock' = lock
    BY <1>4
  <2> QED
    BY <2>1 DEF LockInv
<1> QED
  BY <1>3, <1>4

LEMMA StepLockInv == TypeInv /\ TypeInv' /\ LockInv /\ [Next]_vars => LockInv'
<1> SUFFICES ASSUME TypeInv, TypeInv', LockInv, [Next]_vars PROVE LockInv'
  OBVIOUS
<1>typ. /\ reader \in [Readers -> CallType]
        /\ \A r \in Readers :
              /\ reader[r] \in CallType
              /\ reader[r].gotLock => reader[r].pc \in {"query", "set", "release"}
              /\ reader[r].pc = "release" => reader[r].gotLock
        /\ lock \in Readers \cup {Free} /\ Free \notin Readers
        /\ overruns \in Nat
  BY CacheConstants DEF TypeInv, LockPlaces, StateOK
\* Steps that give the lock to nobody and take it from nobody.
<1>same. ASSUME Holders' = Holders, UNCHANGED <<lock, overruns>> PROVE LockInv'
  BY <1>same DEF LockInv
<1>goto. ASSUME NEW r \in Readers, NEW pc, Goto(r, pc) PROVE Holders' = Holders
  BY <1>goto, <1>typ DEF Goto, Holders, CallType
<1>ret. ASSUME NEW r \in Readers, Return(r) PROVE Holders' = Holders \ {r}
  BY <1>ret, <1>typ DEF Return, Holders, Idle
<1>try. ASSUME NEW r \in Readers, LeaveTry(r) PROVE Holders' = Holders
  <2>1. CASE reader[r].gotLock
    BY <1>try, <1>goto, <2>1 DEF LeaveTry
  <2>2. CASE ~reader[r].gotLock
    BY <1>try, <1>ret, <2>2 DEF LeaveTry, Holders
  <2> QED
    BY <2>1, <2>2
<1>1. ASSUME NEW r \in Readers, Call(r) \/ Set(r) \/ QueryFails(r) PROVE LockInv'
  BY <1>1, <1>goto, <1>try, <1>same DEF Call, Set, QueryFails
<1>2. ASSUME NEW r \in Readers, Get(r) PROVE LockInv'
  <2>1. Holders' = Holders \/ Holders' = Holders \ {r}
    BY <1>2, <1>goto, <1>ret DEF Get
  <2> QED
    BY <1>2, <1>same, <2>1, HolderLeaves DEF Get
<1>3. ASSUME NEW r \in Readers, Query(r) PROVE LockInv'
  <2>1. Holders' = Holders
    BY <1>3, <1>typ DEF Query, Holders, CallType
  <2> QED
    BY <1>3, <1>same, <2>1 DEF Query
<1>4. ASSUME NEW r \in Readers, Acquire(r) PROVE LockInv'
  <2>1. CASE lock = Free
    <3>1. Holders' = Holders \cup {r} /\ lock' = r /\ UNCHANGED overruns
      BY <1>4, <1>typ, <2>1 DEF Acquire, Holders, CallType
    <3>2. Cardinality(Holders) <= overruns
      BY <1>typ, <2>1, HoldersFinite DEF LockInv, Holders
    <3>3. \/ Cardinality(Holders \cup {r}) = Cardinality(Holders)
          \/ Cardinality(Holders \cup {r}) = Cardinality(Holders) + 1
      BY HoldersFinite, FS_AddElement
    <3>4. lock' \in Holders'
      BY <3>1
    <3>5. Cardinality(Holders') <= overruns + 1
      BY <1>typ, <3>1, <3>2, <3>3, HoldersFinite
    <3> QED
      BY <3>1, <3>4, <3>5 DEF LockInv
  <2>2. CASE lock # Free
    BY <1>4, <1>goto, <1>same, <2>2 DEF Acquire
  <2> QED
    BY <2>1, <2>2
<1>5. ASSUME NEW r \in Readers, Release(r) PROVE LockInv'
  <2>1. r \in Holders
    BY <1>5, <1>typ DEF Release, Holders
  <2> QED
    BY <1>5, <1>ret, <2>1, HolderLeaves DEF Release
<1>6. ASSUME NEW r \in Readers, Crash(r) PROVE LockInv'
  BY <1>6, <1>ret, HolderLeaves DEF Crash
<1>7. ASSUME NEW r \in Readers, RedisFails(r) PROVE LockInv'
  <2>1. CASE reader[r].pc = "lock"
    <3>1. Holders' = Holders /\ UNCHANGED overruns
      BY <1>7, <1>goto, <2>1 DEF RedisFails
    <3>2. lock' = lock \/ (lock = Free /\ lock' = r)
      BY <1>7, <2>1 DEF RedisFails
    <3>3. r \notin Holders
      BY <1>typ, <2>1 DEF Holders
    <3> QED
      BY <1>typ, <3>1, <3>2, <3>3 DEF LockInv, Holders
  <2>2. CASE reader[r].pc = "release"
    <3>1. r \in Holders
      BY <1>typ, <2>2 DEF Holders
    <3>2. Return(r) /\ lock' \in {lock, Free} /\ UNCHANGED overruns
      BY <1>7, <2>2 DEF RedisFails
    <3> QED
      BY <1>ret, <3>1, <3>2, HolderLeaves
  <2>3. CASE reader[r].pc \notin {"lock", "release"}
    BY <1>7, <1>goto, <1>try, <1>same, <2>3 DEF RedisFails
  <2> QED
    BY <2>1, <2>2, <2>3
<1>8. ASSUME NEW u \in Writers, Upsert(u) \/ Invalidate(u) \/ InvalidateFails(u) PROVE LockInv'
  BY <1>8, <1>same DEF Upsert, Invalidate, InvalidateFails, Holders
<1>9. ASSUME Expire PROVE LockInv'
  BY <1>9, <1>same DEF Expire, Holders
<1>10. ASSUME LockExpires PROVE LockInv'
  <2>1. Holders' = Holders /\ lock' = Free /\ lock \in Readers
    BY <1>10, <1>typ DEF LockExpires, Holders
  <2>2. overruns' = IF lock \in Holders THEN overruns + 1 ELSE overruns
    BY <1>10, <2>1 DEF LockExpires, Holders
  <2> QED
    <3>1. lock' \notin Holders'
      BY <2>1, HoldersFinite
    <3>2. Cardinality(Holders) <= overruns'
      BY <1>typ, <2>2, HoldersFinite DEF LockInv
    <3>3. overruns' \in Nat
      BY <1>typ, <2>2
    <3> QED
      BY <2>1, <3>1, <3>2, <3>3, HoldersFinite DEF LockInv
<1>11. ASSUME UNCHANGED vars PROVE LockInv'
  BY <1>11, <1>same DEF vars, Holders
<1> QED
  BY <1>1, <1>2, <1>3, <1>4, <1>5, <1>6, <1>7, <1>8, <1>9, <1>10, <1>11
     DEF Next, ReaderStep, Fault

\* The fill lock admits one call at a time, and one more for each lock that
\* expired under its owner, whoever deletes whose lock and whatever fails.
THEOREM LockExcludes == Spec => []LockAdmits
<1>1. Init => LockInv
  <2>1. Init => Holders = {}
    BY DEF Init, Holders, Idle
  <2> QED
    BY <2>1, FS_EmptySet DEF Init, LockInv
<1>2. TypeInv /\ LockInv => LockAdmits
  BY HoldersFinite DEF LockInv, LockAdmits, TypeInv, StateOK
<1> QED
  BY <1>1, <1>2, InitTypeInv, StepTypeInv, StepLockInv, PTL DEF Spec
=============================================================================
