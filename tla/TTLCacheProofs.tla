-------------------------- MODULE TTLCacheProofs --------------------------
(* Proofs about TTLCache, for any callers, keys and size of the cache. *)
EXTENDS TTLCache, FiniteSetTheorems, TLAPS

\* The size of a set of entries that loses some, and of one that makes room.
LEMMA Smaller ==
    ASSUME NEW S, IsFiniteSet(S), Cardinality(S) <= MaxEntries, NEW T \in SUBSET S
    PROVE  IsFiniteSet(T) /\ Cardinality(T) <= MaxEntries
BY ConstantsAssumption, FS_Subset, FS_CardinalityType

LEMMA RoomMade ==
    ASSUME NEW S, IsFiniteSet(S), NEW E \in SUBSET S, MakesRoom(S, E)
    PROVE  IsFiniteSet(S \ E) /\ Cardinality(S \ E) <= MaxEntries
<1>1. IsFiniteSet(S \ E) /\ Cardinality(S) \in Nat
  BY FS_Subset, FS_CardinalityType
<1>2. CASE Cardinality(S) > MaxEntries
  BY <1>1, <1>2, ConstantsAssumption DEF MakesRoom
<1>3. CASE ~(Cardinality(S) > MaxEntries)
  <2>1. S \ E = S
    BY <1>3 DEF MakesRoom
  <2> QED BY <1>1, <1>3, <2>1, ConstantsAssumption
<1> QED BY <1>2, <1>3

----------------------------------------------------------------------------
CallType == [at : Stages, key : Keys \cup {NoKey}, lock : Locks \cup {NoLock}]

\* The types, and that the entries are finitely many.
Typed == TypeOK /\ IsFiniteSet(entries)

\* What a look, a return and a step to another stage leave of the types.
LEMMA LookType ==
    ASSUME Typed, NEW t \in Threads, Look(t)
    PROVE  /\ entries' \subseteq entries /\ IsFiniteSet(entries') /\ Cardinality(entries') <= MaxEntries
           /\ expired' \subseteq entries'
BY Smaller DEF Look, Typed, TypeOK

LEMMA ReturnType ==
    ASSUME Typed, NEW t \in Threads, Return(t)
    PROVE  call' \in [Threads -> CallType] /\ stored' \subseteq Keys /\ dropped' \subseteq Keys
<1>1. Idle \in CallType
  BY DEF Idle, CallType, Stages
<1> QED BY <1>1 DEF Return, Typed, TypeOK, CallType

LEMMA GoToType ==
    ASSUME Typed, NEW t \in Threads, NEW s \in Stages, GoTo(t, s)
    PROVE  call' \in [Threads -> CallType]
BY DEF GoTo, Typed, TypeOK, CallType

\* The steps keep the types, and the entries finite and few.
LEMMA NextType == ASSUME Typed, CallsWellFormed, Next PROVE Typed'
<1> USE ConstantsAssumption
<1>0. call \in [Threads -> CallType]
  BY DEF Typed, TypeOK, CallType
<1>a. ASSUME IsFiniteSet(entries'), Cardinality(entries') <= MaxEntries, entries' \subseteq Keys,
             expired' \subseteq entries', keyLocks' \in [Keys -> Locks \cup {NoLock}],
             call' \in [Threads -> CallType], left' \in [Threads -> Nat],
             stored' \subseteq Keys, dropped' \subseteq Keys
      PROVE  Typed'
  BY <1>a DEF Typed, TypeOK, CallType
<1>1. ASSUME NEW t \in Threads, NEW k \in Keys, GetOrLoad(t, k) PROVE Typed'
  <2>1. [at |-> "get", key |-> k, lock |-> NoLock] \in CallType
    BY DEF CallType, Stages
  <2>2. call' \in [Threads -> CallType] /\ left' \in [Threads -> Nat]
    BY <1>0, <1>1, <2>1 DEF GetOrLoad, Typed, TypeOK
  <2> QED BY <1>1, <1>a, <2>2 DEF GetOrLoad, Typed, TypeOK
<1>2. ASSUME NEW t \in Threads, Continue(t) PROVE Typed'
  <2>1. CASE Get(t)
    <3>1. call' \in [Threads -> CallType] /\ stored' \subseteq Keys /\ dropped' \subseteq Keys
      BY <2>1, ReturnType, GoToType DEF Get, UnchangedHistory, Stages, Typed, TypeOK
    <3> QED BY <2>1, <1>a, <3>1, LookType DEF Get, Typed, TypeOK
  <2>2. CASE TakeLock(t)
    <3>1. PICK l \in Locks : TakeLock(t)!2!(l)
      BY <2>2 DEF TakeLock
    <3>2. call' \in [Threads -> CallType]
      BY <3>1, <1>0 DEF CallType, Stages
    <3> QED BY <2>2, <1>a, <3>1, <3>2 DEF TakeLock, Typed, TypeOK
  <2>3. CASE Acquire(t)
    BY <2>3, <1>a, GoToType DEF Acquire, Stages, Typed, TypeOK
  <2>4. CASE Check(t)
    <3>1. call' \in [Threads -> CallType] /\ stored' \subseteq Keys /\ dropped' \subseteq Keys
      BY <2>4, ReturnType, GoToType DEF Check, UnchangedHistory, Stages, Typed, TypeOK
    <3> QED BY <2>4, <1>a, <3>1, LookType DEF Check, Typed, TypeOK
  <2>5. CASE Load(t)
    BY <2>5, <1>a, GoToType DEF Load, Stages, Typed, TypeOK
  <2>6. CASE LoadFails(t)
    BY <2>6, <1>a, ReturnType DEF LoadFails, Typed, TypeOK
  <2>7. CASE Set(t)
    <3> DEFINE all == entries \cup {Key(t)}
    <3>1. PICK E \in SUBSET (all \ {Key(t)}) :
            /\ MakesRoom(all, E)
            /\ entries' = all \ E
            /\ expired' = expired \ ({Key(t)} \cup E)
            /\ Lost(E)
      BY <2>7 DEF Set
    <3>2. Key(t) \in Keys
      BY <2>7 DEF Set, CallsWellFormed, At
    <3>3. IsFiniteSet(all)
      BY FS_AddElement DEF Typed
    <3>4. IsFiniteSet(entries') /\ Cardinality(entries') <= MaxEntries
      BY <3>1, <3>3, RoomMade
    <3>5. call' \in [Threads -> CallType]
      BY <2>7, GoToType DEF Set, Stages
    <3>6. entries' \subseteq Keys /\ expired' \subseteq entries' /\ stored' \subseteq Keys /\ dropped' \subseteq Keys
      BY <2>7, <3>1, <3>2 DEF Set, Lost, Typed, TypeOK
    <3> QED BY <2>7, <1>a, <3>4, <3>5, <3>6 DEF Set, Typed, TypeOK
  <2>8. CASE Unlock(t)
    BY <2>8, <1>a, GoToType DEF Unlock, Stages, Typed, TypeOK
  <2>9. CASE Pop(t)
    <3>1. keyLocks' \in [Keys -> Locks \cup {NoLock}]
      BY <2>9 DEF Pop, Typed, TypeOK
    <3> QED BY <2>9, <1>a, <3>1, ReturnType DEF Pop, Typed, TypeOK
  <2> QED BY <1>2, <2>1, <2>2, <2>3, <2>4, <2>5, <2>6, <2>7, <2>8, <2>9 DEF Continue
<1>3. ASSUME NEW k \in Keys, Expire(k) PROVE Typed'
  BY <1>3, <1>0, <1>a DEF Expire, Lost, Fresh, Typed, TypeOK
<1>4. CASE Clear
  <2>1. IsFiniteSet(entries') /\ Cardinality(entries') <= MaxEntries
    BY <1>4, FS_EmptySet DEF Clear
  <2>2. keyLocks' \in [Keys -> Locks \cup {NoLock}]
    BY <1>4 DEF Clear
  <2> QED BY <1>4, <1>0, <1>a, <2>1, <2>2 DEF Clear, Lost, Typed, TypeOK
<1> QED BY <1>1, <1>2, <1>3, <1>4 DEF Next

\* What each stage of a call has in hand.
LEMMA NextWellFormed == ASSUME TypeOK, CallsWellFormed, Next PROVE CallsWellFormed'
<1>1. ASSUME NEW t \in Threads, NEW k \in Keys, GetOrLoad(t, k) PROVE CallsWellFormed'
  BY <1>1 DEF GetOrLoad, CallsWellFormed, TypeOK, Referring, Holding, At, Key
<1>2. ASSUME NEW t \in Threads, Continue(t) PROVE CallsWellFormed'
  <2>1. CASE Get(t)
    BY <2>1 DEF Get, Return, GoTo, Idle, CallsWellFormed, TypeOK, Referring, Holding, At, Key
  <2>2. CASE TakeLock(t)
    BY <2>2 DEF TakeLock, CallsWellFormed, TypeOK, Referring, Holding, At, Key
  <2>3. CASE Acquire(t)
    BY <2>3 DEF Acquire, GoTo, CallsWellFormed, TypeOK, Referring, Holding, At, Key
  <2>4. CASE Check(t)
    BY <2>4 DEF Check, Return, GoTo, Idle, CallsWellFormed, TypeOK, Referring, Holding, At, Key
  <2>5. CASE Load(t)
    BY <2>5 DEF Load, GoTo, CallsWellFormed, TypeOK, Referring, Holding, At, Key
  <2>6. CASE LoadFails(t)
    BY <2>6 DEF LoadFails, Return, Idle, CallsWellFormed, TypeOK, Referring, Holding, At, Key
  <2>7. CASE Set(t)
    BY <2>7 DEF Set, GoTo, CallsWellFormed, TypeOK, Referring, Holding, At, Key
  <2>8. CASE Unlock(t)
    BY <2>8 DEF Unlock, GoTo, CallsWellFormed, TypeOK, Referring, Holding, At, Key
  <2>9. CASE Pop(t)
    BY <2>9 DEF Pop, Return, Idle, CallsWellFormed, TypeOK, Referring, Holding, At, Key
  <2> QED BY <1>2, <2>1, <2>2, <2>3, <2>4, <2>5, <2>6, <2>7, <2>8, <2>9 DEF Continue
<1>3. ASSUME NEW k \in Keys, Expire(k) PROVE CallsWellFormed'
  BY <1>3 DEF Expire, CallsWellFormed, TypeOK, Referring, Holding, At, Key
<1>4. CASE Clear
  BY <1>4 DEF Clear, CallsWellFormed, TypeOK, Referring, Holding, At, Key
<1> QED BY <1>1, <1>2, <1>3, <1>4 DEF Next

\* Only Acquire takes a lock, and it takes a free one.
LEMMA NextHeldByOne == ASSUME TypeOK, CallsWellFormed, HeldByOne, Next PROVE HeldByOne'
<1>1. ASSUME NEW t \in Threads, NEW k \in Keys, GetOrLoad(t, k) PROVE HeldByOne'
  BY <1>1 DEF GetOrLoad, HeldByOne, TypeOK, Holding, At
<1>2. ASSUME NEW t \in Threads, Continue(t) PROVE HeldByOne'
  <2>1. CASE Get(t)
    BY <2>1 DEF Get, Return, GoTo, Idle, HeldByOne, TypeOK, Holding, At
  <2>2. CASE TakeLock(t)
    BY <2>2 DEF TakeLock, HeldByOne, TypeOK, Holding, At
  <2>3. CASE Acquire(t)
    BY <2>3 DEF Acquire, GoTo, Locked, HeldByOne, TypeOK, Holding, At
  <2>4. CASE Check(t)
    BY <2>4 DEF Check, Return, GoTo, Idle, HeldByOne, TypeOK, Holding, At
  <2>5. CASE Load(t)
    BY <2>5 DEF Load, GoTo, HeldByOne, TypeOK, Holding, At
  <2>6. CASE LoadFails(t)
    BY <2>6 DEF LoadFails, Return, Idle, HeldByOne, TypeOK, Holding, At
  <2>7. CASE Set(t)
    BY <2>7 DEF Set, GoTo, HeldByOne, TypeOK, Holding, At
  <2>8. CASE Unlock(t)
    BY <2>8 DEF Unlock, GoTo, HeldByOne, TypeOK, Holding, At
  <2>9. CASE Pop(t)
    BY <2>9 DEF Pop, Return, Idle, HeldByOne, TypeOK, Holding, At
  <2> QED BY <1>2, <2>1, <2>2, <2>3, <2>4, <2>5, <2>6, <2>7, <2>8, <2>9 DEF Continue
<1>3. ASSUME NEW k \in Keys, Expire(k) PROVE HeldByOne'
  BY <1>3 DEF Expire, HeldByOne, TypeOK, Holding, At
<1>4. CASE Clear
  BY <1>4 DEF Clear, HeldByOne, TypeOK, Holding, At
<1> QED BY <1>1, <1>2, <1>3, <1>4 DEF Next

\* A value that goes while somebody is in flight for its key is noted as dropped.
LEMMA NextStoredIsThere == ASSUME TypeOK, CallsWellFormed, StoredIsThere, Next PROVE StoredIsThere'
<1>1. ASSUME NEW t \in Threads, NEW k \in Keys, GetOrLoad(t, k) PROVE StoredIsThere'
  BY <1>1 DEF GetOrLoad, StoredIsThere, TypeOK, InFlight, Referring, Holding, Fresh, At, Key, Lost
<1>2. ASSUME NEW t \in Threads, Continue(t) PROVE StoredIsThere'
  <2>1. CASE Get(t)
    BY <2>1 DEF Get, Return, GoTo, Idle, UnchangedHistory, Look, StoredIsThere, TypeOK, InFlight,
                Referring, Holding, Fresh, At, Key, Lost
  <2>2. CASE TakeLock(t)
    BY <2>2 DEF TakeLock, StoredIsThere, TypeOK, InFlight, Referring, Holding, Fresh, At, Key, Lost
  <2>3. CASE Acquire(t)
    BY <2>3 DEF Acquire, GoTo, StoredIsThere, TypeOK, InFlight, Referring, Holding, Fresh, At, Key, Lost
  <2>4. CASE Check(t)
    BY <2>4 DEF Check, Return, GoTo, Idle, UnchangedHistory, Look, StoredIsThere, TypeOK, InFlight,
                Referring, Holding, Fresh, At, Key, Lost
  <2>5. CASE Load(t)
    BY <2>5 DEF Load, GoTo, StoredIsThere, TypeOK, InFlight, Referring, Holding, Fresh, At, Key, Lost
  <2>6. CASE LoadFails(t)
    BY <2>6 DEF LoadFails, Return, Idle, StoredIsThere, TypeOK, InFlight, Referring, Holding, Fresh, At,
                Key, Lost
  <2>7. CASE Set(t)
    BY <2>7 DEF Set, GoTo, StoredIsThere, TypeOK, InFlight, Referring, Holding, Fresh, At, Key, Lost
  <2>8. CASE Unlock(t)
    BY <2>8 DEF Unlock, GoTo, StoredIsThere, TypeOK, InFlight, Referring, Holding, Fresh, At, Key, Lost
  <2>9. CASE Pop(t)
    BY <2>9 DEF Pop, Return, Idle, StoredIsThere, TypeOK, InFlight, Referring, Holding, Fresh, At, Key, Lost
  <2> QED BY <1>2, <2>1, <2>2, <2>3, <2>4, <2>5, <2>6, <2>7, <2>8, <2>9 DEF Continue
<1>3. ASSUME NEW k \in Keys, Expire(k) PROVE StoredIsThere'
  BY <1>3 DEF Expire, StoredIsThere, TypeOK, InFlight, Referring, Holding, Fresh, At, Key, Lost
<1>4. CASE Clear
  BY <1>4 DEF Clear, StoredIsThere, TypeOK, InFlight, Referring, Holding, Fresh, At, Key, Lost
<1> QED BY <1>1, <1>2, <1>3, <1>4 DEF Next

\* A new lock for a key in flight means that the value is there, or was lost.
LEMMA NextInFlightShare == ASSUME TypeOK, CallsWellFormed, HeldByOne, StoredIsThere, InFlightShare, Next PROVE InFlightShare'
<1> USE ConstantsAssumption
<1>1. ASSUME NEW t \in Threads, NEW k \in Keys, GetOrLoad(t, k) PROVE InFlightShare'
  BY <1>1 DEF GetOrLoad, TypeOK, CallsWellFormed, HeldByOne, StoredIsThere, InFlightShare, InFlight,
              Referring, Holding, Fresh, At, Key
<1>2. ASSUME NEW t \in Threads, Continue(t) PROVE InFlightShare'
  <2>1. CASE Get(t)
    BY <2>1
    DEF Get, Return, GoTo, Idle, UnchangedHistory, Look, TypeOK, CallsWellFormed, HeldByOne, StoredIsThere,
        InFlightShare, InFlight, Referring, Holding, Fresh, At, Key
  <2>2. CASE TakeLock(t)
    BY <2>2
    DEF TakeLock, TypeOK, CallsWellFormed, HeldByOne, StoredIsThere, InFlightShare, InFlight, Referring,
        Holding, Fresh, At, Key
  <2>3. CASE Acquire(t)
    BY <2>3
    DEF Acquire, GoTo, TypeOK, CallsWellFormed, HeldByOne, StoredIsThere, InFlightShare, InFlight,
        Referring, Holding, Fresh, At, Key
  <2>4. CASE Check(t)
    BY <2>4
    DEF Check, Return, GoTo, Idle, UnchangedHistory, Look, TypeOK, CallsWellFormed, HeldByOne,
        StoredIsThere, InFlightShare, InFlight, Referring, Holding, Fresh, At, Key
  <2>5. CASE Load(t)
    BY <2>5
    DEF Load, GoTo, TypeOK, CallsWellFormed, HeldByOne, StoredIsThere, InFlightShare, InFlight, Referring,
        Holding, Fresh, At, Key
  <2>6. CASE LoadFails(t)
    BY <2>6
    DEF LoadFails, Return, Idle, TypeOK, CallsWellFormed, HeldByOne, StoredIsThere, InFlightShare,
        InFlight, Referring, Holding, Fresh, At, Key
  <2>7. CASE Set(t)
    BY <2>7
    DEF Set, GoTo, Lost, TypeOK, CallsWellFormed, HeldByOne, StoredIsThere, InFlightShare, InFlight,
        Referring, Holding, Fresh, At, Key
  <2>8. CASE Unlock(t)
    BY <2>8
    DEF Unlock, GoTo, TypeOK, CallsWellFormed, HeldByOne, StoredIsThere, InFlightShare, InFlight,
        Referring, Holding, Fresh, At, Key
  <2>9. CASE Pop(t)
    BY <2>9
    DEF Pop, Return, Idle, TypeOK, CallsWellFormed, HeldByOne, StoredIsThere, InFlightShare, InFlight,
        Referring, Holding, Fresh, At, Key
  <2> QED BY <1>2, <2>1, <2>2, <2>3, <2>4, <2>5, <2>6, <2>7, <2>8, <2>9 DEF Continue
<1>3. ASSUME NEW k \in Keys, Expire(k) PROVE InFlightShare'
  BY <1>3 DEF Expire, Lost, TypeOK, CallsWellFormed, HeldByOne, StoredIsThere, InFlightShare, InFlight,
              Referring, Holding, Fresh, At, Key
<1>4. CASE Clear
  BY <1>4 DEF Clear, Lost, TypeOK, CallsWellFormed, HeldByOne, StoredIsThere, InFlightShare, InFlight,
              Referring, Holding, Fresh, At, Key
<1> QED BY <1>1, <1>2, <1>3, <1>4 DEF Next

----------------------------------------------------------------------------
(***************************************************************************)
(* The inductive invariant.  SingleFlight follows from it: two callers     *)
(* that load one key, which was not lost, both hold the lock that          *)
(* _key_locks has for it, and a lock has one holder.                       *)
(***************************************************************************)
IInv ==
    /\ Typed
    /\ CallsWellFormed
    /\ HeldByOne
    /\ StoredIsThere
    /\ InFlightShare

\* An empty cache.
LEMMA InitIInv == Init => IInv
<1> SUFFICES ASSUME Init PROVE IInv
  OBVIOUS
<1> USE ConstantsAssumption
<1>1. \A t \in Threads : call[t] = Idle
  BY DEF Init
<1>2. IsFiniteSet(entries) /\ Cardinality(entries) = 0
  BY FS_EmptySet DEF Init
<1>3. Idle \in CallType
  BY DEF Idle, CallType, Stages
<1>4. Typed
  BY <1>2, <1>3 DEF Init, Typed, TypeOK, CallType
<1> QED
  BY <1>1, <1>4 DEF Init, IInv, CallsWellFormed, HeldByOne, StoredIsThere, InFlightShare,
     Idle, At, Key, Holding, Referring

LEMMA NextIInv == ASSUME IInv, Next PROVE IInv'
BY NextType, NextWellFormed, NextHeldByOne, NextStoredIsThere, NextInFlightShare DEF IInv, Typed

LEMMA StutterIInv == ASSUME IInv, UNCHANGED vars PROVE IInv'
BY DEF vars, IInv, Typed, TypeOK, CallsWellFormed, HeldByOne, StoredIsThere, InFlightShare,
   At, Key, Fresh, InFlight

\* A cache as it starts has the inductive invariant, and no step of it loses it.
THEOREM Invariance == Spec => []IInv
<1>1. IInv /\ [Next]_vars => IInv'
  BY NextIInv, StutterIInv
<1> QED BY InitIInv, <1>1, PTL DEF Spec

\* The variables keep their types, and the cache never has more than max_entries.
THEOREM TypeCorrect == Spec => []TypeOK
<1>1. IInv => TypeOK
  BY DEF IInv, Typed
<1> QED BY Invariance, <1>1, PTL

\* However many callers miss a key at once, one loads it.
THEOREM OneLoads == Spec => []SingleFlight
<1>1. ASSUME IInv PROVE SingleFlight
  <2> SUFFICES ASSUME NEW t \in Threads, NEW u \in Threads, NEW k \in Keys \ dropped,
                      Key(t) = k, call[t].at \in {"load", "set"}
               PROVE  /\ k \notin stored
                      /\ Key(u) = k /\ call[u].at \in {"load", "set"} => t = u
    BY DEF SingleFlight
  <2>1. k \notin stored /\ call[t].lock = keyLocks[k]
    BY <1>1 DEF IInv, InFlightShare
  <2>2. ASSUME Key(u) = k, call[u].at \in {"load", "set"} PROVE t = u
    <3>1. call[u].lock = keyLocks[k]
      BY <1>1, <2>2 DEF IInv, InFlightShare
    <3> QED BY <1>1, <2>1, <2>2, <3>1 DEF IInv, HeldByOne, Holding
  <2> QED BY <2>1, <2>2
<1> QED BY Invariance, <1>1, PTL

----------------------------------------------------------------------------
(***************************************************************************)
(* The cache implements Lookups.  Most steps are not seen by the callers;  *)
(* the one that is hard is Check, which must not begin to load what        *)
(* another loads: both would hold the lock that _key_locks has.            *)
(***************************************************************************)
Asked == [t \in Threads |-> Key(t)]
Loading == {t \in Threads : call[t].at \in {"load", "set"}}
Served == {t \in Threads : call[t].at \in {"unlock", "pop"}}
Cached == entries \ expired

\* A step of one caller moves that caller alone.
LEMMA Moves ==
    ASSUME TypeOK, NEW t \in Threads, NEW c \in CallType, call' = [call EXCEPT ![t] = c]
    PROVE  /\ Asked' = [Asked EXCEPT ![t] = c.key]
           /\ Loading' = IF c.at \in {"load", "set"} THEN Loading \cup {t} ELSE Loading \ {t}
           /\ Served' = IF c.at \in {"unlock", "pop"} THEN Served \cup {t} ELSE Served \ {t}
<1>1. call \in [Threads -> CallType]
  BY DEF TypeOK, CallType
<1>2. call'[t] = c /\ \A u \in Threads \ {t} : call'[u] = call[u]
  BY <1>1
<1>3. Asked' = [Asked EXCEPT ![t] = c.key]
  <2>1. Asked' = [u \in Threads |-> call'[u].key]
    BY DEF Asked, Key
  <2>2. [Asked EXCEPT ![t] = c.key] = [u \in Threads |-> IF u = t THEN c.key ELSE call[u].key]
    BY DEF Asked, Key
  <2>3. \A u \in Threads : call'[u].key = IF u = t THEN c.key ELSE call[u].key
    BY <1>2
  <2> QED BY <2>1, <2>2, <2>3
<1>4. Loading' = IF c.at \in {"load", "set"} THEN Loading \cup {t} ELSE Loading \ {t}
  BY <1>2 DEF Loading
<1>5. Served' = IF c.at \in {"unlock", "pop"} THEN Served \cup {t} ELSE Served \ {t}
  BY <1>2 DEF Served
<1> QED BY <1>3, <1>4, <1>5

\* Going on to a stage changes neither the key nor the lock.
LEMMA GoesOn ==
    ASSUME TypeOK, NEW t \in Threads, NEW s \in Stages, GoTo(t, s)
    PROVE  /\ Asked' = Asked
           /\ Loading' = IF s \in {"load", "set"} THEN Loading \cup {t} ELSE Loading \ {t}
           /\ Served' = IF s \in {"unlock", "pop"} THEN Served \cup {t} ELSE Served \ {t}
<1>1. call[t] \in CallType
  BY DEF TypeOK, CallType
<1> DEFINE c == [call[t] EXCEPT !.at = s]
<1>2. c \in CallType /\ c.at = s /\ c.key = call[t].key /\ call' = [call EXCEPT ![t] = c]
  BY <1>1 DEF GoTo, CallType
<1> HIDE DEF c
<1>3. Asked' = [Asked EXCEPT ![t] = call[t].key]
  BY <1>2, Moves
<1>4. Asked' = Asked
  BY <1>3 DEF Asked, Key
<1> QED BY <1>2, <1>4, Moves

\* A caller that neither loads nor has stored stays so on its way to the key's lock.
LEMMA MovesAside ==
    ASSUME TypeOK, NEW t \in Threads, NEW c \in CallType, call' = [call EXCEPT ![t] = c],
           t \notin Loading, t \notin Served, c.at \in {"get", "lock", "acquire", "check"}
    PROVE  /\ Asked' = [Asked EXCEPT ![t] = c.key]
           /\ Loading' = Loading /\ Served' = Served
<1>1. c.at \notin {"load", "set"} /\ c.at \notin {"unlock", "pop"}
  OBVIOUS
<1>2. Loading \ {t} = Loading /\ Served \ {t} = Served
  OBVIOUS
<1> QED BY <1>1, <1>2, Moves

LEMMA WaitsOn ==
    ASSUME TypeOK, NEW t \in Threads, NEW s \in {"get", "lock", "acquire", "check"}, GoTo(t, s),
           t \notin Loading, t \notin Served
    PROVE  Asked' = Asked /\ Loading' = Loading /\ Served' = Served
<1>1. s \in Stages /\ s \notin {"load", "set"} /\ s \notin {"unlock", "pop"}
  BY DEF Stages
<1>2. Loading \ {t} = Loading /\ Served \ {t} = Served
  OBVIOUS
<1> QED BY <1>1, <1>2, GoesOn

\* Who returns has been answered.
LEMMA Returns ==
    ASSUME TypeOK, NEW t \in Threads, Return(t), Cached' = Cached,
           Key(t) \in Cached \/ t \in Served \/ t \in Loading
    PROVE  L!Next
<1>1. Idle \in CallType
  BY DEF Idle, CallType, Stages
<1>2. /\ Asked' = [Asked EXCEPT ![t] = NoKey]
      /\ Loading' = Loading \ {t}
      /\ Served' = Served \ {t}
  BY <1>1, Moves DEF Return, Idle
<1>3. dropped' \subseteq dropped
  BY DEF Return
<1>4. L!Answer(t)
  BY <1>2, <1>3 DEF L!Answer, L!Leave, L!Excuse, Asked, Loading, Served, Cached
<1> QED BY <1>4 DEF L!Next

LEMMA Stutters ==
    ASSUME Asked' = Asked, Loading' = Loading, Served' = Served, Cached' = Cached, dropped' = dropped
    PROVE  UNCHANGED L!vars
BY DEF L!vars, Asked, Loading, Served, Cached

\* A look takes away only what has expired, which is no value any more.
LEMMA Looks ==
    ASSUME TypeOK, NEW t \in Threads, Look(t)
    PROVE  Cached' = Cached
BY DEF Look, Cached, TypeOK

\* Each step of the cache is a step of Lookups, or none.
LEMMA NextImplements == ASSUME IInv, Next PROVE L!Next \/ UNCHANGED L!vars
<1> USE ConstantsAssumption
<1>0. TypeOK /\ call \in [Threads -> CallType]
  BY DEF IInv, Typed, TypeOK, CallType
<1>1. ASSUME NEW t \in Threads, NEW k \in Keys, GetOrLoad(t, k) PROVE L!Next
  <2> DEFINE c == [at |-> "get", key |-> k, lock |-> NoLock]
  <2>1. c \in CallType /\ c.at = "get" /\ c.key = k /\ call' = [call EXCEPT ![t] = c]
    BY <1>1 DEF GetOrLoad, CallType, Stages
  <2> HIDE DEF c
  <2>2. t \notin Loading /\ t \notin Served /\ Asked[t] = NoKey
    BY <1>1 DEF GetOrLoad, At, Loading, Served, Asked, IInv, CallsWellFormed, Key
  <2>3. Asked' = [Asked EXCEPT ![t] = k] /\ Loading' = Loading /\ Served' = Served
    BY <1>0, <2>1, <2>2, MovesAside
  <2>4. L!Ask(t, k)
    BY <1>1, <2>2, <2>3 DEF GetOrLoad, L!Ask, L!Excuse, Asked, Loading, Served
  <2> QED BY <2>4 DEF L!Next
<1>2. ASSUME NEW t \in Threads, Continue(t) PROVE L!Next \/ UNCHANGED L!vars
  <2>1. CASE Get(t)
    <3>1. Cached' = Cached
      BY <1>0, <2>1, Looks DEF Get
    <3>2. CASE Fresh(Key(t))
      BY <1>0, <2>1, <3>1, <3>2, Returns DEF Get, Fresh, Cached
    <3>3. CASE ~Fresh(Key(t))
      <4>1. t \notin Loading /\ t \notin Served
        BY <2>1 DEF Get, At, Loading, Served
      <4>2. Asked' = Asked /\ Loading' = Loading /\ Served' = Served
        BY <1>0, <2>1, <3>3, <4>1, WaitsOn DEF Get
      <4> QED BY <2>1, <3>1, <3>3, <4>2, Stutters DEF Get, UnchangedHistory
    <3> QED BY <3>2, <3>3
  <2>2. CASE TakeLock(t)
    <3>1. PICK l \in Locks : call' = [call EXCEPT ![t].at = "acquire", ![t].lock = l]
      BY <2>2 DEF TakeLock
    <3> DEFINE c == [call[t] EXCEPT !.at = "acquire", !.lock = l]
    <3>2. c \in CallType /\ c.at = "acquire" /\ c.key = call[t].key /\ call' = [call EXCEPT ![t] = c]
      BY <1>0, <3>1 DEF CallType, Stages
    <3> HIDE DEF c
    <3>3. t \notin Loading /\ t \notin Served
      BY <2>2 DEF TakeLock, At, Loading, Served
    <3>4. Asked' = [Asked EXCEPT ![t] = call[t].key] /\ Loading' = Loading /\ Served' = Served
      BY <1>0, <3>2, <3>3, MovesAside
    <3>5. Asked' = Asked
      BY <3>4 DEF Asked, Key
    <3>6. Cached' = Cached
      BY <2>2 DEF TakeLock, Cached
    <3> QED BY <2>2, <3>4, <3>5, <3>6, Stutters DEF TakeLock
  <2>3. CASE Acquire(t)
    <3>1. t \notin Loading /\ t \notin Served
      BY <2>3 DEF Acquire, At, Loading, Served
    <3>2. Asked' = Asked /\ Loading' = Loading /\ Served' = Served
      BY <1>0, <2>3, <3>1, WaitsOn DEF Acquire
    <3> QED BY <2>3, <3>2, Stutters DEF Acquire, Cached
  <2>4. CASE Check(t)
    <3>1. Cached' = Cached
      BY <1>0, <2>4, Looks DEF Check
    <3>2. CASE Fresh(Key(t))
      BY <1>0, <2>4, <3>1, <3>2, Returns DEF Check, Fresh, Cached
    <3>3. CASE ~Fresh(Key(t))
      <4>1. Key(t) \in Keys
        BY <2>4 DEF Check, At, IInv, CallsWellFormed
      <4>2. ASSUME Key(t) \notin dropped, NEW u \in Loading PROVE Key(u) # Key(t)
        <5>1. SUFFICES ASSUME Key(u) = Key(t) PROVE FALSE
          OBVIOUS
        <5>2. call[u].lock = keyLocks[Key(t)]
          BY <4>1, <4>2, <5>1 DEF Loading, IInv, InFlightShare
        <5>3. call[t].lock = keyLocks[Key(t)]
          BY <2>4, <3>3, <4>1, <4>2 DEF Check, At, IInv, InFlightShare
        <5>4. t = u
          BY <2>4, <5>2, <5>3 DEF Check, At, Loading, Holding, IInv, HeldByOne
        <5> QED BY <2>4, <5>4 DEF Check, At, Loading
      <4>3. t \notin Served
        BY <2>4 DEF Check, At, Served
      <4>4. Asked' = Asked /\ Loading' = Loading \cup {t} /\ Served' = Served
        BY <1>0, <2>4, <3>3, <4>3, GoesOn DEF Check, Stages
      <4>5. L!StartLoad(t)
        BY <2>4, <3>1, <3>3, <4>1, <4>2, <4>4
        DEF Check, UnchangedHistory, Fresh, L!StartLoad, L!Excuse, Asked, Loading, Served, Cached
      <4> QED BY <4>5 DEF L!Next
    <3> QED BY <3>2, <3>3
  <2>5. CASE Load(t)
    <3>1. t \in Loading /\ t \notin Served
      BY <2>5 DEF Load, At, Loading, Served
    <3>2. Asked' = Asked /\ Loading' = Loading /\ Served' = Served
      BY <1>0, <2>5, <3>1, GoesOn DEF Load, Stages
    <3> QED BY <2>5, <3>2, Stutters DEF Load, Cached
  <2>6. CASE LoadFails(t)
    <3>1. t \in Loading /\ Cached' = Cached
      BY <2>6 DEF LoadFails, At, Loading, Cached
    <3> QED BY <1>0, <2>6, <3>1, Returns DEF LoadFails
  <2>7. CASE Set(t)
    <3> DEFINE all == entries \cup {Key(t)}
    <3>1. PICK E \in SUBSET (all \ {Key(t)}) :
            /\ entries' = all \ E
            /\ expired' = expired \ ({Key(t)} \cup E)
            /\ Lost(E)
      BY <2>7 DEF Set
    <3>2. t \in Loading /\ t \notin Served
      BY <2>7 DEF Set, At, Loading, Served
    <3>3. Asked' = Asked /\ Loading' = Loading \ {t} /\ Served' = Served \cup {t}
      BY <1>0, <2>7, GoesOn DEF Set, Stages
    <3>4. E \in SUBSET (Keys \ {Key(t)})
      BY <1>0 DEF TypeOK
    <3>5. Cached' = (Cached \cup {Key(t)}) \ E /\ dropped' \subseteq dropped \cup E
      BY <3>1 DEF Cached, Lost
    <3>6. L!Store(t)
      BY <3>2, <3>3, <3>4, <3>5 DEF L!Store, L!Excuse, Asked, Loading, Served, Cached
    <3> QED BY <3>6 DEF L!Next
  <2>8. CASE Unlock(t)
    <3>1. t \in Served /\ t \notin Loading
      BY <2>8 DEF Unlock, At, Loading, Served
    <3>2. Asked' = Asked /\ Loading' = Loading /\ Served' = Served
      BY <1>0, <2>8, <3>1, GoesOn DEF Unlock, Stages
    <3> QED BY <2>8, <3>2, Stutters DEF Unlock, Cached
  <2>9. CASE Pop(t)
    <3>1. t \in Served /\ Cached' = Cached
      BY <2>9 DEF Pop, At, Served, Cached
    <3> QED BY <1>0, <2>9, <3>1, Returns DEF Pop
  <2> QED BY <1>2, <2>1, <2>2, <2>3, <2>4, <2>5, <2>6, <2>7, <2>8, <2>9 DEF Continue
<1>3. ASSUME NEW k \in Keys, Expire(k) PROVE L!Next
  <2>1. L!Forget({k})
    BY <1>3 DEF Expire, Lost, L!Forget, L!Excuse, Key
  <2> QED BY <2>1 DEF L!Next
<1>4. CASE Clear
  <2>1. L!Forget(Keys)
    BY <1>0, <1>4 DEF Clear, Lost, L!Forget, L!Excuse, TypeOK, Key
  <2> QED BY <2>1 DEF L!Next
<1> QED BY <1>1, <1>2, <1>3, <1>4 DEF Next

\* Callers that ask the cache see what Lookups says: of those that ask for a key
\* that is not there, one loads it.
THEOREM Implements == Spec => ImplementsLookups
<1>1. Init => L!Init
  <2> SUFFICES ASSUME Init PROVE L!Init
    OBVIOUS
  <2>1. \A t \in Threads : call[t] = Idle
    BY DEF Init
  <2> QED BY <2>1 DEF Init, Idle, Key, L!Init
<1>2. IInv /\ [Next]_vars => [L!Next]_L!vars
  <2>1. ASSUME IInv, Next PROVE [L!Next]_L!vars
    BY <2>1, NextImplements
  <2>2. ASSUME UNCHANGED vars PROVE UNCHANGED L!vars
    BY <2>2 DEF vars, L!vars, Key
  <2> QED BY <2>1, <2>2
<1> QED BY <1>1, <1>2, Invariance, PTL DEF Spec, ImplementsLookups, L!Spec
=============================================================================
