----------------------------- MODULE TTLCache -----------------------------
(***************************************************************************)
(* The in-process cache of the Spotify lookups, with single flight: the    *)
(* threads that miss the same key queue on a lock of that key, the first   *)
(* loads, and the others find what it stored.                              *)
(* Code: services/cache.py; every public lookup of services/spotify.py     *)
(* goes through get_or_load.                                               *)
(*                                                                         *)
(* get, set, setdefault and pop run under one lock, held for nothing else: *)
(* each is a step.  A key lock is held from acquire to unlock.  Values are *)
(* left out (no loader returns None, which get could not tell from a miss) *)
(* and so are the clock (an entry is fresh until it expires, at any time)  *)
(* and the order of insertion (any other entry may be the oldest one).     *)
(***************************************************************************)
EXTENDS Naturals, FiniteSets

CONSTANTS
    Threads,     \* the callers
    Keys,        \* the keys
    NoKey,       \* the key of a caller that is in no call
    Locks,       \* the identities of the key locks (numbers: the least free one is taken)
    NoLock,      \* no lock
    MaxEntries,  \* max_entries
    Calls        \* bound: how many calls each thread makes

ASSUME ConstantsAssumption ==
    /\ NoKey \notin Keys
    /\ Locks \subseteq Nat
    /\ NoLock \notin Locks
    /\ MaxEntries \in Nat \ {0}
    /\ Calls \in Nat

VARIABLES
    entries,   \* the keys stored
    expired,   \* those whose time has run out
    keyLocks,  \* _key_locks: the lock of each key in flight
    call,      \* the call each thread is in
    left,      \* how many calls each thread may still make
    stored,    \* history: the keys stored since somebody has been in flight for them
    dropped    \* history: those lost since (expired, evicted, cleared)

vars == <<entries, expired, keyLocks, call, left, stored, dropped>>

----------------------------------------------------------------------------
Stages == {"idle", "get", "lock", "acquire", "check", "load", "set", "unlock", "pop"}
Holding == {"check", "load", "set", "unlock"}
Referring == Holding \cup {"acquire", "pop"}

Idle == [at |-> "idle", key |-> NoKey, lock |-> NoLock]
At(t, stage) == call[t].at = stage
Key(t) == call[t].key
GoTo(t, stage) == call' = [call EXCEPT ![t].at = stage]

Fresh(k) == k \in entries /\ k \notin expired

\* key_lock.locked(): a thread that has it in its hands, and neither waits for it nor
\* has released it.  A call that ends puts its lock down.
Locked(l) == \E t \in Threads : call[t].lock = l /\ call[t].at \notin {"acquire", "pop"}
\* A lock object lives as long as something refers to it.
Referred(l) ==
    \/ \E k \in Keys : keyLocks[k] = l
    \/ \E t \in Threads : call[t].lock = l

\* The callers that have the lock of k in their hands.
InFlight(k) == {t \in Threads : Key(t) = k /\ call[t].at \in Referring}

Lost(K) == dropped' = dropped \cup {k \in K : InFlight(k) # {}}
UnchangedHistory == UNCHANGED <<stored, dropped>>

\* Thread t returns, or raises; the history of its key ends with the last one.
Return(t) ==
    LET over == {k \in Keys : InFlight(k) \subseteq {t}} IN
    /\ call' = [call EXCEPT ![t] = Idle]
    /\ stored' = stored \ over
    /\ dropped' = dropped \ over

Init ==
    /\ entries = {}
    /\ expired = {}
    /\ keyLocks = [k \in Keys |-> NoLock]
    /\ call = [t \in Threads |-> Idle]
    /\ left = [t \in Threads |-> Calls]
    /\ stored = {}
    /\ dropped = {}

----------------------------------------------------------------------------
(* get_or_load *)

GetOrLoad(t, k) ==
    /\ At(t, "idle") /\ left[t] > 0
    /\ call' = [call EXCEPT ![t] = [at |-> "get", key |-> k, lock |-> NoLock]]
    /\ left' = [left EXCEPT ![t] = @ - 1]
    /\ UNCHANGED <<entries, expired, keyLocks, stored, dropped>>

\* get: an entry whose time has run out is deleted by the one who looks.
Look(t) ==
    IF Key(t) \in expired
    THEN entries' = entries \ {Key(t)} /\ expired' = expired \ {Key(t)}
    ELSE UNCHANGED <<entries, expired>>

Get(t) ==
    /\ At(t, "get")
    /\ Look(t)
    /\ IF Fresh(Key(t)) THEN Return(t) ELSE GoTo(t, "lock") /\ UnchangedHistory
    /\ UNCHANGED <<keyLocks, left>>

New(l) == ~Referred(l) /\ \A x \in Locks : x < l => Referred(x)

\* setdefault: the lock of the key, or a new one.
TakeLock(t) ==
    /\ At(t, "lock")
    /\ \E l \in Locks :
         /\ IF keyLocks[Key(t)] = NoLock THEN New(l) ELSE l = keyLocks[Key(t)]
         /\ keyLocks' = [keyLocks EXCEPT ![Key(t)] = l]
         /\ call' = [call EXCEPT ![t].at = "acquire", ![t].lock = l]
    /\ UNCHANGED <<entries, expired, left, stored, dropped>>

Acquire(t) ==
    /\ At(t, "acquire") /\ ~Locked(call[t].lock)
    /\ GoTo(t, "check")
    /\ UNCHANGED <<entries, expired, keyLocks, left, stored, dropped>>

\* Mutant: the winner's value is not looked for.
CheckNothing(t) ==
    /\ At(t, "check")
    /\ GoTo(t, "load")
    /\ UNCHANGED <<entries, expired, keyLocks, left, stored, dropped>>

\* The second look, with the key lock.  Finding the value returns at once, and
\* leaves the lock in _key_locks.
Check(t) ==
    /\ At(t, "check")
    /\ Look(t)
    /\ IF Fresh(Key(t)) THEN Return(t) ELSE GoTo(t, "load") /\ UnchangedHistory
    /\ UNCHANGED <<keyLocks, left>>

Load(t) ==
    /\ At(t, "load")
    /\ GoTo(t, "set")
    /\ UNCHANGED <<entries, expired, keyLocks, left, stored, dropped>>

\* Mutant: acquire and release without a "with", so that who raises keeps the key lock.
LoadFailsHolding(t) ==
    /\ At(t, "load")
    /\ call' = [call EXCEPT ![t] = [Idle EXCEPT !.lock = call[t].lock]]
    /\ UNCHANGED <<entries, expired, keyLocks, left, stored, dropped>>

\* The loader raises: the key lock is released, and left in _key_locks.
LoadFails(t) ==
    /\ At(t, "load")
    /\ Return(t)
    /\ UNCHANGED <<entries, expired, keyLocks, left>>

\* Evicting E leaves max_entries of the keys K, or all when they are no more.
MakesRoom(K, E) ==
    IF Cardinality(K) > MaxEntries THEN Cardinality(K \ E) = MaxEntries ELSE E = {}

\* set: the key becomes the youngest, and the oldest make room.
Set(t) ==
    LET all == entries \cup {Key(t)} IN
    /\ At(t, "set")
    /\ \E E \in SUBSET (all \ {Key(t)}) :
         /\ MakesRoom(all, E)
         /\ entries' = all \ E
         /\ expired' = expired \ ({Key(t)} \cup E)
         /\ Lost(E)
    /\ stored' = stored \cup {Key(t)}
    /\ GoTo(t, "unlock")
    /\ UNCHANGED <<keyLocks, left>>

Unlock(t) ==
    /\ At(t, "unlock")
    /\ GoTo(t, "pop")
    /\ UNCHANGED <<entries, expired, keyLocks, left, stored, dropped>>

\* The lock is dropped from _key_locks unless somebody else has acquired it by
\* now (one who has it and has not acquired it yet does not count).
Pop(t) ==
    /\ At(t, "pop")
    /\ keyLocks' = IF ~Locked(call[t].lock) THEN [keyLocks EXCEPT ![Key(t)] = NoLock] ELSE keyLocks
    /\ Return(t)
    /\ UNCHANGED <<entries, expired, left>>

----------------------------------------------------------------------------
(* Time, and clear *)

Expire(k) ==
    /\ Fresh(k)
    /\ expired' = expired \cup {k}
    /\ Lost({k})
    /\ UNCHANGED <<entries, keyLocks, call, left, stored>>

Clear ==
    /\ entries' = {}
    /\ expired' = {}
    /\ keyLocks' = [k \in Keys |-> NoLock]
    /\ Lost(Keys)
    /\ UNCHANGED <<call, left, stored>>

----------------------------------------------------------------------------
Continue(t) ==
    \/ Get(t) \/ TakeLock(t) \/ Acquire(t) \/ Check(t) \/ Load(t) \/ LoadFails(t)
    \/ Set(t) \/ Unlock(t) \/ Pop(t)

Next ==
    \/ \E t \in Threads : (\E k \in Keys : GetOrLoad(t, k)) \/ Continue(t)
    \/ \E k \in Keys : Expire(k)
    \/ Clear

Spec == Init /\ [][Next]_vars

\* A caller goes on; a loader returns or raises (services/spotify.py sets a
\* socket timeout on every request, and never waits for Retry-After).
FairSpec == Spec /\ \A t \in Threads : WF_vars(Continue(t))

----------------------------------------------------------------------------
TypeOK ==
    /\ entries \subseteq Keys /\ Cardinality(entries) <= MaxEntries
    /\ expired \subseteq entries
    /\ keyLocks \in [Keys -> Locks \cup {NoLock}]
    /\ call \in [Threads -> [at : Stages, key : Keys \cup {NoKey}, lock : Locks \cup {NoLock}]]
    /\ left \in [Threads -> Nat]
    /\ stored \subseteq Keys
    /\ dropped \subseteq Keys

\* "Concurrent callers for the same key run loader once; the rest block on the
\* key's lock and then read the value the winner stored": two callers load one
\* key at once, or one after another has stored it, only when what was stored
\* was lost while they waited.
SingleFlight ==
    \A t, u \in Threads : \A k \in Keys \ dropped :
        Key(t) = k /\ call[t].at \in {"load", "set"} =>
            /\ k \notin stored
            /\ Key(u) = k /\ call[u].at \in {"load", "set"} => t = u

\* Whether the loader returns or raises, nobody waits for its lock for ever.
CallsReturn == \A t \in Threads : ~At(t, "idle") ~> At(t, "idle")

\* "An unbounded dict of them is not harmless": a key nobody asks for any more
\* has no lock in _key_locks.  It does not hold: only Pop drops one, and the
\* callers that find the winner's value, or whose loader raises, do not pop.
NoLockLeft == \A k \in Keys : keyLocks[k] # NoLock => \E t \in Threads : Key(t) = k

\* The cache, with its locks, does no more than Lookups says: callers at "load"
\* and "set" load, those past it have stored, and a key is cached while its
\* entry is fresh.
L == INSTANCE Lookups WITH
        Callers <- Threads,
        asked <- [t \in Threads |-> Key(t)],
        loading <- {t \in Threads : call[t].at \in {"load", "set"}},
        served <- {t \in Threads : call[t].at \in {"unlock", "pop"}},
        cached <- entries \ expired,
        excused <- dropped

\* "Concurrent callers for the same key run loader once": get_or_load, with its
\* two looks, the lock of the key and what becomes of it, implements the lookups
\* its callers believe in.
ImplementsLookups == L!Spec

\* What makes SingleFlight inductive.  Unless the value was lost: the callers
\* in flight for a key share the lock in _key_locks, or the value is there; who
\* loads has found no value and has that lock; who pops has stored the value.
InFlightShare ==
    \A t \in Threads : \A k \in Keys \ dropped :
        Key(t) = k =>
            /\ call[t].at \in {"acquire", "check", "load", "set"} => call[t].lock = keyLocks[k] \/ Fresh(k)
            /\ call[t].at \in {"load", "set"} => call[t].lock = keyLocks[k] /\ ~Fresh(k) /\ k \notin stored
            /\ call[t].at \in {"unlock", "pop"} => Fresh(k)

\* A key lock has one holder.
HeldByOne ==
    \A t, u \in Threads :
        call[t].at \in Holding /\ call[u].at \in Holding /\ call[t].lock = call[u].lock => t = u

\* Who has a lock in hand has one, and a key; who is in no call has no key.
CallsWellFormed ==
    \A t \in Threads :
        /\ call[t].at \in Referring => call[t].lock \in Locks
        /\ ~At(t, "idle") => Key(t) \in Keys
        /\ At(t, "idle") => Key(t) = NoKey

\* The history of a key lasts as long as somebody is in flight for it, and what
\* was stored is there unless it was lost.
StoredIsThere ==
    /\ \A k \in stored : InFlight(k) # {}
    /\ \A k \in stored \ dropped : Fresh(k)
=============================================================================
