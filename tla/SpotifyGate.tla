---------------------------- MODULE SpotifyGate ----------------------------
(***************************************************************************)
(* Every request to Spotify goes through one gate: a breaker, which        *)
(* declines to call for as long as Spotify said after a rate limit (429),  *)
(* and a spacer, which reserves slots an interval apart and refuses a call *)
(* that would wait too long for its own.  The breaker's cooldown is kept   *)
(* in the database as well, because Spotify lengthens the penalty of those *)
(* who call during one, and the server restarts often.                     *)
(* Code: SpotifyClient._call, _RateLimitBreaker and _CallSpacer in         *)
(* services/spotify.py; models/spotify_state.py.                           *)
(*                                                                         *)
(* The critical sections of the two locks and the statements between them  *)
(* are steps.  Time is discrete, and passes only when no thread can run:   *)
(* a step takes no time, a sleep and a request to Spotify do.              *)
(***************************************************************************)
EXTENDS Integers, FiniteSets

CONSTANTS
    Threads,      \* the threads that call
    Interval,     \* spotify_min_call_interval
    MaxWait,      \* _MAX_THROTTLE_WAIT
    TripAfter,    \* _TRIP_AFTER_CONSECUTIVE_429S
    TripAbove,    \* _TRIP_IMMEDIATELY_ABOVE
    RetryAfters,  \* the pauses a 429 asks for, once clamped or defaulted
    MaxTime,      \* bound: when the clock stops
    MaxRestarts   \* bound: how many times the server restarts

ASSUME ConstantsAssumption ==
    /\ {Interval, MaxWait, TripAfter, TripAbove, MaxTime, MaxRestarts} \subseteq Nat
    /\ RetryAfters \subseteq Nat \ {0}

VARIABLES
    now,          \* the clock
    openUntil,    \* _open_until, 0 for None
    loaded,       \* _loaded
    streak,       \* _consecutive_429s, which counts no further than TripAfter
    nextAllowed,  \* _next_allowed
    cooldown,     \* paused_until in the spotify_cooldown row, 0 without a row
    call,         \* the call each thread is in
    restarts,     \* how many times the server has restarted
    inherited,    \* history: the cooldown in the database when this process began
    forgotten,    \* history: this process could not read the stored cooldown
    openedAt      \* history: when the breaker, closed before, was opened last

breaker == <<openUntil, loaded, streak>>
vars == <<now, openUntil, loaded, streak, nextAllowed, cooldown, call, restarts, inherited, forgotten,
          openedAt>>

----------------------------------------------------------------------------
Stages == {"idle", "load", "loading", "check", "space", "sleep", "sent",
           "succeeded", "limited", "persist", "insert", "update"}

\* until: when the thread wakes up, or what it makes of a Retry-After
\* clear: when the breaker has let it through
Idle == [at |-> "idle", until |-> 0, clear |-> 0]
At(t, stage) == call[t].at = stage
GoTo(t, stage) == call' = [call EXCEPT ![t].at = stage]
Wait(t, stage, time) == call' = [call EXCEPT ![t].at = stage, ![t].until = time]
Done(t) == call' = [call EXCEPT ![t] = Idle]

Larger(a, b) == IF a > b THEN a ELSE b
Open == now < openUntil
BreakerLocked == \E t \in Threads : At(t, "loading")
UnchangedGate == UNCHANGED <<now, nextAllowed, cooldown, restarts, inherited, forgotten>>
UnchangedBreaker == UNCHANGED <<openUntil, loaded, streak, openedAt>>

Init ==
    /\ now = 1
    /\ openUntil = 0 /\ loaded = FALSE /\ streak = 0
    /\ nextAllowed = 0
    /\ cooldown \in {0} \cup RetryAfters
    /\ call = [t \in Threads |-> Idle]
    /\ restarts = 0
    /\ inherited = cooldown /\ forgotten = FALSE
    /\ openedAt = 0

----------------------------------------------------------------------------
(* _call: is_open, with _load_once *)

Call(t) ==
    /\ At(t, "idle")
    /\ GoTo(t, IF loaded THEN "check" ELSE "load")
    /\ UnchangedGate /\ UnchangedBreaker

\* Mutant: the flag is raised first, and the row is read afterwards.
LoadAfterFlag(t) ==
    /\ At(t, "load") /\ ~BreakerLocked
    /\ GoTo(t, IF loaded THEN "check" ELSE "loading")
    /\ loaded' = TRUE
    /\ UNCHANGED <<openUntil, streak, openedAt>>
    /\ UnchangedGate

\* The breaker's lock is taken, and the flag looked at again: another thread may
\* have loaded the cooldown while this one waited for the lock.
Load(t) ==
    /\ At(t, "load") /\ ~BreakerLocked
    /\ GoTo(t, IF loaded THEN "check" ELSE "loading")
    /\ UnchangedGate /\ UnchangedBreaker

\* The row is read, under the lock, and the flag that spares the others the lock
\* is set last.  It is set as well if the row could not be read: "worst case we
\* forget a penalty".
FinishLoad(t) ==
    /\ At(t, "loading")
    /\ \/ openUntil' = cooldown /\ UNCHANGED forgotten
       \/ forgotten' = TRUE /\ UNCHANGED openUntil
    /\ loaded' = TRUE
    /\ GoTo(t, "check")
    /\ UNCHANGED <<now, streak, nextAllowed, cooldown, restarts, inherited, openedAt>>

Check(t) ==
    /\ At(t, "check")
    /\ IF Open THEN Done(t)
       ELSE call' = [call EXCEPT ![t].at = "space", ![t].clear = now]
    /\ UnchangedGate /\ UnchangedBreaker

----------------------------------------------------------------------------
(* _CallSpacer.wait *)

TooLongNever == FALSE   \* mutant: nobody is turned away
TooLong == nextAllowed > now + MaxWait

SlotAfterNow == now + Interval   \* mutant: the reservations before are forgotten
SlotAfter == Larger(now, nextAllowed) + Interval

\* The slot is reserved before the lock is released; then the thread sleeps.
Space(t) ==
    /\ At(t, "space")
    /\ IF TooLong
       THEN Done(t) /\ UNCHANGED nextAllowed
       ELSE Wait(t, "sleep", Larger(now, nextAllowed)) /\ nextAllowed' = SlotAfter
    /\ UNCHANGED <<now, cooldown, restarts, inherited, forgotten>> /\ UnchangedBreaker

Send(t) ==
    /\ At(t, "sleep") /\ call[t].until <= now
    /\ GoTo(t, "sent")
    /\ UnchangedGate /\ UnchangedBreaker

----------------------------------------------------------------------------
(* Spotify answers, at any time: with a result, an error that is not a 429,  *)
(* or a 429, whose Retry-After counts from the answer.                       *)
Answer(t) ==
    /\ At(t, "sent")
    /\ \/ GoTo(t, "succeeded") \/ Done(t)
       \/ \E s \in RetryAfters : Wait(t, "limited", now + s)
    /\ UnchangedGate /\ UnchangedBreaker

\* record_success: the streak is looked at without the lock.
RecordSuccess(t) ==
    /\ At(t, "succeeded")
    /\ streak # 0 => ~BreakerLocked
    /\ streak' = 0
    /\ Done(t)
    /\ UNCHANGED <<openUntil, loaded, openedAt>>
    /\ UnchangedGate

Longer(until) == until > openUntil

\* record_rate_limit: a long pause opens the breaker at once, short ones when
\* they repeat, and a pause that ends sooner than the current one changes nothing.
RecordRateLimit(t) ==
    LET until == call[t].until
        strikes == IF streak < TripAfter THEN streak + 1 ELSE streak
        tripped == (until >= now + TripAbove \/ strikes >= TripAfter) /\ Longer(until)
    IN  /\ At(t, "limited") /\ ~BreakerLocked
        /\ streak' = strikes
        /\ IF tripped
           THEN openUntil' = until /\ GoTo(t, "persist")
           ELSE Done(t) /\ UNCHANGED openUntil
        /\ openedAt' = IF tripped /\ ~Open THEN now ELSE openedAt
        /\ UNCHANGED loaded
        /\ UnchangedGate

----------------------------------------------------------------------------
(* _persist, after the lock is released: the row is looked up, then written. *)
(* What fails there, like the second of two first rows, is logged and        *)
(* forgotten.                                                                *)
Persist(t) ==
    /\ At(t, "persist")
    /\ GoTo(t, IF cooldown = 0 THEN "insert" ELSE "update") \/ Done(t)
    /\ UnchangedGate /\ UnchangedBreaker

Write(t) ==
    /\ call[t].at \in {"insert", "update"}
    /\ \/ cooldown' = IF At(t, "insert") /\ cooldown # 0 THEN cooldown ELSE call[t].until
       \/ UNCHANGED cooldown
    /\ Done(t)
    /\ UNCHANGED <<now, nextAllowed, restarts, inherited, forgotten>> /\ UnchangedBreaker

----------------------------------------------------------------------------
(* Time, and restarts *)

\* What can run now does so before time passes; a request can stay unanswered.
Tick ==
    /\ now < MaxTime
    /\ \A t \in Threads : \/ call[t].at \in {"idle", "sent"}
                          \/ At(t, "sleep") /\ call[t].until > now
    /\ now' = now + 1
    /\ UNCHANGED <<nextAllowed, cooldown, call, restarts, inherited, forgotten>> /\ UnchangedBreaker

\* A deploy or a crash: a new process, and only the row is left.
Restart ==
    /\ restarts < MaxRestarts
    /\ restarts' = restarts + 1
    /\ openUntil' = 0 /\ loaded' = FALSE /\ streak' = 0 /\ nextAllowed' = 0
    /\ call' = [t \in Threads |-> Idle]
    /\ inherited' = cooldown /\ forgotten' = FALSE
    /\ openedAt' = 0
    /\ UNCHANGED <<now, cooldown>>

----------------------------------------------------------------------------
Step(t) ==
    \/ Call(t)  \/ Load(t)   \/ FinishLoad(t)    \/ Check(t)
    \/ Space(t) \/ Send(t)   \/ Answer(t)        \/ RecordSuccess(t)
    \/ RecordRateLimit(t)    \/ Persist(t)       \/ Write(t)

Next == (\E t \in Threads : Step(t)) \/ Tick \/ Restart

Spec == Init /\ [][Next]_vars

----------------------------------------------------------------------------
TypeOK ==
    /\ now \in Nat
    /\ openUntil \in Nat /\ loaded \in BOOLEAN /\ streak \in 0..TripAfter
    /\ nextAllowed \in Nat
    /\ cooldown \in Nat
    /\ call \in [Threads -> [at : Stages, until : Nat, clear : Nat]]
    /\ restarts \in Nat /\ inherited \in Nat /\ forgotten \in BOOLEAN /\ openedAt \in Nat

\* "Keeps a minimum gap between Spotify calls, process-wide": threads that
\* sleep before their call wake up at least an interval apart.
SlotsAreSpaced ==
    \A t, u \in Threads :
        At(t, "sleep") /\ At(u, "sleep") /\ t # u =>
            \/ call[t].until >= call[u].until + Interval
            \/ call[u].until >= call[t].until + Interval

\* Once the breaker is open, the calls it let through before run out: one that
\* waits for its slot is sent at most MaxWait later, however many wait.
LateCallsEnd ==
    \A t \in Threads : At(t, "sleep") /\ Open => call[t].until <= openedAt + MaxWait

\* A new process that could read the stored cooldown lets no call through before
\* it knows of it, whichever thread is the one that loads it, and nobody passes
\* while it loads: "a restart must not resume calling mid-penalty"
\* (tests/test_cache.py).  A process whose look-up of the row failed does let
\* calls through; what it honours is what Spotify tells it from then on.
RestartHonoursCooldown ==
    \A t \in Threads : call[t].at \in {"space", "sleep"} => call[t].clear >= inherited \/ forgotten

\* A cooldown is never cut short by an answer that asks for a shorter one.
CooldownNeverShortens == [][openUntil' >= openUntil \/ restarts' # restarts]_vars

\* "Persisting it is what makes the backoff survive": what is stored, once
\* nobody is about to store anything, is the cooldown in force.  It does not
\* hold: rows are written after the lock is released, in any order, and one of
\* two first rows is lost.
StoredInForce ==
    (\A t \in Threads : call[t].at \notin {"limited", "persist", "insert", "update"}) /\ Open
        => cooldown >= openUntil
=============================================================================
