---------------------------- MODULE ServerProofs ----------------------------
(***************************************************************************)
(* What holds of the parts of the server that its threads or requests      *)
(* share, however many there are, however they overlap and wherever each   *)
(* of them ends: the gate in front of Spotify, the picture of a profile,   *)
(* an album of the catalogue, and the likes of a comment.                  *)
(***************************************************************************)
EXTENDS SpotifyGate, Avatars, AlbumImport, CommentLikes, FiniteSetTheorems, TLAPS

----------------------------------------------------------------------------
(* The gate in front of Spotify, for any threads, pauses and thresholds. *)

(***************************************************************************)
(* The inductive invariant.  Until the row is read, nobody is further than *)
(* the breaker's lock, the row is the one the process found, and the       *)
(* breaker is closed; from then on it knows of at least that cooldown, or  *)
(* the row could not be read.  One thread at a time reads it.              *)
(***************************************************************************)
NotLoadedYet ==
    ~loaded => /\ \A t \in Threads : call[t].at \in {"idle", "load", "loading"}
               /\ cooldown = inherited
               /\ openUntil = 0

KnowsInherited ==
    /\ loaded => openUntil >= inherited \/ forgotten
    /\ BreakerLocked => ~loaded
    /\ \A t, u \in Threads : At(t, "loading") /\ At(u, "loading") => t = u

\* The slots reserved so far end before the next one, and are at most MaxWait
\* away; a thread about to reserve one while the breaker is open was let
\* through at this very instant, before it opened.
SlotsAreBehind ==
    \A t \in Threads :
        /\ At(t, "sleep") => call[t].until + Interval <= nextAllowed /\ call[t].until <= now + MaxWait
        /\ At(t, "space") /\ Open => openedAt = now

GateIInv ==
    /\ TypeOK
    /\ NotLoadedYet
    /\ KnowsInherited
    /\ SlotsAreBehind
    /\ SlotsAreSpaced
    /\ LateCallsEnd
    /\ RestartHonoursCooldown

\* A process that starts, with any cooldown stored.
LEMMA GateBegins == Init => GateIInv
<1> SUFFICES ASSUME Init PROVE GateIInv
  OBVIOUS
<1> USE ConstantsAssumption
<1>1. \A t \in Threads : call[t] = Idle
  BY DEF Init
<1>2. TypeOK
  <2>1. cooldown \in Nat /\ 0 \in 0..TripAfter
    BY DEF Init
  <2>2. Idle \in [at : Stages, until : Nat, clear : Nat]
    BY DEF Idle, Stages
  <2>3. call \in [Threads -> [at : Stages, until : Nat, clear : Nat]]
    BY <2>2 DEF Init
  <2> QED BY <2>1, <2>3 DEF Init, TypeOK
<1>3. \A t \in Threads : call[t].at = "idle"
  BY <1>1 DEF Idle
<1>4. ~loaded /\ ~BreakerLocked /\ openUntil = 0 /\ cooldown = inherited
  BY <1>3 DEF Init, BreakerLocked, At
<1>5. NotLoadedYet /\ KnowsInherited
  BY <1>3, <1>4 DEF NotLoadedYet, KnowsInherited, At
<1>6. SlotsAreBehind /\ SlotsAreSpaced /\ LateCallsEnd /\ RestartHonoursCooldown
  BY <1>3 DEF SlotsAreBehind, SlotsAreSpaced, LateCallsEnd, RestartHonoursCooldown, At
<1> QED
  BY <1>2, <1>5, <1>6 DEF GateIInv

\* Every step keeps the types.
LEMMA NextType == ASSUME TypeOK, Next PROVE TypeOK'
<1> USE ConstantsAssumption
<1>0. Idle \in [at : Stages, until : Nat, clear : Nat]
  BY DEF Idle, Stages
<1> DEFINE Calls == [Threads -> [at : Stages, until : Nat, clear : Nat]]
<1>1. ASSUME NEW t \in Threads, Step(t) PROVE TypeOK'
  <2>1. ASSUME NEW s \in Stages, GoTo(t, s) PROVE call' \in Calls
    BY <2>1 DEF GoTo, TypeOK
  <2>2. ASSUME Done(t) PROVE call' \in Calls
    BY <2>2, <1>0 DEF Done, TypeOK
  <2>3. ASSUME NEW s \in Stages, NEW n \in Nat, Wait(t, s, n) PROVE call' \in Calls
    BY <2>3 DEF Wait, TypeOK
  <2> HIDE DEF Calls
  <2>4. CASE Call(t)
    BY <2>4, <2>1 DEF Call, UnchangedGate, UnchangedBreaker, TypeOK, Calls, Stages
  <2>5. CASE Load(t)
    BY <2>5, <2>1 DEF Load, UnchangedGate, UnchangedBreaker, TypeOK, Calls, Stages
  <2>6. CASE FinishLoad(t)
    BY <2>6, <2>1 DEF FinishLoad, TypeOK, Calls, Stages
  <2>7. CASE Check(t)
    <3>1. CASE Open
      BY <2>7, <3>1, <2>2 DEF Check, UnchangedGate, UnchangedBreaker, TypeOK, Calls
    <3>2. CASE ~Open
      BY <2>7, <3>2 DEF Check, UnchangedGate, UnchangedBreaker, TypeOK, Calls, Stages
    <3> QED BY <3>1, <3>2
  <2>8. CASE Space(t)
    <3>1. CASE TooLong
      BY <2>8, <3>1, <2>2 DEF Space, UnchangedBreaker, TypeOK, Calls
    <3>2. CASE ~TooLong
      <4>1. Larger(now, nextAllowed) \in Nat /\ SlotAfter \in Nat
        BY DEF Larger, SlotAfter, TypeOK
      <4>2. Wait(t, "sleep", Larger(now, nextAllowed)) /\ nextAllowed' = SlotAfter
        BY <2>8, <3>2 DEF Space
      <4>3. call' \in Calls
        BY <4>1, <4>2, <2>3 DEF Stages
      <4> QED BY <2>8, <4>1, <4>2, <4>3 DEF Space, UnchangedBreaker, TypeOK, Calls
    <3> QED BY <3>1, <3>2
  <2>9. CASE Send(t)
    BY <2>9, <2>1 DEF Send, UnchangedGate, UnchangedBreaker, TypeOK, Calls, Stages
  <2>10. CASE Answer(t)
    <3>1. ASSUME NEW s \in RetryAfters, Wait(t, "limited", now + s) PROVE call' \in Calls
      <4>1. now + s \in Nat /\ "limited" \in Stages
        BY DEF Stages, TypeOK
      <4> QED BY <3>1, <4>1, <2>3
    <3>2. call' \in Calls
      BY <2>10, <3>1, <2>1, <2>2 DEF Answer, Stages
    <3> QED BY <2>10, <3>2 DEF Answer, UnchangedGate, UnchangedBreaker, TypeOK, Calls
  <2>11. CASE RecordSuccess(t)
    BY <2>11, <2>2 DEF RecordSuccess, UnchangedGate, TypeOK, Calls
  <2>12. CASE RecordRateLimit(t)
    <3>1. call[t].until \in Nat
      BY DEF TypeOK
    <3>2. call' \in Calls
      BY <2>12, <2>1, <2>2 DEF RecordRateLimit, Stages
    <3>3. streak' \in 0..TripAfter /\ openUntil' \in Nat /\ openedAt' \in Nat
      BY <2>12, <3>1 DEF RecordRateLimit, TypeOK
    <3> QED BY <2>12, <3>2, <3>3 DEF RecordRateLimit, UnchangedGate, TypeOK, Calls
  <2>13. CASE Persist(t)
    <3>1. call' \in Calls
      BY <2>13, <2>1, <2>2 DEF Persist, Stages
    <3> QED BY <2>13, <3>1 DEF Persist, UnchangedGate, UnchangedBreaker, TypeOK, Calls
  <2>14. CASE Write(t)
    <3>1. call[t].until \in Nat
      BY DEF TypeOK
    <3>2. cooldown' \in Nat
      BY <2>14, <3>1 DEF Write, TypeOK
    <3> QED BY <2>14, <3>2, <2>2 DEF Write, UnchangedBreaker, TypeOK, Calls
  <2> QED
    BY <1>1, <2>4, <2>5, <2>6, <2>7, <2>8, <2>9, <2>10, <2>11, <2>12, <2>13, <2>14 DEF Step
<1>2. CASE Tick
  BY <1>2 DEF Tick, UnchangedBreaker, TypeOK
<1>3. CASE Restart
  <2>1. 0 \in 0..TripAfter
    OBVIOUS
  <2>2. call' \in Calls
    BY <1>3, <1>0 DEF Restart
  <2> HIDE DEF Calls
  <2>3. restarts' \in Nat
    BY <1>3 DEF Restart, TypeOK
  <2> QED BY <1>3, <2>1, <2>2, <2>3 DEF Restart, TypeOK, Calls
<1> QED BY <1>1, <1>2, <1>3 DEF Next

\* The critical sections, the sends, time and restarts, one by one.
LEMMA NextIInv == ASSUME GateIInv, Next PROVE GateIInv'
<1> USE ConstantsAssumption
<1>0. TypeOK /\ TypeOK'
  BY NextType DEF GateIInv
<1>1. ASSUME NEW t \in Threads, Step(t) PROVE GateIInv'
  <2>1. CASE Call(t)
    <3>1. NotLoadedYet'
      BY <2>1, <1>0
      DEF Call, UnchangedGate, UnchangedBreaker, GoTo, At, BreakerLocked, TypeOK, GateIInv, NotLoadedYet,
          KnowsInherited
    <3>2. KnowsInherited'
      BY <2>1, <1>0
      DEF Call, UnchangedGate, UnchangedBreaker, GoTo, At, BreakerLocked, TypeOK, GateIInv, NotLoadedYet,
          KnowsInherited
    <3>3. SlotsAreBehind'
      BY <2>1, <1>0
      DEF Call, UnchangedGate, UnchangedBreaker, GoTo, At, Open, TypeOK, GateIInv, NotLoadedYet, SlotsAreBehind
    <3>4. SlotsAreSpaced'
      BY <2>1, <1>0
      DEF Call, UnchangedGate, UnchangedBreaker, GoTo, At, TypeOK, GateIInv, SlotsAreBehind, SlotsAreSpaced
    <3>5. LateCallsEnd'
      BY <2>1, <1>0
      DEF Call, UnchangedGate, UnchangedBreaker, GoTo, At, Open, TypeOK, GateIInv, NotLoadedYet,
          SlotsAreBehind, LateCallsEnd
    <3>6. RestartHonoursCooldown'
      BY <2>1, <1>0
      DEF Call, UnchangedGate, UnchangedBreaker, GoTo, At, TypeOK, GateIInv, NotLoadedYet, KnowsInherited,
          RestartHonoursCooldown
    <3> QED BY <1>0, <3>1, <3>2, <3>3, <3>4, <3>5, <3>6 DEF GateIInv
  <2>2. CASE Load(t)
    <3>1. NotLoadedYet'
      BY <2>2, <1>0
      DEF Load, UnchangedGate, UnchangedBreaker, GoTo, At, BreakerLocked, TypeOK, GateIInv, NotLoadedYet, KnowsInherited
    <3>2. KnowsInherited'
      BY <2>2, <1>0
      DEF Load, UnchangedGate, UnchangedBreaker, GoTo, At, BreakerLocked, TypeOK, GateIInv, NotLoadedYet, KnowsInherited
    <3>3. SlotsAreBehind'
      BY <2>2, <1>0
      DEF Load, UnchangedGate, UnchangedBreaker, GoTo, At, Open, TypeOK, GateIInv, NotLoadedYet, SlotsAreBehind
    <3>4. SlotsAreSpaced'
      BY <2>2, <1>0
      DEF Load, UnchangedGate, UnchangedBreaker, GoTo, At, TypeOK, GateIInv, SlotsAreBehind, SlotsAreSpaced
    <3>5. LateCallsEnd'
      BY <2>2, <1>0
      DEF Load, UnchangedGate, UnchangedBreaker, GoTo, At, Open, TypeOK, GateIInv, NotLoadedYet, SlotsAreBehind, LateCallsEnd
    <3>6. RestartHonoursCooldown'
      BY <2>2, <1>0
      DEF Load, UnchangedGate, UnchangedBreaker, GoTo, At, TypeOK, GateIInv, NotLoadedYet, KnowsInherited, RestartHonoursCooldown
    <3> QED BY <1>0, <3>1, <3>2, <3>3, <3>4, <3>5, <3>6 DEF GateIInv
  <2>3. CASE FinishLoad(t)
    <3>0. ~loaded
      BY <2>3 DEF FinishLoad, GateIInv, KnowsInherited, BreakerLocked
    <3>1. \A u \in Threads : call'[u].at \in {"idle", "load", "loading", "check"}
      BY <2>3, <3>0, <1>0 DEF FinishLoad, GoTo, TypeOK, GateIInv, NotLoadedYet
    <3>2. NotLoadedYet'
      BY <2>3 DEF FinishLoad, NotLoadedYet
    <3>3. KnowsInherited'
      <4>1. openUntil' >= inherited' \/ forgotten'
        BY <2>3, <3>0, <1>0 DEF FinishLoad, TypeOK, GateIInv, NotLoadedYet
      <4>2. ~BreakerLocked'
        BY <2>3, <1>0 DEF FinishLoad, GoTo, At, BreakerLocked, TypeOK, GateIInv, KnowsInherited
      <4> QED BY <4>1, <4>2 DEF KnowsInherited, BreakerLocked
    <3>4. SlotsAreBehind' /\ SlotsAreSpaced' /\ LateCallsEnd' /\ RestartHonoursCooldown'
      BY <3>1 DEF At, SlotsAreBehind, SlotsAreSpaced, LateCallsEnd, RestartHonoursCooldown
    <3> QED BY <1>0, <3>2, <3>3, <3>4 DEF GateIInv
  <2>4. CASE Check(t)
    <3>1. NotLoadedYet'
      BY <2>4, <1>0
      DEF Check, UnchangedGate, UnchangedBreaker, GoTo, Done, Idle, At, BreakerLocked, TypeOK, GateIInv,
          NotLoadedYet, KnowsInherited
    <3>2. KnowsInherited'
      BY <2>4, <1>0
      DEF Check, UnchangedGate, UnchangedBreaker, GoTo, Done, Idle, At, BreakerLocked, Open, TypeOK, GateIInv,
          NotLoadedYet, KnowsInherited
    <3>3. SlotsAreBehind'
      BY <2>4, <1>0
      DEF Check, UnchangedGate, UnchangedBreaker, GoTo, Done, Idle, At, Open, TypeOK, GateIInv, NotLoadedYet,
          SlotsAreBehind
    <3>4. SlotsAreSpaced'
      BY <2>4, <1>0
      DEF Check, UnchangedGate, UnchangedBreaker, GoTo, Done, Idle, At, TypeOK, GateIInv, SlotsAreBehind,
          SlotsAreSpaced
    <3>5. LateCallsEnd'
      BY <2>4, <1>0
      DEF Check, UnchangedGate, UnchangedBreaker, GoTo, Done, Idle, At, Open, TypeOK, GateIInv, NotLoadedYet,
          SlotsAreBehind, LateCallsEnd
    <3>6. RestartHonoursCooldown'
      BY <2>4, <1>0
      DEF Check, UnchangedGate, UnchangedBreaker, GoTo, Done, Idle, At, Open, TypeOK, GateIInv, NotLoadedYet,
          KnowsInherited, RestartHonoursCooldown
    <3> QED BY <1>0, <3>1, <3>2, <3>3, <3>4, <3>5, <3>6 DEF GateIInv
  <2>5. CASE Space(t)
    <3>1. NotLoadedYet'
      BY <2>5, <1>0
      DEF Space, UnchangedBreaker, Wait, Done, Idle, At, BreakerLocked, TypeOK, GateIInv, NotLoadedYet,
          KnowsInherited
    <3>2. KnowsInherited'
      BY <2>5, <1>0
      DEF Space, UnchangedBreaker, Wait, Done, Idle, At, BreakerLocked, TypeOK, GateIInv, NotLoadedYet,
          KnowsInherited
    <3>3. SlotsAreBehind'
      BY <2>5, <1>0
      DEF Space, UnchangedBreaker, Wait, Done, Idle, At, Open, TooLong, Larger, SlotAfter, TypeOK, GateIInv,
          NotLoadedYet, SlotsAreBehind
    <3>4. SlotsAreSpaced'
      BY <2>5, <1>0
      DEF Space, UnchangedBreaker, Wait, Done, Idle, At, Larger, SlotAfter, TypeOK, GateIInv, SlotsAreBehind,
          SlotsAreSpaced
    <3>5. LateCallsEnd'
      BY <2>5, <1>0
      DEF Space, UnchangedBreaker, Wait, Done, Idle, At, Open, TooLong, Larger, TypeOK, GateIInv, NotLoadedYet,
          SlotsAreBehind, LateCallsEnd
    <3>6. RestartHonoursCooldown'
      BY <2>5, <1>0
      DEF Space, UnchangedBreaker, Wait, Done, Idle, At, TypeOK, GateIInv, NotLoadedYet, KnowsInherited,
          RestartHonoursCooldown
    <3> QED BY <1>0, <3>1, <3>2, <3>3, <3>4, <3>5, <3>6 DEF GateIInv
  <2>6. CASE Send(t)
    <3>1. NotLoadedYet'
      BY <2>6, <1>0
      DEF Send, UnchangedGate, UnchangedBreaker, GoTo, At, BreakerLocked, TypeOK, GateIInv, NotLoadedYet,
          KnowsInherited
    <3>2. KnowsInherited'
      BY <2>6, <1>0
      DEF Send, UnchangedGate, UnchangedBreaker, GoTo, At, BreakerLocked, TypeOK, GateIInv, NotLoadedYet,
          KnowsInherited
    <3>3. SlotsAreBehind'
      BY <2>6, <1>0
      DEF Send, UnchangedGate, UnchangedBreaker, GoTo, At, Open, TypeOK, GateIInv, NotLoadedYet, SlotsAreBehind
    <3>4. SlotsAreSpaced'
      BY <2>6, <1>0
      DEF Send, UnchangedGate, UnchangedBreaker, GoTo, At, TypeOK, GateIInv, SlotsAreBehind, SlotsAreSpaced
    <3>5. LateCallsEnd'
      BY <2>6, <1>0
      DEF Send, UnchangedGate, UnchangedBreaker, GoTo, At, Open, TypeOK, GateIInv, NotLoadedYet,
          SlotsAreBehind, LateCallsEnd
    <3>6. RestartHonoursCooldown'
      BY <2>6, <1>0
      DEF Send, UnchangedGate, UnchangedBreaker, GoTo, At, TypeOK, GateIInv, NotLoadedYet, KnowsInherited,
          RestartHonoursCooldown
    <3> QED BY <1>0, <3>1, <3>2, <3>3, <3>4, <3>5, <3>6 DEF GateIInv
  <2>7. CASE Answer(t)
    <3>1. NotLoadedYet'
      BY <2>7, <1>0
      DEF Answer, UnchangedGate, UnchangedBreaker, GoTo, Wait, Done, Idle, At, BreakerLocked, TypeOK, GateIInv,
          NotLoadedYet, KnowsInherited
    <3>2. KnowsInherited'
      BY <2>7, <1>0
      DEF Answer, UnchangedGate, UnchangedBreaker, GoTo, Wait, Done, Idle, At, BreakerLocked, TypeOK, GateIInv,
          NotLoadedYet, KnowsInherited
    <3>3. SlotsAreBehind'
      BY <2>7, <1>0
      DEF Answer, UnchangedGate, UnchangedBreaker, GoTo, Wait, Done, Idle, At, Open, TypeOK, GateIInv,
          NotLoadedYet, SlotsAreBehind
    <3>4. SlotsAreSpaced'
      BY <2>7, <1>0
      DEF Answer, UnchangedGate, UnchangedBreaker, GoTo, Wait, Done, Idle, At, TypeOK, GateIInv,
          SlotsAreBehind, SlotsAreSpaced
    <3>5. LateCallsEnd'
      BY <2>7, <1>0
      DEF Answer, UnchangedGate, UnchangedBreaker, GoTo, Wait, Done, Idle, At, Open, TypeOK, GateIInv,
          NotLoadedYet, SlotsAreBehind, LateCallsEnd
    <3>6. RestartHonoursCooldown'
      BY <2>7, <1>0
      DEF Answer, UnchangedGate, UnchangedBreaker, GoTo, Wait, Done, Idle, At, TypeOK, GateIInv, NotLoadedYet,
          KnowsInherited, RestartHonoursCooldown
    <3> QED BY <1>0, <3>1, <3>2, <3>3, <3>4, <3>5, <3>6 DEF GateIInv
  <2>8. CASE RecordSuccess(t)
    <3>1. NotLoadedYet'
      BY <2>8, <1>0
      DEF RecordSuccess, UnchangedGate, Done, Idle, At, BreakerLocked, TypeOK, GateIInv, NotLoadedYet,
          KnowsInherited
    <3>2. KnowsInherited'
      BY <2>8, <1>0
      DEF RecordSuccess, UnchangedGate, Done, Idle, At, BreakerLocked, TypeOK, GateIInv, NotLoadedYet,
          KnowsInherited
    <3>3. SlotsAreBehind'
      BY <2>8, <1>0
      DEF RecordSuccess, UnchangedGate, Done, Idle, At, Open, TypeOK, GateIInv, NotLoadedYet, SlotsAreBehind
    <3>4. SlotsAreSpaced'
      BY <2>8, <1>0
      DEF RecordSuccess, UnchangedGate, Done, Idle, At, TypeOK, GateIInv, SlotsAreBehind, SlotsAreSpaced
    <3>5. LateCallsEnd'
      BY <2>8, <1>0
      DEF RecordSuccess, UnchangedGate, Done, Idle, At, Open, TypeOK, GateIInv, NotLoadedYet, SlotsAreBehind,
          LateCallsEnd
    <3>6. RestartHonoursCooldown'
      BY <2>8, <1>0
      DEF RecordSuccess, UnchangedGate, Done, Idle, At, TypeOK, GateIInv, NotLoadedYet, KnowsInherited,
          RestartHonoursCooldown
    <3> QED BY <1>0, <3>1, <3>2, <3>3, <3>4, <3>5, <3>6 DEF GateIInv
  <2>9. CASE RecordRateLimit(t)
    <3>1. NotLoadedYet'
      BY <2>9, <1>0
      DEF RecordRateLimit, UnchangedGate, GoTo, Done, Idle, At, BreakerLocked, TypeOK, GateIInv, NotLoadedYet,
          KnowsInherited
    <3>2. KnowsInherited'
      BY <2>9, <1>0
      DEF RecordRateLimit, UnchangedGate, GoTo, Done, Idle, At, BreakerLocked, Longer, TypeOK, GateIInv,
          NotLoadedYet, KnowsInherited
    <3>3. SlotsAreBehind'
      BY <2>9, <1>0
      DEF RecordRateLimit, UnchangedGate, GoTo, Done, Idle, At, Open, TypeOK, GateIInv, NotLoadedYet,
          SlotsAreBehind
    <3>4. SlotsAreSpaced'
      BY <2>9, <1>0
      DEF RecordRateLimit, UnchangedGate, GoTo, Done, Idle, At, TypeOK, GateIInv, SlotsAreBehind, SlotsAreSpaced
    <3>5. LateCallsEnd'
      BY <2>9, <1>0
      DEF RecordRateLimit, UnchangedGate, GoTo, Done, Idle, At, Open, TypeOK, GateIInv, NotLoadedYet,
          SlotsAreBehind, LateCallsEnd
    <3>6. RestartHonoursCooldown'
      BY <2>9, <1>0
      DEF RecordRateLimit, UnchangedGate, GoTo, Done, Idle, At, TypeOK, GateIInv, NotLoadedYet, KnowsInherited,
          RestartHonoursCooldown
    <3> QED BY <1>0, <3>1, <3>2, <3>3, <3>4, <3>5, <3>6 DEF GateIInv
  <2>10. CASE Persist(t)
    <3>1. NotLoadedYet'
      BY <2>10, <1>0
      DEF Persist, UnchangedGate, UnchangedBreaker, GoTo, Done, Idle, At, BreakerLocked, TypeOK, GateIInv, NotLoadedYet,
          KnowsInherited
    <3>2. KnowsInherited'
      BY <2>10, <1>0
      DEF Persist, UnchangedGate, UnchangedBreaker, GoTo, Done, Idle, At, BreakerLocked, TypeOK, GateIInv, NotLoadedYet,
          KnowsInherited
    <3>3. SlotsAreBehind'
      BY <2>10, <1>0
      DEF Persist, UnchangedGate, UnchangedBreaker, GoTo, Done, Idle, At, Open, TypeOK, GateIInv, NotLoadedYet, SlotsAreBehind
    <3>4. SlotsAreSpaced'
      BY <2>10, <1>0
      DEF Persist, UnchangedGate, UnchangedBreaker, GoTo, Done, Idle, At, TypeOK, GateIInv, SlotsAreBehind, SlotsAreSpaced
    <3>5. LateCallsEnd'
      BY <2>10, <1>0
      DEF Persist, UnchangedGate, UnchangedBreaker, GoTo, Done, Idle, At, Open, TypeOK, GateIInv, NotLoadedYet,
          SlotsAreBehind, LateCallsEnd
    <3>6. RestartHonoursCooldown'
      BY <2>10, <1>0
      DEF Persist, UnchangedGate, UnchangedBreaker, GoTo, Done, Idle, At, TypeOK, GateIInv, NotLoadedYet, KnowsInherited,
          RestartHonoursCooldown
    <3> QED BY <1>0, <3>1, <3>2, <3>3, <3>4, <3>5, <3>6 DEF GateIInv
  <2>11. CASE Write(t)
    <3>1. NotLoadedYet'
      BY <2>11, <1>0
      DEF Write, UnchangedBreaker, Done, Idle, At, BreakerLocked, TypeOK, GateIInv, NotLoadedYet, KnowsInherited
    <3>2. KnowsInherited'
      BY <2>11, <1>0
      DEF Write, UnchangedBreaker, Done, Idle, At, BreakerLocked, TypeOK, GateIInv, NotLoadedYet, KnowsInherited
    <3>3. SlotsAreBehind'
      BY <2>11, <1>0
      DEF Write, UnchangedBreaker, Done, Idle, At, Open, TypeOK, GateIInv, NotLoadedYet, SlotsAreBehind
    <3>4. SlotsAreSpaced'
      BY <2>11, <1>0
      DEF Write, UnchangedBreaker, Done, Idle, At, TypeOK, GateIInv, SlotsAreBehind, SlotsAreSpaced
    <3>5. LateCallsEnd'
      BY <2>11, <1>0
      DEF Write, UnchangedBreaker, Done, Idle, At, Open, TypeOK, GateIInv, NotLoadedYet, SlotsAreBehind,
          LateCallsEnd
    <3>6. RestartHonoursCooldown'
      BY <2>11, <1>0
      DEF Write, UnchangedBreaker, Done, Idle, At, TypeOK, GateIInv, NotLoadedYet, KnowsInherited,
          RestartHonoursCooldown
    <3> QED BY <1>0, <3>1, <3>2, <3>3, <3>4, <3>5, <3>6 DEF GateIInv
  <2> QED
    BY <1>1, <2>1, <2>2, <2>3, <2>4, <2>5, <2>6, <2>7, <2>8, <2>9, <2>10, <2>11 DEF Step
<1>2. CASE Tick
  <2>1. NotLoadedYet' /\ KnowsInherited' /\ RestartHonoursCooldown' /\ SlotsAreSpaced'
    BY <1>2 DEF Tick, UnchangedBreaker, GateIInv, NotLoadedYet, KnowsInherited, RestartHonoursCooldown,
                SlotsAreSpaced, BreakerLocked, At
  <2>2. SlotsAreBehind' /\ LateCallsEnd'
    BY <1>2, <1>0 DEF Tick, UnchangedBreaker, GateIInv, SlotsAreBehind, LateCallsEnd, Open, At, TypeOK
  <2> QED BY <1>0, <2>1, <2>2 DEF GateIInv
<1>3. CASE Restart
  <2>1. \A u \in Threads : call'[u].at = "idle"
    BY <1>3 DEF Restart, Idle
  <2>2. ~loaded' /\ ~BreakerLocked' /\ openUntil' = 0 /\ cooldown' = inherited'
    BY <1>3, <2>1 DEF Restart, BreakerLocked, At
  <2>3. NotLoadedYet' /\ KnowsInherited'
    BY <2>1, <2>2 DEF NotLoadedYet, KnowsInherited, At
  <2>4. SlotsAreBehind' /\ SlotsAreSpaced' /\ LateCallsEnd' /\ RestartHonoursCooldown'
    BY <2>1 DEF SlotsAreBehind, SlotsAreSpaced, LateCallsEnd, RestartHonoursCooldown, At
  <2> QED BY <1>0, <2>3, <2>4 DEF GateIInv
<1> QED BY <1>1, <1>2, <1>3 DEF Next

LEMMA StutterIInv == ASSUME GateIInv, UNCHANGED vars PROVE GateIInv'
BY DEF GateIInv, vars, TypeOK, NotLoadedYet, KnowsInherited, SlotsAreBehind, SlotsAreSpaced,
   LateCallsEnd, RestartHonoursCooldown, BreakerLocked, Open, At

\* The gate as it starts has the inductive invariant, and no step of it loses it.
THEOREM Invariance == Spec => []GateIInv
<1>1. GateIInv /\ [Next]_vars => GateIInv'
  BY NextIInv, StutterIInv
<1> QED BY GateBegins, <1>1, PTL DEF Spec

\* The variables of the breaker and of the spacer keep their types.
THEOREM GateTypeCorrect == Spec => []TypeOK
<1>1. GateIInv => TypeOK
  BY DEF GateIInv
<1> QED BY Invariance, <1>1, PTL

\* However many threads call, the calls that sleep are an interval apart.
THEOREM Spaced == Spec => []SlotsAreSpaced
<1>1. GateIInv => SlotsAreSpaced
  BY DEF GateIInv
<1> QED BY Invariance, <1>1, PTL

\* While the breaker is open, what it let through before is sent within MaxWait.
THEOREM LateCallsRunOut == Spec => []LateCallsEnd
<1>1. GateIInv => LateCallsEnd
  BY DEF GateIInv
<1> QED BY Invariance, <1>1, PTL

\* No call passes the breaker of a new process before the stored cooldown is over,
\* unless the process could not read it.
THEOREM RestartKeepsCooldown == Spec => []RestartHonoursCooldown
<1>1. GateIInv => RestartHonoursCooldown
  BY DEF GateIInv
<1> QED BY Invariance, <1>1, PTL

\* Within a process the end of the cooldown never moves back.
THEOREM CooldownGrows == Spec => CooldownNeverShortens
<1>1. ASSUME GateIInv, Next PROVE openUntil' >= openUntil \/ restarts' # restarts
  <2>1. openUntil \in Nat /\ cooldown \in Nat /\ restarts \in Nat
    BY <1>1 DEF GateIInv, TypeOK
  <2>2. ASSUME NEW t \in Threads, FinishLoad(t) PROVE openUntil' >= openUntil
    <3>1. ~loaded
      BY <1>1, <2>2 DEF FinishLoad, GateIInv, KnowsInherited, BreakerLocked
    <3> QED BY <1>1, <2>1, <2>2, <3>1 DEF FinishLoad, GateIInv, NotLoadedYet
  <2>3. ASSUME NEW t \in Threads, RecordRateLimit(t) PROVE openUntil' >= openUntil
    <3>1. call[t].until \in Nat
      BY <1>1 DEF GateIInv, TypeOK
    <3> QED BY <2>1, <2>3, <3>1 DEF RecordRateLimit, Longer
  <2>4. ASSUME NEW t \in Threads, Step(t), ~FinishLoad(t), ~RecordRateLimit(t) PROVE openUntil' = openUntil
    BY <2>4 DEF Step, Call, Load, Check, Space, Send, Answer, RecordSuccess, Persist, Write,
                UnchangedBreaker
  <2>5. Tick => openUntil' = openUntil
    BY DEF Tick, UnchangedBreaker
  <2>6. Restart => restarts' # restarts
    BY <2>1 DEF Restart
  <2> QED BY <1>1, <2>1, <2>2, <2>3, <2>4, <2>5, <2>6 DEF Next
<1>2. GateIInv /\ [Next]_vars => [openUntil' >= openUntil \/ restarts' # restarts]_vars
  BY <1>1
<1> QED BY Invariance, <1>2, PTL DEF Spec, CooldownNeverShortens

----------------------------------------------------------------------------
(* The picture of a profile.  A call removes the key it has read, and does *)
(* so after its commit: what has to be shown is that nobody puts that key  *)
(* into the row again.  A row is only ever given a new key, and a key that *)
(* was in the row, or was read from it, is no longer new.                  *)

\* A call that has saved its image finds it when it commits the key.
SavedIsThere == \A c \in AvatarCalls : calls[c].at = "saved" => c \in objects /\ calls[c].does = "upload"

\* A key in the row, or read from it, is one whose call has committed.
KeysAreSpent ==
    \A c \in AvatarCalls :
       picture = c \/ (\E d \in AvatarCalls : calls[d].old = c)
          => calls[c].at \notin {"unsent", "sent", "read", "saved"}

\* What a call is about to remove is not in the row.
OldIsReplaced ==
    \A c \in AvatarCalls :
       calls[c].at \in {"committed", "refreshed"} /\ calls[c].old # NoKey => calls[c].old # picture

AvatarIInv == AvatarTypeOK /\ AvatarIsThere /\ SavedIsThere /\ KeysAreSpent /\ OldIsReplaced

\* The first state: a picture from before, or none, and no calls.
LEMMA AvatarBegins == AvatarInit => AvatarIInv
  BY AvatarAssumption DEF AvatarInit, AvatarIInv, AvatarTypeOK, AvatarIsThere, SavedIsThere, KeysAreSpent,
       OldIsReplaced, Keys, CallRecord, Unsent

\* A call that is sent, has read the row, or knows its answer, is still one.
LEMMA CallsStayCalls ==
  ASSUME NEW r \in CallRecord, NEW does \in {"upload", "remove"}, NEW k \in Keys \cup {NoKey}
  PROVE  /\ [r EXCEPT !.at = "sent", !.does = does] \in CallRecord
         /\ [r EXCEPT !.at = "read", !.old = k] \in CallRecord
         /\ [r EXCEPT !.at = "refreshed", !.answer = k] \in CallRecord
  BY DEF CallRecord

\* Every action keeps it.  What the lightbox and a failure do changes neither
\* the row nor the store; a commit puts a key into the row that nobody has read.
LEMMA AvatarSteps == AvatarIInv /\ [AvatarNext]_avatarVars => AvatarIInv'
<1> SUFFICES ASSUME AvatarIInv, [AvatarNext]_avatarVars PROVE AvatarIInv'
  OBVIOUS
<1> USE AvatarAssumption DEF AvatarIInv, AvatarTypeOK, AvatarIsThere, SavedIsThere, KeysAreSpent, OldIsReplaced, Keys
<1>1. CASE ReopenLightbox
  BY <1>1 DEF ReopenLightbox
<1>2. ASSUME NEW c \in AvatarCalls, NEW does \in {"upload", "remove"}, ChangePhoto(c, does) PROVE AvatarIInv'
  <2>1. AvatarTypeOK'
    <3> DEFINE new == [calls[c] EXCEPT !.at = "sent", !.does = does]
    <3>1. new \in CallRecord
      BY CallsStayCalls
    <3>2. calls' = [calls EXCEPT ![c] = new]
      BY <1>2 DEF ChangePhoto
    <3>3. QED
      BY <1>2, <3>1, <3>2 DEF ChangePhoto
  <2>2. AvatarIsThere'
    BY <1>2 DEF ChangePhoto
  <2>3. SavedIsThere'
    BY <1>2 DEF ChangePhoto, CallRecord
  <2>4. KeysAreSpent'
    BY <1>2 DEF ChangePhoto, CallRecord
  <2>5. OldIsReplaced'
    BY <1>2 DEF ChangePhoto, CallRecord
  <2>6. QED
    BY <2>1, <2>2, <2>3, <2>4, <2>5
<1>3. ASSUME NEW c \in AvatarCalls, ReadUser(c) PROVE AvatarIInv'
  <2>1. AvatarTypeOK'
    <3> DEFINE new == [calls[c] EXCEPT !.at = "read", !.old = picture]
    <3>1. new \in CallRecord
      BY CallsStayCalls
    <3>2. calls' = [calls EXCEPT ![c] = new]
      BY <1>3 DEF ReadUser
    <3>3. QED
      BY <1>3, <3>1, <3>2 DEF ReadUser
  <2>2. AvatarIsThere'
    BY <1>3 DEF ReadUser
  <2>3. SavedIsThere'
    BY <1>3 DEF ReadUser, CallRecord
  <2>4. KeysAreSpent'
    BY <1>3 DEF ReadUser, CallRecord
  <2>5. OldIsReplaced'
    BY <1>3 DEF ReadUser, CallRecord
  <2>6. QED
    BY <2>1, <2>2, <2>3, <2>4, <2>5
<1>4. ASSUME NEW c \in AvatarCalls, SaveImage(c) PROVE AvatarIInv'
  BY <1>4 DEF SaveImage, Goes, CallRecord
<1>5. ASSUME NEW c \in AvatarCalls, CommitKey(c) PROVE AvatarIInv'
  <2>1. AvatarTypeOK'
    BY <1>5 DEF CommitKey, Goes, NewKey, CallRecord
  <2>2. AvatarIsThere' /\ SavedIsThere'
    BY <1>5 DEF CommitKey, Goes, NewKey, CallRecord
  <2>3. KeysAreSpent'
    BY <1>5 DEF CommitKey, Goes, NewKey, CallRecord
  <2>4. OldIsReplaced'
    BY <1>5 DEF CommitKey, Goes, NewKey, CallRecord
  <2>5. QED
    BY <2>1, <2>2, <2>3, <2>4
<1>6. ASSUME NEW c \in AvatarCalls, RefreshUser(c) PROVE AvatarIInv'
  <2>1. AvatarTypeOK'
    <3> DEFINE new == [calls[c] EXCEPT !.at = "refreshed",
                                     !.answer = IF calls[c].does = "upload" THEN picture ELSE NoKey]
    <3>1. new \in CallRecord
      BY CallsStayCalls
    <3>2. calls' = [calls EXCEPT ![c] = new]
      BY <1>6 DEF RefreshUser
    <3>3. QED
      BY <1>6, <3>1, <3>2 DEF RefreshUser
  <2>2. AvatarIsThere'
    BY <1>6 DEF RefreshUser
  <2>3. SavedIsThere'
    BY <1>6 DEF RefreshUser, CallRecord
  <2>4. KeysAreSpent'
    BY <1>6 DEF RefreshUser, CallRecord
  <2>5. OldIsReplaced'
    BY <1>6 DEF RefreshUser, CallRecord
  <2>6. QED
    BY <2>1, <2>2, <2>3, <2>4, <2>5
<1>7. ASSUME NEW c \in AvatarCalls, DropOld(c) PROVE AvatarIInv'
  BY <1>7 DEF DropOld, Goes, ReplacedKey, CallRecord
<1>8. ASSUME NEW c \in AvatarCalls, LoseAvatar(c) PROVE AvatarIInv'
  BY <1>8 DEF LoseAvatar, CallRecord
<1>9. ASSUME NEW c \in AvatarCalls, ShowPhoto(c) PROVE AvatarIInv'
  BY <1>9 DEF ShowPhoto, Released, Over, Unsent, CallRecord
<1>10. ASSUME NEW c \in AvatarCalls, ShowFailure(c) PROVE AvatarIInv'
  BY <1>10 DEF ShowFailure, Released, Over, Unsent, CallRecord
<1>11. CASE UNCHANGED avatarVars
  BY <1>11 DEF avatarVars
<1>12. QED
  BY <1>1, <1>2, <1>3, <1>4, <1>5, <1>6, <1>7, <1>8, <1>9, <1>10, <1>11 DEF AvatarNext

\* The key in the row is that of an object: upload_avatar saves before it
\* commits, and it and delete_avatar remove what they read after they do.
THEOREM Present == AvatarSpec => []AvatarIsThere
<1>1. AvatarIInv => AvatarIsThere
  BY DEF AvatarIInv
<1>2. QED
  BY <1>1, AvatarBegins, AvatarSteps, PTL DEF AvatarSpec

\* The keys a call is about to put into the row or to remove
HeldBy(c) ==
    IF calls[c].at = "saved" THEN {c}
    ELSE IF calls[c].at \in {"committed", "refreshed"} THEN {calls[c].old} ELSE {}

\* The objects that are not in use, and that no call will remove
Adrift == {k \in objects : k # picture /\ \A c \in AvatarCalls : k \notin HeldBy(c)}

FewAdrift == Cardinality(Adrift) <= lost + blind

\* A set that was finite, and has one more member at most
LEMMA OneMore ==
  ASSUME NEW S, IsFiniteSet(S), NEW x, NEW T, T \subseteq S \cup {x}
  PROVE  /\ IsFiniteSet(T) /\ Cardinality(S) \in Nat /\ Cardinality(T) \in Nat
         /\ Cardinality(T) <= Cardinality(S) + 1
         /\ T \subseteq S => Cardinality(T) <= Cardinality(S)
<1>1. IsFiniteSet(S \cup {x}) /\ Cardinality(S \cup {x}) <= Cardinality(S) + 1 /\ Cardinality(S) \in Nat
  BY FS_AddElement, FS_CardinalityType
<1>2. IsFiniteSet(T) /\ Cardinality(T) <= Cardinality(S \cup {x})
  BY <1>1, FS_Subset
<1>3. T \subseteq S => Cardinality(T) <= Cardinality(S)
  BY FS_Subset
<1>4. QED
  BY <1>1, <1>2, <1>3, FS_CardinalityType

\* An object comes adrift with a call that fails, or with one that replaces
\* another key than it has read; nothing else sets any adrift.
LEMMA OneAdrift ==
  ASSUME AvatarIInv, [AvatarNext]_avatarVars
  PROVE  \/ Adrift' \subseteq Adrift /\ lost' = lost /\ blind' = blind
         \/ \E x : Adrift' \subseteq Adrift \cup {x} /\ lost' + blind' = lost + blind + 1
<1> USE AvatarAssumption DEF AvatarIInv, AvatarTypeOK, SavedIsThere, KeysAreSpent, Keys, Adrift, HeldBy
<1>1. CASE ReopenLightbox \/ UNCHANGED avatarVars
  BY <1>1 DEF ReopenLightbox, avatarVars
<1>2. ASSUME NEW c \in AvatarCalls, NEW does \in {"upload", "remove"}, ChangePhoto(c, does)
      PROVE  Adrift' \subseteq Adrift /\ lost' = lost /\ blind' = blind
  BY <1>2 DEF ChangePhoto, CallRecord
<1>3. ASSUME NEW c \in AvatarCalls, ReadUser(c) \/ SaveImage(c) \/ RefreshUser(c) \/ DropOld(c)
      PROVE  Adrift' \subseteq Adrift /\ lost' = lost /\ blind' = blind
  <2>1. CASE ReadUser(c)
    BY <2>1 DEF ReadUser, CallRecord
  <2>2. CASE SaveImage(c)
    BY <2>2 DEF SaveImage, Goes, CallRecord
  <2>3. CASE RefreshUser(c)
    BY <2>3 DEF RefreshUser, CallRecord
  <2>4. CASE DropOld(c)
    BY <2>4 DEF DropOld, Goes, ReplacedKey, CallRecord
  <2>5. QED
    BY <1>3, <2>1, <2>2, <2>3, <2>4
<1>4. ASSUME NEW c \in AvatarCalls, CommitKey(c)
      PROVE  \/ Adrift' \subseteq Adrift /\ lost' = lost /\ blind' = blind
             \/ Adrift' \subseteq Adrift \cup {picture} /\ lost' + blind' = lost + blind + 1
  <2>1. Adrift' \subseteq Adrift \cup {picture}
    BY <1>4 DEF CommitKey, Goes, NewKey, CallRecord
  <2>2. CASE picture \notin {calls[c].old, NewKey(c)}
    BY <1>4, <2>1, <2>2 DEF CommitKey
  <2>3. CASE picture = NewKey(c)
    BY <1>4, <2>3 DEF CommitKey, Goes, NewKey, CallRecord
  <2>4. CASE picture = calls[c].old
    <3>1. HeldBy(c)' = {picture}
      BY <1>4, <2>4 DEF CommitKey, Goes, CallRecord
    <3>2. QED
      BY <1>4, <2>1, <2>4, <3>1 DEF CommitKey
  <2>5. QED
    BY <2>2, <2>3, <2>4
<1>5. ASSUME NEW c \in AvatarCalls, LoseAvatar(c)
      PROVE  \E x : Adrift' \subseteq Adrift \cup {x} /\ lost' + blind' = lost + blind + 1
  <2> DEFINE x == IF calls[c].at = "saved" THEN c ELSE calls[c].old
  <2>1. Adrift' \subseteq Adrift \cup {x}
    BY <1>5 DEF LoseAvatar, CallRecord
  <2>2. lost' + blind' = lost + blind + 1
    BY <1>5 DEF LoseAvatar
  <2>3. QED
    BY <2>1, <2>2
<1>6. ASSUME NEW c \in AvatarCalls, ShowPhoto(c) \/ ShowFailure(c)
      PROVE  Adrift' \subseteq Adrift /\ lost' = lost /\ blind' = blind
  BY <1>6 DEF ShowPhoto, ShowFailure, Over, Unsent, CallRecord
<1>7. QED
  BY <1>1, <1>2, <1>3, <1>4, <1>5, <1>6 DEF AvatarNext

\* There are as many keys as calls, and the one from before.
LEMMA ObjectsAreFinite == AvatarTypeOK => IsFiniteSet(objects) /\ IsFiniteSet(Adrift)
<1>1. IsFiniteSet(Keys)
  BY AvatarAssumption, FS_AddElement DEF Keys
<1>2. AvatarTypeOK => objects \subseteq Keys /\ Adrift \subseteq Keys
  BY DEF AvatarTypeOK, Adrift
<1>3. QED
  BY <1>1, <1>2, FS_Subset

LEMMA FewAdriftSteps == AvatarIInv /\ FewAdrift /\ [AvatarNext]_avatarVars => FewAdrift'
<1> SUFFICES ASSUME AvatarIInv, FewAdrift, [AvatarNext]_avatarVars PROVE FewAdrift'
  OBVIOUS
<1>1. IsFiniteSet(Adrift)
  BY ObjectsAreFinite DEF AvatarIInv
<1>2. lost \in Nat /\ blind \in Nat
  BY DEF AvatarIInv, AvatarTypeOK
<1>3. CASE Adrift' \subseteq Adrift /\ lost' = lost /\ blind' = blind
  <2>1. Adrift' \subseteq Adrift \cup {0}
    BY <1>3
  <2>2. Cardinality(Adrift') <= Cardinality(Adrift)
    BY <1>1, <1>3, <2>1, OneMore
  <2>3. Cardinality(Adrift) \in Nat /\ Cardinality(Adrift') \in Nat
    BY <1>1, <2>1, OneMore
  <2>4. QED
    BY <1>2, <1>3, <2>2, <2>3 DEF FewAdrift
<1>4. ASSUME NEW x, Adrift' \subseteq Adrift \cup {x}, lost' + blind' = lost + blind + 1
      PROVE  FewAdrift'
  <2>1. /\ Cardinality(Adrift) \in Nat /\ Cardinality(Adrift') \in Nat
        /\ Cardinality(Adrift') <= Cardinality(Adrift) + 1
    BY <1>1, <1>4, OneMore
  <2>2. QED
    BY <1>2, <1>4, <2>1 DEF FewAdrift
<1>5. QED
  BY <1>3, <1>4, OneAdrift

\* When no call is under way, what the store holds beside the picture is what
\* failed calls and blind replacements have left, one object each.
THEOREM OrphansCounted == AvatarSpec => []OrphansAreFew
<1>1. AvatarInit => FewAdrift
  <2>1. AvatarInit => Adrift = {}
    BY DEF AvatarInit, Adrift
  <2>2. QED
    BY <2>1, FS_EmptySet DEF AvatarInit, FewAdrift
<1>2. AvatarIInv /\ FewAdrift => OrphansAreFew
  <2> SUFFICES ASSUME FewAdrift, \A c \in AvatarCalls : calls[c].at \in {"unsent", "failed", "ended"}
               PROVE  Cardinality(objects \ {picture}) <= lost + blind
    BY DEF OrphansAreFew
  <2>1. objects \ {picture} = Adrift
    BY DEF Adrift, HeldBy
  <2>2. QED
    BY <2>1 DEF FewAdrift
<1>3. QED
  BY <1>1, <1>2, AvatarBegins, AvatarSteps, FewAdriftSteps, PTL DEF AvatarSpec

----------------------------------------------------------------------------
(* The catalogue.  A request that has found no row of its edition imports  *)
(* it later: what came in between is either noticed by the database, or is *)
(* whole, or was missed.                                                   *)

OpenRecord ==
    [at : {"unsent", "sent", "found", "loaded", "unknown", "new", "answered", "refused", "failed"},
     edition : Editions \cup {"none"}, read : AlbumRows, album : Editions \cup {"none"},
     tracks : {"none", "some", "all"}]

\* A row has its own barcode, or none yet.
RowsOK ==
    /\ DOMAIN albums \subseteq Editions
    /\ \A e \in DOMAIN albums : albums[e].upc \in {NoCode, Barcode[e]} /\ albums[e].tracks \in {"some", "all"}

OpensOK ==
    /\ opens \in [Opens -> OpenRecord]
    /\ \A o \in Opens : opens[o].at \notin {"unsent"} => opens[o].edition \in Editions

\* A row that was not there when it was looked for has been imported since.
ComesWhole ==
    \A o \in Opens :
       LET e == opens[o].edition IN
       /\ opens[o].at \in {"unknown", "new"} /\ e \in DOMAIN albums => albums[e].tracks = "all"
       /\ opens[o].at \in {"found", "loaded"} => e \in DOMAIN albums
       /\ opens[o].at = "loaded" /\ opens[o].read.tracks = "all" => albums[e].tracks = "all"

\* What a request did not find by the barcode is counted as missed.
MissedIsKnown ==
    \A o \in Opens, f \in DOMAIN albums :
       LET e == opens[o].edition IN
       opens[o].at = "new" /\ e # f /\ f \in SameAlbum(e) => <<e, f>> \in missed

ImportIInv == RowsOK /\ OpensOK /\ ComesWhole /\ MissedIsKnown /\ AlbumsComeWhole /\ EditionsShareARow

\* The first state: rows from before, whatever they lack, and no requests.
LEMMA ImportBegins == ImportInit => ImportIInv
<1> SUFFICES ASSUME ImportInit PROVE ImportIInv
  OBVIOUS
<1>1. PICK old \in SUBSET Editions :
         albums \in [old -> AlbumRows] /\ \A e \in old : albums[e].upc \in {NoCode, Barcode[e]}
  BY DEF ImportInit
<1>2. RowsOK
  BY <1>1 DEF RowsOK, AlbumRows
<1>3. OpensOK /\ \A o \in Opens : opens[o].at = "unsent"
  BY DEF ImportInit, OpensOK, OpenRecord, Unopened, Unread, AlbumRows
<1>4. EditionsShareARow
  BY DEF ImportInit, EditionsShareARow
<1>5. QED
  BY <1>2, <1>3, <1>4 DEF ImportIInv, ComesWhole, MissedIsKnown, AlbumsComeWhole

\* A request goes on, knows what it has read, or is over, and is still one.
LEMMA OpensStayOpens ==
  ASSUME NEW r \in OpenRecord, NEW e \in Editions, NEW at \in {"answered", "refused", "failed"},
         NEW upc \in {NoCode} \cup {Barcode[f] : f \in Editions}, NEW tracks \in {"some", "all"}
  PROVE  /\ [r EXCEPT !.at = "sent", !.edition = e] \in OpenRecord
         /\ [r EXCEPT !.at = "found", !.read.upc = upc] \in OpenRecord
         /\ [r EXCEPT !.at = "loaded", !.read.tracks = tracks] \in OpenRecord
         /\ [r EXCEPT !.at = at, !.read = Unread] \in OpenRecord
         /\ [r EXCEPT !.at = at, !.read = Unread, !.album = e, !.tracks = tracks] \in OpenRecord
<1>1. r.read \in AlbumRows
  BY DEF OpenRecord
<1>2. [r.read EXCEPT !.upc = upc] \in AlbumRows /\ [r.read EXCEPT !.tracks = tracks] \in AlbumRows
  BY <1>1 DEF AlbumRows
<1>3. Unread \in AlbumRows
  BY DEF Unread, AlbumRows
<1>4. QED
  BY <1>2, <1>3 DEF OpenRecord

\* The request that moves is one that knows its edition, as it is afterwards.
Moves(o, r) == opens' = [opens EXCEPT ![o] = r] /\ r \in OpenRecord /\ (r.at # "unsent" => r.edition \in Editions)

\* Every action moves one request, and leaves rows behind that are rows.
LEMMA ImportKeepsTypes == RowsOK /\ OpensOK /\ ComesWhole /\ [ImportNext]_importVars => RowsOK' /\ OpensOK'
<1> SUFFICES ASSUME RowsOK, OpensOK, ComesWhole, [ImportNext]_importVars PROVE RowsOK' /\ OpensOK'
  OBVIOUS
<1>1. CASE UNCHANGED importVars
  BY <1>1 DEF importVars, RowsOK, OpensOK
<1>2. ASSUME NEW o \in Opens, NEW r, Moves(o, r) PROVE OpensOK'
  BY <1>2 DEF OpensOK, Moves
<1>3. ASSUME NEW o \in Opens
      PROVE  /\ opens[o] \in OpenRecord /\ opens[o].read \in AlbumRows
             /\ opens[o].at # "unsent" => opens[o].edition \in Editions
             /\ opens = [opens EXCEPT ![o] = opens[o]]
  BY DEF OpensOK, OpenRecord
<1>4. ASSUME NEW o \in Opens, NEW e \in Editions, OpenAlbum(o, e) PROVE RowsOK' /\ OpensOK'
  <2> DEFINE q == opens[o]
             r == [q EXCEPT !.at = "sent", !.edition = e]
  <2>1. opens' = [opens EXCEPT ![o] = r]
    BY <1>4 DEF OpenAlbum, OpensOK
  <2>2. r \in OpenRecord
    BY <1>3, OpensStayOpens
  <2>3. r.edition = e
    BY <1>3 DEF OpenRecord
  <2> HIDE DEF q, r
  <2>4. Moves(o, r)
    BY <2>1, <2>2, <2>3 DEF Moves
  <2>5. QED
    BY <1>2, <1>4, <2>4 DEF OpenAlbum, RowsOK
<1>5. ASSUME NEW o \in Opens, FindAlbum(o) PROVE RowsOK' /\ OpensOK'
  <2> DEFINE q == opens[o]
             e == q.edition
             r == IF e \in DOMAIN albums THEN [q EXCEPT !.at = "found", !.read.upc = albums[e].upc]
                  ELSE [q EXCEPT !.at = "unknown"]
  <2>1. opens' = [opens EXCEPT ![o] = r]
    BY <1>5 DEF FindAlbum, OpensOK
  <2>2. e \in Editions /\ (e \in DOMAIN albums => albums[e].upc \in {NoCode} \cup {Barcode[f] : f \in Editions})
    BY <1>3, <1>5 DEF FindAlbum, RowsOK
  <2>3. q \in OpenRecord
    BY <1>3
  <2> HIDE DEF q
  <2>4. r \in OpenRecord /\ r.edition = e
    <3>1. CASE e \in DOMAIN albums
      <4>1. [q EXCEPT !.at = "found", !.read.upc = albums[e].upc] \in OpenRecord
        BY <2>2, <2>3, <3>1, OpensStayOpens
      <4>2. [q EXCEPT !.at = "found", !.read.upc = albums[e].upc].edition = e
        BY <2>3 DEF OpenRecord
      <4>3. QED
        BY <3>1, <4>1, <4>2
    <3>2. CASE e \notin DOMAIN albums
      BY <2>3, <3>2 DEF OpenRecord
    <3>3. QED
      BY <3>1, <3>2
  <2> HIDE DEF r
  <2>5. Moves(o, r)
    BY <2>1, <2>2, <2>4 DEF Moves
  <2>6. QED
    BY <1>2, <1>5, <2>5 DEF FindAlbum, RowsOK
<1>6. ASSUME NEW o \in Opens, LoadTracks(o) PROVE RowsOK' /\ OpensOK'
  <2> DEFINE q == opens[o]
             e == q.edition
             r == [q EXCEPT !.at = "loaded", !.read.tracks = albums[e].tracks]
  <2>1. opens' = [opens EXCEPT ![o] = r]
    BY <1>6 DEF LoadTracks, OpensOK
  <2>2. e \in Editions /\ albums[e].tracks \in {"some", "all"}
    BY <1>3, <1>6 DEF LoadTracks, RowsOK, ComesWhole
  <2>3. q \in OpenRecord
    BY <1>3
  <2> HIDE DEF q
  <2>4. r \in OpenRecord
    BY <2>2, <2>3, OpensStayOpens
  <2>5. r.edition = e
    BY <2>3 DEF OpenRecord
  <2> HIDE DEF r
  <2>6. Moves(o, r)
    BY <2>1, <2>2, <2>4, <2>5 DEF Moves
  <2>7. QED
    BY <1>2, <1>6, <2>6 DEF LoadTracks, RowsOK
<1>7. ASSUME NEW o \in Opens, NEW how \in {"refused", "failed"}, Ended(o, how), opens[o].at # "unsent"
      PROVE  OpensOK'
  <2> DEFINE q == opens[o]
             r == [q EXCEPT !.at = how, !.read = Unread]
  <2>1. opens' = [opens EXCEPT ![o] = r]
    BY <1>7 DEF Ended, OpensOK
  <2>2. q \in OpenRecord /\ q.edition \in Editions
    BY <1>3, <1>7
  <2> HIDE DEF q
  <2>3. r \in OpenRecord
    BY <2>2, OpensStayOpens
  <2>4. r.edition = q.edition
    BY <2>2 DEF OpenRecord
  <2> HIDE DEF r
  <2>5. Moves(o, r)
    BY <2>1, <2>2, <2>3, <2>4 DEF Moves
  <2>6. QED
    BY <1>2, <2>5
<1>8. ASSUME NEW o \in Opens, NEW f \in Editions, NEW row, row.tracks \in {"some", "all"},
             Tells(o, f, row), opens[o].at # "unsent"
      PROVE  OpensOK'
  <2> DEFINE q == opens[o]
             r == [q EXCEPT !.at = "answered", !.read = Unread, !.album = f, !.tracks = row.tracks]
  <2>1. opens' = [opens EXCEPT ![o] = r]
    BY <1>8 DEF Tells, OpensOK
  <2>2. q \in OpenRecord /\ q.edition \in Editions
    BY <1>3, <1>8
  <2> HIDE DEF q
  <2>3. r \in OpenRecord
    BY <1>8, <2>2, OpensStayOpens
  <2>4. r.edition = q.edition
    BY <2>2 DEF OpenRecord
  <2> HIDE DEF r
  <2>5. Moves(o, r)
    BY <2>1, <2>2, <2>3, <2>4 DEF Moves
  <2>6. QED
    BY <1>2, <2>5
<1>9. ASSUME NEW o \in Opens, Backfill(o) PROVE RowsOK' /\ OpensOK'
  <2> DEFINE e == opens[o].edition
             row == Completed(albums[e], opens[o].read, e)
  <2>1. e \in Editions /\ e \in DOMAIN albums /\ opens[o].at # "unsent"
    BY <1>3, <1>9 DEF Backfill, ComesWhole
  <2>2. row.upc \in {NoCode, Barcode[e]} /\ row.tracks \in {"some", "all"}
    BY <2>1 DEF Completed, RowsOK
  <2>3. CASE opens[o].read.tracks = "some" /\ albums[e].tracks = "all"
    BY <1>7, <1>9, <2>1, <2>3 DEF Backfill, RowsOK
  <2>4. CASE ~(opens[o].read.tracks = "some" /\ albums[e].tracks = "all")
    <3>1. albums' = [albums EXCEPT ![e] = row] /\ Tells(o, e, row)
      BY <1>9, <2>4 DEF Backfill
    <3> HIDE DEF row
    <3>2. RowsOK'
      BY <2>1, <2>2, <3>1 DEF RowsOK
    <3>3. QED
      BY <1>8, <2>1, <2>2, <3>1, <3>2
  <2>5. QED
    BY <2>3, <2>4
<1>10. ASSUME NEW o \in Opens, FindByBarcode(o) PROVE RowsOK' /\ OpensOK'
  <2>1. CASE opens' = [opens EXCEPT ![o].at = "new"]
    BY <1>3, <1>10, <2>1 DEF FindByBarcode, RowsOK, OpensOK, OpenRecord
  <2>2. ASSUME NEW f \in OfCode(opens[o].edition), Tells(o, f, albums[f]) PROVE RowsOK' /\ OpensOK'
    BY <1>8, <1>10, <2>2 DEF FindByBarcode, OfCode, RowsOK
  <2>3. QED
    BY <1>10, <2>1, <2>2 DEF FindByBarcode
<1>11. ASSUME NEW o \in Opens, Import(o) PROVE RowsOK' /\ OpensOK'
  <2> DEFINE e == opens[o].edition
  <2>1. e \in Editions /\ opens[o].at # "unsent"
    BY <1>3, <1>11 DEF Import
  <2>2. CASE e \in DOMAIN albums
    BY <1>7, <1>11, <2>1, <2>2 DEF Import, RowsOK
  <2>3. CASE e \notin DOMAIN albums
    <3>1. /\ albums' = [f \in DOMAIN albums \cup {e} |-> IF f = e THEN Whole(e) ELSE albums[f]]
          /\ Tells(o, e, Whole(e))
      BY <1>11, <2>3 DEF Import
    <3>2. RowsOK'
      BY <2>1, <3>1 DEF RowsOK, Whole
    <3>3. Whole(e).tracks \in {"some", "all"}
      BY DEF Whole
    <3>4. QED
      BY <1>8, <2>1, <3>1, <3>2, <3>3
  <2>4. QED
    BY <2>2, <2>3
<1>12. ASSUME NEW o \in Opens, FailOpen(o) PROVE RowsOK' /\ OpensOK'
  BY <1>7, <1>12 DEF FailOpen, RowsOK
<1>13. QED
  BY <1>1, <1>4, <1>5, <1>6, <1>9, <1>10, <1>11, <1>12 DEF ImportNext

\* What the steps do to the rows: they stay, complete once they are.
LEMMA RowsGrow ==
  ASSUME RowsOK, OpensOK, ComesWhole, [ImportNext]_importVars
  PROVE  /\ DOMAIN albums \subseteq DOMAIN albums'
         /\ \A e \in DOMAIN albums : albums[e].tracks = "all" => albums'[e].tracks = "all"
         /\ missed \subseteq missed'
<1> USE DEF RowsOK, OpensOK, ComesWhole
<1>1. ASSUME NEW o \in Opens, Backfill(o) PROVE
         /\ DOMAIN albums \subseteq DOMAIN albums'
         /\ \A e \in DOMAIN albums : albums[e].tracks = "all" => albums'[e].tracks = "all"
         /\ missed \subseteq missed'
  BY <1>1 DEF Backfill, Completed
<1>2. ASSUME NEW o \in Opens, Import(o) PROVE
         /\ DOMAIN albums \subseteq DOMAIN albums'
         /\ \A e \in DOMAIN albums : albums[e].tracks = "all" => albums'[e].tracks = "all"
         /\ missed \subseteq missed'
  BY <1>2 DEF Import
<1>3. ASSUME NEW o \in Opens, FindByBarcode(o) PROVE UNCHANGED albums /\ missed \subseteq missed'
  BY <1>3 DEF FindByBarcode
<1>4. QED
  BY <1>1, <1>2, <1>3 DEF ImportNext, OpenAlbum, FindAlbum, LoadTracks, FailOpen, importVars

\* What a step leaves to be shown is about the request that takes it, and about
\* those that found no row before it added one.
LEMMA WholeSteps == ImportIInv /\ [ImportNext]_importVars => ComesWhole' /\ AlbumsComeWhole'
<1> SUFFICES ASSUME ImportIInv, [ImportNext]_importVars PROVE ComesWhole' /\ AlbumsComeWhole'
  OBVIOUS
<1>0. RowsOK' /\ OpensOK' /\ opens \in [Opens -> OpenRecord] /\ opens' \in [Opens -> OpenRecord]
  BY ImportKeepsTypes DEF ImportIInv, OpensOK
<1> DEFINE Fine(o) ==
       LET e == opens[o].edition IN
       /\ opens[o].at \in {"unknown", "new"} /\ e \in DOMAIN albums => albums[e].tracks = "all"
       /\ opens[o].at \in {"found", "loaded"} => e \in DOMAIN albums
       /\ opens[o].at = "loaded" /\ opens[o].read.tracks = "all" => albums[e].tracks = "all"
       /\ opens[o].at = "answered" /\ opens[o].album = e => opens[o].tracks = "all"
       /\ opens[o].at = "refused" => e \in DOMAIN albums /\ albums[e].tracks = "all"
<1>1. \A o \in Opens : Fine(o)
  BY DEF ImportIInv, ComesWhole, AlbumsComeWhole
<1>2. /\ DOMAIN albums \subseteq DOMAIN albums'
      /\ \A e \in DOMAIN albums : albums[e].tracks = "all" => albums'[e].tracks = "all"
  BY RowsGrow DEF ImportIInv
<1>3. SUFFICES ASSUME NEW p \in Opens PROVE Fine(p)'
  BY DEF ComesWhole, AlbumsComeWhole
<1>4. CASE UNCHANGED importVars
  BY <1>1, <1>4 DEF importVars
<1>5. ASSUME NEW o \in Opens, NEW e \in Editions, OpenAlbum(o, e) PROVE Fine(p)'
  BY <1>0, <1>1, <1>5 DEF OpenAlbum
<1>6. ASSUME NEW o \in Opens, FindAlbum(o) PROVE Fine(p)'
  BY <1>0, <1>1, <1>6 DEF FindAlbum
<1>7. ASSUME NEW o \in Opens, LoadTracks(o) PROVE Fine(p)'
  <2>1. CASE p = o
    <3>1. opens'[o].at = "loaded" /\ opens'[o].edition = opens[o].edition
          /\ opens'[o].read.tracks = albums[opens[o].edition].tracks
      BY <1>0, <1>7 DEF LoadTracks, OpenRecord, AlbumRows
    <3>2. QED
      BY <1>1, <1>7, <2>1, <3>1 DEF LoadTracks
  <2>2. CASE p # o
    BY <1>0, <1>1, <1>7, <2>2 DEF LoadTracks
  <2>3. QED
    BY <2>1, <2>2
<1>8. ASSUME NEW o \in Opens, NEW how \in {"refused", "failed"}, Ended(o, how), UNCHANGED albums,
             how = "refused" => opens[o].edition \in DOMAIN albums /\ albums[opens[o].edition].tracks = "all"
      PROVE  Fine(p)'
  BY <1>0, <1>1, <1>8 DEF Ended, OpenRecord
<1>9. ASSUME NEW o \in Opens, NEW f, NEW row, Tells(o, f, row), f = opens[o].edition => row.tracks = "all"
      PROVE  /\ opens'[o].at = "answered" /\ opens'[o].edition = opens[o].edition
             /\ opens'[o].album = f /\ opens'[o].tracks = row.tracks
             /\ p # o => opens'[p] = opens[p]
             /\ Fine(o)'
  BY <1>0, <1>9 DEF Tells, OpenRecord
<1>10. ASSUME NEW o \in Opens, Backfill(o) PROVE Fine(p)'
  <2> DEFINE e == opens[o].edition
             row == Completed(albums[e], opens[o].read, e)
  <2>1. CASE opens[o].read.tracks = "some" /\ albums[e].tracks = "all"
    BY <1>1, <1>8, <1>10, <2>1 DEF Backfill
  <2>2. CASE ~(opens[o].read.tracks = "some" /\ albums[e].tracks = "all")
    <3>1. albums' = [albums EXCEPT ![e] = row] /\ Tells(o, e, row)
      BY <1>10, <2>2 DEF Backfill
    <3>2. e \in Editions
      BY <1>1, <1>10 DEF Backfill, ImportIInv, RowsOK
    <3>3. opens[o].read.tracks \in {"some", "all"}
      BY <1>0 DEF OpenRecord, AlbumRows
    <3>4. row.tracks = "all"
      BY <1>1, <1>10, <3>3 DEF Backfill, Completed
    <3> HIDE DEF row
    <3>5. Fine(o)'
      BY <1>9, <3>1, <3>4
    <3>6. p # o => Fine(p)'
      <4>1. p # o => opens'[p] = opens[p]
        BY <1>9, <3>1, <3>4
      <4>2. DOMAIN albums' = DOMAIN albums
        BY <3>1
      <4>3. QED
        BY <1>1, <1>2, <4>1, <4>2
    <3>7. QED
      BY <3>5, <3>6
  <2>3. QED
    BY <2>1, <2>2
<1>11. ASSUME NEW o \in Opens, FindByBarcode(o) PROVE Fine(p)'
  <2>1. CASE opens' = [opens EXCEPT ![o].at = "new"]
    BY <1>0, <1>1, <1>11, <2>1 DEF FindByBarcode, OpenRecord
  <2>2. ASSUME NEW f \in OfCode(opens[o].edition), Tells(o, f, albums[f]) PROVE Fine(p)'
    <3>1. f = opens[o].edition => albums[f].tracks = "all"
      BY <1>1, <1>11, <2>2 DEF FindByBarcode, OfCode
    <3>2. (p # o => opens'[p] = opens[p]) /\ Fine(o)'
      BY <1>9, <2>2, <3>1
    <3>3. QED
      BY <1>1, <1>11, <3>2 DEF FindByBarcode
  <2>3. QED
    BY <1>11, <2>1, <2>2 DEF FindByBarcode
<1>12. ASSUME NEW o \in Opens, Import(o) PROVE Fine(p)'
  <2> DEFINE e == opens[o].edition
  <2>1. CASE e \in DOMAIN albums
    BY <1>1, <1>8, <1>12, <2>1 DEF Import
  <2>2. CASE e \notin DOMAIN albums
    <3>1. /\ albums' = [f \in DOMAIN albums \cup {e} |-> IF f = e THEN Whole(e) ELSE albums[f]]
          /\ Tells(o, e, Whole(e))
      BY <1>12, <2>2 DEF Import
    <3>2. Whole(e).tracks = "all"
      BY DEF Whole
    <3>3. (p # o => opens'[p] = opens[p]) /\ Fine(o)'
      BY <1>9, <3>1, <3>2
    <3>4. p # o => Fine(p)'
      BY <1>1, <3>1, <3>2, <3>3
    <3>5. QED
      BY <3>3, <3>4
  <2>3. QED
    BY <2>1, <2>2
<1>13. ASSUME NEW o \in Opens, FailOpen(o) PROVE Fine(p)'
  BY <1>8, <1>13 DEF FailOpen
<1>14. QED
  BY <1>4, <1>5, <1>6, <1>7, <1>10, <1>11, <1>12, <1>13 DEF ImportNext

\* A request comes to import by the barcode alone, and only an import adds rows.
LEMMA MissedSteps == ImportIInv /\ [ImportNext]_importVars => MissedIsKnown' /\ EditionsShareARow'
<1> SUFFICES ASSUME ImportIInv, [ImportNext]_importVars PROVE MissedIsKnown' /\ EditionsShareARow'
  OBVIOUS
<1>1. RowsOK /\ opens \in [Opens -> OpenRecord] /\ MissedIsKnown /\ EditionsShareARow
  BY DEF ImportIInv, OpensOK
<1>2. missed \subseteq missed'
  BY RowsGrow DEF ImportIInv
<1>3. ASSUME DOMAIN albums' = DOMAIN albums,
             \A p \in Opens : opens'[p].at = "new" => opens[p].at = "new" /\ opens'[p].edition = opens[p].edition
      PROVE  MissedIsKnown' /\ EditionsShareARow'
  <2>1. MissedIsKnown'
    BY <1>1, <1>2, <1>3 DEF MissedIsKnown, SameAlbum
  <2>2. EditionsShareARow'
    BY <1>1, <1>2, <1>3 DEF EditionsShareARow, SameAlbum
  <2>3. QED
    BY <2>1, <2>2
<1>4. CASE UNCHANGED importVars
  BY <1>3, <1>4 DEF importVars
<1>5. ASSUME NEW o \in Opens, NEW e \in Editions, OpenAlbum(o, e) PROVE MissedIsKnown' /\ EditionsShareARow'
  BY <1>1, <1>3, <1>5 DEF OpenAlbum, OpenRecord
<1>6. ASSUME NEW o \in Opens, FindAlbum(o) PROVE MissedIsKnown' /\ EditionsShareARow'
  BY <1>1, <1>3, <1>6 DEF FindAlbum, OpenRecord
<1>7. ASSUME NEW o \in Opens, LoadTracks(o) PROVE MissedIsKnown' /\ EditionsShareARow'
  BY <1>1, <1>3, <1>7 DEF LoadTracks, OpenRecord
<1>8. ASSUME NEW o \in Opens, NEW how \in {"refused", "failed"}, Ended(o, how)
      PROVE  \A p \in Opens : opens'[p].at = "new" => opens[p].at = "new" /\ opens'[p].edition = opens[p].edition
  BY <1>1, <1>8 DEF Ended, OpenRecord
<1>9. ASSUME NEW o \in Opens, NEW f, NEW row, Tells(o, f, row)
      PROVE  \A p \in Opens : opens'[p].at = "new" => opens[p].at = "new" /\ opens'[p].edition = opens[p].edition
  BY <1>1, <1>9 DEF Tells, OpenRecord
<1>10. ASSUME NEW o \in Opens, Backfill(o) PROVE MissedIsKnown' /\ EditionsShareARow'
  <2>1. DOMAIN albums' = DOMAIN albums
    BY <1>10 DEF Backfill
  <2>2. \A p \in Opens : opens'[p].at = "new" => opens[p].at = "new" /\ opens'[p].edition = opens[p].edition
    BY <1>8, <1>9, <1>10 DEF Backfill
  <2>3. QED
    BY <1>3, <2>1, <2>2
<1>11. ASSUME NEW o \in Opens, FailOpen(o) PROVE MissedIsKnown' /\ EditionsShareARow'
  BY <1>3, <1>8, <1>11 DEF FailOpen
<1>12. ASSUME NEW o \in Opens, FindByBarcode(o) PROVE MissedIsKnown' /\ EditionsShareARow'
  <2> DEFINE e == opens[o].edition
  <2>1. CASE OfCode(e) = {} /\ opens' = [opens EXCEPT ![o].at = "new"]
             /\ missed' = missed \cup {<<e, f>> : f \in {g \in SameAlbum(e) \cap DOMAIN albums : albums[g].upc = NoCode}}
    <3>1. \A f \in DOMAIN albums : e # f /\ f \in SameAlbum(e) => <<e, f>> \in missed'
      BY <1>1, <2>1 DEF OfCode, SameAlbum, RowsOK
    <3>2. UNCHANGED albums
      BY <1>12 DEF FindByBarcode
    <3>3. \A p \in Opens : opens'[p].edition = opens[p].edition /\ (p # o => opens'[p].at = opens[p].at)
      BY <1>1, <2>1 DEF OpenRecord
    <3>4. MissedIsKnown'
      BY <1>1, <1>2, <3>1, <3>2, <3>3 DEF MissedIsKnown, SameAlbum
    <3>5. EditionsShareARow'
      BY <1>1, <1>2, <3>2 DEF EditionsShareARow, SameAlbum
    <3>6. QED
      BY <3>4, <3>5
  <2>2. ASSUME NEW f \in OfCode(e), Tells(o, f, albums[f]) PROVE MissedIsKnown' /\ EditionsShareARow'
    BY <1>3, <1>9, <1>12, <2>2 DEF FindByBarcode
  <2>3. QED
    BY <1>12, <2>1, <2>2 DEF FindByBarcode
<1>13. ASSUME NEW o \in Opens, Import(o) PROVE MissedIsKnown' /\ EditionsShareARow'
  <2> DEFINE e == opens[o].edition
  <2>1. CASE e \in DOMAIN albums
    BY <1>3, <1>8, <1>13, <2>1 DEF Import
  <2>2. CASE e \notin DOMAIN albums
    <3>1. /\ DOMAIN albums' = DOMAIN albums \cup {e}
          /\ missed' = missed \cup {<<opens[p].edition, e>> : p \in {q \in Opens : opens[q].at = "new"}}
          /\ \A p \in Opens : opens'[p].at = "new" => opens[p].at = "new" /\ opens'[p].edition = opens[p].edition
      BY <1>9, <1>13, <2>2 DEF Import
    <3>2. MissedIsKnown'
      BY <1>1, <1>2, <3>1 DEF MissedIsKnown, SameAlbum
    <3>3. \A f \in DOMAIN albums : e # f /\ f \in SameAlbum(e) => <<e, f>> \in missed
      BY <1>1, <1>13 DEF MissedIsKnown, Import
    <3>4. \A f \in DOMAIN albums : e \in SameAlbum(f) => f \in SameAlbum(e)
      BY <1>1 DEF SameAlbum, RowsOK
    <3>5. EditionsShareARow'
      BY <1>1, <1>2, <3>1, <3>3, <3>4 DEF EditionsShareARow, SameAlbum
    <3>6. QED
      BY <3>2, <3>5
  <2>3. QED
    BY <2>1, <2>2
<1>14. QED
  BY <1>4, <1>5, <1>6, <1>7, <1>10, <1>11, <1>12, <1>13 DEF ImportNext

LEMMA ImportSteps == ImportIInv /\ [ImportNext]_importVars => ImportIInv'
  BY ImportKeepsTypes, WholeSteps, MissedSteps DEF ImportIInv

\* Two editions of one album have two rows only if the import of the one could
\* not find the other, whatever else is imported and completed meanwhile:
\* get_or_import_album looks for the barcode after it has looked for the id.
THEOREM EditionsShared == ImportSpec => []EditionsShareARow
<1>1. ImportIInv => EditionsShareARow
  BY DEF ImportIInv
<1>2. QED
  BY <1>1, ImportBegins, ImportSteps, PTL DEF ImportSpec

\* Who opens an album by the id of its row is told all of its tracks, and whom
\* uq_album_track_index or the Spotify id refuses finds them the next time.
THEOREM AlbumsWhole == ImportSpec => []AlbumsComeWhole
<1>1. ImportIInv => AlbumsComeWhole
  BY DEF ImportIInv
<1>2. QED
  BY <1>1, ImportBegins, ImportSteps, PTL DEF ImportSpec

----------------------------------------------------------------------------
(* The likes of a comment.  The notification a request has looked for and  *)
(* found is there until the author looks, and the one it adds is the first *)
(* unless another had looked before it was added.                          *)

PutRecord ==
    [at : {"ended", "sent", "looked", "checked"}, by : Fans, value : Reactions, existing : Reactions,
     tells : BOOLEAN, gone : BOOLEAN, beaten : BOOLEAN]

LikesTypeOK ==
    /\ exists \in BOOLEAN /\ reactions \in [Fans -> Reactions] /\ unread \in Nat
    /\ puts \in [Puts -> PutRecord]
    /\ together \in BOOLEAN

\* Who looks for the notification and finds it relies on it.
FoundIsThere ==
    exists => \A p \in Puts :
       puts[p].at = "checked" /\ ~puts[p].tells /\ ~puts[p].beaten => unread > 0

\* Who is to add the notification knows of no other, or was not alone.
TellersAreAlone ==
    /\ \A p \in Puts : puts[p].tells => puts[p].at = "checked" /\ (unread > 0 => together)
    /\ \A p, q \in Puts : p # q /\ puts[p].at = "checked" /\ puts[q].at = "checked" => together

LikesIInv == LikesTypeOK /\ FoundIsThere /\ TellersAreAlone /\ LikesAreToldOnce

LEMMA LikesBegin == LikesInit => LikesIInv
<1> SUFFICES ASSUME LikesInit PROVE LikesIInv
  OBVIOUS
<1>1. exists \in BOOLEAN /\ together \in BOOLEAN /\ together = FALSE
  BY Zenon DEF LikesInit
<1>2. NoPut \in PutRecord
  BY LikesAssumption DEF NoPut, PutRecord, Reactions
<1>3. puts \in [Puts -> PutRecord] /\ reactions \in [Fans -> Reactions] /\ unread = 0 /\ news = {}
  BY <1>2 DEF LikesInit, Reactions
<1>4. \A p \in Puts : puts[p].at = "ended" /\ puts[p].tells = FALSE
  BY DEF LikesInit, NoPut
<1>5. QED
  BY <1>1, <1>3, <1>4 DEF LikesIInv, LikesTypeOK, FoundIsThere, TellersAreAlone, LikesAreToldOnce

\* A request goes on, or loses its row, and is still one.
LEMMA LikesKeepTypes == LikesTypeOK /\ [LikesNext]_likesVars => LikesTypeOK'
<1> SUFFICES ASSUME LikesTypeOK, [LikesNext]_likesVars PROVE LikesTypeOK'
  OBVIOUS
<1> USE LikesAssumption DEF LikesTypeOK
<1>1. CASE UNCHANGED likesVars
  BY <1>1 DEF likesVars
<1>10. CASE DeleteComment
  <2>1. exists' \in BOOLEAN /\ together' \in BOOLEAN
    BY <1>10, Zenon DEF DeleteComment
  <2>2. QED
    BY <1>10, <2>1 DEF DeleteComment, Reactions
<1>2. ASSUME NEW r \in PutRecord, NEW u \in Fans, NEW v \in Reactions, NEW b \in BOOLEAN
      PROVE  /\ [r EXCEPT !.at = "sent", !.by = u, !.value = v] \in PutRecord
             /\ [r EXCEPT !.at = "looked", !.existing = v] \in PutRecord
             /\ [r EXCEPT !.at = "checked", !.tells = b] \in PutRecord
             /\ [r EXCEPT !.gone = b] \in PutRecord
             /\ [r EXCEPT !.beaten = b] \in PutRecord
  BY <1>2 DEF PutRecord
<1>3. NoPut \in PutRecord
  BY DEF NoPut, PutRecord, Reactions
<1>4. ASSUME NEW p \in Puts, NEW u \in Fans, NEW v \in Reactions, Put(p, u, v) PROVE LikesTypeOK'
  <2> DEFINE r == [puts[p] EXCEPT !.at = "sent", !.by = u, !.value = v]
  <2>1. puts' = [puts EXCEPT ![p] = r]
    BY <1>4 DEF Put
  <2>2. r \in PutRecord
    BY <1>2
  <2> HIDE DEF r
  <2>3. QED
    BY <1>4, <2>1, <2>2 DEF Put
<1>5. ASSUME NEW p \in Puts, Look(p) PROVE LikesTypeOK'
  <2> DEFINE r == [puts[p] EXCEPT !.at = "looked", !.existing = reactions[puts[p].by]]
  <2>1. puts' = [puts EXCEPT ![p] = r] \/ puts' = [puts EXCEPT ![p] = NoPut]
    BY <1>5 DEF Look
  <2>2. reactions[puts[p].by] \in Reactions
    BY DEF PutRecord
  <2>3. r \in PutRecord
    BY <1>2, <2>2
  <2> HIDE DEF r
  <2>4. QED
    BY <1>3, <1>5, <2>1, <2>3 DEF Look
<1>6. ASSUME NEW p \in Puts, LookForNotification(p) PROVE LikesTypeOK'
  <2> DEFINE b == ~Already
             r == [puts[p] EXCEPT !.at = "checked", !.tells = b]
  <2>1. puts' = [puts EXCEPT ![p] = r]
    BY <1>6 DEF LookForNotification
  <2>2. b \in BOOLEAN
    BY DEF Already
  <2> HIDE DEF b
  <2>3. r \in PutRecord
    BY <1>2, <2>2
  <2> HIDE DEF r
  <2>4. together' \in BOOLEAN
    BY <1>6 DEF LookForNotification
  <2>5. QED
    BY <1>6, <2>1, <2>3, <2>4 DEF LookForNotification
<1>7. ASSUME NEW p \in Puts, CommitReaction(p) PROVE LikesTypeOK'
  <2> DEFINE over == [puts EXCEPT ![p] = NoPut]
  <2>1. over \in [Puts -> PutRecord]
    BY <1>3
  <2>2. Removed(over, puts[p].by) \in [Puts -> PutRecord]
    <3> HIDE DEF over
    <3> DEFINE gone(q) == over[q].gone \/ (over[q].at \in {"looked", "checked"} /\ over[q].by = puts[p].by
                                            /\ over[q].existing # "none")
    <3>1. \A q \in Puts : gone(q) \in BOOLEAN
      OBVIOUS
    <3>2. Removed(over, puts[p].by) = [q \in Puts |-> [over[q] EXCEPT !.gone = gone(q)]]
      BY DEF Removed
    <3> HIDE DEF gone
    <3>3. \A q \in Puts : [over[q] EXCEPT !.gone = gone(q)] \in PutRecord
      BY <1>2, <2>1, <3>1
    <3>4. QED
      BY <3>2, <3>3
  <2>3. puts' \in [Puts -> PutRecord]
    BY <1>7, <2>1, <2>2 DEF CommitReaction
  <2>4. puts[p].by \in Fans /\ Result(puts[p]) \in Reactions
    BY DEF Result, PutRecord
  <2>5. QED
    BY <1>7, <2>3, <2>4 DEF CommitReaction
<1>8. CASE SeeNotifications
  <2> DEFINE beaten(p) == puts[p].beaten \/ puts[p].at = "checked"
  <2>1. \A p \in Puts : beaten(p) \in BOOLEAN
    BY DEF PutRecord
  <2>2. puts' = [p \in Puts |-> [puts[p] EXCEPT !.beaten = beaten(p)]]
    BY <1>8 DEF SeeNotifications
  <2> HIDE DEF beaten
  <2>3. \A p \in Puts : [puts[p] EXCEPT !.beaten = beaten(p)] \in PutRecord
    BY <1>2, <2>1
  <2>4. puts' \in [Puts -> PutRecord]
    BY <2>2, <2>3
  <2>5. QED
    BY <1>8, <2>4 DEF SeeNotifications
<1>9. QED
  BY <1>1, <1>10, <1>4, <1>5, <1>6, <1>7, <1>8 DEF LikesNext

\* A request that commits is over; of the others it changes at most that their
\* row is gone.
LEMMA CommitEnds ==
  ASSUME LikesTypeOK, NEW p \in Puts, CommitReaction(p)
  PROVE  /\ puts'[p].at = "ended" /\ puts'[p].tells = FALSE
         /\ \A q \in Puts : q # p =>
               puts'[q].at = puts[q].at /\ puts'[q].tells = puts[q].tells /\ puts'[q].beaten = puts[q].beaten
<1> DEFINE over == [puts EXCEPT ![p] = NoPut]
<1>1. over \in [Puts -> PutRecord] /\ over[p] = NoPut /\ \A q \in Puts : q # p => over[q] = puts[q]
  BY LikesAssumption DEF LikesTypeOK, NoPut, PutRecord, Reactions
<1>2. puts' = over \/ puts' = Removed(over, puts[p].by)
  BY DEF CommitReaction
<1> HIDE DEF over
<1>3. \A q \in Puts : /\ Removed(over, puts[p].by)[q].at = over[q].at
                      /\ Removed(over, puts[p].by)[q].tells = over[q].tells
                      /\ Removed(over, puts[p].by)[q].beaten = over[q].beaten
  BY <1>1 DEF Removed, PutRecord
<1>4. QED
  BY <1>1, <1>2, <1>3 DEF NoPut

\* Every action keeps it: a commit is where two requests meet.
LEMMA LikesSteps == LikesIInv /\ [LikesNext]_likesVars => LikesIInv'
<1> SUFFICES ASSUME LikesIInv, [LikesNext]_likesVars PROVE LikesIInv'
  OBVIOUS
<1>1. LikesTypeOK /\ LikesTypeOK'
  BY LikesKeepTypes DEF LikesIInv
<1>2. puts \in [Puts -> PutRecord] /\ puts' \in [Puts -> PutRecord] /\ unread \in Nat
  BY <1>1 DEF LikesTypeOK
<1>3. SUFFICES FoundIsThere' /\ TellersAreAlone' /\ LikesAreToldOnce'
  BY <1>1 DEF LikesIInv
<1> USE DEF LikesIInv, FoundIsThere, TellersAreAlone, LikesAreToldOnce
<1>4. CASE UNCHANGED likesVars
  BY <1>4 DEF likesVars
<1>5. ASSUME NEW p \in Puts, NEW u \in Fans, NEW v \in Reactions, Put(p, u, v)
      PROVE  FoundIsThere' /\ TellersAreAlone' /\ LikesAreToldOnce'
  BY <1>2, <1>5 DEF Put, PutRecord
<1>6. ASSUME NEW p \in Puts, Look(p) PROVE FoundIsThere' /\ TellersAreAlone' /\ LikesAreToldOnce'
  BY <1>2, <1>6 DEF Look, NoPut, PutRecord
<1>7. ASSUME NEW p \in Puts, LookForNotification(p) PROVE FoundIsThere' /\ TellersAreAlone' /\ LikesAreToldOnce'
  <2>1. /\ puts'[p].at = "checked" /\ (puts'[p].tells => unread = 0) /\ (~puts'[p].tells => unread > 0)
        /\ \A q \in Puts : q # p => puts'[q] = puts[q]
        /\ together => together'
        /\ \A q \in Puts : puts[q].at = "checked" => together'
    <3> DEFINE tells == ~Already
    <3>1. puts' = [puts EXCEPT ![p] = [puts[p] EXCEPT !.at = "checked", !.tells = tells]]
      BY <1>2, <1>7 DEF LookForNotification
    <3>2. together' = (together \/ \E q \in Puts : puts[q].at = "checked")
      BY <1>7 DEF LookForNotification
    <3>3. (tells => unread = 0) /\ (~tells => unread > 0)
      BY <1>2 DEF Already
    <3> HIDE DEF tells
    <3>4. puts'[p].at = "checked" /\ puts'[p].tells = tells /\ \A q \in Puts : q # p => puts'[q] = puts[q]
      BY <1>2, <3>1 DEF PutRecord
    <3>5. QED
      BY <3>2, <3>3, <3>4
  <2>2. UNCHANGED <<exists, unread, news>>
    BY <1>7 DEF LookForNotification
  <2>3. QED
    BY <2>1, <2>2
<1>8. ASSUME NEW p \in Puts, CommitReaction(p) PROVE FoundIsThere' /\ TellersAreAlone' /\ LikesAreToldOnce'
  <2>1. /\ puts'[p].at = "ended" /\ puts'[p].tells = FALSE
        /\ \A q \in Puts : q # p =>
              puts'[q].at = puts[q].at /\ puts'[q].tells = puts[q].tells /\ puts'[q].beaten = puts[q].beaten
    BY <1>1, <1>8, CommitEnds
  <2>2. UNCHANGED <<exists, together>>
    BY <1>8 DEF CommitReaction
  <2>3. CASE unread' = unread /\ news' = news
    BY <2>1, <2>2, <2>3
  <2>4. CASE /\ exists
             /\ unread' = IF puts[p].tells THEN unread + 1 ELSE unread
             /\ news' = IF IsNews(puts[p]) /\ ~puts[p].beaten THEN news \cup {puts[p].by} ELSE news
             /\ puts[p].at = IF IsNews(puts[p]) THEN "checked" ELSE "looked"
    <3>1. FoundIsThere'
      BY <1>2, <2>1, <2>2, <2>4
    <3>2. \A q \in Puts : puts'[q].tells => puts'[q].at = "checked" /\ (unread' > 0 => together')
      <4>1. CASE puts[p].tells
        BY <2>1, <2>2, <4>1
      <4>2. CASE ~puts[p].tells
        BY <2>1, <2>2, <2>4, <4>2
      <4>3. QED
        BY <4>1, <4>2
    <3>3. TellersAreAlone'
      BY <2>1, <2>2, <3>2
    <3>4. unread' > 1 => together'
      BY <1>2, <2>2, <2>4
    <3>5. news' # {} => unread' > 0
      <4>1. CASE puts[p].tells
        BY <1>2, <2>4, <4>1
      <4>2. CASE ~puts[p].tells
        BY <2>4, <4>2
      <4>3. QED
        BY <4>1, <4>2
    <3>6. QED
      BY <3>1, <3>3, <3>4, <3>5
  <2>5. QED
    BY <1>8, <2>3, <2>4 DEF CommitReaction
<1>9. CASE SeeNotifications
  BY <1>2, <1>9 DEF SeeNotifications, PutRecord
<1>10. CASE DeleteComment
  BY <1>2, <1>10 DEF DeleteComment
<1>11. QED
  BY <1>4, <1>5, <1>6, <1>7, <1>8, <1>9, <1>10 DEF LikesNext

\* A like that came since the author looked is told, unless the author looked
\* while it was under way, and once, unless requests overlapped: react_to_comment
\* looks for an unread notification before it adds one, in the same transaction.
THEOREM LikesTold == LikesSpec => []LikesAreToldOnce
<1>1. LikesIInv => LikesAreToldOnce
  BY DEF LikesIInv
<1>2. QED
  BY <1>1, LikesBegin, LikesSteps, PTL DEF LikesSpec
=============================================================================
