---------------------- MODULE NotificationBadgeProofs ----------------------
(***************************************************************************)
(* For any notifications, users and interleaving of polls, markings and    *)
(* sessions, the badges never go below zero, and the bell's counts at      *)
(* least what the other two count: TypeCorrect (TypeOK).                   *)
(*                                                                         *)
(* markSeen subtracts the badge of a scope from that of the bell, without  *)
(* asking the server.  This is right as long as the counts are those of    *)
(* one set of notifications, which is what IInv adds: summary and lastRef  *)
(* never part, and are the counts of what the last poll told, less what    *)
(* has been marked as seen since (WithoutCounts).                          *)
(***************************************************************************)
EXTENDS NotificationBadge, FiniteSetTheorems, TLAPS

IInv == TypeOK /\ summary = last /\ last = Count(believed)

----------------------------------------------------------------------------
(* Counting *)

\* What a scope counts is finite, and so is what it counts of any notifications.
LEMMA Countable ==
  ASSUME NEW B \in SUBSET Notes, NEW T
  PROVE  /\ IsFiniteSet(B) /\ IsFiniteSet(B \cap T)
         /\ Cardinality(B \cap T) \in Nat
         /\ Cardinality(B \cap T) <= Cardinality(Notes)
<1>1. IsFiniteSet(Notes)
  BY ConstantsAssumption
<1>2. IsFiniteSet(B)
  BY <1>1, FS_Subset
<1>3. B \cap T \in SUBSET Notes
  OBVIOUS
<1>4. IsFiniteSet(B \cap T) /\ Cardinality(B \cap T) <= Cardinality(Notes)
  BY <1>1, <1>3, FS_Subset
<1>5. QED
  BY <1>2, <1>4, FS_CardinalityType

\* The bell counts all notifications; of the other two, each counts what has
\* its scope, and no notification has both.
LEMMA ScopesPart ==
  /\ Of("bell") = Notes
  /\ Of("listen_invites") \cap Of("friend_requests") = {}
  BY ConstantsAssumption DEF Of, Scopes

\* The counts of any notifications are such as may be shown.
LEMMA CountsAreBadges ==
  ASSUME NEW B \in SUBSET Notes
  PROVE  Count(B) \in Badges
<1> DEFINE L == B \cap Of("listen_invites")
           F == B \cap Of("friend_requests")
<1>1. \A s \in Scopes : Cardinality(B \cap Of(s)) \in 0..Cardinality(Notes)
  <2>1. Cardinality(Notes) \in Nat
    BY ConstantsAssumption, FS_CardinalityType
  <2>2. QED
    BY <2>1, Countable
<1>2. Cardinality(L) + Cardinality(F) <= Cardinality(B \cap Of("bell"))
  <2>1. IsFiniteSet(L) /\ IsFiniteSet(F) /\ IsFiniteSet(B)
    BY Countable
  <2>2. L \cap F = {}
    BY ScopesPart
  <2>3. Cardinality(L \cup F) = Cardinality(L) + Cardinality(F) - Cardinality(L \cap F)
    BY <2>1, FS_Union
  <2>4. Cardinality(L \cap F) = 0
    BY <2>2, FS_EmptySet
  <2>5. B \cap Of("bell") = B
    BY ScopesPart
  <2>6. L \cup F \in SUBSET B
    OBVIOUS
  <2>7. Cardinality(L \cup F) <= Cardinality(B)
    BY <2>1, <2>6, FS_Subset
  <2>8. Cardinality(L) \in Nat /\ Cardinality(F) \in Nat
    BY <2>1, FS_CardinalityType
  <2>9. Cardinality(L \cup F) \in Nat /\ Cardinality(B) \in Nat
    BY <2>1, <2>6, FS_Subset, FS_CardinalityType
  <2>10. Cardinality(B \cap Of("bell")) = Cardinality(B)
    BY <2>5
  <2>11. Cardinality(L) + Cardinality(F) <= Cardinality(B)
    <3> HIDE DEF L, F
    <3>1. QED
      BY <2>3, <2>4, <2>7, <2>8, <2>9
  <2>12. QED
    BY <2>10, <2>11
<1>3. QED
  BY <1>1, <1>2 DEF Count, Badges, Scopes

\* To clear the badge of a scope, and to take it off the bell's, is to count
\* what is left when the notifications of that scope are not.
LEMMA WithoutCounts ==
  ASSUME NEW B \in SUBSET Notes, NEW scope \in Scopes
  PROVE  Without(Count(B), scope) = Count(B \ Of(scope))
<1>1. CASE scope = "bell"
  <2>1. \A s \in Scopes : (B \ Of(scope)) \cap Of(s) = {}
    BY <1>1, ScopesPart
  <2>2. QED
    BY <1>1, <2>1, FS_EmptySet DEF Without, Count, ZERO
<1>2. CASE scope # "bell"
  <2> DEFINE other == IF scope = "listen_invites" THEN "friend_requests" ELSE "listen_invites"
  <2>1. /\ (B \ Of(scope)) \cap Of("bell") = B \ Of(scope)
        /\ (B \ Of(scope)) \cap Of(scope) = {}
        /\ (B \ Of(scope)) \cap Of(other) = B \cap Of(other)
        /\ B \cap Of("bell") = B
    BY <1>2, ScopesPart DEF Scopes
  <2>2. Cardinality(B \ Of(scope)) = Cardinality(B) - Cardinality(B \cap Of(scope))
    BY Countable, FS_Difference
  <2>3. Cardinality({}) = 0
    BY FS_EmptySet
  <2>4. Scopes = {"bell", scope, other} /\ other # scope /\ other # "bell"
    BY <1>2 DEF Scopes
  <2> HIDE DEF other
  <2>5. QED
    BY <1>2, <2>1, <2>2, <2>3, <2>4 DEF Without, Count
<1>3. QED
  BY <1>1, <1>2

----------------------------------------------------------------------------
(* The steps *)

\* At first nothing is believed, and nothing shown.
LEMMA InitInductive == Init => IInv
<1> SUFFICES ASSUME Init PROVE IInv
  OBVIOUS
<1>1. \A s \in Scopes : {} \cap Of(s) = {}
  OBVIOUS
<1>2. Count({}) = ZERO
  BY <1>1, FS_EmptySet DEF Count, ZERO
<1>3. Count({}) \in Badges
  BY CountsAreBadges
<1>4. last \in Badges /\ summary \in Badges /\ summary = last /\ last = Count(believed)
  BY <1>2, <1>3 DEF Init
<1>5. mark \in [Scopes -> [at : {"none", "sent"}, by : Somebody]]
  BY DEF Init, NoMark, Somebody
<1>6. poll \in [at : {"none", "sent", "ok"}, by : Somebody, notes : SUBSET Notes]
  BY DEF Init, NoPoll, Somebody
<1>7. bell \in [at : {"idle", "listing"}, by : Somebody, news : BOOLEAN] /\ user \in Somebody
  BY DEF Init, BellIdle, Somebody
<1>8. faults \in 0..MaxFaults /\ believed \subseteq Notes
  BY ConstantsAssumption DEF Init
<1>9. QED
  BY <1>4, <1>5, <1>6, <1>7, <1>8 DEF Init, IInv, TypeOK

\* What is under way: the request for a poll, and who asked for it.
PollType == [at : {"none", "sent", "ok"}, by : Somebody, notes : SUBSET Notes]

LEMMA RefreshIsAPoll ==
  ASSUME NEW u \in Somebody, NEW whose \in Somebody, poll \in PollType, Refresh(u, whose)
  PROVE  poll' \in PollType
  BY DEF Refresh, PollType, NoPoll

\* markSeen keeps the counts those of what is still believed.
LEMMA MarkSeenInductive ==
  ASSUME IInv, NEW scope \in Scopes, MarkSeen(scope)
  PROVE  /\ summary' \in Badges /\ last' \in Badges /\ believed' \subseteq Notes
         /\ summary' = last' /\ last' = Count(believed')
         /\ mark' \in [Scopes -> [at : {"none", "sent"}, by : Somebody]]
<1>1. believed \in SUBSET Notes /\ believed' = believed \ Of(scope)
  BY DEF IInv, TypeOK, MarkSeen
<1>2. last' = Without(Count(believed), scope) /\ summary' = last'
  BY DEF IInv, MarkSeen, Clear
<1>3. last' = Count(believed')
  BY <1>1, <1>2, WithoutCounts
<1>4. Count(believed') \in Badges
  BY <1>1, CountsAreBadges
<1>5. mark' \in [Scopes -> [at : {"none", "sent"}, by : Somebody]]
  BY DEF IInv, TypeOK, MarkSeen, Somebody
<1>6. QED
  BY <1>1, <1>2, <1>3, <1>4, <1>5

\* Every action keeps the types, and the counts those of what is believed.
LEMMA StepInductive == IInv /\ [Next]_vars => IInv'
<1> SUFFICES ASSUME IInv, [Next]_vars PROVE IInv'
  OBVIOUS
<1> USE DEF server, shown
<1>a. user \in Somebody /\ poll \in PollType
  BY DEF IInv, TypeOK, PollType
<1>1. CASE Poll
  <2>1. poll' \in PollType
    BY <1>1, <1>a, RefreshIsAPoll DEF Poll
  <2>2. QED
    BY <1>1, <2>1 DEF Poll, IInv, TypeOK, PollType
<1>2. CASE Summarise
  <2>1. Unread(poll.by) \subseteq Notes
    BY DEF IInv, TypeOK, Unread
  <2>2. poll' \in PollType
    BY <1>2, <1>a, <2>1 DEF Summarise, PollType
  <2>3. QED
    BY <1>2, <2>2 DEF Summarise, IInv, TypeOK, PollType
<1>3. CASE LosePoll
  <2>1. poll' \in PollType
    BY <1>3 DEF LosePoll, Blip, NoPoll, PollType, Somebody
  <2>2. faults' \in 0..MaxFaults
    BY <1>3, ConstantsAssumption DEF LosePoll, Lost, IInv, TypeOK
  <2>3. QED
    BY <1>3, <2>1, <2>2 DEF LosePoll, IInv, TypeOK, PollType
<1>4. CASE Received
  <2>1. poll.notes \in SUBSET Notes
    BY <1>a DEF PollType
  <2>2. Count(poll.notes) \in Badges
    BY <2>1, CountsAreBadges
  <2>3. last' \in Badges /\ summary' = last' /\ last' = Count(believed') /\ believed' \subseteq Notes
    BY <1>4, <2>1, <2>2 DEF Received
  <2>4. version' \in BOOLEAN
    BY <1>4 DEF Received
  <2>5. poll' \in PollType
    BY <1>4 DEF Received, NoPoll, PollType, Somebody
  <2>6. QED
    BY <1>4, <2>3, <2>4, <2>5 DEF Received, IInv, TypeOK, PollType
<1>5. ASSUME NEW s \in Scopes, Activate(s) PROVE IInv'
  <2>1. MarkSeen(s)
    BY <1>5 DEF Activate
  <2>2. QED
    BY <1>5, <2>1, MarkSeenInductive DEF Activate, MarkSeen, IInv, TypeOK
<1>6. ASSUME NEW s \in Scopes, Marked(s) \/ LoseMark(s) PROVE IInv'
  <2>1. mark[s].by \in Somebody
    BY DEF IInv, TypeOK
  <2>2. poll' \in PollType
    BY <1>6, <1>a, <2>1, RefreshIsAPoll DEF Marked, LoseMark
  <2>3. unread' \subseteq written'
    BY <1>6 DEF Marked, LoseMark, Seen, IInv, TypeOK
  <2>4. mark' \in [Scopes -> [at : {"none", "sent"}, by : Somebody]]
    BY <1>6 DEF Marked, LoseMark, NoMark, Somebody, IInv, TypeOK
  <2>5. faults' \in 0..MaxFaults
    BY <1>6, ConstantsAssumption DEF Marked, LoseMark, Lost, IInv, TypeOK
  <2>6. QED
    BY <1>6, <2>2, <2>3, <2>4, <2>5 DEF Marked, LoseMark, IInv, TypeOK, PollType
<1>7. CASE OpenBell
  BY <1>7 DEF OpenBell, IInv, TypeOK
<1>8. CASE Listed
  <2>1. bell' \in [at : {"idle", "listing"}, by : Somebody, news : BOOLEAN] /\ bell.by \in Somebody
    BY <1>8 DEF Listed, BellIdle, Somebody, IInv, TypeOK
  <2>2. CASE MarkSeen("bell") /\ UNCHANGED poll
    BY <1>8, <2>1, <2>2, MarkSeenInductive DEF Listed, MarkSeen, Scopes, IInv, TypeOK
  <2>3. CASE Refresh(bell.by, user) /\ UNCHANGED <<shown, mark>>
    <3>1. poll' \in PollType
      BY <1>a, <2>1, <2>3, RefreshIsAPoll
    <3>2. QED
      BY <1>8, <2>1, <2>3, <3>1 DEF Listed, IInv, TypeOK, PollType
  <2>4. CASE UNCHANGED <<shown, mark, poll>>
    BY <1>8, <2>1, <2>4 DEF Listed, IInv, TypeOK
  <2>5. QED
    BY <1>8, <2>2, <2>3, <2>4 DEF Listed
<1>9. ASSUME NEW u \in Users, SignIn(u) PROVE IInv'
  <2>1. user' \in Somebody /\ u \in Somebody
    BY <1>9 DEF SignIn, Somebody
  <2>2. poll' \in PollType
    BY <1>9, <1>a, <2>1, RefreshIsAPoll DEF SignIn
  <2>3. QED
    BY <1>9, <2>1, <2>2 DEF SignIn, IInv, TypeOK, PollType
<1>10. CASE SignOut
  <2>1. Count({}) = ZERO
    <3>1. \A s \in Scopes : {} \cap Of(s) = {}
      OBVIOUS
    <3>2. QED
      BY <3>1, FS_EmptySet DEF Count, ZERO
  <2>2. ZERO \in Badges
    BY <2>1, CountsAreBadges
  <2>3. last' \in Badges /\ summary' = last' /\ last' = Count(believed') /\ believed' \subseteq Notes
    BY <1>10, <2>1, <2>2 DEF SignOut
  <2>4. user' \in Somebody
    BY <1>10 DEF SignOut, Somebody
  <2>5. QED
    BY <1>10, <2>3, <2>4 DEF SignOut, IInv, TypeOK
<1>11. CASE Hide
  BY <1>11 DEF Hide, IInv, TypeOK
<1>12. CASE Show
  <2>1. poll' \in PollType
    BY <1>12, <1>a, RefreshIsAPoll DEF Show
  <2>2. QED
    BY <1>12, <2>1 DEF Show, IInv, TypeOK, PollType
<1>13. ASSUME NEW n \in Notes, Arrive(n) \/ Resolve(n) PROVE IInv'
  BY <1>13 DEF Arrive, Resolve, IInv, TypeOK
<1>14. CASE UNCHANGED vars
  BY <1>14 DEF vars, IInv, TypeOK
<1>15. QED
  BY <1>1, <1>2, <1>3, <1>4, <1>5, <1>6, <1>7, <1>8, <1>9, <1>10, <1>11, <1>12, <1>13, <1>14 DEF Next

\* The variables keep their types: the counts of NotificationsContext.tsx are
\* never negative, and the bell's is at least the sum of the other two.
THEOREM TypeCorrect == Spec => []TypeOK
<1>1. IInv => TypeOK
  BY DEF IInv
<1>2. QED
  BY <1>1, InitInductive, StepInductive, PTL DEF Spec

\* What is shown is what is compared with the next poll (lastRef), and counts
\* one set of notifications: what markSeen subtracts is what it has marked.
THEOREM CountsAgree == Spec => [](summary = last /\ last = Count(believed))
<1>1. IInv => summary = last /\ last = Count(believed)
  BY DEF IInv
<1>2. QED
  BY <1>1, InitInductive, StepInductive, PTL DEF Spec

\* More is believed only if the bell counts more.
LEMMA MoreIsMore ==
  ASSUME NEW B \in SUBSET Notes, NEW C \in SUBSET Notes, B \subseteq C, ~(C \subseteq B)
  PROVE  Count(C)["bell"] > Count(B)["bell"]
<1>1. IsFiniteSet(C) /\ C \cap Of("bell") = C /\ B \cap Of("bell") = B
  BY Countable, ScopesPart
<1>2. Cardinality(B) < Cardinality(C)
  <2>1. B \in SUBSET C /\ B # C
    OBVIOUS
  <2>2. Cardinality(B) <= Cardinality(C) /\ Cardinality(B) # Cardinality(C)
    BY <1>1, <2>1, FS_Subset
  <2>3. Cardinality(B) \in Nat /\ Cardinality(C) \in Nat
    BY <1>1, <2>1, FS_Subset, FS_CardinalityType
  <2>4. QED
    BY <2>2, <2>3
<1>3. Count(C)["bell"] = Cardinality(C) /\ Count(B)["bell"] = Cardinality(B)
  BY <1>1 DEF Count, Scopes
<1>4. Cardinality(B) \in Nat /\ Cardinality(C) \in Nat
  BY <1>1, FS_Subset, FS_CardinalityType
<1>5. QED
  BY <1>2, <1>3, <1>4

\* A poll that has come is over with its receipt, and with nothing else.
LEMMA OnlyReceived == ASSUME Next, poll.at = "ok", poll' = NoPoll PROVE Received
<1>1. NoPoll.at = "none"
  BY DEF NoPoll
<1>2. poll # NoPoll
  BY <1>1
<1>3. \A u, whose : ~Refresh(u, whose)
  BY <1>2 DEF Refresh
<1>4. ~UNCHANGED poll
  BY <1>2
<1>5. QED
  BY <1>1, <1>3, <1>4 DEF Next, Poll, Summarise, LosePoll, Activate, Marked, LoseMark, OpenBell, Listed, SignIn, SignOut,
       Hide, Show, Arrive, Resolve

\* A poll that brings something new, and misses nothing that was believed, bumps
\* the version: refresh compares counts, but they are those of what is believed,
\* less what markSeen has taken away (CountsAgree).
THEOREM NewsTold == Spec => NewsIsTold
<1>1. ASSUME IInv, Next, poll.at = "ok", poll' = NoPoll, believed \subseteq poll.notes, ~(poll.notes \subseteq believed)
      PROVE  version' # version
  <2>1. believed \in SUBSET Notes /\ poll.notes \in SUBSET Notes
    BY <1>1 DEF IInv, TypeOK
  <2>2. Count(poll.notes)["bell"] > last["bell"]
    BY <1>1, <2>1, MoreIsMore DEF IInv
  <2>3. version \in BOOLEAN
    BY <1>1 DEF IInv, TypeOK
  <2>4. version' = (version # (Count(poll.notes)["bell"] > last["bell"]))
    BY <1>1, OnlyReceived DEF Received
  <2>5. version' = (version # TRUE)
    BY <2>2, <2>4
  <2>6. QED
    BY <2>3, <2>5, Zenon
<1>2. IInv /\ [Next]_vars =>
        [poll.at = "ok" /\ poll' = NoPoll /\ believed \subseteq poll.notes /\ ~(poll.notes \subseteq believed)
            => version' # version]_vars
  BY <1>1
<1>3. QED
  BY <1>2, InitInductive, StepInductive, PTL DEF Spec, NewsIsTold
=============================================================================
