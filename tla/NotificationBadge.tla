------------------------- MODULE NotificationBadge -------------------------
(***************************************************************************)
(* The badges of the navigation bar: how many unread notifications the     *)
(* user has, as one browser tab knows it from a poll every 25 seconds,     *)
(* from its own marking of notifications as seen, and from the bell.       *)
(* Code: context/NotificationsContext.tsx, components/NotificationBell.tsx,*)
(* components/NavBar.tsx; the endpoints of routers/notifications.py over   *)
(* services/notifications.py.                                              *)
(*                                                                         *)
(* A step is a handler up to its first await, or what follows an await; a  *)
(* marking is served and answered in one step, since polls and clicks come *)
(* at any time anyway.                                                     *)
(***************************************************************************)
EXTENDS Integers, FiniteSets

CONSTANTS
    Users,
    None,
    Notes,       \* the notifications that will ever be written (a bound)
    Recipient,   \* whose each is
    Scope,       \* the badge each counts in besides the bell's, or "bell"
    MaxFaults    \* bound: how many requests are lost

Scopes == {"bell", "listen_invites", "friend_requests"}

ASSUME ConstantsAssumption ==
    /\ None \notin Users
    /\ IsFiniteSet(Notes)
    /\ Recipient \in [Notes -> Users]
    /\ Scope \in [Notes -> Scopes]
    /\ MaxFaults \in Nat

VARIABLES
    written,   \* the notifications written so far
    unread,    \* those nobody has read
    user,      \* who is signed in
    visible,   \* whether the tab is
    summary,   \* the counts that are shown
    last,      \* lastRef
    version,   \* only whether it changes matters
    poll,      \* the refresh under way: inFlightRef is its being there
    mark,      \* the mark-seen request of each scope under way
    bell,      \* the opening of the bell under way
    faults,    \* how many requests have been lost
    believed   \* history: the notifications the counts in last stand for

vars == <<written, unread, user, visible, summary, last, version, poll, mark, bell, faults, believed>>
server == <<written, unread>>
shown == <<summary, last, version, believed>>

----------------------------------------------------------------------------
Of(scope) == {n \in Notes : scope \in {"bell", Scope[n]}}
Count(S) == [s \in Scopes |-> Cardinality(S \cap Of(s))]
Unread(u) == {n \in unread : Recipient[n] = u}
ZERO == [s \in Scopes |-> 0]

NoPoll == [at |-> "none", by |-> None, notes |-> {}]
NoMark == [at |-> "none", by |-> None]
BellIdle == [at |-> "idle", by |-> None, news |-> FALSE]

Init ==
    /\ written \in SUBSET Notes /\ unread \in SUBSET written
    /\ user = None /\ visible = TRUE
    /\ summary = ZERO /\ last = ZERO
    /\ version = FALSE
    /\ poll = NoPoll
    /\ mark = [s \in Scopes |-> NoMark]
    /\ bell = BellIdle
    /\ faults = 0
    /\ believed = {}

Lost == faults < MaxFaults /\ faults' = faults + 1

----------------------------------------------------------------------------
(* refresh *)

\* The refresh that u's rendering made, in the session of whoever is signed in
\* now.  One at a time: who asks for a second one does without.
Refresh(u, whose) ==
    poll' = IF u = None \/ poll # NoPoll THEN poll ELSE [NoPoll EXCEPT !.at = "sent", !.by = whose]

\* The interval: the poll of a tab in the background is pure server load.
Poll ==
    /\ user # None /\ visible /\ poll = NoPoll
    /\ Refresh(user, user)
    /\ UNCHANGED <<server, user, visible, shown, mark, bell, faults>>

Summarise ==
    /\ poll.at = "sent" /\ poll.by # None
    /\ poll' = [poll EXCEPT !.at = "ok", !.notes = Unread(poll.by)]
    /\ UNCHANGED <<server, user, visible, shown, mark, bell, faults>>

BlipKeepsFlag == poll' = [poll EXCEPT !.at = "failed"]   \* mutant: inFlightRef is reset on success only
Blip == poll' = NoPoll

\* "Keep the old summary; the next poll will retry."  One that nobody is
\* signed in for is refused.
LosePoll ==
    /\ poll.at = "sent"
    /\ IF poll.by = None THEN UNCHANGED faults ELSE Lost
    /\ Blip
    /\ UNCHANGED <<server, user, visible, shown, mark, bell>>

\* An increase means that something new arrived, and the pages that show what
\* notifications are about load it again.
Received ==
    /\ poll.at = "ok"
    /\ LET next == Count(poll.notes) IN
        /\ version' = (version # (next["bell"] > last["bell"]))
        /\ last' = next
        /\ summary' = next
    /\ believed' = poll.notes
    /\ poll' = NoPoll
    /\ UNCHANGED <<server, user, visible, mark, bell, faults>>

----------------------------------------------------------------------------
(* markSeen *)

\* Mutant: of the badges, only the bell's is cleared with it.
WithoutBellOnly(c, scope) ==
    IF scope = "bell" THEN [c EXCEPT !["bell"] = 0] ELSE [c EXCEPT ![scope] = 0, !["bell"] = @ - c[scope]]

Without(c, scope) ==
    IF scope = "bell" THEN ZERO ELSE [c EXCEPT ![scope] = 0, !["bell"] = @ - c[scope]]

\* Mutant: the counts that the next poll compares with stay behind.
ClearSummary(scope) == summary' = Without(last, scope) /\ UNCHANGED last

\* The badge is cleared at once, and lastRef is kept in step.
Clear(scope) ==
    /\ last' = Without(last, scope)
    /\ summary' = last'

\* (A second request of a scope, while its first is under way, is left out.)
MarkSeen(scope) ==
    /\ user # None /\ mark[scope] = NoMark
    /\ Clear(scope)
    /\ believed' = believed \ Of(scope)
    /\ mark' = [mark EXCEPT ![scope] = [at |-> "sent", by |-> user]]
    /\ UNCHANGED version

\* The links to Listen Later and to the friends, and the arrival at the latter.
Activate(scope) ==
    /\ scope # "bell" /\ summary[scope] > 0
    /\ MarkSeen(scope)
    /\ UNCHANGED <<server, user, visible, poll, bell, faults>>

Seen(scope) == unread' = unread \ (Unread(mark[scope].by) \cap Of(scope))

\* The marking by the bell is followed by a refresh, ...
Marked(scope) ==
    /\ mark[scope] # NoMark
    /\ Seen(scope)
    /\ mark' = [mark EXCEPT ![scope] = NoMark]
    /\ IF scope = "bell" THEN Refresh(mark[scope].by, user) ELSE UNCHANGED poll
    /\ UNCHANGED <<written, user, visible, shown, bell, faults>>

\* ... and so is any that fails, before or after it has been served.
LoseMark(scope) ==
    /\ mark[scope] # NoMark /\ Lost
    /\ Seen(scope) \/ UNCHANGED unread
    /\ mark' = [mark EXCEPT ![scope] = NoMark]
    /\ Refresh(mark[scope].by, user)
    /\ UNCHANGED <<written, user, visible, shown, bell>>

----------------------------------------------------------------------------
(* The bell *)

\* Opening it fetches the list; whether there is something to mark is what
\* the badge said then.
OpenBell ==
    /\ user # None /\ bell = BellIdle
    /\ bell' = [at |-> "listing", by |-> user, news |-> summary["bell"] > 0]
    /\ UNCHANGED <<server, user, visible, shown, poll, mark, faults>>

\* Whether the list came or not (another marking by the bell under way is left
\* out, and so is a user who has left meanwhile).
Listed ==
    /\ bell.at = "listing"
    /\ bell' = BellIdle
    /\ \/ bell.news /\ bell.by = user /\ MarkSeen("bell") /\ UNCHANGED poll
       \/ ~bell.news /\ Refresh(bell.by, user) /\ UNCHANGED <<shown, mark>>
       \/ bell.news /\ (bell.by # user \/ mark["bell"] # NoMark) /\ UNCHANGED <<shown, mark, poll>>
    /\ UNCHANGED <<server, user, visible, faults>>

----------------------------------------------------------------------------
(* The session and the tab, and what others do *)

SignIn(u) ==
    /\ user = None
    /\ user' = u
    /\ Refresh(u, u)
    /\ UNCHANGED <<server, visible, shown, mark, bell, faults>>

\* What is under way is not given up.
SignOut ==
    /\ user # None
    /\ user' = None
    /\ summary' = ZERO /\ last' = ZERO /\ believed' = {}
    /\ UNCHANGED <<server, visible, version, poll, mark, bell, faults>>

Hide ==
    /\ visible
    /\ visible' = FALSE
    /\ UNCHANGED <<server, user, shown, poll, mark, bell, faults>>

Show ==
    /\ ~visible
    /\ visible' = TRUE
    /\ Refresh(user, user)
    /\ UNCHANGED <<server, user, shown, mark, bell, faults>>

Arrive(n) ==
    /\ n \in Notes \ written
    /\ written' = written \cup {n}
    /\ unread' = unread \cup {n}
    /\ UNCHANGED <<user, visible, shown, poll, mark, bell, faults>>

\* What it is about is answered, or withdrawn by its sender.
Resolve(n) ==
    /\ n \in unread
    /\ unread' = unread \ {n}
    /\ UNCHANGED <<written, user, visible, shown, poll, mark, bell, faults>>

----------------------------------------------------------------------------
Next ==
    \/ Poll \/ Summarise \/ LosePoll \/ Received
    \/ \E s \in Scopes : Activate(s) \/ Marked(s) \/ LoseMark(s)
    \/ OpenBell \/ Listed
    \/ \E u \in Users : SignIn(u)
    \/ SignOut \/ Hide \/ Show
    \/ \E n \in Notes : Arrive(n) \/ Resolve(n)

Spec == Init /\ [][Next]_vars

\* The interval keeps ticking, requests are answered or run out of time (thirty
\* seconds), and so the handlers that wait for them go on.
FairSpec ==
    /\ Spec
    /\ WF_vars(Poll) /\ WF_vars(Summarise \/ LosePoll) /\ WF_vars(Received)
    /\ \A s \in Scopes : WF_vars(Marked(s) \/ LoseMark(s))
    /\ WF_vars(Listed)

----------------------------------------------------------------------------
Badges == {c \in [Scopes -> 0..Cardinality(Notes)] : c["bell"] >= c["listen_invites"] + c["friend_requests"]}
Somebody == Users \cup {None}

\* The bell's badge counts at least what the other two do.
TypeOK ==
    /\ unread \subseteq written /\ written \subseteq Notes
    /\ user \in Somebody
    /\ visible \in BOOLEAN /\ version \in BOOLEAN
    /\ summary \in Badges /\ last \in Badges
    /\ poll \in [at : {"none", "sent", "ok"}, by : Somebody, notes : SUBSET Notes]
    /\ mark \in [Scopes -> [at : {"none", "sent"}, by : Somebody]]
    /\ bell \in [at : {"idle", "listing"}, by : Somebody, news : BOOLEAN]
    /\ faults \in 0..MaxFaults
    /\ believed \subseteq Notes

\* A poll that brings something new bumps the version, whatever has been marked
\* as seen or lost since the one before (comment in markSeen) - unless
\* something the counts stood for was taken away elsewhere, which hides it.
NewsIsTold ==
    [][poll.at = "ok" /\ poll' = NoPoll /\ believed \subseteq poll.notes /\ ~(poll.notes \subseteq believed)
          => version' # version]_vars

\* Whatever polls, markings, failures and sessions have overlapped, the badges
\* of a visible tab come to say what the server has.
BadgeCatchesUp == []<>(user = None \/ ~visible \/ summary = Count(Unread(user)))
=============================================================================
