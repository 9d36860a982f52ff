---------------------------- MODULE CommentLikes ----------------------------
(***************************************************************************)
(* The reactions to one comment, and the notification its author has of    *)
(* the likes among them: one for all that came since it was last seen.     *)
(* A request reads what there is, and commits what follows from it; others *)
(* commit in between.                                                      *)
(* Code: react_to_comment and delete_comment of routers/comments.py,       *)
(* models/comment.py, mark_seen of services/notifications.py.              *)
(***************************************************************************)
EXTENDS Naturals, FiniteSets

CONSTANTS
    Fans,     \* who may react: the author may, too
    Author,
    Puts,     \* the requests under way at once
    MaxPuts,  \* bound: the requests there may ever be
    MaxSeen   \* bound: how often the author looks at the notifications

ASSUME LikesAssumption == Author \in Fans /\ IsFiniteSet(Puts) /\ MaxPuts \in Nat /\ MaxSeen \in Nat

VARIABLES
    exists,     \* whether the comment does
    reactions,  \* its rows: one of a user, by uq_comment_reaction_user
    unread,     \* the notifications comment_liked that were not seen
    puts,       \* react_to_comment
    asked, seen,
    news,       \* history: whose likes have come since the author last looked
    together    \* history: whether two requests had looked for the notification at once

likesVars == <<exists, reactions, unread, puts, asked, seen, news, together>>

Reactions == {"up", "down", "none"}
NoPut == [at |-> "ended", by |-> Author, value |-> "none", existing |-> "none",
          tells |-> FALSE, gone |-> FALSE, beaten |-> FALSE]

LikesInit ==
    /\ exists = TRUE
    /\ reactions = [u \in Fans |-> "none"]
    /\ unread = 0
    /\ puts = [p \in Puts |-> NoPut]
    /\ asked = 0 /\ seen = 0 /\ news = {} /\ together = FALSE

----------------------------------------------------------------------------
Put(p, u, v) ==
    /\ puts[p].at = "ended" /\ exists
    /\ asked < MaxPuts /\ asked' = asked + 1
    /\ puts' = [puts EXCEPT ![p].at = "sent", ![p].by = u, ![p].value = v]
    /\ UNCHANGED <<exists, reactions, unread, seen, news, together>>

BecameLike(value, existing) == value = "up" /\ existing # "up"

\* mutant: those that were seen count, too
AlreadyOnce == unread > 0 \/ seen > 0

Already == unread > 0

\* The comment and the reaction of the user are read.
Look(p) ==
    LET put == puts[p] IN
    /\ put.at = "sent"
    /\ puts' = IF exists THEN [puts EXCEPT ![p].at = "looked", ![p].existing = reactions[put.by]]
               ELSE [puts EXCEPT ![p] = NoPut]
    /\ UNCHANGED <<exists, reactions, unread, asked, seen, news, together>>

IsNews(put) == BecameLike(put.value, put.existing) /\ put.by # Author

\* The notification is looked for.
LookForNotification(p) ==
    /\ puts[p].at = "looked" /\ IsNews(puts[p])
    /\ puts' = [puts EXCEPT ![p].at = "checked", ![p].tells = ~Already]
    /\ together' = (together \/ \E q \in Puts : puts[q].at = "checked")
    /\ UNCHANGED <<exists, reactions, unread, asked, seen, news>>

\* The row is not as it was read: to be added it must not be there, to be
\* changed it must.
Overruled(put) ==
    /\ put.value \notin {"none", put.existing}
    /\ IF put.existing = "none" THEN reactions[put.by] # "none" ELSE put.gone

\* A row that is gone is not removed again, though there is another by now.
Result(put) == IF put.value = put.existing \/ put.gone THEN reactions[put.by] ELSE put.value

\* The row of u was removed: who has read it goes on with it.
Removed(f, u) ==
    [q \in Puts |-> [f[q] EXCEPT !.gone = @ \/ (f[q].at \in {"looked", "checked"} /\ f[q].by = u /\ f[q].existing # "none")]]

CommitReaction(p) ==
    LET put == puts[p]
        over == [puts EXCEPT ![p] = NoPut] IN
    /\ put.at = IF IsNews(put) THEN "checked" ELSE "looked"
    /\ IF ~exists \/ Overruled(put)
       THEN puts' = over /\ UNCHANGED <<reactions, unread, news>>
       ELSE /\ puts' = IF Result(put) = "none" THEN Removed(over, put.by) ELSE over
            /\ reactions' = [reactions EXCEPT ![put.by] = Result(put)]
            /\ unread' = IF put.tells THEN unread + 1 ELSE unread
            /\ news' = IF IsNews(put) /\ ~put.beaten THEN news \cup {put.by} ELSE news
    /\ UNCHANGED <<exists, asked, seen, together>>

\* mark_seen, by the author, from the bell
SeeNotifications ==
    /\ seen < MaxSeen /\ seen' = seen + 1
    /\ unread' = 0 /\ news' = {}
    /\ puts' = [p \in Puts |-> [puts[p] EXCEPT !.beaten = @ \/ puts[p].at = "checked"]]
    /\ UNCHANGED <<exists, reactions, asked, together>>

\* delete_comment: reactions and notifications go with it.
DeleteComment ==
    /\ exists /\ exists' = FALSE
    /\ reactions' = [u \in Fans |-> "none"]
    /\ unread' = 0 /\ news' = {}
    /\ UNCHANGED <<puts, asked, seen, together>>

LikesNext ==
    \/ \E p \in Puts :
          \/ \E u \in Fans, v \in Reactions : Put(p, u, v)
          \/ Look(p) \/ LookForNotification(p) \/ CommitReaction(p)
    \/ SeeNotifications \/ DeleteComment

LikesSpec == LikesInit /\ [][LikesNext]_likesVars

----------------------------------------------------------------------------
\* A like that came since the author last looked is told, unless the author
\* looked while it was under way; and it is told once, whoever else likes the
\* comment, takes a like back or likes it anew, unless requests overlapped.
LikesAreToldOnce ==
    /\ news # {} => unread > 0
    /\ unread > 1 => together
=============================================================================
