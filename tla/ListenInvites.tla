--------------------------- MODULE ListenInvites ---------------------------
(***************************************************************************)
(* "Listening together": a user invites a friend to listen to an album,    *)
(* the friend accepts (both get a draft rating) or declines, each finishes *)
(* by publishing a rating, and the invite is completed when both have.     *)
(* Code: routers/invites.py, services/invite.py, the publish and delete    *)
(* handlers of routers/ratings.py, delete_friendship in                    *)
(* routers/friendships.py, and mark_seen in services/notifications.py.     *)
(*                                                                         *)
(* Every handler here touches rows of one album only (an unfriending       *)
(* touches each album's rows in the same way), so the module follows one   *)
(* album.                                                                  *)
(*                                                                         *)
(* A handler runs on a thread of the server's pool and talks to a READ     *)
(* COMMITTED database, in a session that flushes nothing before its commit.*)
(* So every SELECT is a step of its own, which sees what is committed at   *)
(* that moment, and every commit is one step, which applies all the        *)
(* session's writes or (a constraint fails, or a row to UPDATE is gone)    *)
(* none.  Other threads run between any two steps.                         *)
(***************************************************************************)
EXTENDS FiniteSets, Naturals

CONSTANTS
    Users,        \* the users
    NoUser,       \* the user of a thread that serves no request
    Threads,      \* the pool's threads: how many requests are in flight at once
    TabsPerUser,  \* bound: how many requests one user has in flight at once
    Ops,          \* the handlers that this instance exercises
    Faults        \* may a request die between two steps (a crash, a lost connection)?

AllOps == {"create_invite", "accept", "decline", "cancel", "create_rating",
           "publish", "delete_rating", "remove", "unfriend", "befriend", "mark_seen"}

ASSUME ConstantsAssumption ==
    /\ NoUser \notin Users
    /\ TabsPerUser \in Nat
    /\ Ops \subseteq AllOps
    /\ Faults \in BOOLEAN

VARIABLES
    friendship, \* the friendships row of each couple, "none" when absent
    invites,    \* the listen_invites row of each (sender, receiver), "none" when absent
    ratings,    \* the ratings row of each user, "none" when absent
    notifs,     \* the notifications of this feature
    req,        \* the request each thread serves, with what its session has read
    missed      \* history: the invites that both users' publications have missed: accepted
                \* after both, or their completion was rolled back, or never came to be

db == <<friendship, invites, ratings, notifs, missed>>   \* what is committed
vars == <<friendship, invites, ratings, notifs, req, missed>>

----------------------------------------------------------------------------
(* Rows *)

Pairs == {p \in Users \X Users : p[1] # p[2]}
Sender(p) == p[1]
Receiver(p) == p[2]
Mirror(p) == <<p[2], p[1]>>
Involves(p, u) == u = p[1] \/ u = p[2]
Other(p, u) == IF p[1] = u THEN p[2] ELSE p[1]
Couple(p) == {p[1], p[2]}
Couples == {Couple(p) : p \in Pairs}

\* The unique constraint on (sender, receiver, album) is the domain itself:
\* there is one row for each ordered pair, and nothing stops the mirror row.
FriendshipStatus == {"none", "pending", "accepted"}
InviteStatus == {"none", "pending", "accepted", "completed"}
RatingStatus == {"none", "draft", "published"}

NotificationType == {"listen_invite", "listen_invite_accepted", "friend_published"}

\* "about" is the foreign key invite_id: the set of the one invite row the
\* notification belongs to, or {} once resolve_notifications detached it.
Notification == [to : Users, type : NotificationType,
                 about : {{}} \cup {{p} : p \in Pairs}, read : BOOLEAN]

Note(u, kind, p) == [to |-> u, type |-> kind, about |-> {p}, read |-> FALSE]
Friends(p) == friendship[Couple(p)] = "accepted"
AboutRow(p) == {n \in notifs : n.about = {p}}

\* Notifications are only told apart by their fields: several rows that agree
\* on all of them are one element of notifs.
MarkRead(S) == (notifs \ S) \cup {[n EXCEPT !.read = TRUE] : n \in S}

Published(u) == ratings[u] = "published"
BothPublished(p) == Published(p[1]) /\ Published(p[2])

----------------------------------------------------------------------------
(* Requests *)

Stages == {"idle",
           "check_published", "check_duplicate", "insert_invite", "notify",
           "accept_sender", "accept_receiver", "accept",
           "decline", "cancel", "insert_rating",
           "publish", "read_invites", "read_partners",
           "delete_rating", "remove", "withdraw",
           "read_pair", "unfriend"}

\* The row "live" is about is the friendship here, and the user's rating elsewhere.
UnfriendStages == {"read_pair", "unfriend"}

(***************************************************************************)
(* at      what the handler does next                                      *)
(* by      the user it serves                                              *)
(* pairs   the invites it is about                                         *)
(* held    those whose row it has loaded and which is still there: a row   *)
(*         deleted meanwhile has left, and one inserted again has a new    *)
(*         primary key, which this request does not know                   *)
(* live    the same, for the rating or friendship row it has loaded        *)
(* todo    the invites whose partner it has yet to look up                 *)
(* both    the invites whose partner it has seen published                 *)
(* lacking the users it has seen without a rating                          *)
(***************************************************************************)
Requests == [at : Stages, by : Users \cup {NoUser},
             pairs : SUBSET Pairs, held : SUBSET Pairs, live : BOOLEAN,
             todo : SUBSET Pairs, both : SUBSET Pairs, lacking : SUBSET Users]

Request(u, stage, P, H, loaded) ==
    [at |-> stage, by |-> u, pairs |-> P, held |-> H, live |-> loaded,
     todo |-> {}, both |-> {}, lacking |-> {}]

Idle == Request(NoUser, "idle", {}, {}, FALSE)

At(t, stage) == req[t].at = stage
User(t) == req[t].by
InFlight(u) == {t \in Threads : User(t) = u}

\* Thread t begins to serve u, as r, with a first SELECT.
Serve(t, u, op, r) ==
    /\ op \in Ops /\ At(t, "idle") /\ Cardinality(InFlight(u)) < TabsPerUser
    /\ req' = [req EXCEPT ![t] = r]
    /\ UNCHANGED db
GoTo(t, stage) == req' = [req EXCEPT ![t].at = stage]
Done(t) == req' = [req EXCEPT ![t] = Idle]

\* The invite rows of P are deleted (by request t, which ends or goes on as r):
\* the foreign key cascades to their notifications, and no request finds them.
DeleteInvites(P, t, r) ==
    /\ invites' = [p \in Pairs |-> IF p \in P THEN "none" ELSE invites[p]]
    /\ req' = [x \in Threads |-> IF x = t THEN r
                                 ELSE [req[x] EXCEPT !.held = @ \ P]]
    /\ missed' = missed \ P

Cascade(P) == {n \in notifs : n.about \notin {{p} : p \in P}}

----------------------------------------------------------------------------
Init ==
    /\ friendship \in [Couples -> FriendshipStatus]
    /\ invites = [p \in Pairs |-> "none"]
    /\ ratings \in [Users -> RatingStatus]
    /\ notifs = {}
    /\ req = [t \in Threads |-> Idle]
    /\ missed = {}

----------------------------------------------------------------------------
(* create_invite: three lookups, the insert, and then the notification in a *)
(* second transaction.                                                      *)

StartCreateInvite(t, p) ==
    Friends(p) /\ Serve(t, Sender(p), "create_invite",
        Request(Sender(p), "check_published", {p}, {}, FALSE))

CheckPublished(t) ==
    /\ At(t, "check_published")
    /\ \E p \in req[t].pairs :
         IF Published(Receiver(p)) THEN Done(t) ELSE GoTo(t, "check_duplicate")
    /\ UNCHANGED db

Duplicate(p) == invites[p] # "none" \/ invites[Mirror(p)] # "none"

CheckDuplicate(t) ==
    /\ At(t, "check_duplicate")
    /\ \E p \in req[t].pairs :
         IF Duplicate(p) THEN Done(t) ELSE GoTo(t, "insert_invite")
    /\ UNCHANGED db

InsertInvite(t) ==
    /\ At(t, "insert_invite")
    /\ \E p \in req[t].pairs :
         \/ /\ invites[p] = "none"
            /\ invites' = [invites EXCEPT ![p] = "pending"]
            /\ req' = [req EXCEPT ![t].at = "notify", ![t].held = {p}]
         \/ invites[p] # "none" /\ Done(t) /\ UNCHANGED invites   \* unique constraint
    /\ UNCHANGED <<friendship, ratings, notifs, missed>>

\* Without the row the refresh fails, or the foreign key does: then held is {}.
AnnounceableUnchecked(t) == req[t].pairs   \* mutant: no foreign key
Announceable(t) == req[t].held

NotifyInvite(t) ==
    /\ At(t, "notify")
    /\ notifs' = notifs \cup {Note(Receiver(p), "listen_invite", p) : p \in Announceable(t)}
    /\ Done(t)
    /\ UNCHANGED <<friendship, invites, ratings, missed>>

----------------------------------------------------------------------------
(* accept_invite: the invite, the two ratings, one commit *)

AnsweredOrNot(p) == invites[p] # "none"   \* mutant: it may have been answered
AwaitsAnswer(p) == invites[p] = "pending"

StartAccept(t, p) ==
    AwaitsAnswer(p) /\ Serve(t, Receiver(p), "accept",
        Request(Receiver(p), "accept_sender", {p}, {p}, FALSE))

LookUpRating(t, u, next) ==
    req' = [req EXCEPT ![t].at = next,
                       ![t].lacking = IF ratings[u] = "none" THEN @ \cup {u} ELSE @]

\* Mutant: only the receiver is given a draft.
SkipSenderRating(t) ==
    /\ At(t, "accept_sender") /\ GoTo(t, "accept_receiver")
    /\ UNCHANGED db

ReadSenderRating(t) ==
    /\ At(t, "accept_sender")
    /\ \E p \in req[t].pairs : LookUpRating(t, Sender(p), "accept_receiver")
    /\ UNCHANGED db

ReadReceiverRating(t) ==
    /\ At(t, "accept_receiver")
    /\ \E p \in req[t].pairs : LookUpRating(t, Receiver(p), "accept")
    /\ UNCHANGED db

\* The drafts can be inserted: the unique constraint on (username, album).
DraftsUnchecked(t) == TRUE   \* mutant: a draft replaces what is there
DraftsFit(t) == \A u \in req[t].lacking : ratings[u] = "none"

AnsweredByNone(t, p) == {}   \* mutant: accepting resolves no notification
AnsweredBy(t, p) == {n \in AboutRow(p) : n.to = User(t) /\ n.type = "listen_invite"}

\* The UPDATE is by primary key: it does not ask whether the row is still pending.
CommitAccept(t) ==
    /\ At(t, "accept")
    /\ \E p \in req[t].pairs :
         \/ /\ p \in req[t].held
            /\ DraftsFit(t)
            /\ invites' = [invites EXCEPT ![p] = "accepted"]
            /\ ratings' = [u \in Users |-> IF u \in req[t].lacking THEN "draft" ELSE ratings[u]]
            /\ notifs' = MarkRead(AnsweredBy(t, p)) \cup {Note(Sender(p), "listen_invite_accepted", p)}
            /\ missed' = IF BothPublished(p) THEN missed \cup {p} ELSE missed
         \/ \* the invite row is gone, or a rating has appeared: nothing is written
            /\ ~(p \in req[t].held /\ DraftsFit(t))
            /\ UNCHANGED <<invites, ratings, notifs, missed>>
    /\ Done(t)
    /\ UNCHANGED friendship

----------------------------------------------------------------------------
(* decline_invite, cancel_invite *)

StartDecline(t, p) ==
    AwaitsAnswer(p) /\ Serve(t, Receiver(p), "decline",
        Request(Receiver(p), "decline", {p}, {p}, FALSE))

\* resolve_notifications keeps what the cascade would delete: detached, and read.
Resolved(S) == (notifs \ S) \cup {[n EXCEPT !.about = {}, !.read = TRUE] : n \in S}

CommitDecline(t) ==
    /\ At(t, "decline")
    /\ notifs' = Resolved(UNION {AboutRow(p) : p \in req[t].held})
    /\ DeleteInvites(req[t].held, t, Idle)
    /\ UNCHANGED <<friendship, ratings>>

StartCancel(t, p) ==
    AwaitsAnswer(p) /\ Serve(t, Sender(p), "cancel",
        Request(Sender(p), "cancel", {p}, {p}, FALSE))

CommitCancel(t) ==
    /\ At(t, "cancel")
    /\ notifs' = Cascade(req[t].held)
    /\ DeleteInvites(req[t].held, t, Idle)
    /\ UNCHANGED <<friendship, ratings>>

----------------------------------------------------------------------------
(* create_rating *)

StartCreateRating(t, u) ==
    ratings[u] = "none" /\ Serve(t, u, "create_rating",
        Request(u, "insert_rating", {}, {}, FALSE))

InsertRating(t) ==
    /\ At(t, "insert_rating")
    /\ ratings' = [ratings EXCEPT ![User(t)] = IF @ = "none" THEN "draft" ELSE @]
    /\ Done(t)
    /\ UNCHANGED <<friendship, invites, notifs, missed>>

----------------------------------------------------------------------------
(* publish_rating: the status, then the dashboards (which touch none of these *)
(* rows: FriendDashboard models them), and then, unless one of them failed,   *)
(* maybe_complete_invites_for_rating in a transaction of its own.             *)

StartPublish(t, u) ==
    ratings[u] = "draft" /\ Serve(t, u, "publish",
        Request(u, "publish", {}, {}, TRUE))

CommitPublish(t) ==
    /\ At(t, "publish")
    /\ \/ /\ req[t].live
          /\ ratings' = [ratings EXCEPT ![User(t)] = "published"]
          /\ GoTo(t, "read_invites")
       \/ ~req[t].live /\ Done(t) /\ UNCHANGED ratings
    /\ UNCHANGED <<friendship, invites, notifs, missed>>

\* Thread t is about to complete p: it has yet to read the invites of its user,
\* or it holds p and has yet to look at the partner, or has seen it published.
Completes(t, p) ==
    /\ Involves(p, User(t))
    /\ \/ At(t, "read_invites")
       \/ At(t, "read_partners") /\ p \in req[t].held /\ p \in req[t].todo \cup req[t].both

Owes(p) == invites[p] = "accepted" /\ BothPublished(p)

\* What nobody is left to complete without thread t: publishing again is refused.
LeftOut(t) == {p \in Pairs : Owes(p) /\ \A x \in Threads : Completes(x, p) <=> x = t}

\* A rebuild of the dashboards raises (two of them insert the same row, see
\* FriendDashboard): the request ends before it has looked at the invites.
RebuildFails(t) ==
    /\ At(t, "read_invites")
    /\ missed' = missed \cup LeftOut(t)
    /\ Done(t)
    /\ UNCHANGED <<friendship, invites, ratings, notifs>>

SharedListensPending(u) ==   \* mutant: pending invites are not passed over
    {p \in Pairs : Involves(p, u) /\ invites[p] \in {"pending", "accepted"}}
SharedListensSent(u) ==      \* mutant: only the invites the user has sent
    {p \in Pairs : Sender(p) = u /\ invites[p] = "accepted"}
SharedListens(u) == {p \in Pairs : Involves(p, u) /\ invites[p] = "accepted"}

\* Reloads the committed rating first, for its album_id, which fails when the
\* row is gone.
ReadInvites(t) ==
    LET shared == SharedListens(User(t)) IN
    /\ At(t, "read_invites")
    /\ IF req[t].live /\ shared # {}
       THEN req' = [req EXCEPT ![t].at = "read_partners", ![t].pairs = shared,
                               ![t].held = shared, ![t].todo = shared]
       ELSE Done(t)
    /\ UNCHANGED db

ReadPartner(t) ==
    /\ At(t, "read_partners")
    /\ \E p \in req[t].todo :
         req' = [req EXCEPT ![t].todo = @ \ {p},
                            ![t].both = IF Published(Other(p, User(t))) THEN @ \cup {p} ELSE @]
    /\ UNCHANGED db

\* One commit for all the invites: each has a notification that refers to it,
\* so a single row gone undoes the completion of the others.
CommitCompletion(t) ==
    /\ At(t, "read_partners") /\ req[t].todo = {}
    /\ \/ /\ req[t].pairs \subseteq req[t].held
          /\ invites' = [p \in Pairs |-> IF p \in req[t].both THEN "completed" ELSE invites[p]]
          /\ notifs' = notifs \cup {Note(Other(p, User(t)), "friend_published", p) : p \in req[t].pairs}
          /\ UNCHANGED missed
       \/ /\ ~(req[t].pairs \subseteq req[t].held)
          /\ missed' = missed \cup (req[t].both \cap req[t].held)
          /\ UNCHANGED <<invites, notifs>>
    /\ Done(t)
    /\ UNCHANGED <<friendship, ratings>>

----------------------------------------------------------------------------
(* delete_rating and remove_from_listen_later: the rating, then the accepted *)
(* invites in a second transaction (withdraw_from_accepted_invite).          *)

StartDeleteRating(t, u) ==
    ratings[u] # "none" /\ Serve(t, u, "delete_rating",
        Request(u, "delete_rating", {}, {}, TRUE))

StartRemove(t, u) ==
    ratings[u] = "draft" /\ Serve(t, u, "remove",
        Request(u, "remove", {}, {}, TRUE))

SameRating(x, t) == User(x) = User(t) /\ req[x].at \notin UnfriendStages

\* Deleting a row that is gone already is no error: the handler goes on.
DeleteRow(t, stage) ==
    /\ At(t, stage)
    /\ ratings' = [ratings EXCEPT ![User(t)] = IF req[t].live THEN "none" ELSE @]
    /\ req' = [x \in Threads |->
                 IF x = t THEN [req[x] EXCEPT !.at = "withdraw", !.live = FALSE]
                 ELSE [req[x] EXCEPT !.live = @ /\ ~(req[t].live /\ SameRating(x, t))]]
    /\ missed' = {p \in missed : ~(req[t].live /\ Involves(p, User(t)))}
    /\ UNCHANGED <<friendship, invites, notifs>>

CommitDeleteRating(t) == DeleteRow(t, "delete_rating")
CommitRemove(t) == DeleteRow(t, "remove")

WithdrawnAll(u) == {p \in Pairs : Involves(p, u) /\ invites[p] # "none"}   \* mutant: any status
Withdrawn(u) == {p \in Pairs : Involves(p, u) /\ invites[p] = "accepted"}

Withdraw(t) ==
    LET mine == Withdrawn(User(t)) IN
    /\ At(t, "withdraw")
    /\ notifs' = Cascade(mine)
    /\ DeleteInvites(mine, t, Idle)
    /\ UNCHANGED <<friendship, ratings>>

----------------------------------------------------------------------------
(* delete_friendship: the friendship, the pair's invites, one commit *)

StartUnfriend(t, p) ==
    friendship[Couple(p)] # "none" /\ Serve(t, p[1], "unfriend",
        Request(p[1], "read_pair", {p, Mirror(p)}, {}, TRUE))

InvitesSent(t) == {p \in req[t].pairs : Sender(p) = User(t) /\ invites[p] # "none"}   \* mutant: one direction
InvitesBetween(t) == {p \in req[t].pairs : invites[p] # "none"}

ReadPairInvites(t) ==
    /\ At(t, "read_pair")
    /\ req' = [req EXCEPT ![t].at = "unfriend",
                          ![t].held = InvitesBetween(t)]
    /\ UNCHANGED db

SameFriendship(x, c) == req[x].at \in UnfriendStages /\ \E p \in req[x].pairs : Couple(p) = c

CommitUnfriend(t) ==
    LET couples == IF req[t].live THEN {Couple(p) : p \in req[t].pairs} ELSE {} IN
    /\ At(t, "unfriend")
    /\ friendship' = [c \in Couples |-> IF c \in couples THEN "none" ELSE friendship[c]]
    /\ invites' = [p \in Pairs |-> IF p \in req[t].held THEN "none" ELSE invites[p]]
    /\ notifs' = Cascade(req[t].held)
    /\ req' = [x \in Threads |->
                 IF x = t THEN Idle
                 ELSE [req[x] EXCEPT !.held = @ \ req[t].held,
                                     !.live = @ /\ \A c \in couples : ~SameFriendship(x, c)]]
    /\ missed' = missed \ req[t].held
    /\ UNCHANGED ratings

----------------------------------------------------------------------------
(* The rest of the application, one commit each: friend requests, and a badge *)
(* that is cleared.                                                           *)

Befriend(c) ==
    /\ "befriend" \in Ops
    /\ \/ friendship[c] = "none" /\ friendship' = [friendship EXCEPT ![c] = "pending"]
       \/ friendship[c] = "pending" /\ friendship' = [friendship EXCEPT ![c] = "accepted"]
    /\ UNCHANGED <<invites, ratings, notifs, req, missed>>

DeclineFriend(c) ==
    /\ "befriend" \in Ops
    /\ friendship[c] = "pending"
    /\ friendship' = [friendship EXCEPT ![c] = "none"]
    /\ req' = [x \in Threads |-> [req[x] EXCEPT !.live = @ /\ ~SameFriendship(x, c)]]
    /\ UNCHANGED <<invites, ratings, notifs, missed>>

\* Prunes what was read before (the rows past READ_RETENTION, by an order the
\* model does not keep: any of them), then marks the scope's rows read.
MarkSeen(u, types) ==
    LET seen == {n \in notifs : n.to = u /\ ~n.read /\ n.type \in types} IN
    /\ "mark_seen" \in Ops
    /\ \E stale \in SUBSET {n \in notifs : n.to = u /\ n.read} :
         notifs' = (notifs \ (seen \cup stale)) \cup {[n EXCEPT !.read = TRUE] : n \in seen}
    /\ UNCHANGED <<friendship, invites, ratings, req, missed>>

\* A request dies between two transactions or before its commit: the session
\* is rolled back.
Fail(t) ==
    /\ Faults
    /\ ~At(t, "idle")
    /\ Done(t)
    /\ UNCHANGED db

----------------------------------------------------------------------------
Start(t) ==
    \/ \E p \in Pairs : \/ StartCreateInvite(t, p) \/ StartAccept(t, p)
                        \/ StartDecline(t, p)      \/ StartCancel(t, p)
                        \/ StartUnfriend(t, p)
    \/ \E u \in Users : \/ StartCreateRating(t, u) \/ StartPublish(t, u)
                        \/ StartDeleteRating(t, u) \/ StartRemove(t, u)

\* The steps the server takes once it has begun a request.
Continue(t) ==
    \/ CheckPublished(t)   \/ CheckDuplicate(t)     \/ InsertInvite(t) \/ NotifyInvite(t)
    \/ ReadSenderRating(t) \/ ReadReceiverRating(t) \/ CommitAccept(t)
    \/ CommitDecline(t)    \/ CommitCancel(t)       \/ InsertRating(t)
    \/ CommitPublish(t)    \/ RebuildFails(t)     \/ ReadInvites(t)
    \/ ReadPartner(t)      \/ CommitCompletion(t)
    \/ CommitDeleteRating(t) \/ CommitRemove(t)     \/ Withdraw(t)
    \/ ReadPairInvites(t)  \/ CommitUnfriend(t)

Next ==
    \/ \E t \in Threads : Start(t) \/ Continue(t) \/ Fail(t)
    \/ \E c \in Couples : Befriend(c) \/ DeclineFriend(c)
    \/ \E u \in Users : MarkSeen(u, {"listen_invite"}) \/ MarkSeen(u, NotificationType)

Spec == Init /\ [][Next]_vars

\* A thread that has begun a request goes on with it; nobody has to send one.
FairSpec == Spec /\ \A t \in Threads : WF_vars(Continue(t))

----------------------------------------------------------------------------
(* Properties that hold whatever is interleaved, with any number of tabs and *)
(* with requests that die.                                                   *)

TypeOK ==
    /\ friendship \in [Couples -> FriendshipStatus]
    /\ invites \in [Pairs -> InviteStatus]
    /\ ratings \in [Users -> RatingStatus]
    /\ notifs \in SUBSET Notification
    /\ req \in [Threads -> Requests]
    /\ missed \in SUBSET Pairs

\* As long as nobody answered an invite, the only notification that refers to
\* it is the one that announces it to the receiver: nobody is told of an
\* acceptance, or of a friend who finished, in a shared listen that does not
\* exist, although publish_rating writes its notifications from a list of
\* invites it read earlier, and an invite deleted meanwhile may be back.
PendingIsQuiet ==
    \A n \in notifs : \A p \in Pairs :
        n.about = {p} /\ invites[p] = "pending" => n.type = "listen_invite" /\ n.to = Receiver(p)

\* A notification never outlives the invite it refers to, however late it is
\* written: it is deleted with it, or detached from it when it is declined.
NoDanglingNotification ==
    \A n \in notifs : \A p \in Pairs : n.about = {p} => invites[p] # "none"

PublishedKept ==
    \A u \in Users : ratings[u] = "published" =>
        \/ ratings'[u] = "published"
        \/ \E t \in Threads : User(t) = u /\ req[t].at \in {"delete_rating", "remove"}

\* A published rating stays published until its owner deletes it: a friend who
\* accepts an invite never puts the owner back to a draft (accept_invite adds
\* drafts for both from an earlier look at their ratings).
PublishedStays == [][PublishedKept]_vars

PendingKept ==
    \A p \in Pairs : invites[p] = "pending" /\ invites'[p] # "pending" =>
        \E t \in Threads :
           \/ User(t) = Receiver(p) /\ req[t].at \in {"accept", "decline"}
           \/ User(t) = Sender(p) /\ At(t, "cancel")
           \/ User(t) \in Couple(p) /\ At(t, "unfriend")

\* A pending invite is a durable record: only the answer of the receiver, the
\* withdrawal of the sender and the end of the friendship remove it, never the
\* removal of a rating (docstring of withdraw_from_accepted_invite).
PendingIsDurable == [][PendingKept]_vars

CompletionJustified ==
    \A p \in Pairs : invites[p] # "completed" /\ invites'[p] = "completed" =>
        /\ invites[p] = "accepted"
        /\ \E t \in Threads : Involves(p, User(t)) /\ p \in req[t].both

\* Completion only ever follows an acceptance, and is decided by a user who has
\* seen the partner published.
CompletionIsEarned == [][CompletionJustified]_vars

\* What makes them inductive: what a request holds is there, belongs to the
\* invites it is about, and to the user it serves; and the invites that a
\* publication is about to complete were accepted, and are not pending again.
Consistent(r) ==
    /\ r.held \subseteq r.pairs
    /\ r.both \subseteq r.pairs
    /\ r.todo \subseteq r.pairs
    /\ r.at # "read_partners" => r.both = {}
    /\ \A p \in r.held : invites[p] # "none"
    /\ \A p \in r.pairs :
          /\ r.at \in {"accept_sender", "accept_receiver", "accept", "decline"} => r.by = Receiver(p)
          /\ r.at = "cancel" => r.by = Sender(p)
          /\ r.at \in UnfriendStages => r.by \in Couple(p)
          /\ r.at = "read_partners" => Involves(p, r.by)
    /\ r.at = "read_partners" => \A p \in r.held : invites[p] \in {"accepted", "completed"}

RequestsConsistent == \A t \in Threads : Consistent(req[t])

IInv == TypeOK /\ RequestsConsistent /\ PendingIsQuiet /\ NoDanglingNotification

----------------------------------------------------------------------------
(* Properties of users who each work in one tab. *)

\* The life of an invite only goes forward.  With two tabs it does not: the
\* second of two acceptances, both checked, turns a completed invite back.
StatusForward ==
    [][\A p \in Pairs :
          /\ invites[p] = "completed" => invites'[p] \in {"completed", "none"}
          /\ invites[p] = "accepted" => invites'[p] # "pending"]_vars

\* A user who has removed the rating, and is about to leave the listens.
Leaving(u) == \E t \in Threads : User(t) = u /\ At(t, "withdraw")

\* What was read earlier does no harm then: the rows change as SharedListen says,
\* one partner at a time.  With two tabs they do not: an answer may be given
\* twice.
Shared == INSTANCE SharedListen WITH leaving <- {u \in Users : Leaving(u)}
ImplementsSharedListen == Shared!Spec

Completing(u) == \E t \in Threads : User(t) = u /\ req[t].at \in {"read_invites", "read_partners"}

\* When both partners of an accepted invite have published, one of them is
\* about to complete it, unless it was accepted after the second publication
\* (AcceptIsInTime is about those), or the last of them that would complete it
\* failed in a rebuild of the dashboards, or was rolled back for another invite
\* that is gone: of two concurrent publications, each may miss the other's
\* rating, but not both.
CompletionNotLost ==
    \A p \in Pairs :
        invites[p] = "accepted" /\ BothPublished(p) =>
            p \in missed \/ Completing(Sender(p)) \/ Completing(Receiver(p))

\* ... and so the shared listen is completed, or somebody ends it.
CompletionHappens ==
    \A p \in Pairs :
        invites[p] = "accepted" /\ BothPublished(p)
            ~> p \in missed \/ invites[p] # "accepted" \/ ~BothPublished(p)

----------------------------------------------------------------------------
(* Properties of requests served one after the other, between two requests. *)

Quiet == \A t \in Threads : At(t, "idle")

\* Both partners of a shared listen have a rating, draft or published, so that
\* the album is in both Listen Laters (comment in accept_invite).
SharedListenIsShared ==
    Quiet => \A p \in Pairs :
        invites[p] = "accepted" => ratings[Sender(p)] # "none" /\ ratings[Receiver(p)] # "none"

\* The Listen Later badge counts unread invites: each of them awaits an answer.
BadgeIsHonest ==
    Quiet => \A n \in notifs : n.type = "listen_invite" /\ ~n.read =>
        \E p \in Pairs : n.about = {p} /\ invites[p] = "pending"

\* "No duplicate invite between this pair for this album, either direction":
\* served at the same time, two friends who invite each other both pass the check.
OneInvitePerCouple ==
    \A p \in Pairs : invites[p] = "none" \/ invites[Mirror(p)] = "none"

\* Invites are between friends: a severed friendship leaves none behind.
NoStrayInvite ==
    Quiet => \A p \in Pairs : invites[p] # "none" => Friends(p)

\* Removing an album from Listen Later leaves a published rating alone
\* (docstring of remove_from_listen_later).
RemoveSparesPublished ==
    [][\A u \in Users : ratings[u] = "published" /\ ratings'[u] = "none" =>
          \E t \in Threads : User(t) = u /\ At(t, "delete_rating")]_vars

\* "If the other party has also published, this publish completes the shared
\* listen" (services/invite.py).  It does not hold: accept_invite does not look.
AcceptIsInTime == Quiet => \A p \in Pairs : ~(invites[p] = "accepted" /\ BothPublished(p))
=============================================================================
