------------------------ MODULE ListenInvitesProofs ------------------------
(* Proofs about ListenInvites, for any users, threads and tabs. *)
EXTENDS ListenInvites, FiniteSetTheorems, TLAPS

LEMMA PairFacts ==
    ASSUME NEW p \in Pairs
    PROVE  /\ p[1] \in Users /\ p[2] \in Users
           /\ Mirror(p) \in Pairs
           /\ Couple(p) \in Couples
BY DEF Pairs, Mirror, Couple, Couples

LEMMA RequestType ==
    ASSUME NEW u \in Users, NEW s \in Stages, NEW P \in SUBSET Pairs,
           NEW H \in SUBSET Pairs, NEW b \in BOOLEAN
    PROVE  Request(u, s, P, H, b) \in Requests
BY DEF Request, Requests

LEMMA IdleType == Idle \in Requests
BY DEF Idle, Request, Requests, Stages

LEMMA NoteType ==
    ASSUME NEW u \in Users, NEW k \in NotificationType, NEW p \in Pairs
    PROVE  Note(u, k, p) \in Notification
BY DEF Note, Notification

LEMMA ServeType ==
    ASSUME TypeOK, NEW t \in Threads, NEW u, NEW op, NEW r \in Requests, Serve(t, u, op, r)
    PROVE  TypeOK'
BY DEF TypeOK, Serve, db

LEMMA StartType ==
    ASSUME TypeOK, NEW t \in Threads, Start(t)
    PROVE  TypeOK'
<1>1. ASSUME NEW p \in Pairs,
             \/ StartCreateInvite(t, p) \/ StartAccept(t, p)
             \/ StartDecline(t, p)      \/ StartCancel(t, p)
             \/ StartUnfriend(t, p)
      PROVE  TypeOK'
  <2>1. {p} \in SUBSET Pairs /\ {p, Mirror(p)} \in SUBSET Pairs /\ Sender(p) \in Users /\ Receiver(p) \in Users
    BY PairFacts DEF Sender, Receiver
  <2>2. {"check_published", "accept_sender", "decline", "cancel", "read_pair"} \subseteq Stages
    BY DEF Stages
  <2>3. CASE StartCreateInvite(t, p)
    <3>1. Request(Sender(p), "check_published", {p}, {}, FALSE) \in Requests
      BY <2>1, <2>2, RequestType
    <3> QED BY <2>3, <3>1, ServeType DEF StartCreateInvite
  <2>4. CASE StartAccept(t, p)
    <3>1. Request(Receiver(p), "accept_sender", {p}, {p}, FALSE) \in Requests
      BY <2>1, <2>2, RequestType
    <3> QED BY <2>4, <3>1, ServeType DEF StartAccept
  <2>5. CASE StartDecline(t, p)
    <3>1. Request(Receiver(p), "decline", {p}, {p}, FALSE) \in Requests
      BY <2>1, <2>2, RequestType
    <3> QED BY <2>5, <3>1, ServeType DEF StartDecline
  <2>6. CASE StartCancel(t, p)
    <3>1. Request(Sender(p), "cancel", {p}, {p}, FALSE) \in Requests
      BY <2>1, <2>2, RequestType
    <3> QED BY <2>6, <3>1, ServeType DEF StartCancel
  <2>7. CASE StartUnfriend(t, p)
    <3>1. Request(p[1], "read_pair", {p, Mirror(p)}, {}, TRUE) \in Requests
      BY <2>1, <2>2, RequestType DEF Sender
    <3> QED BY <2>7, <3>1, ServeType DEF StartUnfriend
  <2> QED BY <1>1, <2>3, <2>4, <2>5, <2>6, <2>7
<1>2. ASSUME NEW u \in Users,
             \/ StartCreateRating(t, u) \/ StartPublish(t, u)
             \/ StartDeleteRating(t, u) \/ StartRemove(t, u)
      PROVE  TypeOK'
  <2>1. {"insert_rating", "publish", "delete_rating", "remove"} \subseteq Stages
    BY DEF Stages
  <2>2. CASE StartCreateRating(t, u)
    <3>1. Request(u, "insert_rating", {}, {}, FALSE) \in Requests
      BY <2>1, RequestType
    <3> QED BY <2>2, <3>1, ServeType DEF StartCreateRating
  <2>3. CASE StartPublish(t, u)
    <3>1. Request(u, "publish", {}, {}, TRUE) \in Requests
      BY <2>1, RequestType
    <3> QED BY <2>3, <3>1, ServeType DEF StartPublish
  <2>4. CASE StartDeleteRating(t, u)
    <3>1. Request(u, "delete_rating", {}, {}, TRUE) \in Requests
      BY <2>1, RequestType
    <3> QED BY <2>4, <3>1, ServeType DEF StartDeleteRating
  <2>5. CASE StartRemove(t, u)
    <3>1. Request(u, "remove", {}, {}, TRUE) \in Requests
      BY <2>1, RequestType
    <3> QED BY <2>5, <3>1, ServeType DEF StartRemove
  <2> QED BY <1>2, <2>2, <2>3, <2>4, <2>5
<1> QED BY <1>1, <1>2 DEF Start

\* A step that changes the requests only, and moves thread t on.
LEMMA RequestStepType ==
    ASSUME TypeOK, NEW t \in Threads, NEW r \in Requests,
           req' = [req EXCEPT ![t] = r], UNCHANGED db
    PROVE  TypeOK'
BY DEF TypeOK, db

LEMMA DeleteInvitesType ==
    ASSUME TypeOK, NEW t \in Threads, NEW P \in SUBSET Pairs, NEW r \in Requests,
           DeleteInvites(P, t, r)
    PROVE  /\ invites' \in [Pairs -> InviteStatus]
           /\ req' \in [Threads -> Requests]
           /\ missed' \in SUBSET Pairs
           /\ Cascade(P) \in SUBSET Notification
<1>1. \A x \in Threads : [req[x] EXCEPT !.held = @ \ P] \in Requests
  BY DEF TypeOK, Requests
<1> QED BY <1>1 DEF DeleteInvites, Cascade, TypeOK, InviteStatus

LEMMA FieldTypes ==
    /\ \A r \in Requests, s \in Stages : [r EXCEPT !.at = s] \in Requests
    /\ \A r \in Requests, s \in Stages, b \in BOOLEAN : [r EXCEPT !.at = s, !.live = b] \in Requests
    /\ \A r \in Requests, b \in BOOLEAN : [r EXCEPT !.live = b] \in Requests
    /\ \A r \in Requests, H \in SUBSET Pairs, b \in BOOLEAN :
          [r EXCEPT !.held = @ \ H, !.live = b] \in Requests
    /\ \A n \in Notification : [n EXCEPT !.read = TRUE] \in Notification
    /\ \A n \in Notification : [n EXCEPT !.about = {}, !.read = TRUE] \in Notification
BY DEF Requests, Notification

LEMMA ContinueType ==
    ASSUME TypeOK, NEW t \in Threads, Continue(t)
    PROVE  TypeOK'
<1> USE DEF Done, GoTo
<1>a. req \in [Threads -> Requests] /\ req[t] \in Requests /\ Idle \in Requests
  BY IdleType DEF TypeOK
<1>b. \A s \in Stages : [req[t] EXCEPT !.at = s] \in Requests
  BY <1>a, FieldTypes
<1>c. ASSUME NEW u \in Users, NEW next \in Stages, LookUpRating(t, u, next), UNCHANGED db
      PROVE  TypeOK'
  <2> DEFINE L == IF ratings[u] = "none" THEN req[t].lacking \cup {u} ELSE req[t].lacking
  <2>1. L \in SUBSET Users
    BY <1>a DEF Requests
  <2>2. [req[t] EXCEPT !.at = next, !.lacking = L] \in Requests
    BY <1>a, <2>1 DEF Requests
  <2> QED BY <1>c, <1>a, <2>2 DEF LookUpRating, TypeOK, db
<1>1. CASE CheckPublished(t)
  BY <1>1, <1>a, <1>b, "check_duplicate" \in Stages DEF CheckPublished, TypeOK, db, Stages
<1>2. CASE CheckDuplicate(t)
  BY <1>2, <1>a, <1>b, "insert_invite" \in Stages DEF CheckDuplicate, TypeOK, db, Stages
<1>3. CASE InsertInvite(t)
  BY <1>3, <1>a DEF InsertInvite, TypeOK, Requests, Stages, InviteStatus
<1>4. CASE NotifyInvite(t)
  <2>1. \A p \in req[t].held : Note(Receiver(p), "listen_invite", p) \in Notification
    BY <1>a, PairFacts, NoteType DEF Requests, Receiver, NotificationType
  <2> QED BY <1>4, <1>a, <2>1 DEF NotifyInvite, Announceable, TypeOK
<1>5. CASE ReadSenderRating(t)
  <2>1. PICK p \in req[t].pairs : LookUpRating(t, Sender(p), "accept_receiver")
    BY <1>5 DEF ReadSenderRating
  <2>2. Sender(p) \in Users
    BY <1>a, PairFacts DEF Requests, Sender
  <2> QED BY <1>5, <1>c, <2>1, <2>2 DEF ReadSenderRating, Stages
<1>6. CASE ReadReceiverRating(t)
  <2>1. PICK p \in req[t].pairs : LookUpRating(t, Receiver(p), "accept")
    BY <1>6 DEF ReadReceiverRating
  <2>2. Receiver(p) \in Users
    BY <1>a, PairFacts DEF Requests, Receiver
  <2> QED BY <1>6, <1>c, <2>1, <2>2 DEF ReadReceiverRating, Stages
<1>7. CASE CommitAccept(t)
  <2>1. PICK p \in req[t].pairs : CommitAccept(t)!2!(p)
    BY <1>7 DEF CommitAccept
  <2>2. p \in Pairs
    BY <1>a DEF Requests
  <2>3. Note(Sender(p), "listen_invite_accepted", p) \in Notification
    BY <2>2, PairFacts, NoteType DEF Sender, NotificationType
  <2>4. MarkRead(AnsweredBy(t, p)) \in SUBSET Notification
    BY FieldTypes DEF MarkRead, AnsweredBy, AboutRow, TypeOK
  <2>5. invites' \in [Pairs -> InviteStatus] /\ notifs' \in SUBSET Notification
    BY <2>1, <2>3, <2>4 DEF TypeOK, InviteStatus
  <2>6. ratings' \in [Users -> RatingStatus] /\ missed' \in SUBSET Pairs
    BY <2>1, <2>2 DEF TypeOK, RatingStatus
  <2> QED BY <1>7, <1>a, <2>5, <2>6 DEF CommitAccept, TypeOK
<1>8. CASE CommitDecline(t)
  <2>1. req[t].held \in SUBSET Pairs
    BY <1>a DEF Requests
  <2>2. notifs' \in SUBSET Notification
    <3> DEFINE kept == UNION {AboutRow(p) : p \in req[t].held}
    <3>1. kept \subseteq Notification
      BY DEF AboutRow, TypeOK
    <3>2. {[n EXCEPT !.about = {}, !.read = TRUE] : n \in kept} \subseteq Notification
      BY <3>1, FieldTypes
    <3>3. notifs' = (notifs \ kept) \cup {[n EXCEPT !.about = {}, !.read = TRUE] : n \in kept}
      BY <1>8 DEF CommitDecline, Resolved
    <3> HIDE DEF kept
    <3> QED BY <3>2, <3>3 DEF TypeOK
  <2> QED BY <1>8, <1>a, <2>1, <2>2, DeleteInvitesType DEF CommitDecline, TypeOK
<1>9. CASE CommitCancel(t)
  <2>1. req[t].held \in SUBSET Pairs
    BY <1>a DEF Requests
  <2> QED BY <1>9, <1>a, <2>1, DeleteInvitesType DEF CommitCancel, TypeOK
<1>10. CASE InsertRating(t)
  BY <1>10, <1>a DEF InsertRating, TypeOK, RatingStatus
<1>11. CASE CommitPublish(t)
  BY <1>11, <1>a, <1>b, "read_invites" \in Stages DEF CommitPublish, TypeOK, RatingStatus, Stages
<1>12. CASE ReadInvites(t)
  <2>1. SharedListens(User(t)) \in SUBSET Pairs
    BY DEF SharedListens
  <2> QED BY <1>12, <1>a, <2>1 DEF ReadInvites, TypeOK, db, Requests, Stages
<1>13. CASE ReadPartner(t)
  <2>1. PICK p \in req[t].todo : ReadPartner(t)!2!(p)
    BY <1>13 DEF ReadPartner
  <2> DEFINE B == IF Published(Other(p, User(t))) THEN req[t].both \cup {p} ELSE req[t].both
  <2>2. B \in SUBSET Pairs
    BY <1>a DEF Requests
  <2>3. [req[t] EXCEPT !.todo = @ \ {p}, !.both = B] \in Requests
    BY <1>a, <2>2 DEF Requests
  <2> QED BY <1>13, <1>a, <2>1, <2>3 DEF ReadPartner, TypeOK, db
<1>14. CASE CommitCompletion(t)
  <2>1. req[t].pairs \in SUBSET Pairs /\ req[t].both \in SUBSET Pairs
    BY <1>a DEF Requests
  <2>2. \A p \in req[t].pairs : Note(Other(p, User(t)), "friend_published", p) \in Notification
    BY <2>1, PairFacts, NoteType DEF Other, NotificationType
  <2> QED BY <1>14, <1>a, <2>1, <2>2 DEF CommitCompletion, TypeOK, InviteStatus
<1>15. ASSUME NEW stage, DeleteRow(t, stage)
       PROVE  TypeOK'
  <2>1. ratings' \in [Users -> RatingStatus]
    BY <1>15 DEF DeleteRow, TypeOK, RatingStatus
  <2>2. req' \in [Threads -> Requests]
    <3>1. \A x \in Threads : /\ [req[x] EXCEPT !.at = "withdraw", !.live = FALSE] \in Requests
                             /\ [req[x] EXCEPT !.live = @ /\ ~(req[t].live /\ SameRating(x, t))] \in Requests
      BY <1>a, FieldTypes, "withdraw" \in Stages DEF Stages
    <3> QED BY <1>15, <3>1 DEF DeleteRow
  <2> QED BY <1>15, <2>1, <2>2 DEF DeleteRow, TypeOK
<1>16. CASE Withdraw(t)
  <2>1. Withdrawn(User(t)) \in SUBSET Pairs
    BY DEF Withdrawn
  <2> QED BY <1>16, <1>a, <2>1, DeleteInvitesType DEF Withdraw, TypeOK
<1>17. CASE ReadPairInvites(t)
  BY <1>17, <1>a DEF ReadPairInvites, InvitesBetween, TypeOK, db, Requests, Stages
<1>18. CASE CommitUnfriend(t)
  <2>1. req' \in [Threads -> Requests]
    <3> DEFINE couples == IF req[t].live THEN {Couple(p) : p \in req[t].pairs} ELSE {}
    <3>1. \A x \in Threads :
             [req[x] EXCEPT !.held = @ \ req[t].held,
                            !.live = @ /\ \A c \in couples : ~SameFriendship(x, c)] \in Requests
      <4> TAKE x \in Threads
      <4>1. req[t].held \in SUBSET Pairs /\ req[x] \in Requests /\ req[x].live \in BOOLEAN
        BY <1>a DEF Requests
      <4>2. (req[x].live /\ \A c \in couples : ~SameFriendship(x, c)) \in BOOLEAN
        OBVIOUS
      <4> HIDE DEF couples
      <4> QED BY <4>1, <4>2, FieldTypes
    <3> QED BY <1>18, <1>a, <3>1 DEF CommitUnfriend
  <2>2. friendship' \in [Couples -> FriendshipStatus] /\ invites' \in [Pairs -> InviteStatus]
    BY <1>18 DEF CommitUnfriend, TypeOK, FriendshipStatus, InviteStatus
  <2> QED BY <1>18, <2>1, <2>2 DEF CommitUnfriend, Cascade, TypeOK
<1>19. CASE RebuildFails(t)
  BY <1>19, <1>a DEF RebuildFails, LeftOut, TypeOK
<1> QED BY <1>1, <1>2, <1>3, <1>4, <1>5, <1>6, <1>7, <1>8, <1>9, <1>10, <1>11, <1>12, <1>13,
           <1>14, <1>15, <1>16, <1>17, <1>18, <1>19 DEF Continue, CommitDeleteRating, CommitRemove

----------------------------------------------------------------------------
(* The other actions, and type correctness. *)

LEMMA BackgroundType ==
    ASSUME TypeOK,
           \/ \E t \in Threads : Fail(t)
           \/ \E c \in Couples : Befriend(c) \/ DeclineFriend(c)
           \/ \E u \in Users : MarkSeen(u, {"listen_invite"}) \/ MarkSeen(u, NotificationType)
    PROVE  TypeOK'
<1>1. ASSUME NEW t \in Threads, Fail(t)
      PROVE  TypeOK'
  BY <1>1, IdleType DEF Fail, Done, TypeOK, db
<1>2. ASSUME NEW c \in Couples, Befriend(c)
      PROVE  TypeOK'
  BY <1>2 DEF Befriend, TypeOK, FriendshipStatus
<1>3. ASSUME NEW c \in Couples, DeclineFriend(c)
      PROVE  TypeOK'
  <2>1. \A x \in Threads : [req[x] EXCEPT !.live = @ /\ ~SameFriendship(x, c)] \in Requests
    <3> TAKE x \in Threads
    <3>1. req[x] \in Requests /\ (req[x].live /\ ~SameFriendship(x, c)) \in BOOLEAN
      BY DEF TypeOK
    <3> QED BY <3>1, FieldTypes
  <2> QED BY <1>3, <2>1 DEF DeclineFriend, TypeOK, FriendshipStatus
<1>4. ASSUME NEW u, NEW types, MarkSeen(u, types)
      PROVE  TypeOK'
  <2> DEFINE seen == {n \in notifs : n.to = u /\ ~n.read /\ n.type \in types}
  <2>1. {[n EXCEPT !.read = TRUE] : n \in seen} \subseteq Notification
    BY FieldTypes DEF TypeOK
  <2>2. PICK stale \in SUBSET {n \in notifs : n.to = u /\ n.read} :
           notifs' = (notifs \ (seen \cup stale)) \cup {[n EXCEPT !.read = TRUE] : n \in seen}
    BY <1>4 DEF MarkSeen
  <2> HIDE DEF seen
  <2>3. notifs' \in SUBSET Notification
    BY <2>1, <2>2 DEF TypeOK
  <2> QED BY <1>4, <2>3 DEF MarkSeen, TypeOK
<1> QED BY <1>1, <1>2, <1>3, <1>4

LEMMA TypeStep == TypeOK /\ [Next]_vars => TypeOK'
<1> SUFFICES ASSUME TypeOK, [Next]_vars PROVE TypeOK'
  OBVIOUS
<1>1. CASE UNCHANGED vars
  BY <1>1 DEF vars, TypeOK
<1> QED BY <1>1, StartType, ContinueType, BackgroundType DEF Next

LEMMA InitType == Init => TypeOK
BY IdleType DEF Init, TypeOK, InviteStatus

\* Every variable keeps its type.
THEOREM TypeCorrect == Spec => []TypeOK
BY InitType, TypeStep, PTL DEF Spec

----------------------------------------------------------------------------
(* The inductive invariant. *)

Rest == RequestsConsistent /\ PendingIsQuiet /\ NoDanglingNotification

LEMMA IdleConsistent == Consistent(Idle) /\ Consistent(Idle)'
BY DEF Consistent, Idle, Request, UnfriendStages

\* A step that changes nothing but the request of t.
LEMMA RequestStep ==
    ASSUME IInv, NEW t \in Threads, NEW r, Consistent(r),
           req' = [req EXCEPT ![t] = r], UNCHANGED <<invites, notifs>>
    PROVE  Rest'
<1>1. \A x \in Threads : Consistent(req[x])'
  BY DEF IInv, TypeOK, RequestsConsistent, Consistent
<1> QED BY <1>1 DEF IInv, Rest, RequestsConsistent, PendingIsQuiet, NoDanglingNotification

LEMMA StartInv ==
    ASSUME IInv, NEW t \in Threads, Start(t)
    PROVE  Rest'
<1>1. ASSUME NEW p \in Pairs,
             \/ StartCreateInvite(t, p) \/ StartAccept(t, p)
             \/ StartDecline(t, p)      \/ StartCancel(t, p)
             \/ StartUnfriend(t, p)
      PROVE  Rest'
  <2>1. CASE StartCreateInvite(t, p)
    <3>1. Consistent(Request(Sender(p), "check_published", {p}, {}, FALSE))
      BY DEF Consistent, Request, UnfriendStages, Sender, Receiver, Couple, Mirror
    <3> QED BY <2>1, <3>1, RequestStep DEF StartCreateInvite, Serve, db
  <2>2. CASE StartAccept(t, p)
    <3>1. Consistent(Request(Receiver(p), "accept_sender", {p}, {p}, FALSE))
      BY <2>2 DEF StartAccept, AwaitsAnswer, Consistent, Request, UnfriendStages, Sender, Receiver
    <3> QED BY <2>2, <3>1, RequestStep DEF StartAccept, Serve, db
  <2>3. CASE StartDecline(t, p)
    <3>1. Consistent(Request(Receiver(p), "decline", {p}, {p}, FALSE))
      BY <2>3 DEF StartDecline, AwaitsAnswer, Consistent, Request, UnfriendStages, Sender, Receiver
    <3> QED BY <2>3, <3>1, RequestStep DEF StartDecline, Serve, db
  <2>4. CASE StartCancel(t, p)
    <3>1. Consistent(Request(Sender(p), "cancel", {p}, {p}, FALSE))
      BY <2>4 DEF StartCancel, AwaitsAnswer, Consistent, Request, UnfriendStages, Sender, Receiver
    <3> QED BY <2>4, <3>1, RequestStep DEF StartCancel, Serve, db
  <2>5. CASE StartUnfriend(t, p)
    <3>1. Consistent(Request(p[1], "read_pair", {p, Mirror(p)}, {}, TRUE))
      BY DEF Consistent, Request, UnfriendStages, Sender, Receiver, Couple, Mirror
    <3> QED BY <2>5, <3>1, RequestStep DEF StartUnfriend, Serve, db
  <2> QED BY <1>1, <2>1, <2>2, <2>3, <2>4, <2>5
<1>2. ASSUME NEW u \in Users,
             \/ StartCreateRating(t, u) \/ StartPublish(t, u)
             \/ StartDeleteRating(t, u) \/ StartRemove(t, u)
      PROVE  Rest'
  <2>1. \A s \in {"insert_rating", "publish", "delete_rating", "remove"}, b \in BOOLEAN :
           Consistent(Request(u, s, {}, {}, b))
    BY DEF Consistent, Request, UnfriendStages
  <2> QED BY <1>2, <2>1, RequestStep
          DEF StartCreateRating, StartPublish, StartDeleteRating, StartRemove, Serve, db
<1> QED BY <1>1, <1>2 DEF Start

\* The invites of P are deleted, their notifications deleted or detached.
LEMMA DeleteStep ==
    ASSUME IInv, NEW t \in Threads, NEW P \in SUBSET Pairs, DeleteInvites(P, t, Idle),
           \A n \in notifs' : n.about = {} \/ (n \in notifs /\ \A p \in P : n.about # {p})
    PROVE  Rest'
<1>1. \A x \in Threads : Consistent(req[x])'
  <2> TAKE x \in Threads
  <2>1. CASE x = t
    BY <2>1, IdleConsistent DEF DeleteInvites
  <2>2. CASE x # t
    <3>1. req'[x] = [req[x] EXCEPT !.held = @ \ P] /\ Consistent(req[x]) /\ req[x] \in Requests
      BY <2>2 DEF DeleteInvites, IInv, RequestsConsistent, TypeOK
    <3>2. /\ req'[x].at = req[x].at /\ req'[x].by = req[x].by /\ req'[x].pairs = req[x].pairs
          /\ req'[x].both = req[x].both /\ req'[x].todo = req[x].todo /\ req'[x].held = req[x].held \ P
      BY <3>1 DEF Requests
    <3>3. \A p \in Pairs : invites'[p] = IF p \in P THEN "none" ELSE invites[p]
      BY DEF DeleteInvites
    <3>4. req[x].held \in SUBSET Pairs
      BY <3>1 DEF Requests
    <3> QED BY <3>1, <3>2, <3>3, <3>4 DEF Consistent
  <2> QED BY <2>1, <2>2
<1>2. PendingIsQuiet' /\ NoDanglingNotification'
  BY DEF DeleteInvites, IInv, PendingIsQuiet, NoDanglingNotification
<1> QED BY <1>1, <1>2 DEF Rest, RequestsConsistent

\* A step that writes notifications and invites, and ends the request of t:
\* no row is deleted, no row becomes pending, and what is written is about a
\* row that is there, and pending only if it announces the invite.
LEMMA WriteStep ==
    ASSUME IInv, NEW t \in Threads, req' = [req EXCEPT ![t] = Idle],
           \A p \in Pairs : \/ invites'[p] = invites[p]
                            \/ invites[p] # "none" /\ invites'[p] \in {"accepted", "completed"},
           \A n \in notifs' : \/ \E m \in notifs : m.to = n.to /\ m.type = n.type /\ m.about = n.about
                              \/ \E p \in Pairs :
                                    /\ n.about = {p} /\ invites'[p] # "none"
                                    /\ invites'[p] = "pending" => n.type = "listen_invite" /\ n.to = Receiver(p)
    PROVE  Rest'
<1>1. \A x \in Threads : Consistent(req[x])'
  <2> TAKE x \in Threads
  <2>1. CASE x = t
    BY <2>1, IdleConsistent DEF IInv, TypeOK
  <2>2. CASE x # t
    <3>1. req'[x] = req[x] /\ Consistent(req[x]) /\ req[x].held \in SUBSET Pairs
      BY <2>2 DEF IInv, RequestsConsistent, TypeOK, Requests
    <3> QED BY <3>1 DEF Consistent
  <2> QED BY <2>1, <2>2
<1>2. PendingIsQuiet' /\ NoDanglingNotification'
  <2> SUFFICES ASSUME NEW n \in notifs', NEW p \in Pairs, n.about = {p}
               PROVE  /\ invites'[p] # "none"
                      /\ invites'[p] = "pending" => n.type = "listen_invite" /\ n.to = Receiver(p)
    BY DEF PendingIsQuiet, NoDanglingNotification
  <2>1. CASE \E m \in notifs : m.to = n.to /\ m.type = n.type /\ m.about = n.about
    BY <2>1 DEF IInv, PendingIsQuiet, NoDanglingNotification
  <2>2. CASE \E q \in Pairs : /\ n.about = {q} /\ invites'[q] # "none"
                              /\ invites'[q] = "pending" => n.type = "listen_invite" /\ n.to = Receiver(q)
    BY <2>2
  <2> QED BY <2>1, <2>2
<1> QED BY <1>1, <1>2 DEF Rest, RequestsConsistent

LEMMA ContinueInv ==
    ASSUME IInv, NEW t \in Threads, Continue(t)
    PROVE  Rest'
<1> USE DEF Done, GoTo, At, User
<1>a. /\ TypeOK /\ req \in [Threads -> Requests] /\ req[t] \in Requests
      /\ req[t].held \in SUBSET Pairs /\ req[t].pairs \in SUBSET Pairs /\ Consistent(req[t])
  BY DEF IInv, TypeOK, Requests, RequestsConsistent
<1>b. Consistent(Idle)
  BY IdleConsistent
<1>1. CASE CheckPublished(t)
  <2>1. Consistent([req[t] EXCEPT !.at = "check_duplicate"])
    BY <1>1, <1>a DEF CheckPublished, Consistent, Requests, UnfriendStages
  <2> QED BY <1>1, <1>b, <2>1, RequestStep DEF CheckPublished, db
<1>2. CASE CheckDuplicate(t)
  <2>1. Consistent([req[t] EXCEPT !.at = "insert_invite"])
    BY <1>2, <1>a DEF CheckDuplicate, Consistent, Requests, UnfriendStages
  <2> QED BY <1>2, <1>b, <2>1, RequestStep DEF CheckDuplicate, db
<1>3. CASE InsertInvite(t)
  <2>1. PICK p \in req[t].pairs : InsertInvite(t)!2!(p)
    BY <1>3 DEF InsertInvite
  <2>2. CASE invites[p] = "none"
    <3>1. /\ invites' = [invites EXCEPT ![p] = "pending"]
          /\ req' = [req EXCEPT ![t].at = "notify", ![t].held = {p}]
      BY <2>1, <2>2, <1>3 DEF InsertInvite
    <3>2. p \in Pairs /\ notifs' = notifs
      BY <1>3, <1>a DEF InsertInvite
    <3>3. \A x \in Threads : Consistent(req[x])'
      <4> TAKE x \in Threads
      <4>1. CASE x = t
        BY <4>1, <3>1, <3>2, <1>a, <2>1 DEF Consistent, Requests, UnfriendStages, TypeOK
      <4>2. CASE x # t
        <5>1. req'[x] = req[x] /\ Consistent(req[x]) /\ req[x].held \in SUBSET Pairs
          BY <4>2, <3>1, <1>a DEF IInv, RequestsConsistent, Requests
        <5>2. p \notin req[x].held
          BY <5>1, <2>2 DEF Consistent
        <5>3. \A q \in req[x].held : invites'[q] = invites[q]
          BY <5>1, <5>2, <3>1, <3>2, <1>a DEF TypeOK
        <5> QED BY <5>1, <5>3 DEF Consistent
      <4> QED BY <4>1, <4>2
    <3>4. PendingIsQuiet' /\ NoDanglingNotification'
      BY <3>1, <3>2, <2>2, <1>a DEF TypeOK, IInv, PendingIsQuiet, NoDanglingNotification
    <3> QED BY <3>3, <3>4 DEF Rest, RequestsConsistent
  <2>3. CASE invites[p] # "none"
    BY <1>3, <1>b, <2>1, <2>3, RequestStep DEF InsertInvite
  <2> QED BY <2>2, <2>3
<1>4. CASE NotifyInvite(t)
  <2>1. \A p \in Announceable(t) : p \in Pairs /\ invites[p] # "none"
    BY <1>a DEF Announceable, Consistent
  <2>2. notifs' = notifs \cup {Note(Receiver(p), "listen_invite", p) : p \in Announceable(t)}
    BY <1>4 DEF NotifyInvite
  <2>3. ASSUME NEW n \in notifs', n \notin notifs
        PROVE  \E p \in Pairs : /\ n.about = {p} /\ invites[p] # "none"
                                /\ n.type = "listen_invite" /\ n.to = Receiver(p)
    <3>1. PICK p \in Announceable(t) : n = Note(Receiver(p), "listen_invite", p)
      BY <2>2, <2>3
    <3>2. n.to = Receiver(p) /\ n.type = "listen_invite" /\ n.about = {p}
      BY <3>1 DEF Note
    <3> QED BY <2>1, <3>2
  <2>4. invites' = invites /\ req' = [req EXCEPT ![t] = Idle]
    BY <1>4 DEF NotifyInvite
  <2>5. \A n \in notifs' :
           \/ \E m \in notifs : m.to = n.to /\ m.type = n.type /\ m.about = n.about
           \/ \E p \in Pairs :
                 /\ n.about = {p} /\ invites'[p] # "none"
                 /\ invites'[p] = "pending" => n.type = "listen_invite" /\ n.to = Receiver(p)
    <3> TAKE n \in notifs'
    <3>1. CASE n \in notifs
      BY <3>1
    <3>2. CASE n \notin notifs
      <4>1. PICK p \in Pairs : /\ n.about = {p} /\ invites[p] # "none"
                               /\ n.type = "listen_invite" /\ n.to = Receiver(p)
        BY <2>3, <3>2
      <4>2. invites'[p] # "none"
        BY <2>4, <4>1
      <4> QED BY <4>1, <4>2
    <3> QED BY <3>1, <3>2
  <2> QED BY <2>4, <2>5, WriteStep
<1>5. CASE ReadSenderRating(t)
  <2>1. PICK L : req' = [req EXCEPT ![t].at = "accept_receiver", ![t].lacking = L]
    BY <1>5 DEF ReadSenderRating, LookUpRating
  <2>2. Consistent([req[t] EXCEPT !.at = "accept_receiver", !.lacking = L])
    BY <1>5, <1>a DEF ReadSenderRating, Consistent, Requests, UnfriendStages
  <2> QED BY <1>5, <2>1, <2>2, RequestStep DEF ReadSenderRating, db
<1>6. CASE ReadReceiverRating(t)
  <2>1. PICK L : req' = [req EXCEPT ![t].at = "accept", ![t].lacking = L]
    BY <1>6 DEF ReadReceiverRating, LookUpRating
  <2>2. Consistent([req[t] EXCEPT !.at = "accept", !.lacking = L])
    BY <1>6, <1>a DEF ReadReceiverRating, Consistent, Requests, UnfriendStages
  <2> QED BY <1>6, <2>1, <2>2, RequestStep DEF ReadReceiverRating, db
<1>7. CASE CommitAccept(t)
  <2>1. PICK p \in req[t].pairs : CommitAccept(t)!2!(p)
    BY <1>7 DEF CommitAccept
  <2>2. CASE UNCHANGED <<invites, ratings, notifs, missed>>
    BY <2>2, <1>7, <1>b, RequestStep DEF CommitAccept
  <2>3. CASE ~ UNCHANGED <<invites, ratings, notifs, missed>>
    <3>1. /\ p \in req[t].held
          /\ invites' = [invites EXCEPT ![p] = "accepted"]
          /\ notifs' = MarkRead(AnsweredBy(t, p)) \cup {Note(Sender(p), "listen_invite_accepted", p)}
      BY <2>1, <2>3
    <3>2. p \in Pairs /\ invites[p] # "none" /\ invites'[p] = "accepted"
      BY <3>1, <1>a DEF Consistent, TypeOK
    <3>3. \A q \in Pairs : q # p => invites'[q] = invites[q]
      BY <3>1, <1>a DEF TypeOK
    <3>4. \A n \in MarkRead(AnsweredBy(t, p)) :
             \E m \in notifs : m.to = n.to /\ m.type = n.type /\ m.about = n.about
      BY <1>a DEF MarkRead, AnsweredBy, AboutRow, TypeOK, Notification
    <3>5. Note(Sender(p), "listen_invite_accepted", p).about = {p}
      BY DEF Note
    <3> QED BY <1>7, <3>1, <3>2, <3>3, <3>4, <3>5, WriteStep DEF CommitAccept
  <2> QED BY <2>2, <2>3
<1>8. CASE CommitDecline(t)
  <2> DEFINE kept == UNION {AboutRow(p) : p \in req[t].held}
  <2>1. notifs' = (notifs \ kept) \cup {[n EXCEPT !.about = {}, !.read = TRUE] : n \in kept}
    BY <1>8 DEF CommitDecline, Resolved
  <2>2. kept \subseteq Notification /\ \A n \in notifs : \A p \in req[t].held : n.about = {p} => n \in kept
    BY <1>a DEF AboutRow, TypeOK
  <2>3. \A n \in kept : [n EXCEPT !.about = {}, !.read = TRUE].about = {}
    BY <2>2 DEF Notification
  <2> HIDE DEF kept
  <2>4. \A n \in notifs' : n.about = {} \/ (n \in notifs /\ \A p \in req[t].held : n.about # {p})
    BY <2>1, <2>2, <2>3
  <2> QED BY <1>8, <1>a, <2>4, DeleteStep DEF CommitDecline
<1>9. CASE CommitCancel(t)
  BY <1>9, <1>a, DeleteStep DEF CommitCancel, Cascade
<1>10. CASE InsertRating(t)
  BY <1>10, <1>b, RequestStep DEF InsertRating
<1>11. CASE CommitPublish(t)
  <2>1. Consistent([req[t] EXCEPT !.at = "read_invites"])
    BY <1>11, <1>a DEF CommitPublish, Consistent, Requests, UnfriendStages
  <2> QED BY <1>11, <1>b, <2>1, RequestStep DEF CommitPublish
<1>12. CASE ReadInvites(t)
  <2> DEFINE r == [req[t] EXCEPT !.at = "read_partners", !.pairs = SharedListens(User(t)),
                                 !.held = SharedListens(User(t)), !.todo = SharedListens(User(t))]
  <2>1. At(t, "read_invites") => Consistent(r)
    BY <1>a, SharedListens(User(t)) \subseteq Pairs DEF Consistent, Requests, UnfriendStages,
       SharedListens
  <2>2. CASE req[t].live /\ SharedListens(User(t)) # {}
    <3>1. req' = [req EXCEPT ![t] = r]
      BY <1>12, <1>a, <2>2 DEF ReadInvites
    <3> HIDE DEF r
    <3> QED BY <1>12, <2>1, <3>1, RequestStep DEF ReadInvites, db
  <2>3. CASE ~(req[t].live /\ SharedListens(User(t)) # {})
    BY <1>12, <1>b, <2>3, RequestStep DEF ReadInvites, db
  <2> QED BY <2>2, <2>3
<1>13. CASE ReadPartner(t)
  <2>1. PICK p \in req[t].todo : ReadPartner(t)!2!(p)
    BY <1>13 DEF ReadPartner
  <2> DEFINE B == IF Published(Other(p, User(t))) THEN req[t].both \cup {p} ELSE req[t].both
             r == [req[t] EXCEPT !.todo = @ \ {p}, !.both = B]
  <2>2. p \in req[t].pairs
    BY <1>13, <1>a DEF ReadPartner, Consistent
  <2>3. Consistent(r)
    BY <2>2, <1>13, <1>a DEF ReadPartner, Consistent, Requests, UnfriendStages
  <2>4. req' = [req EXCEPT ![t] = r]
    BY <2>1, <1>a
  <2> HIDE DEF r
  <2> QED BY <1>13, <2>3, <2>4, RequestStep DEF ReadPartner, db
<1>14. CASE CommitCompletion(t)
  <2>1. CASE req[t].pairs \subseteq req[t].held
    <3>1. /\ At(t, "read_partners")
          /\ invites' = [p \in Pairs |-> IF p \in req[t].both THEN "completed" ELSE invites[p]]
          /\ notifs' = notifs \cup {Note(Other(p, User(t)), "friend_published", p) : p \in req[t].pairs}
      BY <1>14, <2>1 DEF CommitCompletion
    <3>2. \A p \in req[t].pairs : invites[p] \in {"accepted", "completed"}
      BY <3>1, <2>1, <1>a DEF Consistent
    <3>3. \A p \in req[t].pairs : invites'[p] \in {"accepted", "completed"}
      BY <3>1, <3>2, <1>a
    <3>4. \A p \in Pairs : invites'[p] = invites[p] \/ (invites[p] # "none" /\ invites'[p] = "completed")
      BY <3>1, <3>2, <1>a DEF Consistent
    <3>5. \A p \in req[t].pairs : Note(Other(p, User(t)), "friend_published", p).about = {p}
      BY DEF Note
    <3>6. \A n \in notifs' : n \in notifs \/ \E p \in Pairs : n.about = {p} /\ invites'[p] \in {"accepted", "completed"}
      BY <3>1, <3>3, <3>5, <1>a
    <3> QED BY <1>14, <3>4, <3>6, WriteStep DEF CommitCompletion
  <2>2. CASE ~(req[t].pairs \subseteq req[t].held)
    BY <1>14, <1>b, <2>2, RequestStep DEF CommitCompletion
  <2> QED BY <2>1, <2>2
<1>15. ASSUME NEW stage, DeleteRow(t, stage), stage \in {"delete_rating", "remove"}
       PROVE  Rest'
  <2>1. \A x \in Threads : Consistent(req[x])'
    <3> TAKE x \in Threads
    <3>1. Consistent(req[x]) /\ req[x] \in Requests
      BY <1>a DEF IInv, RequestsConsistent
    <3>2. /\ req'[x].at = (IF x = t THEN "withdraw" ELSE req[x].at) /\ req'[x].by = req[x].by
          /\ req'[x].pairs = req[x].pairs /\ req'[x].both = req[x].both /\ req'[x].todo = req[x].todo /\ req'[x].held = req[x].held
      BY <1>15, <3>1, <1>a DEF DeleteRow, Requests
    <3>3. invites' = invites
      BY <1>15 DEF DeleteRow
    <3>4. CASE x = t
      <4>1. req[t].at \in {"delete_rating", "remove"} /\ req[t].both = {}
        BY <1>15, <1>a DEF DeleteRow, Consistent
      <4> QED BY <3>1, <3>2, <3>3, <3>4, <4>1 DEF Consistent, UnfriendStages
    <3>5. CASE x # t
      BY <3>1, <3>2, <3>3, <3>5 DEF Consistent
    <3> QED BY <3>4, <3>5
  <2> QED BY <1>15, <2>1 DEF DeleteRow, Rest, RequestsConsistent, IInv, PendingIsQuiet, NoDanglingNotification
<1>16. CASE Withdraw(t)
  <2>1. Withdrawn(User(t)) \in SUBSET Pairs
    BY DEF Withdrawn
  <2> QED BY <1>16, <2>1, DeleteStep DEF Withdraw, Cascade
<1>17. CASE ReadPairInvites(t)
  <2> DEFINE r == [req[t] EXCEPT !.at = "unfriend", !.held = InvitesBetween(t)]
  <2>1. Consistent(r)
    BY <1>17, <1>a DEF ReadPairInvites, InvitesBetween, Consistent, Requests, UnfriendStages
  <2> QED BY <1>17, <2>1, RequestStep DEF ReadPairInvites, db
<1>18. CASE CommitUnfriend(t)
  <2> DEFINE P == req[t].held
  <2>1. \A x \in Threads : Consistent(req[x])'
    <3> TAKE x \in Threads
    <3>1. CASE x = t
      BY <3>1, <1>18, IdleConsistent DEF CommitUnfriend
    <3>2. CASE x # t
      <4>1. Consistent(req[x]) /\ req[x] \in Requests /\ req[x].held \in SUBSET Pairs
        BY <1>a DEF IInv, RequestsConsistent, Requests
      <4>2. /\ req'[x].at = req[x].at /\ req'[x].by = req[x].by /\ req'[x].pairs = req[x].pairs
            /\ req'[x].both = req[x].both /\ req'[x].todo = req[x].todo /\ req'[x].held = req[x].held \ P
        BY <1>18, <3>2, <4>1 DEF CommitUnfriend, Requests
      <4>3. \A p \in Pairs : invites'[p] = IF p \in P THEN "none" ELSE invites[p]
        BY <1>18 DEF CommitUnfriend
      <4> QED BY <4>1, <4>2, <4>3 DEF Consistent
    <3> QED BY <3>1, <3>2
  <2>2. \A n \in notifs' : n \in notifs /\ \A p \in P : n.about # {p}
    BY <1>18 DEF CommitUnfriend, Cascade
  <2>3. \A p \in Pairs : invites'[p] = IF p \in P THEN "none" ELSE invites[p]
    BY <1>18 DEF CommitUnfriend
  <2>4. PendingIsQuiet' /\ NoDanglingNotification'
    BY <2>2, <2>3 DEF IInv, PendingIsQuiet, NoDanglingNotification
  <2> QED BY <2>1, <2>4 DEF Rest, RequestsConsistent
<1>19. CASE RebuildFails(t)
  BY <1>19, <1>b, RequestStep DEF RebuildFails
<1> QED BY <1>1, <1>2, <1>3, <1>4, <1>5, <1>6, <1>7, <1>8, <1>9, <1>10, <1>11, <1>12, <1>13,
           <1>14, <1>15, <1>16, <1>17, <1>18, <1>19 DEF Continue, CommitDeleteRating, CommitRemove

LEMMA BackgroundInv ==
    ASSUME IInv,
           \/ \E t \in Threads : Fail(t)
           \/ \E c \in Couples : Befriend(c) \/ DeclineFriend(c)
           \/ \E u \in Users : MarkSeen(u, {"listen_invite"}) \/ MarkSeen(u, NotificationType)
    PROVE  Rest'
<1>1. ASSUME NEW t \in Threads, Fail(t)
      PROVE  Rest'
  BY <1>1, IdleConsistent, RequestStep DEF Fail, Done, db
<1>2. ASSUME NEW c \in Couples, Befriend(c)
      PROVE  Rest'
  <2>1. \A x \in Threads : Consistent(req[x])'
    BY <1>2 DEF Befriend, IInv, RequestsConsistent, Consistent
  <2> QED BY <1>2, <2>1 DEF Befriend, Rest, RequestsConsistent, IInv, PendingIsQuiet, NoDanglingNotification
<1>3. ASSUME NEW c \in Couples, DeclineFriend(c)
      PROVE  Rest'
  <2>1. \A x \in Threads : Consistent(req[x])'
    <3> TAKE x \in Threads
    <3>1. Consistent(req[x]) /\ req[x] \in Requests
      BY DEF IInv, RequestsConsistent, TypeOK
    <3>2. /\ req'[x].at = req[x].at /\ req'[x].by = req[x].by /\ req'[x].pairs = req[x].pairs
          /\ req'[x].both = req[x].both /\ req'[x].todo = req[x].todo /\ req'[x].held = req[x].held
      BY <1>3, <3>1 DEF DeclineFriend, Requests
    <3> QED BY <1>3, <3>1, <3>2 DEF DeclineFriend, Consistent
  <2> QED BY <1>3, <2>1 DEF DeclineFriend, Rest, RequestsConsistent, IInv, PendingIsQuiet,
                            NoDanglingNotification
<1>4. ASSUME NEW u, NEW types, MarkSeen(u, types)
      PROVE  Rest'
  <2>1. \A x \in Threads : Consistent(req[x])'
    BY <1>4 DEF MarkSeen, IInv, RequestsConsistent, Consistent
  <2> DEFINE seen == {n \in notifs : n.to = u /\ ~n.read /\ n.type \in types}
  <2>2. PICK stale \in SUBSET {n \in notifs : n.to = u /\ n.read} :
           notifs' = (notifs \ (seen \cup stale)) \cup {[n EXCEPT !.read = TRUE] : n \in seen}
    BY <1>4 DEF MarkSeen
  <2>3. \A n \in notifs' : \E m \in notifs : m.to = n.to /\ m.type = n.type /\ m.about = n.about
    <3>1. \A m \in seen : LET n == [m EXCEPT !.read = TRUE] IN
             m.to = n.to /\ m.type = n.type /\ m.about = n.about
      BY DEF IInv, TypeOK, Notification
    <3>2. seen \subseteq notifs
      OBVIOUS
    <3> HIDE DEF seen
    <3> SUFFICES ASSUME NEW n \in notifs'
                 PROVE  \E m \in notifs : m.to = n.to /\ m.type = n.type /\ m.about = n.about
      OBVIOUS
    <3>3. CASE n \in notifs
      BY <3>3
    <3>4. CASE n \notin notifs
      <4>1. PICK m \in seen : n = [m EXCEPT !.read = TRUE]
        BY <2>2, <3>4
      <4> QED BY <3>1, <3>2, <4>1
    <3> QED BY <3>3, <3>4
  <2>4. invites' = invites
    BY <1>4 DEF MarkSeen
  <2> QED BY <2>1, <2>3, <2>4 DEF Rest, RequestsConsistent, IInv, PendingIsQuiet, NoDanglingNotification
<1> QED BY <1>1, <1>2, <1>3, <1>4

LEMMA InvStep == IInv /\ [Next]_vars => IInv'
<1> SUFFICES ASSUME IInv, [Next]_vars PROVE IInv'
  OBVIOUS
<1>1. TypeOK'
  BY TypeStep DEF IInv
<1>2. CASE UNCHANGED vars
  <2>1. \A x \in Threads : Consistent(req[x])'
    BY <1>2 DEF vars, IInv, RequestsConsistent, Consistent
  <2> QED BY <1>1, <1>2, <2>1 DEF vars, IInv, RequestsConsistent, PendingIsQuiet, NoDanglingNotification
<1>3. CASE Next
  BY <1>1, <1>3, StartInv, ContinueInv, BackgroundInv DEF Next, IInv, Rest
<1> QED BY <1>2, <1>3

LEMMA InitInv == Init => IInv
<1> SUFFICES ASSUME Init PROVE IInv
  OBVIOUS
<1>1. RequestsConsistent
  BY IdleConsistent DEF Init, RequestsConsistent
<1> QED BY <1>1, InitType DEF Init, IInv, PendingIsQuiet, NoDanglingNotification

LEMMA Invariance == Spec => []IInv
BY InitInv, InvStep, PTL DEF Spec

\* While an invite is pending nobody hears of it but the receiver.
THEOREM PendingQuiet == Spec => []PendingIsQuiet
<1>1. IInv => PendingIsQuiet
  BY DEF IInv
<1> QED BY <1>1, Invariance, PTL

\* No notification refers to an invite that is gone.
THEOREM NoDangling == Spec => []NoDanglingNotification
<1>1. IInv => NoDanglingNotification
  BY DEF IInv
<1> QED BY <1>1, Invariance, PTL

----------------------------------------------------------------------------
(* Action properties. *)

LEMMA PublishedStep == TypeOK /\ [Next]_vars => PublishedKept
<1> SUFFICES ASSUME TypeOK, [Next]_vars, NEW u \in Users, ratings[u] = "published"
             PROVE  \/ ratings'[u] = "published"
                    \/ \E t \in Threads : User(t) = u /\ req[t].at \in {"delete_rating", "remove"}
  BY DEF PublishedKept
<1>1. CASE ratings' = ratings
  BY <1>1
<1>2. CASE ratings' # ratings
  <2>1. PICK t \in Threads : Continue(t)
    BY <1>2 DEF Next, vars, Start, Fail, Befriend, DeclineFriend, MarkSeen, Serve, db,
                StartCreateInvite, StartAccept, StartDecline, StartCancel, StartUnfriend,
                StartCreateRating, StartPublish, StartDeleteRating, StartRemove
  <2>2. \/ CommitAccept(t) \/ InsertRating(t) \/ CommitPublish(t)
        \/ DeleteRow(t, "delete_rating") \/ DeleteRow(t, "remove")
    BY <1>2, <2>1 DEF Continue, db, CheckPublished, CheckDuplicate, InsertInvite, NotifyInvite,
       ReadSenderRating, ReadReceiverRating, CommitDecline, CommitCancel, ReadInvites, RebuildFails,
       ReadPartner, CommitCompletion, CommitDeleteRating, CommitRemove, Withdraw, ReadPairInvites,
       CommitUnfriend
  <2>3. CASE CommitAccept(t)
    BY <2>3, <1>2 DEF CommitAccept, DraftsFit
  <2>4. CASE InsertRating(t)
    BY <2>4 DEF InsertRating, TypeOK
  <2>5. CASE CommitPublish(t)
    BY <2>5 DEF CommitPublish, TypeOK
  <2>6. CASE DeleteRow(t, "delete_rating") \/ DeleteRow(t, "remove")
    BY <2>6 DEF DeleteRow, TypeOK, At
  <2> QED BY <2>2, <2>3, <2>4, <2>5, <2>6
<1> QED BY <1>1, <1>2

\* A published rating is never turned back into a draft by somebody else.
THEOREM PublishedRatingStays == Spec => PublishedStays
<1>1. TypeOK /\ [Next]_vars => [PublishedKept]_vars
  BY PublishedStep
<1> QED BY <1>1, TypeCorrect, PTL DEF Spec, PublishedStays

\* The steps that change an invite, and what they change it to.
ChangesInvite(t, p) ==
    \/ At(t, "insert_invite") /\ invites[p] = "none" /\ invites'[p] = "pending"
    \/ At(t, "accept") /\ p \in req[t].held /\ invites'[p] = "accepted"
    \/ req[t].at \in {"decline", "cancel", "unfriend"} /\ p \in req[t].held /\ invites'[p] = "none"
    \/ At(t, "withdraw") /\ invites[p] = "accepted" /\ invites'[p] = "none"
    \/ At(t, "read_partners") /\ p \in req[t].both /\ p \in req[t].held /\ invites'[p] = "completed"

LEMMA ContinueInvite ==
    ASSUME IInv, NEW t \in Threads, Continue(t), NEW p \in Pairs, invites'[p] # invites[p]
    PROVE  ChangesInvite(t, p)
<1> USE DEF ChangesInvite
<1>1. \/ InsertInvite(t) \/ CommitAccept(t) \/ CommitDecline(t) \/ CommitCancel(t)
      \/ CommitCompletion(t) \/ Withdraw(t) \/ CommitUnfriend(t)
  BY DEF Continue, db, CheckPublished, CheckDuplicate, NotifyInvite, ReadSenderRating,
              ReadReceiverRating, InsertRating, CommitPublish, ReadInvites, RebuildFails, ReadPartner,
              CommitDeleteRating, CommitRemove, DeleteRow, ReadPairInvites
<1>a. invites \in [Pairs -> InviteStatus] /\ req[t] \in Requests /\ Consistent(req[t])
  BY DEF IInv, TypeOK, RequestsConsistent
<1>2. CASE InsertInvite(t)
  BY <1>2, <1>a DEF InsertInvite
<1>3. CASE CommitAccept(t)
  BY <1>3, <1>a DEF CommitAccept
<1>4. CASE CommitDecline(t) \/ CommitCancel(t)
  BY <1>4 DEF CommitDecline, CommitCancel, DeleteInvites, At
<1>5. CASE CommitCompletion(t)
  BY <1>5, <1>a DEF CommitCompletion, Consistent
<1>6. CASE Withdraw(t)
  BY <1>6 DEF Withdraw, Withdrawn, DeleteInvites
<1>7. CASE CommitUnfriend(t)
  BY <1>7 DEF CommitUnfriend, At
<1> QED BY <1>1, <1>2, <1>3, <1>4, <1>5, <1>6, <1>7

LEMMA InviteChange ==
    ASSUME IInv, [Next]_vars, NEW p \in Pairs, invites'[p] # invites[p]
    PROVE  \E t \in Threads : ChangesInvite(t, p)
<1>1. PICK t \in Threads : Continue(t)
  BY DEF Next, vars, Start, Fail, Befriend, DeclineFriend, MarkSeen, Serve, db,
         StartCreateInvite, StartAccept, StartDecline, StartCancel, StartUnfriend,
         StartCreateRating, StartPublish, StartDeleteRating, StartRemove
<1> QED BY <1>1, ContinueInvite

LEMMA InviteStep == IInv /\ [Next]_vars => PendingKept /\ CompletionJustified
<1> SUFFICES ASSUME IInv, [Next]_vars PROVE PendingKept /\ CompletionJustified
  OBVIOUS
<1>a. \A t \in Threads : Consistent(req[t])
  BY DEF IInv, RequestsConsistent
<1>1. ASSUME NEW p \in Pairs, invites[p] = "pending", invites'[p] # "pending"
      PROVE  \E t \in Threads :
                \/ User(t) = Receiver(p) /\ req[t].at \in {"accept", "decline"}
                \/ User(t) = Sender(p) /\ At(t, "cancel")
                \/ User(t) \in Couple(p) /\ At(t, "unfriend")
  <2>1. PICK t \in Threads : /\ p \in req[t].held
                             /\ \/ req[t].at \in {"accept", "decline", "cancel", "unfriend"}
                                \/ At(t, "read_partners")
    BY <1>1, InviteChange DEF ChangesInvite, At
  <2> QED BY <1>1, <1>a, <2>1 DEF Consistent, At, User, UnfriendStages
<1>2. ASSUME NEW p \in Pairs, invites[p] # "completed", invites'[p] = "completed"
      PROVE  /\ invites[p] = "accepted"
             /\ \E t \in Threads : Involves(p, User(t)) /\ p \in req[t].both
  <2>1. PICK t \in Threads : At(t, "read_partners") /\ p \in req[t].both /\ p \in req[t].held
    BY <1>2, InviteChange DEF ChangesInvite
  <2> QED BY <1>2, <1>a, <2>1 DEF Consistent, At, User
<1> QED BY <1>1, <1>2 DEF PendingKept, CompletionJustified

\* A pending invite goes only by an answer, a withdrawal or the end of the
\* friendship.
THEOREM PendingInviteIsDurable == Spec => PendingIsDurable
<1>1. IInv /\ [Next]_vars => [PendingKept]_vars
  BY InviteStep
<1> QED BY <1>1, Invariance, PTL DEF Spec, PendingIsDurable

\* An invite is completed only from accepted, by a partner who has seen the
\* other's published rating.
THEOREM CompletionEarned == Spec => CompletionIsEarned
<1>1. IInv /\ [Next]_vars => [CompletionJustified]_vars
  BY InviteStep
<1> QED BY <1>1, Invariance, PTL DEF Spec, CompletionIsEarned

----------------------------------------------------------------------------
(* Users who each work in one tab, on a server that does not fail: of two    *)
(* partners who publish, one completes the invite.                           *)

OneTab == IsFiniteSet(Threads) /\ TabsPerUser <= 1 /\ ~Faults

OneRequestEach ==
    \A s, t \in Threads : ~At(s, "idle") /\ ~At(t, "idle") /\ User(s) = User(t) => s = t
RatingInHand == \A t \in Threads : At(t, "read_invites") => req[t].live
NobodyForgets ==
    \A p \in Pairs : Owes(p) => p \in missed \/ \E t \in Threads : Completes(t, p)

OneTabIInv == IInv /\ OneRequestEach /\ RatingInHand /\ NobodyForgets

\* The row that x has loaded is the rating of its user.
KeepsRating(x) == req[x].at \notin UnfriendStages \cup {"idle"}

\* A step of another thread takes nothing from thread x but rows that are gone.
Undisturbed(x) ==
    /\ req'[x].at = req[x].at /\ req'[x].by = req[x].by
    /\ req'[x].pairs = req[x].pairs /\ req'[x].lacking = req[x].lacking
    /\ req'[x].todo = req[x].todo /\ req'[x].both = req[x].both
    /\ KeepsRating(x) => req'[x].live = req[x].live
    /\ req'[x].held \subseteq req[x].held
    /\ \A p \in req[x].held : invites'[p] # "none" => p \in req'[x].held

\* A step of thread t ends its request, or goes on with it for the same user.
GoesOn(t) ==
    /\ req'[t].at = "idle" \/ (req[t].at # "idle" /\ req'[t].by = req[t].by)
    /\ req'[t].at = "read_invites" => req'[t].live

\* What is owed after a step of t was owed before and is not left to t alone, or
\* t takes it on, or it is missed.
Passes(t) ==
    \A p \in Pairs : Owes(p)' =>
        \/ p \in missed' \/ Completes(t, p)'
        \/ Owes(p) /\ p \notin LeftOut(t) /\ (p \in missed => p \in missed')

LEMMA OneTabStep ==
    ASSUME IInv, OneRequestEach, RatingInHand, NobodyForgets, NEW t \in Threads,
           \A x \in Threads \ {t} : Undisturbed(x), GoesOn(t), Passes(t)
    PROVE  OneRequestEach' /\ RatingInHand' /\ NobodyForgets'
<1>1. OneRequestEach'
  BY DEF OneRequestEach, Undisturbed, GoesOn, At, User
<1>2. RatingInHand'
  BY DEF RatingInHand, Undisturbed, KeepsRating, UnfriendStages, GoesOn, At
<1>3. ASSUME NEW p \in Pairs, Owes(p)'
      PROVE  p \in missed' \/ \E x \in Threads : Completes(x, p)'
  <2>1. CASE p \in missed' \/ Completes(t, p)'
    BY <2>1
  <2>2. CASE Owes(p) /\ p \notin LeftOut(t) /\ (p \in missed => p \in missed')
    <3>1. CASE p \in missed
      BY <2>2, <3>1
    <3>2. CASE p \notin missed
      <4>1. PICK x \in Threads \ {t} : Completes(x, p)
        BY <2>2, <3>2 DEF NobodyForgets, LeftOut
      <4>2. Undisturbed(x)
        BY <4>1
      <4>3. invites'[p] # "none"
        BY <1>3 DEF Owes
      <4>4. Completes(x, p)'
        BY <4>1, <4>2, <4>3 DEF Completes, Undisturbed, At, User, Involves
      <4> QED BY <4>4
    <3> QED BY <3>1, <3>2
  <2> QED BY <1>3, <2>1, <2>2 DEF Passes, LeftOut
<1> QED BY <1>1, <1>2, <1>3 DEF NobodyForgets

\* A step that adds nothing to what is owed, of a request that completes nothing.
LEMMA NothingOwed ==
    ASSUME NEW t \in Threads, ~At(t, "read_invites"), ~At(t, "read_partners"),
           \A p \in Pairs : invites'[p] = "accepted" =>
               /\ invites[p] = "accepted"
               /\ p \in missed => p \in missed' \/ ~BothPublished(p)',
           \A u \in Users : ratings'[u] = "published" => ratings[u] = "published"
    PROVE  Passes(t)
BY PairFacts DEF Passes, Owes, LeftOut, Completes, BothPublished, Published

LEMMA ServeOneTab ==
    ASSUME OneTab, IInv, OneRequestEach, RatingInHand, NobodyForgets, NEW t \in Threads,
           NEW u, NEW op, NEW r, r.by = u, r.at \notin {"read_invites", "read_partners"}, Serve(t, u, op, r)
    PROVE  OneRequestEach' /\ RatingInHand' /\ NobodyForgets'
<1>1. InFlight(u) = {}
  <2>1. IsFiniteSet(InFlight(u))
    BY FS_Subset DEF InFlight, OneTab
  <2>2. Cardinality(InFlight(u)) \in Nat /\ Cardinality(InFlight(u)) < TabsPerUser
    BY <2>1, FS_CardinalityType DEF Serve
  <2>3. Cardinality(InFlight(u)) = 0
    BY <2>2, ConstantsAssumption DEF OneTab
  <2> QED BY <2>1, <2>3, FS_EmptySet
<1>2. \A x \in Threads : req'[x] = IF x = t THEN r ELSE req[x]
  BY DEF Serve, IInv, TypeOK
<1>3. UNCHANGED <<invites, ratings, missed>> /\ At(t, "idle")
  BY DEF Serve, db
<1>4. \A x \in Threads : User(x) # u
  BY <1>1 DEF InFlight
<1>5. OneRequestEach'
  BY <1>2, <1>4 DEF OneRequestEach, At, User
<1>6. RatingInHand'
  BY <1>2 DEF RatingInHand, At
<1>7. \A x \in Threads, p \in Pairs : Completes(x, p) => Completes(x, p)'
  BY <1>2, <1>3 DEF Completes, At, User
<1>8. NobodyForgets'
  BY <1>3, <1>7 DEF NobodyForgets, Owes, BothPublished, Published
<1> QED BY <1>5, <1>6, <1>8

LEMMA StartOneTab ==
    ASSUME OneTab, IInv, OneRequestEach, RatingInHand, NobodyForgets,
           NEW t \in Threads, Start(t)
    PROVE  OneRequestEach' /\ RatingInHand' /\ NobodyForgets'
<1>1. ASSUME NEW p \in Pairs, StartCreateInvite(t, p)
      PROVE  OneRequestEach' /\ RatingInHand' /\ NobodyForgets'
  <2> DEFINE r == Request(Sender(p), "check_published", {p}, {}, FALSE)
  <2>1. r.by = Sender(p) /\ r.at \notin {"read_invites", "read_partners"} /\ \E op : Serve(t, Sender(p), op, r)
    BY <1>1 DEF StartCreateInvite, Request
  <2> HIDE DEF r
  <2> QED BY <2>1, ServeOneTab
<1>2. ASSUME NEW p \in Pairs, StartAccept(t, p)
      PROVE  OneRequestEach' /\ RatingInHand' /\ NobodyForgets'
  <2> DEFINE r == Request(Receiver(p), "accept_sender", {p}, {p}, FALSE)
  <2>1. r.by = Receiver(p) /\ r.at \notin {"read_invites", "read_partners"} /\ \E op : Serve(t, Receiver(p), op, r)
    BY <1>2 DEF StartAccept, Request
  <2> HIDE DEF r
  <2> QED BY <2>1, ServeOneTab
<1>3. ASSUME NEW p \in Pairs, StartDecline(t, p)
      PROVE  OneRequestEach' /\ RatingInHand' /\ NobodyForgets'
  <2> DEFINE r == Request(Receiver(p), "decline", {p}, {p}, FALSE)
  <2>1. r.by = Receiver(p) /\ r.at \notin {"read_invites", "read_partners"} /\ \E op : Serve(t, Receiver(p), op, r)
    BY <1>3 DEF StartDecline, Request
  <2> HIDE DEF r
  <2> QED BY <2>1, ServeOneTab
<1>4. ASSUME NEW p \in Pairs, StartCancel(t, p)
      PROVE  OneRequestEach' /\ RatingInHand' /\ NobodyForgets'
  <2> DEFINE r == Request(Sender(p), "cancel", {p}, {p}, FALSE)
  <2>1. r.by = Sender(p) /\ r.at \notin {"read_invites", "read_partners"} /\ \E op : Serve(t, Sender(p), op, r)
    BY <1>4 DEF StartCancel, Request
  <2> HIDE DEF r
  <2> QED BY <2>1, ServeOneTab
<1>5. ASSUME NEW p \in Pairs, StartUnfriend(t, p)
      PROVE  OneRequestEach' /\ RatingInHand' /\ NobodyForgets'
  <2> DEFINE r == Request(p[1], "read_pair", {p, Mirror(p)}, {}, TRUE)
  <2>1. r.by = p[1] /\ r.at \notin {"read_invites", "read_partners"} /\ \E op : Serve(t, p[1], op, r)
    BY <1>5 DEF StartUnfriend, Request
  <2> HIDE DEF r
  <2> QED BY <2>1, ServeOneTab
<1>6. ASSUME NEW u \in Users, StartCreateRating(t, u)
      PROVE  OneRequestEach' /\ RatingInHand' /\ NobodyForgets'
  <2> DEFINE r == Request(u, "insert_rating", {}, {}, FALSE)
  <2>1. r.by = u /\ r.at \notin {"read_invites", "read_partners"} /\ \E op : Serve(t, u, op, r)
    BY <1>6 DEF StartCreateRating, Request
  <2> HIDE DEF r
  <2> QED BY <2>1, ServeOneTab
<1>7. ASSUME NEW u \in Users, StartPublish(t, u)
      PROVE  OneRequestEach' /\ RatingInHand' /\ NobodyForgets'
  <2> DEFINE r == Request(u, "publish", {}, {}, TRUE)
  <2>1. r.by = u /\ r.at \notin {"read_invites", "read_partners"} /\ \E op : Serve(t, u, op, r)
    BY <1>7 DEF StartPublish, Request
  <2> HIDE DEF r
  <2> QED BY <2>1, ServeOneTab
<1>8. ASSUME NEW u \in Users, StartDeleteRating(t, u)
      PROVE  OneRequestEach' /\ RatingInHand' /\ NobodyForgets'
  <2> DEFINE r == Request(u, "delete_rating", {}, {}, TRUE)
  <2>1. r.by = u /\ r.at \notin {"read_invites", "read_partners"} /\ \E op : Serve(t, u, op, r)
    BY <1>8 DEF StartDeleteRating, Request
  <2> HIDE DEF r
  <2> QED BY <2>1, ServeOneTab
<1>9. ASSUME NEW u \in Users, StartRemove(t, u)
      PROVE  OneRequestEach' /\ RatingInHand' /\ NobodyForgets'
  <2> DEFINE r == Request(u, "remove", {}, {}, TRUE)
  <2>1. r.by = u /\ r.at \notin {"read_invites", "read_partners"} /\ \E op : Serve(t, u, op, r)
    BY <1>9 DEF StartRemove, Request
  <2> HIDE DEF r
  <2> QED BY <2>1, ServeOneTab
<1> QED BY <1>1, <1>2, <1>3, <1>4, <1>5, <1>6, <1>7, <1>8, <1>9 DEF Start

\* Only t moves; and of what the other threads have read, rows may be gone.
LEMMA Neighbours ==
    ASSUME TypeOK, OneRequestEach, NEW t \in Threads, Continue(t)
    PROVE  (\A x \in Threads \ {t} : Undisturbed(x)) /\ GoesOn(t)
<1>a. req \in [Threads -> Requests]
  BY DEF TypeOK
<1>b. Idle.at = "idle"
  BY DEF Idle, Request
<1>1. ASSUME \A x \in Threads \ {t} : req'[x] = req[x]
      PROVE  \A x \in Threads \ {t} : Undisturbed(x)
  BY <1>1 DEF Undisturbed
<1>2. ASSUME NEW P, DeleteInvites(P, t, Idle), P \subseteq Pairs
      PROVE  (\A x \in Threads \ {t} : Undisturbed(x)) /\ GoesOn(t)
  <2>1. ASSUME NEW x \in Threads \ {t}
        PROVE  Undisturbed(x)
    <3>1. req'[x] = [req[x] EXCEPT !.held = @ \ P] /\ req[x] \in Requests
      BY <1>2, <1>a DEF DeleteInvites
    <3>2. \A p \in P : invites'[p] = "none"
      BY <1>2 DEF DeleteInvites
    <3> QED BY <3>1, <3>2 DEF Undisturbed, Requests
  <2>2. GoesOn(t)
    BY <1>2, <1>b DEF DeleteInvites, GoesOn
  <2> QED BY <2>1, <2>2
<1>3. CASE CheckPublished(t) \/ CheckDuplicate(t) \/ InsertInvite(t) \/ NotifyInvite(t)
  <2>1. \A x \in Threads \ {t} : req'[x] = req[x]
    BY <1>3, <1>a DEF CheckPublished, CheckDuplicate, InsertInvite, NotifyInvite, Done, GoTo
  <2>2. GoesOn(t)
    BY <1>3, <1>a, <1>b DEF CheckPublished, CheckDuplicate, InsertInvite, NotifyInvite, Done, GoTo,
       GoesOn, At, Requests
  <2> QED BY <1>1, <2>1, <2>2
<1>4. CASE ReadSenderRating(t) \/ ReadReceiverRating(t) \/ CommitAccept(t)
  <2>1. \A x \in Threads \ {t} : req'[x] = req[x]
    BY <1>4, <1>a DEF ReadSenderRating, ReadReceiverRating, CommitAccept, LookUpRating, Done
  <2>2. GoesOn(t)
    BY <1>4, <1>a, <1>b DEF ReadSenderRating, ReadReceiverRating, CommitAccept, LookUpRating, Done,
       GoesOn, At, Requests
  <2> QED BY <1>1, <2>1, <2>2
<1>5. CASE InsertRating(t) \/ CommitPublish(t) \/ ReadPairInvites(t)
  <2>1. \A x \in Threads \ {t} : req'[x] = req[x]
    BY <1>5, <1>a DEF InsertRating, CommitPublish, ReadPairInvites, Done, GoTo
  <2>2. GoesOn(t)
    BY <1>5, <1>a, <1>b DEF InsertRating, CommitPublish, ReadPairInvites, Done, GoTo, GoesOn, At,
       Requests
  <2> QED BY <1>1, <2>1, <2>2
<1>6. CASE ReadInvites(t) \/ RebuildFails(t) \/ ReadPartner(t) \/ CommitCompletion(t)
  <2>1. \A x \in Threads \ {t} : req'[x] = req[x]
    BY <1>6, <1>a DEF ReadInvites, RebuildFails, ReadPartner, CommitCompletion, Done
  <2>2. Done(t) => GoesOn(t)
    BY <1>a, <1>b DEF Done, GoesOn
  <2>3. ASSUME ReadInvites(t) PROVE GoesOn(t)
    <3> DEFINE shared == SharedListens(User(t))
    <3>1. CASE Done(t)
      BY <2>2, <3>1
    <3>2. CASE ~Done(t)
      <4>1. req' = [req EXCEPT ![t].at = "read_partners", ![t].pairs = shared,
                               ![t].held = shared, ![t].todo = shared]
        BY <2>3, <3>2 DEF ReadInvites
      <4> HIDE DEF shared
      <4>2. req'[t].at = "read_partners" /\ req'[t].by = req[t].by
        BY <4>1, <1>a DEF Requests
      <4> QED BY <2>3, <4>2 DEF ReadInvites, GoesOn, At
    <3> QED BY <3>1, <3>2
  <2>4. ASSUME ReadPartner(t) PROVE GoesOn(t)
    <3>1. PICK p \in req[t].todo : ReadPartner(t)!2!(p)
      BY <2>4 DEF ReadPartner
    <3> DEFINE B == IF Published(Other(p, User(t))) THEN req[t].both \cup {p} ELSE req[t].both
    <3>2. req'[t] = [req[t] EXCEPT !.todo = @ \ {p}, !.both = B]
      BY <3>1, <1>a
    <3> HIDE DEF B
    <3>3. req'[t].at = req[t].at /\ req'[t].by = req[t].by
      BY <3>2, <1>a DEF Requests
    <3> QED BY <2>4, <3>3 DEF ReadPartner, GoesOn, At
  <2>5. ASSUME CommitCompletion(t) PROVE GoesOn(t)
    BY <2>2, <2>5 DEF CommitCompletion
  <2>6. ASSUME RebuildFails(t) PROVE GoesOn(t)
    BY <2>2, <2>6 DEF RebuildFails
  <2> QED BY <1>1, <1>6, <2>1, <2>3, <2>4, <2>5, <2>6
<1>7. CASE CommitDecline(t) \/ CommitCancel(t)
  <2>1. req[t].held \subseteq Pairs
    BY <1>a DEF Requests
  <2> QED BY <1>2, <1>7, <2>1 DEF CommitDecline, CommitCancel
<1>8. CASE Withdraw(t)
  <2>1. Withdrawn(User(t)) \subseteq Pairs
    BY DEF Withdrawn
  <2> QED BY <1>2, <1>8, <2>1 DEF Withdraw
<1>9. ASSUME NEW stage \in {"delete_rating", "remove"}, DeleteRow(t, stage)
      PROVE  (\A x \in Threads \ {t} : Undisturbed(x)) /\ GoesOn(t)
  <2>1. ASSUME NEW x \in Threads \ {t}
        PROVE  Undisturbed(x)
    <3>1. KeepsRating(x) => ~SameRating(x, t)
      BY <1>9 DEF OneRequestEach, KeepsRating, SameRating, DeleteRow, At
    <3>2. /\ req'[x] = [req[x] EXCEPT !.live = @ /\ ~(req[t].live /\ SameRating(x, t))]
          /\ req[x] \in Requests
      BY <1>9, <1>a DEF DeleteRow
    <3>3. /\ req'[x].at = req[x].at /\ req'[x].by = req[x].by
          /\ req'[x].pairs = req[x].pairs /\ req'[x].lacking = req[x].lacking
          /\ req'[x].todo = req[x].todo /\ req'[x].both = req[x].both /\ req'[x].held = req[x].held
          /\ req'[x].live = (req[x].live /\ ~(req[t].live /\ SameRating(x, t)))
      BY <3>2 DEF Requests
    <3>4. req[x].live \in BOOLEAN
      BY <3>2 DEF Requests
    <3>5. KeepsRating(x) => req'[x].live = req[x].live
      BY <3>1, <3>3, <3>4
    <3> QED BY <3>3, <3>5 DEF Undisturbed
  <2>2. GoesOn(t)
    BY <1>9, <1>a DEF DeleteRow, GoesOn, At, Requests
  <2> QED BY <2>1, <2>2
<1>10. CASE CommitUnfriend(t)
  <2> DEFINE couples == IF req[t].live THEN {Couple(p) : p \in req[t].pairs} ELSE {}
  <2>1. ASSUME NEW x \in Threads \ {t}
        PROVE  Undisturbed(x)
    <3>1. KeepsRating(x) => \A c \in couples : ~SameFriendship(x, c)
      BY DEF SameFriendship, KeepsRating
    <3>2. /\ req'[x] = [req[x] EXCEPT !.held = @ \ req[t].held,
                                      !.live = @ /\ \A c \in couples : ~SameFriendship(x, c)]
          /\ req[x] \in Requests /\ req[t].held \subseteq Pairs
      BY <1>10, <1>a DEF CommitUnfriend, Requests
    <3> DEFINE apart == \A c \in couples : ~SameFriendship(x, c)
    <3>3. /\ req'[x].at = req[x].at /\ req'[x].by = req[x].by
          /\ req'[x].pairs = req[x].pairs /\ req'[x].lacking = req[x].lacking
          /\ req'[x].todo = req[x].todo /\ req'[x].both = req[x].both
          /\ req'[x].held = req[x].held \ req[t].held /\ req'[x].live = (req[x].live /\ apart)
      <4> HIDE DEF couples, apart
      <4> QED BY <3>2 DEF Requests, apart
    <3>4. req[x].live \in BOOLEAN
      BY <3>2 DEF Requests
    <3>5. KeepsRating(x) => req'[x].live = req[x].live
      BY <3>1, <3>3, <3>4
    <3>6. \A p \in req[t].held : invites'[p] = "none"
      BY <1>10, <3>2 DEF CommitUnfriend
    <3> QED BY <3>3, <3>5, <3>6 DEF Undisturbed
  <2>2. GoesOn(t)
    BY <1>10, <1>b DEF CommitUnfriend, GoesOn
  <2> QED BY <2>1, <2>2
<1> QED BY <1>3, <1>4, <1>5, <1>6, <1>7, <1>8, <1>9, <1>10 DEF Continue, CommitDeleteRating, CommitRemove

LEMMA ContinuePasses ==
    ASSUME IInv, RatingInHand, NEW t \in Threads, Continue(t)
    PROVE  Passes(t)
<1>a. /\ req \in [Threads -> Requests] /\ req[t] \in Requests /\ Consistent(req[t])
      /\ invites \in [Pairs -> InviteStatus] /\ ratings \in [Users -> RatingStatus]
  BY DEF IInv, TypeOK, RequestsConsistent
<1>1. ASSUME NEW P, DeleteInvites(P, t, Idle), ratings' = ratings,
             ~At(t, "read_invites"), ~At(t, "read_partners")
      PROVE  Passes(t)
  BY <1>1, NothingOwed DEF DeleteInvites
<1>2. CASE CheckPublished(t) \/ CheckDuplicate(t) \/ NotifyInvite(t) \/ ReadSenderRating(t)
           \/ ReadReceiverRating(t) \/ ReadPairInvites(t)
  BY <1>2, NothingOwed DEF CheckPublished, CheckDuplicate, NotifyInvite, ReadSenderRating,
                           ReadReceiverRating, ReadPairInvites, At, db
<1>3. CASE InsertInvite(t)
  BY <1>3, <1>a, NothingOwed DEF InsertInvite, At
<1>4. CASE CommitAccept(t)
  <2>1. PICK p \in req[t].pairs : CommitAccept(t)!2!(p)
    BY <1>4 DEF CommitAccept
  <2>2. \A u \in Users : ratings'[u] = "published" => ratings[u] = "published"
    <3>1. \/ ratings' = [u \in Users |-> IF u \in req[t].lacking THEN "draft" ELSE ratings[u]]
          \/ ratings' = ratings
      BY <2>1
    <3> QED BY <3>1
  <2>3. \A q \in Pairs : BothPublished(q)' => BothPublished(q)
    BY <2>2, PairFacts DEF BothPublished, Published
  <2>4. \A q \in Pairs : invites'[q] = "accepted" => invites[q] = "accepted" \/ q = p
    BY <2>1, <1>a
  <2>5. BothPublished(p) /\ invites'[p] = "accepted" => p \in missed' \/ invites[p] = "accepted"
    BY <2>1
  <2>6. missed \subseteq missed'
    BY <2>1
  <2>7. \A q \in Pairs : ~Completes(t, q)
    BY <1>4 DEF CommitAccept, Completes, At
  <2> QED BY <2>3, <2>4, <2>5, <2>6, <2>7 DEF Passes, LeftOut, Owes
<1>5. CASE CommitDecline(t) \/ CommitCancel(t)
  BY <1>1, <1>5 DEF CommitDecline, CommitCancel, At
<1>6. CASE InsertRating(t)
  BY <1>6, <1>a, NothingOwed DEF InsertRating, At
<1>7. CASE CommitPublish(t)
  <2>1. ~req[t].live => Passes(t)
    BY <1>7, NothingOwed DEF CommitPublish, At
  <2>2. ASSUME req[t].live, NEW p \in Pairs, Owes(p)'
        PROVE  Completes(t, p)' \/ (Owes(p) /\ ~Completes(t, p))
    <3>1. /\ ratings' = [ratings EXCEPT ![User(t)] = "published"] /\ GoTo(t, "read_invites")
          /\ invites' = invites /\ At(t, "publish")
      BY <1>7, <2>2 DEF CommitPublish
    <3>2. req'[t].at = "read_invites" /\ req'[t].by = req[t].by
      BY <3>1, <1>a DEF GoTo, Requests
    <3>3. Involves(p, User(t)) => Completes(t, p)'
      BY <3>2 DEF Completes, At, User, Involves
    <3>4. ~Involves(p, User(t)) => Owes(p)
      BY <2>2, <3>1, <1>a, PairFacts DEF Involves, Owes, BothPublished, Published
    <3>5. ~Completes(t, p)
      BY <3>1 DEF Completes, At
    <3> QED BY <3>3, <3>4, <3>5
  <2>3. missed' = missed
    BY <1>7 DEF CommitPublish
  <2> QED BY <2>1, <2>2, <2>3 DEF Passes, LeftOut
<1>8. CASE ReadInvites(t)
  <2>1. UNCHANGED <<invites, ratings, missed>> /\ At(t, "read_invites")
    BY <1>8 DEF ReadInvites, db
  <2>2. ASSUME NEW p \in Pairs, Owes(p)', Involves(p, User(t))
        PROVE  Completes(t, p)'
    <3>1. p \in SharedListens(User(t))
      BY <2>1, <2>2 DEF SharedListens, Owes
    <3>2. req[t].live
      BY <2>1 DEF RatingInHand
    <3>3. req' = [req EXCEPT ![t].at = "read_partners", ![t].pairs = SharedListens(User(t)),
                             ![t].held = SharedListens(User(t)), ![t].todo = SharedListens(User(t))]
      BY <1>8, <3>1, <3>2 DEF ReadInvites
    <3>4. /\ req'[t].at = "read_partners" /\ req'[t].by = req[t].by
          /\ req'[t].held = SharedListens(User(t)) /\ req'[t].todo = SharedListens(User(t))
      BY <3>3, <1>a DEF Requests
    <3> QED BY <2>2, <3>1, <3>4 DEF Completes, At, User, Involves
  <2>3. \A p \in Pairs : Owes(p)' => Owes(p)
    BY <2>1 DEF Owes, BothPublished, Published
  <2>4. \A p \in Pairs : Completes(t, p) => Involves(p, User(t))
    BY DEF Completes
  <2> QED BY <2>1, <2>2, <2>3, <2>4 DEF Passes, LeftOut
<1>9. CASE ReadPartner(t)
  <2>1. UNCHANGED <<invites, ratings, missed>> /\ At(t, "read_partners")
    BY <1>9 DEF ReadPartner, db
  <2>2. PICK q \in req[t].todo : ReadPartner(t)!2!(q)
    BY <1>9 DEF ReadPartner
  <2> DEFINE B == IF Published(Other(q, User(t))) THEN req[t].both \cup {q} ELSE req[t].both
  <2>3. /\ req'[t].at = "read_partners" /\ req'[t].by = req[t].by /\ req'[t].held = req[t].held
        /\ req'[t].todo = req[t].todo \ {q} /\ req'[t].both = B
    <3>1. req'[t] = [req[t] EXCEPT !.todo = @ \ {q}, !.both = B]
      BY <2>2, <1>a
    <3> QED BY <2>1, <3>1, <1>a DEF Requests, At
  <2>4. ASSUME NEW p \in Pairs, Owes(p)', Completes(t, p)
        PROVE  Completes(t, p)'
    <3>1. Published(Other(p, User(t)))
      BY <2>1, <2>4 DEF Owes, BothPublished, Published, Other
    <3>2. p \in req[t].held /\ p \in req[t].todo \cup req[t].both /\ Involves(p, User(t))
      BY <2>1, <2>4 DEF Completes, At
    <3>3. p \in (req[t].todo \ {q}) \cup B
      BY <3>1, <3>2
    <3> QED BY <2>3, <3>2, <3>3 DEF Completes, At, User, Involves
  <2>5. \A p \in Pairs : Owes(p)' => Owes(p)
    BY <2>1 DEF Owes, BothPublished, Published
  <2> QED BY <2>1, <2>4, <2>5 DEF Passes, LeftOut
<1>10. CASE CommitCompletion(t)
  <2>1. At(t, "read_partners") /\ req[t].todo = {} /\ ratings' = ratings /\ missed \subseteq missed'
    BY <1>10 DEF CommitCompletion
  <2>2. ASSUME NEW p \in Pairs, Owes(p)', Completes(t, p)
        PROVE  p \in missed'
    <3>1. p \in req[t].held /\ p \in req[t].both
      BY <2>1, <2>2 DEF Completes, At
    <3>2. invites'[p] = "accepted"
      BY <2>2 DEF Owes
    <3> QED BY <1>10, <3>1, <3>2 DEF CommitCompletion
  <2>3. \A p \in Pairs : Owes(p)' => Owes(p)
    BY <1>10, <2>1 DEF CommitCompletion, Owes, BothPublished, Published
  <2> QED BY <2>1, <2>2, <2>3 DEF Passes, LeftOut
<1>11. ASSUME NEW stage \in {"delete_rating", "remove"}, DeleteRow(t, stage)
       PROVE  Passes(t)
  <2>1. ratings' = [ratings EXCEPT ![User(t)] = IF req[t].live THEN "none" ELSE @]
    BY <1>11 DEF DeleteRow
  <2>2. \A p \in missed : p \in missed' \/ (req[t].live /\ Involves(p, User(t)))
    BY <1>11 DEF DeleteRow
  <2>3. \A p \in Pairs : req[t].live /\ Involves(p, User(t)) => ~BothPublished(p)'
    BY <2>1, <1>a, PairFacts DEF Involves, BothPublished, Published
  <2>4. \A u \in Users : ratings'[u] = "published" => ratings[u] = "published"
    BY <2>1, <1>a
  <2>5. invites' = invites /\ ~At(t, "read_invites") /\ ~At(t, "read_partners")
    BY <1>11 DEF DeleteRow, At
  <2> QED BY <2>2, <2>3, <2>4, <2>5, NothingOwed
<1>12. CASE Withdraw(t)
  BY <1>1, <1>12 DEF Withdraw, At
<1>13. CASE CommitUnfriend(t)
  BY <1>13, NothingOwed DEF CommitUnfriend, At
<1>14. CASE RebuildFails(t)
  <2>1. missed' = missed \cup LeftOut(t) /\ UNCHANGED <<invites, ratings>>
    BY <1>14 DEF RebuildFails
  <2>2. \A p \in Pairs : Owes(p)' => Owes(p)
    BY <2>1 DEF Owes, BothPublished, Published
  <2> QED BY <2>1, <2>2 DEF Passes
<1> QED BY <1>2, <1>3, <1>4, <1>5, <1>6, <1>7, <1>8, <1>9, <1>10, <1>11, <1>12, <1>13, <1>14
        DEF Continue, CommitDeleteRating, CommitRemove

LEMMA BackgroundOneTab ==
    ASSUME IInv, OneRequestEach, RatingInHand, NobodyForgets,
           \/ \E c \in Couples : Befriend(c) \/ DeclineFriend(c)
           \/ \E u \in Users : MarkSeen(u, {"listen_invite"}) \/ MarkSeen(u, NotificationType)
           \/ UNCHANGED vars
    PROVE  OneRequestEach' /\ RatingInHand' /\ NobodyForgets'
<1>1. UNCHANGED <<invites, ratings, missed>>
  BY DEF Befriend, DeclineFriend, MarkSeen, vars
<1>2. ASSUME NEW x \in Threads
      PROVE  /\ req'[x].at = req[x].at /\ req'[x].by = req[x].by /\ req'[x].held = req[x].held
             /\ req'[x].todo = req[x].todo /\ req'[x].both = req[x].both
             /\ At(x, "read_invites") => req'[x].live = req[x].live
  <2>1. CASE req' = req
    BY <2>1
  <2>2. CASE \E c \in Couples : DeclineFriend(c)
    <3>1. PICK c \in Couples : DeclineFriend(c)
      BY <2>2
    <3>2. req'[x] = [req[x] EXCEPT !.live = @ /\ ~SameFriendship(x, c)] /\ req[x] \in Requests
      BY <3>1 DEF DeclineFriend, IInv, TypeOK
    <3>3. At(x, "read_invites") => ~SameFriendship(x, c)
      BY DEF SameFriendship, At, UnfriendStages
    <3>4. req'[x].live = (req[x].live /\ ~SameFriendship(x, c)) /\ req[x].live \in BOOLEAN
      BY <3>2 DEF Requests
    <3>5. At(x, "read_invites") => req'[x].live = req[x].live
      BY <3>3, <3>4
    <3> QED BY <3>2, <3>5 DEF Requests
  <2> QED BY <2>1, <2>2 DEF Befriend, MarkSeen, vars
<1>3. OneRequestEach' /\ RatingInHand'
  BY <1>2 DEF OneRequestEach, RatingInHand, At, User
<1>4. \A x \in Threads, p \in Pairs : Completes(x, p) => Completes(x, p)'
  BY <1>2 DEF Completes, At, User
<1>5. NobodyForgets'
  BY <1>1, <1>4 DEF NobodyForgets, Owes, BothPublished, Published
<1> QED BY <1>3, <1>5

LEMMA OneTabNext ==
    ASSUME OneTab, OneTabIInv, [Next]_vars
    PROVE  OneTabIInv'
<1>1. IInv'
  BY InvStep DEF OneTabIInv
<1>2. ASSUME NEW t \in Threads, Start(t) \/ Continue(t) \/ Fail(t)
      PROVE  OneRequestEach' /\ RatingInHand' /\ NobodyForgets'
  <2>1. CASE Start(t)
    BY <2>1, StartOneTab DEF OneTabIInv
  <2>2. CASE Continue(t)
    <3>1. (\A x \in Threads \ {t} : Undisturbed(x)) /\ GoesOn(t) /\ Passes(t)
      BY <2>2, Neighbours, ContinuePasses DEF OneTabIInv, IInv
    <3> QED BY <3>1, OneTabStep DEF OneTabIInv
  <2> QED BY <1>2, <2>1, <2>2 DEF Fail, OneTab
<1>3. OneRequestEach' /\ RatingInHand' /\ NobodyForgets'
  BY <1>2, BackgroundOneTab DEF OneTabIInv, Next
<1> QED BY <1>1, <1>3 DEF OneTabIInv

LEMMA InitOneTab == Init => OneTabIInv
<1> SUFFICES ASSUME Init PROVE OneTabIInv
  OBVIOUS
<1>1. \A t \in Threads : req[t].at = "idle"
  BY DEF Init, Idle, Request
<1> QED BY <1>1, InitInv DEF Init, OneTabIInv, OneRequestEach, RatingInHand, NobodyForgets, Owes, At

\* Of two partners who have both published an album they had agreed to share,
\* one is about to complete the invite, or it is among those that have been
\* missed, accepted too late, rolled back or left when a rebuild of the
\* dashboards failed: for any users and requests, one request of each user at a
\* time, on a server that is not killed between two transactions.
THEOREM NotLost == OneTab => (Spec => []CompletionNotLost)
<1> SUFFICES ASSUME OneTab PROVE Spec => []CompletionNotLost
  OBVIOUS
<1>1. Init => OneTabIInv
  BY InitOneTab
<1>2. OneTabIInv /\ [Next]_vars => OneTabIInv'
  BY OneTabNext
<1>3. OneTabIInv => CompletionNotLost
  <2> SUFFICES ASSUME OneTabIInv, NEW p \in Pairs, Owes(p), p \notin missed
               PROVE  Completing(Sender(p)) \/ Completing(Receiver(p))
    BY DEF CompletionNotLost, Owes
  <2>1. PICK t \in Threads : Completes(t, p)
    BY DEF OneTabIInv, NobodyForgets
  <2> QED BY <2>1 DEF Completes, Completing, Involves, Sender, Receiver, At
<1> QED BY <1>1, <1>2, <1>3, PTL DEF Spec

AcceptStages == {"accept_sender", "accept_receiver", "accept"}

\* Nobody else answers an invite while its receiver does.
AnswerIsFirst ==
    \A t \in Threads : req[t].at \in AcceptStages => \A p \in req[t].held : invites[p] = "pending"

LEMMA ContinueAnswer ==
    ASSUME TypeOK, NEW t \in Threads, Continue(t), req'[t].at \in AcceptStages
    PROVE  req[t].at \in AcceptStages /\ req'[t].held = req[t].held /\ invites' = invites
<1>a. req \in [Threads -> Requests] /\ req[t] \in Requests
  BY DEF TypeOK
<1>1. req'[t] # Idle
  BY DEF Idle, Request, AcceptStages
<1>2. ~Done(t) /\ \A P : ~DeleteInvites(P, t, Idle)
  BY <1>1, <1>a DEF Done, DeleteInvites
<1>3. \A stage : GoTo(t, stage) => req'[t].at = stage
  BY <1>a DEF GoTo, Requests
<1>4. ~CheckPublished(t) /\ ~CheckDuplicate(t) /\ ~CommitPublish(t)
  BY <1>2, <1>3 DEF CheckPublished, CheckDuplicate, CommitPublish, AcceptStages
<1>5. ~InsertInvite(t)
  BY <1>2, <1>a DEF InsertInvite, Requests, AcceptStages
<1>6. ASSUME ReadInvites(t) PROVE FALSE
  <2> DEFINE shared == SharedListens(User(t))
  <2>1. req' = [req EXCEPT ![t].at = "read_partners", ![t].pairs = shared,
                           ![t].held = shared, ![t].todo = shared]
    BY <1>2, <1>6 DEF ReadInvites
  <2> HIDE DEF shared
  <2> QED BY <2>1, <1>a DEF Requests, AcceptStages
<1>7. ASSUME ReadPartner(t) PROVE FALSE
  <2>1. PICK p \in req[t].todo : ReadPartner(t)!2!(p)
    BY <1>7 DEF ReadPartner
  <2> DEFINE B == IF Published(Other(p, User(t))) THEN req[t].both \cup {p} ELSE req[t].both
  <2>2. req'[t] = [req[t] EXCEPT !.todo = @ \ {p}, !.both = B]
    BY <2>1, <1>a
  <2> HIDE DEF B
  <2> QED BY <2>2, <1>7, <1>a DEF Requests, ReadPartner, At, AcceptStages
<1>8. ASSUME NEW stage, DeleteRow(t, stage) PROVE FALSE
  <2>1. req'[t].at = "withdraw"
    BY <1>8, <1>a DEF DeleteRow, Requests
  <2> QED BY <2>1 DEF AcceptStages
<1>9. ~ReadPairInvites(t)
  BY <1>a DEF ReadPairInvites, Requests, AcceptStages
<1>10. ~CommitUnfriend(t)
  BY <1>1 DEF CommitUnfriend
<1>11. ASSUME NEW u, NEW next, LookUpRating(t, u, next)
       PROVE  req'[t].held = req[t].held
  <2> DEFINE L == IF ratings[u] = "none" THEN req[t].lacking \cup {u} ELSE req[t].lacking
  <2>1. req'[t] = [req[t] EXCEPT !.at = next, !.lacking = L]
    BY <1>11, <1>a DEF LookUpRating
  <2> HIDE DEF L
  <2> QED BY <2>1, <1>a DEF Requests
<1>12. ReadSenderRating(t) \/ ReadReceiverRating(t)
  BY <1>2, <1>4, <1>5, <1>6, <1>7, <1>8, <1>9, <1>10 DEF Continue, NotifyInvite, CommitAccept,
     CommitDecline, CommitCancel, InsertRating, CommitCompletion, RebuildFails, CommitDeleteRating,
     CommitRemove, Withdraw
<1> QED BY <1>11, <1>12 DEF ReadSenderRating, ReadReceiverRating, AcceptStages, At, db

LEMMA AnswerNext ==
    ASSUME OneTab, OneTabIInv, AnswerIsFirst, [Next]_vars
    PROVE  AnswerIsFirst'
<1>a. TypeOK /\ req \in [Threads -> Requests] /\ \A x \in Threads : Consistent(req[x]) /\ Consistent(req[x])'
  BY InvStep DEF OneTabIInv, IInv, TypeOK, RequestsConsistent
<1>1. ASSUME NEW t \in Threads, Start(t)
      PROVE  AnswerIsFirst'
  <2>1. invites' = invites /\ \A x \in Threads : x # t => req'[x] = req[x]
    BY <1>1, <1>a DEF Start, StartCreateInvite, StartAccept, StartDecline, StartCancel, StartUnfriend,
        StartCreateRating, StartPublish, StartDeleteRating, StartRemove, Serve, db
  <2>2. ASSUME NEW p \in Pairs, StartAccept(t, p)
        PROVE  \A q \in req'[t].held : invites[q] = "pending"
    BY <2>2, <1>a DEF StartAccept, Serve, Request, AwaitsAnswer
  <2>3. ASSUME NEW p \in Pairs, \/ StartCreateInvite(t, p) \/ StartDecline(t, p)
                                \/ StartCancel(t, p) \/ StartUnfriend(t, p)
        PROVE  req'[t].at \notin AcceptStages
    BY <2>3, <1>a DEF StartCreateInvite, StartDecline, StartCancel, StartUnfriend, Serve, Request,
       AcceptStages
  <2>4. ASSUME NEW u \in Users, \/ StartCreateRating(t, u) \/ StartPublish(t, u)
                                \/ StartDeleteRating(t, u) \/ StartRemove(t, u)
        PROVE  req'[t].at \notin AcceptStages
    BY <2>4, <1>a DEF StartCreateRating, StartPublish, StartDeleteRating, StartRemove, Serve,
       Request, AcceptStages
  <2>5. req'[t].at \in AcceptStages => \A q \in req'[t].held : invites[q] = "pending"
    BY <1>1, <2>2, <2>3, <2>4 DEF Start
  <2> QED BY <2>1, <2>5 DEF AnswerIsFirst
<1>2. ASSUME NEW t \in Threads, Continue(t)
      PROVE  AnswerIsFirst'
  <2> SUFFICES ASSUME NEW x \in Threads, req'[x].at \in AcceptStages, NEW p \in Pairs, p \in req'[x].held
               PROVE  invites'[p] = "pending"
    BY TypeStep, <1>a DEF AnswerIsFirst, TypeOK, Requests
  <2>1. CASE x = t
    BY <2>1, <1>2, <1>a, ContinueAnswer DEF AnswerIsFirst
  <2>2. CASE x # t
    <3>1. req'[x].at = req[x].at /\ req'[x].by = req[x].by /\ p \in req[x].held
      BY <2>2, <1>2, <1>a, Neighbours DEF OneTabIInv, Undisturbed
    <3>2. invites[p] = "pending" /\ req[x].by = Receiver(p) /\ invites'[p] # "none"
      BY <3>1, <1>a DEF AnswerIsFirst, Consistent, AcceptStages
    <3>3. CASE invites'[p] # invites[p]
      <4>1. ChangesInvite(t, p)
        BY <1>2, <3>3, ContinueInvite DEF OneTabIInv
      <4>2. ~(At(t, "accept") /\ p \in req[t].held)
        BY <2>2, <3>1, <3>2, <1>a DEF Consistent, OneTabIInv, OneRequestEach, At, User, AcceptStages
      <4>3. ~(At(t, "read_partners") /\ p \in req[t].held)
        BY <3>2, <1>a DEF Consistent, At
      <4> QED BY <3>2, <4>1, <4>2, <4>3 DEF ChangesInvite
    <3> QED BY <3>2, <3>3
  <2> QED BY <2>1, <2>2
<1>3. ASSUME \/ \E c \in Couples : Befriend(c) \/ DeclineFriend(c)
             \/ \E u \in Users : MarkSeen(u, {"listen_invite"}) \/ MarkSeen(u, NotificationType)
             \/ UNCHANGED vars
      PROVE  AnswerIsFirst'
  <2>1. invites' = invites
    BY <1>3 DEF Befriend, DeclineFriend, MarkSeen, vars
  <2>2. ASSUME NEW x \in Threads
        PROVE  req'[x].at = req[x].at /\ req'[x].held = req[x].held
    <3>1. CASE req' = req
      BY <3>1
    <3>2. ASSUME NEW c \in Couples, DeclineFriend(c)
          PROVE  req'[x].at = req[x].at /\ req'[x].held = req[x].held
      <4>1. req'[x] = [req[x] EXCEPT !.live = @ /\ ~SameFriendship(x, c)] /\ req[x] \in Requests
        BY <3>2, <1>a DEF DeclineFriend
      <4> QED BY <4>1 DEF Requests
    <3> QED BY <1>3, <3>1, <3>2 DEF Befriend, MarkSeen, vars
  <2> QED BY <2>1, <2>2 DEF AnswerIsFirst
<1> QED BY <1>1, <1>2, <1>3 DEF Next, Fail, OneTab

\* The life of an invite only goes forward, for any users and requests, one
\* request of each user at a time: what is completed stays so until it goes.
THEOREM OnlyForward == OneTab => (Spec => StatusForward)
<1> SUFFICES ASSUME OneTab PROVE Spec => StatusForward
  OBVIOUS
<1> DEFINE Forward == \A p \in Pairs :
                         /\ invites[p] = "completed" => invites'[p] \in {"completed", "none"}
                         /\ invites[p] = "accepted" => invites'[p] # "pending"
<1>1. Init => OneTabIInv /\ AnswerIsFirst
  <2>1. Init => \A t \in Threads : req[t].at \notin AcceptStages
    BY DEF Init, Idle, Request, AcceptStages
  <2> QED BY <2>1, InitOneTab DEF AnswerIsFirst
<1>2. OneTabIInv /\ AnswerIsFirst /\ [Next]_vars => OneTabIInv' /\ AnswerIsFirst'
  BY OneTabNext, AnswerNext
<1>3. OneTabIInv /\ AnswerIsFirst /\ [Next]_vars => [Forward]_vars
  <2> SUFFICES ASSUME OneTabIInv, AnswerIsFirst, [Next]_vars, NEW p \in Pairs, invites'[p] # invites[p]
               PROVE  /\ invites[p] = "completed" => invites'[p] \in {"completed", "none"}
                      /\ invites[p] = "accepted" => invites'[p] # "pending"
    OBVIOUS
  <2>1. PICK t \in Threads : ChangesInvite(t, p)
    BY InviteChange DEF OneTabIInv
  <2> QED BY <2>1 DEF ChangesInvite, AnswerIsFirst, AcceptStages, At
<1> QED BY <1>1, <1>2, <1>3, PTL DEF Spec, StatusForward

----------------------------------------------------------------------------
(* ... and so the rows change as SharedListen says.                          *)

HasFinished(u) == Published(u) \/ Leaving(u)

\* The rating of the user a request serves is as the request has found or left it.
OwnRow(t) ==
    /\ ~At(t, "idle") => User(t) \in Users
    /\ req[t].at \in {"publish", "remove"} => req[t].live /\ ratings[User(t)] = "draft"
    /\ At(t, "delete_rating") => req[t].live /\ ratings[User(t)] # "none"
    /\ req[t].at \in {"read_invites", "read_partners"} => Published(User(t))

\* An answer, a withdrawal or an unfriending is about the invites of one couple.
CoupleStages == AcceptStages \cup {"decline", "cancel"} \cup UnfriendStages
InCouple(t) ==
    req[t].at \in CoupleStages =>
        \E p \in Pairs : req[t].pairs \subseteq {p, Mirror(p)} /\ req[t].lacking \subseteq Couple(p)

\* A partner who was seen published is so, or has begun to leave: once out of
\* the listen, there is no invite left to complete.
SeenFinished(t) ==
    At(t, "read_partners") =>
        \A p \in req[t].both \cap req[t].held :
            invites[p] = "completed" \/ HasFinished(Other(p, User(t)))

InHand(t) == OwnRow(t) /\ InCouple(t) /\ SeenFinished(t)
SharedIInv == OneTabIInv /\ AnswerIsFirst /\ \A t \in Threads : InHand(t)

LEMMA OtherFacts ==
    ASSUME NEW p \in Pairs, NEW u, Involves(p, u)
    PROVE  /\ u \in Users /\ Other(p, u) \in Users
           /\ Involves(p, Other(p, u))
           /\ Couple(p) = {u, Other(p, u)}
BY DEF Pairs, Involves, Other, Couple

\* How thread t may change the rating of u.
ChangesRating(t, u) ==
    \/ ratings[u] = "none" /\ ratings'[u] = "draft"
    \/ At(t, "publish") /\ u = User(t) /\ ratings'[u] = "published"
    \/ /\ req[t].at \in {"delete_rating", "remove"} /\ u = User(t)
       /\ ratings'[u] = "none" /\ req'[t].at = "withdraw" /\ req'[t].by = u

LEMMA ContinueRating ==
    ASSUME TypeOK, NEW t \in Threads, Continue(t), NEW u \in Users, ratings'[u] # ratings[u]
    PROVE  ChangesRating(t, u)
<1> USE DEF ChangesRating
<1>a. ratings \in [Users -> RatingStatus] /\ req \in [Threads -> Requests] /\ req[t] \in Requests
  BY DEF TypeOK
<1>1. \/ CommitAccept(t) \/ InsertRating(t) \/ CommitPublish(t)
      \/ DeleteRow(t, "delete_rating") \/ DeleteRow(t, "remove")
  BY DEF Continue, db, CheckPublished, CheckDuplicate, InsertInvite, NotifyInvite,
         ReadSenderRating, ReadReceiverRating, CommitDecline, CommitCancel, ReadInvites, RebuildFails,
         ReadPartner, CommitCompletion, CommitDeleteRating, CommitRemove, Withdraw,
         ReadPairInvites, CommitUnfriend
<1>2. CASE CommitAccept(t)
  BY <1>2 DEF CommitAccept, DraftsFit
<1>3. CASE InsertRating(t)
  BY <1>3, <1>a DEF InsertRating
<1>4. CASE CommitPublish(t)
  BY <1>4, <1>a DEF CommitPublish
<1>5. ASSUME NEW stage \in {"delete_rating", "remove"}, DeleteRow(t, stage)
      PROVE  ChangesRating(t, u)
  <2>1. u = User(t) /\ ratings'[u] = "none"
    BY <1>5, <1>a DEF DeleteRow
  <2>2. req'[t].at = "withdraw" /\ req'[t].by = req[t].by
    BY <1>5, <1>a DEF DeleteRow, Requests
  <2> QED BY <1>5, <2>1, <2>2 DEF DeleteRow, At, User
<1> QED BY <1>1, <1>2, <1>3, <1>4, <1>5

\* Who leaves goes on leaving, until the accepted invites are gone.
LEMMA StillLeaving ==
    ASSUME NEW t \in Threads, \A x \in Threads \ {t} : Undisturbed(x), NEW u, Leaving(u)
    PROVE  Leaving(u)' \/ (At(t, "withdraw") /\ User(t) = u)
BY DEF Leaving, Undisturbed, At, User

\* A step of t leaves the others with what they have in hand.
LEMMA OthersInHand ==
    ASSUME SharedIInv, OneTabIInv', NEW t \in Threads, Continue(t), NEW x \in Threads \ {t}
    PROVE  InHand(x)'
<1>a. /\ TypeOK /\ req \in [Threads -> Requests] /\ Consistent(req[x]) /\ Consistent(req[x])'
      /\ OneRequestEach /\ IInv
  BY DEF SharedIInv, OneTabIInv, IInv, TypeOK, RequestsConsistent
<1>b. InHand(x)
  BY DEF SharedIInv
<1>c. \A y \in Threads \ {t} : Undisturbed(y)
  BY <1>a, Neighbours
<1>d. Undisturbed(x)
  BY <1>c
<1>e. ~At(t, "idle")
  BY DEF Continue, At, CheckPublished, CheckDuplicate, InsertInvite, NotifyInvite,
         ReadSenderRating, ReadReceiverRating, CommitAccept, CommitDecline, CommitCancel,
         InsertRating, CommitPublish, ReadInvites, RebuildFails, ReadPartner, CommitCompletion,
         CommitDeleteRating, CommitRemove, DeleteRow, Withdraw, ReadPairInvites, CommitUnfriend
<1>1. ~At(x, "idle") => User(x) # User(t)
  BY <1>a, <1>e DEF OneRequestEach
<1>2. InCouple(x)'
  BY <1>b, <1>d DEF InHand, InCouple, Undisturbed
<1>3. OwnRow(x)'
  <2>1. ASSUME ~At(x, "idle"), ratings[User(x)] # "none"
        PROVE  ratings'[User(x)] = ratings[User(x)]
    BY <1>1, <1>a, <1>b, <2>1, ContinueRating DEF InHand, OwnRow, ChangesRating
  <2>2. ~At(x, "idle") => User(x) \in Users
    BY <1>b DEF InHand, OwnRow
  <2>3. req[x].at \in {"publish", "remove", "delete_rating"} => req'[x].live = req[x].live
    BY <1>d DEF Undisturbed, KeepsRating, UnfriendStages
  <2> QED BY <1>b, <1>d, <2>1, <2>2, <2>3 DEF InHand, OwnRow, Undisturbed, Published, At, User
<1>4. SeenFinished(x)'
  <2> SUFFICES ASSUME At(x, "read_partners")', NEW p \in Pairs, p \in (req[x].both)', p \in (req[x].held)'
               PROVE  invites'[p] = "completed" \/ HasFinished(Other(p, User(x)))'
    <3>1. (req[x].held)' \subseteq Pairs
      BY DEF OneTabIInv, IInv, TypeOK, Requests
    <3> QED BY <3>1 DEF SeenFinished
  <2>1. /\ At(x, "read_partners") /\ p \in req[x].both /\ p \in req[x].held
        /\ User(x)' = User(x)
    BY <1>d DEF Undisturbed, At, User
  <2>2. Involves(p, User(x)) /\ invites[p] \in {"accepted", "completed"} /\ invites'[p] # "none"
    BY <1>a, <2>1 DEF Consistent, At, User
  <2>3. PICK v \in Users : v = Other(p, User(x)) /\ Involves(p, v) /\ Other(p, User(x))' = v
    BY <2>1, <2>2, OtherFacts DEF Other
  <2>4. invites[p] = "completed" \/ HasFinished(v)
    BY <1>b, <2>1, <2>3 DEF InHand, SeenFinished
  <2>5. CASE invites[p] = "completed"
    <3>1. invites'[p] # invites[p] => ChangesInvite(t, p)
      BY <1>a, ContinueInvite
    <3> QED BY <2>2, <2>5, <3>1 DEF ChangesInvite, SharedIInv, AnswerIsFirst, AcceptStages, At
  <2>6. CASE Published(v)
    <3>1. CASE ratings'[v] = ratings[v]
      BY <2>3, <2>6, <3>1 DEF Published, HasFinished
    <3>2. CASE ratings'[v] # ratings[v]
      <4>1. ChangesRating(t, v)
        BY <1>a, <2>3, <3>2, ContinueRating
      <4> QED BY <2>3, <2>6, <3>2, <4>1 DEF ChangesRating, Published, HasFinished, Leaving, At, User
    <3> QED BY <3>1, <3>2
  <2>7. CASE invites[p] = "accepted" /\ Leaving(v)
    <3>1. ~(At(t, "withdraw") /\ User(t) = v)
      <4> SUFFICES ASSUME At(t, "withdraw"), User(t) = v
                   PROVE  FALSE
        OBVIOUS
      <4>1. Withdraw(t)
        BY DEF Continue, At, CheckPublished, CheckDuplicate, InsertInvite, NotifyInvite,
               ReadSenderRating, ReadReceiverRating, CommitAccept, CommitDecline, CommitCancel,
               InsertRating, CommitPublish, ReadInvites, RebuildFails, ReadPartner, CommitCompletion,
               CommitDeleteRating, CommitRemove, DeleteRow, ReadPairInvites, CommitUnfriend
      <4>2. p \in Withdrawn(User(t))
        BY <2>3, <2>7 DEF Withdrawn
      <4>3. invites'[p] = "none"
        BY <4>1, <4>2 DEF Withdraw, DeleteInvites
      <4> QED BY <2>2, <4>3
    <3>2. Leaving(v)'
      BY <1>c, <2>7, <3>1, StillLeaving
    <3> QED BY <2>3, <3>2 DEF HasFinished, Leaving
  <2> QED BY <2>2, <2>4, <2>5, <2>6, <2>7 DEF HasFinished
<1> QED BY <1>2, <1>3, <1>4 DEF InHand

\* What x has seen stays so when no invite changes and nobody stops having finished.
LEMMA SameSeen ==
    ASSUME SharedIInv, NEW x \in Threads, req'[x].at = req[x].at, req'[x].by = req[x].by,
           req'[x].held = req[x].held, req'[x].both = req[x].both,
           UNCHANGED <<invites, ratings>>, \A u \in Users : Leaving(u) => Leaving(u)'
    PROVE  SeenFinished(x)'
<1> SUFFICES ASSUME At(x, "read_partners"), NEW p \in req[x].both \cap req[x].held
             PROVE  invites[p] = "completed" \/ HasFinished(Other(p, User(x)))'
  BY DEF SeenFinished, At
<1>1. p \in Pairs /\ Involves(p, User(x))
  BY DEF SharedIInv, OneTabIInv, IInv, TypeOK, RequestsConsistent, Consistent, Requests, At, User
<1>2. PICK v \in Users : v = Other(p, User(x)) /\ Other(p, User(x))' = v
  BY <1>1, OtherFacts DEF Other, User
<1>3. invites[p] = "completed" \/ HasFinished(v)
  BY <1>2 DEF SharedIInv, InHand, SeenFinished
<1>4. HasFinished(v) => HasFinished(v)'
  BY DEF HasFinished, Published
<1> QED BY <1>2, <1>3, <1>4 DEF HasFinished, Published, Leaving

\* A request in a stage where it has nothing to keep.
LEMMA NothingInHand ==
    ASSUME NEW t \in Threads,
           req'[t].at \in Stages \ (CoupleStages \cup {"publish", "remove", "delete_rating",
                                                       "read_invites", "read_partners"}),
           req'[t].at = "idle" \/ req'[t].by \in Users
    PROVE  InHand(t)'
BY DEF InHand, OwnRow, InCouple, SeenFinished, At, User

\* A step of t leaves t with what it needs for the next.
LEMMA ContinueInHand ==
    ASSUME SharedIInv, NEW t \in Threads, Continue(t)
    PROVE  InHand(t)'
<1>a. /\ TypeOK /\ req \in [Threads -> Requests] /\ req[t] \in Requests /\ Consistent(req[t])
      /\ ratings \in [Users -> RatingStatus] /\ InHand(t)
  BY DEF SharedIInv, OneTabIInv, IInv, TypeOK, RequestsConsistent
<1>b. /\ CoupleStages = {"accept_sender", "accept_receiver", "accept", "decline", "cancel", "read_pair", "unfriend"}
      /\ Idle.at = "idle" /\ {"idle", "check_duplicate", "notify", "withdraw"} \subseteq Stages
  BY DEF CoupleStages, AcceptStages, UnfriendStages, Idle, Request, Stages
<1>c. ~At(t, "idle") => req[t].by \in Users
  BY <1>a DEF InHand, OwnRow, User
<1>1. ASSUME req'[t].at \in {"idle", "check_duplicate", "notify", "withdraw"},
             req'[t].at = "idle" \/ (~At(t, "idle") /\ req'[t].by = req[t].by)
      PROVE  InHand(t)'
  BY <1>1, <1>b, <1>c, NothingInHand
<1>2. ASSUME Done(t) PROVE InHand(t)'
  <2>1. req'[t].at = "idle"
    BY <1>2, <1>a, <1>b DEF Done
  <2> QED BY <1>1, <2>1
<1>3. ASSUME NEW P, DeleteInvites(P, t, Idle) PROVE InHand(t)'
  <2>1. req'[t].at = "idle"
    BY <1>3, <1>b DEF DeleteInvites
  <2> QED BY <1>1, <2>1
<1>4. CASE CheckPublished(t) \/ CheckDuplicate(t) \/ InsertInvite(t)
  <2> SUFFICES ASSUME ~Done(t) PROVE InHand(t)'
    BY <1>2
  <2>1. ~At(t, "idle") /\ req'[t].at \in {"check_duplicate", "insert_invite", "notify"} /\ req'[t].by = req[t].by
    BY <1>4, <1>a DEF CheckPublished, CheckDuplicate, InsertInvite, GoTo, At, Requests
  <2>2. req'[t].at \in Stages \ CoupleStages
    BY <2>1, <1>b DEF Stages
  <2> QED BY <1>c, <2>1, <2>2, NothingInHand
<1>5. ASSUME NEW u \in Users, NEW next \in {"accept_receiver", "accept"}, LookUpRating(t, u, next),
             req[t].at \in {"accept_sender", "accept_receiver"},
             NEW p \in req[t].pairs, u \in Couple(p)
      PROVE  InHand(t)'
  <2> DEFINE K == IF ratings[u] = "none" THEN req[t].lacking \cup {u} ELSE req[t].lacking
  <2>1. req'[t] = [req[t] EXCEPT !.at = next, !.lacking = K]
    BY <1>5, <1>a DEF LookUpRating
  <2>2. K \subseteq req[t].lacking \cup {u}
    OBVIOUS
  <2> HIDE DEF K
  <2>3. req'[t].at = next /\ req'[t].by = req[t].by /\ req'[t].pairs = req[t].pairs /\ req'[t].lacking = K
    BY <2>1, <1>a DEF Requests
  <2>4. PICK q \in Pairs : req[t].pairs \subseteq {q, Mirror(q)} /\ req[t].lacking \subseteq Couple(q)
    BY <1>5, <1>a, <1>b DEF InHand, InCouple
  <2>5. Couple(p) = Couple(q)
    BY <1>5, <2>4 DEF Couple, Mirror
  <2>6. InCouple(t)'
    BY <1>5, <2>2, <2>3, <2>4, <2>5 DEF InCouple
  <2>7. req[t].by \in Users
    BY <1>5, <1>c DEF At
  <2> QED BY <2>3, <2>6, <2>7 DEF InHand, OwnRow, SeenFinished, At, User
<1>6. CASE ReadSenderRating(t) \/ ReadReceiverRating(t)
  <2>1. \A p \in req[t].pairs : p \in Pairs /\ Sender(p) \in Couple(p) /\ Receiver(p) \in Couple(p)
    BY <1>a DEF Requests, Sender, Receiver, Couple
  <2>2. \A p \in Pairs : Sender(p) \in Users /\ Receiver(p) \in Users
    BY DEF Pairs, Sender, Receiver
  <2> QED BY <1>5, <1>6, <2>1, <2>2 DEF ReadSenderRating, ReadReceiverRating, At
<1>7. CASE CommitPublish(t)
  <2>1. CASE Done(t)
    BY <1>2, <2>1
  <2>2. CASE ~Done(t)
    <3>1. At(t, "publish") /\ ratings' = [ratings EXCEPT ![User(t)] = "published"] /\ GoTo(t, "read_invites")
      BY <1>7, <2>2 DEF CommitPublish
    <3>2. req'[t].at = "read_invites" /\ req'[t].by = req[t].by /\ req[t].by \in Users
      BY <3>1, <1>a, <1>c DEF GoTo, Requests, At
    <3>3. ratings'[req[t].by] = "published"
      BY <3>1, <3>2, <1>a DEF User
    <3> QED BY <3>2, <3>3, <1>b DEF InHand, OwnRow, InCouple, SeenFinished, Published, At, User
  <2> QED BY <2>1, <2>2
<1>8. CASE ReadInvites(t)
  <2> DEFINE shared == SharedListens(User(t))
  <2>1. CASE Done(t)
    BY <1>2, <2>1
  <2>2. CASE ~Done(t)
    <3>1. /\ At(t, "read_invites") /\ ratings' = ratings
          /\ req' = [req EXCEPT ![t].at = "read_partners", ![t].pairs = shared,
                                ![t].held = shared, ![t].todo = shared]
      BY <1>8, <2>2 DEF ReadInvites, db
    <3> HIDE DEF shared
    <3>2. req'[t].at = "read_partners" /\ req'[t].by = req[t].by /\ req'[t].both = req[t].both
      BY <3>1, <1>a DEF Requests
    <3>3. req[t].both = {} /\ req[t].by \in Users /\ Published(req[t].by)
      BY <3>1, <1>a, <1>c DEF Consistent, InHand, OwnRow, At, User
    <3>4. OwnRow(t)'
      BY <3>1, <3>2, <3>3 DEF OwnRow, Published, At, User
    <3>5. SeenFinished(t)'
      BY <3>2, <3>3 DEF SeenFinished
    <3> QED BY <3>2, <3>4, <3>5, <1>b DEF InHand, InCouple
  <2> QED BY <2>1, <2>2
<1>9. CASE ReadPartner(t)
  <2>1. PICK q \in req[t].todo : ReadPartner(t)!2!(q)
    BY <1>9 DEF ReadPartner
  <2>2. At(t, "read_partners") /\ ratings' = ratings /\ invites' = invites
    BY <1>9 DEF ReadPartner, db
  <2> DEFINE B == IF Published(Other(q, User(t))) THEN req[t].both \cup {q} ELSE req[t].both
  <2>3. req' = [req EXCEPT ![t] = [req[t] EXCEPT !.todo = @ \ {q}, !.both = B]]
    BY <2>1, <1>a
  <2>4. \A p \in B : p \in req[t].both \/ (p = q /\ Published(Other(p, User(t))))
    OBVIOUS
  <2> HIDE DEF B
  <2>5. /\ req'[t].at = "read_partners" /\ req'[t].by = req[t].by
        /\ req'[t].both = B /\ req'[t].held = req[t].held
    BY <2>2, <2>3, <1>a DEF Requests, At
  <2>6. \A u \in Users : HasFinished(u) => HasFinished(u)'
    <3>1. \A x \in Threads : x # t => req'[x] = req[x]
      BY <2>3, <1>a
    <3> QED BY <2>2, <3>1 DEF HasFinished, Published, Leaving, At, User
  <2>7. ASSUME NEW p \in B \cap req[t].held
        PROVE  invites'[p] = "completed" \/ HasFinished(Other(p, User(t)))'
    <3>1. p \in Pairs /\ Involves(p, User(t))
      BY <2>2, <2>7, <1>a DEF Consistent, Requests, At, User
    <3>2. PICK v \in Users : v = Other(p, User(t)) /\ Other(p, User(t))' = v
      BY <2>5, <3>1, OtherFacts DEF Other, User
    <3>3. invites[p] = "completed" \/ HasFinished(v)
      BY <2>2, <2>4, <2>7, <3>2, <1>a DEF InHand, SeenFinished, HasFinished
    <3>4. HasFinished(v) => HasFinished(v)'
      BY <2>6
    <3> QED BY <2>2, <3>2, <3>3, <3>4 DEF HasFinished, Published, Leaving
  <2>8. SeenFinished(t)'
    BY <2>5, <2>7 DEF SeenFinished
  <2>9. OwnRow(t)'
    BY <2>2, <2>5, <1>a, <1>c DEF InHand, OwnRow, Published, At, User
  <2> QED BY <2>5, <2>8, <2>9, <1>b DEF InHand, InCouple
<1>10. ASSUME NEW stage \in {"delete_rating", "remove"}, DeleteRow(t, stage)
       PROVE  InHand(t)'
  <2>1. req'[t].at = "withdraw" /\ req'[t].by = req[t].by /\ ~At(t, "idle")
    BY <1>10, <1>a DEF DeleteRow, Requests, At
  <2> QED BY <1>1, <2>1
<1>11. CASE ReadPairInvites(t)
  <2>1. At(t, "read_pair") /\ req' = [req EXCEPT ![t].at = "unfriend", ![t].held = InvitesBetween(t)]
    BY <1>11 DEF ReadPairInvites
  <2>2. req'[t].at = "unfriend" /\ req'[t].by = req[t].by /\ req'[t].pairs = req[t].pairs
        /\ req'[t].lacking = req[t].lacking
    BY <2>1, <1>a DEF Requests
  <2>3. InCouple(t)'
    BY <2>1, <2>2, <1>a, <1>b DEF InHand, InCouple, At
  <2> QED BY <2>1, <2>2, <2>3, <1>c DEF InHand, OwnRow, SeenFinished, At, User
<1>12. CASE CommitUnfriend(t)
  <2>1. req'[t].at = "idle"
    BY <1>12, <1>b DEF CommitUnfriend
  <2> QED BY <1>1, <2>1
<1> QED BY <1>2, <1>3, <1>4, <1>6, <1>7, <1>8, <1>9, <1>10, <1>11, <1>12
        DEF Continue, NotifyInvite, CommitAccept, CommitDecline, CommitCancel, InsertRating, RebuildFails, CommitCompletion,
            CommitDeleteRating, CommitRemove, Withdraw

LEMMA StartInHand ==
    ASSUME SharedIInv, NEW t \in Threads, Start(t)
    PROVE  \A x \in Threads : InHand(x)'
<1>a. req \in [Threads -> Requests] /\ \A x \in Threads : InHand(x)
  BY DEF SharedIInv, OneTabIInv, IInv, TypeOK
<1>b. CoupleStages = {"accept_sender", "accept_receiver", "accept", "decline", "cancel", "read_pair", "unfriend"}
  BY DEF CoupleStages, AcceptStages, UnfriendStages
<1>1. /\ At(t, "idle") /\ invites' = invites /\ ratings' = ratings
      /\ \A x \in Threads : x # t => req'[x] = req[x]
  BY <1>a DEF Start, StartCreateInvite, StartAccept, StartDecline, StartCancel, StartUnfriend,
      StartCreateRating, StartPublish, StartDeleteRating, StartRemove, Serve, db
<1>2. \A u \in Users : Leaving(u) => Leaving(u)'
  BY <1>1 DEF Leaving, At, User
<1>3. ASSUME NEW x \in Threads, x # t
      PROVE  InHand(x)'
  <2>1. SeenFinished(x)'
    BY <1>1, <1>2, <1>3, SameSeen
  <2> QED BY <2>1, <1>1, <1>3, <1>a DEF InHand, OwnRow, InCouple, Published, At, User
<1>4. ASSUME NEW p \in Pairs, NEW r, NEW u \in Users, NEW op, Serve(t, u, op, r), r.by = u,
             r.at \in CoupleStages, r.pairs \subseteq {p, Mirror(p)}, r.lacking = {}
      PROVE  InHand(t)'
  <2>1. req'[t] = r
    BY <1>4, <1>a DEF Serve
  <2> QED BY <1>4, <1>b, <2>1 DEF InHand, OwnRow, InCouple, SeenFinished, At, User
<1>5. ASSUME NEW p \in Pairs, \/ StartAccept(t, p) \/ StartDecline(t, p)
                              \/ StartCancel(t, p) \/ StartUnfriend(t, p)
      PROVE  InHand(t)'
  <2>1. Sender(p) \in Users /\ Receiver(p) \in Users /\ p[1] \in Users
    BY PairFacts DEF Sender, Receiver
  <2> DEFINE answer(s) == Request(Receiver(p), s, {p}, {p}, FALSE)
             cancel == Request(Sender(p), "cancel", {p}, {p}, FALSE)
             unfriend == Request(p[1], "read_pair", {p, Mirror(p)}, {}, TRUE)
  <2>2. /\ \A s : /\ answer(s).by = Receiver(p) /\ answer(s).at = s
                 /\ answer(s).pairs = {p} /\ answer(s).lacking = {}
        /\ cancel.by = Sender(p) /\ cancel.at = "cancel" /\ cancel.pairs = {p} /\ cancel.lacking = {}
        /\ unfriend.by = p[1] /\ unfriend.at = "read_pair"
        /\ unfriend.pairs = {p, Mirror(p)} /\ unfriend.lacking = {}
    BY DEF Request
  <2>3. /\ StartAccept(t, p) => Serve(t, Receiver(p), "accept", answer("accept_sender"))
        /\ StartDecline(t, p) => Serve(t, Receiver(p), "decline", answer("decline"))
        /\ StartCancel(t, p) => Serve(t, Sender(p), "cancel", cancel)
        /\ StartUnfriend(t, p) => Serve(t, p[1], "unfriend", unfriend)
    BY DEF StartAccept, StartDecline, StartCancel, StartUnfriend
  <2> HIDE DEF answer, cancel, unfriend
  <2>4. StartAccept(t, p) \/ StartDecline(t, p) => InHand(t)'
    BY <2>1, <2>2, <2>3, <1>4, <1>b
  <2>5. StartCancel(t, p) => InHand(t)'
    BY <2>1, <2>2, <2>3, <1>4, <1>b
  <2>6. StartUnfriend(t, p) => InHand(t)'
    BY <2>1, <2>2, <2>3, <1>4, <1>b
  <2> QED BY <1>5, <2>4, <2>5, <2>6
<1>6. ASSUME NEW p \in Pairs, StartCreateInvite(t, p)
      PROVE  InHand(t)'
  <2>1. req'[t].at = "check_published" /\ req'[t].by = Sender(p) /\ Sender(p) \in Users
    BY <1>6, <1>a, PairFacts DEF StartCreateInvite, Serve, Request, Sender
  <2>2. req'[t].at \in Stages \ CoupleStages
    BY <2>1, <1>b DEF Stages
  <2> QED BY <2>1, <2>2, NothingInHand
<1>7. ASSUME NEW u \in Users, \/ StartCreateRating(t, u) \/ StartPublish(t, u)
                              \/ StartDeleteRating(t, u) \/ StartRemove(t, u)
      PROVE  InHand(t)'
  <2>1. \/ /\ req'[t] = Request(u, "insert_rating", {}, {}, FALSE)
        \/ /\ req'[t] = Request(u, "publish", {}, {}, TRUE) /\ ratings[u] = "draft"
        \/ /\ req'[t] = Request(u, "delete_rating", {}, {}, TRUE) /\ ratings[u] # "none"
        \/ /\ req'[t] = Request(u, "remove", {}, {}, TRUE) /\ ratings[u] = "draft"
    BY <1>7, <1>a DEF StartCreateRating, StartPublish, StartDeleteRating, StartRemove, Serve
  <2>2. req'[t].by = u /\ req'[t].at \in {"insert_rating", "publish", "delete_rating", "remove"}
    BY <2>1 DEF Request
  <2>3. /\ req'[t].at \in {"publish", "remove"} => req'[t].live /\ ratings[u] = "draft"
        /\ req'[t].at = "delete_rating" => req'[t].live /\ ratings[u] # "none"
    BY <2>1 DEF Request
  <2> QED BY <1>1, <1>b, <2>2, <2>3 DEF InHand, OwnRow, InCouple, SeenFinished, At, User
<1> QED BY <1>3, <1>5, <1>6, <1>7 DEF Start

LEMMA BackgroundInHand ==
    ASSUME SharedIInv,
           \/ \E c \in Couples : Befriend(c) \/ DeclineFriend(c)
           \/ \E u \in Users : MarkSeen(u, {"listen_invite"}) \/ MarkSeen(u, NotificationType)
           \/ UNCHANGED vars
    PROVE  /\ UNCHANGED <<invites, ratings>>
           /\ \A x \in Threads : req'[x].at = req[x].at /\ req'[x].by = req[x].by
           /\ \A x \in Threads : InHand(x)'
<1>1. UNCHANGED <<invites, ratings>>
  BY DEF Befriend, DeclineFriend, MarkSeen, vars
<1>2. ASSUME NEW x \in Threads
      PROVE  /\ req'[x].at = req[x].at /\ req'[x].by = req[x].by /\ req'[x].held = req[x].held
             /\ req'[x].pairs = req[x].pairs /\ req'[x].lacking = req[x].lacking /\ req'[x].both = req[x].both
             /\ req[x].at \notin UnfriendStages => req'[x].live = req[x].live
  <2>1. CASE req' = req
    BY <2>1
  <2>2. ASSUME NEW c \in Couples, DeclineFriend(c)
        PROVE  <1>2!2
    <3> DEFINE apart == ~SameFriendship(x, c)
    <3>1. req'[x] = [req[x] EXCEPT !.live = @ /\ apart] /\ req[x] \in Requests
      BY <2>2 DEF DeclineFriend, SharedIInv, OneTabIInv, IInv, TypeOK
    <3>2. req[x].at \notin UnfriendStages => apart
      BY DEF SameFriendship
    <3> HIDE DEF apart
    <3>3. req'[x].live = (req[x].live /\ apart) /\ req[x].live \in BOOLEAN
      BY <3>1 DEF Requests
    <3>4. req[x].at \notin UnfriendStages => req'[x].live = req[x].live
      BY <3>2, <3>3
    <3> QED BY <3>1, <3>4 DEF Requests
  <2> QED BY <2>1, <2>2 DEF Befriend, MarkSeen, vars
<1>3. \A u \in Users : Leaving(u) => Leaving(u)'
  BY <1>2 DEF Leaving, At, User
<1>4. ASSUME NEW x \in Threads
      PROVE  InHand(x)'
  <2>a. InHand(x)
    BY DEF SharedIInv
  <2>1. SeenFinished(x)'
    BY <1>1, <1>2, <1>3, SameSeen
  <2>2. OwnRow(x)'
    BY <1>1, <1>2, <2>a DEF InHand, OwnRow, Published, UnfriendStages, At, User
  <2>3. InCouple(x)'
    BY <1>2, <2>a DEF InHand, InCouple
  <2> QED BY <2>1, <2>2, <2>3 DEF InHand
<1> QED BY <1>1, <1>2, <1>4

LEMMA SharedNext ==
    ASSUME OneTab, SharedIInv, [Next]_vars
    PROVE  SharedIInv'
<1>1. OneTabIInv' /\ AnswerIsFirst'
  BY OneTabNext, AnswerNext DEF SharedIInv
<1>2. \A x \in Threads : InHand(x)'
  BY <1>1, StartInHand, ContinueInHand, OthersInHand, BackgroundInHand DEF Next, Fail, OneTab
<1> QED BY <1>1, <1>2 DEF SharedIInv

\* Who leaves after a step of t that is no removal, and takes nobody out of a listen.
LEMMA SameLeaving ==
    ASSUME NEW t \in Threads, \A x \in Threads \ {t} : req'[x].at = req[x].at /\ req'[x].by = req[x].by,
           ~At(t, "withdraw"), req'[t].at # "withdraw"
    PROVE  {u \in Users : Leaving(u)}' = {u \in Users : Leaving(u)}
BY DEF Leaving, At, User

LEMMA SharedStutters ==
    ASSUME invites' = invites, ratings' = ratings,
           {u \in Users : Leaving(u)}' = {u \in Users : Leaving(u)}
    PROVE  UNCHANGED Shared!vars
BY DEF Shared!vars

LEMMA SamePairs ==
    /\ Shared!Invites = Pairs
    /\ \A p : Shared!Partners(p) = Couple(p)
    /\ \A p \in Pairs : \A u : u \in Shared!Partners(p) <=> Involves(p, u)
BY DEF Shared!Invites, Shared!Partners, Pairs, Couple, Involves

\* Each step of a handler is a step of SharedListen, or none.
LEMMA ContinueShared ==
    ASSUME SharedIInv, NEW t \in Threads, Continue(t)
    PROVE  Shared!Next \/ UNCHANGED Shared!vars
<1> DEFINE L == {u \in Users : Leaving(u)}
<1>a. /\ TypeOK /\ req \in [Threads -> Requests] /\ req[t] \in Requests /\ Consistent(req[t])
      /\ invites \in [Pairs -> InviteStatus] /\ ratings \in [Users -> RatingStatus] /\ InHand(t)
      /\ OneRequestEach
  BY DEF SharedIInv, OneTabIInv, IInv, TypeOK, RequestsConsistent
<1>b. \A x \in Threads \ {t} : req'[x].at = req[x].at /\ req'[x].by = req[x].by
  BY <1>a, Neighbours DEF Undisturbed
<1>c. ~At(t, "idle") => User(t) \in Users
  BY <1>a DEF InHand, OwnRow
<1>d. Idle.at = "idle"
  BY DEF Idle, Request
<1>e. ASSUME Done(t) PROVE req'[t].at # "withdraw"
  BY <1>e, <1>a, <1>d DEF Done
<1>f. CoupleStages = {"accept_sender", "accept_receiver", "accept", "decline", "cancel", "read_pair", "unfriend"}
  BY DEF CoupleStages, AcceptStages, UnfriendStages
<1>1. ASSUME ~At(t, "withdraw"), req'[t].at # "withdraw" PROVE L' = L
  BY <1>1, <1>b, SameLeaving
<1>2. ASSUME ~At(t, "withdraw"), req'[t].at # "withdraw", invites' = invites, ratings' = ratings
      PROVE  UNCHANGED Shared!vars
  BY <1>1, <1>2, SharedStutters
<1>3. CASE CheckPublished(t) \/ CheckDuplicate(t) \/ NotifyInvite(t) \/ ReadSenderRating(t)
           \/ ReadReceiverRating(t) \/ ReadInvites(t) \/ RebuildFails(t) \/ ReadPartner(t) \/ ReadPairInvites(t)
  <2>1. ~At(t, "withdraw") /\ invites' = invites /\ ratings' = ratings
    BY <1>3 DEF CheckPublished, CheckDuplicate, NotifyInvite, ReadSenderRating, ReadReceiverRating,
                ReadInvites, RebuildFails, ReadPartner, ReadPairInvites, At, db
  <2>2. \A s : GoTo(t, s) => req'[t].at = s
    BY <1>a DEF GoTo, Requests
  <2>3. ASSUME NEW u, NEW next, LookUpRating(t, u, next) PROVE req'[t].at = next
    <3> DEFINE K == IF ratings[u] = "none" THEN req[t].lacking \cup {u} ELSE req[t].lacking
    <3>1. req'[t] = [req[t] EXCEPT !.at = next, !.lacking = K]
      BY <2>3, <1>a DEF LookUpRating
    <3> HIDE DEF K
    <3> QED BY <3>1, <1>a DEF Requests
  <2>4. ASSUME ReadInvites(t), ~Done(t) PROVE req'[t].at = "read_partners"
    <3> DEFINE shared == SharedListens(User(t))
    <3>1. req' = [req EXCEPT ![t].at = "read_partners", ![t].pairs = shared,
                             ![t].held = shared, ![t].todo = shared]
      BY <2>4 DEF ReadInvites
    <3> HIDE DEF shared
    <3> QED BY <3>1, <1>a DEF Requests
  <2>5. ASSUME ReadPartner(t) PROVE req'[t].at = "read_partners"
    <3>1. PICK q \in req[t].todo : ReadPartner(t)!2!(q)
      BY <2>5 DEF ReadPartner
    <3> DEFINE B == IF Published(Other(q, User(t))) THEN req[t].both \cup {q} ELSE req[t].both
    <3>2. req'[t] = [req[t] EXCEPT !.todo = @ \ {q}, !.both = B]
      BY <3>1, <1>a
    <3> HIDE DEF B
    <3> QED BY <2>5, <3>2, <1>a DEF ReadPartner, Requests, At
  <2>6. ASSUME ReadPairInvites(t) PROVE req'[t].at = "unfriend"
    BY <2>6, <1>a DEF ReadPairInvites, Requests
  <2>7. req'[t].at # "withdraw"
    BY <1>3, <1>e, <2>2, <2>3, <2>4, <2>5, <2>6 DEF CheckPublished, CheckDuplicate, NotifyInvite,
       ReadSenderRating, ReadReceiverRating, RebuildFails
  <2> QED BY <1>2, <2>1, <2>7
<1>4. CASE InsertInvite(t)
  <2>1. PICK p \in req[t].pairs : InsertInvite(t)!2!(p)
    BY <1>4 DEF InsertInvite
  <2>2. p \in Pairs /\ ~At(t, "withdraw") /\ ratings' = ratings
    BY <1>4, <1>a DEF InsertInvite, Requests, At
  <2>3. req'[t].at # "withdraw"
    BY <2>1, <1>a, <1>e DEF Requests
  <2>4. CASE invites[p] = "none" /\ invites' = [invites EXCEPT ![p] = "pending"]
    <3>1. invites' = [q \in Pairs |-> IF q \in {p} THEN "pending" ELSE invites[q]]
      BY <2>4, <1>a
    <3>2. Shared!Invite(p)
      BY <1>1, <2>2, <2>3, <2>4, <3>1, SamePairs DEF Shared!Invite, Shared!Becomes
    <3> QED BY <2>2, <3>2, SamePairs DEF Shared!Next
  <2>5. CASE invites' = invites
    BY <1>2, <2>2, <2>3, <2>5
  <2> QED BY <2>1, <2>4, <2>5
<1>5. CASE CommitAccept(t)
  <2>1. PICK p \in req[t].pairs : CommitAccept(t)!2!(p)
    BY <1>5 DEF CommitAccept
  <2>2. At(t, "accept") /\ Done(t)
    BY <1>5 DEF CommitAccept
  <2>3. p \in Pairs /\ ~At(t, "withdraw") /\ req'[t].at # "withdraw"
    BY <2>2, <1>a, <1>e DEF Requests, At
  <2>4. CASE p \in req[t].held /\ DraftsFit(t)
    <3>1. invites[p] = "pending"
      BY <2>2, <2>3, <2>4 DEF SharedIInv, AnswerIsFirst, AcceptStages, At
    <3>2. req[t].lacking \subseteq Couple(p)
      BY <2>1, <2>2, <1>a, <1>f DEF InHand, InCouple, Couple, Mirror, At
    <3>3. invites' = [q \in Pairs |-> IF q \in {p} THEN "accepted" ELSE invites[q]]
      BY <2>1, <2>4, <1>a
    <3>4. /\ req[t].lacking \in SUBSET Shared!Partners(p)
          /\ \A u \in req[t].lacking : ratings[u] = "none"
          /\ ratings' = [u \in Users |-> IF u \in req[t].lacking THEN "draft" ELSE ratings[u]]
      BY <2>1, <2>4, <3>2, SamePairs DEF DraftsFit
    <3>5. Shared!Accept(p)
      BY <1>1, <2>3, <3>1, <3>3, <3>4, SamePairs DEF Shared!Accept, Shared!Becomes
    <3> QED BY <2>3, <3>5, SamePairs DEF Shared!Next
  <2>5. CASE ~(p \in req[t].held /\ DraftsFit(t))
    BY <2>1, <2>3, <2>5, <1>2
  <2> QED BY <2>4, <2>5
<1>6. ASSUME req[t].at \in {"decline", "cancel", "unfriend"}, req'[t].at # "withdraw", ratings' = ratings,
             invites' = [p \in Pairs |-> IF p \in req[t].held THEN "none" ELSE invites[p]]
      PROVE  Shared!Next
  <2>1. PICK p \in Pairs : req[t].pairs \subseteq {p, Mirror(p)}
    BY <1>6, <1>a, <1>f DEF InHand, InCouple
  <2>2. req[t].held \in SUBSET {q \in Shared!Invites : Shared!Partners(q) = Shared!Partners(p)}
    <3>1. req[t].held \subseteq req[t].pairs /\ req[t].held \subseteq Pairs
      BY <1>a DEF Consistent, Requests
    <3>2. Couple(Mirror(p)) = Couple(p)
      BY DEF Couple, Mirror
    <3> QED BY <2>1, <3>1, <3>2, SamePairs
  <2>3. L' = L
    BY <1>1, <1>6 DEF At
  <2>4. Shared!End(p)
    BY <1>6, <2>2, <2>3, SamePairs DEF Shared!End, Shared!Becomes
  <2> QED BY <2>4, SamePairs DEF Shared!Next
<1>7. CASE CommitDecline(t) \/ CommitCancel(t)
  <2>1. req[t].at \in {"decline", "cancel"} /\ DeleteInvites(req[t].held, t, Idle) /\ ratings' = ratings
    BY <1>7 DEF CommitDecline, CommitCancel, At
  <2>2. req'[t].at # "withdraw" /\ invites' = [p \in Pairs |-> IF p \in req[t].held THEN "none" ELSE invites[p]]
    BY <2>1, <1>d DEF DeleteInvites
  <2> QED BY <1>6, <2>1, <2>2
<1>8. CASE CommitUnfriend(t)
  <2>1. /\ req[t].at = "unfriend" /\ ratings' = ratings
        /\ invites' = [p \in Pairs |-> IF p \in req[t].held THEN "none" ELSE invites[p]]
    BY <1>8 DEF CommitUnfriend, At
  <2>2. req'[t].at # "withdraw"
    BY <1>8, <1>d DEF CommitUnfriend
  <2> QED BY <1>6, <2>1, <2>2
<1>9. CASE InsertRating(t)
  <2>1. /\ At(t, "insert_rating") /\ invites' = invites /\ Done(t)
        /\ ratings' = [ratings EXCEPT ![User(t)] = IF @ = "none" THEN "draft" ELSE @]
    BY <1>9 DEF InsertRating
  <2>2. User(t) \in Users /\ ~At(t, "withdraw") /\ req'[t].at # "withdraw"
    BY <2>1, <1>c, <1>e DEF At
  <2>3. CASE ratings[User(t)] = "none"
    <3>1. ratings' = [ratings EXCEPT ![User(t)] = "draft"]
      BY <2>1, <2>2, <2>3, <1>a
    <3>2. Shared!Rate(User(t))
      BY <1>1, <2>1, <2>2, <2>3, <3>1 DEF Shared!Rate, Shared!IsRated
    <3> QED BY <2>2, <3>2 DEF Shared!Next
  <2>4. CASE ratings[User(t)] # "none"
    <3>1. ratings' = ratings
      BY <2>1, <2>2, <2>4, <1>a
    <3> QED BY <1>2, <2>1, <2>2, <3>1
  <2> QED BY <2>3, <2>4
<1>10. CASE CommitPublish(t)
  <2>1. At(t, "publish") /\ req[t].live /\ ratings[User(t)] = "draft" /\ User(t) \in Users
    BY <1>10, <1>a, <1>c DEF CommitPublish, InHand, OwnRow, At
  <2>2. ratings' = [ratings EXCEPT ![User(t)] = "published"] /\ GoTo(t, "read_invites") /\ invites' = invites
    BY <1>10, <2>1 DEF CommitPublish
  <2>3. ~At(t, "withdraw") /\ req'[t].at # "withdraw"
    BY <2>1, <2>2, <1>a DEF GoTo, Requests, At
  <2>4. Shared!Finish(User(t))
    BY <1>1, <2>1, <2>2, <2>3 DEF Shared!Finish, Shared!IsRated
  <2> QED BY <2>1, <2>4 DEF Shared!Next
<1>11. CASE CommitCompletion(t)
  <2>1. At(t, "read_partners") /\ Done(t) /\ ratings' = ratings
    BY <1>11 DEF CommitCompletion
  <2>2. User(t) \in Users /\ ~At(t, "withdraw") /\ req'[t].at # "withdraw" /\ Published(User(t))
    BY <2>1, <1>a, <1>c, <1>e DEF InHand, OwnRow, At
  <2>3. CASE /\ req[t].pairs \subseteq req[t].held
             /\ invites' = [p \in Pairs |-> IF p \in req[t].both THEN "completed" ELSE invites[p]]
    <3> DEFINE S == {p \in req[t].both : invites[p] = "accepted"}
    <3>1. \A p \in req[t].both : /\ p \in Pairs /\ p \in req[t].held /\ Involves(p, User(t))
                                 /\ invites[p] \in {"accepted", "completed"}
      BY <2>1, <2>3, <1>a DEF Consistent, Requests, At, User
    <3>2. invites' = [p \in Pairs |-> IF p \in S THEN "completed" ELSE invites[p]]
      BY <2>3, <3>1
    <3>3. S \in SUBSET Shared!AcceptedOf(User(t))
      BY <3>1, SamePairs DEF Shared!AcceptedOf
    <3>4. ASSUME NEW p \in S, NEW v \in Shared!Partners(p)
          PROVE  Shared!HasFinished(v)
      <4>1. Couple(p) = {User(t), Other(p, User(t))} /\ v \in Users
        BY <3>1, <3>4, OtherFacts, SamePairs
      <4>2. HasFinished(Other(p, User(t)))
        BY <2>1, <3>1, <1>a DEF InHand, SeenFinished
      <4> QED BY <2>2, <3>4, <4>1, <4>2, SamePairs DEF Shared!HasFinished, HasFinished, Published
    <3> HIDE DEF S
    <3>5. Shared!Complete(User(t))
      BY <1>1, <2>1, <2>2, <3>2, <3>3, <3>4, SamePairs DEF Shared!Complete, Shared!Becomes, Published
    <3> QED BY <2>2, <3>5 DEF Shared!Next
  <2>4. CASE invites' = invites
    BY <1>2, <2>1, <2>2, <2>4
  <2> QED BY <1>11, <2>3, <2>4 DEF CommitCompletion
<1>12. ASSUME NEW stage \in {"delete_rating", "remove"}, DeleteRow(t, stage)
       PROVE  Shared!Next
  <2>1. At(t, stage) /\ invites' = invites /\ ~At(t, "idle")
    BY <1>12 DEF DeleteRow, At
  <2>2. req[t].live /\ ratings[User(t)] # "none" /\ User(t) \in Users
    BY <2>1, <1>a, <1>c DEF InHand, OwnRow, At
  <2>3. ratings' = [ratings EXCEPT ![User(t)] = "none"]
    BY <1>12, <2>2 DEF DeleteRow
  <2>4. req'[t].at = "withdraw" /\ req'[t].by = req[t].by
    BY <1>12, <1>a DEF DeleteRow, Requests
  <2>5. User(t) \notin L
    BY <2>1, <1>a DEF Leaving, OneRequestEach, At
  <2>6. L' = L \cup {User(t)}
    BY <2>1, <2>2, <2>4, <1>b DEF Leaving, At, User
  <2>7. Shared!Remove(User(t))
    BY <2>1, <2>2, <2>3, <2>5, <2>6 DEF Shared!Remove, Shared!IsRated
  <2> QED BY <2>2, <2>7 DEF Shared!Next
<1>13. CASE Withdraw(t)
  <2>1. /\ At(t, "withdraw") /\ ratings' = ratings /\ req'[t].at = "idle"
        /\ invites' = [p \in Pairs |-> IF p \in Withdrawn(User(t)) THEN "none" ELSE invites[p]]
    BY <1>13, <1>d DEF Withdraw, DeleteInvites
  <2>2. User(t) \in Users
    BY <2>1, <1>c DEF At
  <2>3. User(t) \in L
    BY <2>1, <2>2 DEF Leaving
  <2>4. L' = L \ {User(t)}
    <3>1. \A x \in Threads \ {t} : ~At(x, "idle") => User(x) # User(t)
      BY <2>1, <1>a DEF OneRequestEach, At
    <3> QED BY <2>1, <3>1, <1>b DEF Leaving, At, User
  <2>5. Shared!AcceptedOf(User(t)) = Withdrawn(User(t))
    BY SamePairs DEF Shared!AcceptedOf, Withdrawn
  <2>6. Shared!Leave(User(t))
    BY <2>1, <2>3, <2>4, <2>5, SamePairs DEF Shared!Leave, Shared!Becomes
  <2> QED BY <2>2, <2>6 DEF Shared!Next
<1> QED BY <1>3, <1>4, <1>5, <1>7, <1>8, <1>9, <1>10, <1>11, <1>12, <1>13
        DEF Continue, CommitDeleteRating, CommitRemove

\* A request that begins, or what the rest of the application does, is no step.
LEMMA RestStutters ==
    ASSUME SharedIInv,
           \/ \E t \in Threads : Start(t)
           \/ \E c \in Couples : Befriend(c) \/ DeclineFriend(c)
           \/ \E u \in Users : MarkSeen(u, {"listen_invite"}) \/ MarkSeen(u, NotificationType)
           \/ UNCHANGED vars
    PROVE  UNCHANGED Shared!vars
<1>1. ASSUME NEW t \in Threads, Start(t) PROVE UNCHANGED Shared!vars
  <2>a. req \in [Threads -> Requests]
    BY DEF SharedIInv, OneTabIInv, IInv, TypeOK
  <2>1. /\ At(t, "idle") /\ invites' = invites /\ ratings' = ratings
        /\ \A x \in Threads \ {t} : req'[x] = req[x]
    BY <1>1, <2>a DEF Start, StartCreateInvite, StartAccept, StartDecline, StartCancel, StartUnfriend,
        StartCreateRating, StartPublish, StartDeleteRating, StartRemove, Serve, db
  <2>2. ~At(t, "withdraw") /\ req'[t].at # "withdraw"
    <3>1. ASSUME NEW p \in Pairs, \/ StartCreateInvite(t, p) \/ StartAccept(t, p) \/ StartDecline(t, p)
                                  \/ StartCancel(t, p) \/ StartUnfriend(t, p)
          PROVE  req'[t].at # "withdraw"
      BY <3>1, <2>a DEF StartCreateInvite, StartAccept, StartDecline, StartCancel, StartUnfriend,
         Serve, Request
    <3>2. ASSUME NEW u \in Users, \/ StartCreateRating(t, u) \/ StartPublish(t, u)
                                  \/ StartDeleteRating(t, u) \/ StartRemove(t, u)
          PROVE  req'[t].at # "withdraw"
      BY <3>2, <2>a DEF StartCreateRating, StartPublish, StartDeleteRating, StartRemove, Serve, Request
    <3> QED BY <1>1, <2>1, <3>1, <3>2 DEF Start, At
  <2> QED BY <2>1, <2>2, SameLeaving, SharedStutters
<1>2. ASSUME \/ \E c \in Couples : Befriend(c) \/ DeclineFriend(c)
             \/ \E u \in Users : MarkSeen(u, {"listen_invite"}) \/ MarkSeen(u, NotificationType)
             \/ UNCHANGED vars
      PROVE  UNCHANGED Shared!vars
  <2>1. /\ UNCHANGED <<invites, ratings>>
        /\ \A x \in Threads : req'[x].at = req[x].at /\ req'[x].by = req[x].by
    BY <1>2, BackgroundInHand
  <2>2. {u \in Users : Leaving(u)}' = {u \in Users : Leaving(u)}
    BY <2>1 DEF Leaving, At, User
  <2> QED BY <2>1, <2>2, SharedStutters
<1> QED BY <1>1, <1>2

\* The handlers, each of several steps on rows it has read earlier, do no more
\* than SharedListen says: for any users and requests, one request of each user
\* at a time, an invite is answered once, completed by one who has published
\* with one who has too or is taking it back, and left with the rating.
THEOREM Implements == OneTab => (Spec => ImplementsSharedListen)
<1> SUFFICES ASSUME OneTab PROVE Spec => ImplementsSharedListen
  OBVIOUS
<1>1. Init => SharedIInv /\ Shared!Init
  <2> SUFFICES ASSUME Init PROVE SharedIInv /\ Shared!Init
    OBVIOUS
  <2>1. \A t \in Threads : req[t].at = "idle"
    BY DEF Init, Idle, Request
  <2>2. \A t \in Threads : InHand(t)
    BY <2>1 DEF InHand, OwnRow, InCouple, SeenFinished, CoupleStages, AcceptStages, UnfriendStages, At
  <2>3. AnswerIsFirst
    BY <2>1 DEF AnswerIsFirst, AcceptStages
  <2>4. {u \in Users : Leaving(u)} = {}
    BY <2>1 DEF Leaving, At
  <2>5. Shared!Init
    BY <2>4, SamePairs DEF Init, Shared!Init, RatingStatus
  <2> QED BY <2>2, <2>3, <2>5, InitOneTab DEF SharedIInv
<1>2. SharedIInv /\ [Next]_vars => SharedIInv'
  BY SharedNext
<1>3. SharedIInv /\ [Next]_vars => [Shared!Next]_(Shared!vars)
  <2> SUFFICES ASSUME SharedIInv, [Next]_vars PROVE Shared!Next \/ UNCHANGED Shared!vars
    OBVIOUS
  <2> QED BY ContinueShared, RestStutters DEF Next, Fail, OneTab
<1> QED BY <1>1, <1>2, <1>3, PTL DEF Spec, ImplementsSharedListen, Shared!Spec

----------------------------------------------------------------------------
(* Requests served one after the other, on a server that does not fail. *)

OneAtATime == (\A s, t \in Threads : s = t) /\ ~Faults

BothHaveRatings ==
    \A p \in Pairs : invites[p] = "accepted" =>
        \A u \in Couple(p) : ratings[u] # "none" \/ Leaving(u)

UnreadIsPending ==
    \A n \in notifs : n.type = "listen_invite" /\ ~n.read =>
        \E p \in Pairs : n.about = {p} /\ invites[p] = "pending"

OnlyFriends == \A p \in Pairs : invites[p] # "none" => Friends(p)

\* What a request has read is still so.
StillTrue(r) ==
    /\ r.at \in {"check_published", "check_duplicate", "insert_invite"} => \A p \in r.pairs : Friends(p)
    /\ r.at \in AcceptStages \cup {"notify"} => \A p \in r.held : invites[p] = "pending"
    /\ r.at \in AcceptStages => \E p \in Pairs : r.pairs = {p}
    /\ r.at \in {"accept_receiver", "accept"} =>
          \A p \in r.pairs : ratings[Sender(p)] = "none" => Sender(p) \in r.lacking
    /\ r.at = "accept" =>
          \A p \in r.pairs : ratings[Receiver(p)] = "none" => Receiver(p) \in r.lacking
    /\ r.at \in UnfriendStages => \E p \in Pairs : r.pairs = {p, Mirror(p)}
    /\ r.at = "unfriend" => \A p \in r.pairs : invites[p] # "none" => p \in r.held

NothingStale == \A t \in Threads : StillTrue(req[t])

SerialIInv == IInv /\ BothHaveRatings /\ UnreadIsPending /\ OnlyFriends /\ NothingStale

LEMMA IdleStillTrue == StillTrue(Idle)'
BY DEF StillTrue, Idle, Request, AcceptStages, UnfriendStages

LEMMA SameCouple ==
    ASSUME NEW p \in Pairs, NEW q \in Pairs, Couple(p) = Couple(q)
    PROVE  p = q \/ p = Mirror(q)
<1>1. /\ p = <<p[1], p[2]>> /\ q = <<q[1], q[2]>> /\ p[1] # p[2]
      /\ {p[1], p[2]} = {q[1], q[2]}
  BY DEF Pairs, Couple
<1>2. (p[1] = q[1] /\ p[2] = q[2]) \/ (p[1] = q[2] /\ p[2] = q[1])
  BY <1>1
<1> QED BY <1>1, <1>2 DEF Mirror

LEMMA ServeSerial ==
    ASSUME OneAtATime, SerialIInv, NEW t \in Threads,
           NEW u, NEW op, NEW r, StillTrue(r), Serve(t, u, op, r)
    PROVE  BothHaveRatings' /\ UnreadIsPending' /\ OnlyFriends' /\ NothingStale'
<1>1. UNCHANGED <<friendship, invites, ratings, notifs>> /\ At(t, "idle")
  BY DEF Serve, db
<1>2. \A x \in Threads : req'[x] = r
  BY DEF Serve, OneAtATime, SerialIInv, IInv, TypeOK
<1>3. BothHaveRatings'
  <2>1. \A v : ~Leaving(v)
    BY <1>1 DEF Leaving, OneAtATime, At
  <2> QED BY <1>1, <2>1 DEF SerialIInv, BothHaveRatings
<1>4. UnreadIsPending' /\ OnlyFriends'
  BY <1>1 DEF SerialIInv, UnreadIsPending, OnlyFriends, Friends
<1>5. NothingStale'
  <2>1. StillTrue(r)'
    BY <1>1 DEF StillTrue, Friends
  <2> QED BY <1>2, <2>1 DEF NothingStale
<1> QED BY <1>3, <1>4, <1>5

LEMMA StartSerial ==
    ASSUME OneAtATime, SerialIInv, NEW t \in Threads, Start(t)
    PROVE  BothHaveRatings' /\ UnreadIsPending' /\ OnlyFriends' /\ NothingStale'
<1> USE DEF StillTrue, Request, AcceptStages, UnfriendStages
<1>1. ASSUME NEW p \in Pairs, StartCreateInvite(t, p)
      PROVE  BothHaveRatings' /\ UnreadIsPending' /\ OnlyFriends' /\ NothingStale'
  <2> DEFINE r == Request(Sender(p), "check_published", {p}, {}, FALSE)
  <2>1. StillTrue(r) /\ \E op : Serve(t, Sender(p), op, r)
    BY <1>1 DEF StartCreateInvite
  <2> HIDE DEF r
  <2> QED BY <2>1, ServeSerial
<1>2. ASSUME NEW p \in Pairs, StartAccept(t, p)
      PROVE  BothHaveRatings' /\ UnreadIsPending' /\ OnlyFriends' /\ NothingStale'
  <2> DEFINE r == Request(Receiver(p), "accept_sender", {p}, {p}, FALSE)
  <2>1. StillTrue(r) /\ \E op : Serve(t, Receiver(p), op, r)
    BY <1>2 DEF StartAccept, AwaitsAnswer
  <2> HIDE DEF r
  <2> QED BY <2>1, ServeSerial
<1>3. ASSUME NEW p \in Pairs, StartDecline(t, p)
      PROVE  BothHaveRatings' /\ UnreadIsPending' /\ OnlyFriends' /\ NothingStale'
  <2> DEFINE r == Request(Receiver(p), "decline", {p}, {p}, FALSE)
  <2>1. StillTrue(r) /\ \E op : Serve(t, Receiver(p), op, r)
    BY <1>3 DEF StartDecline
  <2> HIDE DEF r
  <2> QED BY <2>1, ServeSerial
<1>4. ASSUME NEW p \in Pairs, StartCancel(t, p)
      PROVE  BothHaveRatings' /\ UnreadIsPending' /\ OnlyFriends' /\ NothingStale'
  <2> DEFINE r == Request(Sender(p), "cancel", {p}, {p}, FALSE)
  <2>1. StillTrue(r) /\ \E op : Serve(t, Sender(p), op, r)
    BY <1>4 DEF StartCancel
  <2> HIDE DEF r
  <2> QED BY <2>1, ServeSerial
<1>5. ASSUME NEW p \in Pairs, StartUnfriend(t, p)
      PROVE  BothHaveRatings' /\ UnreadIsPending' /\ OnlyFriends' /\ NothingStale'
  <2> DEFINE r == Request(p[1], "read_pair", {p, Mirror(p)}, {}, TRUE)
  <2>1. StillTrue(r) /\ \E op : Serve(t, p[1], op, r)
    BY <1>5 DEF StartUnfriend
  <2> HIDE DEF r
  <2> QED BY <2>1, ServeSerial
<1>6. ASSUME NEW u \in Users, StartCreateRating(t, u)
      PROVE  BothHaveRatings' /\ UnreadIsPending' /\ OnlyFriends' /\ NothingStale'
  <2> DEFINE r == Request(u, "insert_rating", {}, {}, FALSE)
  <2>1. StillTrue(r) /\ \E op : Serve(t, u, op, r)
    BY <1>6 DEF StartCreateRating
  <2> HIDE DEF r
  <2> QED BY <2>1, ServeSerial
<1>7. ASSUME NEW u \in Users, StartPublish(t, u)
      PROVE  BothHaveRatings' /\ UnreadIsPending' /\ OnlyFriends' /\ NothingStale'
  <2> DEFINE r == Request(u, "publish", {}, {}, TRUE)
  <2>1. StillTrue(r) /\ \E op : Serve(t, u, op, r)
    BY <1>7 DEF StartPublish
  <2> HIDE DEF r
  <2> QED BY <2>1, ServeSerial
<1>8. ASSUME NEW u \in Users, StartDeleteRating(t, u)
      PROVE  BothHaveRatings' /\ UnreadIsPending' /\ OnlyFriends' /\ NothingStale'
  <2> DEFINE r == Request(u, "delete_rating", {}, {}, TRUE)
  <2>1. StillTrue(r) /\ \E op : Serve(t, u, op, r)
    BY <1>8 DEF StartDeleteRating
  <2> HIDE DEF r
  <2> QED BY <2>1, ServeSerial
<1>9. ASSUME NEW u \in Users, StartRemove(t, u)
      PROVE  BothHaveRatings' /\ UnreadIsPending' /\ OnlyFriends' /\ NothingStale'
  <2> DEFINE r == Request(u, "remove", {}, {}, TRUE)
  <2>1. StillTrue(r) /\ \E op : Serve(t, u, op, r)
    BY <1>9 DEF StartRemove
  <2> HIDE DEF r
  <2> QED BY <2>1, ServeSerial
<1> QED BY <1>1, <1>2, <1>3, <1>4, <1>5, <1>6, <1>7, <1>8, <1>9 DEF Start

\* What the thread that moves on has read is still so.
LEMMA ContinueNothingStale ==
    ASSUME OneAtATime, SerialIInv, NEW t \in Threads, Continue(t)
    PROVE  NothingStale'
<1>a. /\ req \in [Threads -> Requests] /\ req[t] \in Requests /\ Consistent(req[t]) /\ StillTrue(req[t])
      /\ invites \in [Pairs -> InviteStatus] /\ \A x \in Threads : x = t
  BY DEF SerialIInv, NothingStale, IInv, TypeOK, RequestsConsistent, OneAtATime
<1>b. StillTrue(req[t])' => NothingStale'
  BY <1>a DEF NothingStale
<1>c. req'[t] = Idle => NothingStale'
  BY <1>b, IdleStillTrue DEF StillTrue, Friends
<1>d. Done(t) => NothingStale'
  BY <1>a, <1>c DEF Done
<1>e. \A P : DeleteInvites(P, t, Idle) => NothingStale'
  BY <1>c DEF DeleteInvites
<1>f. ASSUME NEW stage, GoTo(t, stage), UNCHANGED friendship,
             \/ At(t, "check_published") /\ stage = "check_duplicate"
             \/ At(t, "check_duplicate") /\ stage = "insert_invite"
             \/ stage = "read_invites"
      PROVE  NothingStale'
  <2>1. req'[t].at = stage /\ req'[t].pairs = req[t].pairs
    BY <1>f, <1>a DEF GoTo, Requests
  <2>2. StillTrue(req[t])'
    BY <1>f, <1>a, <2>1 DEF StillTrue, At, AcceptStages, UnfriendStages, Friends
  <2> QED BY <1>b, <2>2
<1>1. CASE CheckPublished(t) \/ CheckDuplicate(t)
  BY <1>1, <1>d, <1>f DEF CheckPublished, CheckDuplicate, db
<1>2. CASE InsertInvite(t)
  <2>1. PICK p \in req[t].pairs : InsertInvite(t)!2!(p)
    BY <1>2 DEF InsertInvite
  <2>2. ASSUME req' = [req EXCEPT ![t].at = "notify", ![t].held = {p}],
               invites' = [invites EXCEPT ![p] = "pending"]
        PROVE  NothingStale'
    <3>1. req'[t].at = "notify" /\ req'[t].held = {p}
      BY <2>2, <1>a DEF Requests
    <3>2. invites'[p] = "pending"
      BY <2>2, <1>a DEF Requests
    <3>3. StillTrue(req[t])'
      BY <3>1, <3>2 DEF StillTrue, AcceptStages, UnfriendStages
    <3> QED BY <1>b, <3>3
  <2> QED BY <2>1, <2>2, <1>d
<1>3. CASE ReadSenderRating(t)
  <2>1. PICK p \in req[t].pairs : LookUpRating(t, Sender(p), "accept_receiver")
    BY <1>3 DEF ReadSenderRating
  <2>2. req[t].pairs = {p} /\ UNCHANGED <<invites, ratings>> /\ At(t, "accept_sender")
    BY <1>3, <1>a, <2>1 DEF ReadSenderRating, db, StillTrue, AcceptStages, At
  <2> DEFINE L == IF ratings[Sender(p)] = "none" THEN req[t].lacking \cup {Sender(p)} ELSE req[t].lacking
  <2>3. req'[t] = [req[t] EXCEPT !.at = "accept_receiver", !.lacking = L]
    BY <2>1, <1>a DEF LookUpRating
  <2>4. ratings[Sender(p)] = "none" => Sender(p) \in L
    OBVIOUS
  <2> HIDE DEF L
  <2>5. /\ req'[t].at = "accept_receiver" /\ req'[t].pairs = req[t].pairs /\ req'[t].held = req[t].held
        /\ req'[t].lacking = L
    BY <2>3, <1>a DEF Requests
  <2>6. StillTrue(req[t])'
    BY <2>2, <2>4, <2>5, <1>a DEF StillTrue, AcceptStages, UnfriendStages, At
  <2> QED BY <1>b, <2>6
<1>4. CASE ReadReceiverRating(t)
  <2>1. PICK p \in req[t].pairs : LookUpRating(t, Receiver(p), "accept")
    BY <1>4 DEF ReadReceiverRating
  <2>2. req[t].pairs = {p} /\ UNCHANGED <<invites, ratings>> /\ At(t, "accept_receiver")
    BY <1>4, <1>a, <2>1 DEF ReadReceiverRating, db, StillTrue, AcceptStages, At
  <2> DEFINE L == IF ratings[Receiver(p)] = "none" THEN req[t].lacking \cup {Receiver(p)} ELSE req[t].lacking
  <2>3. req'[t] = [req[t] EXCEPT !.at = "accept", !.lacking = L]
    BY <2>1, <1>a DEF LookUpRating
  <2>4. (ratings[Receiver(p)] = "none" => Receiver(p) \in L) /\ req[t].lacking \subseteq L
    OBVIOUS
  <2> HIDE DEF L
  <2>5. /\ req'[t].at = "accept" /\ req'[t].pairs = req[t].pairs /\ req'[t].held = req[t].held
        /\ req'[t].lacking = L
    BY <2>3, <1>a DEF Requests
  <2>6. StillTrue(req[t])'
    BY <2>2, <2>4, <2>5, <1>a DEF StillTrue, AcceptStages, UnfriendStages, At
  <2> QED BY <1>b, <2>6
<1>5. CASE CommitPublish(t)
  BY <1>5, <1>d, <1>f DEF CommitPublish
<1>6. CASE ReadInvites(t)
  <2> DEFINE shared == SharedListens(User(t))
  <2>1. CASE Done(t)
    BY <2>1, <1>d
  <2>2. CASE ~Done(t)
    <3>1. req' = [req EXCEPT ![t].at = "read_partners", ![t].pairs = shared,
                             ![t].held = shared, ![t].todo = shared]
      BY <1>6, <2>2 DEF ReadInvites
    <3> HIDE DEF shared
    <3>2. req'[t].at = "read_partners"
      BY <3>1, <1>a DEF Requests
    <3>3. StillTrue(req[t])'
      BY <3>2 DEF StillTrue, AcceptStages, UnfriendStages
    <3> QED BY <1>b, <3>3
  <2> QED BY <2>1, <2>2
<1>7. CASE ReadPartner(t)
  <2>1. PICK p \in req[t].todo : ReadPartner(t)!2!(p)
    BY <1>7 DEF ReadPartner
  <2> DEFINE B == IF Published(Other(p, User(t))) THEN req[t].both \cup {p} ELSE req[t].both
  <2>2. req'[t] = [req[t] EXCEPT !.todo = @ \ {p}, !.both = B]
    BY <2>1, <1>a
  <2> HIDE DEF B
  <2>3. req'[t].at = "read_partners"
    BY <2>2, <1>7, <1>a DEF Requests, ReadPartner, At
  <2>4. StillTrue(req[t])'
    BY <2>3 DEF StillTrue, AcceptStages, UnfriendStages
  <2> QED BY <1>b, <2>4
<1>8. ASSUME NEW stage, DeleteRow(t, stage)
      PROVE  NothingStale'
  <2>1. req'[t].at = "withdraw"
    BY <1>8, <1>a DEF DeleteRow, Requests
  <2>2. StillTrue(req[t])'
    BY <2>1 DEF StillTrue, AcceptStages, UnfriendStages
  <2> QED BY <1>b, <2>2
<1>9. CASE ReadPairInvites(t)
  <2>1. /\ req'[t].at = "unfriend" /\ req'[t].pairs = req[t].pairs /\ req'[t].held = InvitesBetween(t)
        /\ UNCHANGED invites /\ At(t, "read_pair")
    BY <1>9, <1>a DEF ReadPairInvites, Requests, db
  <2>2. StillTrue(req[t])'
    BY <2>1, <1>a DEF StillTrue, AcceptStages, UnfriendStages, InvitesBetween, At
  <2> QED BY <1>b, <2>2
<1>10. CASE CommitUnfriend(t)
  BY <1>10, <1>c DEF CommitUnfriend
<1> QED BY <1>1, <1>2, <1>3, <1>4, <1>5, <1>6, <1>7, <1>8, <1>9, <1>10, <1>d, <1>e
        DEF Continue, NotifyInvite, CommitAccept, CommitDecline, CommitCancel, InsertRating,
            RebuildFails, CommitCompletion, CommitDeleteRating, CommitRemove, Withdraw

LEMMA ContinueOnlyFriends ==
    ASSUME SerialIInv, NEW t \in Threads, Continue(t)
    PROVE  OnlyFriends'
<1>a. /\ req[t] \in Requests /\ Consistent(req[t]) /\ StillTrue(req[t])
      /\ invites \in [Pairs -> InviteStatus] /\ friendship \in [Couples -> FriendshipStatus]
  BY DEF SerialIInv, NothingStale, IInv, TypeOK, RequestsConsistent
<1>1. CASE CommitUnfriend(t)
  <2> SUFFICES ASSUME NEW p \in Pairs, invites'[p] # "none" PROVE friendship'[Couple(p)] = "accepted"
    BY DEF OnlyFriends, Friends
  <2>1. p \notin req[t].held /\ invites[p] # "none" /\ friendship[Couple(p)] = "accepted"
    BY <1>1 DEF CommitUnfriend, SerialIInv, OnlyFriends, Friends
  <2>2. \A q \in req[t].pairs : Couple(q) # Couple(p)
    <3> SUFFICES ASSUME NEW q \in req[t].pairs, Couple(q) = Couple(p) PROVE FALSE
      OBVIOUS
    <3>1. PICK o \in Pairs : req[t].pairs = {o, Mirror(o)}
      BY <1>1, <1>a DEF CommitUnfriend, At, StillTrue, UnfriendStages
    <3>2. q \in Pairs /\ Couple(q) = Couple(o)
      <4>1. Mirror(o)[1] = o[2] /\ Mirror(o)[2] = o[1] /\ Mirror(o) \in Pairs
        BY PairFacts DEF Mirror
      <4>2. Couple(Mirror(o)) = Couple(o)
        BY <4>1 DEF Couple
      <4> QED BY <3>1, <4>1, <4>2
    <3>3. p \in req[t].pairs
      BY <3>1, <3>2, SameCouple
    <3> QED BY <1>1, <1>a, <2>1, <3>3 DEF CommitUnfriend, At, StillTrue
  <2>3. Couple(p) \in Couples
    BY PairFacts
  <2> QED BY <1>1, <2>1, <2>2, <2>3 DEF CommitUnfriend
<1>2. CASE ~CommitUnfriend(t)
  <2>1. friendship' = friendship
    BY <1>2 DEF Continue, db, CheckPublished, CheckDuplicate, InsertInvite, NotifyInvite,
       ReadSenderRating, ReadReceiverRating, CommitAccept, CommitDecline, CommitCancel, InsertRating,
       CommitPublish, ReadInvites, RebuildFails, ReadPartner, CommitCompletion, CommitDeleteRating,
       CommitRemove, DeleteRow, Withdraw, ReadPairInvites
  <2> SUFFICES ASSUME NEW p \in Pairs, invites'[p] # "none" PROVE Friends(p)
    BY <2>1 DEF OnlyFriends, Friends
  <2>2. CASE invites[p] # "none"
    BY <2>2 DEF SerialIInv, OnlyFriends
  <2>3. CASE invites[p] = "none"
    <3>1. InsertInvite(t) => Friends(p)
      BY <2>3, <1>a DEF InsertInvite, At, StillTrue
    <3>2. CommitAccept(t) => Friends(p)
      BY <2>3, <1>a DEF CommitAccept, Consistent
    <3>3. CommitCompletion(t) => Friends(p)
      BY <2>3, <1>a DEF CommitCompletion, Consistent
    <3>4. ~InsertInvite(t) /\ ~CommitAccept(t) /\ ~CommitCompletion(t) => FALSE
      BY <1>2, <2>3 DEF Continue, db, CheckPublished, CheckDuplicate, NotifyInvite, ReadSenderRating,
         ReadReceiverRating, CommitDecline, CommitCancel, InsertRating, CommitPublish, DeleteInvites,
         ReadInvites, RebuildFails, ReadPartner, CommitDeleteRating, CommitRemove, DeleteRow,
         Withdraw, ReadPairInvites
    <3> QED BY <3>1, <3>2, <3>3, <3>4
  <2> QED BY <2>2, <2>3
<1> QED BY <1>1, <1>2

LEMMA ContinueBothHaveRatings ==
    ASSUME OneAtATime, SerialIInv, NEW t \in Threads, Continue(t)
    PROVE  BothHaveRatings'
<1>a. /\ req \in [Threads -> Requests] /\ req[t] \in Requests /\ Consistent(req[t]) /\ StillTrue(req[t])
      /\ invites \in [Pairs -> InviteStatus] /\ ratings \in [Users -> RatingStatus] /\ \A x \in Threads : x = t
  BY DEF SerialIInv, NothingStale, IInv, TypeOK, RequestsConsistent, OneAtATime
<1>b. \A p \in Pairs : Couple(p) \subseteq Users
  BY PairFacts DEF Couple
<1>1. ASSUME ~At(t, "withdraw"),
             \A p \in Pairs : invites'[p] = "accepted" => invites[p] = "accepted",
             \A u \in Users : ratings'[u] = "none" => ratings[u] = "none"
      PROVE  BothHaveRatings'
  <2>1. \A u : ~Leaving(u)
    BY <1>1, <1>a DEF Leaving
  <2> QED BY <1>1, <1>b, <2>1 DEF SerialIInv, BothHaveRatings
<1>2. CASE CheckPublished(t) \/ CheckDuplicate(t) \/ NotifyInvite(t) \/ ReadSenderRating(t)
           \/ ReadReceiverRating(t) \/ ReadInvites(t) \/ RebuildFails(t) \/ ReadPartner(t) \/ ReadPairInvites(t)
  BY <1>1, <1>2 DEF CheckPublished, CheckDuplicate, NotifyInvite, ReadSenderRating,
                    ReadReceiverRating, ReadInvites, RebuildFails, ReadPartner, ReadPairInvites, At, db
<1>3. CASE InsertInvite(t)
  BY <1>1, <1>3, <1>a DEF InsertInvite, At
<1>4. CASE CommitAccept(t)
  <2>1. PICK p \in req[t].pairs : CommitAccept(t)!2!(p)
    BY <1>4 DEF CommitAccept
  <2>2. At(t, "accept") /\ p \in Pairs
    BY <1>4, <1>a DEF CommitAccept, Requests
  <2>3. \A u \in Users : ratings'[u] = "none" => ratings[u] = "none"
    <3>1. \/ ratings' = [u \in Users |-> IF u \in req[t].lacking THEN "draft" ELSE ratings[u]]
          \/ ratings' = ratings
      BY <2>1
    <3> QED BY <3>1
  <2>4. CASE p \in req[t].held /\ DraftsFit(t)
    <3>1. /\ ratings' = [u \in Users |-> IF u \in req[t].lacking THEN "draft" ELSE ratings[u]]
          /\ invites' = [invites EXCEPT ![p] = "accepted"]
      BY <2>1, <2>4
    <3>2. \A u \in Couple(p) : ratings'[u] # "none"
      <4>1. \A u \in Couple(p) : u \in Users /\ (u = Sender(p) \/ u = Receiver(p))
        BY <1>b, <2>2 DEF Couple, Sender, Receiver
      <4>2. \A u \in Couple(p) : u \in req[t].lacking \/ ratings[u] # "none"
        BY <1>a, <2>1, <2>2, <4>1 DEF StillTrue, At
      <4> QED BY <3>1, <4>1, <4>2
    <3>3. \A u : ~Leaving(u)
      BY <2>2, <1>a DEF Leaving, At
    <3>4. ASSUME NEW q \in Pairs, q # p, invites'[q] = "accepted", NEW u \in Couple(q)
          PROVE  ratings'[u] # "none"
      BY <1>a, <1>b, <2>3, <3>1, <3>3, <3>4 DEF SerialIInv, BothHaveRatings
    <3> QED BY <3>2, <3>4 DEF BothHaveRatings
  <2>5. CASE ~(p \in req[t].held /\ DraftsFit(t))
    <3>1. invites' = invites /\ ~At(t, "withdraw")
      BY <2>1, <2>2, <2>5 DEF At
    <3> QED BY <1>1, <2>3, <3>1
  <2> QED BY <2>4, <2>5
<1>5. CASE CommitDecline(t) \/ CommitCancel(t)
  BY <1>1, <1>5 DEF CommitDecline, CommitCancel, DeleteInvites, At
<1>6. CASE InsertRating(t) \/ CommitPublish(t)
  <2>1. \A u \in Users : ratings'[u] = "none" => ratings[u] = "none"
    BY <1>6, <1>a DEF InsertRating, CommitPublish
  <2> QED BY <1>1, <1>6, <2>1 DEF InsertRating, CommitPublish, At
<1>7. CASE CommitCompletion(t)
  BY <1>1, <1>7 DEF CommitCompletion, At
<1>8. ASSUME NEW stage \in {"delete_rating", "remove"}, DeleteRow(t, stage)
      PROVE  BothHaveRatings'
  <2>1. invites' = invites /\ \A u \in Users : u # User(t) => ratings'[u] = ratings[u]
    BY <1>8, <1>a DEF DeleteRow
  <2>2. \A u : ~Leaving(u)
    BY <1>8, <1>a DEF Leaving, DeleteRow, At
  <2>3. ASSUME NEW p \in Pairs, invites'[p] = "accepted", NEW u \in Couple(p)
        PROVE  ratings'[u] # "none" \/ Leaving(u)'
    <3>1. ratings[u] # "none" /\ u \in Users
      BY <1>b, <2>1, <2>2, <2>3 DEF SerialIInv, BothHaveRatings
    <3>2. CASE u = User(t)
      <4>1. req'[t].at = "withdraw" /\ req'[t].by = u
        BY <1>8, <1>a, <3>2 DEF DeleteRow, Requests, User
      <4> QED BY <4>1 DEF Leaving, At, User
    <3>3. CASE u # User(t)
      BY <2>1, <3>1, <3>3
    <3> QED BY <3>2, <3>3
  <2> QED BY <2>3 DEF BothHaveRatings
<1>9. CASE Withdraw(t)
  <2>1. \A p \in Pairs : invites'[p] = "accepted" => invites[p] = "accepted" /\ ~Involves(p, User(t))
    BY <1>9 DEF Withdraw, Withdrawn, DeleteInvites
  <2>2. \A u : Leaving(u) => u = User(t)
    BY <1>a DEF Leaving
  <2>3. ASSUME NEW p \in Pairs, invites'[p] = "accepted", NEW u \in Couple(p)
        PROVE  ratings[u] # "none"
    <3>1. u # User(t)
      BY <2>1, <2>3 DEF Involves, Couple
    <3> QED BY <2>1, <2>2, <2>3, <3>1 DEF SerialIInv, BothHaveRatings
  <2> QED BY <1>9, <2>3 DEF Withdraw, BothHaveRatings
<1>10. CASE CommitUnfriend(t)
  BY <1>1, <1>10 DEF CommitUnfriend, At
<1> QED BY <1>2, <1>3, <1>4, <1>5, <1>6, <1>7, <1>8, <1>9, <1>10 DEF Continue, CommitDeleteRating, CommitRemove

LEMMA ContinueUnreadIsPending ==
    ASSUME SerialIInv, NEW t \in Threads, Continue(t)
    PROVE  UnreadIsPending'
<1>a. /\ req[t] \in Requests /\ Consistent(req[t]) /\ StillTrue(req[t])
      /\ invites \in [Pairs -> InviteStatus] /\ notifs \in SUBSET Notification
  BY DEF SerialIInv, NothingStale, IInv, TypeOK, RequestsConsistent
<1>1. ASSUME NEW n \in notifs', n.type = "listen_invite", ~n.read, n \in notifs,
             \A p \in Pairs : n.about = {p} /\ invites[p] = "pending" => invites'[p] = "pending"
      PROVE  \E p \in Pairs : n.about = {p} /\ invites'[p] = "pending"
  BY <1>1 DEF SerialIInv, UnreadIsPending
<1>2. ASSUME notifs' = notifs,
             \A p \in Pairs : invites[p] = "pending" => invites'[p] = "pending"
      PROVE  UnreadIsPending'
  BY <1>2 DEF SerialIInv, UnreadIsPending
<1>3. ASSUME NEW P \in SUBSET Pairs, notifs' = Cascade(P),
             \A p \in Pairs : invites'[p] = IF p \in P THEN "none" ELSE invites[p]
      PROVE  UnreadIsPending'
  BY <1>3 DEF SerialIInv, UnreadIsPending, Cascade
<1>4. CASE CheckPublished(t) \/ CheckDuplicate(t) \/ ReadSenderRating(t) \/ ReadReceiverRating(t)
           \/ InsertRating(t) \/ CommitPublish(t) \/ ReadInvites(t) \/ RebuildFails(t) \/ ReadPartner(t) \/ ReadPairInvites(t)
  BY <1>2, <1>4 DEF CheckPublished, CheckDuplicate, ReadSenderRating, ReadReceiverRating, InsertRating,
                    CommitPublish, ReadInvites, RebuildFails, ReadPartner, ReadPairInvites, db
<1>5. CASE InsertInvite(t)
  BY <1>2, <1>5, <1>a DEF InsertInvite
<1>6. CASE NotifyInvite(t)
  <2>1. \A p \in req[t].held : p \in Pairs /\ invites[p] = "pending"
    BY <1>6, <1>a DEF NotifyInvite, At, StillTrue, Requests
  <2>2. \A p : Note(Receiver(p), "listen_invite", p).about = {p}
    BY DEF Note
  <2>3. /\ notifs' = notifs \cup {Note(Receiver(p), "listen_invite", p) : p \in req[t].held}
        /\ invites' = invites
    BY <1>6 DEF NotifyInvite, Announceable
  <2> QED BY <2>1, <2>2, <2>3 DEF SerialIInv, UnreadIsPending
<1>7. CASE CommitAccept(t)
  <2>1. PICK p \in req[t].pairs : CommitAccept(t)!2!(p)
    BY <1>7 DEF CommitAccept
  <2>2. CASE p \in req[t].held /\ DraftsFit(t)
    <3>1. /\ notifs' = MarkRead(AnsweredBy(t, p)) \cup {Note(Sender(p), "listen_invite_accepted", p)}
          /\ invites' = [invites EXCEPT ![p] = "accepted"]
      BY <2>1, <2>2
    <3>2. p \in Pairs /\ invites[p] = "pending" /\ User(t) = Receiver(p)
      BY <1>7, <1>a, <2>2 DEF CommitAccept, At, StillTrue, Consistent, User, Requests, AcceptStages
    <3>3. ASSUME NEW n \in notifs', n.type = "listen_invite", ~n.read
          PROVE  n \in notifs /\ n \notin AnsweredBy(t, p)
      <4>1. Note(Sender(p), "listen_invite_accepted", p).type = "listen_invite_accepted"
        BY DEF Note
      <4>2. \A m \in AnsweredBy(t, p) : [m EXCEPT !.read = TRUE].read
        BY <1>a DEF AnsweredBy, AboutRow, Notification
      <4> QED BY <3>1, <3>3, <4>1, <4>2 DEF MarkRead
    <3>4. ASSUME NEW n \in notifs', n.type = "listen_invite", ~n.read
          PROVE  n.about # {p}
      <4>1. n.about = {p} => n.to = Receiver(p)
        BY <3>2, <3>3, <3>4 DEF SerialIInv, IInv, PendingIsQuiet
      <4> QED BY <3>2, <3>3, <3>4, <4>1 DEF AnsweredBy, AboutRow
    <3>5. \A q \in Pairs : q # p => invites'[q] = invites[q]
      BY <3>1, <1>a
    <3>6. \A n \in notifs' : n.type = "listen_invite" /\ ~n.read =>
             \E q \in Pairs : n.about = {q} /\ invites'[q] = "pending"
      BY <1>1, <3>3, <3>4, <3>5
    <3> QED BY <3>6 DEF UnreadIsPending
  <2>3. CASE ~(p \in req[t].held /\ DraftsFit(t))
    BY <1>2, <2>1, <2>3
  <2> QED BY <2>2, <2>3
<1>8. CASE CommitDecline(t)
  <2> DEFINE gone == UNION {AboutRow(p) : p \in req[t].held}
  <2>1. notifs' = (notifs \ gone) \cup {[n EXCEPT !.about = {}, !.read = TRUE] : n \in gone}
    BY <1>8 DEF CommitDecline, Resolved
  <2>2. \A n \in gone : [n EXCEPT !.about = {}, !.read = TRUE].read
    BY <1>a DEF AboutRow, Notification
  <2>3. \A n \in notifs : n \notin gone => \A p \in req[t].held : n.about # {p}
    BY DEF AboutRow
  <2>4. \A p \in Pairs : p \notin req[t].held => invites'[p] = invites[p]
    BY <1>8 DEF CommitDecline, DeleteInvites
  <2> HIDE DEF gone
  <2>5. \A n \in notifs' : n.type = "listen_invite" /\ ~n.read => n \in notifs /\ n \notin gone
    BY <2>1, <2>2
  <2>6. \A n \in notifs' : n.type = "listen_invite" /\ ~n.read =>
           \E q \in Pairs : n.about = {q} /\ invites'[q] = "pending"
    BY <1>1, <2>3, <2>4, <2>5
  <2> QED BY <2>6 DEF UnreadIsPending
<1>9. CASE CommitCancel(t)
  BY <1>3, <1>9, <1>a DEF CommitCancel, DeleteInvites, Requests
<1>10. CASE CommitCompletion(t)
  <2>1. CASE req[t].pairs \subseteq req[t].held
    <3>1. /\ notifs' = notifs \cup {Note(Other(p, User(t)), "friend_published", p) : p \in req[t].pairs}
          /\ invites' = [p \in Pairs |-> IF p \in req[t].both THEN "completed" ELSE invites[p]]
          /\ At(t, "read_partners")
      BY <1>10, <2>1 DEF CommitCompletion
    <3>2. \A p \in req[t].both : invites[p] # "pending"
      BY <2>1, <3>1, <1>a DEF Consistent, At
    <3>3. \A p \in req[t].pairs : Note(Other(p, User(t)), "friend_published", p).type = "friend_published"
      BY DEF Note
    <3>4. \A n \in notifs' : n.type = "listen_invite" => n \in notifs
      BY <3>1, <3>3
    <3>5. \A p \in Pairs : invites[p] = "pending" => invites'[p] = "pending"
      BY <3>1, <3>2
    <3> QED BY <3>4, <3>5 DEF SerialIInv, UnreadIsPending
  <2>2. CASE ~(req[t].pairs \subseteq req[t].held)
    BY <1>2, <1>10, <2>2 DEF CommitCompletion
  <2> QED BY <2>1, <2>2
<1>11. CASE CommitDeleteRating(t) \/ CommitRemove(t)
  BY <1>2, <1>11 DEF CommitDeleteRating, CommitRemove, DeleteRow
<1>12. CASE Withdraw(t)
  BY <1>3, <1>12 DEF Withdraw, Withdrawn, DeleteInvites
<1>13. CASE CommitUnfriend(t)
  BY <1>3, <1>13, <1>a DEF CommitUnfriend, Requests
<1> QED BY <1>4, <1>5, <1>6, <1>7, <1>8, <1>9, <1>10, <1>11, <1>12, <1>13 DEF Continue

LEMMA BackgroundSerial ==
    ASSUME SerialIInv,
           \/ \E c \in Couples : Befriend(c) \/ DeclineFriend(c)
           \/ \E u \in Users : MarkSeen(u, {"listen_invite"}) \/ MarkSeen(u, NotificationType)
           \/ UNCHANGED vars
    PROVE  BothHaveRatings' /\ UnreadIsPending' /\ OnlyFriends' /\ NothingStale'
<1>1. UNCHANGED <<invites, ratings>>
  BY DEF Befriend, DeclineFriend, MarkSeen, vars
<1>2. ASSUME NEW x \in Threads
      PROVE  /\ req'[x].at = req[x].at /\ req'[x].by = req[x].by /\ req'[x].pairs = req[x].pairs
             /\ req'[x].held = req[x].held /\ req'[x].lacking = req[x].lacking
  <2>1. CASE req' = req
    BY <2>1
  <2>2. CASE \E c \in Couples : DeclineFriend(c)
    <3>1. PICK c \in Couples : DeclineFriend(c)
      BY <2>2
    <3>2. req'[x] = [req[x] EXCEPT !.live = @ /\ ~SameFriendship(x, c)] /\ req[x] \in Requests
      BY <3>1 DEF DeclineFriend, SerialIInv, IInv, TypeOK
    <3> QED BY <3>2 DEF Requests
  <2> QED BY <2>1, <2>2 DEF Befriend, MarkSeen, vars
<1>3. \A c \in Couples : friendship[c] = "accepted" => friendship'[c] = "accepted"
  <2>1. friendship \in [Couples -> FriendshipStatus]
    BY DEF SerialIInv, IInv, TypeOK
  <2> QED BY <2>1 DEF Befriend, DeclineFriend, MarkSeen, vars
<1>4. \A p \in Pairs : Friends(p) => Friends(p)'
  BY <1>3, PairFacts DEF Friends
<1>5. BothHaveRatings'
  <2>1. \A u : Leaving(u) => Leaving(u)'
    BY <1>2 DEF Leaving, At, User
  <2> QED BY <1>1, <2>1 DEF SerialIInv, BothHaveRatings
<1>6. OnlyFriends'
  BY <1>1, <1>4 DEF SerialIInv, OnlyFriends
<1>7. ASSUME NEW x \in Threads
      PROVE  StillTrue(req[x])'
  <2>1. StillTrue(req[x]) /\ req[x].pairs \in SUBSET Pairs
    BY DEF SerialIInv, NothingStale, IInv, TypeOK, Requests
  <2> QED BY <1>1, <1>2, <1>4, <2>1 DEF StillTrue
<1>8. ASSUME NEW n \in notifs', n.type = "listen_invite", ~n.read
      PROVE  n \in notifs
  <2>1. CASE notifs' = notifs
    BY <1>8, <2>1
  <2>2. ASSUME NEW u, NEW types, MarkSeen(u, types)
        PROVE  n \in notifs
    <3> DEFINE seen == {m \in notifs : m.to = u /\ ~m.read /\ m.type \in types}
    <3>1. notifs' \subseteq notifs \cup {[m EXCEPT !.read = TRUE] : m \in seen}
      BY <2>2 DEF MarkSeen
    <3>2. \A m \in seen : [m EXCEPT !.read = TRUE].read
      BY DEF SerialIInv, IInv, TypeOK, Notification
    <3> HIDE DEF seen
    <3> QED BY <1>8, <3>1, <3>2
  <2> QED BY <2>1, <2>2 DEF Befriend, DeclineFriend, vars
<1>9. UnreadIsPending'
  BY <1>1, <1>8 DEF SerialIInv, UnreadIsPending
<1> QED BY <1>5, <1>6, <1>7, <1>9 DEF NothingStale

LEMMA SerialNext ==
    ASSUME OneAtATime, SerialIInv, [Next]_vars
    PROVE  SerialIInv'
<1>1. IInv'
  BY InvStep DEF SerialIInv
<1>2. ASSUME NEW t \in Threads, Start(t) \/ Continue(t) \/ Fail(t)
      PROVE  BothHaveRatings' /\ UnreadIsPending' /\ OnlyFriends' /\ NothingStale'
  <2>1. CASE Start(t)
    BY <2>1, StartSerial
  <2>2. CASE Continue(t)
    BY <2>2, ContinueBothHaveRatings, ContinueUnreadIsPending, ContinueOnlyFriends, ContinueNothingStale
  <2> QED BY <1>2, <2>1, <2>2 DEF Fail, OneAtATime
<1>3. BothHaveRatings' /\ UnreadIsPending' /\ OnlyFriends' /\ NothingStale'
  BY <1>2, BackgroundSerial DEF Next
<1> QED BY <1>1, <1>3 DEF SerialIInv

LEMMA SerialInvariance == OneAtATime => (Spec => []SerialIInv)
<1> SUFFICES ASSUME OneAtATime PROVE Spec => []SerialIInv
  OBVIOUS
<1>1. Init => SerialIInv
  <2> SUFFICES ASSUME Init PROVE SerialIInv
    OBVIOUS
  <2>1. NothingStale
    BY DEF Init, NothingStale, StillTrue, Idle, Request, AcceptStages, UnfriendStages
  <2> QED BY <2>1, InitInv DEF Init, SerialIInv, BothHaveRatings, UnreadIsPending, OnlyFriends
<1>2. SerialIInv /\ [Next]_vars => SerialIInv'
  BY SerialNext
<1> QED BY <1>1, <1>2, PTL DEF Spec

\* For any users: when requests are served one after the other, both partners
\* of a shared listen have a rating.
THEOREM ListensAreShared == OneAtATime => (Spec => []SharedListenIsShared)
<1> SUFFICES ASSUME OneAtATime PROVE Spec => []SharedListenIsShared
  OBVIOUS
<1>1. SerialIInv => SharedListenIsShared
  <2> SUFFICES ASSUME SerialIInv, Quiet, NEW p \in Pairs, invites[p] = "accepted"
               PROVE  ratings[Sender(p)] # "none" /\ ratings[Receiver(p)] # "none"
    BY DEF SharedListenIsShared
  <2>1. \A u : ~Leaving(u)
    BY DEF Leaving, Quiet, At
  <2> QED BY <2>1 DEF SerialIInv, BothHaveRatings, Couple, Sender, Receiver
<1> QED BY <1>1, SerialInvariance, PTL

\* For any users: when requests are served one after the other, each unread
\* invite of the badge awaits an answer.
THEOREM HonestBadge == OneAtATime => (Spec => []BadgeIsHonest)
<1> SUFFICES ASSUME OneAtATime PROVE Spec => []BadgeIsHonest
  OBVIOUS
<1>1. SerialIInv => BadgeIsHonest
  BY DEF SerialIInv, UnreadIsPending, BadgeIsHonest
<1> QED BY <1>1, SerialInvariance, PTL

\* For any users: when requests are served one after the other, invites are
\* between friends.
THEOREM InvitesAreBetweenFriends == OneAtATime => (Spec => []NoStrayInvite)
<1> SUFFICES ASSUME OneAtATime PROVE Spec => []NoStrayInvite
  OBVIOUS
<1>1. SerialIInv => NoStrayInvite
  BY DEF SerialIInv, OnlyFriends, NoStrayInvite
<1> QED BY <1>1, SerialInvariance, PTL
=============================================================================
