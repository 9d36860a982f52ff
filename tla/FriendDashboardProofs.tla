----------------------- MODULE FriendDashboardProofs -----------------------
(***************************************************************************)
(* For any users, albums, scores and threads, four arguments.              *)
(*                                                                         *)
(* A dashboard outlives no friendship (IInv): a rebuild under way when it  *)
(* ends inserts nothing, because the row it holds is gone, even when a new *)
(* friendship of the two is there by then.                                 *)
(*                                                                         *)
(* Served one at a time (SerialIInv), every dashboard is current, or will  *)
(* be rebuilt by the one request in flight, which reads what is published. *)
(*                                                                         *)
(* Whatever overlaps (CollisionIInv), an album that both have published is *)
(* on the dashboard in a row that no open transaction has deleted, or a    *)
(* request will insert it, or a rebuild was cut short of it.               *)
(*                                                                         *)
(* Whatever overlaps (TellIInv), when both have published an album one has *)
(* told the invites, or will, or was the last to fail to.                  *)
(***************************************************************************)
EXTENDS FriendDashboard, TLAPS

Rebuilding == {"wipe", "read_a", "read_b", "insert"}

\* A publication is of a rating, a rebuild of a couple.
AboutSomething(r) ==
    /\ r.at = "publish" => r.rating \in Ratings
    /\ r.at \in Rebuilding => r.pair \in Couples

\* Ratings are read only for a friendship that was read accepted.
ReadForFriends(r) ==
    /\ r.at \in {"read_a", "read_b"} => r.active
    /\ r.read # {} => r.active /\ r.at \in {"read_b", "insert"}

\* What was read accepted is accepted, as long as its row is there: a friendship
\* ends only by losing its row.
HeldIsAccepted(r) ==
    /\ r.at \in Rebuilding /\ r.active /\ r.pair \in r.held => friendship[r.pair] = "accepted"
    /\ r.at = "pair" /\ r.fresh => \A c \in r.todo \cap r.held : friendship[c] = "accepted"

Sound(r) == AboutSomething(r) /\ ReadForFriends(r) /\ HeldIsAccepted(r)

IInv == TypeOK /\ (\A t \in Threads : Sound(req[t])) /\ EntriesOnlyForFriends

----------------------------------------------------------------------------
LEMMA CoupleFacts == \A c \in Couples : c[1] \in Users /\ c[2] \in Users
BY DEF Couples

LEMMA RequestType ==
    ASSUME NEW op \in AllOps, NEW s \in Stages, NEW x \in Ratings \cup {<<>>}, NEW C \in SUBSET Couples
    PROVE  /\ Request(op, s, x, C) \in Requests
           /\ Request(op, s, x, C).at = s /\ Request(op, s, x, C).rating = x
           /\ Request(op, s, x, C).read = {}
BY DEF Request, Requests

LEMMA IdleFacts == Idle \in Requests /\ Sound(Idle)
BY DEF Idle, Request, Requests, Stages, Sound, AboutSomething, ReadForFriends, HeldIsAccepted, Rebuilding

LEMMA PublishedType == ASSUME NEW u \in Users PROVE PublishedBy(u) \subseteq Rows
<1>1. \A a \in Albums : Published(<<u, a>>) => <<u, a, ratings[<<u, a>>]>> \in Rows
  BY DEF Published, Rows
<1> QED BY <1>1 DEF PublishedBy

\* What nobody has read makes no entry.
LEMMA MutualFacts == ASSUME NEW c, NEW R PROVE Mutual(c, R) \subseteq Entries /\ (R = {} => Mutual(c, R) = {})
BY DEF Mutual

\* A step that moves thread t on, and changes no friendship and no dashboard.
LEMMA StepOfOne ==
    ASSUME IInv, NEW t \in Threads, NEW r \in Requests, Sound(r),
           req' = [req EXCEPT ![t] = r],
           UNCHANGED <<friendship, entries>>,
           ratings' \in [Ratings -> Rating], edited' \subseteq Ratings,
           told' \subseteq Couples \X Albums, unheard' \subseteq Couples \X Albums, crashed' \in BOOLEAN,
           cut' \subseteq Couples \X Albums
    PROVE  IInv'
<1>1. TypeOK'
  BY DEF IInv, TypeOK
<1>2. \A x \in Threads : req'[x] = IF x = t THEN r ELSE req[x]
  BY DEF IInv, TypeOK
<1>3. \A x \in Threads : Sound(req[x])'
  BY <1>2 DEF IInv, Sound, AboutSomething, ReadForFriends, HeldIsAccepted
<1>4. EntriesOnlyForFriends'
  BY DEF IInv, EntriesOnlyForFriends
<1> QED BY <1>1, <1>3, <1>4 DEF IInv

LEMMA StartIInv ==
    ASSUME IInv, NEW t \in Threads, Start(t)
    PROVE  IInv'
<1>1. ASSUME NEW r \in Requests, NEW op, Serve(t, op, r), Sound(r),
             UNCHANGED <<friendship, ratings, entries, edited, told, unheard, crashed, cut>>
      PROVE  IInv'
  BY <1>1, StepOfOne DEF Serve, IInv, TypeOK
<1>2. {"publish", "republish", "delete", "accept"} \subseteq Stages
      /\ {"publish", "republish", "delete", "befriend"} \subseteq AllOps
  BY DEF Stages, AllOps
<1> USE DEF Sound, AboutSomething, ReadForFriends, HeldIsAccepted, Rebuilding
<1>3. ASSUME NEW r \in Ratings, StartPublish(t, r) PROVE IInv'
  BY <1>1, <1>2, <1>3, RequestType DEF StartPublish
<1>4. ASSUME NEW r \in Ratings, StartRepublish(t, r) PROVE IInv'
  BY <1>1, <1>2, <1>4, RequestType DEF StartRepublish
<1>5. ASSUME NEW r \in Ratings, StartDelete(t, r) PROVE IInv'
  <2> DEFINE q == [Request("delete", "delete", r, {}) EXCEPT !.active = Published(r)]
  <2>a. \A p \in Requests, b \in BOOLEAN :
          LET n == [p EXCEPT !.active = b] IN n \in Requests /\ n.at = p.at /\ n.read = p.read
    BY DEF Requests
  <2>b. Published(r) \in BOOLEAN
    BY DEF Published
  <2>1. q \in Requests /\ q.at = "delete" /\ q.read = {}
    BY <1>2, <2>a, <2>b, RequestType
  <2> HIDE DEF q
  <2>2. Sound(q)
    BY <2>1
  <2> QED BY <1>1, <1>5, <2>1, <2>2 DEF StartDelete, q
<1>6. ASSUME NEW c \in Couples, StartAccept(t, c) PROVE IInv'
  <2> DEFINE q == Request("befriend", "accept", <<>>, {c})
  <2>1. q \in Requests /\ q.at = "accept" /\ q.read = {}
    BY <1>2, RequestType
  <2> HIDE DEF q
  <2>2. Sound(q)
    BY <2>1
  <2> QED BY <1>1, <1>6, <2>1, <2>2 DEF StartAccept, q
<1> QED BY <1>3, <1>4, <1>5, <1>6 DEF Start

\* The steps of a rating's handler: none of them touches a dashboard.
LEMMA RatingIInv ==
    ASSUME IInv, NEW t \in Threads,
           CommitPublish(t) \/ CommitRepublish(t) \/ CommitDelete(t) \/ Complete(t) \/ Fail(t)
    PROVE  IInv'
<1> USE DEF Done, At
<1>a. req \in [Threads -> Requests] /\ req[t] \in Requests /\ Sound(req[t])
  BY DEF IInv, TypeOK
<1>b. \A p \in Requests, s \in {"friends", "pair"} :
        LET n == [p EXCEPT !.at = s] IN n \in Requests /\ n.at = s /\ n.read = p.read /\ n.fresh = p.fresh
  BY DEF Requests, Stages
<1>c. ASSUME NEW p \in Requests, p.at = "friends", p.read = {} PROVE Sound(p)
  BY <1>c DEF Sound, AboutSomething, ReadForFriends, HeldIsAccepted, Rebuilding
<1>d. At(t, "publish") \/ At(t, "republish") \/ At(t, "delete") \/ At(t, "complete") => req[t].read = {}
  BY <1>a DEF Sound, ReadForFriends
<1>1. CASE CommitPublish(t)
  <2>1. CASE req[t].live
    <3> DEFINE q == [req[t] EXCEPT !.at = "friends"]
    <3>1. q \in Requests /\ Sound(q)
      BY <1>1, <1>a, <1>b, <1>c, <1>d DEF CommitPublish
    <3>2. req' = [req EXCEPT ![t] = q] /\ req[t].rating \in Ratings
      BY <1>1, <1>a, <2>1 DEF CommitPublish, Sound, AboutSomething
    <3>3. ratings' \in [Ratings -> Rating]
      BY <1>1, <2>1 DEF CommitPublish, IInv, TypeOK, Rating
    <3> HIDE DEF q
    <3> QED BY <1>1, <2>1, <3>1, <3>2, <3>3, StepOfOne DEF CommitPublish, IInv, TypeOK
  <2>2. CASE ~req[t].live
    BY <1>1, <2>2, IdleFacts, StepOfOne DEF CommitPublish, IInv, TypeOK
  <2> QED BY <2>1, <2>2
<1>2. CASE CommitRepublish(t)
  <2>1. CASE req[t].live
    <3> DEFINE q == [req[t] EXCEPT !.at = "friends"]
    <3>1. q \in Requests /\ Sound(q)
      BY <1>2, <1>a, <1>b, <1>c, <1>d DEF CommitRepublish
    <3>2. req' = [req EXCEPT ![t] = q]
      BY <1>2, <2>1 DEF CommitRepublish
    <3> HIDE DEF q
    <3> QED BY <1>2, <2>1, <3>1, <3>2, StepOfOne DEF CommitRepublish, IInv, TypeOK
  <2>2. CASE ~req[t].live
    BY <1>2, <2>2, IdleFacts, StepOfOne DEF CommitRepublish, IInv, TypeOK
  <2> QED BY <2>1, <2>2
<1>3. CASE CommitDelete(t)
  <2> DEFINE q == IF req[t].active THEN AfterDelete(t) ELSE Idle
  <2>1. q \in Requests /\ Sound(q)
    BY <1>3, <1>a, <1>b, <1>c, <1>d, IdleFacts DEF CommitDelete, AfterDelete
  <2> HIDE DEF q
  <2>2. CASE ~req[t].live
    BY <1>3, <2>1, <2>2, StepOfOne DEF CommitDelete, IInv, TypeOK, q
  <2>3. CASE req[t].live
    <3> DEFINE p(x) == [req[x] EXCEPT !.live = @ /\ req[x].rating # req[t].rating]
    <3>1. \A x \in Threads : req'[x] = IF x = t THEN q ELSE p(x)
      BY <1>3, <2>3 DEF CommitDelete, q
    <3>2. ASSUME NEW x \in Threads PROVE p(x) \in Requests /\ Sound(p(x))
      <4>1. req[x] \in Requests /\ Sound(req[x])
        BY DEF IInv, TypeOK
      <4>2. \A y \in Requests, b \in BOOLEAN :
              LET n == [y EXCEPT !.live = b] IN n \in Requests /\ (Sound(y) => Sound(n))
        BY DEF Requests, Sound, AboutSomething, ReadForFriends, HeldIsAccepted
      <4>3. (req[x].live /\ req[x].rating # req[t].rating) \in BOOLEAN
        BY <4>1 DEF Requests
      <4> QED BY <4>1, <4>2, <4>3
    <3> HIDE DEF p
    <3>3. \A x \in Threads : req'[x] \in Requests /\ Sound(req'[x])
      BY <2>1, <3>1, <3>2
    <3>4. req' \in [Threads -> Requests]
      BY <1>3, <2>3, <3>3 DEF CommitDelete
    <3>5. UNCHANGED <<friendship, entries>>
      BY <1>3 DEF CommitDelete
    <3>6. \A x \in Threads : Sound(req[x])'
      BY <3>3, <3>5 DEF Sound, AboutSomething, ReadForFriends, HeldIsAccepted
    <3>7. TypeOK'
      BY <1>3, <2>3, <3>4, <3>5 DEF CommitDelete, IInv, TypeOK, Rating
    <3>8. EntriesOnlyForFriends'
      BY <3>5 DEF IInv, EntriesOnlyForFriends
    <3> QED BY <3>6, <3>7, <3>8 DEF IInv
  <2> QED BY <2>2, <2>3
<1>4. CASE Complete(t)
  <2>1. CASE req[t].live
    <3>1. PICK C \in SUBSET {c \in Couples : Has(c, req[t].rating[1]) /\ friendship[c] # "none"} :
            req' = [req EXCEPT ![t].at = "pair", ![t].op = "complete", ![t].todo = C,
                               ![t].held = C, ![t].fresh = FALSE]
      BY <1>4, <2>1 DEF Complete
    <3> DEFINE q == [req[t] EXCEPT !.at = "pair", !.op = "complete", !.todo = C,
                                   !.held = C, !.fresh = FALSE]
    <3>2. q \in Requests /\ q.at = "pair" /\ q.read = {} /\ ~q.fresh
      BY <1>4, <1>a, <1>d DEF Complete, Requests, Stages
    <3> HIDE DEF q
    <3>3. Sound(q)
      BY <3>2 DEF Sound, AboutSomething, ReadForFriends, HeldIsAccepted, Rebuilding
    <3>4. req' = [req EXCEPT ![t] = q]
      BY <3>1 DEF q
    <3>5. told' \subseteq Couples \X Albums
      BY <1>4, <2>1 DEF Complete, About, IInv, TypeOK
    <3> QED BY <1>4, <2>1, <3>2, <3>3, <3>4, <3>5, StepOfOne DEF Complete, IInv, TypeOK
  <2>2. CASE ~req[t].live
    BY <1>4, <2>2, IdleFacts, StepOfOne DEF Complete, IInv, TypeOK
  <2> QED BY <2>1, <2>2
<1>5. CASE Fail(t)
  BY <1>5, IdleFacts, StepOfOne DEF Fail, IInv, TypeOK
<1> QED BY <1>1, <1>2, <1>3, <1>4, <1>5

\* A friendship that is accepted, or ended.  Who holds its row loses it with it.
LEMMA FriendshipIInv ==
    ASSUME IInv,
           \/ \E t \in Threads : CommitAccept(t)
           \/ \E c \in Couples : RequestFriend(c) \/ EndFriendship(c)
    PROVE  IInv'
<1>1. ASSUME NEW c \in Couples, RequestFriend(c) PROVE IInv'
  <2>1. TypeOK'
    BY <1>1 DEF RequestFriend, IInv, TypeOK, FriendshipStatus
  <2>2. \A d \in Couples : friendship[d] = "accepted" => friendship'[d] = "accepted"
    BY <1>1 DEF RequestFriend, IInv, TypeOK
  <2>3. ASSUME NEW t \in Threads PROVE Sound(req[t])'
    <3>1. Sound(req[t]) /\ req[t] \in Requests /\ req' = req
      BY <1>1 DEF IInv, TypeOK, RequestFriend
    <3> QED BY <2>2, <3>1 DEF Sound, AboutSomething, ReadForFriends, HeldIsAccepted, Requests
  <2>4. EntriesOnlyForFriends'
    BY <1>1, <2>2 DEF RequestFriend, IInv, EntriesOnlyForFriends
  <2> QED BY <2>1, <2>3, <2>4 DEF IInv
<1>2. ASSUME NEW c \in Couples, EndFriendship(c) PROVE IInv'
  <2> DEFINE F(t) == IF req[t].pair = c THEN {} ELSE req[t].found
             q(t) == [req[t] EXCEPT !.held = @ \ {c}, !.found = F(t)]
  <2>1. \A t \in Threads : req'[t] = q(t)
    BY <1>2 DEF EndFriendship
  <2>2. \A d \in Couples : d # c => friendship'[d] = friendship[d] /\ entries'[d] = entries[d]
    BY <1>2 DEF EndFriendship, IInv, TypeOK
  <2>3. entries'[c] = {}
    BY <1>2 DEF EndFriendship, IInv, TypeOK
  <2>4. ASSUME NEW t \in Threads PROVE req'[t] \in Requests /\ Sound(req[t])'
    <3>1. req[t] \in Requests /\ Sound(req[t])
      BY DEF IInv, TypeOK
    <3>2. /\ q(t) \in Requests
          /\ q(t).at = req[t].at /\ q(t).rating = req[t].rating /\ q(t).pair = req[t].pair
          /\ q(t).active = req[t].active /\ q(t).read = req[t].read /\ q(t).fresh = req[t].fresh
          /\ q(t).todo = req[t].todo /\ q(t).held = req[t].held \ {c}
      BY <3>1 DEF Requests
    <3> HIDE DEF q
    <3>3. AboutSomething(q(t)) /\ ReadForFriends(q(t))
      BY <3>1, <3>2 DEF Sound, AboutSomething, ReadForFriends
    <3>4. /\ q(t).at \in Rebuilding => q(t).pair \in Couples
          /\ q(t).todo \subseteq Couples
      BY <3>2, <3>3 DEF AboutSomething, Requests
    <3>5. HeldIsAccepted(req[t])
      BY <3>1 DEF Sound
    <3>6. /\ q(t).at \in Rebuilding /\ q(t).active /\ q(t).pair \in q(t).held =>
                friendship'[q(t).pair] = "accepted"
          /\ q(t).at = "pair" /\ q(t).fresh => \A d \in q(t).todo \cap q(t).held : friendship'[d] = "accepted"
      BY <2>2, <3>2, <3>4, <3>5 DEF HeldIsAccepted
    <3> QED BY <2>1, <3>2, <3>3, <3>6 DEF Sound, AboutSomething, ReadForFriends, HeldIsAccepted
  <2>5. TypeOK'
    <3>1. req' \in [Threads -> Requests]
      BY <1>2, <2>4 DEF EndFriendship
    <3> QED BY <1>2, <3>1 DEF EndFriendship, IInv, TypeOK, FriendshipStatus
  <2>6. EntriesOnlyForFriends'
    BY <2>2, <2>3 DEF IInv, EntriesOnlyForFriends
  <2> QED BY <2>4, <2>5, <2>6 DEF IInv
<1>3. ASSUME NEW t \in Threads, CommitAccept(t) PROVE IInv'
  <2>a. req[t] \in Requests /\ Sound(req[t])
    BY DEF IInv, TypeOK
  <2>1. CASE req[t].held = {}
    BY <1>3, <2>1, IdleFacts, StepOfOne DEF CommitAccept, Done, IInv, TypeOK
  <2>2. CASE req[t].held # {}
    <3>0. PICK q : q = [req[t] EXCEPT !.at = "pair"]
      OBVIOUS
    <3>1. /\ q \in Requests /\ q.at = "pair" /\ q.read = {}
          /\ q.held = req[t].held
      BY <1>3, <2>a, <3>0 DEF CommitAccept, At, Requests, Stages, Sound, ReadForFriends
    <3>2. req' = [req EXCEPT ![t] = q]
      BY <1>3, <2>2, <3>0 DEF CommitAccept
    <3>3. \A c \in Couples : friendship'[c] = IF c \in req[t].held THEN "accepted" ELSE friendship[c]
      BY <1>3, <2>2 DEF CommitAccept
    <3>4. friendship' \in [Couples -> FriendshipStatus]
      BY <1>3, <2>2 DEF CommitAccept, IInv, TypeOK, FriendshipStatus
    <3>5. TypeOK'
      BY <1>3, <3>1, <3>2, <3>4 DEF CommitAccept, IInv, TypeOK
    <3>6. Sound(q)'
      BY <3>1, <3>3 DEF Sound, AboutSomething, ReadForFriends, HeldIsAccepted, Rebuilding, Requests
    <3>7. ASSUME NEW x \in Threads, x # t PROVE Sound(req[x])'
      <4>1. req'[x] = req[x] /\ req[x] \in Requests /\ Sound(req[x])
        BY <3>2, <3>7 DEF IInv, TypeOK
      <4> QED BY <3>3, <4>1 DEF Sound, AboutSomething, ReadForFriends, HeldIsAccepted, Requests
    <3>8. EntriesOnlyForFriends'
      BY <1>3, <3>3 DEF CommitAccept, IInv, EntriesOnlyForFriends
    <3>9. req'[t] = q
      BY <3>2 DEF IInv, TypeOK
    <3>10. \A x \in Threads : Sound(req[x])'
      BY <3>6, <3>7, <3>9
    <3> QED BY <3>5, <3>8, <3>10 DEF IInv
  <2> QED BY <2>1, <2>2
<1> QED BY <1>1, <1>2, <1>3

\* The steps of a rebuild up to its INSERT.
LEMMA RebuildIInv ==
    ASSUME IInv, NEW t \in Threads,
           ListFriends(t) \/ NextPair(t) \/ EndPairs(t) \/ Wipe(t) \/ ReadA(t) \/ ReadB(t)
    PROVE  IInv'
<1> USE DEF Done, At
<1>a. /\ req \in [Threads -> Requests] /\ req[t] \in Requests
      /\ AboutSomething(req[t]) /\ ReadForFriends(req[t]) /\ HeldIsAccepted(req[t])
      /\ entries \in [Couples -> SUBSET Entries]
  BY DEF IInv, TypeOK, Sound
<1>b. ASSUME NEW q \in Requests, Sound(q), req' = [req EXCEPT ![t] = q],
             UNCHANGED <<friendship, ratings, entries, edited, told, unheard, crashed, cut>>
      PROVE  IInv'
  BY <1>b, StepOfOne DEF IInv, TypeOK
<1>c. \A s \in {"pair", "wipe", "read_a", "read_b", "insert", "complete"} : s \in Stages
  BY DEF Stages
<1> USE DEF Sound, AboutSomething, ReadForFriends, HeldIsAccepted, Rebuilding
<1>1. CASE ListFriends(t)
  <2> DEFINE F == FriendshipsOf(req[t].rating[1])
  <2>1. F \in SUBSET Couples /\ \A c \in F : friendship[c] = "accepted"
    BY DEF FriendshipsOf
  <2> HIDE DEF F
  <2>2. PICK q : q = [req[t] EXCEPT !.at = "pair", !.todo = F, !.held = F, !.fresh = TRUE]
    OBVIOUS
  <2>3. q \in Requests /\ q.at = "pair" /\ q.read = {} /\ q.todo = F
    BY <1>1, <1>a, <1>c, <2>1, <2>2 DEF ListFriends, Requests
  <2>4. Sound(q)
    BY <2>1, <2>3
  <2>5. req' = [req EXCEPT ![t] = q]
    BY <1>1, <2>2 DEF ListFriends, F
  <2> QED BY <1>1, <1>b, <2>3, <2>4, <2>5 DEF ListFriends
<1>2. CASE NextPair(t)
  <2>1. PICK c \in req[t].todo :
          \/ /\ req[t].fresh \/ c \in req[t].held
             /\ req' = [req EXCEPT ![t].at = "wipe", ![t].todo = Rest(t, c), ![t].pair = c,
                                   ![t].active = req[t].fresh \/ friendship[c] = "accepted",
                                   ![t].found = EntriesOf(t, c)]
             /\ UNCHANGED <<unheard, cut>>
          \/ /\ ~req[t].fresh /\ c \notin req[t].held
             /\ IF req[t].op = "complete"
                THEN req' = [req EXCEPT ![t].todo = Rest(t, c)] /\ UNCHANGED <<unheard, cut>>
                ELSE /\ Done(t) /\ unheard' = unheard \cup Abandoned(t)
                     /\ cut' = cut \cup Rest(t, c) \X Albums
    BY <1>2 DEF NextPair
  <2>a. c \in Couples /\ EntriesOf(t, c) \in SUBSET Entries
    BY <1>a DEF Requests, EntriesOf
  <2>2. c \in Couples /\ Rest(t, c) \in SUBSET Couples /\ Rest(t, c) \subseteq req[t].todo /\ req[t].read = {}
    BY <1>2, <1>a DEF NextPair, Requests, Rest
  <2>3. CASE req[t].fresh \/ c \in req[t].held
    <3>1. PICK b \in BOOLEAN : b = (req[t].fresh \/ friendship[c] = "accepted")
      BY <1>a DEF Requests
    <3>2. PICK q : q = [req[t] EXCEPT !.at = "wipe", !.todo = Rest(t, c), !.pair = c, !.active = b,
                                      !.found = EntriesOf(t, c)]
      OBVIOUS
    <3>3. /\ q \in Requests /\ q.at = "wipe" /\ q.read = {} /\ q.pair = c /\ q.active = b
          /\ q.held = req[t].held
      BY <1>a, <1>c, <2>2, <2>a, <3>1, <3>2 DEF Requests
    <3>4. c \in req[t].held /\ b => friendship[c] = "accepted"
      BY <1>2, <1>a, <3>1 DEF NextPair
    <3>5. Sound(q)
      BY <2>2, <3>3, <3>4
    <3>6. req' = [req EXCEPT ![t] = q]
      BY <2>1, <2>3, <3>1, <3>2
    <3>7. UNCHANGED <<unheard, cut>>
      BY <2>1, <2>3
    <3> QED BY <1>2, <1>b, <3>3, <3>5, <3>6, <3>7 DEF NextPair
  <2>4. CASE ~(req[t].fresh \/ c \in req[t].held) /\ req[t].op = "complete"
    <3>1. PICK q : q = [req[t] EXCEPT !.todo = Rest(t, c)]
      OBVIOUS
    <3>2. /\ q \in Requests /\ q.at = "pair" /\ q.read = {} /\ ~q.fresh
      BY <1>2, <1>a, <2>2, <2>4, <3>1 DEF NextPair, Requests
    <3>3. Sound(q)
      BY <3>2
    <3>4. req' = [req EXCEPT ![t] = q]
      BY <2>1, <2>4, <3>1
    <3>5. UNCHANGED <<unheard, cut>>
      BY <2>1, <2>4
    <3> QED BY <1>2, <1>b, <3>2, <3>3, <3>4, <3>5 DEF NextPair
  <2>5. CASE ~(req[t].fresh \/ c \in req[t].held) /\ req[t].op # "complete"
    <3>1. cut' = cut \cup Rest(t, c) \X Albums /\ unheard' = unheard \cup Abandoned(t) /\ Done(t)
      BY <2>1, <2>5
    <3>2. cut' \subseteq Couples \X Albums /\ unheard' \subseteq Couples \X Albums
      BY <2>2, <3>1 DEF IInv, TypeOK, Abandoned
    <3> QED BY <1>2, <2>5, <3>1, <3>2, IdleFacts, StepOfOne DEF NextPair, IInv, TypeOK
  <2> QED BY <2>3, <2>4, <2>5
<1>3. CASE EndPairs(t)
  <2>1. CASE TellsPartners(t)
    <3>1. PICK q : q = [req[t] EXCEPT !.at = "complete"]
      OBVIOUS
    <3>2. q \in Requests /\ q.at = "complete" /\ q.read = {}
      BY <1>3, <1>a, <1>c, <3>1 DEF EndPairs, Requests
    <3>3. Sound(q)
      BY <3>2
    <3>4. req' = [req EXCEPT ![t] = q]
      BY <1>3, <2>1, <3>1 DEF EndPairs
    <3> QED BY <1>3, <1>b, <3>2, <3>3, <3>4 DEF EndPairs
  <2>2. CASE ~TellsPartners(t)
    BY <1>3, <1>b, <2>2, IdleFacts DEF EndPairs
  <2> QED BY <2>1, <2>2
<1>4. CASE Wipe(t)
  <2>1. PICK q : q = [req[t] EXCEPT !.at = IF req[t].active THEN "read_a" ELSE "insert",
                                    !.doomed = req[t].found, !.found = {}]
    OBVIOUS
  <2>2. /\ q \in Requests /\ q.at = IF req[t].active THEN "read_a" ELSE "insert"
        /\ q.read = {} /\ q.pair = req[t].pair /\ q.active = req[t].active
        /\ q.held = req[t].held
    BY <1>4, <1>a, <1>c, <2>1 DEF Wipe, Requests
  <2>3. Sound(q)
    BY <1>4, <1>a, <2>2 DEF Wipe
  <2>4. req' = [req EXCEPT ![t] = q]
    BY <1>4, <2>1 DEF Wipe
  <2> QED BY <1>4, <1>b, <2>2, <2>3, <2>4 DEF Wipe
<1>5. CASE ReadA(t)
  <2> DEFINE R == PublishedBy(req[t].pair[1])
  <2>1. R \in SUBSET Rows
    BY <1>5, <1>a, CoupleFacts, PublishedType DEF ReadA
  <2> HIDE DEF R
  <2>2. PICK q : q = [req[t] EXCEPT !.at = "read_b", !.read = R]
    OBVIOUS
  <2>3. /\ q \in Requests /\ q.at = "read_b" /\ q.pair = req[t].pair /\ q.active = req[t].active
        /\ q.held = req[t].held
    BY <1>a, <1>c, <2>1, <2>2 DEF Requests
  <2>4. Sound(q)
    BY <1>5, <1>a, <2>3 DEF ReadA
  <2>5. req' = [req EXCEPT ![t] = q]
    BY <1>5, <2>2 DEF ReadA, R
  <2> QED BY <1>5, <1>b, <2>3, <2>4, <2>5 DEF ReadA
<1>6. CASE ReadB(t)
  <2> DEFINE R == req[t].read \cup PublishedBy(req[t].pair[2])
  <2>1. R \in SUBSET Rows
    BY <1>6, <1>a, CoupleFacts, PublishedType DEF ReadB, Requests
  <2> HIDE DEF R
  <2>2. PICK q : q = [req[t] EXCEPT !.at = "insert", !.read = R]
    OBVIOUS
  <2>3. /\ q \in Requests /\ q.at = "insert" /\ q.pair = req[t].pair /\ q.active = req[t].active
        /\ q.held = req[t].held
    BY <1>a, <1>c, <2>1, <2>2 DEF Requests
  <2>4. Sound(q)
    BY <1>6, <1>a, <2>3 DEF ReadB
  <2>5. req' = [req EXCEPT ![t] = q]
    BY <1>6, <2>2 DEF ReadB, R
  <2> QED BY <1>6, <1>b, <2>3, <2>4, <2>5 DEF ReadB
<1> QED BY <1>1, <1>2, <1>3, <1>4, <1>5, <1>6

\* What is inserted was read for a friendship whose row is still there.
LEMMA InsertIInv ==
    ASSUME IInv, NEW t \in Threads, Insert(t)
    PROVE  IInv'
<1> DEFINE c == req[t].pair
           new == Mutual(c, req[t].read)
           kept == entries[c] \ req[t].doomed
<1>1. /\ req \in [Threads -> Requests] /\ req[t] \in Requests
      /\ c \in Couples /\ entries \in [Couples -> SUBSET Entries]
  BY DEF Insert, At, IInv, TypeOK, Sound, AboutSomething, Rebuilding
<1>2. new # {} => req[t].active
  BY MutualFacts DEF IInv, Sound, ReadForFriends
<1>3. req[t].active /\ FriendshipThere(t) => friendship[c] = "accepted"
  BY DEF Insert, At, IInv, Sound, HeldIsAccepted, Rebuilding, FriendshipThere
<1>4. kept \cup new \in SUBSET Entries
  BY <1>1, MutualFacts
<1>5. kept # {} => friendship[c] = "accepted"
  BY <1>1 DEF IInv, EntriesOnlyForFriends
<1>a. /\ req[t].todo \subseteq Couples /\ AlbumsOf(new) \subseteq Albums
      /\ cut \subseteq Couples \X Albums
  BY <1>1, <1>4 DEF Requests, AlbumsOf, Entries, IInv, TypeOK
<1> HIDE DEF kept, new
<1>6. ASSUME NEW lost \in SUBSET Albums, Done(t), UNCHANGED entries, unheard' = unheard \cup Abandoned(t),
             cut' = cut \cup (req[t].todo \X Albums) \cup ({c} \X lost)
      PROVE  IInv'
  <2>1. cut' \subseteq Couples \X Albums /\ unheard' \subseteq Couples \X Albums
    BY <1>1, <1>a, <1>6 DEF IInv, TypeOK, Abandoned
  <2> QED BY <1>6, <2>1, IdleFacts, StepOfOne DEF Done, Insert, IInv, TypeOK
<1>7. CASE CommitEntries(t, kept \cup new) /\ UNCHANGED <<unheard, cut>> /\ (new # {} => FriendshipThere(t))
  <2>1. \A x \in Threads : req[x] \in Requests /\ Sound(req[x])
    BY DEF IInv, TypeOK
  <2>2. ASSUME NEW x \in Threads PROVE req'[x] \in Requests /\ Sound(req'[x])
    <3>1. CASE x = t
      <4>1. req'[t] = [req[t] EXCEPT !.at = "pair", !.fresh = FALSE, !.pair = <<>>,
                                     !.active = FALSE, !.doomed = {}, !.read = {}]
        BY <1>7 DEF CommitEntries
      <4>2. req'[t] \in Requests /\ req'[t].at = "pair" /\ ~req'[t].fresh /\ req'[t].read = {}
        BY <1>1, <4>1 DEF Requests, Stages
      <4> QED BY <3>1, <4>2 DEF Sound, AboutSomething, ReadForFriends, HeldIsAccepted, Rebuilding
    <3>2. CASE x # t /\ req[x].pair = c
      <4>1. req'[x] = [req[x] EXCEPT !.found = @ \ req[t].doomed]
        BY <1>7, <3>2 DEF CommitEntries
      <4>2. req[x].found \ req[t].doomed \in SUBSET Entries
        BY <2>1 DEF Requests
      <4> QED BY <2>1, <4>1, <4>2 DEF Requests, Sound, AboutSomething, ReadForFriends, HeldIsAccepted
    <3>3. CASE x # t /\ req[x].pair # c
      BY <1>7, <2>1, <3>3 DEF CommitEntries
    <3> QED BY <3>1, <3>2, <3>3
  <2>3. entries' = [entries EXCEPT ![c] = kept \cup new]
        /\ UNCHANGED <<friendship, ratings, edited, told, unheard, crashed, cut>>
    BY <1>7 DEF CommitEntries, Insert
  <2>4. req' \in [Threads -> Requests]
    BY <1>7, <2>2 DEF CommitEntries
  <2>5. TypeOK'
    BY <1>1, <1>4, <2>3, <2>4 DEF IInv, TypeOK
  <2>6. \A x \in Threads : Sound(req[x])'
    BY <2>2, <2>3 DEF Sound, AboutSomething, ReadForFriends, HeldIsAccepted
  <2>7. EntriesOnlyForFriends'
    BY <1>1, <1>2, <1>3, <1>5, <1>7, <2>3 DEF IInv, EntriesOnlyForFriends
  <2> QED BY <2>5, <2>6, <2>7 DEF IInv
<1> DEFINE clash == {e \in EntriesOf(t, c) \ req[t].doomed : e[1] \in AlbumsOf(new)}
           lost == IF clash = {} THEN {} ELSE AlbumsOf(new) \ AlbumsOf(clash)
<1>8. lost \in SUBSET Albums
  BY <1>a
<1> QED BY <1>6, <1>7, <1>8 DEF Insert, kept, new

----------------------------------------------------------------------------
LEMMA InitIInv == Init => IInv
<1> SUFFICES ASSUME Init PROVE IInv
  OBVIOUS
<1>1. req \in [Threads -> Requests] /\ \A t \in Threads : Sound(req[t])
  BY IdleFacts DEF Init
<1> QED BY <1>1 DEF Init, IInv, TypeOK, Rating, EntriesOnlyForFriends

LEMMA NextIInv == IInv /\ [Next]_vars => IInv'
<1> SUFFICES ASSUME IInv, [Next]_vars PROVE IInv'
  OBVIOUS
<1>1. ASSUME NEW t \in Threads, Start(t) PROVE IInv'
  BY <1>1, StartIInv
<1>2. ASSUME NEW t \in Threads, Continue(t) \/ Fail(t) PROVE IInv'
  BY <1>2, RatingIInv, FriendshipIInv, RebuildIInv, InsertIInv DEF Continue
<1>3. CASE OneShot
  <2>1. ASSUME NEW r \in Ratings, CreateRating(r) \/ \E s \in Scores : PatchRating(r, s) PROVE IInv'
    <3>1. TypeOK'
      BY <2>1 DEF CreateRating, PatchRating, IInv, TypeOK, Rating
    <3>2. UNCHANGED <<friendship, entries, req>>
      BY <2>1 DEF CreateRating, PatchRating
    <3> QED BY <3>1, <3>2 DEF IInv, Sound, AboutSomething, ReadForFriends, HeldIsAccepted, EntriesOnlyForFriends
  <2> QED BY <1>3, <2>1, FriendshipIInv DEF OneShot
<1>4. CASE UNCHANGED vars
  BY <1>4 DEF vars, IInv, TypeOK, Sound, AboutSomething, ReadForFriends, HeldIsAccepted, EntriesOnlyForFriends
<1> QED BY <1>1, <1>2, <1>3, <1>4 DEF Next

LEMMA Invariance == Spec => []IInv
BY InitIInv, NextIInv, PTL DEF Spec

\* The variables keep their types, for any users, albums, scores and threads.
THEOREM TypeCorrect == Spec => []TypeOK
<1>1. IInv => TypeOK
  BY DEF IInv
<1> QED BY <1>1, Invariance, PTL

\* rebuild_for_pair leaves no entries for two who are not friends, whichever
\* rebuilds, acceptances and separations overlap it, and wherever they die.
THEOREM OnlyForFriends == Spec => []EntriesOnlyForFriends
<1>1. IInv => EntriesOnlyForFriends
  BY DEF IInv
<1> QED BY <1>1, Invariance, PTL

----------------------------------------------------------------------------
(* Requests served one after the other: they may still die anywhere.        *)

OneAtATime == \A s, t \in Threads : s = t

\* The dashboard of c is what ViewIsCurrent asks of it.
Current(c) ==
    /\ AlbumsOf(entries[c]) = AlbumsOf(Derived(c))
    /\ \A e \in entries[c] \ Derived(c) : <<c[1], e[1]>> \in edited \/ <<c[2], e[1]>> \in edited

\* A request r has yet to rebuild the dashboard of c.
Due(r, c) ==
    \/ r.at = "friends" /\ Has(c, r.rating[1])
    \/ r.at \in Rebuilding \cup {"pair"} /\ c \in r.todo
    \/ r.at \in Rebuilding /\ c = r.pair

NothingForgotten == ~crashed => \A c \in Couples : Current(c) \/ \E t \in Threads : Due(req[t], c)

\* The rows a request holds are there: nobody else has had a turn.
RowsThere(r) ==
    /\ r.at # "idle" => r.live /\ r.todo \subseteq r.held
    /\ r.at = "publish" => r.op = "publish"
    /\ r.at \in {"publish", "republish", "delete", "friends"} => r.rating \in Ratings
    /\ r.at = "accept" => r.held \subseteq r.todo
    /\ r.at \in Rebuilding => r.pair \in r.held
    /\ r.at = "delete" /\ ~r.active => ~Published(r.rating)

\* What a rebuild has read is still so.
ReadingHolds(r) ==
    /\ r.at \in Rebuilding /\ friendship[r.pair] = "accepted" => r.active
    /\ r.at = "wipe" => r.found = entries[r.pair]
    /\ r.at \in {"read_a", "read_b", "insert"} => r.doomed = entries[r.pair]
    /\ r.at = "read_b" => r.read = PublishedBy(r.pair[1])
    /\ r.at = "insert" /\ r.active => r.read = PublishedBy(r.pair[1]) \cup PublishedBy(r.pair[2])

SerialIInv ==
    /\ IInv
    /\ NothingForgotten
    /\ \A t \in Threads : RowsThere(req[t]) /\ ReadingHolds(req[t])

\* Which entries are derived, and of which albums.
DerivedAsDefined(c) ==
    /\ \A e \in Entries : e \in Derived(c) <=>
         /\ friendship[c] = "accepted"
         /\ Published(<<c[1], e[1]>>) /\ e[2] = ratings[<<c[1], e[1]>>]
         /\ Published(<<c[2], e[1]>>) /\ e[3] = ratings[<<c[2], e[1]>>]
    /\ Derived(c) \subseteq Entries
    /\ AlbumsOf(Derived(c)) = {a \in Albums : /\ friendship[c] = "accepted"
                                             /\ Published(<<c[1], a>>) /\ Published(<<c[2], a>>)}

AllDerivedAsDefined == \A c \in Couples : DerivedAsDefined(c)

LEMMA DerivedFacts == AllDerivedAsDefined
<1> SUFFICES ASSUME NEW c \in Couples PROVE DerivedAsDefined(c)
  BY DEF AllDerivedAsDefined
<1>1. \A u, v \in Users, a \in Albums, s \in Scores :
        <<u, a, s>> \in PublishedBy(v) <=> u = v /\ Published(<<u, a>>) /\ s = ratings[<<u, a>>]
  BY DEF PublishedBy
<1>2. c[1] \in Users /\ c[2] \in Users
  BY CoupleFacts
<1>3. \A e \in Entries : e[1] \in Albums /\ e[2] \in Scores /\ e[3] \in Scores
  BY DEF Entries
<1>4. \A e \in Entries : e \in Derived(c) <=>
        /\ friendship[c] = "accepted"
        /\ Published(<<c[1], e[1]>>) /\ e[2] = ratings[<<c[1], e[1]>>]
        /\ Published(<<c[2], e[1]>>) /\ e[3] = ratings[<<c[2], e[1]>>]
  BY <1>1, <1>2, <1>3 DEF Derived, Mutual
<1>5. Derived(c) \subseteq Entries
  BY MutualFacts DEF Derived
<1>6. ASSUME NEW a \in Albums, friendship[c] = "accepted", Published(<<c[1], a>>), Published(<<c[2], a>>)
      PROVE  a \in AlbumsOf(Derived(c))
  <2> DEFINE e == <<a, ratings[<<c[1], a>>], ratings[<<c[2], a>>]>>
  <2>1. e \in Entries /\ e[1] = a
    BY <1>6 DEF Published, Entries
  <2>2. e \in Derived(c)
    BY <1>4, <1>6, <2>1
  <2> QED BY <2>1, <2>2 DEF AlbumsOf
<1>7. ASSUME NEW a \in AlbumsOf(Derived(c))
      PROVE  a \in Albums /\ friendship[c] = "accepted" /\ Published(<<c[1], a>>) /\ Published(<<c[2], a>>)
  BY <1>3, <1>4, <1>5 DEF AlbumsOf
<1>8. AlbumsOf(Derived(c)) = {a \in Albums : /\ friendship[c] = "accepted"
                                            /\ Published(<<c[1], a>>) /\ Published(<<c[2], a>>)}
  BY <1>6, <1>7
<1> QED BY <1>4, <1>5, <1>8 DEF DerivedAsDefined

LEMMA DerivedFactsNext == AllDerivedAsDefined'
BY DerivedFacts, PTL

\* A dashboard that is current stays so when no published rating of the two, and
\* neither their friendship nor their entries, change.
LEMMA CurrentFrame ==
    ASSUME NEW c \in Couples, Current(c),
           friendship'[c] = friendship[c], entries'[c] = entries[c],
           \A a \in Albums, u \in {c[1], c[2]} :
             /\ Published(<<u, a>>)' = Published(<<u, a>>)
             /\ Published(<<u, a>>) => ratings'[<<u, a>>] = ratings[<<u, a>>]
             /\ Published(<<u, a>>) /\ <<u, a>> \in edited => <<u, a>> \in edited'
    PROVE  Current(c)'
<1>1. DerivedAsDefined(c) /\ DerivedAsDefined(c)' /\ c[1] \in Users /\ c[2] \in Users
  BY DerivedFacts, DerivedFactsNext, CoupleFacts DEF AllDerivedAsDefined
<1>2. \A e \in Entries : e[1] \in Albums
  BY DEF Entries
<1>3. AlbumsOf(Derived(c))' = AlbumsOf(Derived(c))
  BY <1>1 DEF DerivedAsDefined
<1>4. Derived(c)' = Derived(c)
  BY <1>1, <1>2 DEF DerivedAsDefined
<1>5. AlbumsOf(entries[c])' = AlbumsOf(entries[c])
  BY DEF AlbumsOf
<1>6. ASSUME NEW e \in entries'[c] \ Derived(c)'
      PROVE  <<c[1], e[1]>> \in edited' \/ <<c[2], e[1]>> \in edited'
  <2>1. e \in entries[c] \ Derived(c) /\ e[1] \in AlbumsOf(Derived(c))
    BY <1>4 DEF Current, AlbumsOf
  <2>2. e[1] \in Albums /\ Published(<<c[1], e[1]>>) /\ Published(<<c[2], e[1]>>)
    BY <1>1, <2>1 DEF DerivedAsDefined
  <2> QED BY <2>1, <2>2 DEF Current
<1> QED BY <1>3, <1>5, <1>6 DEF Current

\* The only request is the one that has something left to do.
LEMMA Alone ==
    ASSUME OneAtATime, SerialIInv, NEW t \in Threads
    PROVE  /\ req \in [Threads -> Requests] /\ req[t] \in Requests /\ Sound(req[t])
           /\ RowsThere(req[t]) /\ ReadingHolds(req[t])
           /\ ~crashed => \A c \in Couples : Current(c) \/ Due(req[t], c)
<1>1. \A s \in Threads : s = t
  BY DEF OneAtATime
<1> QED BY <1>1 DEF SerialIInv, IInv, TypeOK, NothingForgotten

LEMMA SerialStep ==
    ASSUME OneAtATime, IInv', NEW t \in Threads, NEW q, req'[t] = q,
           RowsThere(q)', ReadingHolds(q)',
           ~crashed' => \A c \in Couples : Current(c)' \/ Due(q, c)
    PROVE  SerialIInv'
<1>1. \A s \in Threads : s = t
  BY DEF OneAtATime
<1>2. NothingForgotten'
  BY DEF NothingForgotten, Due
<1>3. \A s \in Threads : RowsThere(req[s])' /\ ReadingHolds(req[s])'
  BY <1>1
<1> QED BY <1>2, <1>3 DEF SerialIInv

\* A step that changes no dashboard, nor what is derived.
LEMMA SerialQuiet ==
    ASSUME OneAtATime, SerialIInv, IInv', NEW t \in Threads, NEW q, req'[t] = q,
           UNCHANGED <<friendship, ratings, entries, edited, crashed>>,
           RowsThere(q), ReadingHolds(q),
           \A c \in Couples : Due(req[t], c) => Due(q, c) \/ Current(c)
    PROVE  SerialIInv'
<1>1. \A c \in Couples : Current(c) => Current(c)'
  BY DEF Current, Derived, PublishedBy, Published
<1>2. RowsThere(q)' /\ ReadingHolds(q)'
  BY DEF RowsThere, ReadingHolds, PublishedBy, Published
<1> QED BY <1>1, <1>2, Alone, SerialStep

LEMMA SerialInit == OneAtATime /\ Init => SerialIInv
<1> SUFFICES ASSUME Init PROVE SerialIInv
  OBVIOUS
<1>1. IInv
  BY InitIInv
<1>2. \A t \in Threads : req[t].at = "idle"
  BY DEF Init, Idle, Request
<1>3. ASSUME NEW c \in Couples PROVE Current(c)
  <2>1. \A u \in Users, a \in Albums : ~Published(<<u, a>>)
    BY ConstantsAssumption DEF Init, Published, Ratings
  <2>2. \A e \in Entries : e[1] \in Albums
    BY DEF Entries
  <2>3. DerivedAsDefined(c) /\ c[1] \in Users
    BY DerivedFacts, CoupleFacts DEF AllDerivedAsDefined
  <2>4. Derived(c) = {}
    BY <2>1, <2>2, <2>3 DEF DerivedAsDefined
  <2> QED BY <2>4 DEF Init, Current
<1>4. \A t \in Threads : RowsThere(req[t]) /\ ReadingHolds(req[t])
  BY <1>2 DEF RowsThere, ReadingHolds, Rebuilding
<1> QED BY <1>1, <1>3, <1>4 DEF SerialIInv, NothingForgotten, Init

LEMMA StartSerial ==
    ASSUME OneAtATime, SerialIInv, IInv', NEW t \in Threads, Start(t)
    PROVE  SerialIInv'
<1>1. ASSUME NEW r, NEW op, Serve(t, op, r), RowsThere(r), r.at \notin Rebuilding,
             UNCHANGED <<friendship, ratings, entries, edited, crashed>>
      PROVE  SerialIInv'
  <2>1. req'[t] = r /\ req[t].at = "idle"
    BY <1>1, Alone DEF Serve, At
  <2>2. \A c \in Couples : ~Due(req[t], c)
    BY <2>1 DEF Due, Rebuilding
  <2>3. ReadingHolds(r)
    BY <1>1 DEF ReadingHolds, Rebuilding
  <2> QED BY <1>1, <2>1, <2>2, <2>3, SerialQuiet
<1>2. ASSUME NEW op, NEW s, NEW x, NEW C
      PROVE  LET q == Request(op, s, x, C) IN
             q.at = s /\ q.op = op /\ q.rating = x /\ q.live /\ q.todo = C /\ q.held = C
  BY DEF Request
<1>3. ASSUME NEW r \in Ratings, StartPublish(t, r) PROVE SerialIInv'
  BY <1>1, <1>2, <1>3 DEF StartPublish, RowsThere, Rebuilding
<1>4. ASSUME NEW r \in Ratings, StartRepublish(t, r) PROVE SerialIInv'
  BY <1>1, <1>2, <1>4 DEF StartRepublish, RowsThere, Rebuilding
<1>5. ASSUME NEW r \in Ratings, StartDelete(t, r) PROVE SerialIInv'
  <2>1. PICK q : q = [Request("delete", "delete", r, {}) EXCEPT !.active = Published(r)]
    OBVIOUS
  <2>2. /\ q.at = "delete" /\ q.rating = r /\ q.live /\ q.todo = {}
        /\ ~q.active => ~Published(r)
    BY <2>1 DEF Request
  <2>3. RowsThere(q) /\ q.at \notin Rebuilding
    BY <2>2 DEF RowsThere, Rebuilding
  <2> QED BY <1>1, <1>5, <2>1, <2>3 DEF StartDelete
<1>6. ASSUME NEW c \in Couples, StartAccept(t, c) PROVE SerialIInv'
  BY <1>1, <1>2, <1>6 DEF StartAccept, RowsThere, Rebuilding
<1> QED BY <1>3, <1>4, <1>5, <1>6 DEF Start

\* The commits of a rating's handler leave every dashboard but the user's own as
\* it was, and those are rebuilt next.
LEMMA RatingSerial ==
    ASSUME OneAtATime, SerialIInv, IInv', NEW t \in Threads,
           CommitPublish(t) \/ CommitRepublish(t) \/ CommitDelete(t)
    PROVE  SerialIInv'
<1> DEFINE r == req[t].rating
<1>a. /\ req[t].at \in {"publish", "republish", "delete"}
      /\ req[t].live /\ r \in Ratings /\ req[t].todo \subseteq req[t].held
      /\ IInv
  BY Alone DEF CommitPublish, CommitRepublish, CommitDelete, At, RowsThere, SerialIInv
<1>b. \A c \in Couples : ~Due(req[t], c)
  BY <1>a DEF Due, Rebuilding
<1>c. ~crashed => \A c \in Couples : Current(c)
  BY <1>b, Alone
<1>d. /\ r[1] \in Users /\ ratings \in [Ratings -> Rating]
      /\ \A c \in Couples : c[1] \in Users /\ c[2] \in Users
      /\ \A u \in Users, a \in Albums : <<u, a>> \in Ratings /\ <<u, a>>[1] = u
  BY <1>a, CoupleFacts DEF Ratings, IInv, TypeOK
<1>1. ASSUME NEW c \in Couples, Current(c), ~Has(c, r[1]),
             UNCHANGED <<friendship, entries>>,
             \A x \in Ratings : x # r => ratings'[x] = ratings[x],
             \A x \in edited : x # r => x \in edited'
      PROVE  Current(c)'
  <2>1. \A a \in Albums, u \in {c[1], c[2]} : <<u, a>> \in Ratings /\ <<u, a>> # r
    BY <1>1, <1>d DEF Has
  <2> QED BY <1>1, <2>1, CurrentFrame DEF Published
<1>2. ASSUME NEW q, q.at = "friends", q.rating = r, q.live, q.todo = req[t].todo, q.held = req[t].held,
             req'[t] = q, UNCHANGED <<friendship, entries, crashed>>,
             \A x \in Ratings : x # r => ratings'[x] = ratings[x],
             \A x \in edited : x # r => x \in edited'
      PROVE  SerialIInv'
  <2>1. RowsThere(q)' /\ ReadingHolds(q)'
    BY <1>2, <1>a DEF RowsThere, ReadingHolds, Rebuilding
  <2>2. ASSUME ~crashed', NEW c \in Couples PROVE Current(c)' \/ Due(q, c)
    BY <1>1, <1>2, <1>c, <2>2 DEF Due
  <2> QED BY <1>2, <2>1, <2>2, SerialStep
<1>f. req \in [Threads -> Requests] /\ req[t] \in Requests
  BY Alone
<1>3. CASE CommitPublish(t)
  <2>1. PICK q : q = [req[t] EXCEPT !.at = "friends"]
    OBVIOUS
  <2>2. req'[t] = q /\ q.at = "friends" /\ q.rating = r /\ q.live /\ q.todo = req[t].todo
        /\ q.held = req[t].held /\ q.op = req[t].op
    BY <1>3, <1>a, <1>f, <2>1 DEF CommitPublish, Requests
  <2>3. q.op = "publish"
    BY <1>3, <2>2, Alone DEF CommitPublish, At, RowsThere
  <2>4. /\ \A x \in Ratings : x # r => ratings'[x] = ratings[x]
        /\ \A x \in edited : x # r => x \in edited'
        /\ UNCHANGED <<friendship, entries, crashed>>
    BY <1>3, <1>a, <1>c, <1>d DEF CommitPublish
  <2> QED BY <1>2, <2>2, <2>3, <2>4
<1>4. CASE CommitRepublish(t)
  <2>1. PICK q : q = [req[t] EXCEPT !.at = "friends"]
    OBVIOUS
  <2>2. req'[t] = q /\ q.at = "friends" /\ q.rating = r /\ q.live /\ q.todo = req[t].todo
        /\ q.held = req[t].held
    BY <1>4, <1>a, <1>f, <2>1 DEF CommitRepublish, Requests
  <2>3. /\ ratings' = ratings
        /\ \A x \in edited : x # r => x \in edited'
        /\ UNCHANGED <<friendship, entries, crashed>>
    BY <1>4, <1>a, <1>c DEF CommitRepublish
  <2> QED BY <1>2, <2>2, <2>3
<1>5. CASE CommitDelete(t)
  <2>1. /\ \A x \in Ratings : ratings'[x] = IF x = r THEN "none" ELSE ratings[x]
        /\ \A x \in edited : x # r => x \in edited'
        /\ UNCHANGED <<friendship, entries, crashed>>
    BY <1>5, <1>a, <1>c, <1>d DEF CommitDelete
  <2>2. CASE req[t].active
    <3>1. PICK q : q = [req[t] EXCEPT !.at = "friends"]
      OBVIOUS
    <3>2. req'[t] = q /\ q.at = "friends" /\ q.rating = r /\ q.live /\ q.todo = req[t].todo
          /\ q.held = req[t].held
      BY <1>5, <1>a, <1>f, <2>2, <3>1 DEF CommitDelete, AfterDelete, Requests
    <3> QED BY <1>2, <2>1, <3>2
  <2>3. CASE ~req[t].active
    <3>1. req'[t] = Idle
      BY <1>5, <1>a, <2>3 DEF CommitDelete
    <3>2. PICK q : q = Idle
      OBVIOUS
    <3>3. RowsThere(q)' /\ ReadingHolds(q)'
      BY <3>2 DEF Idle, Request, RowsThere, ReadingHolds, Rebuilding
    <3>4. ~Published(r) /\ "none" \notin Scores
      BY <1>5, <2>3, Alone, ConstantsAssumption DEF CommitDelete, At, RowsThere
    <3>5. ASSUME NEW x \in Ratings
          PROVE  /\ Published(x)' = Published(x)
                 /\ Published(x) => ratings'[x] = ratings[x]
                 /\ Published(x) /\ x \in edited => x \in edited'
      BY <2>1, <3>4 DEF Published
    <3>6. ASSUME ~crashed', NEW c \in Couples PROVE Current(c)'
      BY <1>c, <1>d, <2>1, <3>5, <3>6, CurrentFrame
    <3> QED BY <2>1, <3>1, <3>2, <3>3, <3>6, SerialStep
  <2> QED BY <2>2, <2>3
<1> QED BY <1>3, <1>4, <1>5

\* Up to the INSERT a request only moves on: what it has taken from its list it
\* is rebuilding, and the dashboard of two who are not friends is current.
LEMMA RebuildSerial ==
    ASSUME OneAtATime, SerialIInv, IInv', NEW t \in Threads,
           \/ ListFriends(t) \/ NextPair(t) \/ EndPairs(t)
           \/ Wipe(t) \/ ReadA(t) \/ ReadB(t) \/ Complete(t)
    PROVE  SerialIInv'
<1>a. /\ req \in [Threads -> Requests] /\ req[t] \in Requests /\ Sound(req[t])
      /\ RowsThere(req[t]) /\ ReadingHolds(req[t]) /\ IInv
      /\ \A q : req' = [req EXCEPT ![t] = q] => req'[t] = q
  BY Alone DEF SerialIInv
<1> USE DEF At
<1>1. CASE ListFriends(t)
  <2> DEFINE F == FriendshipsOf(req[t].rating[1])
  <2>1. PICK q : q = [req[t] EXCEPT !.at = "pair", !.todo = F, !.held = F, !.fresh = TRUE]
    OBVIOUS
  <2>2. /\ q.at = "pair" /\ q.todo = F /\ q.held = F /\ q.rating = req[t].rating
        /\ q.op = req[t].op /\ q.live = req[t].live /\ req[t].at = "friends"
    BY <1>1, <1>a, <2>1 DEF ListFriends, Requests
  <2>3. RowsThere(q) /\ ReadingHolds(q)
    BY <1>a, <2>2 DEF RowsThere, ReadingHolds, Rebuilding
  <2>4. ASSUME NEW c \in Couples, Due(req[t], c) PROVE Due(q, c) \/ Current(c)
    <3>1. Has(c, req[t].rating[1])
      BY <2>2, <2>4 DEF Due, Rebuilding
    <3>2. CASE friendship[c] = "accepted"
      BY <2>2, <3>1, <3>2 DEF Due, FriendshipsOf
    <3>3. CASE friendship[c] # "accepted"
      BY <1>a, <3>3 DEF IInv, EntriesOnlyForFriends, Current, Derived
    <3> QED BY <3>2, <3>3
  <2>5. req'[t] = q /\ UNCHANGED <<friendship, ratings, entries, edited, crashed>>
    BY <1>1, <1>a, <2>1 DEF ListFriends
  <2> QED BY <2>3, <2>4, <2>5, SerialQuiet
<1>2. CASE NextPair(t)
  <2>1. PICK c \in req[t].todo : req' = [req EXCEPT ![t].at = "wipe", ![t].todo = Rest(t, c), ![t].pair = c,
                                       ![t].active = req[t].fresh \/ friendship[c] = "accepted",
                                       ![t].found = EntriesOf(t, c)]
    BY <1>2, <1>a DEF NextPair, RowsThere
  <2>2. PICK q : q = [req[t] EXCEPT !.at = "wipe", !.todo = Rest(t, c), !.pair = c,
                                    !.active = req[t].fresh \/ friendship[c] = "accepted",
                                    !.found = EntriesOf(t, c)]
    OBVIOUS
  <2>3. /\ q.at = "wipe" /\ q.todo = req[t].todo \ {c} /\ q.held = req[t].held /\ q.pair = c
        /\ q.rating = req[t].rating /\ q.op = req[t].op /\ q.live = req[t].live
        /\ friendship[c] = "accepted" => q.active
        /\ q.found = entries[c] /\ req[t].at = "pair"
    BY <1>2, <1>a, <2>1, <2>2 DEF NextPair, Requests, Rest, EntriesOf, RowsThere
  <2>4. RowsThere(q) /\ ReadingHolds(q)
    BY <1>a, <2>1, <2>3 DEF RowsThere, ReadingHolds, Rebuilding
  <2>5. \A d \in Couples : Due(req[t], d) => Due(q, d)
    BY <2>3 DEF Due, Rebuilding
  <2>6. req'[t] = q /\ UNCHANGED <<friendship, ratings, entries, edited, crashed>>
    BY <1>2, <1>a, <2>1, <2>2 DEF NextPair
  <2> QED BY <2>4, <2>5, <2>6, SerialQuiet
<1>3. CASE EndPairs(t)
  <2>1. \A c \in Couples : ~Due(req[t], c)
    BY <1>3 DEF EndPairs, Due, Rebuilding
  <2>2. CASE TellsPartners(t)
    <3>1. PICK q : q = [req[t] EXCEPT !.at = "complete"]
      OBVIOUS
    <3>2. /\ q.at = "complete" /\ q.todo = req[t].todo /\ q.held = req[t].held
          /\ q.rating = req[t].rating /\ q.op = req[t].op /\ q.live = req[t].live /\ req[t].at = "pair"
      BY <1>3, <1>a, <3>1 DEF EndPairs, Requests
    <3>3. RowsThere(q) /\ ReadingHolds(q)
      BY <1>a, <3>2 DEF RowsThere, ReadingHolds, Rebuilding
    <3>4. req'[t] = q /\ UNCHANGED <<friendship, ratings, entries, edited, crashed>>
      BY <1>3, <1>a, <2>2, <3>1 DEF EndPairs
    <3> QED BY <2>1, <3>3, <3>4, SerialQuiet
  <2>3. CASE ~TellsPartners(t)
    <3>1. PICK q : q = Idle
      OBVIOUS
    <3>2. RowsThere(q) /\ ReadingHolds(q)
      BY <3>1 DEF Idle, Request, RowsThere, ReadingHolds, Rebuilding
    <3>3. req'[t] = q /\ UNCHANGED <<friendship, ratings, entries, edited, crashed>>
      BY <1>3, <1>a, <2>3, <3>1 DEF EndPairs, Done
    <3> QED BY <2>1, <3>2, <3>3, SerialQuiet
  <2> QED BY <2>2, <2>3
<1>4. ASSUME NEW q, req'[t] = q, req[t].at \in Rebuilding, q.at \in Rebuilding \ {"wipe"},
             q.todo = req[t].todo, q.held = req[t].held, q.rating = req[t].rating, q.op = req[t].op,
             q.live = req[t].live, q.pair = req[t].pair, q.active = req[t].active,
             q.doomed = entries[q.pair],
             q.at = "read_b" => q.read = PublishedBy(q.pair[1]),
             q.at = "insert" /\ q.active => q.read = PublishedBy(q.pair[1]) \cup PublishedBy(q.pair[2]),
             UNCHANGED <<friendship, ratings, entries, edited, crashed>>
      PROVE  SerialIInv'
  <2>1. RowsThere(q)
    BY <1>4, <1>a DEF RowsThere, Rebuilding
  <2>2. ReadingHolds(q)
    BY <1>4, <1>a DEF ReadingHolds, Rebuilding
  <2>3. \A d \in Couples : Due(req[t], d) => Due(q, d)
    BY <1>4 DEF Due, Rebuilding
  <2> QED BY <1>4, <2>1, <2>2, <2>3, SerialQuiet
<1>5. CASE Wipe(t)
  <2>1. PICK q : q = [req[t] EXCEPT !.at = IF req[t].active THEN "read_a" ELSE "insert",
                                    !.doomed = req[t].found, !.found = {}]
    OBVIOUS
  <2>2. /\ q.at = IF req[t].active THEN "read_a" ELSE "insert"
        /\ q.todo = req[t].todo /\ q.held = req[t].held
        /\ q.rating = req[t].rating /\ q.op = req[t].op /\ q.live = req[t].live
        /\ q.pair = req[t].pair /\ q.active = req[t].active /\ q.doomed = entries[q.pair]
    BY <1>5, <1>a, <2>1 DEF Wipe, Requests, ReadingHolds
  <2>3. req'[t] = q /\ UNCHANGED <<friendship, ratings, entries, edited, crashed>>
    BY <1>5, <1>a, <2>1 DEF Wipe
  <2> QED BY <1>4, <1>5, <2>2, <2>3 DEF Wipe, Rebuilding
<1>6. CASE ReadA(t)
  <2>1. PICK q : q = [req[t] EXCEPT !.at = "read_b", !.read = PublishedBy(req[t].pair[1])]
    OBVIOUS
  <2>2. /\ q.at = "read_b" /\ q.todo = req[t].todo /\ q.held = req[t].held
        /\ q.rating = req[t].rating /\ q.op = req[t].op /\ q.live = req[t].live
        /\ q.pair = req[t].pair /\ q.active = req[t].active /\ q.doomed = entries[q.pair]
        /\ q.read = PublishedBy(q.pair[1])
    BY <1>6, <1>a, <2>1 DEF ReadA, Requests, ReadingHolds
  <2>3. req'[t] = q /\ UNCHANGED <<friendship, ratings, entries, edited, crashed>>
    BY <1>6, <1>a, <2>1 DEF ReadA
  <2> QED BY <1>4, <1>6, <2>2, <2>3 DEF ReadA, Rebuilding
<1>7. CASE ReadB(t)
  <2>1. PICK q : q = [req[t] EXCEPT !.at = "insert", !.read = @ \cup PublishedBy(req[t].pair[2])]
    OBVIOUS
  <2>2. /\ q.at = "insert" /\ q.todo = req[t].todo /\ q.held = req[t].held
        /\ q.rating = req[t].rating /\ q.op = req[t].op /\ q.live = req[t].live
        /\ q.pair = req[t].pair /\ q.active = req[t].active /\ q.doomed = entries[q.pair]
        /\ q.read = PublishedBy(q.pair[1]) \cup PublishedBy(q.pair[2])
    BY <1>7, <1>a, <2>1 DEF ReadB, Requests, ReadingHolds
  <2>3. req'[t] = q /\ UNCHANGED <<friendship, ratings, entries, edited, crashed>>
    BY <1>7, <1>a, <2>1 DEF ReadB
  <2> QED BY <1>4, <1>7, <2>2, <2>3 DEF ReadB, Rebuilding
<1>8. CASE Complete(t)
  <2>1. /\ req[t].at = "complete" /\ req[t].live
        /\ UNCHANGED <<friendship, ratings, entries, edited, crashed>>
    BY <1>8, <1>a DEF Complete, RowsThere
  <2>2. PICK C : req' = [req EXCEPT ![t].at = "pair", ![t].op = "complete", ![t].todo = C,
                                    ![t].held = C, ![t].fresh = FALSE]
    BY <1>8, <2>1 DEF Complete
  <2>3. PICK q : q = [req[t] EXCEPT !.at = "pair", !.op = "complete", !.todo = C,
                                    !.held = C, !.fresh = FALSE]
    OBVIOUS
  <2>4. q.at = "pair" /\ q.live /\ q.todo = C /\ q.held = C
    BY <1>a, <2>1, <2>3 DEF Requests
  <2>5. RowsThere(q) /\ ReadingHolds(q)
    BY <2>4 DEF RowsThere, ReadingHolds, Rebuilding
  <2>6. \A c \in Couples : ~Due(req[t], c)
    BY <2>1 DEF Due, Rebuilding
  <2>7. req'[t] = q
    BY <1>a, <2>2, <2>3
  <2> QED BY <2>1, <2>5, <2>6, <2>7, SerialQuiet
<1> QED BY <1>1, <1>2, <1>3, <1>5, <1>6, <1>7, <1>8

\* What is inserted is what follows from the ratings: nothing is kept, nothing
\* clashes, and what was read is still so.
LEMMA InsertSerial ==
    ASSUME OneAtATime, SerialIInv, IInv', NEW t \in Threads, Insert(t)
    PROVE  SerialIInv'
<1> DEFINE c == req[t].pair
           new == Mutual(c, req[t].read)
           kept == entries[c] \ req[t].doomed
<1>a. /\ req \in [Threads -> Requests] /\ req[t] \in Requests /\ Sound(req[t])
      /\ RowsThere(req[t]) /\ ReadingHolds(req[t]) /\ req[t].at = "insert"
      /\ ~crashed => \A d \in Couples : Current(d) \/ Due(req[t], d)
      /\ entries \in [Couples -> SUBSET Entries]
  BY Alone DEF SerialIInv, IInv, TypeOK, Insert, At
<1>b. c \in Couples /\ c \in req[t].held /\ req[t].doomed = entries[c] /\ req[t].live
      /\ req[t].todo \subseteq req[t].held
  BY <1>a DEF Sound, AboutSomething, RowsThere, ReadingHolds, Rebuilding
<1>c. kept = {}
  BY <1>b
<1>d. CommitEntries(t, new)
  <2>1. kept \cup new = new /\ {e \in EntriesOf(t, c) \ req[t].doomed : e[1] \in AlbumsOf(new)} = {}
    BY <1>b, <1>c DEF EntriesOf
  <2>2. FriendshipThere(t)
    BY <1>b DEF FriendshipThere
  <2> HIDE DEF new, kept
  <2> QED BY <2>1, <2>2 DEF Insert, new, kept
<1>e. new = Derived(c)
  <2>1. CASE friendship[c] = "accepted"
    BY <1>a, <2>1 DEF ReadingHolds, Rebuilding, Derived
  <2>2. CASE friendship[c] # "accepted"
    <3>1. ~req[t].active
      BY <1>a, <1>b, <2>2 DEF Sound, HeldIsAccepted, Rebuilding
    <3>2. req[t].read = {}
      BY <1>a, <3>1 DEF Sound, ReadForFriends
    <3> QED BY <2>2, <3>2, MutualFacts DEF Derived
  <2> QED BY <2>1, <2>2
<1> HIDE DEF new, kept
<1>1. PICK q : q = [req[t] EXCEPT !.at = "pair", !.fresh = FALSE, !.pair = <<>>,
                                  !.active = FALSE, !.doomed = {}, !.read = {}]
  OBVIOUS
<1>2. /\ q.at = "pair" /\ q.todo = req[t].todo /\ q.held = req[t].held
      /\ q.rating = req[t].rating /\ q.op = req[t].op /\ q.live = req[t].live
  BY <1>a, <1>1 DEF Requests
<1>3. req'[t] = q /\ entries' = [entries EXCEPT ![c] = Derived(c)]
      /\ UNCHANGED <<friendship, ratings, edited, crashed>>
  BY <1>d, <1>e, <1>1 DEF CommitEntries, Insert
<1>4. RowsThere(q)' /\ ReadingHolds(q)'
  BY <1>b, <1>2 DEF RowsThere, ReadingHolds, Rebuilding
<1>5. \A d \in Couples : Derived(d)' = Derived(d)
  BY <1>3 DEF Derived, PublishedBy, Published
<1>6. ASSUME ~crashed', NEW d \in Couples PROVE Current(d)' \/ Due(q, d)
  <2>1. CASE d = c
    <3>1. entries'[d] = Derived(d)'
      BY <1>a, <1>b, <1>3, <1>5, <2>1
    <3> QED BY <3>1 DEF Current
  <2>2. CASE d # c
    <3>1. entries'[d] = entries[d] /\ Derived(d)' = Derived(d)
      BY <1>a, <1>3, <1>5, <2>2
    <3>2. Current(d) => Current(d)'
      BY <1>3, <3>1 DEF Current
    <3>3. Due(req[t], d) => Due(q, d)
      BY <1>a, <1>2, <2>2 DEF Due, Rebuilding
    <3> QED BY <1>a, <1>3, <1>6, <3>2, <3>3
  <2> QED BY <2>1, <2>2
<1> QED BY <1>3, <1>4, <1>6, SerialStep

LEMMA AcceptSerial ==
    ASSUME OneAtATime, SerialIInv, IInv', NEW t \in Threads, CommitAccept(t)
    PROVE  SerialIInv'
<1>a. /\ req \in [Threads -> Requests] /\ req[t] \in Requests
      /\ RowsThere(req[t]) /\ req[t].at = "accept" /\ req[t].live
      /\ req[t].held = req[t].todo
  BY Alone DEF CommitAccept, At, RowsThere
<1>b. \A d \in Couples : ~Due(req[t], d)
  BY <1>a DEF Due, Rebuilding
<1>1. CASE req[t].held # {}
  <2>1. PICK q : q = [req[t] EXCEPT !.at = "pair"]
    OBVIOUS
  <2>2. q.at = "pair" /\ q.todo = req[t].todo /\ q.held = req[t].held /\ q.live = req[t].live
    BY <1>a, <2>1 DEF Requests
  <2>3. /\ req'[t] = q
        /\ \A d \in Couples : d \notin req[t].held => friendship'[d] = friendship[d]
        /\ UNCHANGED <<ratings, entries, edited, crashed>>
    BY <1>1, <1>a, <2>1 DEF CommitAccept
  <2>4. RowsThere(q)' /\ ReadingHolds(q)'
    BY <1>a, <2>2 DEF RowsThere, ReadingHolds, Rebuilding
  <2>5. ASSUME ~crashed', NEW d \in Couples PROVE Current(d)' \/ Due(q, d)
    <3>1. CASE d \in req[t].held
      BY <1>a, <2>2, <3>1 DEF Due
    <3>2. CASE d \notin req[t].held
      <4>1. Current(d)
        BY <1>b, <2>3, <2>5, Alone
      <4> QED BY <2>3, <3>2, <4>1, CurrentFrame DEF Published
    <3> QED BY <3>1, <3>2
  <2> QED BY <2>3, <2>4, <2>5, SerialStep
<1>2. CASE req[t].held = {}
  <2>1. PICK q : q = Idle
    OBVIOUS
  <2>2. RowsThere(q) /\ ReadingHolds(q)
    BY <2>1 DEF Idle, Request, RowsThere, ReadingHolds, Rebuilding
  <2>3. req'[t] = q /\ UNCHANGED <<friendship, ratings, entries, edited, crashed>>
    BY <1>2, <1>a, <2>1 DEF CommitAccept, Done
  <2> QED BY <1>b, <2>2, <2>3, SerialQuiet
<1> QED BY <1>1, <1>2

LEMMA FailSerial ==
    ASSUME OneAtATime, SerialIInv, IInv', NEW t \in Threads, Fail(t)
    PROVE  SerialIInv'
<1>1. PICK q : q = Idle
  OBVIOUS
<1>2. RowsThere(q)' /\ ReadingHolds(q)'
  BY <1>1 DEF Idle, Request, RowsThere, ReadingHolds, Rebuilding
<1>3. req'[t] = q /\ crashed'
  BY <1>1, Alone DEF Fail, Done
<1> QED BY <1>2, <1>3, SerialStep

\* The other handlers are served when no request is in flight; each leaves
\* every dashboard current.
LEMMA OneShotSerial ==
    ASSUME OneAtATime, SerialIInv, IInv', OneShot
    PROVE  SerialIInv'
<1>1. PICK t \in Threads : req[t].at = "idle"
  BY DEF OneShot, At
<1>a. IInv /\ \A d \in Couples : d[1] \in Users /\ d[2] \in Users
  BY CoupleFacts DEF SerialIInv
<1>b. ~crashed => \A d \in Couples : Current(d)
  BY <1>1, Alone DEF Due, Rebuilding
<1>2. ASSUME req'[t].at = "idle", crashed' = crashed,
             ASSUME NEW d \in Couples, Current(d) PROVE Current(d)'
      PROVE  SerialIInv'
  <2>1. PICK q : q = req'[t]
    OBVIOUS
  <2>2. RowsThere(q)' /\ ReadingHolds(q)'
    BY <1>2, <2>1 DEF RowsThere, ReadingHolds, Rebuilding
  <2> QED BY <1>2, <1>b, <2>1, <2>2, SerialStep
<1>3. ASSUME NEW r \in Ratings, CreateRating(r) PROVE SerialIInv'
  <2>1. \A x \in Ratings : x # r => ratings'[x] = ratings[x]
    BY <1>3, <1>a DEF CreateRating, IInv, TypeOK
  <2>2. ~Published(r) /\ ~Published(r)'
    BY <1>3, <1>a, ConstantsAssumption DEF CreateRating, Published, IInv, TypeOK
  <2>3. ASSUME NEW x \in Ratings
        PROVE  /\ Published(x)' = Published(x)
               /\ Published(x) => ratings'[x] = ratings[x]
    BY <2>1, <2>2 DEF Published
  <2>4. ASSUME NEW d \in Couples, Current(d) PROVE Current(d)'
    <3>1. \A a \in Albums, u \in {d[1], d[2]} : <<u, a>> \in Ratings
      BY <1>a DEF Ratings
    <3> QED BY <1>3, <2>3, <2>4, <3>1, CurrentFrame DEF CreateRating
  <2> QED BY <1>1, <1>2, <1>3, <2>4 DEF CreateRating
<1>4. ASSUME NEW r \in Ratings, NEW s \in Scores, PatchRating(r, s) PROVE SerialIInv'
  <2>1. \A x \in Ratings : ratings'[x] = IF x = r THEN s ELSE ratings[x]
    BY <1>4, <1>a DEF PatchRating, IInv, TypeOK
  <2>2. \A x \in Ratings : Published(x)' = Published(x)
    BY <1>4, <2>1 DEF PatchRating, Published
  <2>3. ASSUME NEW d \in Couples, Current(d) PROVE Current(d)'
    <3>1. \A a \in Albums, u \in {d[1], d[2]} : <<u, a>> \in Ratings
      BY <1>a DEF Ratings
    <3>2. DerivedAsDefined(d) /\ DerivedAsDefined(d)'
      BY DerivedFacts, DerivedFactsNext DEF AllDerivedAsDefined
    <3>3. UNCHANGED <<friendship, entries>> /\ entries[d] \subseteq Entries
      BY <1>4, <1>a DEF PatchRating, IInv, TypeOK
    <3>4. AlbumsOf(Derived(d))' = AlbumsOf(Derived(d))
      BY <2>2, <3>1, <3>2, <3>3 DEF DerivedAsDefined
    <3>5. ASSUME NEW e \in entries'[d] \ Derived(d)'
          PROVE  <<d[1], e[1]>> \in edited' \/ <<d[2], e[1]>> \in edited'
      <4>1. e \in Entries /\ e[1] \in Albums /\ e \in entries[d]
        BY <3>3, <3>5 DEF Entries
      <4>2. CASE e \in Derived(d)
        BY <1>4, <2>1, <2>2, <3>1, <3>2, <3>3, <3>5, <4>1, <4>2 DEF DerivedAsDefined, PatchRating
      <4>3. CASE e \notin Derived(d)
        BY <1>4, <2>3, <4>1, <4>3 DEF Current, PatchRating
      <4> QED BY <4>2, <4>3
    <3> QED BY <2>3, <3>3, <3>4, <3>5 DEF Current, AlbumsOf
  <2> QED BY <1>1, <1>2, <1>4, <2>3 DEF PatchRating
<1>5. ASSUME NEW c \in Couples, RequestFriend(c) \/ EndFriendship(c) PROVE SerialIInv'
  <2>1. /\ \A d \in Couples : d # c => friendship'[d] = friendship[d] /\ entries'[d] = entries[d]
        /\ friendship'[c] # "accepted" /\ entries'[c] = {}
        /\ req'[t].at = "idle"
        /\ UNCHANGED <<ratings, edited, crashed>>
    <3>1. CASE RequestFriend(c)
      BY <1>1, <3>1, <1>a DEF RequestFriend, IInv, TypeOK, EntriesOnlyForFriends
    <3>2. CASE EndFriendship(c)
      <4> DEFINE F == IF req[t].pair = c THEN {} ELSE req[t].found
      <4>0. req'[t] = [req[t] EXCEPT !.held = @ \ {c}, !.found = F]
        BY <3>2 DEF EndFriendship
      <4> HIDE DEF F
      <4>1. req'[t].at = req[t].at
        BY <4>0, <1>a DEF IInv, TypeOK, Requests
      <4>2. /\ friendship' = [friendship EXCEPT ![c] = "none"] /\ entries' = [entries EXCEPT ![c] = {}]
            /\ UNCHANGED <<ratings, edited, crashed>>
        BY <3>2 DEF EndFriendship
      <4>3. friendship \in [Couples -> FriendshipStatus] /\ entries \in [Couples -> SUBSET Entries]
        BY <1>a DEF IInv, TypeOK
      <4> QED BY <1>1, <4>1, <4>2, <4>3
    <3> QED BY <1>5, <3>1, <3>2
  <2>2. ASSUME NEW d \in Couples, Current(d) PROVE Current(d)'
    <3>1. CASE d = c
      BY <2>1, <3>1 DEF Current, Derived
    <3>2. CASE d # c
      BY <2>1, <2>2, <3>2, CurrentFrame DEF Published
    <3> QED BY <3>1, <3>2
  <2> QED BY <1>2, <2>1, <2>2
<1> QED BY <1>3, <1>4, <1>5 DEF OneShot

LEMMA SerialInvariance == OneAtATime => (Spec => []SerialIInv)
<1> SUFFICES ASSUME OneAtATime PROVE Spec => []SerialIInv
  OBVIOUS
<1>1. Init => SerialIInv
  BY SerialInit
<1>2. SerialIInv /\ [Next]_vars => SerialIInv'
  <2> SUFFICES ASSUME SerialIInv, [Next]_vars PROVE SerialIInv'
    OBVIOUS
  <2>1. IInv'
    BY NextIInv DEF SerialIInv
  <2>2. ASSUME NEW t \in Threads, Start(t) \/ Continue(t) \/ Fail(t) PROVE SerialIInv'
    BY <2>1, <2>2, StartSerial, RatingSerial, RebuildSerial, InsertSerial, AcceptSerial, FailSerial
    DEF Continue
  <2>3. CASE UNCHANGED vars
    <3>1. UNCHANGED <<friendship, ratings, entries, req, edited, crashed>>
      BY <2>3 DEF vars
    <3>2. \A c \in Couples : Current(c)' = Current(c)
      BY <3>1 DEF Current, Derived, PublishedBy, Published
    <3>3. NothingForgotten'
      BY <3>1, <3>2 DEF SerialIInv, NothingForgotten
    <3>4. ASSUME NEW t \in Threads PROVE RowsThere(req[t])' /\ ReadingHolds(req[t])'
      <4>1. RowsThere(req[t]) /\ ReadingHolds(req[t]) /\ req'[t] = req[t]
        BY <3>1 DEF SerialIInv
      <4>2. \A u : PublishedBy(u)' = PublishedBy(u)
        BY <3>1 DEF PublishedBy, Published
      <4>3. RowsThere(req[t])'
        BY <3>1, <4>1 DEF RowsThere, Published
      <4>4. ReadingHolds(req[t])'
        BY <3>1, <4>1, <4>2 DEF ReadingHolds
      <4> QED BY <4>3, <4>4
    <3> QED BY <2>1, <3>3, <3>4 DEF SerialIInv
  <2> QED BY <2>1, <2>2, <2>3, OneShotSerial DEF Next
<1> QED BY <1>1, <1>2, PTL DEF Spec

\* Served one at a time, whichever friends, albums and handlers, and wherever
\* requests die before the first that is lost: once none is in flight, every
\* dashboard is what rebuild_for_pair derives from the published ratings.
THEOREM DashboardsAreCurrent == OneAtATime => (Spec => []ViewIsCurrent)
<1> SUFFICES ASSUME OneAtATime PROVE Spec => []ViewIsCurrent
  OBVIOUS
<1>1. SerialIInv => ViewIsCurrent
  BY DEF SerialIInv, NothingForgotten, Due, Rebuilding, ViewIsCurrent, Settled, At, Current
<1> QED BY <1>1, SerialInvariance, PTL

----------------------------------------------------------------------------
(* Any number of requests at once.  What is owed to a dashboard is on it,   *)
(* and no open transaction has deleted it, or a request will insert it, or  *)
(* was cut short.                                                           *)

\* Both friends have published the album.
Owed(c, a) == friendship[c] = "accepted" /\ Published(<<c[1], a>>) /\ Published(<<c[2], a>>)

\* The album is on the dashboard, and stays there whichever transactions commit.
Safe(c, a) ==
    \E e \in entries[c] : e[1] = a /\ \A t \in Threads : req[t].pair = c => e \notin req[t].doomed

\* A request r will rebuild the dashboard of c from ratings it has yet to read,
\* or has read the two of album a.
WillInsert(r, c, a) ==
    \/ r.at = "friends" /\ Has(c, r.rating[1])
    \/ r.at \in Rebuilding \cup {"pair"} /\ c \in r.todo \cap r.held
    \/ /\ r.at \in Rebuilding /\ r.pair = c /\ c \in r.held /\ r.active
       /\ r.at \in {"read_b", "insert"} => \E e \in r.read : e[1] = c[1] /\ e[2] = a
       /\ r.at = "insert" => \E e \in r.read : e[1] = c[2] /\ e[2] = a

NoneIsLost ==
    ~crashed => \A c \in Couples, a \in Albums :
        Owed(c, a) => Safe(c, a) \/ <<c, a>> \in cut \/ \E t \in Threads : WillInsert(req[t], c, a)

\* A request finds and deletes entries of the friendship it rebuilds, if that is
\* still there and was accepted.
TakesItsOwn(r) ==
    /\ r.at \in Rebuilding /\ (~r.active \/ r.pair \notin r.held) => r.found = {} /\ r.doomed = {}
    /\ r.at \in Rebuilding => r.found \subseteq entries[r.pair] /\ r.doomed \subseteq entries[r.pair]
    /\ r.at \notin Rebuilding => r.doomed = {}
    /\ r.at = "accept" => r.held \subseteq r.todo

\* No entry is deleted by two.
DoomedOnce ==
    \A s, t \in Threads : s # t /\ req[s].pair = req[t].pair => req[s].doomed \cap req[t].doomed = {}

CollisionIInv == IInv /\ NoneIsLost /\ DoomedOnce /\ \A t \in Threads : TakesItsOwn(req[t])

\* Two requests that differ at most in op, live and fresh.
SameWork(p, r) ==
    /\ p.at = r.at /\ p.rating = r.rating /\ p.todo = r.todo /\ p.held = r.held /\ p.pair = r.pair
    /\ p.active = r.active /\ p.found = r.found /\ p.doomed = r.doomed /\ p.read = r.read

LEMMA SameWorkFacts ==
    ASSUME NEW p, NEW r, SameWork(p, r)
    PROVE  /\ \A c, a : WillInsert(p, c, a) = WillInsert(r, c, a)
           /\ TakesItsOwn(p) = TakesItsOwn(r)
BY DEF SameWork, WillInsert, TakesItsOwn

\* A request moves on and deletes nothing more: whatever is owed anew it will
\* insert, and what it would have inserted it still will, or is safe, or cut.
LEMMA MovesOn ==
    ASSUME CollisionIInv, IInv', NEW t \in Threads, NEW q, req'[t] = q,
           \A x \in Threads : x # t => SameWork(req'[x], req[x]),
           UNCHANGED entries, TakesItsOwn(q),
           q.doomed \subseteq (IF q.pair = req[t].pair THEN req[t].doomed ELSE {}),
           crashed => crashed', cut \subseteq cut',
           \A c \in Couples, a \in Albums :
             Owed(c, a)' => Owed(c, a) \/ WillInsert(q, c, a),
           \A c \in Couples, a \in Albums :
             ~crashed' /\ Owed(c, a) /\ WillInsert(req[t], c, a) =>
               WillInsert(q, c, a) \/ Safe(c, a) \/ <<c, a>> \in cut'
    PROVE  CollisionIInv'
<1>1. ASSUME NEW x \in Threads PROVE TakesItsOwn(req[x])'
  <2>1. TakesItsOwn(req[x])' <=> TakesItsOwn(req'[x])
    BY DEF TakesItsOwn
  <2>2. CASE x = t
    BY <2>1, <2>2
  <2>3. CASE x # t
    BY <2>1, <2>3, SameWorkFacts DEF CollisionIInv
  <2> QED BY <2>2, <2>3
<1>2. \A x \in Threads : \A c : req'[x].pair = c => req'[x].doomed \subseteq (IF req[x].pair = c THEN req[x].doomed ELSE {})
  BY DEF SameWork
<1>3. DoomedOnce'
  <2> SUFFICES ASSUME NEW x \in Threads, NEW y \in Threads, x # y, req'[x].pair = req'[y].pair
               PROVE  req'[x].doomed \cap req'[y].doomed = {}
    BY DEF DoomedOnce
  <2> DEFINE c == req'[x].pair
  <2>1. /\ req'[x].doomed \subseteq (IF req[x].pair = c THEN req[x].doomed ELSE {})
        /\ req'[y].doomed \subseteq (IF req[y].pair = c THEN req[y].doomed ELSE {})
    BY <1>2
  <2> QED BY <2>1 DEF CollisionIInv, DoomedOnce
<1>4. \A c, a : Safe(c, a) => Safe(c, a)'
  BY <1>2 DEF Safe
<1>5. NoneIsLost'
  <2> SUFFICES ASSUME ~crashed', NEW c \in Couples, NEW a \in Albums, Owed(c, a)'
               PROVE  Safe(c, a)' \/ <<c, a>> \in cut' \/ \E x \in Threads : WillInsert(req'[x], c, a)
    BY DEF NoneIsLost, WillInsert
  <2>1. CASE WillInsert(q, c, a)
    BY <2>1
  <2>2. CASE Owed(c, a) /\ ~WillInsert(q, c, a)
    <3>1. Safe(c, a) \/ <<c, a>> \in cut \/ \E x \in Threads : WillInsert(req[x], c, a)
      BY <2>2 DEF CollisionIInv, NoneIsLost
    <3>2. \A x \in Threads : x # t => WillInsert(req'[x], c, a) = WillInsert(req[x], c, a)
      BY SameWorkFacts
    <3> QED BY <1>4, <2>2, <3>1, <3>2
  <2> QED BY <2>1, <2>2
<1> QED BY <1>1, <1>3, <1>5 DEF CollisionIInv

LEMMA CollisionFacts ==
    ASSUME CollisionIInv, NEW t \in Threads
    PROVE  /\ req \in [Threads -> Requests] /\ req[t] \in Requests /\ Sound(req[t]) /\ IInv
           /\ TakesItsOwn(req[t])
           /\ \A q : req' = [req EXCEPT ![t] = q] =>
                 req'[t] = q /\ \A x \in Threads : x # t => SameWork(req'[x], req[x])
BY DEF CollisionIInv, IInv, TypeOK, SameWork

LEMMA IdleInsertsNothing ==
    ASSUME NEW q, q = Idle
    PROVE  /\ TakesItsOwn(q) /\ q.doomed = {}
           /\ \A c, a : ~WillInsert(q, c, a)
BY DEF Idle, Request, TakesItsOwn, WillInsert, Rebuilding

\* A step that moves one request on, and changes nothing but what was cut short.
LEMMA QuietStep ==
    ASSUME CollisionIInv, IInv', NEW t \in Threads, NEW q, req' = [req EXCEPT ![t] = q],
           UNCHANGED <<friendship, ratings, entries>>, TakesItsOwn(q),
           q.doomed \subseteq (IF q.pair = req[t].pair THEN req[t].doomed ELSE {}),
           crashed => crashed', cut \subseteq cut',
           \A c \in Couples, a \in Albums :
             ~crashed' /\ Owed(c, a) /\ WillInsert(req[t], c, a) =>
               WillInsert(q, c, a) \/ Safe(c, a) \/ <<c, a>> \in cut'
    PROVE  CollisionIInv'
<1>1. \A c \in Couples, a \in Albums : Owed(c, a)' => Owed(c, a)
  BY DEF Owed, Published
<1> QED BY <1>1, CollisionFacts, MovesOn

LEMMA StartCollision ==
    ASSUME CollisionIInv, IInv', NEW t \in Threads, Start(t)
    PROVE  CollisionIInv'
<1>1. ASSUME NEW r, NEW op, Serve(t, op, r), r.at \in {"publish", "republish", "delete", "accept"},
             r.held \subseteq r.todo, r.doomed = {},
             UNCHANGED <<friendship, ratings, entries, edited, told, unheard, crashed, cut>>
      PROVE  CollisionIInv'
  <2>1. TakesItsOwn(r)
    BY <1>1 DEF TakesItsOwn, Rebuilding
  <2>2. \A c, a : ~WillInsert(req[t], c, a)
    BY <1>1 DEF Serve, At, WillInsert, Rebuilding
  <2> QED BY <1>1, <2>1, <2>2, QuietStep DEF Serve
<1>2. ASSUME NEW op, NEW s, NEW x, NEW C
      PROVE  LET q == Request(op, s, x, C) IN q.at = s /\ q.held = C /\ q.todo = C /\ q.doomed = {}
  BY DEF Request
<1>3. ASSUME NEW r \in Ratings, StartPublish(t, r) PROVE CollisionIInv'
  BY <1>1, <1>2, <1>3 DEF StartPublish
<1>4. ASSUME NEW r \in Ratings, StartRepublish(t, r) PROVE CollisionIInv'
  BY <1>1, <1>2, <1>4 DEF StartRepublish
<1>5. ASSUME NEW r \in Ratings, StartDelete(t, r) PROVE CollisionIInv'
  <2>1. PICK q : q = [Request("delete", "delete", r, {}) EXCEPT !.active = Published(r)]
    OBVIOUS
  <2>2. q.at = "delete" /\ q.held = {} /\ q.todo = {} /\ q.doomed = {}
    BY <2>1 DEF Request
  <2> QED BY <1>1, <1>5, <2>1, <2>2 DEF StartDelete
<1>6. ASSUME NEW c \in Couples, StartAccept(t, c) PROVE CollisionIInv'
  BY <1>1, <1>2, <1>6 DEF StartAccept
<1> QED BY <1>3, <1>4, <1>5, <1>6 DEF Start

\* What a publication makes mutual its own rebuilds will insert.
LEMMA RatingCollision ==
    ASSUME CollisionIInv, IInv', NEW t \in Threads,
           CommitPublish(t) \/ CommitRepublish(t) \/ CommitDelete(t)
    PROVE  CollisionIInv'
<1> DEFINE r == req[t].rating
<1>a. /\ req \in [Threads -> Requests] /\ req[t] \in Requests /\ IInv
      /\ req[t].at \in {"publish", "republish", "delete"} /\ req[t].doomed = {}
      /\ ratings \in [Ratings -> Rating]
  BY CollisionFacts DEF CommitPublish, CommitRepublish, CommitDelete, At, TakesItsOwn, Rebuilding, IInv, TypeOK
<1>b. \A c, a : ~WillInsert(req[t], c, a)
  BY <1>a DEF WillInsert, Rebuilding
<1>c. /\ \A c \in Couples : c[1] \in Users /\ c[2] \in Users
      /\ \A u \in Users, a \in Albums : <<u, a>> \in Ratings /\ <<u, a>>[1] = u
  BY CoupleFacts DEF Ratings
<1>1. ASSUME NEW q, req'[t] = q, (q.at = "friends" /\ q.rating = r) \/ q = Idle, q.doomed = {},
             \A x \in Threads : x # t => SameWork(req'[x], req[x]),
             UNCHANGED <<friendship, entries, crashed, cut>>,
             \A x \in Ratings : Published(x)' => Published(x) \/ (x = r /\ q.at = "friends")
      PROVE  CollisionIInv'
  <2>1. TakesItsOwn(q)
    BY <1>1, IdleInsertsNothing DEF TakesItsOwn, Rebuilding
  <2>2. ASSUME NEW c \in Couples, NEW a \in Albums, Owed(c, a)'
        PROVE  Owed(c, a) \/ WillInsert(q, c, a)
    <3>1. \A u \in {c[1], c[2]} : Published(<<u, a>>) \/ (q.at = "friends" /\ <<u, a>> = q.rating)
      <4>1. ASSUME NEW u \in {c[1], c[2]}, ~Published(<<u, a>>)
            PROVE  <<u, a>> = r /\ q.at = "friends"
        <5>1. Published(<<u, a>>)' /\ <<u, a>> \in Ratings
          BY <1>c, <2>2, <4>1 DEF Owed
        <5> QED BY <1>1, <4>1, <5>1
      <4>2. q.at = "friends" => q.rating = r
        BY <1>1 DEF Idle, Request
      <4> QED BY <4>1, <4>2
    <3>2. \A u \in Users : <<u, a>> = q.rating => u = q.rating[1]
      BY <1>c
    <3>3. CASE \A u \in {c[1], c[2]} : Published(<<u, a>>)
      BY <1>1, <2>2, <3>3 DEF Owed
    <3>4. CASE q.at = "friends" /\ (c[1] = q.rating[1] \/ c[2] = q.rating[1])
      BY <3>4 DEF WillInsert, Has
    <3> QED BY <1>c, <3>1, <3>2, <3>3, <3>4
  <2> QED BY <1>1, <1>b, <2>1, <2>2, MovesOn
<1>2. CASE CommitPublish(t)
  <2>1. CASE req[t].live
    <3>1. PICK q : q = [req[t] EXCEPT !.at = "friends"]
      OBVIOUS
    <3>2. q.at = "friends" /\ q.rating = r /\ q.doomed = {}
      BY <1>a, <3>1 DEF Requests
    <3>3. req' = [req EXCEPT ![t] = q] /\ UNCHANGED <<friendship, entries, crashed, cut>>
          /\ \A x \in Ratings : x # r => ratings'[x] = ratings[x]
      BY <1>2, <1>a, <2>1, <3>1 DEF CommitPublish
    <3>4. \A x \in Ratings : Published(x)' => Published(x) \/ x = r
      BY <3>3 DEF Published
    <3> QED BY <1>1, <3>2, <3>3, <3>4, CollisionFacts
  <2>2. CASE ~req[t].live
    <3>1. PICK q : q = Idle
      OBVIOUS
    <3>2. req' = [req EXCEPT ![t] = q] /\ UNCHANGED <<friendship, ratings, entries, crashed, cut>>
      BY <1>2, <2>2, <3>1 DEF CommitPublish, Done
    <3>3. \A x \in Ratings : Published(x)' = Published(x)
      BY <3>2 DEF Published
    <3> QED BY <1>1, <3>1, <3>2, <3>3, CollisionFacts, IdleInsertsNothing
  <2> QED BY <2>1, <2>2
<1>3. CASE CommitRepublish(t)
  <2>1. CASE req[t].live
    <3>1. PICK q : q = [req[t] EXCEPT !.at = "friends"]
      OBVIOUS
    <3>2. q.at = "friends" /\ q.rating = r /\ q.doomed = {}
      BY <1>a, <3>1 DEF Requests
    <3>3. req' = [req EXCEPT ![t] = q] /\ UNCHANGED <<friendship, ratings, entries, crashed, cut>>
      BY <1>3, <1>a, <2>1, <3>1 DEF CommitRepublish
    <3>4. \A x \in Ratings : Published(x)' = Published(x)
      BY <3>3 DEF Published
    <3> QED BY <1>1, <3>2, <3>3, <3>4, CollisionFacts
  <2>2. CASE ~req[t].live
    <3>1. PICK q : q = Idle
      OBVIOUS
    <3>2. req' = [req EXCEPT ![t] = q] /\ UNCHANGED <<friendship, ratings, entries, crashed, cut>>
      BY <1>3, <2>2, <3>1 DEF CommitRepublish, Done
    <3>3. \A x \in Ratings : Published(x)' = Published(x)
      BY <3>2 DEF Published
    <3> QED BY <1>1, <3>1, <3>2, <3>3, CollisionFacts, IdleInsertsNothing
  <2> QED BY <2>1, <2>2
<1>4. CASE CommitDelete(t)
  <2>1. PICK q : q = IF req[t].active THEN AfterDelete(t) ELSE Idle
    OBVIOUS
  <2>2. ((q.at = "friends" /\ q.rating = r) \/ q = Idle) /\ q.doomed = {}
    BY <1>a, <2>1, IdleInsertsNothing DEF AfterDelete, Requests
  <2>3. CASE req[t].live
    <3>1. /\ req'[t] = q
          /\ \A x \in Threads : x # t => req'[x] = [req[x] EXCEPT !.live = @ /\ req[x].rating # r]
          /\ ratings' = [ratings EXCEPT ![r] = "none"]
          /\ UNCHANGED <<friendship, entries, crashed, cut>>
      BY <1>4, <2>1, <2>3 DEF CommitDelete
    <3>2. ASSUME NEW x \in Threads, x # t PROVE SameWork(req'[x], req[x])
      <4>1. req[x] \in Requests /\ req'[x] = [req[x] EXCEPT !.live = @ /\ req[x].rating # r]
        BY <1>a, <3>1, <3>2
      <4> QED BY <4>1 DEF SameWork, Requests
    <3>3. \A x \in Ratings : Published(x)' => Published(x)
      BY <1>a, <3>1, ConstantsAssumption DEF Published
    <3> QED BY <1>1, <2>2, <3>1, <3>2, <3>3
  <2>4. CASE ~req[t].live
    <3>1. req' = [req EXCEPT ![t] = q] /\ UNCHANGED <<friendship, ratings, entries, crashed, cut>>
      BY <1>4, <2>1, <2>4 DEF CommitDelete
    <3>2. \A x \in Ratings : Published(x)' = Published(x)
      BY <3>1 DEF Published
    <3> QED BY <1>1, <2>2, <3>1, <3>2, CollisionFacts
  <2> QED BY <2>3, <2>4
<1> QED BY <1>2, <1>3, <1>4

\* The steps of a rebuild up to its INSERT, but the DELETE.
LEMMA RebuildCollision ==
    ASSUME CollisionIInv, IInv', NEW t \in Threads,
           ListFriends(t) \/ NextPair(t) \/ EndPairs(t) \/ ReadA(t) \/ ReadB(t) \/ Complete(t) \/ Fail(t)
    PROVE  CollisionIInv'
<1>a. /\ req \in [Threads -> Requests] /\ req[t] \in Requests /\ IInv
      /\ Sound(req[t]) /\ TakesItsOwn(req[t])
      /\ friendship \in [Couples -> FriendshipStatus]
  BY CollisionFacts DEF IInv, TypeOK
<1>b. req[t].at \notin Rebuilding => req[t].doomed = {}
  BY <1>a DEF TakesItsOwn
<1> USE DEF At
<1>1. CASE ListFriends(t)
  <2> DEFINE F == FriendshipsOf(req[t].rating[1])
  <2>1. PICK q : q = [req[t] EXCEPT !.at = "pair", !.todo = F, !.held = F, !.fresh = TRUE]
    OBVIOUS
  <2>2. q.at = "pair" /\ q.todo = F /\ q.held = F /\ q.doomed = {} /\ req[t].at = "friends"
    BY <1>1, <1>a, <1>b, <2>1 DEF ListFriends, Requests, Rebuilding
  <2>3. TakesItsOwn(q)
    BY <2>2 DEF TakesItsOwn, Rebuilding
  <2>4. \A c \in Couples, a \in Albums : Owed(c, a) /\ WillInsert(req[t], c, a) => WillInsert(q, c, a)
    BY <2>2 DEF WillInsert, Owed, FriendshipsOf, Rebuilding
  <2>5. req' = [req EXCEPT ![t] = q] /\ UNCHANGED <<friendship, ratings, entries, crashed, cut>>
    BY <1>1, <2>1 DEF ListFriends
  <2> QED BY <2>2, <2>3, <2>4, <2>5, QuietStep
<1>2. CASE NextPair(t)
  <2>1. PICK c \in req[t].todo :
          \/ /\ req[t].fresh \/ c \in req[t].held
             /\ req' = [req EXCEPT ![t].at = "wipe", ![t].todo = Rest(t, c), ![t].pair = c,
                                   ![t].active = req[t].fresh \/ friendship[c] = "accepted",
                                   ![t].found = EntriesOf(t, c)]
             /\ UNCHANGED <<unheard, cut>>
          \/ /\ ~req[t].fresh /\ c \notin req[t].held
             /\ IF req[t].op = "complete"
                THEN req' = [req EXCEPT ![t].todo = Rest(t, c)] /\ UNCHANGED <<unheard, cut>>
                ELSE /\ Done(t) /\ unheard' = unheard \cup Abandoned(t)
                     /\ cut' = cut \cup Rest(t, c) \X Albums
    BY <1>2 DEF NextPair
  <2>2. /\ req[t].at = "pair" /\ req[t].doomed = {} /\ c \in Couples
        /\ UNCHANGED <<friendship, ratings, entries, crashed>>
    BY <1>2, <1>a, <1>b DEF NextPair, Requests, Rebuilding
  <2>3. CASE req[t].fresh \/ c \in req[t].held
    <3>1. PICK q : q = [req[t] EXCEPT !.at = "wipe", !.todo = Rest(t, c), !.pair = c,
                                      !.active = req[t].fresh \/ friendship[c] = "accepted",
                                      !.found = EntriesOf(t, c)]
      OBVIOUS
    <3>2. /\ q.at = "wipe" /\ q.todo = req[t].todo \ {c} /\ q.held = req[t].held /\ q.pair = c
          /\ friendship[c] = "accepted" => q.active
          /\ q.found = EntriesOf(t, c) /\ q.doomed = {}
      BY <1>a, <2>2, <3>1 DEF Requests, Rest
    <3>3. entries[c] # {} => friendship[c] = "accepted"
      BY <1>a, <2>2 DEF IInv, EntriesOnlyForFriends
    <3>4. TakesItsOwn(q)
      BY <3>2, <3>3 DEF TakesItsOwn, EntriesOf, Rebuilding
    <3>5. \A d \in Couples, a \in Albums : Owed(d, a) /\ WillInsert(req[t], d, a) => WillInsert(q, d, a)
      BY <2>2, <3>2 DEF WillInsert, Owed, Rebuilding
    <3>6. req' = [req EXCEPT ![t] = q] /\ UNCHANGED cut
      BY <2>1, <2>3, <3>1
    <3> QED BY <2>2, <3>2, <3>4, <3>5, <3>6, QuietStep
  <2>4. CASE ~(req[t].fresh \/ c \in req[t].held) /\ req[t].op = "complete"
    <3>1. PICK q : q = [req[t] EXCEPT !.todo = Rest(t, c)]
      OBVIOUS
    <3>2. q.at = "pair" /\ q.todo = req[t].todo \ {c} /\ q.held = req[t].held /\ q.doomed = {}
      BY <1>a, <2>2, <3>1 DEF Requests, Rest
    <3>3. TakesItsOwn(q)
      BY <3>2 DEF TakesItsOwn, Rebuilding
    <3>4. \A d \in Couples, a \in Albums : WillInsert(req[t], d, a) => WillInsert(q, d, a)
      BY <2>2, <2>4, <3>2 DEF WillInsert, Rebuilding
    <3>5. req' = [req EXCEPT ![t] = q] /\ UNCHANGED cut
      BY <2>1, <2>4, <3>1
    <3> QED BY <2>2, <3>2, <3>3, <3>4, <3>5, QuietStep
  <2>5. CASE ~(req[t].fresh \/ c \in req[t].held) /\ req[t].op # "complete"
    <3>1. PICK q : q = Idle
      OBVIOUS
    <3>2. req' = [req EXCEPT ![t] = q] /\ cut' = cut \cup Rest(t, c) \X Albums
      BY <2>1, <2>5, <3>1 DEF Done
    <3>3. ASSUME NEW d \in Couples, NEW a \in Albums, WillInsert(req[t], d, a)
          PROVE  <<d, a>> \in cut'
      <4>1. d \in req[t].todo /\ d \in req[t].held
        BY <2>2, <3>3 DEF WillInsert, Rebuilding
      <4>2. d \in Rest(t, c)
        BY <2>5, <4>1 DEF Rest
      <4> QED BY <3>2, <4>2
    <3>4. cut \subseteq cut' /\ UNCHANGED <<friendship, ratings, entries, crashed>>
      BY <2>2, <3>2
    <3>5. TakesItsOwn(q) /\ q.doomed = {}
      BY <3>1, IdleInsertsNothing
    <3>6. req' = [req EXCEPT ![t] = q]
      BY <3>2
    <3> QED BY <3>3, <3>4, <3>5, <3>6, QuietStep
  <2> QED BY <2>3, <2>4, <2>5
<1>3. CASE EndPairs(t)
  <2>1. \A c, a : ~WillInsert(req[t], c, a)
    BY <1>3 DEF EndPairs, WillInsert, Rebuilding
  <2>2. UNCHANGED <<friendship, ratings, entries, crashed, cut>>
    BY <1>3 DEF EndPairs
  <2>3. CASE TellsPartners(t)
    <3>1. PICK q : q = [req[t] EXCEPT !.at = "complete"]
      OBVIOUS
    <3>2. q.at = "complete" /\ q.doomed = {}
      BY <1>3, <1>a, <1>b, <3>1 DEF EndPairs, Requests, Rebuilding
    <3>3. TakesItsOwn(q)
      BY <3>2 DEF TakesItsOwn, Rebuilding
    <3>4. req' = [req EXCEPT ![t] = q]
      BY <1>3, <2>3, <3>1 DEF EndPairs
    <3> QED BY <2>1, <2>2, <3>2, <3>3, <3>4, QuietStep
  <2>4. CASE ~TellsPartners(t)
    <3>1. PICK q : q = Idle
      OBVIOUS
    <3>2. req' = [req EXCEPT ![t] = q]
      BY <1>3, <2>4, <3>1 DEF EndPairs, Done
    <3> QED BY <2>1, <2>2, <3>1, <3>2, IdleInsertsNothing, QuietStep
  <2> QED BY <2>3, <2>4
<1>4. CASE ReadA(t)
  <2>1. PICK q : q = [req[t] EXCEPT !.at = "read_b", !.read = PublishedBy(req[t].pair[1])]
    OBVIOUS
  <2>2. /\ q.at = "read_b" /\ q.todo = req[t].todo /\ q.held = req[t].held /\ q.pair = req[t].pair
        /\ q.active = req[t].active /\ q.found = req[t].found /\ q.doomed = req[t].doomed
        /\ q.read = PublishedBy(q.pair[1]) /\ req[t].at = "read_a"
    BY <1>4, <1>a, <2>1 DEF ReadA, Requests
  <2>3. TakesItsOwn(q)
    BY <1>a, <2>2 DEF TakesItsOwn, Rebuilding
  <2>4. ASSUME NEW c \in Couples, NEW a \in Albums, Owed(c, a), WillInsert(req[t], c, a) PROVE WillInsert(q, c, a)
    <3>1. <<c[1], a, ratings[<<c[1], a>>]>> \in PublishedBy(c[1])
      BY <2>4 DEF PublishedBy, Owed
    <3>2. \E e \in PublishedBy(c[1]) : e[1] = c[1] /\ e[2] = a
      BY <3>1
    <3> QED BY <2>2, <2>4, <3>2 DEF WillInsert, Rebuilding
  <2>5. req' = [req EXCEPT ![t] = q] /\ UNCHANGED <<friendship, ratings, entries, crashed, cut>>
    BY <1>4, <2>1 DEF ReadA
  <2> QED BY <2>2, <2>3, <2>4, <2>5, QuietStep
<1>5. CASE ReadB(t)
  <2>1. PICK q : q = [req[t] EXCEPT !.at = "insert", !.read = @ \cup PublishedBy(req[t].pair[2])]
    OBVIOUS
  <2>2. /\ q.at = "insert" /\ q.todo = req[t].todo /\ q.held = req[t].held /\ q.pair = req[t].pair
        /\ q.active = req[t].active /\ q.found = req[t].found /\ q.doomed = req[t].doomed
        /\ q.read = req[t].read \cup PublishedBy(q.pair[2]) /\ req[t].at = "read_b"
    BY <1>5, <1>a, <2>1 DEF ReadB, Requests
  <2>3. TakesItsOwn(q)
    BY <1>a, <2>2 DEF TakesItsOwn, Rebuilding
  <2>4. ASSUME NEW c \in Couples, NEW a \in Albums, Owed(c, a), WillInsert(req[t], c, a) PROVE WillInsert(q, c, a)
    <3>1. <<c[2], a, ratings[<<c[2], a>>]>> \in PublishedBy(c[2])
      BY <2>4 DEF PublishedBy, Owed
    <3>2. \E e \in PublishedBy(c[2]) : e[1] = c[2] /\ e[2] = a
      BY <3>1
    <3>3. CASE c \in req[t].todo \cap req[t].held
      BY <2>2, <3>3 DEF WillInsert, Rebuilding
    <3>4. CASE req[t].pair = c /\ c \in req[t].held /\ req[t].active
               /\ \E e \in req[t].read : e[1] = c[1] /\ e[2] = a
      <4>1. /\ \E e \in q.read : e[1] = c[1] /\ e[2] = a
            /\ \E e \in q.read : e[1] = c[2] /\ e[2] = a
        BY <2>2, <3>2, <3>4
      <4> QED BY <2>2, <3>4, <4>1 DEF WillInsert, Rebuilding
    <3> QED BY <2>2, <2>4, <3>3, <3>4 DEF WillInsert, Rebuilding
  <2>5. req' = [req EXCEPT ![t] = q] /\ UNCHANGED <<friendship, ratings, entries, crashed, cut>>
    BY <1>5, <2>1 DEF ReadB
  <2> QED BY <2>2, <2>3, <2>4, <2>5, QuietStep
<1>6. CASE Complete(t)
  <2>1. /\ \A c, a : ~WillInsert(req[t], c, a)
        /\ req[t].doomed = {}
        /\ UNCHANGED <<friendship, ratings, entries, crashed, cut>>
    BY <1>6, <1>b DEF Complete, WillInsert, Rebuilding
  <2>2. CASE req[t].live
    <3>1. PICK C : req' = [req EXCEPT ![t].at = "pair", ![t].op = "complete", ![t].todo = C,
                                      ![t].held = C, ![t].fresh = FALSE]
      BY <1>6, <2>2 DEF Complete
    <3>2. PICK q : q = [req[t] EXCEPT !.at = "pair", !.op = "complete", !.todo = C,
                                      !.held = C, !.fresh = FALSE]
      OBVIOUS
    <3>3. q.at = "pair" /\ q.doomed = {}
      BY <1>a, <2>1, <3>2 DEF Requests
    <3>4. TakesItsOwn(q)
      BY <3>3 DEF TakesItsOwn, Rebuilding
    <3>5. req' = [req EXCEPT ![t] = q]
      BY <3>1, <3>2
    <3> QED BY <2>1, <3>3, <3>4, <3>5, QuietStep
  <2>3. CASE ~req[t].live
    <3>1. PICK q : q = Idle
      OBVIOUS
    <3>2. req' = [req EXCEPT ![t] = q]
      BY <1>6, <2>3, <3>1 DEF Complete, Done
    <3> QED BY <2>1, <3>1, <3>2, IdleInsertsNothing, QuietStep
  <2> QED BY <2>2, <2>3
<1>7. CASE Fail(t)
  <2>1. PICK q : q = Idle
    OBVIOUS
  <2>2. req' = [req EXCEPT ![t] = q] /\ crashed' /\ UNCHANGED <<friendship, ratings, entries, cut>>
    BY <1>7, <2>1 DEF Fail, Done
  <2> QED BY <2>1, <2>2, IdleInsertsNothing, QuietStep
<1> QED BY <1>1, <1>2, <1>3, <1>4, <1>5, <1>6, <1>7

\* The DELETE of a rebuild that will insert: it takes rows nobody else has
\* deleted, and will insert every album it takes.
LEMMA WipeCollision ==
    ASSUME CollisionIInv, IInv', NEW t \in Threads, Wipe(t)
    PROVE  CollisionIInv'
<1> DEFINE c == req[t].pair
<1>a. /\ req \in [Threads -> Requests] /\ req[t] \in Requests /\ TakesItsOwn(req[t])
      /\ req[t].at = "wipe" /\ UNCHANGED <<friendship, ratings, entries, edited, told, unheard, crashed, cut>>
  BY CollisionFacts DEF Wipe, At
<1>b. PICK q : q = [req[t] EXCEPT !.at = IF req[t].active THEN "read_a" ELSE "insert",
                                  !.doomed = req[t].found, !.found = {}]
  OBVIOUS
<1>c. /\ q.at = (IF req[t].active THEN "read_a" ELSE "insert")
      /\ q.todo = req[t].todo /\ q.held = req[t].held /\ q.pair = c /\ q.active = req[t].active
      /\ q.found = {} /\ q.doomed = req[t].found
  BY <1>a, <1>b DEF Requests
<1>d. req' = [req EXCEPT ![t] = q]
  BY <1>b DEF Wipe
<1>e. TakesItsOwn(q)
  BY <1>a, <1>c DEF TakesItsOwn, Rebuilding
<1>1. CASE ~req[t].active \/ c \notin req[t].held
  <2>1. q.doomed = {}
    BY <1>1, <1>a, <1>c DEF TakesItsOwn, Rebuilding
  <2>2. \A d, a : WillInsert(req[t], d, a) => WillInsert(q, d, a)
    BY <1>1, <1>a, <1>c DEF WillInsert, Rebuilding
  <2> QED BY <1>a, <1>d, <1>e, <2>1, <2>2, QuietStep
<1>2. CASE req[t].active /\ c \in req[t].held
  <2>1. /\ req'[t] = q
        /\ \A x \in Threads : x # t => req'[x] = req[x] /\ SameWork(req'[x], req[x])
    BY <1>a, <1>d, CollisionFacts
  <2>2. ASSUME NEW x \in Threads PROVE TakesItsOwn(req[x])'
    <3>1. TakesItsOwn(req[x])' <=> TakesItsOwn(req'[x])
      BY <1>a DEF TakesItsOwn
    <3>2. x # t => TakesItsOwn(req'[x])
      BY <2>1, SameWorkFacts DEF CollisionIInv
    <3> QED BY <1>e, <2>1, <3>1, <3>2
  <2>3. \A x \in Threads : x # t /\ req[x].pair = c => req[x].doomed \cap q.doomed = {}
    BY <1>c DEF Wipe, LockedBy
  <2>4. DoomedOnce'
    BY <1>c, <2>1, <2>3 DEF CollisionIInv, DoomedOnce
  <2>5. \A d, a : WillInsert(req[t], d, a) => WillInsert(q, d, a)
    BY <1>2, <1>a, <1>c DEF WillInsert, Rebuilding
  <2>6. \A a : WillInsert(q, c, a)
    BY <1>2, <1>c DEF WillInsert, Rebuilding
  <2>7. \A d, a : d # c /\ Safe(d, a) => Safe(d, a)'
    BY <1>a, <1>c, <2>1 DEF Safe
  <2>8. \A d \in Couples, a \in Albums : Owed(d, a)' => Owed(d, a)
    BY <1>a DEF Owed, Published
  <2>9. NoneIsLost'
    <3> SUFFICES ASSUME ~crashed', NEW d \in Couples, NEW a \in Albums, Owed(d, a)'
                 PROVE  Safe(d, a)' \/ <<d, a>> \in cut' \/ \E x \in Threads : WillInsert(req'[x], d, a)
      BY DEF NoneIsLost, WillInsert
    <3>1. Safe(d, a) \/ <<d, a>> \in cut \/ \E x \in Threads : WillInsert(req[x], d, a)
      BY <1>a, <2>8 DEF CollisionIInv, NoneIsLost
    <3>2. CASE d = c
      BY <2>1, <2>6, <3>2
    <3>3. CASE d # c
      BY <1>a, <2>1, <2>5, <2>7, <3>1, <3>3
    <3> QED BY <3>2, <3>3
  <2> QED BY <2>2, <2>4, <2>9 DEF CollisionIInv
<1> QED BY <1>1, <1>2

\* A request that reaches its INSERT has read both ratings of what it will insert.
LEMMA ReadBoth ==
    ASSUME CollisionIInv, NEW t \in Threads, At(t, "insert"),
           NEW d \in Couples, NEW a \in Albums, WillInsert(req[t], d, a)
    PROVE  \/ d \in req[t].todo \cap req[t].held
           \/ /\ d = req[t].pair /\ d \in req[t].held
              /\ a \in AlbumsOf(Mutual(d, req[t].read))
<1>1. req[t] \in Requests /\ req[t].at = "insert"
  BY CollisionFacts DEF At
<1>2. CASE d \in req[t].todo \cap req[t].held
  BY <1>2
<1>3. CASE /\ req[t].pair = d /\ d \in req[t].held
           /\ \E e \in req[t].read : e[1] = d[1] /\ e[2] = a
           /\ \E e \in req[t].read : e[1] = d[2] /\ e[2] = a
  <2>1. req[t].read \subseteq Rows
    BY <1>1 DEF Requests
  <2>2. PICK s1 \in Scores : <<d[1], a, s1>> \in req[t].read
    <3>1. PICK e \in req[t].read : e[1] = d[1] /\ e[2] = a
      BY <1>3
    <3> QED BY <2>1, <3>1 DEF Rows
  <2>3. PICK s2 \in Scores : <<d[2], a, s2>> \in req[t].read
    <3>1. PICK e \in req[t].read : e[1] = d[2] /\ e[2] = a
      BY <1>3
    <3> QED BY <2>1, <3>1 DEF Rows
  <2>4. <<a, s1, s2>> \in Mutual(d, req[t].read)
    BY <2>2, <2>3 DEF Mutual, Entries
  <2> QED BY <1>3, <2>4 DEF AlbumsOf
<1> QED BY <1>1, <1>2, <1>3 DEF WillInsert, Rebuilding

\* The INSERT: what it had to insert is there, or was there, or is cut short.
LEMMA InsertCollision ==
    ASSUME CollisionIInv, IInv', NEW t \in Threads, Insert(t)
    PROVE  CollisionIInv'
<1>0. PICK c : c = req[t].pair
  OBVIOUS
<1> USE <1>0
<1> DEFINE gone == req[t].doomed
           new == Mutual(c, req[t].read)
           clash == {e \in EntriesOf(t, c) \ gone : e[1] \in AlbumsOf(new)}
           lost == IF clash = {} THEN {} ELSE AlbumsOf(new) \ AlbumsOf(clash)
           fits == clash = {} /\ (new # {} => FriendshipThere(t))
           E == (entries[c] \ gone) \cup new
<1>a. /\ req \in [Threads -> Requests] /\ req[t] \in Requests /\ TakesItsOwn(req[t])
      /\ At(t, "insert") /\ req[t].at = "insert" /\ clash \cap LockedBy(t, c) = {}
      /\ UNCHANGED <<friendship, ratings, edited, crashed>>
  BY CollisionFacts DEF Insert, At
<1>b. c \in Couples /\ entries \in [Couples -> SUBSET Entries]
  BY <1>a, CollisionFacts DEF Sound, AboutSomething, Rebuilding, IInv, TypeOK
<1>c. ASSUME NEW d \in Couples, NEW a \in Albums, WillInsert(req[t], d, a), d \notin req[t].todo \cap req[t].held
      PROVE  d = c /\ c \in req[t].held /\ a \in AlbumsOf(new)
  BY <1>a, <1>c, ReadBoth
<1>1. CASE ~fits
  <2>1. PICK q : q = Idle
    OBVIOUS
  <2>2. /\ req' = [req EXCEPT ![t] = q] /\ UNCHANGED entries
        /\ cut' = cut \cup (req[t].todo \X Albums) \cup ({c} \X lost)
    BY <1>1, <2>1 DEF Insert, Done
  <2>3. ASSUME NEW d \in Couples, NEW a \in Albums, WillInsert(req[t], d, a)
        PROVE  Safe(d, a) \/ <<d, a>> \in cut'
    <3>1. CASE d \in req[t].todo
      BY <2>2, <3>1
    <3>2. CASE d \notin req[t].todo
      <4>1. d = c /\ c \in req[t].held /\ a \in AlbumsOf(new)
        BY <1>c, <2>3, <3>2
      <4>2. clash # {}
        BY <1>1, <4>1 DEF FriendshipThere
      <4>3. CASE a \in AlbumsOf(clash)
        <5>1. PICK e \in clash : e[1] = a
          BY <4>3 DEF AlbumsOf
        <5>2. e \in entries[c] /\ e \notin gone
          BY <4>1, <5>1 DEF EntriesOf
        <5>3. \A x \in Threads : x # t /\ req[x].pair = c => e \notin req[x].doomed
          BY <1>a, <5>1 DEF LockedBy
        <5> QED BY <4>1, <5>1, <5>2, <5>3 DEF Safe
      <4>4. CASE a \notin AlbumsOf(clash)
        <5>1. a \in lost
          BY <4>1, <4>2, <4>4
        <5> QED BY <2>2, <4>1, <5>1
      <4> QED BY <4>3, <4>4
    <3> QED BY <3>1, <3>2
  <2>4. cut \subseteq cut'
    BY <2>2
  <2>5. TakesItsOwn(q) /\ q.doomed = {}
    BY <2>1, IdleInsertsNothing
  <2> HIDE DEF gone, new, clash, lost, fits, E
  <2> QED BY <1>a, <2>2, <2>3, <2>4, <2>5, QuietStep
<1>2. CASE fits
  <2>1. CommitEntries(t, E) /\ UNCHANGED cut
    BY <1>2 DEF Insert
  <2>2. PICK q : q = [req[t] EXCEPT !.at = "pair", !.fresh = FALSE, !.pair = <<>>,
                                    !.active = FALSE, !.doomed = {}, !.read = {}]
    OBVIOUS
  <2>3. q.at = "pair" /\ q.todo = req[t].todo /\ q.held = req[t].held /\ q.doomed = {}
    BY <1>a, <2>2 DEF Requests
  <2>4. /\ req'[t] = q
        /\ \A x \in Threads : x # t =>
             req'[x] = IF req[x].pair = c THEN [req[x] EXCEPT !.found = @ \ gone] ELSE req[x]
        /\ entries'[c] = E /\ \A d \in Couples : d # c => entries'[d] = entries[d]
    BY <1>b, <2>1, <2>2 DEF CommitEntries
  <2>5. ASSUME NEW x \in Threads, x # t
        PROVE  LET p == req[x] n == req'[x] IN
               /\ n.at = p.at /\ n.rating = p.rating /\ n.todo = p.todo /\ n.held = p.held
               /\ n.pair = p.pair /\ n.active = p.active /\ n.read = p.read /\ n.doomed = p.doomed
               /\ n.found = IF p.pair = c THEN p.found \ gone ELSE p.found
    <3>1. req[x] \in Requests
      BY <1>a
    <3>2. CASE req[x].pair = c
      BY <2>4, <2>5, <3>1, <3>2 DEF Requests
    <3>3. CASE req[x].pair # c
      BY <2>4, <2>5, <3>3
    <3> QED BY <3>2, <3>3
  <2> HIDE DEF new, clash, lost
  <2>6. ASSUME NEW x \in Threads PROVE TakesItsOwn(req[x])'
    <3>1. CASE x = t
      BY <2>3, <2>4, <3>1 DEF TakesItsOwn, Rebuilding
    <3>2. CASE x # t
      <4>1. TakesItsOwn(req[x]) /\ (req[x].at \in Rebuilding => req[x].pair \in Couples)
        BY CollisionFacts DEF Sound, AboutSomething
      <4>2. req[x].pair = c => req[x].doomed \cap gone = {}
        BY <3>2 DEF CollisionIInv, DoomedOnce
      <4>3. req[x].at \in Rebuilding =>
              req'[x].found \subseteq entries'[req[x].pair] /\ req'[x].doomed \subseteq entries'[req[x].pair]
        BY <2>4, <2>5, <3>2, <4>1, <4>2 DEF TakesItsOwn
      <4> QED BY <2>5, <3>2, <4>1, <4>3 DEF TakesItsOwn
    <3> QED BY <3>1, <3>2
  <2>7. DoomedOnce'
    <3> SUFFICES ASSUME NEW x \in Threads, NEW y \in Threads, x # y, req'[x].pair = req'[y].pair
                 PROVE  req'[x].doomed \cap req'[y].doomed = {}
      BY DEF DoomedOnce
    <3>1. CASE x = t \/ y = t
      BY <2>3, <2>4, <3>1
    <3>2. CASE x # t /\ y # t
      BY <2>5, <3>2 DEF CollisionIInv, DoomedOnce
    <3> QED BY <3>1, <3>2
  <2>8. ASSUME NEW d \in Couples, NEW a, Safe(d, a) PROVE Safe(d, a)'
    <3>1. PICK e \in entries[d] : e[1] = a /\ \A x \in Threads : req[x].pair = d => e \notin req[x].doomed
      BY <2>8 DEF Safe
    <3>2. e \in entries'[d]
      BY <2>4, <3>1
    <3>3. \A x \in Threads : req'[x].pair = d => e \notin req'[x].doomed
      BY <2>3, <2>4, <2>5, <3>1
    <3> QED BY <3>1, <3>2, <3>3 DEF Safe
  <2>9. ASSUME NEW a \in AlbumsOf(new), c \in req[t].held PROVE Safe(c, a)'
    <3>1. PICK e \in new : e[1] = a
      BY DEF AlbumsOf
    <3>2. e \in entries'[c]
      BY <2>4, <3>1
    <3>3. ASSUME NEW x \in Threads, req'[x].pair = c, e \in req'[x].doomed PROVE FALSE
      <4>1. x # t /\ req[x].pair = c /\ e \in req[x].doomed
        BY <2>3, <2>4, <2>5, <3>3
      <4>2. TakesItsOwn(req[x]) /\ req[x].doomed \cap gone = {}
        BY <4>1 DEF CollisionIInv, DoomedOnce
      <4>3. e \in EntriesOf(t, c) \ gone
        BY <2>9, <4>1, <4>2 DEF TakesItsOwn, EntriesOf
      <4>4. e \in clash
        BY <2>9, <3>1, <4>3 DEF clash
      <4> QED BY <1>2, <4>4
    <3> QED BY <3>1, <3>2, <3>3 DEF Safe
  <2>10. NoneIsLost'
    <3> SUFFICES ASSUME ~crashed', NEW d \in Couples, NEW a \in Albums, Owed(d, a)'
                 PROVE  Safe(d, a)' \/ <<d, a>> \in cut' \/ \E x \in Threads : WillInsert(req'[x], d, a)
      BY DEF NoneIsLost, WillInsert
    <3>1. Owed(d, a)
      BY <1>a DEF Owed, Published
    <3>2. Safe(d, a) \/ <<d, a>> \in cut \/ \E x \in Threads : WillInsert(req[x], d, a)
      BY <1>a, <3>1 DEF CollisionIInv, NoneIsLost
    <3>3. CASE Safe(d, a) \/ <<d, a>> \in cut
      BY <2>1, <2>8, <3>3
    <3>4. ASSUME NEW x \in Threads, x # t, WillInsert(req[x], d, a) PROVE WillInsert(req'[x], d, a)
      BY <2>5, <3>4 DEF WillInsert
    <3>5. CASE WillInsert(req[t], d, a)
      <4>1. CASE d \in req[t].todo \cap req[t].held
        <5>1. WillInsert(req'[t], d, a)
          BY <2>3, <2>4, <4>1 DEF WillInsert
        <5> QED BY <5>1
      <4>2. CASE d \notin req[t].todo \cap req[t].held
        BY <1>c, <2>9, <3>5, <4>2
      <4> QED BY <4>1, <4>2
    <3> QED BY <3>2, <3>3, <3>4, <3>5
  <2> QED BY <2>6, <2>7, <2>10 DEF CollisionIInv
<1> QED BY <1>1, <1>2

\* Accepting a friendship: everything the two share is owed to its dashboard,
\* and the handler's rebuild will insert it.
LEMMA AcceptCollision ==
    ASSUME CollisionIInv, IInv', NEW t \in Threads, CommitAccept(t)
    PROVE  CollisionIInv'
<1>a. /\ req \in [Threads -> Requests] /\ req[t] \in Requests /\ TakesItsOwn(req[t])
      /\ req[t].at = "accept" /\ req[t].doomed = {} /\ req[t].held \subseteq req[t].todo
      /\ UNCHANGED <<ratings, entries, crashed, cut>>
  BY CollisionFacts DEF CommitAccept, At, TakesItsOwn, Rebuilding
<1>b. \A c, a : ~WillInsert(req[t], c, a)
  BY <1>a DEF WillInsert, Rebuilding
<1>1. CASE req[t].held # {}
  <2>1. PICK q : q = [req[t] EXCEPT !.at = "pair"]
    OBVIOUS
  <2>2. q.at = "pair" /\ q.todo = req[t].todo /\ q.held = req[t].held /\ q.doomed = {}
    BY <1>a, <2>1 DEF Requests
  <2>3. /\ req' = [req EXCEPT ![t] = q]
        /\ \A c \in Couples : c \notin req[t].held => friendship'[c] = friendship[c]
    BY <1>1, <2>1 DEF CommitAccept
  <2>4. TakesItsOwn(q)
    BY <2>2 DEF TakesItsOwn, Rebuilding
  <2>5. ASSUME NEW c \in Couples, NEW a \in Albums, Owed(c, a)'
        PROVE  Owed(c, a) \/ WillInsert(q, c, a)
    <3>1. CASE c \in req[t].held
      BY <1>a, <2>2, <3>1 DEF WillInsert
    <3>2. CASE c \notin req[t].held
      BY <1>a, <2>3, <2>5, <3>2 DEF Owed, Published
    <3> QED BY <3>1, <3>2
  <2>6. /\ req'[t] = q
        /\ \A x \in Threads : x # t => SameWork(req'[x], req[x])
    BY <2>3, CollisionFacts
  <2>7. cut \subseteq cut' /\ (crashed => crashed') /\ UNCHANGED entries
    BY <1>a
  <2> QED BY <1>b, <2>2, <2>4, <2>5, <2>6, <2>7, MovesOn
<1>2. CASE req[t].held = {}
  <2>1. PICK q : q = Idle
    OBVIOUS
  <2>2. req' = [req EXCEPT ![t] = q] /\ UNCHANGED friendship
    BY <1>2, <2>1 DEF CommitAccept, Done
  <2>3. cut \subseteq cut' /\ (crashed => crashed')
    BY <1>a
  <2> QED BY <1>a, <1>b, <2>1, <2>2, <2>3, IdleInsertsNothing, QuietStep
<1> QED BY <1>1, <1>2

\* The other handlers make nothing new owed.  Ending a friendship waits for the
\* rebuilds that have deleted some of its entries.
LEMMA OneShotCollision ==
    ASSUME CollisionIInv, IInv', OneShot
    PROVE  CollisionIInv'
<1>1. PICK t \in Threads : req[t].at = "idle"
  BY DEF OneShot, At
<1>a. /\ req \in [Threads -> Requests] /\ friendship \in [Couples -> FriendshipStatus]
      /\ ratings \in [Ratings -> Rating] /\ entries \in [Couples -> SUBSET Entries]
  BY DEF CollisionIInv, IInv, TypeOK
<1>b. \A c \in Couples, a \in Albums : <<c[1], a>> \in Ratings /\ <<c[2], a>> \in Ratings
  BY CoupleFacts DEF Ratings
<1>2. ASSUME UNCHANGED <<req, entries, crashed, cut>>,
             \A c \in Couples, a \in Albums : Owed(c, a)' => Owed(c, a)
      PROVE  CollisionIInv'
  <2>1. PICK q : q = req[t]
    OBVIOUS
  <2>2. req'[t] = q /\ \A x \in Threads : x # t => SameWork(req'[x], req[x])
    BY <1>2, <2>1 DEF SameWork
  <2>3. TakesItsOwn(q)
    BY <2>1, CollisionFacts
  <2> QED BY <1>2, <2>1, <2>2, <2>3, MovesOn
<1>3. ASSUME NEW r \in Ratings, CreateRating(r) PROVE CollisionIInv'
  <2>1. \A x \in Ratings : Published(x)' => Published(x)
    BY <1>3, <1>a, ConstantsAssumption DEF CreateRating, Published
  <2> QED BY <1>2, <1>3, <1>b, <2>1 DEF CreateRating, Owed
<1>4. ASSUME NEW r \in Ratings, NEW s \in Scores, PatchRating(r, s) PROVE CollisionIInv'
  <2>1. \A x \in Ratings : Published(x)' => Published(x)
    BY <1>4, <1>a DEF PatchRating, Published
  <2> QED BY <1>2, <1>4, <1>b, <2>1 DEF PatchRating, Owed
<1>5. ASSUME NEW c \in Couples, RequestFriend(c) PROVE CollisionIInv'
  <2>1. \A d \in Couples : friendship'[d] = "accepted" => friendship[d] = "accepted"
    BY <1>5, <1>a DEF RequestFriend
  <2>2. \A x \in Ratings : Published(x)' = Published(x)
    BY <1>5 DEF RequestFriend, Published
  <2> QED BY <1>2, <1>5, <1>b, <2>1, <2>2 DEF RequestFriend, Owed
<1>6. ASSUME NEW c \in Couples, EndFriendship(c) PROVE CollisionIInv'
  <2> DEFINE F(x) == IF req[x].pair = c THEN {} ELSE req[x].found
  <2>1. \A x \in Threads : req'[x] = [req[x] EXCEPT !.held = @ \ {c}, !.found = F(x)]
    BY <1>6 DEF EndFriendship
  <2> HIDE DEF F
  <2>2. ASSUME NEW x \in Threads
        PROVE  LET p == req[x] n == req'[x] IN
               /\ n.at = p.at /\ n.rating = p.rating /\ n.todo = p.todo /\ n.held = p.held \ {c}
               /\ n.pair = p.pair /\ n.active = p.active /\ n.read = p.read /\ n.doomed = p.doomed
               /\ n.found = F(x)
    <3>1. req[x] \in Requests /\ req'[x] = [req[x] EXCEPT !.held = @ \ {c}, !.found = F(x)]
      BY <1>a, <2>1
    <3> QED BY <3>1 DEF Requests
  <2>3. /\ friendship'[c] = "none" /\ entries'[c] = {}
        /\ \A d \in Couples : d # c => friendship'[d] = friendship[d] /\ entries'[d] = entries[d]
        /\ \A x \in Threads : req[x].pair = c => req[x].doomed = {}
        /\ UNCHANGED <<ratings, crashed, cut>>
    BY <1>6, <1>a DEF EndFriendship
  <2>4. ASSUME NEW x \in Threads PROVE TakesItsOwn(req[x])'
    <3>1. TakesItsOwn(req[x]) /\ (req[x].at \in Rebuilding => req[x].pair \in Couples)
      BY CollisionFacts DEF Sound, AboutSomething
    <3>2. CASE req[x].pair = c
      BY <2>2, <2>3, <3>1, <3>2 DEF TakesItsOwn, F
    <3>3. CASE req[x].pair # c
      BY <2>2, <2>3, <3>1, <3>3 DEF TakesItsOwn, F
    <3> QED BY <3>2, <3>3
  <2>5. DoomedOnce'
    <3> SUFFICES ASSUME NEW x \in Threads, NEW y \in Threads, x # y, req'[x].pair = req'[y].pair
                 PROVE  req'[x].doomed \cap req'[y].doomed = {}
      BY DEF DoomedOnce
    <3>1. /\ req'[x].pair = req[x].pair /\ req'[x].doomed = req[x].doomed
          /\ req'[y].pair = req[y].pair /\ req'[y].doomed = req[y].doomed
      BY <2>2
    <3> QED BY <3>1 DEF CollisionIInv, DoomedOnce
  <2>6. NoneIsLost'
    <3> SUFFICES ASSUME ~crashed', NEW d \in Couples, NEW a \in Albums, Owed(d, a)'
                 PROVE  Safe(d, a)' \/ <<d, a>> \in cut' \/ \E x \in Threads : WillInsert(req'[x], d, a)
      BY DEF NoneIsLost, WillInsert
    <3>1. d # c /\ Owed(d, a)
      BY <2>3 DEF Owed, Published
    <3>2. Safe(d, a) \/ <<d, a>> \in cut \/ \E x \in Threads : WillInsert(req[x], d, a)
      BY <2>3, <3>1 DEF CollisionIInv, NoneIsLost
    <3>3. Safe(d, a) => Safe(d, a)'
      BY <2>2, <2>3, <3>1 DEF Safe
    <3>4. ASSUME NEW x \in Threads, WillInsert(req[x], d, a) PROVE WillInsert(req'[x], d, a)
      BY <2>2, <3>1, <3>4 DEF WillInsert
    <3> QED BY <2>3, <3>2, <3>3, <3>4
  <2> QED BY <2>4, <2>5, <2>6 DEF CollisionIInv
<1> QED BY <1>3, <1>4, <1>5, <1>6 DEF OneShot

LEMMA CollisionInvariance == Spec => []CollisionIInv
<1>1. Init => CollisionIInv
  <2> SUFFICES ASSUME Init PROVE CollisionIInv
    OBVIOUS
  <2>1. IInv
    BY InitIInv
  <2>2. \A t \in Threads : TakesItsOwn(req[t]) /\ req[t].doomed = {}
    BY IdleInsertsNothing DEF Init
  <2>3. \A c \in Couples, a \in Albums : ~Owed(c, a)
    BY CoupleFacts, ConstantsAssumption DEF Init, Owed, Published, Ratings
  <2> QED BY <2>1, <2>2, <2>3 DEF CollisionIInv, NoneIsLost, DoomedOnce
<1>2. CollisionIInv /\ [Next]_vars => CollisionIInv'
  <2> SUFFICES ASSUME CollisionIInv, [Next]_vars PROVE CollisionIInv'
    OBVIOUS
  <2>1. IInv'
    BY NextIInv DEF CollisionIInv
  <2>2. ASSUME NEW t \in Threads, Start(t) \/ Continue(t) \/ Fail(t) PROVE CollisionIInv'
    BY <2>1, <2>2, StartCollision, RatingCollision, RebuildCollision, WipeCollision, InsertCollision, AcceptCollision
    DEF Continue
  <2>3. CASE UNCHANGED vars
    <3>1. UNCHANGED <<friendship, ratings, entries, req, crashed, cut>>
      BY <2>3 DEF vars
    <3>2. NoneIsLost' /\ DoomedOnce'
      BY <3>1 DEF CollisionIInv, NoneIsLost, DoomedOnce, Owed, Published, Safe, WillInsert
    <3>3. ASSUME NEW t \in Threads PROVE TakesItsOwn(req[t])'
      BY <3>1 DEF CollisionIInv, TakesItsOwn
    <3> QED BY <2>1, <3>2, <3>3 DEF CollisionIInv
  <2> QED BY <2>1, <2>2, <2>3, OneShotCollision DEF Next
<1> QED BY <1>1, <1>2, PTL DEF Spec

\* Whatever overlaps, for any users, albums, scores and threads: once the requests
\* have ended, an album that both friends have published is on their dashboard,
\* unless a rebuild that was due ended with an exception.
THEOREM MutualAlbumsShow == Spec => []MutualAlbumShows
<1>1. CollisionIInv => MutualAlbumShows
  <2> SUFFICES ASSUME CollisionIInv, Settled, NEW c \in Couples,
                      NEW a \in AlbumsOf(Derived(c)), a \notin AlbumsOf(entries[c])
               PROVE  <<c, a>> \in cut
    BY DEF MutualAlbumShows
  <2>1. a \in Albums /\ Owed(c, a)
    <3>1. PICK e \in Derived(c) : e[1] = a
      BY DEF AlbumsOf
    <3>2. DerivedAsDefined(c)
      BY DerivedFacts DEF AllDerivedAsDefined
    <3> QED BY <3>1, <3>2 DEF DerivedAsDefined, Owed, Entries
  <2>2. \A t \in Threads : ~WillInsert(req[t], c, a)
    BY DEF Settled, At, WillInsert, Rebuilding
  <2>3. ~Safe(c, a)
    BY DEF Safe, AlbumsOf
  <2> QED BY <2>1, <2>2, <2>3 DEF CollisionIInv, NoneIsLost, Settled
<1> QED BY <1>1, CollisionInvariance, PTL

----------------------------------------------------------------------------
(* One of two friends tells the invites, whatever overlaps.                 *)

\* A request r has published x, and has yet to look at the invites.
News(r, x) == r.op = "publish" /\ r.at # "publish" /\ r.live /\ r.rating = x
NewsOf(r, c, a) == News(r, <<c[1], a>>) \/ News(r, <<c[2], a>>)

SomeoneTells ==
    ~crashed => \A c \in Couples, a \in Albums :
        Mutually(c, a) => <<c, a>> \in told \cup unheard \/ \E t \in Threads : NewsOf(req[t], c, a)

\* Only publish_rating publishes, and only on a row it has loaded.
OnlyPublishing(r) ==
    /\ r.at = "idle" => ~r.live
    /\ r.at = "publish" => r.op = "publish"
    /\ r.at \in {"delete", "accept"} => r.op # "publish"

TellIInv == TypeOK /\ SomeoneTells /\ \A t \in Threads : OnlyPublishing(req[t])

LEMMA TellingIsNews == \A c, a : \A t \in Threads : ToldBy(t, c, a) <=> NewsOf(req[t], c, a)
BY DEF ToldBy, Telling, NewsOf, News, At

\* A step after which every request has the news it had, and nothing more is published.
LEMMA NewsKept ==
    ASSUME TellIInv, TypeOK',
           \A x \in Threads : OnlyPublishing(req'[x]) /\ \A r : News(req[x], r) => News(req'[x], r),
           \A r \in Ratings : Published(r)' => Published(r),
           told \subseteq told', unheard \subseteq unheard', crashed => crashed'
    PROVE  TellIInv'
<1>1. \A c \in Couples, a \in Albums : Mutually(c, a)' => Mutually(c, a)
  BY CoupleFacts DEF Mutually, Ratings
<1>2. \A x \in Threads, c \in Couples, a \in Albums : NewsOf(req[x], c, a) => NewsOf(req'[x], c, a)
  BY DEF NewsOf
<1>3. SomeoneTells'
  BY <1>1, <1>2 DEF TellIInv, SomeoneTells, NewsOf, News
<1>4. \A x \in Threads : OnlyPublishing(req[x])'
  BY DEF OnlyPublishing
<1> QED BY <1>3, <1>4 DEF TellIInv

\* The same, where request t alone moves on.
LEMMA OneMovesOn ==
    ASSUME TellIInv, TypeOK', NEW t \in Threads, NEW q, req' = [req EXCEPT ![t] = q],
           OnlyPublishing(q), \A r : News(req[t], r) => News(q, r),
           \A r \in Ratings : Published(r)' => Published(r),
           told \subseteq told', unheard \subseteq unheard', crashed => crashed'
    PROVE  TellIInv'
<1>1. \A x \in Threads : req'[x] = IF x = t THEN q ELSE req[x]
  BY DEF TellIInv, TypeOK
<1>2. \A x \in Threads : OnlyPublishing(req'[x]) /\ \A r : News(req[x], r) => News(req'[x], r)
  BY <1>1 DEF TellIInv
<1> QED BY <1>2, NewsKept

\* A request that ends by an exception abandons what no other request will tell.
LEMMA EndsAbandoned ==
    ASSUME TellIInv, TypeOK', NEW t \in Threads, Done(t),
           unheard' = unheard \cup Abandoned(t), UNCHANGED <<ratings, told, crashed>>
    PROVE  TellIInv'
<1>1. \A x \in Threads : req'[x] = IF x = t THEN Idle ELSE req[x]
  BY DEF Done, TellIInv, TypeOK
<1>2. OnlyPublishing(Idle)
  BY DEF Idle, Request, OnlyPublishing
<1>3. ASSUME ~crashed', NEW c \in Couples, NEW a \in Albums, Mutually(c, a)'
      PROVE  <<c, a>> \in told' \cup unheard' \/ \E x \in Threads : NewsOf(req'[x], c, a)
  <2>1. Mutually(c, a) /\ ~crashed
    BY <1>3 DEF Mutually, Published
  <2>2. CASE \E x \in Threads \ {t} : NewsOf(req[x], c, a)
    BY <1>1, <2>2
  <2>3. CASE ~\E x \in Threads \ {t} : NewsOf(req[x], c, a)
    <3>1. NewsOf(req[t], c, a) => <<c, a>> \in Abandoned(t)
      BY <2>1, <2>3, TellingIsNews DEF Abandoned
    <3> QED BY <2>1, <2>3, <3>1 DEF TellIInv, SomeoneTells
  <2> QED BY <2>2, <2>3
<1>4. SomeoneTells'
  BY <1>3 DEF SomeoneTells, NewsOf, News
<1>5. \A x \in Threads : OnlyPublishing(req[x])'
  BY <1>1, <1>2 DEF TellIInv, OnlyPublishing
<1> QED BY <1>4, <1>5 DEF TellIInv

LEMMA StartTells ==
    ASSUME TellIInv, TypeOK', NEW t \in Threads, Start(t)
    PROVE  TellIInv'
<1>1. ASSUME NEW op, NEW r, Serve(t, op, r), OnlyPublishing(r), UNCHANGED <<ratings, told, unheard, crashed>>
      PROVE  TellIInv'
  <2>1. \A x : ~News(req[t], x)
    BY <1>1 DEF Serve, At, TellIInv, OnlyPublishing, News
  <2> QED BY <1>1, <2>1, OneMovesOn DEF Serve, Published
<1>2. \A op, s, x, C : Request(op, s, x, C).at = s /\ Request(op, s, x, C).op = op
  BY DEF Request
<1>3. ASSUME NEW r \in Ratings, StartPublish(t, r) PROVE TellIInv'
  BY <1>1, <1>2, <1>3 DEF StartPublish, OnlyPublishing
<1>4. ASSUME NEW r \in Ratings, StartRepublish(t, r) PROVE TellIInv'
  BY <1>1, <1>2, <1>4 DEF StartRepublish, OnlyPublishing
<1>5. ASSUME NEW r \in Ratings, StartDelete(t, r) PROVE TellIInv'
  <2>1. PICK q : q = [Request("delete", "delete", r, {}) EXCEPT !.active = Published(r)]
    OBVIOUS
  <2>2. q.at = "delete" /\ q.op = "delete"
    BY <2>1 DEF Request
  <2> QED BY <1>1, <1>5, <2>1, <2>2 DEF StartDelete, OnlyPublishing
<1>6. ASSUME NEW c \in Couples, StartAccept(t, c) PROVE TellIInv'
  BY <1>1, <1>2, <1>6 DEF StartAccept, OnlyPublishing
<1> QED BY <1>3, <1>4, <1>5, <1>6 DEF Start

\* The stages at which a handler only goes on.
Onward == {"friends", "pair", "wipe", "read_a", "read_b", "insert", "complete"}

\* Request t goes on with what it has, or ends with no news to tell.
LEMMA GoesOn ==
    ASSUME TellIInv, TypeOK', NEW t \in Threads, NEW q, req' = [req EXCEPT ![t] = q],
           \/ q.at \in Onward /\ q.op = req[t].op /\ q.live = req[t].live /\ q.rating = req[t].rating
           \/ q = Idle /\ \A r : ~News(req[t], r),
           UNCHANGED <<ratings, told, crashed>>, unheard \subseteq unheard'
    PROVE  TellIInv'
<1>1. OnlyPublishing(q)
  BY DEF OnlyPublishing, Onward, Idle, Request
<1>2. \A r : News(req[t], r) => News(q, r)
  BY DEF News, Onward
<1>3. \A r \in Ratings : Published(r)' => Published(r)
  BY DEF Published
<1> QED BY <1>1, <1>2, <1>3, OneMovesOn

LEMMA PublishTells ==
    ASSUME TellIInv, TypeOK', NEW t \in Threads, CommitPublish(t)
    PROVE  TellIInv'
<1> DEFINE r == req[t].rating
<1>1. req \in [Threads -> Requests] /\ req[t] \in Requests /\ req[t].at = "publish" /\ req[t].op = "publish"
  BY DEF CommitPublish, At, TellIInv, TypeOK, OnlyPublishing
<1>2. CASE ~req[t].live
  BY <1>1, <1>2, GoesOn DEF CommitPublish, Done, News
<1>3. CASE req[t].live
  <2>1. PICK q : q = [req[t] EXCEPT !.at = "friends"]
    OBVIOUS
  <2>2. q.at = "friends" /\ q.op = "publish" /\ q.live /\ q.rating = r
    BY <1>1, <1>3, <2>1 DEF Requests
  <2>3. \A x \in Threads : req'[x] = IF x = t THEN q ELSE req[x]
    BY <1>1, <1>3, <2>1 DEF CommitPublish
  <2>4. OnlyPublishing(q) /\ News(q, r) /\ \A y : ~News(req[t], y)
    BY <1>1, <2>2 DEF OnlyPublishing, News
  <2>5. UNCHANGED <<told, unheard, crashed>> /\ \A x \in Ratings : x # r => ratings'[x] = ratings[x]
    BY <1>3 DEF CommitPublish, TellIInv, TypeOK
  <2>6. ASSUME ~crashed', NEW c \in Couples, NEW a \in Albums, Mutually(c, a)'
        PROVE  <<c, a>> \in told' \cup unheard' \/ \E x \in Threads : NewsOf(req'[x], c, a)
    <3>1. CASE r \in {<<c[1], a>>, <<c[2], a>>}
      BY <2>3, <2>4, <3>1 DEF NewsOf
    <3>2. CASE r \notin {<<c[1], a>>, <<c[2], a>>}
      <4>1. Mutually(c, a)
        BY <2>5, <2>6, <3>2, CoupleFacts DEF Mutually, Published, Ratings
      <4>2. <<c, a>> \in told \cup unheard \/ \E x \in Threads \ {t} : NewsOf(req[x], c, a)
        BY <2>4, <2>5, <2>6, <4>1 DEF TellIInv, SomeoneTells, NewsOf
      <4> QED BY <2>3, <2>5, <4>2
    <3> QED BY <3>1, <3>2
  <2>7. SomeoneTells'
    BY <2>6 DEF SomeoneTells, NewsOf, News
  <2>8. \A x \in Threads : OnlyPublishing(req[x])'
    BY <2>3, <2>4 DEF TellIInv, OnlyPublishing
  <2> QED BY <2>7, <2>8 DEF TellIInv
<1> QED BY <1>2, <1>3

\* A rating removed takes along what was told of it, and nothing else.
LEMMA DeleteTells ==
    ASSUME TellIInv, TypeOK', NEW t \in Threads, CommitDelete(t)
    PROVE  TellIInv'
<1> DEFINE r == req[t].rating
           after == IF req[t].active THEN AfterDelete(t) ELSE Idle
<1>1. req \in [Threads -> Requests] /\ req[t] \in Requests /\ req[t].at = "delete" /\ req[t].op # "publish"
  BY DEF CommitDelete, At, TellIInv, TypeOK, OnlyPublishing
<1>2. after.at \in {"friends", "idle"} /\ (after.at = "idle" => ~after.live)
  BY <1>1 DEF AfterDelete, Idle, Request, Requests
<1>3. OnlyPublishing(after) /\ \A y : ~News(req[t], y)
  BY <1>1, <1>2 DEF OnlyPublishing, News
<1>4. CASE ~req[t].live
  <2>1. req' = [req EXCEPT ![t] = after] /\ UNCHANGED <<ratings, told, unheard, crashed>>
    BY <1>4 DEF CommitDelete
  <2> HIDE DEF after
  <2> QED BY <1>3, <2>1, OneMovesOn DEF Published
<1>5. CASE req[t].live
  <2>1. /\ \A x \in Threads : req'[x] = IF x = t THEN after
                                        ELSE [req[x] EXCEPT !.live = @ /\ req[x].rating # r]
        /\ ratings' = [ratings EXCEPT ![r] = "none"]
        /\ told' = told \ About(r) /\ unheard' = unheard \ About(r) /\ crashed' = crashed
    BY <1>5 DEF CommitDelete
  <2> HIDE DEF after
  <2>2. ASSUME NEW x \in Threads \ {t}
        PROVE  /\ req'[x].at = req[x].at /\ req'[x].op = req[x].op /\ req'[x].rating = req[x].rating
               /\ req'[x].live = (req[x].live /\ req[x].rating # r)
    <3>1. PICK b : b = (req[x].live /\ req[x].rating # r)
      OBVIOUS
    <3>2. req'[x] = [req[x] EXCEPT !.live = b] /\ req[x] \in Requests
      BY <1>1, <2>1, <3>1
    <3> QED BY <3>1, <3>2 DEF Requests
  <2>3. \A x \in Threads : OnlyPublishing(req[x])'
    <3>1. \A x \in Threads \ {t} : OnlyPublishing(req'[x])
      BY <2>2 DEF TellIInv, OnlyPublishing
    <3>2. req'[t] = after
      BY <2>1
    <3> QED BY <1>3, <3>1, <3>2 DEF OnlyPublishing
  <2>4. ASSUME ~crashed', NEW c \in Couples, NEW a \in Albums, Mutually(c, a)'
        PROVE  <<c, a>> \in told' \cup unheard' \/ \E x \in Threads : NewsOf(req'[x], c, a)
    <3>1. <<c[1], a>> \in Ratings /\ <<c[2], a>> \in Ratings
      BY CoupleFacts DEF Ratings
    <3>2. r \notin {<<c[1], a>>, <<c[2], a>>} /\ Mutually(c, a)
      BY <2>1, <2>4, <3>1, ConstantsAssumption DEF Mutually, Published, TellIInv, TypeOK
    <3>3. <<c, a>> \in told \cup unheard \/ \E x \in Threads \ {t} : NewsOf(req[x], c, a)
      BY <1>3, <2>1, <2>4, <3>2 DEF TellIInv, SomeoneTells, NewsOf
    <3>4. \A x \in Threads \ {t} : NewsOf(req[x], c, a) => NewsOf(req'[x], c, a)
      BY <2>2, <3>2 DEF NewsOf, News
    <3>5. <<c, a>> \notin About(r)
      BY <3>2 DEF About
    <3> QED BY <2>1, <3>3, <3>4, <3>5
  <2>5. SomeoneTells'
    BY <2>4 DEF SomeoneTells, NewsOf, News
  <2> QED BY <2>3, <2>5 DEF TellIInv
<1> QED BY <1>4, <1>5

LEMMA OthersTell ==
    ASSUME TellIInv, TypeOK', NEW t \in Threads, CommitRepublish(t) \/ CommitAccept(t)
    PROVE  TellIInv'
<1>1. req \in [Threads -> Requests] /\ req[t] \in Requests /\ OnlyPublishing(req[t])
  BY DEF TellIInv, TypeOK
<1>2. CASE CommitRepublish(t)
  <2>1. PICK q : q = IF req[t].live THEN [req[t] EXCEPT !.at = "friends"] ELSE Idle
    OBVIOUS
  <2>2. req' = [req EXCEPT ![t] = q] /\ UNCHANGED <<ratings, told, unheard, crashed>>
    BY <1>2, <2>1 DEF CommitRepublish, Done
  <2>3. \/ q.at = "friends" /\ q.op = req[t].op /\ q.live = req[t].live /\ q.rating = req[t].rating
        \/ q = Idle /\ \A r : ~News(req[t], r)
    BY <1>1, <2>1 DEF Requests, News
  <2> QED BY <2>2, <2>3, GoesOn DEF Onward
<1>3. CASE CommitAccept(t)
  <2>1. PICK q : q = IF req[t].held # {} THEN [req[t] EXCEPT !.at = "pair"] ELSE Idle
    OBVIOUS
  <2>2. req' = [req EXCEPT ![t] = q] /\ UNCHANGED <<ratings, told, unheard, crashed>>
    BY <1>3, <2>1 DEF CommitAccept, Done
  <2>3. \/ q.at = "pair" /\ q.op = req[t].op /\ q.live = req[t].live /\ q.rating = req[t].rating
        \/ q = Idle /\ \A r : ~News(req[t], r)
    BY <1>1, <1>3, <2>1 DEF Requests, News, CommitAccept, At, OnlyPublishing
  <2> QED BY <2>2, <2>3, GoesOn DEF Onward
<1> QED BY <1>2, <1>3

\* A rebuild keeps what its request has to tell, or ends with an exception.
LEMMA RebuildTells ==
    ASSUME TellIInv, TypeOK', NEW t \in Threads,
           ListFriends(t) \/ NextPair(t) \/ EndPairs(t) \/ Wipe(t) \/ ReadA(t) \/ ReadB(t)
    PROVE  TellIInv'
<1>1. req \in [Threads -> Requests] /\ req[t] \in Requests
  BY DEF TellIInv, TypeOK
<1>2. ASSUME NEW q, req' = [req EXCEPT ![t] = q], q.at \in Onward, q.op = req[t].op,
             q.live = req[t].live, q.rating = req[t].rating, UNCHANGED <<ratings, told, unheard, crashed>>
      PROVE  TellIInv'
  BY <1>2, GoesOn
<1> USE DEF Onward
<1>3. CASE ListFriends(t)
  <2> DEFINE F == FriendshipsOf(req[t].rating[1])
  <2>1. PICK q : q = [req[t] EXCEPT !.at = "pair", !.todo = F, !.held = F, !.fresh = TRUE]
    OBVIOUS
  <2>2. q.at = "pair" /\ q.op = req[t].op /\ q.live = req[t].live /\ q.rating = req[t].rating
    BY <1>1, <2>1 DEF Requests
  <2> QED BY <1>2, <1>3, <2>1, <2>2 DEF ListFriends
<1>4. CASE NextPair(t)
  <2>1. PICK c \in req[t].todo :
          \/ /\ req' = [req EXCEPT ![t].at = "wipe", ![t].todo = Rest(t, c), ![t].pair = c,
                                   ![t].active = req[t].fresh \/ friendship[c] = "accepted",
                                   ![t].found = EntriesOf(t, c)]
             /\ UNCHANGED unheard
          \/ req' = [req EXCEPT ![t].todo = Rest(t, c)] /\ UNCHANGED unheard
          \/ Done(t) /\ unheard' = unheard \cup Abandoned(t)
    BY <1>4 DEF NextPair
  <2>2. UNCHANGED <<ratings, told, crashed>> /\ req[t].at = "pair"
    BY <1>4 DEF NextPair, At
  <2>3. CASE UNCHANGED unheard /\ req' = [req EXCEPT ![t].at = "wipe", ![t].todo = Rest(t, c), ![t].pair = c,
                                   ![t].active = req[t].fresh \/ friendship[c] = "accepted",
                                   ![t].found = EntriesOf(t, c)]
    <3>1. PICK b : b = (req[t].fresh \/ friendship[c] = "accepted")
      OBVIOUS
    <3>2. PICK q : q = [req[t] EXCEPT !.at = "wipe", !.todo = Rest(t, c), !.pair = c, !.active = b,
                                      !.found = EntriesOf(t, c)]
      OBVIOUS
    <3>3. q.at = "wipe" /\ q.op = req[t].op /\ q.live = req[t].live /\ q.rating = req[t].rating
      BY <1>1, <3>2 DEF Requests
    <3>4. req' = [req EXCEPT ![t] = q]
      BY <2>3, <3>1, <3>2
    <3> QED BY <1>2, <2>2, <2>3, <3>3, <3>4
  <2>4. CASE UNCHANGED unheard /\ req' = [req EXCEPT ![t].todo = Rest(t, c)]
    <3>1. PICK q : q = [req[t] EXCEPT !.todo = Rest(t, c)]
      OBVIOUS
    <3>2. q.at = "pair" /\ q.op = req[t].op /\ q.live = req[t].live /\ q.rating = req[t].rating
      BY <1>1, <2>2, <3>1 DEF Requests
    <3> QED BY <1>2, <2>2, <2>4, <3>1, <3>2
  <2> QED BY <2>1, <2>2, <2>3, <2>4, EndsAbandoned
<1>5. CASE EndPairs(t)
  <2>1. PICK q : q = IF TellsPartners(t) THEN [req[t] EXCEPT !.at = "complete"] ELSE Idle
    OBVIOUS
  <2>2. req' = [req EXCEPT ![t] = q] /\ UNCHANGED <<ratings, told, unheard, crashed>>
    BY <1>5, <2>1 DEF EndPairs, Done
  <2>3. \/ q.at = "complete" /\ q.op = req[t].op /\ q.live = req[t].live /\ q.rating = req[t].rating
        \/ q = Idle /\ \A r : ~News(req[t], r)
    BY <1>1, <2>1 DEF Requests, News, TellsPartners
  <2> QED BY <2>2, <2>3, GoesOn
<1>6. CASE Wipe(t)
  <2>1. PICK q : q = [req[t] EXCEPT !.at = IF req[t].active THEN "read_a" ELSE "insert",
                                    !.doomed = req[t].found, !.found = {}]
    OBVIOUS
  <2>2. q.at \in {"read_a", "insert"} /\ q.op = req[t].op /\ q.live = req[t].live /\ q.rating = req[t].rating
    BY <1>1, <2>1 DEF Requests
  <2> QED BY <1>2, <1>6, <2>1, <2>2 DEF Wipe
<1>7. CASE ReadA(t)
  <2>1. PICK q : q = [req[t] EXCEPT !.at = "read_b", !.read = PublishedBy(req[t].pair[1])]
    OBVIOUS
  <2>2. q.at = "read_b" /\ q.op = req[t].op /\ q.live = req[t].live /\ q.rating = req[t].rating
    BY <1>1, <2>1 DEF Requests
  <2> QED BY <1>2, <1>7, <2>1, <2>2 DEF ReadA
<1>8. CASE ReadB(t)
  <2>1. PICK q : q = [req[t] EXCEPT !.at = "insert", !.read = @ \cup PublishedBy(req[t].pair[2])]
    OBVIOUS
  <2>2. q.at = "insert" /\ q.op = req[t].op /\ q.live = req[t].live /\ q.rating = req[t].rating
    BY <1>1, <2>1 DEF Requests
  <2> QED BY <1>2, <1>8, <2>1, <2>2 DEF ReadB
<1> QED BY <1>3, <1>4, <1>5, <1>6, <1>7, <1>8

LEMMA InsertTells ==
    ASSUME TellIInv, TypeOK', NEW t \in Threads, Insert(t)
    PROVE  TellIInv'
<1> DEFINE E == (entries[req[t].pair] \ req[t].doomed) \cup Mutual(req[t].pair, req[t].read)
<1>1. \/ CommitEntries(t, E) /\ UNCHANGED unheard
      \/ Done(t) /\ unheard' = unheard \cup Abandoned(t)
  BY DEF Insert
<1>2. UNCHANGED <<ratings, told, crashed>>
  BY DEF Insert
<1> HIDE DEF E
<1>3. CASE CommitEntries(t, E) /\ UNCHANGED unheard
  <2>1. ASSUME NEW x \in Threads
        PROVE  /\ req'[x].op = req[x].op /\ req'[x].live = req[x].live /\ req'[x].rating = req[x].rating
               /\ IF x = t THEN req'[x].at = "pair" ELSE req'[x].at = req[x].at
    <3>1. req[x] \in Requests
      BY DEF TellIInv, TypeOK
    <3>2. CASE x = t
      <4>1. req'[x] = [req[x] EXCEPT !.at = "pair", !.fresh = FALSE, !.pair = <<>>,
                                     !.active = FALSE, !.doomed = {}, !.read = {}]
        BY <1>3, <3>2 DEF CommitEntries
      <4> QED BY <3>1, <3>2, <4>1 DEF Requests
    <3>3. CASE x # t /\ req[x].pair = req[t].pair
      <4>1. PICK F : req'[x] = [req[x] EXCEPT !.found = F]
        BY <1>3, <3>3 DEF CommitEntries
      <4> QED BY <3>1, <3>3, <4>1 DEF Requests
    <3>4. CASE x # t /\ req[x].pair # req[t].pair
      BY <1>3, <3>4 DEF CommitEntries
    <3> QED BY <3>2, <3>3, <3>4
  <2>2. \A x \in Threads : OnlyPublishing(req'[x]) /\ \A r : News(req[x], r) => News(req'[x], r)
    BY <2>1 DEF TellIInv, OnlyPublishing, News
  <2> QED BY <1>2, <1>3, <2>2, NewsKept DEF Published
<1> QED BY <1>1, <1>2, <1>3, EndsAbandoned

\* What a request had to tell is told of every friend who has published by now.
LEMMA CompleteTells ==
    ASSUME TellIInv, TypeOK', NEW t \in Threads, Complete(t)
    PROVE  TellIInv'
<1> DEFINE r == req[t].rating
<1>1. /\ req \in [Threads -> Requests] /\ req[t] \in Requests /\ req[t].at = "complete"
      /\ UNCHANGED <<ratings, unheard, crashed>>
  BY DEF Complete, At, TellIInv, TypeOK
<1>2. CASE ~req[t].live
  BY <1>1, <1>2, GoesOn DEF Complete, Done, News
<1>3. CASE req[t].live
  <2>1. PICK C : req' = [req EXCEPT ![t].at = "pair", ![t].op = "complete", ![t].todo = C,
                                    ![t].held = C, ![t].fresh = FALSE]
    BY <1>3 DEF Complete
  <2>2. told' = told \cup {p \in About(r) : Mutually(p[1], p[2])}
    BY <1>3 DEF Complete
  <2>3. PICK q : q = [req[t] EXCEPT !.at = "pair", !.op = "complete", !.todo = C,
                                    !.held = C, !.fresh = FALSE]
    OBVIOUS
  <2>4. q.at = "pair" /\ \A x \in Threads : req'[x] = IF x = t THEN q ELSE req[x]
    BY <1>1, <2>1, <2>3 DEF Requests
  <2>5. ASSUME ~crashed', NEW c \in Couples, NEW a \in Albums, Mutually(c, a)'
        PROVE  <<c, a>> \in told' \cup unheard' \/ \E x \in Threads : NewsOf(req'[x], c, a)
    <3>1. Mutually(c, a) /\ ~crashed
      BY <1>1, <2>5 DEF Mutually, Published
    <3>2. NewsOf(req[t], c, a) => <<c, a>> \in told'
      BY <2>2, <3>1 DEF NewsOf, News, About
    <3> QED BY <1>1, <2>2, <2>4, <3>1, <3>2 DEF TellIInv, SomeoneTells
  <2>6. SomeoneTells'
    BY <2>5 DEF SomeoneTells, NewsOf, News
  <2>7. \A x \in Threads : OnlyPublishing(req[x])'
    BY <2>4 DEF TellIInv, OnlyPublishing
  <2> QED BY <2>6, <2>7 DEF TellIInv
<1> QED BY <1>2, <1>3

LEMMA OneShotTells ==
    ASSUME TellIInv, TypeOK', OneShot
    PROVE  TellIInv'
<1>1. ASSUME UNCHANGED <<req, told, unheard, crashed>>, \A r \in Ratings : Published(r)' => Published(r)
      PROVE  TellIInv'
  BY <1>1, NewsKept DEF TellIInv
<1>2. ASSUME NEW r \in Ratings, CreateRating(r) PROVE TellIInv'
  <2>1. \A x \in Ratings : Published(x)' => Published(x)
    BY <1>2, ConstantsAssumption DEF CreateRating, Published, TellIInv, TypeOK
  <2> QED BY <1>1, <1>2, <2>1 DEF CreateRating
<1>3. ASSUME NEW r \in Ratings, NEW s \in Scores, PatchRating(r, s) PROVE TellIInv'
  <2>1. \A x \in Ratings : Published(x)' => Published(x)
    BY <1>3 DEF PatchRating, Published, TellIInv, TypeOK
  <2> QED BY <1>1, <1>3, <2>1 DEF PatchRating
<1>4. ASSUME NEW c \in Couples, RequestFriend(c) PROVE TellIInv'
  BY <1>1, <1>4 DEF RequestFriend, Published
<1>5. ASSUME NEW c \in Couples, EndFriendship(c) PROVE TellIInv'
  <2>1. ASSUME NEW x \in Threads
        PROVE  /\ req'[x].op = req[x].op /\ req'[x].live = req[x].live
               /\ req'[x].rating = req[x].rating /\ req'[x].at = req[x].at
    <3>1. PICK H, F : req'[x] = [req[x] EXCEPT !.held = H, !.found = F]
      BY <1>5 DEF EndFriendship
    <3> QED BY <3>1 DEF TellIInv, TypeOK, Requests
  <2>2. \A x \in Threads : OnlyPublishing(req'[x]) /\ \A r : News(req[x], r) => News(req'[x], r)
    BY <2>1 DEF TellIInv, OnlyPublishing, News
  <2> QED BY <1>5, <2>2, NewsKept DEF EndFriendship, Published
<1> QED BY <1>2, <1>3, <1>4, <1>5 DEF OneShot

LEMMA TellInvariance == Spec => []TellIInv
<1>1. Init => TellIInv
  <2> SUFFICES ASSUME Init PROVE TellIInv
    OBVIOUS
  <2>1. \A t \in Threads : OnlyPublishing(req[t])
    BY DEF Init, Idle, Request, OnlyPublishing
  <2>2. \A c \in Couples, a \in Albums : ~Mutually(c, a)
    BY CoupleFacts, ConstantsAssumption DEF Init, Mutually, Published, Ratings
  <2> QED BY <2>1, <2>2, InitIInv DEF TellIInv, SomeoneTells, IInv
<1>2. TellIInv /\ TypeOK' /\ [Next]_vars => TellIInv'
  <2> SUFFICES ASSUME TellIInv, TypeOK', [Next]_vars PROVE TellIInv'
    OBVIOUS
  <2>1. ASSUME NEW t \in Threads, Fail(t) PROVE TellIInv'
    <3>1. OnlyPublishing(Idle)
      BY DEF Idle, Request, OnlyPublishing
    <3>2. \A x \in Threads : OnlyPublishing(req[x])'
      BY <2>1, <3>1 DEF Fail, Done, TellIInv, TypeOK, OnlyPublishing
    <3> QED BY <2>1, <3>2 DEF Fail, TellIInv, SomeoneTells
  <2>2. ASSUME NEW t \in Threads, Start(t) \/ Continue(t) PROVE TellIInv'
    BY <2>2, StartTells, PublishTells, OthersTell, DeleteTells, RebuildTells, InsertTells, CompleteTells
    DEF Continue
  <2>3. CASE UNCHANGED vars
    BY <2>3 DEF vars, TellIInv, SomeoneTells, Mutually, Published, NewsOf, News, OnlyPublishing
  <2> QED BY <2>1, <2>2, <2>3, OneShotTells DEF Next
<1> QED BY <1>1, <1>2, TypeCorrect, PTL DEF Spec

\* Whatever overlaps, for any users, albums, scores and threads: of two friends who
\* have both published an album one has told the invites so while both were, unless
\* the last publication of the two that could was ended by the exception of a rebuild.
THEOREM OneOfThem == Spec => []OneOfThemTells
<1>1. TellIInv => OneOfThemTells
  <2>1. ASSUME TellIInv, Settled, NEW t \in Threads, NEW c, NEW a PROVE ~NewsOf(req[t], c, a)
    BY <2>1 DEF TellIInv, OnlyPublishing, NewsOf, News, Settled, At
  <2> QED BY <2>1 DEF TellIInv, SomeoneTells, OneOfThemTells, Settled
<1> QED BY <1>1, TellInvariance, PTL
=============================================================================
