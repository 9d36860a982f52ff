-------------------------- MODULE FriendDashboard --------------------------
(***************************************************************************)
(* The shared dashboard of two friends: a table of the albums both have    *)
(* published, with both scores, which is wiped and derived again whenever  *)
(* a rating of either changes.                                             *)
(* Code: services/friend_dashboard.py, and the handlers that call it, in   *)
(* routers/ratings.py, routers/friendships.py and services/invite.py.      *)
(*                                                                         *)
(* As in ListenInvites, every SELECT and every commit is a step.  Here two *)
(* kinds of database lock matter as well.  The bulk DELETE of a rebuild is *)
(* executed at once: it locks the rows it finds until its transaction      *)
(* ends, and one that finds rows locked by another waits for it, and then  *)
(* deletes what is left of the rows it had found, not the new ones.  An    *)
(* INSERT waits while the row it collides with is being deleted.           *)
(***************************************************************************)
EXTENDS FiniteSets, Naturals

CONSTANTS
    Users,        \* the users, whose names are ordered
    NoUser,       \* the user of a thread that serves no request
    Albums,       \* the albums
    Scores,       \* the scores a rating can have
    Threads,      \* the pool's threads
    Ops,          \* the handlers that this instance exercises
    Faults        \* may a request die between two steps?

AllOps == {"create", "publish", "patch", "republish", "delete", "befriend", "unfriend"}

ASSUME ConstantsAssumption ==
    /\ Users \subseteq Nat
    /\ NoUser \notin Users
    /\ {"none", "draft"} \cap Scores = {}
    /\ Ops \subseteq AllOps
    /\ Faults \in BOOLEAN

VARIABLES
    friendship,  \* the friendships row of each couple, "none" when absent
    ratings,     \* the rating of each user and album: "none", "draft" or a published score
    entries,     \* the committed friend_dashboard_entries rows of each couple
    req,         \* the request each thread serves
    edited,      \* history: the published ratings patched and not republished since
    told,        \* history: the couples and albums whose invites a publication has seen to
    unheard,     \* history: those that the last publication to do so has failed, by an exception
    crashed,     \* history: a request died
    cut          \* history: the couples and albums that a rebuild cut short left out

vars == <<friendship, ratings, entries, req, edited, told, unheard, crashed, cut>>

----------------------------------------------------------------------------
(* Rows *)

Couples == {c \in Users \X Users : c[1] < c[2]}
Has(c, u) == u = c[1] \/ u = c[2]
FriendshipStatus == {"none", "pending", "accepted"}

Ratings == Users \X Albums
Rating == {"none", "draft"} \cup Scores
Published(r) == ratings[r] \in Scores

\* A dashboard entry: the album, and the scores of the couple's two users.
Entries == Albums \X Scores \X Scores
AlbumsOf(E) == {e[1] : e \in E}

\* A published rating, as a SELECT returns it: the user, the album, the score.
Rows == Users \X Albums \X Scores
PublishedBy(u) == {<<u, a, ratings[<<u, a>>]>> : a \in {x \in Albums : Published(<<u, x>>)}}

\* The entries of couple c that follow from a set of published ratings.
Mutual(c, R) ==
    {e \in Entries : <<c[1], e[1], e[2]>> \in R /\ <<c[2], e[1], e[3]>> \in R}
Derived(c) ==
    IF friendship[c] = "accepted" THEN Mutual(c, PublishedBy(c[1]) \cup PublishedBy(c[2])) ELSE {}

\* Both of a couple have published album a; the couples and albums that a rating is part of.
Mutually(c, a) == Published(<<c[1], a>>) /\ Published(<<c[2], a>>)
About(r) == {p \in Couples \X Albums : r = <<p[1][1], p[2]>> \/ r = <<p[1][2], p[2]>>}

----------------------------------------------------------------------------
(* Requests *)

Stages == {"idle", "publish", "republish", "delete", "accept", "friends",
           "pair", "wipe", "read_a", "read_b", "insert", "complete"}

(***************************************************************************)
(* at      what the handler does next                                      *)
(* op      the handler                                                     *)
(* rating  the rating it is about, <<>> for a friendship                   *)
(* live    its row has been loaded and is still there                      *)
(* todo    the friendships it has yet to rebuild                           *)
(* held    those whose row is still there                                  *)
(* fresh   the friendships were read in the current transaction            *)
(* pair    the friendship it rebuilds, <<>> between two                    *)
(* active  that friendship was read accepted                               *)
(* found   the entries its DELETE has found                                *)
(* doomed  those it has deleted, and locked, in its open transaction       *)
(* read    the published ratings it has read                               *)
(***************************************************************************)
Requests == [at : Stages, op : AllOps \cup {"idle", "complete"}, rating : Ratings \cup {<<>>},
             live : BOOLEAN, todo : SUBSET Couples, held : SUBSET Couples,
             fresh : BOOLEAN, pair : Couples \cup {<<>>}, active : BOOLEAN,
             found : SUBSET Entries, doomed : SUBSET Entries, read : SUBSET Rows]

Request(op, stage, r, C) ==
    [at |-> stage, op |-> op, rating |-> r, live |-> TRUE, todo |-> C, held |-> C,
     fresh |-> TRUE, pair |-> <<>>, active |-> FALSE, found |-> {}, doomed |-> {}, read |-> {}]
Idle == [Request("idle", "idle", <<>>, {}) EXCEPT !.live = FALSE]

At(t, stage) == req[t].at = stage
Serve(t, op, r) == op \in Ops /\ At(t, "idle") /\ req' = [req EXCEPT ![t] = r]
Done(t) == req' = [req EXCEPT ![t] = Idle]

\* Entries of c that the open transaction of a request other than t has deleted.
LockedBy(t, c) == UNION {req[x].doomed : x \in {y \in Threads \ {t} : req[y].pair = c}}

\* Request t has published r, and has yet to look at the invites.
Telling(t, r) ==
    req[t].op = "publish" /\ ~At(t, "publish") /\ req[t].live /\ req[t].rating = r
ToldBy(t, c, a) == Telling(t, <<c[1], a>>) \/ Telling(t, <<c[2], a>>)

\* What nobody will see to any more when request t ends by an exception.
Abandoned(t) ==
    {p \in Couples \X Albums :
        /\ Mutually(p[1], p[2]) /\ ToldBy(t, p[1], p[2])
        /\ \A x \in Threads \ {t} : ~ToldBy(x, p[1], p[2])}

Init ==
    /\ friendship \in [Couples -> FriendshipStatus]
    /\ ratings = [r \in Ratings |-> "none"]
    /\ entries = [c \in Couples |-> {}]
    /\ req = [t \in Threads |-> Idle]
    /\ edited = {}
    /\ told = {}
    /\ unheard = {}
    /\ crashed = FALSE
    /\ cut = {}

----------------------------------------------------------------------------
(* The handlers that change a rating *)

CreateRating(r) ==
    /\ "create" \in Ops /\ ratings[r] = "none"
    /\ ratings' = [ratings EXCEPT ![r] = "draft"]
    /\ UNCHANGED <<friendship, entries, req, edited, told, unheard, crashed, cut>>

\* A published rating can be edited in place; no dashboard is rebuilt until it
\* is republished.
PatchRating(r, s) ==
    /\ "patch" \in Ops /\ Published(r) /\ ratings[r] # s
    /\ ratings' = [ratings EXCEPT ![r] = s]
    /\ edited' = edited \cup {r}
    /\ UNCHANGED <<friendship, entries, req, told, unheard, crashed, cut>>

StartPublish(t, r) ==
    /\ ratings[r] = "draft" /\ Serve(t, "publish", Request("publish", "publish", r, {}))
    /\ UNCHANGED <<friendship, ratings, entries, edited, told, unheard, crashed, cut>>

\* The score is the one the draft has by now.  A second tab may have published
\* it already, which nothing notices: the UPDATE is by primary key.
CommitPublish(t) ==
    LET r == req[t].rating IN
    /\ At(t, "publish")
    /\ \/ /\ req[t].live
          /\ \E s \in Scores :
               /\ Published(r) => s = ratings[r]
               /\ ratings' = [ratings EXCEPT ![r] = s]
          /\ req' = [req EXCEPT ![t].at = "friends"]
          /\ edited' = edited \ {r}
       \/ ~req[t].live /\ Done(t) /\ UNCHANGED <<ratings, edited>>
    /\ UNCHANGED <<friendship, entries, told, unheard, crashed, cut>>

StartRepublish(t, r) ==
    /\ Published(r) /\ Serve(t, "republish", Request("republish", "republish", r, {}))
    /\ UNCHANGED <<friendship, ratings, entries, edited, told, unheard, crashed, cut>>

\* Mutant: republishing only stamps the date.
CommitRepublishOnly(t) ==
    /\ At(t, "republish")
    /\ Done(t)
    /\ edited' = IF req[t].live THEN edited \ {req[t].rating} ELSE edited
    /\ UNCHANGED <<friendship, ratings, entries, told, unheard, crashed, cut>>

CommitRepublish(t) ==
    /\ At(t, "republish")
    /\ \/ /\ req[t].live
          /\ req' = [req EXCEPT ![t].at = "friends"]
          /\ edited' = edited \ {req[t].rating}
       \/ ~req[t].live /\ Done(t) /\ UNCHANGED edited
    /\ UNCHANGED <<friendship, ratings, entries, told, unheard, crashed, cut>>

\* "active" keeps was_published, read here and used after the commit.  Removing
\* a draft from Listen Later is the same handler with a draft.
StartDelete(t, r) ==
    /\ ratings[r] # "none"
    /\ Serve(t, "delete", [Request("delete", "delete", r, {}) EXCEPT !.active = Published(r)])
    /\ UNCHANGED <<friendship, ratings, entries, edited, told, unheard, crashed, cut>>

AfterDelete(t) == [req[t] EXCEPT !.at = "friends"]
\* What is left to do once the row is gone (a DELETE of a row already gone is
\* only a warning).
CommitDelete(t) ==
    LET r == req[t].rating IN
    /\ At(t, "delete")
    /\ IF req[t].live
       THEN /\ ratings' = [ratings EXCEPT ![r] = "none"]
            /\ edited' = edited \ {r}
            /\ told' = told \ About(r)
            /\ unheard' = unheard \ About(r)
            /\ req' = [x \in Threads |->
                         IF x = t THEN IF req[t].active THEN AfterDelete(t) ELSE Idle
                         ELSE [req[x] EXCEPT !.live = @ /\ req[x].rating # r]]
       ELSE /\ req' = [req EXCEPT ![t] = IF @.active THEN AfterDelete(t) ELSE Idle]
            /\ UNCHANGED <<ratings, edited, told, unheard>>
    /\ UNCHANGED <<friendship, entries, crashed, cut>>

----------------------------------------------------------------------------
(* Friendships *)

RequestFriend(c) ==
    /\ "befriend" \in Ops /\ friendship[c] = "none"
    /\ friendship' = [friendship EXCEPT ![c] = "pending"]
    /\ UNCHANGED <<ratings, entries, req, edited, told, unheard, crashed, cut>>

StartAccept(t, c) ==
    /\ friendship[c] = "pending" /\ Serve(t, "befriend", Request("befriend", "accept", <<>>, {c}))
    /\ UNCHANGED <<friendship, ratings, entries, edited, told, unheard, crashed, cut>>

\* The UPDATE fails when the row is gone.
CommitAccept(t) ==
    /\ At(t, "accept")
    /\ IF req[t].held # {}
       THEN /\ friendship' = [c \in Couples |-> IF c \in req[t].held THEN "accepted" ELSE friendship[c]]
            /\ req' = [req EXCEPT ![t].at = "pair"]
       ELSE Done(t) /\ UNCHANGED friendship
    /\ UNCHANGED <<ratings, entries, edited, told, unheard, crashed, cut>>

\* decline_friendship or delete_friendship.  Deleting the entries with it waits
\* for the rebuilds that have deleted some of them.
EndFriendship(c) ==
    /\ "unfriend" \in Ops /\ friendship[c] # "none"
    /\ \A t \in Threads : req[t].pair = c => req[t].doomed = {}
    /\ friendship' = [friendship EXCEPT ![c] = "none"]
    /\ entries' = [entries EXCEPT ![c] = {}]
    /\ req' = [t \in Threads |->
                 [req[t] EXCEPT !.held = @ \ {c}, !.found = IF req[t].pair = c THEN {} ELSE @]]
    /\ UNCHANGED <<ratings, edited, told, unheard, crashed, cut>>

----------------------------------------------------------------------------
(* rebuild_for_user: the accepted friendships of the user, then each of them *)

FriendshipsAsA(u) == {c \in Couples : u = c[1] /\ friendship[c] = "accepted"}   \* mutant: one column
FriendshipsOf(u) == {c \in Couples : Has(c, u) /\ friendship[c] = "accepted"}

ListFriends(t) ==
    LET friends == FriendshipsOf(req[t].rating[1]) IN
    /\ At(t, "friends")
    /\ req' = [req EXCEPT ![t].at = "pair", ![t].todo = friends, ![t].held = friends,
                          ![t].fresh = TRUE]
    /\ UNCHANGED <<friendship, ratings, entries, edited, told, unheard, crashed, cut>>

Rest(t, c) == req[t].todo \ {c}

\* The entries that carry the id of the friendship a request has listed: when that
\* is gone, those of a friendship made anew are not among them.
EntriesOf(t, c) == IF c \in req[t].held THEN entries[c] ELSE {}

\* The next friendship, read again unless it was read in this transaction.  A
\* friendship that is gone ends the loop of rebuild_for_user with an exception,
\* and only this rebuild when it comes from a completed invite.
NextPair(t) ==
    /\ At(t, "pair")
    /\ \E c \in req[t].todo :
         \/ /\ req[t].fresh \/ c \in req[t].held
            /\ req' = [req EXCEPT ![t].at = "wipe", ![t].todo = Rest(t, c), ![t].pair = c,
                                  ![t].active = req[t].fresh \/ friendship[c] = "accepted",
                                  ![t].found = EntriesOf(t, c)]
            /\ UNCHANGED <<unheard, cut>>
         \/ /\ ~req[t].fresh /\ c \notin req[t].held
            /\ IF req[t].op = "complete"
               THEN req' = [req EXCEPT ![t].todo = Rest(t, c)] /\ UNCHANGED <<unheard, cut>>
               ELSE /\ Done(t)
                    /\ unheard' = unheard \cup Abandoned(t)
                    /\ cut' = cut \cup Rest(t, c) \X Albums
    /\ UNCHANGED <<friendship, ratings, entries, edited, told, crashed>>

TellsFirstTime(t) == req[t].op = "publish" /\ req[t].fresh   \* mutant: nothing follows a rebuild
TellsPartners(t) == req[t].op = "publish"

EndPairs(t) ==
    /\ At(t, "pair") /\ req[t].todo = {}
    /\ IF TellsPartners(t) THEN req' = [req EXCEPT ![t].at = "complete"] ELSE Done(t)
    /\ UNCHANGED <<friendship, ratings, entries, edited, told, unheard, crashed, cut>>

----------------------------------------------------------------------------
(* rebuild_for_pair *)

\* Request t commits E as the entries of its friendship, and goes on to the next.
\* Nobody finds the rows it has deleted any more.
CommitEntries(t, E) ==
    LET c == req[t].pair
        gone == req[t].doomed
    IN  /\ entries' = [entries EXCEPT ![c] = E]
        /\ req' = [x \in Threads |->
                     IF x = t THEN [req[t] EXCEPT !.at = "pair", !.fresh = FALSE, !.pair = <<>>,
                                                  !.active = FALSE, !.doomed = {}, !.read = {}]
                     ELSE IF req[x].pair = c THEN [req[x] EXCEPT !.found = @ \ gone]
                     ELSE req[x]]

\* The DELETE, once no other transaction locks what it has found.
Wipe(t) ==
    /\ At(t, "wipe")
    /\ req[t].found \cap LockedBy(t, req[t].pair) = {}
    /\ req' = [req EXCEPT ![t].at = IF req[t].active THEN "read_a" ELSE "insert",
                          ![t].doomed = req[t].found, ![t].found = {}]
    /\ UNCHANGED <<friendship, ratings, entries, edited, told, unheard, crashed, cut>>

ReadA(t) ==
    /\ At(t, "read_a")
    /\ req' = [req EXCEPT ![t].at = "read_b", ![t].read = PublishedBy(req[t].pair[1])]
    /\ UNCHANGED <<friendship, ratings, entries, edited, told, unheard, crashed, cut>>

ReadB(t) ==
    /\ At(t, "read_b")
    /\ req' = [req EXCEPT ![t].at = "insert", ![t].read = @ \cup PublishedBy(req[t].pair[2])]
    /\ UNCHANGED <<friendship, ratings, entries, edited, told, unheard, crashed, cut>>

FriendshipUnchecked(t) == TRUE   \* mutant: no foreign key
\* The foreign key on the friendship.
FriendshipThere(t) == req[t].pair \in req[t].held

\* The INSERTs and the commit, or the constraint that fails and the rollback,
\* which leaves out the new albums that are not there yet and the rest of the loop.
Insert(t) ==
    LET c == req[t].pair
        new == Mutual(c, req[t].read)
        clash == {e \in EntriesOf(t, c) \ req[t].doomed : e[1] \in AlbumsOf(new)}
        lost == IF clash = {} THEN {} ELSE AlbumsOf(new) \ AlbumsOf(clash)
    IN  /\ At(t, "insert")
        /\ clash \cap LockedBy(t, c) = {}
        /\ IF clash = {} /\ (new # {} => FriendshipThere(t))
           THEN CommitEntries(t, (entries[c] \ req[t].doomed) \cup new) /\ UNCHANGED <<unheard, cut>>
           ELSE /\ Done(t) /\ UNCHANGED entries
                /\ unheard' = unheard \cup Abandoned(t)
                /\ cut' = cut \cup (req[t].todo \X Albums) \cup ({c} \X lost)
        /\ UNCHANGED <<friendship, ratings, edited, told, crashed>>

----------------------------------------------------------------------------
(* maybe_complete_invites_for_rating, at the end of publish_rating only: the *)
(* partners are told, and the pairs whose invite it completes (any of the    *)
(* user's friendships, here) are rebuilt again.                              *)
Complete(t) ==
    LET r == req[t].rating IN
    /\ At(t, "complete")
    /\ \/ /\ req[t].live
          /\ told' = told \cup {p \in About(r) : Mutually(p[1], p[2])}
          /\ \E C \in SUBSET {c \in Couples : Has(c, r[1]) /\ friendship[c] # "none"} :
               req' = [req EXCEPT ![t].at = "pair", ![t].op = "complete", ![t].todo = C,
                                  ![t].held = C, ![t].fresh = FALSE]
       \/ ~req[t].live /\ Done(t) /\ UNCHANGED told
    /\ UNCHANGED <<friendship, ratings, entries, edited, unheard, crashed, cut>>

\* A request dies: a broken connection, a crash.  What it has committed stays.
Fail(t) ==
    /\ Faults /\ ~At(t, "idle")
    /\ Done(t)
    /\ crashed' = TRUE
    /\ UNCHANGED <<friendship, ratings, entries, edited, told, unheard, cut>>

----------------------------------------------------------------------------
Start(t) ==
    \/ \E r \in Ratings : StartPublish(t, r) \/ StartRepublish(t, r) \/ StartDelete(t, r)
    \/ \E c \in Couples : StartAccept(t, c)

Continue(t) ==
    \/ CommitPublish(t) \/ CommitRepublish(t) \/ CommitDelete(t) \/ CommitAccept(t)
    \/ ListFriends(t) \/ NextPair(t) \/ EndPairs(t)
    \/ Wipe(t) \/ ReadA(t) \/ ReadB(t) \/ Insert(t) \/ Complete(t)

\* Handlers of which only the commit matters here; they need a thread as well.
OneShot ==
    /\ \E t \in Threads : At(t, "idle")
    /\ \/ \E r \in Ratings : CreateRating(r) \/ \E s \in Scores : PatchRating(r, s)
       \/ \E c \in Couples : RequestFriend(c) \/ EndFriendship(c)

Next ==
    \/ \E t \in Threads : Start(t) \/ Continue(t) \/ Fail(t)
    \/ OneShot

Spec == Init /\ [][Next]_vars

----------------------------------------------------------------------------
TypeOK ==
    /\ friendship \in [Couples -> FriendshipStatus]
    /\ ratings \in [Ratings -> Rating]
    /\ entries \in [Couples -> SUBSET Entries]
    /\ req \in [Threads -> Requests]
    /\ edited \subseteq Ratings
    /\ told \subseteq Couples \X Albums
    /\ unheard \subseteq Couples \X Albums
    /\ crashed \in BOOLEAN
    /\ cut \subseteq Couples \X Albums

\* Every request has been served, and none has died.
Settled == ~crashed /\ \A t \in Threads : At(t, "idle")

\* What is derived is right: once no request is in flight, a couple's dashboard
\* holds what rebuild_for_pair's docstring says, "the intersection of both
\* users' currently-published ratings", and nothing for those who are not
\* friends.  The scores of a rating edited and not republished yet may differ.
ViewIsCurrent ==
    Settled => \A c \in Couples :
        /\ AlbumsOf(entries[c]) = AlbumsOf(Derived(c))
        /\ \A e \in entries[c] \ Derived(c) : <<c[1], e[1]>> \in edited \/ <<c[2], e[1]>> \in edited

\* A dashboard outlives no friendship: a rebuild that began before the two were
\* separated (or separated and befriended anew) leaves nothing behind.
EntriesOnlyForFriends == \A c \in Couples : entries[c] # {} => friendship[c] = "accepted"

\* An album that both friends have published is on their dashboard once the
\* requests have ended, whatever order the two published in and whatever collided,
\* unless a rebuild that was due ended with an exception: because another friend
\* had left, or because a different album of the two was inserted twice.
MutualAlbumShows ==
    Settled => \A c \in Couples : \A a \in AlbumsOf(Derived(c)) \ AlbumsOf(entries[c]) : <<c, a>> \in cut

\* Of two friends who have both published an album, one at least has told the
\* invites so ("this publish completes the shared listen") when both were
\* published, whichever of their requests overlap and whichever rebuild is rolled
\* back.  publish_rating does so only after the rebuilds (ratings.py:164): the
\* exception is a rebuild that failed in the last publication there was to tell.
OneOfThemTells ==
    Settled => \A c \in Couples, a \in Albums : Mutually(c, a) => <<c, a>> \in told \cup unheard
=============================================================================
