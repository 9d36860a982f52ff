---------------------------- MODULE SocialPages ----------------------------
(***************************************************************************)
(* The pages on which the user deals with friends over one album: the      *)
(* album page with its invite modal, Listen & Rate, the friends page, a    *)
(* profile with the comparison it shows, and the details of a published    *)
(* rating and of a compared pair of them.  Each shows what its             *)
(* last requests brought and offers the buttons that fit; a button sends a *)
(* request, whose handler then updates the copy or loads part of it again. *)
(* Code: pages/AlbumInfoPage.tsx, ListenLaterPage.tsx, FriendsPage.tsx,    *)
(* ProfilePage.tsx, FriendDashboardPage.tsx, AlbumDetailPage.tsx,          *)
(* FriendAlbumDetailPage.tsx, and what the routers of invites, friendships *)
(* and ratings answer them (each request is served at once     *)
(* here: ListenInvites has its steps).                                     *)
(*                                                                         *)
(* A page that is left keeps nothing but the comparison of a profile, so   *)
(* one page is opened here, on whatever the server has.  The requests a    *)
(* load sends together are served together.                                *)
(***************************************************************************)
EXTENDS Integers, FiniteSets

CONSTANTS
    Others,        \* the other users
    FriendsOnly,   \* those who show their dashboard to friends only
    MaxId,         \* bound: the ids of the rows of a pair
    MaxFetches,    \* bound: the comparisons that are being loaded at once
    MaxTrouble,    \* bound: what others do, and requests that are lost
    Quiet          \* bound: the pages on which there is none of either

Pages == {"album", "later", "friends", "detail", "own", "pair"}

ASSUME PagesAssumption ==
    /\ IsFiniteSet(Others) /\ FriendsOnly \subseteq Others
    /\ Pages \cap Others = {} /\ "rating" \notin Others   \* what they are told from
    /\ MaxId \in Nat /\ MaxTrouble \in Nat /\ MaxFetches \in Nat

VARIABLES
    db,         \* what the server has: friendships, invites, ratings
    page,       \* the page that is open: one of Pages ("own" is my profile), or the profile of another
    copy,       \* what it has loaded
    compare,    \* the comparison a profile shows, or that the detail is of
    dash,       \* the dashboard of that comparison, once it is mounted
    load,       \* the load of the page under way
    row,        \* the handler of each row of buttons
    trouble,    \* what others have done, and requests that were lost
    stale       \* history: whether the server has changed since what the copy shows was read

pageVars == <<db, page, copy, compare, dash, load, row, trouble, stale>>

----------------------------------------------------------------------------
(* The server *)

Standing == {"none", "sent", "received", "friends"}
Inviting == {"none", "outgoing", "incoming", "accepted", "completed"}
Row(is, id) == [is |-> is, id |-> id]
NoRow == Row("none", 0)

\* An invite goes with the friendship, and an accepted one with either draft.
Consistent(d) ==
    \A o \in Others :
        /\ d.invite[o].is # "none" => d.friendship[o].is = "friends"
        /\ d.invite[o].is = "accepted" => d.mine # "none"
        /\ d.invite[o].is = "accepted" => ~(d.mine = "published" /\ o \in d.published)

Databases ==
    {d \in [friendship : [Others -> {Row(s, 1) : s \in Standing}],
            invite : [Others -> {Row(s, 1) : s \in Inviting}],
            mine : {"none", "draft", "published"},
            published : SUBSET Others] : Consistent(d)}

Friends(d, o) == d.friendship[o].is = "friends"

FriendActs == {"ask", "accept", "decline", "delete"}
InviteActs == {"invite", "accept_invite", "decline_invite", "cancel_invite"}

\* What is asked for, with whom and by which id, is refused otherwise.
FriendshipAllows(d, act, o, id) ==
    \/ act = "ask" /\ d.friendship[o].is = "none"
    \/ act \in {"accept", "decline"} /\ d.friendship[o] = Row("received", id)
    \/ act = "delete" /\ d.friendship[o].is # "none" /\ d.friendship[o].id = id

InviteAllows(d, act, o, id) ==
    \/ act = "invite" /\ Friends(d, o) /\ o \notin d.published /\ d.invite[o].is = "none"
    \/ act \in {"accept_invite", "decline_invite"} /\ d.invite[o] = Row("incoming", id)
    \/ act = "cancel_invite" /\ d.invite[o] = Row("outgoing", id)

RatingAllows(d, act) ==
    \/ act = "add" /\ d.mine = "none"
    \/ act = "remove" /\ d.mine = "draft"
    \/ act = "delete_rating" /\ d.mine # "none"

\* The comparisons: with Spotify alone, live, or of a friendship, by its id.
Solo == <<"solo">>
OfUser(o) == <<"user", o>>
OfFriendship(o, id) == <<"friendship", o, id>>

MayView(d, o) == Friends(d, o) \/ o \notin FriendsOnly

MayCompare(d, k) ==
    \/ k[1] = "user" /\ MayView(d, k[2])
    \/ k[1] = "friendship" /\ d.friendship[k[2]] = Row("friends", k[3])

\* The album is on it once both have published a rating of it.
FetchComparison(d, k) ==
    IF ~MayCompare(d, k) THEN "refused"
    ELSE IF d.mine = "published" /\ k[2] \in d.published THEN "entry" ELSE "empty"

\* What is only opened.
Views == {"open_pair", "open_compare", "open_solo", "compare"}
ViewAllows(d, act, o, id) ==
    \/ act = "open_pair" /\ FetchComparison(d, OfFriendship(o, id)) = "entry"
    \/ act = "open_compare" /\ FetchComparison(d, OfUser(o)) = "entry"
    \/ act = "open_solo" /\ o \in d.published /\ Friends(d, o)
    \/ act = "compare" /\ MayCompare(d, OfFriendship(o, id))

Allows(d, a) ==
    \/ a.act \in Views /\ ViewAllows(d, a.act, a.with, a.id)
    \/ a.act \in FriendActs /\ FriendshipAllows(d, a.act, a.with, a.id)
    \/ a.act \in InviteActs /\ InviteAllows(d, a.act, a.with, a.id)
    \/ RatingAllows(d, a.act)

\* A row that is made again has another id.
Remade(r, is) == Row(is, r.id + 1)
Gone(r) == [r EXCEPT !.is = "none"]

AfterFriendship(d, act, o) ==
    CASE act = "ask" -> [d EXCEPT !.friendship[o] = Remade(@, "sent")]
      [] act = "accept" -> [d EXCEPT !.friendship[o].is = "friends"]
      [] OTHER -> [d EXCEPT !.friendship[o] = Gone(@), !.invite[o] = Gone(@)]

AfterInvite(d, act, o) ==
    CASE act = "invite" -> [d EXCEPT !.invite[o] = Remade(@, "outgoing")]
      [] act = "accept_invite" ->
            [d EXCEPT !.invite[o].is = "accepted", !.mine = IF @ = "none" THEN "draft" ELSE @]
      [] OTHER -> [d EXCEPT !.invite[o] = Gone(@)]

\* Without a rating of mine there is no accepted invite.
AfterRating(d, act) ==
    IF act = "add" THEN [d EXCEPT !.mine = "draft"]
    ELSE [d EXCEPT !.mine = "none",
                   !.invite = [o \in Others |-> IF @[o].is = "accepted" THEN Gone(@[o]) ELSE @[o]]]

After(d, a) ==
    CASE a.act \in FriendActs -> AfterFriendship(d, a.act, a.with)
      [] a.act \in InviteActs -> AfterInvite(d, a.act, a.with)
      [] OTHER -> AfterRating(d, a.act)

\* What another does: requests, answers, invites, publishes, deletes a rating.
ByAnother(d, o) ==
    LET f == d.friendship[o]
        i == d.invite[o] IN
    UNION {
      IF f.is = "none" THEN {[d EXCEPT !.friendship[o] = Remade(@, "received")]} ELSE {},
      IF f.is = "sent" THEN {[d EXCEPT !.friendship[o].is = "friends"]} ELSE {},
      IF f.is # "none" THEN {AfterFriendship(d, "delete", o)} ELSE {},
      IF f.is = "friends" /\ i.is = "none" /\ d.mine # "published"
          THEN {[d EXCEPT !.invite[o] = Remade(@, "incoming")]} ELSE {},
      IF i.is = "outgoing"
          THEN {[AfterInvite(d, "accept_invite", o) EXCEPT !.published = @], AfterInvite(d, "decline_invite", o)}
          ELSE {},
      IF i.is = "incoming" THEN {AfterInvite(d, "cancel_invite", o)} ELSE {},
      IF o \notin d.published
          THEN {[d EXCEPT !.published = @ \cup {o},
                          !.invite[o].is = IF @ = "accepted" /\ d.mine = "published" THEN "completed" ELSE @]}
          ELSE {[d EXCEPT !.published = @ \ {o},
                          !.invite[o] = IF @.is = "accepted" THEN Gone(@) ELSE @]}}

----------------------------------------------------------------------------
(* What the endpoints tell *)

Pending(r) == IF r.is \in {"incoming", "outgoing"} THEN r ELSE NoRow
ListMyInvites(d) == [o \in Others |-> Pending(d.invite[o])]

\* Only what I have a draft of is listed, with those who listen with me.
GetListenLater(d) ==
    [there |-> d.mine = "draft",
     with |-> {o \in Others : d.mine = "draft" /\ d.invite[o].is = "accepted"}]

GetAlbumFriendRatings(d) == {o \in d.published : Friends(d, o)}

\* All of it; each page uses its own part.
Snapshot(d) ==
    [friendships |-> d.friendship,
     invites |-> ListMyInvites(d),
     later |-> GetListenLater(d),
     rated |-> GetAlbumFriendRatings(d),
     rating |-> d.mine,
     compared |-> FetchComparison(d, compare),
     viewable |-> {o \in Others : MayView(d, o)}]

NoInvites == [o \in Others |-> NoRow]
NothingLater == [there |-> FALSE, with |-> {}]
NoFriendships == [o \in Others |-> NoRow]

Empty ==
    [friendships |-> NoFriendships, invites |-> NoInvites, later |-> NothingLater,
     rated |-> {}, rating |-> "none", compared |-> "none", viewable |-> {}]

----------------------------------------------------------------------------
(* The pages *)

OnProfile == page \in Others
Comparing == OnProfile \/ page = "own"

\* What a page does with what its load brought.
LoadAlbum(s) == [s EXCEPT !.viewable = {}, !.compared = "none"]
LoadLater(s) == [Empty EXCEPT !.invites = s.invites, !.later = s.later, !.rating = s.rating]
LoadFriends(s) == [Empty EXCEPT !.friendships = s.friendships]
LoadProfile(s) ==
    [Empty EXCEPT !.friendships = [o \in Others |-> IF o = page THEN s.friendships[o] ELSE NoRow],
                  !.viewable = s.viewable \cap {page}]
LoadDetail(s) == [Empty EXCEPT !.rating = s.rating]
LoadPair(s) == [Empty EXCEPT !.rating = IF s.compared = "entry" THEN "published" ELSE "none"]

Loaded(s) ==
    CASE page = "album" -> LoadAlbum(s)
      [] page = "later" -> LoadLater(s)
      [] page \in {"friends", "own"} -> LoadFriends(s)
      [] page = "detail" -> LoadDetail(s)
      [] page = "pair" -> LoadPair(s)
      [] OTHER -> LoadProfile(s)

\* The friendships alone: the solo dashboard of a profile is not asked for again.
LoadFriendships(s) == IF OnProfile THEN [LoadProfile(s) EXCEPT !.viewable = {}] ELSE LoadFriends(s)
ReloadFriendships(c, s) == [c EXCEPT !.friendships = s.friendships]

\* What a handler loads again when its request has been answered.
ReloadInviteState(c, s) == [c EXCEPT !.invites = s.invites, !.later = s.later]
ReloadCompleted(c, s) == [c EXCEPT !.rating = IF s.rating = "published" THEN @ ELSE "none"]

Reloaded(a, c, s) ==
    CASE page \in {"album", "later"} /\ a.act # "delete_rating" -> ReloadInviteState(c, s)
      [] page = "later" /\ a.act = "delete_rating" -> ReloadCompleted(c, s)
      [] OTHER -> ReloadFriendships(c, s)

Reads(a, s) ==
    CASE page \in {"album", "later"} /\ a.act # "delete_rating" ->
            [Empty EXCEPT !.invites = s.invites, !.later = s.later]
      [] page = "later" /\ a.act = "delete_rating" -> LoadDetail(s)
      [] OTHER -> LoadFriendships(s)

\* When that fails: the album page takes the lists for empty, a profile its
\* friendships; Listen & Rate gives way to an alert, the friends page adds one.
ReloadFailed(c) ==
    CASE page = "album" -> [c EXCEPT !.invites = NoInvites, !.later = NothingLater]
      [] page = "later" -> Empty
      [] page = "friends" -> c
      [] OTHER -> [c EXCEPT !.friendships = NoFriendships]

----------------------------------------------------------------------------
(* The buttons *)

Ask(act, o, id) == [act |-> act, with |-> o, id |-> id]
OnRating(act) == Ask(act, "rating", 0)

HasActiveInvite(c) == c.later.with # {}

\* The icon bar: Listen Later, and Remove once it is published.
IconActions(c) ==
    {a \in {OnRating("add")} : c.rating = "none" /\ ~HasActiveInvite(c)}
    \cup {a \in {OnRating("delete_rating")} : c.rating = "published"}

\* The friends that are not greyed out.
NotInvitedMe(c, o) == c.invites[o].is # "outgoing"   \* mutant: who invited me is not looked at
NotInvited(c, o) == c.invites[o] = NoRow
InviteModal(c) ==
    {Ask("invite", o, 0) : o \in {x \in Others : c.friendships[x].is = "friends" /\ x \notin c.rated
                                                 /\ x \notin c.later.with /\ NotInvited(c, x)}}

\* A friend's rating, beside the user's own once that is published.
FriendRatingsPicker(c) ==
    {IF c.rating = "published" THEN Ask("open_pair", o, c.friendships[o].id)
     ELSE Ask("open_solo", o, 0) : o \in c.rated}

SidebarInvite(c) ==
    UNION {CASE c.invites[o].is = "incoming" -> {Ask("accept_invite", o, c.invites[o].id),
                                                  Ask("decline_invite", o, c.invites[o].id)}
             [] c.invites[o].is = "outgoing" -> {Ask("cancel_invite", o, c.invites[o].id)}
             [] OTHER -> {} : o \in Others}

EntryCard(c) ==
    {a \in {OnRating("remove")} : c.later.there}
    \cup {a \in {OnRating("delete_rating")} : c.rating = "published"}

\* Rows of requests and friends, results of a search, and the button of a profile.
FriendshipButton(c, o) ==
    LET f == c.friendships[o] IN
    CASE f.is = "none" -> {Ask("ask", o, 0)}
      [] f.is = "received" -> {Ask("accept", o, f.id), Ask("decline", o, f.id)}
      [] OTHER -> {Ask("delete", o, f.id)}

\* On my profile: with which of my friends to compare.
FriendCombobox(c) == {Ask("compare", o, c.friendships[o].id) : o \in {x \in Others : c.friendships[x].is = "friends"}}

RemoveRating(c) == {a \in {OnRating("delete_rating")} : c.rating = "published"}

\* The album in the dashboard of a comparison: who it is of is told by what has
\* been loaded, or by the source that is asked for when that is a user.
AlbumDetailPath ==
    {IF dash.shown[1] = "friendship" THEN Ask("open_pair", dash.shown[2], dash.shown[3])
     ELSE Ask("open_compare", compare[2], 0) : k \in {x \in {dash.shown} : x # Solo}}

Offers ==
    CASE page = "album" -> IconActions(copy) \cup InviteModal(copy) \cup FriendRatingsPicker(copy)
      [] page = "later" -> SidebarInvite(copy) \cup EntryCard(copy)
      [] page = "friends" -> UNION {FriendshipButton(copy, o) : o \in Others}
      [] page \in {"detail", "pair"} -> RemoveRating(copy)
      [] page = "own" -> FriendCombobox(copy) \cup AlbumDetailPath
      [] OTHER -> FriendshipButton(copy, page) \cup AlbumDetailPath

IsCurrent(c, k) == k[1] # "friendship" \/ c.friendships[k[2]] = Row("friends", k[3])

\* A restored or kept comparison that does not fit the friendship is dropped.
Reconcile(c) == IF Comparing /\ ~IsCurrent(c, compare) THEN Solo ELSE compare

\* FriendDashboard, mounted with a source: shown is the comparison whose entries
\* it has, if the album is one of them.  An answer is shown whenever it comes,
\* also when another has been asked for since; fetches of one source are one.
NoDash == [of |-> Solo, shown |-> Solo, fresh |-> TRUE, under |-> {}]
Fetch(k) == [of |-> k, at |-> "sent", is |-> "none", fresh |-> FALSE]

Mounted(k) ==
    IF ~Comparing \/ k = Solo THEN NoDash
    ELSE IF k = dash.of THEN dash
    ELSE [NoDash EXCEPT !.of = k, !.under = dash.under \cup {Fetch(k)}]

----------------------------------------------------------------------------
Rows == Others \cup {"rating"}
NoAsk == OnRating("none")
Idle == [at |-> "idle", ask |-> NoAsk, data |-> Empty, fresh |-> FALSE]

PagesInit ==
    /\ db \in Databases
    /\ page \in Pages \cup Others
    /\ copy = Empty
    /\ compare \in
          {Solo} \cup {OfUser(o) : o \in {x \in Others : page \in {x, "pair"}}}
                 \cup {OfFriendship(o, id) : o \in {x \in Others : page \in {x, "own", "pair"}}, id \in {0, 1}}
    /\ dash = NoDash
    /\ load = [Idle EXCEPT !.at = "sent"]
    /\ row = [r \in Rows |-> Idle]
    /\ trouble = IF page \in Quiet THEN MaxTrouble ELSE 0
    /\ stale = TRUE

Trouble == trouble < MaxTrouble /\ trouble' = trouble + 1

\* The server changes: what has been read, and not yet shown, is behind as well.
Behind(p) == [p EXCEPT !.fresh = FALSE]
Elsewhere(o) ==
    /\ Trouble
    /\ db' \in ByAnother(db, o)
    /\ stale' = TRUE
    /\ load' = Behind(load)
    /\ row' = [r \in Rows |-> Behind(row[r])]
    /\ dash' = [Behind(dash) EXCEPT !.under = {Behind(f) : f \in @}]
    /\ UNCHANGED <<page, copy, compare>>

----------------------------------------------------------------------------
(* The load of the page *)

ServeLoad ==
    /\ load.at = "sent"
    /\ load' = [load EXCEPT !.at = "read", !.fresh = TRUE,
                            !.data = IF load.ask.act = "bump" THEN LoadFriendships(Snapshot(db))
                                     ELSE Loaded(Snapshot(db))]
    /\ UNCHANGED <<db, page, copy, compare, dash, row, trouble, stale>>

LoadDone(c, old) ==
    /\ copy' = c
    /\ compare' = Reconcile(c)
    /\ dash' = Mounted(Reconcile(c))
    /\ stale' = old
    /\ load' = Idle
    /\ UNCHANGED <<db, page, row>>

\* "bump" is the reload on a new notification, which leaves the dashboard alone.
ShowLoad ==
    /\ load.at = "read"
    /\ LoadDone(IF load.ask.act = "bump" THEN ReloadFriendships(copy, load.data) ELSE load.data,
                ~load.fresh)
    /\ UNCHANGED trouble

LoseLoad ==
    /\ load.at = "sent" /\ Trouble
    /\ LoadDone(ReloadFailed(copy), TRUE)

\* A notification has come (the notification poll bumps the version).
Bump ==
    /\ page = "friends" \/ Comparing
    /\ load.at = "idle"
    /\ load' = [Idle EXCEPT !.at = "sent", !.ask = OnRating("bump")]
    /\ UNCHANGED <<db, page, copy, compare, dash, row, trouble, stale>>

----------------------------------------------------------------------------
(* A button *)

Showing == load.at = "idle" \/ load.ask.act = "bump"

\* Its row is busy until the handler has ended.  (On the friends page it is not,
\* but a second click asks for what has been done, and is refused.)  What is
\* only opened leaves the page.
Click(a) ==
    /\ Showing /\ a \in Offers /\ a.act \notin Views
    /\ row[a.with].at = "idle"
    /\ a.act = "ask" => db.friendship[a.with].id < MaxId
    /\ a.act = "invite" => db.invite[a.with].id < MaxId
    /\ row' = [row EXCEPT ![a.with] = [Idle EXCEPT !.at = "sent", !.ask = a]]
    /\ UNCHANGED <<db, page, copy, compare, dash, load, trouble, stale>>

Ends(r) == row' = [row EXCEPT ![r] = Idle]

\* What is done puts all that has been read behind.
Serve(r) ==
    /\ row[r].at = "sent" /\ Allows(db, row[r].ask)
    /\ db' = After(db, row[r].ask)
    /\ row' = [x \in Rows |-> IF x = r THEN [row[r] EXCEPT !.at = "done", !.fresh = ~stale] ELSE Behind(row[x])]
    /\ load' = Behind(load)
    /\ stale' = TRUE
    /\ UNCHANGED <<page, copy, compare, dash, trouble>>

\* Refused, or lost on the way there or back: the handler ends with the error.
Refuse(r) ==
    /\ row[r].at = "sent" /\ ~Allows(db, row[r].ask)
    /\ Ends(r)
    /\ UNCHANGED <<db, page, copy, compare, dash, load, trouble, stale>>

LoseClick(r) ==
    /\ row[r].at \in {"sent", "done"}
    /\ Trouble
    /\ Ends(r)
    /\ UNCHANGED <<db, page, copy, compare, dash, load, stale>>

\* On the album page and the detail the answer says it all.
AnswerIsAll(a) == page \in {"detail", "pair"} \/ (page = "album" /\ a.with = "rating")

Shows(c, old) ==
    /\ copy' = c
    /\ compare' = Reconcile(c)
    /\ dash' = Mounted(Reconcile(c))
    /\ stale' = old
    /\ UNCHANGED <<db, page, load>>

Answered(r) ==
    /\ row[r].at = "done" /\ AnswerIsAll(row[r].ask)
    /\ Shows([copy EXCEPT !.rating = IF row[r].ask.act = "add" THEN "draft" ELSE "none"], ~row[r].fresh)
    /\ Ends(r)
    /\ UNCHANGED trouble

\* Otherwise part of the page is loaded again, which for friendships is all
\* that is shown of them.
ServeReread(r) ==
    /\ row[r].at = "done" /\ ~AnswerIsAll(row[r].ask)
    /\ row' = [row EXCEPT ![r].at = "read", ![r].data = Reads(row[r].ask, Snapshot(db)),
                          ![r].fresh = @ \/ page = "friends" \/ OnProfile]
    /\ UNCHANGED <<db, page, copy, compare, dash, load, trouble, stale>>

ShowReread(r) ==
    /\ row[r].at = "read"
    /\ Shows(Reloaded(row[r].ask, copy, row[r].data), ~row[r].fresh)
    /\ Ends(r)
    /\ UNCHANGED trouble

LoseReread(r) ==
    /\ row[r].at = "done" /\ ~AnswerIsAll(row[r].ask) /\ Trouble
    /\ Shows(ReloadFailed(copy), TRUE)
    /\ Ends(r)

\* "Compare with you" and "Hide comparison"; a solo dashboard that is shown
\* again is asked for again.
Compare ==
    /\ Showing /\ OnProfile
    /\ \/ compare # Solo
       \/ page \in copy.viewable
    /\ compare' = IF compare # Solo THEN Solo
                  ELSE IF copy.friendships[page].is = "friends" THEN OfFriendship(page, copy.friendships[page].id)
                  ELSE OfUser(page)
    /\ dash' = Mounted(compare')
    /\ copy' = IF compare # Solo
               THEN [copy EXCEPT !.viewable = IF MayView(db, page) THEN {page} ELSE {}]
               ELSE copy
    /\ UNCHANGED <<db, page, load, row, trouble, stale>>

\* The combobox: a friend, or Spotify again.
Choose ==
    /\ Showing /\ page = "own"
    /\ Cardinality(dash.under) < MaxFetches
    /\ compare' \in {Solo} \cup {OfFriendship(a.with, a.id) : a \in FriendCombobox(copy)}
    /\ dash' = Mounted(compare')
    /\ UNCHANGED <<db, page, copy, load, row, trouble, stale>>

----------------------------------------------------------------------------
(* The dashboard of a comparison *)

Unless(f) == {x \in dash.under : x # f}

ServeDash(f) ==
    /\ f.at = "sent"
    /\ dash' = [dash EXCEPT !.under = Unless(f) \cup
                  {[f EXCEPT !.at = "read", !.is = FetchComparison(db, f.of), !.fresh = TRUE]}]
    /\ UNCHANGED <<db, page, copy, compare, load, row, trouble, stale>>

ShowDash(f) ==
    /\ f.at = "read"
    /\ dash' = [dash EXCEPT !.under = Unless(f), !.shown = IF f.is = "entry" THEN f.of ELSE Solo,
                             !.fresh = f.fresh]
    /\ UNCHANGED <<db, page, copy, compare, load, row, trouble, stale>>

LoseDash(f) ==
    /\ f.at = "sent" /\ Trouble
    /\ dash' = [dash EXCEPT !.under = Unless(f), !.shown = Solo]
    /\ UNCHANGED <<db, page, copy, compare, load, row, stale>>

----------------------------------------------------------------------------
PagesNext ==
    \/ \E o \in Others : Elsewhere(o)
    \/ ServeLoad \/ ShowLoad \/ LoseLoad \/ Bump
    \/ \E a \in Offers : Click(a)
    \/ \E r \in Rows : Serve(r) \/ Refuse(r) \/ LoseClick(r) \/ Answered(r)
                       \/ ServeReread(r) \/ ShowReread(r) \/ LoseReread(r)
    \/ Compare \/ Choose
    \/ \E f \in dash.under : ServeDash(f) \/ ShowDash(f) \/ LoseDash(f)

PagesSpec == PagesInit /\ [][PagesNext]_pageVars

----------------------------------------------------------------------------
\* An invite no list tells of: an accepted one is shown with the album in Listen
\* & Rate, where only drafts are, and a completed one nowhere.
Untold(a) ==
    /\ a.act = "invite"
    /\ \/ db.invite[a.with].is = "completed"
       \/ db.invite[a.with].is = "accepted" /\ db.mine # "draft"

\* A dashboard is not loaded again with its page.  A live one stays when the
\* user ends the friendship that let them see it.
DashKept(a) ==
    \/ a.act \in {"open_pair", "open_compare"} /\ Comparing /\ ~dash.fresh
    \/ a.act = "open_compare" /\ ~MayView(db, a.with)

\* The pages repeat the rules of the server, and reload enough: as long as the copy
\* is not behind the server, whatever a page offers after its load and after what
\* has been done on it the server accepts - and the comparison shown is of a
\* friendship that is.  The copy is behind (stale) from a change of the server to
\* the end of a reload that was read after it, the page's own changes included; so
\* nothing is claimed once another user has acted or a request has been lost, and
\* neither when requests of the page overlap so that a list read before a later
\* change is shown last (FriendsPage.refresh has no fence: Cancel is offered for a
\* request that has been cancelled, and refused), or on the album page and Listen &
\* Rate when something changes while a handler is under way, until the next load.
OffersAreAccepted ==
    ~stale =>
        /\ \A a \in Offers : row[a.with].at = "idle" => Allows(db, a) \/ Untold(a) \/ DashKept(a)
        /\ Comparing /\ compare[1] = "friendship" => db.friendship[compare[2]] = Row("friends", compare[3])
=============================================================================
