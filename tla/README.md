# Verification of Albumania

Albumania is an album-rating application for friends: a FastAPI backend
(`backend/app`) on Postgres, a React client (`frontend`), Spotify as the
catalogue and an object store for avatars. This directory holds TLA+ models of
its core logic, the TLC configurations that check them on small instances, and
TLAPS proofs for instances of any size. `PROJECT.json` maps every definition to
the lines it models.

## How the backend runs

Every endpoint is a synchronous function: one uvicorn process runs requests on a
pool of threads (40 by default, `db/session.py:23`), each with a SQLAlchemy
session of its own (`autoflush=False`, `db/session.py:56`) on a READ COMMITTED
database. A session writes nothing before its commit; an UPDATE of a row that is
gone, or a broken constraint, fails the commit and rolls all of it back; a DELETE
of a row that is gone is only a warning. So in the models **every SELECT and every
commit is one step**, and other threads run in between. In-process state shared
by the threads (the TTL caches, the Spotify breaker and call spacer) is guarded by
locks, and there a step is a critical section.

## How the client runs

One browser tab is one thread: a handler runs to its first `await`, others run
while it waits, and it goes on when its answer is there, with the variables of the
rendering it began in. So in the modules of the client **a step is a handler up to
an `await`, or what follows one, with the rendering and the effects that come of
it**. Requests overtake each other, and are lost before or after the server has
seen them; there the server takes one step for a request, because its own steps
are what the modules of the backend are about.

## Inventory

| part | state | operations | what is hard | what makes it correct |
|---|---|---|---|---|
| listen invites (`routers/invites.py`, `services/invite.py`) | `listen_invites` rows, ratings, notifications | create, accept, decline, cancel, remove; completion from `publish_rating` | checks and commits are apart; two users and two tabs at once; invites deleted and created again under a request | one invite per couple, completion neither lost nor unearned, nobody is told of what did not happen, published ratings are safe |
| friend dashboards (`services/friend_dashboard.py`) | `friend_dashboard_entries`, derived from ratings and friendships | rebuild a pair, rebuild a user | several commits per rebuild, unique and foreign keys that fail them, row locks held across statements | the rows are what the published ratings say; strangers have none; invites are told |
| ratings (`routers/ratings.py`) | `ratings`, `song_notes` | create, patch, publish, republish, delete | publish and delete run dashboards and invites after their own commit | a published rating is complete; both followers are told |
| friendships (`routers/friendships.py`) | `friendships` | request, accept, decline, delete | reads before deletes; cascades to dashboards; invites deleted by hand | one row per couple; nothing between strangers |
| notifications (`services/notifications.py`) | `notifications` | create, resolve, mark as seen, prune | order of prune and mark; rows that lose their subject | the badge counts what awaits an answer; nothing unseen is pruned |
| lookup cache (`services/cache.py`) | entries, key locks | get_or_load, set, clear | single flight, eviction and expiry under waiting callers | one load per key; callers return; the dicts stay bounded |
| Spotify gate (`services/spotify.py`) | breaker, spacer, `spotify_cooldown` | the path of each call | late answers, writes out of order, restarts | calls are spaced; a cooldown is honoured, also by the next process |
| comments (`routers/comments.py`, `components/CommentsSection.tsx`) | `comments`, `comment_reactions`; the list, its order, drafts | list, write, edit, delete, react | answers put into a list that has been loaded again; a notification collapsed by a look before the commit | what is listed is what the server has, in the order selected |
| album import (`routers/albums.py`) | `albums`, `album_tracks` | get_or_import, backfill | network calls between the look and the INSERT; two completions of one row | editions of one album share a row; an album is told with all its tracks |
| avatars (`routers/users.py`, `services/storage.py`) | key in the user row, objects in the store | upload, delete | two stores, no transaction over both; the key to delete is an old one | the key names an object that exists; what is left over is bounded by what went wrong |
| home feed (`routers/home.py`, `components/ActivityFeed.tsx`) | the categories selected, the items, the cursor | merge of three sources by time; first page, older pages | limits before filters; pages of another selection | every event on exactly one page |
| dashboards of a user (`routers/users.py`, `services/similarity.py`) | none | distance of two rankings | partial rankings | a bounded, symmetric distance |
| auth (`routers/auth.py`, `core/security.py`) | the user row | register, login, refresh, verify, reset | nothing is remembered of a session | tokens are what the key signed |
| client session (`frontend/src/api/client.ts`, `context/AuthContext.tsx`) | access token, hint, profile, shared refresh | boot, sign in, sign out, retry after 401 | answers of one user when another has signed in; refreshes that get no answer | nobody is thrown out by the network; nobody acts in another's name; nothing hangs |
| rating editor (`pages/RatingEditorPage.tsx`) | the form, the snapshot of what is saved, the blocker | edit, drag, save, publish, republish, remove | a handler is three requests, and the form lives on under it | a save is the whole form, the snapshot what the server has, a published rating complete |
| unsaved changes (`lib/unsavedChanges.tsx`) | the editors that are dirty, the dialog | ask, save and leave | one of several saves fails | leaving by Save & quit loses nothing |
| pages about friends (`pages/*.tsx`) | what each has loaded | load, reload a part, update a copy, the buttons | parts of a copy brought up to date by different handlers | what is offered the server accepts |
| client badge (`context/NotificationsContext.tsx`, `components/NotificationBell.tsx`) | counts | poll, mark as seen, the bell | a poll under way over an optimistic update or another's session | the badge follows the last action; news is told |
| client cache (`frontend/src/api/cache.ts`) | entries, requests in flight | cachedFetch (nothing calls invalidate, clearCache) | | an entry expires |
| e-mail, artists, search, settings, rendering, migrations, scripts | | | I/O, reads and rendering | |

Interactions: `publish_rating` and `delete_rating` call the dashboards' rebuild
and the invites' completion or withdrawal in the same request and session, after
their own commit; `accept_invite` writes ratings and notifications in the commit
that accepts; `delete_friendship` deletes invites, and the database carries off
their notifications and the couple's dashboard; all lookups of albums and artists
go through the cache to the gate. In the client every request carries the token of
the session and shares its refresh; the poll of the badge begins and ends with the
session; the editor and the composers register with the guard, which runs their
saves; the buttons of the pages send the requests of invites, friends and ratings.

## Modules

| module | models | proofs | runs |
|---|---|---|---|
| `SharedListen` | what listening together promises to the partners | | |
| `ListenInvites` (`MCListenInvites`) | the shared listen of one album; with one tab each it implements `SharedListen` | `ListenInvitesProofs` | `invites_*` |
| `FriendDashboard` (`MCFriendDashboard`) | the dashboards of couples of friends | `FriendDashboardProofs` | `dashboard_*` |
| `Lookups` | what the lookup cache promises its callers | | |
| `TTLCache` | the lookup cache, which implements `Lookups` | `TTLCacheProofs` | `cache_flight` |
| `SpotifyGate` | the breaker, the spacer and the stored cooldown | `ServerProofs` | `server_requests` |
| `Avatars` | the picture of a profile in its two stores | `ServerProofs` | `server_requests` |
| `AlbumImport` | how an album comes into the catalogue | `ServerProofs` | `server_requests` |
| `CommentLikes` | the reactions to a comment and who is told of them | `ServerProofs` | `server_requests` |
| `MCServer` | a server where one of the last four is at work | | `server_requests` |
| `RatingEditor` (`MCRatingEditor`) | the rating page over the endpoints of one rating | `RatingEditorProofs` | `rating_editor` |
| `ClientSession` | who is signed in, in one tab | `ClientSessionProofs` | `client_session` |
| `NotificationBadge` (`MCNotificationBadge`) | the badges of one tab | `NotificationBadgeProofs` | `notification_badge` |
| `SocialPages` | the pages on which friends are dealt with | `ClientPagesProofs` | `client_pages` |
| `HomeFeed` | the activity feed and `get_feed` | `ClientPagesProofs` | `client_pages`, `feed_private` |
| `Comments` | the comments of an album, with the guard of unsaved text | `ClientPagesProofs` | `client_pages` |
| `MCClientPages` | a tab that has one of the last three open | | `client_pages`, `feed_private` |

### ListenInvites

One album. `invites`, `ratings`, `friendship` and `notifs` are the committed rows;
an invite's row is a function of (sender, receiver), which is its unique key.
`req[t]` is the request that thread `t` serves: the stage of its handler and what
its session has read. `StartX` is a handler's first SELECT with its checks; the
stages after it are its other SELECTs and its commits (`create_invite` takes five
steps, `accept_invite` four). `held` are the rows a session has loaded and
which are still there: a row deleted meanwhile leaves `held`, and one inserted
again has another primary key. This is what decides whether an UPDATE fails, and
whether a foreign key of a notification holds.

Abstractions: notifications are a set (two that agree on every field are one);
what is pruned is any of the read ones, because their order is left out; a rating
is `none`, `draft` or `published`, and always complete enough to be published;
the rebuild of dashboards is left to `FriendDashboard`, but that it may fail, and end
`publish_rating` between its commit and its look at the invites, is not
(`RebuildFails`); friendships are requested, accepted and declined in one step; a
deadlock that the database resolves is a request that fails (`Fail`). `missed` is
history: the invites that were accepted after both ratings had been published, those
whose completion was rolled back because another invite of the same commit was gone,
and those that nobody else was left to complete when a rebuild failed (`LeftOut`).

`SharedListen` has the invites, the ratings and the users who have removed theirs
and are still in their listens (in `ListenInvites`: those with a request at
`withdraw`, between the two transactions of `delete_rating`). Each commit is one of
its steps; it has no requests and reads nothing earlier. It says nothing of
friendships and notifications, and lets the partners end an invite at any time:
`cancel_invite` checks that it is pending some steps before it deletes it. With two
tabs `ListenInvites` does not implement it, as an answer may be given twice. Operators commented *mutant* are broken variants of
the definition below them, each the way a plausible bug would break it.

### FriendDashboard

All couples, their friendships, ratings and dashboard rows. The rebuild of a pair
is its bulk DELETE (which locks the rows it finds, `doomed`, and waits for rows
that another transaction has locked, seeing afterwards those it found that are
still there), its two SELECTs of ratings, and its INSERT with commit, which waits
on a unique key that an open transaction has freed, and fails on one that is taken
or on a friendship that is gone. `rebuild_for_user` lists the friendships and
rebuilds them one after the other, a commit each. The handlers that only commit
(`CreateRating`, `PatchRating`, `RequestFriend`, `EndFriendship`) are one step.

Abstractions: an entry is its album and two scores, and belongs to the friendship
whose row the request holds (`EntriesOf`: after the couple has parted and befriended
anew the old id finds nothing); the invites that a publication
completes are not followed, so `Complete` rebuilds any of the user's pairs again;
two rebuilds lock the rows of a pair in one order, and each takes the lock on all of
them in one step, so that transactions wait for each other row by row in no instance.
History: `edited` (published ratings patched and not republished, whose old score may
show), `told` (the couples and albums whose invites a publication has seen to),
`unheard` (those that the last publication there was to tell has failed, by an
exception of a rebuild), `crashed` (a request has died), `cut`
(what a rebuild that was due left out because it ended with an exception: a later
couple of the loop, after a friend had left, or the other albums of a couple, after
one of them was inserted twice).

### TTLCache

`entries` and `expired` are the stored keys, `keyLocks` is `_key_locks`, `call[t]`
is where a caller is in `get_or_load` and the lock it has in its hands. Values are
left out (no loader returns `None`, which `get` cannot tell from a miss); time is
that a fresh entry may expire at any moment; the order of insertion is that any
other entry may be the one evicted; a lock's identity is the least number nobody
refers to. `stored` and `dropped` are history: which keys were stored, and lost
again, while somebody had been in flight for them. `Clear` is only called by tests.

### SpotifyGate

The breaker (`openUntil`, `loaded`, `streak`), the spacer (`nextAllowed`) and the
row (`cooldown`), with each thread's call from `is_open` to what is made of
the answer. Time is discrete, and urgent: it passes when no thread can run, while
requests and sleeps are under way; a transaction on the cooldown row takes no time.
`streak` counts no further than the threshold. A restart forgets everything but
the row. A lookup of the row that fails counts as one that found no cooldown, and is
not made again (`FinishLoad`, history `forgotten`); a write of it that fails is
dropped (`Persist`, `Write`). `reset` is left out, which only tests call.

`stored` and `dropped` make the mapping to `Lookups` possible: a caller there is
*served* when it has stored its value here, and a key is *excused* when it was lost
while somebody was in flight for it. In `Lookups` there are no locks and no second
look: whoever asks for a key that is not there loads it, unless another does.

### Avatars

`picture` is the key in the user's row, `objects` the store, `calls[c]` an upload or
a removal: sent, the user read (`ReadUser`), the object saved, the key committed,
the row read again for the answer, the replaced object deleted. `old` is the key
that is deleted, which is the one the request was authenticated with: the handler's
own SELECT of the user gives the object that the session already has. `photo` and
`busy` are the lightbox, which can be closed over a call and opened again; only so
do calls of one tab overlap. A call may fail at any stage (`LoseAvatar`).
Abstractions: the key of an upload, drawn at random, is the number of its call;
what is checked of an image is left out. `blind` is history: the calls that
replaced a key other than the one they had read.

### AlbumImport

`albums` are the rows by Spotify id, each with its barcode, or none (a row from
before barcodes), and with all its tracks or only some. `opens[o]` is a request for an
album: it finds the row and completes what it lacks (`FindAlbum`, `LoadTracks`,
`Backfill`), or finds another edition's row by its barcode (`FindByBarcode`), or
imports (`Import`). Each SELECT is a step, since calls to Spotify lie between them, and
a commit refused by a constraint leaves nothing. `missed` is history: which
import could not find which row.

### CommentLikes

One comment: `reactions`, at most one of a user, and `unread`, how many unseen
notifications of likes there are. A request reads the comment and the user's
reaction (`Look`: one step, because a comment that goes takes its reactions along), looks for such a notification if a like is new
(`LookForNotification`), and commits (`CommitReaction`): the row it inserts may be
there by now, the one it changes may be gone. `news` is history (whose likes have come since
the author looked), `together` that two requests had both looked for the notification. Its
visibility and its edits are left out.

### RatingEditor

One visit to the page. `row` is the rating on the server; `page` the state of the
component: what it waits for before it shows the form, the form and the snapshot,
the track being dragged, the blocker, the buttons; `call[n]` a handler under way,
with the form and comment of the rendering it was clicked in and the answer it has.
The actions are the handlers of the page, the four endpoints and what follows each
answer. An endpoint reads and checks the row in one step (`ReadRating`) and commits
what it changes in another (`PatchRating`, `PublishRating`, `RepublishRating`,
`DeleteRating`), with no lock in between: the completeness and the status it has
checked may be another's by then, and columns that it does not change keep what was
committed meanwhile.

Abstractions: an album with as many tracks as slots or few more (`Tracks`,
`TopSize`); a note is erased, absent or a member of `Texts`; notes about the tracks
in `Noted`; the publish box is empty or not; a step of the score's slider is any of
its scores; handlers have no names, and one that begins takes a place that is
free, whichever (`Calls` bounds how many run at once); a drag counts as two edits. `Found`
are the ratings the page may find. `muddled` is history: a PATCH was sent while a handler
was under way, or its answer was lost; then nobody can say which of two saves the
server took last. `raced` is history, too: a PATCH or a publication has changed a row
that was not the one it had checked.

### ClientSession

`cookie` is the refresh cookie of the browser, `hint` the flag in the local storage,
`token` the access token in memory (whose, and whether it has expired), `auth` the
state of `AuthProvider`, `refresh` the shared promise, `sign` the sign-in or
sign-out that waits, `req[r]` a request of a page with the token it was sent with
and whether it is its second try. `RefreshServed` answers a refresh and sets the
cookie again (`auth.py:134`): that of its user, whoever has signed in since. History:
`welcome` is who was signed in with the cookie that is there, until they leave or the
cookie goes; `overtaken` that a refresh and a sign-in or sign-out were under way
together; `crossed` that such a refresh has cost the hint. Abstractions: an endpoint answers in one
step; registration is a sign-in; one sign-in or sign-out is under way at a time,
because the pages disable their button.

### NotificationBadge

`written` and `unread` are rows; `summary`, `last` and `version` what the provider
holds; `poll`, `mark[s]` and `bell` the requests under way, with whose session they
go in. The interval may tick at any time; what it bumps (`version`) is only whether
it changes. `believed` is history: the notifications that the counts in `last`
stand for. Two markings of one scope at once are left out.

### SocialPages

`db` is what the server has of the user's own rating, the friendships, the invites
over one album and which of the others have published it; `page` is the one that is
open, `copy` what it has loaded, `compare` and `dash` the comparison on a profile,
`row[r]` the handler of each row of buttons. `Allows` is the server's answer to each
request, `Offers` the buttons the page shows, and a handler is the click, the answer
and the reload. Ids tell a row from one that was deleted and made again. `stale` is
history: the server has changed since what is shown was read, by another, by a request
whose answer was lost, or by the page itself when its own requests overlap: a list that
was read before a later change and is shown last leaves the page behind, and says
nothing of it (`FriendsPage.tsx:53` has no fence). On the album page and Listen & Rate,
which reload only what a request was about, any change while a handler is under way
leaves them behind until the next load. Where a page offers what the server refuses (below), `Untold` and
`DashKept` name the exception.

### HomeFeed

`events` are the rows there are, `Source` what each of the three queries gives below a
cursor, `get_feed` their merge, cut to a page. The component holds the selection, the
items and the cursor, and has at most a first and an older page under way. `Newest` is
`ORDER BY` and `LIMIT`: the i-th row is the one that i - 1 come before (`Rank`), so
that it can be reasoned about without a sorting algorithm. No two events share an
instant, and all are before `Now` (`FeedAssumption`): see below. `mixed` is history:
an older page of another selection was on its way.

### Comments

`thread` is a function from the comments there are to what each says, whom it is
liked by and what the user thinks of it; `shown` is the list and the order it was asked
for in (the places of the items are left out: see below);
`drafts` what has been typed into the composer (0) and the editors; `listing`,
`posting` and `handlers` what is under way; `leave` the dialog with its saves.
Abstractions: dislikes and visibility are left out, the notification of a like is
in `CommentLikes`;
two clicks on the thumbs of one comment may overlap. `behind` is history:
the comments somebody else changed, or whose request was lost or overtaken.

## Runs

| run | instance | shows |
|---|---|---|
| `invites_serial` | two users, one request at a time, every handler | both partners of a shared listen have the album, the badge counts what awaits an answer, no invites between strangers |
| `invites_two_tabs` | two users, two requests at once of any of them, requests that die | nobody is told of a shared listen that does not exist, no notification dangles, published ratings stay, pending invites go only by their parties |
| `invites_one_tab` | two users, one tab each, fair | of two concurrent publications one completes the shared listen, whichever invites are cancelled meanwhile, unless the last rebuild before it fails; the handlers implement `SharedListen` |
| `dashboard_serial` | three users, one request at a time, requests that die | dashboards are what the published ratings say |
| `dashboard_race` | two users, two requests at once, with deadlock | no entries between strangers, mutual albums show, one of two who publish tells the invites |
| `cache_flight` | three callers, two keys, room for one entry, fair | the cache implements `Lookups`; every caller returns; the size is bounded |
| `server_requests` | three threads that call Spotify, one restart, pauses of 1 and 4, four instants; or three calls about one avatar, two lost; or three requests for three editions of two albums; or four reactions of three users, two at once | slots are spaced, late calls run out, a restart honours the cooldown it could read; a picture is there, and few are left over; editions share a row, albums come whole; likes are told once |
| `rating_editor` | two tracks, two handlers at once, two edits, one loss, fair | a published rating is whole unless two requests raced, a save is the whole form, the snapshot is what is saved, the buttons come back |
| `client_session` | two users, two requests of a tab, any number of losses and reloads, fair | no failure costs a session but a refresh that a sign-in has overtaken, nobody acts in another's name, nothing hangs |
| `notification_badge` | two users, two notifications, one loss, fair | the state is well-formed; what is new is told; the badges come to agree with the server |
| `client_pages` | two others, one of them visible to friends only; six events, pages of two; three comments | what pages that are not behind offer is accepted, the feed has no holes, what each comment says is the server's, Save & quit keeps drafts |
| `feed_private` | as `client_pages`, two comments private | **violated**: the feed of a friend with private comments has holes |

Why the bounds are enough to be interesting: an invite has two parties, and every
race found in it needs two requests; the second tab lets both requests be of one
user. A third user is what makes a rebuild go through several pairs, so
`dashboard_serial` has three; the race for one pair's rows needs two. Three
callers are a winner, one that waits with the old lock, and one that takes a new
lock. With `Interval = MaxWait = 1` the third thread is the one turned
away; `RetryAfters` has a pause below `TripAbove` and one above, so that both ways
to open the breaker occur. `Calls`, `Locks`, `MaxTime`, `MaxRestarts` and
`TabsPerUser` bound the state space; the theorems need none of them.

In `server_requests` three calls about an avatar are two that overlap and a third
that meets what they left; two losses (`MaxLost`) let both of two stages fail. Of
the three editions two are one album, and one has no barcode; the rows that are there
already are any, complete or not. Four reactions, two at once (`Puts`), let a user
like, take it back and like anew while another does, and `MaxSeen` lets the author
look twice. The parts share no state, so that one is served and the others wait.

A type invariant that is a theorem is not checked by a run as well, except that of
the badge; nor are `StatusForward` and `CompletionIsEarned`, which `SharedListen`
says more sharply of users with one tab.

In `dashboard_race` no rebuild is cut short (one couple, one album), so there
`MutualAlbumShows` is checked without its exception; `OneOfThemTells` does need its own
(`unheard`). A wider instance, too long for a run, was checked aside: two users with two
albums (10.8 million states), where both exceptions are needed.

On the client two handlers at once (`Calls`, `Requests`, `MaxFetches`, the thumbs)
are what a race takes, and every late answer is one of them. Two edits
(`MaxEdits`) are one before the click and one while it waits; one loss
(`MaxFaults`) takes each error path, of any stage of any handler, once. Two notifications
are one that is marked and one that arrives, and with two users one is another's. The
feed has six events and pages of two (`Limit`), so that there are three pages and
each source is cut; two toggles (`MaxToggles`) leave a selection and come back to
it; one event may come or go (`MaxChanges`). A thread of three has one of a friend
and two of the user's own, of which one is yet to be written; with three clicks
(`MaxActs`) and one mishap (`MaxMishaps`) a list, a post and a change overlap.
`MaxId` lets a friendship and an invite end and begin anew once, `MaxTrouble` is one
act of another or one loss, and `Quiet` names the pages where there is none: what
they load is part of what a profile does, where there are both. Symmetry
(users and threads in `MCListenInvites`, threads, albums and scores in
`MCFriendDashboard`, where users are ordered) is used only in runs without liveness.
Deadlock is checked in `dashboard_race`, where a user can always do something unless
all threads wait: with one couple and one album there is one row to lock, so it
excludes only waits on the unique key and on that row, not a cycle of row locks, which
this model has none of (above). Elsewhere it is not checked, because a server with
nothing to do stops; that nobody is stuck is what the liveness properties say.

Fairness: `Continue(t)` is weakly fair, since the pool runs what it has begun, and
nothing obliges a user to begin anything. `FriendDashboard` has no liveness. A
load in `TTLCache` ends because every request has a socket timeout
(`services/spotify.py`) and no retry waits for `Retry-After`. On the client a
request ends because it is given up after thirty seconds (`REQUEST_TIMEOUT_MS`,
`api/client.ts`), what follows its answer runs because the tab does, and the poll
ticks because its interval does; nothing obliges the user. Which of answer and
failure comes is never assumed.

## Where the code and its documents part

One run shows one, quoted in `PROJECT.json`: `feed_private`. `get_feed` takes its
limit of comments before it drops the private ones, so that older ones are on no
page.

Others need only a change of a configuration; the properties are defined in the
modules, and broken by the code.

- `AcceptIsInTime` in `Invites_serial.cfg`: a receiver who has published before
  accepting. Nothing looks at the invite again (`invites.py:174`).
- `OneInvitePerCouple` in `Invites_two_tabs.cfg`: the duplicate check
  (`invites.py:115`) and the INSERT are apart, and no constraint covers the mirror
  row. `StatusForward` too: an acceptance of a row read before it was answered in
  the other tab (`invites.py:170`).
- With `Threads = {t1, t2}` in `Invites_serial.cfg`: `BadgeIsHonest` (an invite and
  its notification are two transactions, `invites.py:141`), `NoStrayInvite` (an
  invite created while the friendship is deleted, `friendships.py:179`),
  `SharedListenIsShared` (a rating removed between the look and the commit,
  `invites.py:187`) and `RemoveSparesPublished` (a draft published between the
  check and the DELETE, `invites.py:475`).
- `CompletionNotLost` without its exception (`missed`), in `Invites_one_tab.cfg`: one
  invite cancelled meanwhile rolls back the completion of the others
  (`services/invite.py:77`), an invite may be accepted after both have published, and
  a rebuild of the dashboards that fails ends the publication before it completes
  anything (`ratings.py:164`), which cannot be repeated (409).
  With three users a rating removed by a third does the same.
- With two threads in `Dashboard_serial.cfg`: `ViewIsCurrent`
  (`was_published` is read before the commit, `ratings.py:203`). In `Dashboard_race.cfg`
  `OneOfThemTells` without its exception (`unheard`): a rebuild rolled back, because two
  inserted one row or another friend has left, ends `publish_rating` before it tells
  the invites (`ratings.py:164`). With two albums or
  three users in `Dashboard_race.cfg`: `MutualAlbumShows` without its exception
  (`cut`). A rebuild rolled back by the unique key leaves out the rows it alone had
  seen, and one that meets a friendship that is gone leaves out the friends after it.
- `EditionsShareARow` without its exception (`missed`), in `Server_requests.cfg`: two editions opened at once get a row each
  (`albums.py:199`), although imports are to be told apart by barcode
  (`models/album.py:12`); nothing merges the two.
- `RestartHonoursCooldown` without its exception (`forgotten`), in
  `Server_requests.cfg`: a process that cannot read the stored cooldown takes it for none
  and does not ask again (`services/spotify.py:81`), so that this restart does "resume
  calling mid-lockout" (docstring of `_load_once`); the comment there prefers that to
  breaking every call.
- `PublishedIsWhole` without its exception (`raced`), in `Editor_form.cfg`: a PATCH
  checked against the draft (`ratings.py:119`) empties a slot of what has been published
  before it commits, although a published rating "must keep" its slots; the page sends
  both when it is edited and saved during a publication, whose inner save frees the
  buttons (`RatingEditorPage.tsx:438`).
- `SessionSurvives` without its exception (`crossed`), in `Session_tab.cfg`: the late 401
  of a refresh sent before a sign-in clears the hint of the new session.
- `NoLockLeft` in `Cache_flight.cfg`: `get_or_load` drops a key's lock on one of its
  three ways out.
- `StoredInForce` in `Server_requests.cfg`: the row is written after the breaker's lock
  is released (`services/spotify.py:142`).
- `RedirectNotBlocked` in `Editor_form.cfg`: the redirect after a publication asks
  about edits made meanwhile (`RatingEditorPage.tsx:418`, against the comment at
  316).

A call let through before the breaker opens is still sent afterwards, at most
`MaxWait` later (`LateCallsEnd`).

Exceptions of the same kind in the parts of `server_requests`: of two uploads that
overlap, the one that commits second leaves the other's object in the store for good
(`blind`, `users.py:143`), as does every failure after an object was saved; a like
whose request was under way when the author looked at the notifications may never be
told, and two that look at once are told twice (`beaten`, `together`, `comments.py:249`).

Seen while modelling the client, each an explicit exception (a history variable, or
a clause) of the property it would break:

- *Editor.* Publish, republish and Save & quit go on after a save that failed, and
  the `finally` of the save enables the buttons while the publication goes on. The
  comment's late answer, or a second save's, applies an older rating. A track dragged
  from the pool while a save is answered may end up in two slots, which the server
  then refuses. After Cancel of the page's own redirect the guard is off.
- *Guard.* An editor emptied by the user makes Save & quit leave without saving it;
  a composer that is busy makes it leave before its request has ended. Text typed
  into an editor while its save is under way is discarded when that succeeds.
- *Comments.* A post whose list fails keeps its draft, and posting again
  duplicates it; the post lists in the order of its rendering; a thumb overwrites an
  edit that overlaps it; the list that fails leaves its spinner; another order
  unmounts open editors with their drafts. Under "Most liked" a thumb replaces its
  comment in place (`CommentsSection.tsx:104`), which leaves the list out of the order of
  the scores (`comments.py:142`) until it is loaded again: no property speaks of places.
  What is typed into the composer while it posts is on its way to nowhere and is not
  saved by Save & quit (`CommentComposer.tsx:120`).
- *Session.* A refresh overtaken by a sign-in or sign-out sets the token of
  another user, throws the new one out, or puts the old one's cookie back
  (`auth.py:134`), after which a reload is theirs.
- *Friends page.* Of two reloads the older may be shown last (`FriendsPage.tsx:53`):
  Cancel is offered for a request that is gone, and refused.
- *Badge.* A poll under way over a marking makes the next arrival untold; a
  removal and an arrival between two polls cancel out; one that arrives between
  the bell's list and its marking is marked unseen.
- *Album page.* Participants come from the drafts of Listen Later, so that once I
  have published, an accepted partner is offered "Invite", which is refused
  (against `AlbumInfoPage.tsx:676`).
- *Profile.* After accepting a request the notice of a private profile stays; a late
  answer for one profile shows on another (against `ProfilePage.tsx:112`); a
  comparison of a friends-only profile stays after the friendship, its links
  refused (against `ProfilePage.tsx:147`); friendships that fail to reload offer
  "Add friend".
- *Feed.* A page loaded for one selection is appended to another (`mixed`); two
  events at the instant of a cursor: one is lost.

## Proofs

All for any users, threads, keys, tabs and thresholds, from each module's
assumptions; the eight proof modules have one shape: the parts of an inductive
invariant, one lemma per group of actions, the invariance, and the theorems as its
consequences. Every safety property of a passing run is a theorem.

**`ListenInvitesProofs`**, three arguments.

- Whatever overlaps: `TypeOK`, `PendingIsQuiet`, `NoDanglingNotification`,
  `PublishedStays`, `PendingIsDurable`, `CompletionIsEarned`. The first two
  invariants are not inductive alone: a notification is written long after the
  invite was read, so one must know that what a request holds is there and
  belongs to the invites it is about, and that the invites a publication holds to
  complete them are not pending again. That is `RequestsConsistent`; it relies
  on a row that is created again having a new primary key.
- One tab each (`OneTab`): `CompletionNotLost`, `StatusForward` and the refinement of
  `SharedListen`. The two
  publications commit before they look at the partner, so one of them sees both; one
  must know which request will still look (`Completes`) while others accept and remove
  under it (`NobodyForgets`): one whose rebuild fails leaves what it alone would have
  completed in `missed`. That server is not killed between two transactions
  (`~Faults`), and a user has one request
  (`OneRequestEach`). For the refinement each commit is a step of `SharedListen`, and
  each look, start and end is none. The steps with a choice are those that use what was
  read earlier: an acceptance, for which nobody else answers meanwhile
  (`AnswerIsFirst`) and whose drafts are of the couple (`InCouple`); a publication
  or a removal, whose rating is as it was found (`OwnRow`); and a completion,
  whose partner was seen published and may have removed the rating since
  (`SeenFinished`): until the partner has left the listen it is completed with a
  partner who is leaving (TLC reaches that), and after that there is no row to complete.
- One request at a time (`OneAtATime`): `SharedListenIsShared`, `BadgeIsHonest`,
  `NoStrayInvite`, since what the one request has read is still so when it commits
  (`NothingStale`). That two requests break them is shown above.

**`FriendDashboardProofs`**, four arguments.

- `TypeOK` and `EntriesOnlyForFriends` (`IInv`). Who inserts has read
  the friendship as accepted some transactions ago, so one must know that it is
  accepted as long as the row that was read is there (`HeldIsAccepted`), and that
  nothing is read for one that was not (`ReadForFriends`); a couple that parts and
  befriends anew has another row, and the foreign key fails.
- One request at a time (`SerialIInv`): `ViewIsCurrent`. A dashboard is current, or the request in flight has it
  before it (`NothingForgotten`), and what it has read is still so (`ReadingHolds`).
- Whatever overlaps (`CollisionIInv`): `MutualAlbumShows`. An album that both have
  published is in a row that no open transaction has deleted, or a request will insert
  it from ratings it has read or has yet to read, or was cut short of it
  (`NoneIsLost`); no row is deleted by two (`DoomedOnce`).
- Whatever overlaps (`TellIInv`): `OneOfThemTells`. As long as nobody has told the
  invites of an album that both have published, a request is on its way to do so
  (`SomeoneTells`), because the second commit of the two finds both published; if that
  request ends by an exception it is the last there was, or another has the news still.

**`TTLCacheProofs`**: `TypeOK`, `SingleFlight`, and `Implements`, that `TTLCache`
implements `Lookups`. Two callers that load one key
both hold the lock of that key in `_key_locks` (`InFlightShare`), which has one
holder (`HeldByOne`). A caller may hold an older lock of the key, when the
winner has dropped it from the dict; then the value is there, or was lost
meanwhile (`StoredIsThere`). For the refinement each action is a step of
`Lookups` or none: taking a lock, waiting and the first look are none; the miss of
the second look is `StartLoad`, which `InFlightShare` allows; the store, which may
evict others, is `Store`. An evicted or expired key is excused as long as
somebody is in flight for it.

**`ServerProofs`**, the four parts of `server_requests`.

- `SpotifyGate`: `TypeOK`, `SlotsAreSpaced`, `LateCallsEnd`,
  `RestartHonoursCooldown` and `CooldownNeverShortens`. `SlotsAreBehind` says that
  what was reserved ends before the next slot and that time does not pass
  between the breaker's check and the reservation; `NotLoadedYet` that until the
  row is read nobody is past the breaker and nobody has changed the row. A process whose
  one read of the row failed honours nothing that it inherited (`forgotten`).
- `Avatars`: `AvatarIsThere`, that the key in the row is that of an object. What is
  deleted is the key that the call read; so one must know that nobody can put that
  key back: the key of a call enters the row by that call alone, once, and what a
  call has read is a key of another call that has committed, or of the picture from
  before. Until it commits, a call's object is in the store and nobody has read its
  key. And `OrphansAreFew`, by counting: the objects that are not in use and that no
  call will remove (`Adrift`) grow by one at most, and only with a call that fails or
  that replaces a key it had not read.
- `AlbumImport`: `AlbumsComeWhole` and `EditionsShareARow`. A row that
  was not there when it was looked for was imported whole since, and one that was read
  whole still is (`ComesWhole`); an edition of the same album that an import has not
  found, and which is there when it commits, is in `missed` (`MissedIsKnown`).
- `CommentLikes`: `LikesAreToldOnce`. Who will insert a notification has seen none, and
  is alone in that unless two requests were together (`TellersAreAlone`).

**`RatingEditorProofs`**: `TypeOK`, `PublishedIsWhole`, `SnapshotIsSaved` and
`SavesWholeForm`. A patch says only what to change, so a save writes the whole form
only if what the form leaves empty is empty in the row, too (`Covers`): that holds of
the form and the snapshot, and of the snapshot and the row as long as no two handlers
run at once (`InStep`). For `PublishedIsWhole` one must know that what a handler has
checked, of the row it has read, is enough for what it will commit (`CheckedOK`), and
that the row is still the one it has read or that commit counts as `raced`.

**`ClientPagesProofs`**, three pages.

- `OffersAreAccepted` (`PagesIInv`), in three parts. A copy that is not behind (`stale`
  excuses those that are, the page's own overlapping requests included) is as it is on
  the server, and so is what has been read and is still fresh (`CopyOK`). The
  friends page and the profiles load all friendships they show after each request; the
  other pages load only what it was about, or nothing (`Serial`), and there a
  handler makes up for what it changed only if it is alone: at most one that has been
  served is fresh, the others have not been served, and what the page will show when it
  ends is right (`Outcome`, `SerialOK`). The comparison of a profile fits the friendship
  that is shown, so its dashboard can have an entry only of that comparison, and only
  if both have published; what cannot be excluded is `DashKept` (`DashOK`).
- `ThreadIsTheServers` (`ListIInv`), of what each comment says and the order that was
  asked for, not of places: each request carries the comments of which what it
  has read, or will show, is still as it was; a change takes its comment out of all of
  them (`Changes`), so that whatever answer comes last is right about the rest.
- `QuitKeepsDrafts` (`Keeps`): each draft that Save & quit has taken is in a request that
  is awaited, or on the server and nothing that is under way can take it away from
  there; the dialog covers the page, so that no other handler begins.
- `FeedHasNoHoles` (`FeedIInv`), if nothing is private, which is the exception that
  `feed_private` shows. Ranks order a set and leave none out (`RankOrder`, `RankOnto`, by
  the pigeonhole principle), so that a source leaves out only what is older than its
  `Limit` rows (`SourceFacts`). What the merge does not get is then older than `Limit` of
  it: the page is full and ends before that (`GetFeedRight`). A page and the one from
  its cursor are one longer page (`PagesJoin`), and while nothing is mixed at most one
  of the two requests is under way, for the selection and the cursor there are.

**`ClientSessionProofs`**: `TypeOK`, `SessionSurvives` and `InOnesOwnName`. A refresh
takes its user from the cookie and hands it to the tab later, so one must know
that cookie, answer and tab are of one user (`OneUser`), which only a sign-in
under way could change (`OneAtATime`); and that a welcome leaves the hint, except to a
refresh that met a sign-in (`HintLeft`).

**`NotificationBadgeProofs`**: `TypeCorrect`; `CountsAgree`, that the counts the
provider remembers of the last poll (`last`) are those of the notifications they
stand for (`believed`), so that it compares the next poll with a set of
notifications and not with a mere number (`WithoutCounts` is what a marking takes from
both); and from it `NewsIsTold`.

Some of what is assumed or excepted was found by a proof that did not go through:
an invite's completion may also be missed by a rollback (`missed`); a dashboard
misses albums when its rebuild is cut short (`cut`); the composer of comments is
numbered 0, so that no comment may be (`ThreadAssumption`); a published rating that
the page finds is complete (`FoundAssumption`); an event is before the cutoff of the
first page (`FeedAssumption`); no user is named as a page, nor is `"rating"`
(`PagesAssumption`). And two arms of a `CASE` that overlapped, in `Reloaded` and `Reads`
of `SocialPages`, were kept apart: such a `CASE` is whichever the reader chooses.

Only model-checked:

- All liveness (`CompletionHappens`, `CallsReturn`, `ButtonsComeBack`,
  `NothingHangs`, `BadgeCatchesUp`), which is out of the prover's reach, as is
  `ENABLED`. No module has a RECURSIVE operator.

## Not modelled

- Parts that only read, render or send: e-mail, search, artists, settings, icons and
  charts; migrations and scripts; the signed tokens of `auth`; the arithmetic of the
  distance of two rankings.
- `api/cache.ts`: nothing calls `invalidate` or `clearCache`, so that its entries only
  expire, and they are catalogue data that is nobody's.
- That a request is committed after its client has given it up (thirty seconds), the
  ids of song notes, and row locks taken one after the other by one statement.
- Late answers of searches, of `ListenLaterPage`'s reloads and of the two dashboards
  (`FriendDashboardPage`), which replace each other without a fence.

`PROJECT.json` gives the reason for each component.

## Plan

Done in this order: `ListenInvites` (the feature with the most actors and the most
interleavings), `FriendDashboard` (derived state of the same handlers), `TTLCache`
and `SpotifyGate` with their proofs; then the client (`RatingEditor`,
`ClientSession`, `NotificationBadge`, `SocialPages`, `HomeFeed`, `Comments`),
`Lookups` and `SharedListen` with their refinements, and the small parts of the server (`Avatars`,
`AlbumImport`, `CommentLikes`). Next:

`TTLCache` over `SpotifyGate`, a lookup that is refused.

The twelve runs are kept to the distinct questions: when a module is added, runs
that ask less are merged or give way.
