------------------------------ MODULE HomeFeed ------------------------------
(***************************************************************************)
(* The activity feed of the home page: pages of the newest ratings,        *)
(* comments and friendships, each page below the cursor of the one before, *)
(* while categories are toggled and events come and go.                    *)
(* Code: get_feed in routers/home.py, components/ActivityFeed.tsx.         *)
(***************************************************************************)
EXTENDS Integers, FiniteSets, Sequences, SequencesExt

CONSTANTS
    Events,      \* the events of the user and of friends there may ever be
    Time,        \* when each happened
    Category,    \* ratings, comments or friends
    Private,     \* the comments of friends that are not for the user to see
    Limit,       \* how many a page holds
    MaxToggles,  \* bound: how often a category is toggled
    MaxChanges   \* bound: how many events come or go

Categories == {"ratings", "comments", "friends"}
Now == 1000   \* later than any event

ASSUME FeedAssumption ==
    /\ IsFiniteSet(Events)
    /\ Time \in [Events -> 0..(Now - 1)] /\ Category \in [Events -> Categories]
    /\ \A e, f \in Events : Time[e] = Time[f] => e = f   \* a bound: no two at one instant
    /\ \A e \in Private : e \in Events /\ Category[e] = "comments"
    /\ Limit \in Nat \ {0}
    /\ MaxToggles \in Nat /\ MaxChanges \in Nat

VARIABLES
    events,      \* what has happened and has not been undone
    selected,    \* the categories that are shown
    items,       \* what is shown, or Loading
    nextBefore,  \* the cursor of the next page, or None
    first,       \* the request of the first page; that of another selection is cancelled
    more,        \* the request of the next one (loadingMore)
    toggles, changes,
    known,       \* history: what the first page was chosen from
    mixed        \* history: whether a page of another selection was on its way

feedVars == <<events, selected, items, nextBefore, first, more, toggles, changes, known, mixed>>

Loading == "loading"
None == 0

----------------------------------------------------------------------------
(* get_feed *)

Later(e, f) == Time[e] > Time[f]

\* How many of S come before e, newest first.
Rank(S, e) == Cardinality({f \in S : Later(f, e)})
PageSize(S) == IF Cardinality(S) < Limit THEN Cardinality(S) ELSE Limit
Sorted(S) == [i \in 1..Cardinality(S) |-> CHOOSE e \in S : Rank(S, e) = i - 1]
Newest(S) == SubSeq(Sorted(S), 1, PageSize(S))

Shown(e) == e \notin Private

\* mutant: the last of a page, and again the first of the next
SourceInclusive(c, cutoff) ==
    {e \in ToSet(Newest({x \in events : Category[x] = c /\ Time[x] <= cutoff})) : Shown(e)}

\* A source gives its newest rows below the cursor; of the comments, those that
\* are private are dropped after that.
Source(c, cutoff) == {e \in ToSet(Newest({x \in events : Category[x] = c /\ Time[x] < cutoff})) : Shown(e)}

Cursor(page) == IF Len(page) = Limit THEN Time[page[Len(page)]] ELSE None

GetFeed(before, types) ==
    LET page == Newest(UNION {Source(c, IF before = None THEN Now ELSE before) : c \in types}) IN
    [items |-> page, next |-> Cursor(page)]

----------------------------------------------------------------------------
(* ActivityFeed *)

NoPage == [items |-> <<>>, next |-> None]
NoRequest == [at |-> "none", before |-> None, types |-> {}, page |-> NoPage]
Request(before) == [NoRequest EXCEPT !.at = "sent", !.before = before, !.types = selected]

FeedInit ==
    /\ events \in SUBSET Events
    /\ selected = Categories
    /\ items = Loading /\ nextBefore = None
    /\ first = [NoRequest EXCEPT !.at = "sent", !.types = Categories]
    /\ more = NoRequest
    /\ toggles = 0 /\ changes = 0
    /\ known = {} /\ mixed = FALSE

\* Selecting nothing asks for nothing; whatever was asked for is cancelled.
FirstPage(types) == IF types = {} THEN NoRequest ELSE [NoRequest EXCEPT !.at = "sent", !.types = types]

ToggleCategory(c) ==
    /\ toggles < MaxToggles /\ toggles' = toggles + 1
    /\ selected' = IF c \in selected THEN selected \ {c} ELSE selected \cup {c}
    /\ first' = FirstPage(selected')
    /\ items' = IF selected' = {} THEN <<>> ELSE Loading
    /\ nextBefore' = IF selected' = {} THEN None ELSE nextBefore
    /\ known' = {}
    /\ mixed' = (more.at # "none")
    /\ UNCHANGED <<events, more, changes>>

ServeFirst ==
    /\ first.at = "sent"
    /\ first' = [first EXCEPT !.at = "read", !.page = GetFeed(None, first.types)]
    /\ known' = {e \in events : Shown(e) /\ Category[e] \in selected}
    /\ UNCHANGED <<events, selected, items, nextBefore, more, toggles, changes, mixed>>

ShowFirst ==
    /\ first.at = "read"
    /\ items' = first.page.items
    /\ nextBefore' = first.page.next
    /\ first' = NoRequest
    /\ UNCHANGED <<events, selected, more, toggles, changes, known, mixed>>

\* An alert, for good: only another selection asks again.
LoseFirst ==
    /\ first.at = "sent"
    /\ first' = NoRequest
    /\ UNCHANGED <<events, selected, items, nextBefore, more, toggles, changes, known, mixed>>

\* One page at a time, from the button or when the end scrolls into view.
LoadMore ==
    /\ items # Loading /\ items # <<>> /\ nextBefore # None
    /\ more.at = "none"
    /\ more' = Request(nextBefore)
    /\ UNCHANGED <<events, selected, items, nextBefore, first, toggles, changes, known, mixed>>

ServeMore ==
    /\ more.at = "sent"
    /\ more' = [more EXCEPT !.at = "read", !.page = GetFeed(more.before, more.types)]
    /\ UNCHANGED <<events, selected, items, nextBefore, first, toggles, changes, known, mixed>>

\* Appended to whatever is shown by then.
ShowMore ==
    /\ more.at = "read"
    /\ items' = IF items = Loading THEN more.page.items ELSE items \o more.page.items
    /\ nextBefore' = more.page.next
    /\ more' = NoRequest
    /\ UNCHANGED <<events, selected, first, toggles, changes, known, mixed>>

\* Nothing changes but an alert; the next page can be asked for again.
LoseMore ==
    /\ more.at = "sent"
    /\ more' = NoRequest
    /\ UNCHANGED <<events, selected, items, nextBefore, first, toggles, changes, known, mixed>>

\* Something happens, or comes into the feed with a new friend, or is undone.
Happen(e) ==
    /\ changes < MaxChanges /\ changes' = changes + 1
    /\ events' = IF e \in events THEN events \ {e} ELSE events \cup {e}
    /\ known' = known \ {e}
    /\ UNCHANGED <<selected, items, nextBefore, first, more, toggles, mixed>>

FeedNext ==
    \/ \E c \in Categories : ToggleCategory(c)
    \/ ServeFirst \/ ShowFirst \/ LoseFirst
    \/ LoadMore \/ ServeMore \/ ShowMore \/ LoseMore
    \/ \E e \in Events : Happen(e)

FeedSpec == FeedInit /\ [][FeedNext]_feedVars

----------------------------------------------------------------------------
\* The pages join up: whatever the feed was chosen from and is still there is
\* shown once, newest first, down to the cursor (to the end, when there is
\* none), whatever has happened since and whichever categories have been
\* toggled - unless they were while an older page was on its way.
FeedHasNoHoles ==
    items # Loading /\ ~mixed =>
        /\ \A i, j \in 1..Len(items) : i < j => Later(items[i], items[j])
        /\ \A i \in 1..Len(items) : Category[items[i]] \in selected
        /\ \A e \in known : nextBefore = None \/ Time[e] >= nextBefore => e \in ToSet(items)
=============================================================================
