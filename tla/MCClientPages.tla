--------------------------- MODULE MCClientPages ---------------------------
EXTENDS SocialPages, HomeFeed, Comments

\* What the tab has open: the feed, the comments of an album, or another page.
VARIABLE open

FeedEvents == 1..6
FeedTime == [e \in FeedEvents |-> 10 * e]
FeedCategory ==
    [e \in FeedEvents |->
        IF e \in {2, 4, 5} THEN "comments" ELSE IF e \in {1, 3} THEN "ratings" ELSE "friends"]

\* What a page does not show is the same in every run of it.
PagesStart ==
    /\ PagesInit
    /\ page \in {"friends", "own", "pair"} \cup Others => \A o \in Others : db.invite[o].is = "none"
    /\ page \in {"friends", "detail"} => db.published = {}
    /\ page \in {"own", "pair"} \cup Others => db.mine = "published"
    /\ page = "friends" => db.mine = "none"
    /\ page = "pair" => compare # Solo
    /\ page \in Others => db.published \subseteq {page} /\ \A o \in Others \ {page} : db.friendship[o].is = "none"
    /\ page \in {"album", "later"} => \A o \in Others : db.friendship[o].is \in {"none", "friends"}

NothingStored ==
    /\ db.mine = "none" /\ db.published = {}
    /\ \A o \in Others : db.friendship[o].is = "none"

\* The pages that are not open wait, each with one thing it might be opened on.
Init ==
    /\ open \in {"feed", "comments", "social"}
    /\ FeedInit /\ (open # "feed" => events = {})
    /\ ThreadInit
    /\ \A c \in DOMAIN thread : thread[c].reaction = "none"
    /\ PagesStart /\ (open # "social" => NothingStored /\ page = "detail")

Next ==
    \/ open = "feed" /\ FeedNext /\ UNCHANGED <<open, threadVars, pageVars>>
    \/ open = "comments" /\ ThreadNext /\ UNCHANGED <<open, feedVars, pageVars>>
    \/ open = "social" /\ PagesNext /\ UNCHANGED <<open, feedVars, threadVars>>

Spec == Init /\ [][Next]_<<open, feedVars, threadVars, pageVars>>
=============================================================================
