------------------------------ MODULE Comments ------------------------------
(***************************************************************************)
(* The comments of an album: the list, asked for in the order that is      *)
(* selected, the composer that adds one, and of each comment its thumbs,   *)
(* its edit and its removal.  Every answer is put into the list as it is   *)
(* by then.                                                                *)
(* Code: components/CommentsSection.tsx, CommentItem.tsx,                  *)
(* CommentComposer.tsx, api/comments.ts, routers/comments.py.              *)
(*                                                                         *)
(* Dislikes are counted as likes are, and visibility hides the author, not *)
(* the comment: both are left out. So are the notification of a like and   *)
(* the place of each item in the list: of an order only its name is kept   *)
(* (an item that is replaced keeps its place, so that under "Most liked" a *)
(* thumb leaves the items out of that order). An item that is mounted      *)
(* again while it is being changed waits here for the end of that change.  *)
(* An editor that was not touched is as one that is closed, and nothing is *)
(* typed into the editor of a comment that is busy.                        *)
(*                                                                         *)
(* Who leaves the page with a text that is not saved is asked what to do   *)
(* about it (lib/unsavedChanges.tsx, UnsavedChangesModal.tsx).              *)
(***************************************************************************)
EXTENDS Integers, FiniteSets

CONSTANTS
    Ids,         \* the comments there may ever be
    Mine,        \* those the user wrote, or will
    Texts,       \* what a comment may say
    MaxActs,     \* bound: what the user does
    MaxMishaps   \* bound: what others do, and requests that are lost

ASSUME ThreadAssumption ==
    /\ IsFiniteSet(Ids) /\ Ids \subseteq Nat \ {0} /\ Mine \subseteq Ids
    /\ IsFiniteSet(Texts) /\ Texts # {} /\ "" \notin Texts
    /\ MaxActs \in Nat /\ MaxMishaps \in Nat

VARIABLES
    thread,    \* the comments on the server: a function from those there are
    ever,      \* those there have been: a number is not given twice
    sorting,   \* the order that is selected
    shown,     \* what is listed, and the order it was asked for in, or NoList
    drafts,    \* what has been typed: 0 is the composer, the others are editors
    leave,     \* the question that is asked of who leaves with a draft
    listing,   \* the list under way; that of another order is cancelled
    posting,   \* handleAdd
    handlers,  \* the handlers of each comment: two thumbs, and edit or removal
    acts, mishaps,
    behind,    \* history: the comments that are not shown as they are
    overtaken  \* history: whether another order was selected during a posting

threadVars == <<thread, ever, sorting, shown, drafts, leave, listing, posting, handlers, acts, mishaps, behind, overtaken>>

Sorts == {"recent", "score"}
Thumbs == {"first", "second"}        \* bound: two at a time for a comment
Composers == {0} \cup Mine
Handlers == Ids \X (Thumbs \cup {"own"})

NoList == [by |-> "none", has |-> <<>>]
Without(f, c) == [x \in DOMAIN f \ {c} |-> f[x]]
With(f, c, v) == [x \in DOMAIN f \cup {c} |-> IF x = c THEN v ELSE f[x]]

----------------------------------------------------------------------------
(* The endpoints *)

\* The thread holds whom else it is liked by; what is told is a count.
Stored(text, others, reaction) == [text |-> text, others |-> others, reaction |-> reaction]
Likes(r) == r.others + (IF r.reaction = "up" THEN 1 ELSE 0)
ToCommentOut(r) == [text |-> r.text, likes |-> Likes(r), viewer_reaction |-> r.reaction]

ListComments(order) == [by |-> order, has |-> [c \in DOMAIN thread |-> ToCommentOut(thread[c])]]

----------------------------------------------------------------------------
(* What is awaited before the page is left *)

Stay == [at |-> "no", saving |-> {}, had |-> {}, kept |-> <<>>]

Succeeded(k) == [leave EXCEPT !.saving = @ \ {k}]

\* mutant: a save that failed has ended, too
FailedSettles(k) == [leave EXCEPT !.saving = @ \ {k}]

\* Promise.all: the first that fails ends the wait, and the others go on.
Failed(k) == IF k \in leave.saving THEN [Stay EXCEPT !.at = "blocked"] ELSE leave

----------------------------------------------------------------------------
NoData == [by |-> "none", has |-> <<>>]
AtRest == [at |-> "idle", do |-> "none", text |-> "", from |-> <<>>, data |-> NoData, fresh |-> {}]
Sent(act, text, from) == [AtRest EXCEPT !.at = "sent", !.do = act, !.text = text, !.from = from]

ThreadInit ==
    /\ thread \in [{c \in Ids : c \in Mine => \E d \in Mine : d > c} ->
                    {Stored(CHOOSE t \in Texts : TRUE, 0, r) : r \in {"none", "up"}}]
    /\ ever = DOMAIN thread
    /\ sorting = "recent" /\ shown = NoList
    /\ drafts = [k \in Composers |-> ""] /\ leave = Stay
    /\ listing = Sent("list", "recent", <<>>)
    /\ posting = AtRest
    /\ handlers = [h \in Handlers |-> AtRest]
    /\ acts = 0 /\ mishaps = 0
    /\ behind = Ids /\ overtaken = FALSE

\* The question that is asked covers the page.
AtPage == leave.at = "no"
Act == AtPage /\ acts < MaxActs /\ acts' = acts + 1
Mishap == mishaps < MaxMishaps /\ mishaps' = mishaps + 1

\* A comment changes: whatever was read of it, and is not shown yet, is old.
Aged(p, c) == [p EXCEPT !.fresh = @ \ {c}]
AllAged(f, c) == [h \in DOMAIN f |-> Aged(f[h], c)]

\* Others like it, or edit or remove their own.
ByOthers(c) ==
    {With(thread, c, [thread[c] EXCEPT !.others = 1 - @])}
    \cup (IF c \in Mine THEN {}
          ELSE {With(thread, c, [thread[c] EXCEPT !.text = t]) : t \in Texts} \cup {Without(thread, c)})

OthersAct ==
    /\ Mishap
    /\ \E c \in DOMAIN thread :
          /\ thread' \in ByOthers(c)
          /\ behind' = behind \cup {c}
          /\ listing' = Aged(listing, c) /\ posting' = Aged(posting, c) /\ handlers' = AllAged(handlers, c)
    /\ UNCHANGED <<ever, sorting, shown, drafts, leave, acts, overtaken>>

----------------------------------------------------------------------------
(* CommentsSection: the list *)

Listed == DOMAIN shown.has

ShowsList(list, current) == shown' = list /\ behind' = Ids \ current

\* mutant: the request before it goes on instead
SelectKeeping(order) == IF listing.at = "idle" THEN Sent("list", order, <<>>) ELSE listing

\* The effect: the list is asked for again, and the request before it dropped.
\* The items are unmounted, and what has been typed into their editors is lost.
Select(order) == Sent("list", order, <<>>)

SelectSort(order) ==
    /\ Act /\ order # sorting
    /\ sorting' = order
    /\ ShowsList(NoList, {})
    /\ listing' = Select(order)
    /\ overtaken' = (overtaken \/ posting.at # "idle")
    /\ drafts' = [k \in Composers |-> IF k = 0 THEN drafts[0] ELSE ""]
    /\ UNCHANGED <<thread, ever, leave, posting, handlers, mishaps>>

ServeList ==
    /\ listing.at = "sent"
    /\ listing' = [listing EXCEPT !.at = "read", !.data = ListComments(listing.text), !.fresh = Ids]
    /\ UNCHANGED <<thread, ever, sorting, shown, drafts, leave, posting, handlers, acts, mishaps, behind, overtaken>>

ShowList ==
    /\ listing.at = "read"
    /\ ShowsList(listing.data, listing.fresh)
    /\ listing' = AtRest
    /\ overtaken' = (posting.at # "idle" /\ overtaken)
    /\ UNCHANGED <<thread, ever, sorting, drafts, leave, posting, handlers, acts, mishaps>>

\* An alert, above what goes on looking like a list that is being loaded.
LoseList ==
    /\ listing.at = "sent" /\ Mishap
    /\ listing' = AtRest
    /\ UNCHANGED <<thread, ever, sorting, shown, drafts, leave, posting, handlers, acts, behind, overtaken>>

----------------------------------------------------------------------------
(* CommentComposer, and handleAdd *)

Busy(k) == IF k = 0 THEN posting.at # "idle" ELSE handlers[k, "own"].at # "idle"

Type(k, text) ==
    /\ Act /\ text \notin {drafts[k], IF k \in Listed THEN shown.has[k].text ELSE ""}
    /\ k # 0 => k \in Listed /\ ~Busy(k)
    /\ drafts' = [drafts EXCEPT ![k] = text]
    /\ UNCHANGED <<thread, ever, sorting, shown, leave, listing, posting, handlers, mishaps, behind, overtaken>>

\* The text is taken out again, or the editor of a comment closed.
Discard(k) ==
    /\ AtPage /\ drafts[k] # "" /\ (k # 0 => ~Busy(k))
    /\ drafts' = [drafts EXCEPT ![k] = ""]
    /\ UNCHANGED <<thread, ever, sorting, shown, leave, listing, posting, handlers, acts, mishaps, behind, overtaken>>

\* handleSubmit, of a composer that is not busy.  The order is that of the
\* moment of the click.
Submitted(k) == drafts[k] # "" /\ ~Busy(k)
Posting == [Sent("add", drafts[0], <<>>) EXCEPT !.data.by = sorting]
Editing(c) == [Sent("edit", drafts[c], <<>>) EXCEPT !.fresh = {c}]

HandleAdd ==
    /\ AtPage /\ Submitted(0)
    /\ posting' = Posting
    /\ UNCHANGED <<thread, ever, sorting, shown, drafts, leave, listing, handlers, acts, mishaps, behind, overtaken>>

CreateComment ==
    /\ posting.at = "sent"
    /\ \E c \in Mine \ ever :
          /\ ever' = ever \cup {c}
          /\ behind' = behind \cup {c}
          /\ thread' = With(thread, c, Stored(posting.text, 0, "none"))
          /\ listing' = Aged(listing, c) /\ handlers' = AllAged(handlers, c)
          /\ posting' = [posting EXCEPT !.at = "done"]
    /\ UNCHANGED <<sorting, shown, drafts, leave, acts, mishaps, overtaken>>

ListAgain ==
    /\ posting.at = "done"
    /\ posting' = [posting EXCEPT !.at = "read", !.data = ListComments(posting.data.by), !.fresh = Ids]
    /\ UNCHANGED <<thread, ever, sorting, shown, drafts, leave, listing, handlers, acts, mishaps, behind, overtaken>>

\* The composer is emptied, whatever has been typed since.
ShowAdded ==
    /\ posting.at = "read"
    /\ ShowsList(posting.data, posting.fresh)
    /\ drafts' = [drafts EXCEPT ![0] = ""]
    /\ leave' = Succeeded(0)
    /\ posting' = AtRest
    /\ UNCHANGED <<thread, ever, sorting, listing, handlers, acts, mishaps, overtaken>>

\* The draft stays, also when it is the list that is lost.
LoseAdd ==
    /\ posting.at \in {"sent", "done"} /\ Mishap
    /\ posting' = AtRest
    /\ leave' = Failed(0)
    /\ UNCHANGED <<thread, ever, sorting, shown, drafts, listing, handlers, acts, behind, overtaken>>

----------------------------------------------------------------------------
(* CommentItem *)

\* The comment of the render in which the thumb was clicked is kept.  The
\* editor hides the thumbs and the menu of its item.
React(c, k) ==
    /\ Act /\ c \in Listed /\ handlers[c, k].at = "idle"
    /\ c \in Composers => drafts[c] = ""
    /\ LET value == IF shown.has[c].viewer_reaction = "up" THEN "none" ELSE "up" IN
       handlers' = [handlers EXCEPT ![<<c, k>>] = [Sent("react", value, shown.has[c]) EXCEPT !.fresh = {c} \ behind]]
    /\ UNCHANGED <<thread, ever, sorting, shown, drafts, leave, listing, posting, mishaps, behind, overtaken>>

\* Busy until it has been answered.
HandleEdit(c) ==
    /\ AtPage /\ Submitted(c)
    /\ handlers' = [handlers EXCEPT ![<<c, "own">>] = Editing(c)]
    /\ UNCHANGED <<thread, ever, sorting, shown, drafts, leave, listing, posting, acts, mishaps, behind, overtaken>>

HandleDelete(c) ==
    /\ Act /\ c \in Listed \cap Mine /\ handlers[c, "own"].at = "idle" /\ drafts[c] = ""
    /\ handlers' = [handlers EXCEPT ![<<c, "own">>] = [Sent("delete", "", <<>>) EXCEPT !.fresh = {c}]]
    /\ UNCHANGED <<thread, ever, sorting, shown, drafts, leave, listing, posting, mishaps, behind, overtaken>>

Done(p, c) ==
    CASE p.do = "react" -> With(thread, c, [thread[c] EXCEPT !.reaction = p.text])
      [] p.do = "edit" -> With(thread, c, [thread[c] EXCEPT !.text = p.text])
      [] OTHER -> Without(thread, c)

\* What is told of a reaction is put into the comment that was kept.
Answer(p, c) ==
    CASE p.do = "react" ->
            LET told == ToCommentOut(Done(p, c)[c]) IN
            [p.from EXCEPT !.likes = told.likes, !.viewer_reaction = told.viewer_reaction]
      [] p.do = "edit" -> ToCommentOut(Done(p, c)[c])
      [] OTHER -> <<>>

ServeItem(h) ==
    LET c == h[1]
        p == handlers[h] IN
    /\ p.at = "sent" /\ c \in DOMAIN thread
    /\ thread' = Done(p, c)
    /\ handlers' = [AllAged(handlers, c) EXCEPT ![h] = [p EXCEPT !.at = "read", !.from = Answer(p, c)]]
    /\ listing' = Aged(listing, c) /\ posting' = Aged(posting, c)
    /\ behind' = behind \cup {c}
    /\ UNCHANGED <<ever, sorting, shown, drafts, leave, acts, mishaps, overtaken>>

\* onUpdated and onDeleted look for it in the list as it is by now.
Replaced(list, c, comment) ==
    IF c \in DOMAIN list.has THEN [list EXCEPT !.has = With(@, c, comment)] ELSE list

ShowItem(h) ==
    LET c == h[1]
        p == handlers[h] IN
    /\ p.at = "read"
    /\ shown' = IF p.do = "delete" THEN [shown EXCEPT !.has = Without(@, c)]
                ELSE Replaced(shown, c, p.from)
    /\ behind' = IF c \in Listed THEN (behind \ {c}) \cup ({c} \ p.fresh) ELSE behind
    /\ drafts' = IF p.do = "edit" THEN [drafts EXCEPT ![c] = ""] ELSE drafts
    /\ leave' = IF p.do = "edit" THEN Succeeded(c) ELSE leave
    /\ handlers' = [handlers EXCEPT ![h] = AtRest]
    /\ UNCHANGED <<thread, ever, sorting, listing, posting, acts, mishaps, overtaken>>

\* It is not there any more, or the request or its answer is lost.
LoseItem(h) ==
    /\ \/ handlers[h].at = "sent" /\ h[1] \notin DOMAIN thread /\ UNCHANGED mishaps
       \/ handlers[h].at # "idle" /\ Mishap
    /\ leave' = IF handlers[h].do = "edit" THEN Failed(h[1]) ELSE leave
    /\ handlers' = [handlers EXCEPT ![h] = AtRest]
    /\ UNCHANGED <<thread, ever, sorting, shown, drafts, listing, posting, acts, behind, overtaken>>

----------------------------------------------------------------------------
(* The guard: UnsavedChangesProvider, useUnsavedNavigationGuard and the modal *)

Dirty == {k \in Composers : drafts[k] # ""}

\* useBlocker: with nothing to save the page is left, which is its end.
Leave ==
    /\ Act /\ Dirty # {}
    /\ leave' = [leave EXCEPT !.at = "blocked"]
    /\ UNCHANGED <<thread, ever, sorting, shown, drafts, listing, posting, handlers, mishaps, behind, overtaken>>

\* saveAll: every dirty composer submits at once.  One that is busy has
\* nothing to wait for, and is not waited for.
SaveAll ==
    LET saving == {k \in Composers : Submitted(k)} IN
    /\ leave.at = "blocked"
    /\ leave' = [at |-> "saving", saving |-> saving, had |-> DOMAIN thread,
                 kept |-> [k \in saving |-> drafts[k]]]
    /\ posting' = IF 0 \in saving THEN Posting ELSE posting
    /\ handlers' = [h \in Handlers |->
                      IF h[2] = "own" /\ h[1] \in saving THEN Editing(h[1]) ELSE handlers[h]]
    /\ UNCHANGED <<thread, ever, sorting, shown, drafts, listing, acts, mishaps, behind, overtaken>>

Proceed ==
    /\ leave.at = "saving" /\ leave.saving = {}
    /\ leave' = [leave EXCEPT !.at = "saved"]
    /\ UNCHANGED <<thread, ever, sorting, shown, drafts, listing, posting, handlers, acts, mishaps, behind, overtaken>>

\* Quit without saving, or Cancel.
Answers(choice) ==
    /\ leave.at = "blocked"
    /\ leave' = [Stay EXCEPT !.at = choice]
    /\ UNCHANGED <<thread, ever, sorting, shown, drafts, listing, posting, handlers, acts, mishaps, behind, overtaken>>

----------------------------------------------------------------------------
ThreadNext ==
    /\ leave.at \notin {"saved", "quit"}
    /\ \/ OthersAct
       \/ \E s \in Sorts : SelectSort(s)
       \/ ServeList \/ ShowList \/ LoseList
       \/ \E k \in Composers, t \in Texts : Type(k, t)
       \/ \E k \in Composers : Discard(k)
       \/ HandleAdd \/ CreateComment \/ ListAgain \/ ShowAdded \/ LoseAdd
       \/ \E c \in Ids, k \in Thumbs : React(c, k)
       \/ \E c \in Mine : HandleEdit(c) \/ HandleDelete(c)
       \/ \E h \in Handlers : ServeItem(h) \/ ShowItem(h) \/ LoseItem(h)
       \/ Leave \/ SaveAll \/ Proceed \/ \E choice \in {"quit", "no"} : Answers(choice)

ThreadSpec == ThreadInit /\ [][ThreadNext]_threadVars

----------------------------------------------------------------------------
\* Whatever lists, posts, edits, removals and thumbs overlap, the list shown is
\* one that was asked for in the order that is selected, and each comment is shown
\* as it is on the server, or not if it is gone - unless it was changed by another,
\* or a request about it was lost, or changed between the click or the read of an
\* answer and its end; and an order selected during a posting may be undone by it.
\* Nothing is said of the places of the items within the list.
ThreadIsTheServers ==
    shown # NoList =>
        /\ shown.by = sorting \/ overtaken
        /\ \A c \in Ids \ behind :
              /\ c \in Listed <=> c \in DOMAIN thread
              /\ c \in Listed => shown.has[c] = ToCommentOut(thread[c])

\* Who leaves the page with Save & quit has lost no draft that it took: each that
\* was not on its way by then is on the server, whichever of the saves failed, in
\* which order they ended, and how often it took.  A composer or an editor that is
\* busy submits nothing (CommentComposer.tsx:120), so what has been typed over a
\* posting is neither on its way nor taken: `kept` leaves it out, and it is lost.
QuitKeepsDrafts ==
    leave.at = "saved" =>
        \A k \in DOMAIN leave.kept :
            \E c \in (IF k = 0 THEN Mine \ leave.had ELSE {k}) \cap DOMAIN thread :
                thread[c].text = leave.kept[k]
=============================================================================
