---------------------------- MODULE RatingEditor ----------------------------
(***************************************************************************)
(* The page on which a user rates an album: a form over one row of the     *)
(* ratings table, saved, published, republished and removed by handlers    *)
(* that wait for the server while the form goes on living, and a guard     *)
(* that asks before unsaved edits are left.                                *)
(* Code: pages/RatingEditorPage.tsx, lib/unsavedChanges.tsx,               *)
(* components/UnsavedChangesModal.tsx, api/ratings.ts, routers/ratings.py. *)
(*                                                                         *)
(* A step is what React does in one go: an event handler up to its first   *)
(* await, or what follows an await, with the rendering and the effects     *)
(* that come of it.  The server reads the row and checks it in one step    *)
(* and commits in another, without a lock in between; answers overtake     *)
(* each other.  A request may fail, and so may its answer.                 *)
(***************************************************************************)
EXTENDS Naturals, FiniteSets

CONSTANTS
    Tracks,      \* the tracks of the album
    TopSize,     \* TOP_5_SIZE
    Scores,      \* the scores the slider gives
    Noted,       \* bound: the tracks the user writes notes about
    Texts,       \* the notes a user writes, none of them blank
    Blank,       \* the note that has been erased, ""
    None,        \* null
    Found,       \* bound: the ratings the page may find
    Calls,       \* bound: the handlers that may wait for an answer at once
    MaxEdits,    \* bound: the edits of one visit
    MaxFaults    \* bound: the requests and answers that are lost

ASSUME ConstantsAssumption ==
    /\ {TopSize, MaxEdits, MaxFaults} \subseteq Nat
    /\ Noted \subseteq Tracks
    /\ Blank \notin Texts /\ None \notin Texts \cup {Blank}
    /\ None \notin Tracks /\ None \notin Scores

VARIABLES
    row,         \* the rating on the server, or None
    page,        \* the state of the component
    call,        \* the handlers under way
    edits,       \* how many edits have been made
    faults,      \* how many requests and answers have been lost
    muddled,     \* history: a PATCH was sent while a handler was under way, or its answer lost
    raced        \* history: a PATCH or a publication changed a row that was not the one it had checked

vars == <<row, page, call, edits, faults, muddled, raced>>

----------------------------------------------------------------------------
Slots == 1..TopSize
Contents == [score : Scores \cup {None}, slots : [Slots -> Tracks \cup {None}],
             notes : [Noted -> Texts \cup {Blank, None}]]
Rows == [status : {"draft", "published"}, content : Contents]
Empty == [score |-> None, slots |-> [i \in Slots |-> None], notes |-> [t \in Noted |-> None]]
Draft == [status |-> "draft", content |-> Empty]

Picked(content) == {content.slots[i] : i \in Slots} \ {None}
Full(content) == \A i \in Slots : content.slots[i] # None
Complete(content) == content.score # None /\ Full(content)
Distinct(content) == \A i, j \in Slots :
    i # j /\ content.slots[i] # None => content.slots[i] # content.slots[j]

\* serialize: a note that has been erased is like one that was never there.
Serialized(content) ==
    [content EXCEPT !.notes = [t \in Noted |-> IF @[t] = Blank THEN None ELSE @[t]]]

ASSUME FoundAssumption ==
    /\ Found \subseteq Rows
    /\ \A r \in Found : /\ Distinct(r.content) /\ Serialized(r.content) = r.content
                        /\ r.status = "published" => Complete(r.content)

(* The component: load is the request it waits for before it shows the form,
   rating the status of the rating it holds, comment whether there is text in
   the publish box, drag the track being dragged and whether it comes from a
   slot, blocked what the blocker has stopped: a click on a link or the
   redirect of the page itself. *)
Pages == [load : {"album", "mine", "create", "again", "open", "failed", "left"},
          rating : {"none", "draft", "published"}, form : Contents, saved : Contents,
          comment : BOOLEAN, saving : BOOLEAN, pendingNav : BOOLEAN,
          drag : [track : Tracks, top : BOOLEAN] \cup {None},
          blocked : {"nothing", "link", "own"}]
Mounted == [load |-> "album", rating |-> "none", form |-> Empty, saved |-> Empty,
            comment |-> FALSE, saving |-> FALSE, pendingNav |-> FALSE,
            drag |-> None, blocked |-> "nothing"]
Gone == [Mounted EXCEPT !.load = "left"]
Left == page = Gone

Dirty == ~page.pendingNav /\ (Serialized(page.form) # page.saved \/ page.comment)
PublishBlocked == ~Complete(page.form) \/ (page.rating = "published" /\ ~Dirty)
Usable == page.load = "open" /\ page.blocked = "nothing"

\* told: what is known of the request; seen: the row it was checked against;
\* answer: the last rating it brought.
Stages == {"patch", "publish", "republish", "delete", "comment"}
Kinds == {"save", "quit", "publish", "republish", "remove"}
CallStates == [kind : Kinds \cup {"idle"}, at : Stages \cup {"idle"}, form : Contents, comment : BOOLEAN,
               told : {"waiting", "checked", "ok", "failed"}, seen : Rows \cup {None}, answer : Rows \cup {None}]
Idle == [kind |-> "idle", at |-> "idle", form |-> Empty, comment |-> FALSE,
         told |-> "waiting", seen |-> None, answer |-> None]
Busy(n) == call[n].kind # "idle"
Quitting == \E n \in Calls : call[n].kind = "quit"

Init ==
    /\ row \in Found \cup {None}
    /\ page = Mounted
    /\ call = [n \in Calls |-> Idle]
    /\ edits = 0 /\ faults = 0 /\ muddled = FALSE /\ raced = FALSE

----------------------------------------------------------------------------
(* Opening the page *)

\* Mutant: a save leaves the form as typed, and takes the snapshot of it.
AppliedAsTyped(p, r) ==
    [p EXCEPT !.rating = r.status,
              !.form = IF p.rating = "none" THEN r.content ELSE @,
              !.saved = Serialized(IF p.rating = "none" THEN r.content ELSE p.form)]

\* applyRating: what the server says replaces the form and the snapshot; a
\* score is never taken back.
Applied(p, r) ==
    [p EXCEPT !.rating = r.status,
              !.form = [r.content EXCEPT !.score = IF @ = None THEN p.form.score ELSE @],
              !.saved = Serialized(r.content)]

LoadStep(from, to) == page.load = from /\ page' = [page EXCEPT !.load = to]
Open(from, r) == page.load = from /\ page' = Applied([page EXCEPT !.load = "open"], r)

\* Album first; then the user's rating, a new one, and again the user's when
\* another tab made it in between.
Load ==
    /\ \/ LoadStep("album", "mine") /\ UNCHANGED row
       \/ row # None /\ Open("mine", row) /\ UNCHANGED row
       \/ row = None /\ LoadStep("mine", "create") /\ UNCHANGED row
       \/ row = None /\ row' = Draft /\ Open("create", Draft)
       \/ row # None /\ LoadStep("create", "again") /\ UNCHANGED row
       \/ row # None /\ Open("again", row) /\ UNCHANGED row
    /\ UNCHANGED <<call, edits, faults, muddled, raced>>

\* Without a rating the form opens all the same.
LoadFails ==
    /\ faults < MaxFaults /\ faults' = faults + 1
    /\ \/ LoadStep("album", "failed") \/ LoadStep("mine", "create")
       \/ LoadStep("create", "open") \/ LoadStep("again", "open")
    /\ UNCHANGED <<row, call, edits, muddled, raced>>

\* Another tab, or the acceptance of an invite, starts the same rating.
StartedElsewhere ==
    /\ page.load = "create" /\ row = None
    /\ row' = Draft
    /\ UNCHANGED <<page, call, edits, faults, muddled, raced>>

----------------------------------------------------------------------------
(* Editing the form, which goes on while a handler waits *)

Edit(p) ==
    /\ Usable /\ edits < MaxEdits
    /\ page' = p
    /\ edits' = edits + 1
    /\ UNCHANGED <<row, call, faults, muddled, raced>>

EditForm(content) == page.drag = None /\ Edit([page EXCEPT !.form = content])

SetScore(score) == EditForm([page.form EXCEPT !.score = score])
ChangeNote(t, text) == EditForm([page.form EXCEPT !.notes[t] = text])

Without(slots, t) == [i \in Slots |-> IF slots[i] = t THEN None ELSE slots[i]]

\* handleSetSlot: a track that sits in another slot moves.
SetSlot(slots, i, t) == [Without(slots, t) EXCEPT ![i] = t]

\* The + of a track in the pool puts it in the first slot that is open.
AddTrack(t) == \E i \in Slots :
    /\ t \notin Picked(page.form)
    /\ page.form.slots[i] = None
    /\ \A j \in 1..(i - 1) : page.form.slots[j] # None
    /\ EditForm([page.form EXCEPT !.slots = SetSlot(@, i, t)])

\* The x of a slot.
RemoveTrack(t) ==
    /\ t \in Picked(page.form)
    /\ EditForm([page.form EXCEPT !.slots = Without(@, t)])

ResetTop == Picked(page.form) # {} /\ EditForm([page.form EXCEPT !.slots = Empty.slots])

\* The publish box is there until the rating is published.
TypeComment ==
    /\ page.drag = None /\ page.rating # "published"
    /\ Edit([page EXCEPT !.comment = ~@])

\* A drag begins at a slot or, for a track that is in none, at the pool; an
\* answer may change the form before it ends.  Its two ends count as two edits.
StartDrag(t) ==
    /\ page.drag = None /\ edits + 1 < MaxEdits
    /\ Edit([page EXCEPT !.drag = [track |-> t, top |-> t \in Picked(page.form)]])

\* handleDragEnd: from slot to slot two tracks change places; from the pool, or
\* from a slot the track is no longer in, the one in the target goes.
Dropped(slots, drag, i) ==
    LET source == {j \in Slots : slots[j] = drag.track}
    IN  IF drag.top /\ source # {}
        THEN LET first == CHOOSE j \in source : \A k \in source : j <= k
             IN  [slots EXCEPT ![first] = slots[i], ![i] = drag.track]
        ELSE [slots EXCEPT ![i] = drag.track]

EndDrag ==
    /\ page.drag # None
    /\ \E i \in Slots : Edit([page EXCEPT !.drag = None, !.form.slots = Dropped(@, page.drag, i)])

CancelDrag ==
    /\ Usable /\ page.drag # None
    /\ page' = [page EXCEPT !.drag = None]
    /\ UNCHANGED <<row, call, edits, faults, muddled, raced>>

----------------------------------------------------------------------------
(* The buttons: a handler up to its first await *)

\* Handlers have no names: one that begins takes any place that is free.
Request(n, handler) ==
    /\ ~Busy(n) /\ n = CHOOSE k \in Calls : ~Busy(k)
    /\ page.rating # "none"
    /\ call' = [call EXCEPT ![n] = handler]
    /\ page' = [page EXCEPT !.saving = TRUE]
    /\ muddled' = (muddled \/ \E k \in Calls : Busy(k))
    /\ UNCHANGED <<row, edits, faults, raced>>

Click(n, handler) == Usable /\ page.drag = None /\ ~page.saving /\ Request(n, handler)

\* A handler sees the form and the comment as they were when it was called.
Saving(kind) == [Idle EXCEPT !.kind = kind, !.at = "patch", !.form = page.form]

HandleSave(n) == page.rating = "draft" /\ Click(n, Saving("save"))
HandlePublish(n) ==
    /\ page.rating = "draft" /\ ~PublishBlocked
    /\ Click(n, [Saving("publish") EXCEPT !.comment = page.comment])
HandleRepublish(n) == page.rating = "published" /\ ~PublishBlocked /\ Click(n, Saving("republish"))

\* The bin asks first, which changes nothing else.
HandleRemove(n) == Click(n, [Idle EXCEPT !.kind = "remove", !.at = "delete"])

----------------------------------------------------------------------------
(* The guard *)

\* The router asks the guard as it was last rendered.
Navigated(p, from) == IF Dirty THEN [p EXCEPT !.blocked = from] ELSE Gone

ClickLink ==
    /\ ~Left /\ page.blocked = "nothing" /\ page.drag = None
    /\ page' = Navigated(page, "link")
    /\ UNCHANGED <<row, call, edits, faults, muddled, raced>>

\* Save & quit: every editor that is dirty saves itself.
SaveAndQuit(n) == page.blocked # "nothing" /\ ~Quitting /\ Dirty /\ Request(n, Saving("quit"))

\* Cancel; quit without saving, or when there is nothing to save or nowhere.
Answered ==
    /\ page.blocked # "nothing" /\ ~Quitting
    /\ page' \in {Gone, [page EXCEPT !.blocked = "nothing"]}
    /\ UNCHANGED <<row, call, edits, faults, muddled, raced>>

----------------------------------------------------------------------------
(* The server *)

\* What a value that is sent makes of the one in the row: SQLAlchemy writes what
\* differs from the row it has read, and None sends nothing.
Written(sent, read, now) == IF sent \in {None, read} THEN now ELSE sent

\* Mutant: a note that has been erased is not sent.
MergedLeavesErased(now, read, form) ==
    [score |-> Written(form.score, read.score, now.score),
     slots |-> IF form.slots = read.slots THEN now.slots ELSE form.slots,
     notes |-> [t \in Noted |-> IF form.notes[t] = Blank THEN now.notes[t]
                                ELSE Written(form.notes[t], read.notes[t], now.notes[t])]]

\* What is absent from the patch stays, and a blank note deletes the one read.
Merged(now, read, form) ==
    [score |-> Written(form.score, read.score, now.score),
     slots |-> IF form.slots = read.slots THEN now.slots ELSE form.slots,
     notes |-> [t \in Noted |->
        IF form.notes[t] = Blank THEN (IF read.notes[t] = None THEN now.notes[t] ELSE None)
        ELSE Written(form.notes[t], read.notes[t], now.notes[t])]]

\* A note is inserted where another has been (uq_song_note_rating_track), or
\* updated where none is any more (StaleDataError): the commit fails.
Collides(now, read, form) == \E t \in Noted :
    /\ form.notes[t] \notin {None, Blank, read.notes[t]}
    /\ (now.notes[t] = None) # (read.notes[t] = None)

\* Mutant: a published rating may be patched like a draft.
PatchableAnyhow(r, content) == Distinct(content)

Patchable(r, content) == Distinct(content) /\ (r.status = "published" => Full(content))

\* What a handler asks of the rating it reads.
Admits(r, c) ==
    \/ c.at = "patch" /\ Patchable(r, c.form)
    \/ c.at = "publish" /\ r.status = "draft" /\ Complete(r.content)
    \/ c.at = "republish" /\ r.status = "published" /\ Complete(r.content)
    \/ c.at = "delete"

Is(n, stage, told) == call[n].at = stage /\ call[n].told = told
Know(n, told, seen, answer) ==
    call' = [call EXCEPT ![n] = [@ EXCEPT !.told = told, !.seen = seen, !.answer = answer]]
Tell(n, told) == Know(n, told, None, call[n].answer)
Refuse(n) == Tell(n, "failed") /\ UNCHANGED <<row, raced>>
Put(n, r) == row' = r /\ Know(n, "ok", None, r)

\* _get_rating_or_404, and the checks that follow it.
ReadRating(n) ==
    /\ call[n].at \in {"patch", "publish", "republish", "delete"} /\ call[n].told = "waiting"
    /\ IF row # None /\ Admits(row, call[n])
       THEN Know(n, "checked", row, call[n].answer) /\ UNCHANGED <<row, raced>>
       ELSE Refuse(n)

\* The commits: a row that has gone cannot be updated, but it can be deleted.
PatchRating(n) ==
    /\ Is(n, "patch", "checked")
    /\ IF row # None /\ ~Collides(row.content, call[n].seen.content, call[n].form)
       THEN /\ Put(n, [row EXCEPT !.content = Merged(@, call[n].seen.content, call[n].form)])
            /\ raced' = (raced \/ row.status # call[n].seen.status)
       ELSE Refuse(n)

PublishRating(n) ==
    /\ Is(n, "publish", "checked")
    /\ IF row # None
       THEN /\ Put(n, [row EXCEPT !.status = "published"])
            /\ raced' = (raced \/ row.content # call[n].seen.content)
       ELSE Refuse(n)

RepublishRating(n) ==
    /\ Is(n, "republish", "checked")
    /\ IF row # None THEN Put(n, row) /\ UNCHANGED raced ELSE Refuse(n)

\* The notes go that were read with the rating: another one keeps it.
DeleteRating(n) ==
    /\ Is(n, "delete", "checked")
    /\ IF row # None /\ \E t \in Noted : row.content.notes[t] # None /\ call[n].seen.content.notes[t] = None
       THEN Refuse(n)
       ELSE row' = None /\ Tell(n, "ok") /\ UNCHANGED raced

CreateComment(n) == Is(n, "comment", "waiting") /\ Tell(n, "ok") /\ UNCHANGED <<row, raced>>

Serve(n) ==
    /\ \/ ReadRating(n) \/ PatchRating(n) \/ PublishRating(n) \/ RepublishRating(n)
       \/ DeleteRating(n) \/ CreateComment(n)
    /\ UNCHANGED <<page, edits, faults, muddled>>

\* The request does not get through or is rolled back, or its answer does not
\* get back.
Lose(n) ==
    /\ Busy(n) /\ call[n].told # "failed" /\ faults < MaxFaults
    /\ Tell(n, "failed")
    /\ faults' = faults + 1
    /\ muddled' = (muddled \/ (call[n].at = "patch" /\ call[n].told = "ok"))
    /\ UNCHANGED <<row, page, edits, raced>>

----------------------------------------------------------------------------
(* What follows an await.  A page that has been left shows nothing, but its *)
(* handlers go on.                                                          *)

Hears(n, stage) == call[n].at = stage /\ call[n].told \in {"ok", "failed"}
Refused(n) == call[n].told = "failed"
End(n) == call' = [call EXCEPT ![n] = Idle]
Then(n, stage) ==
    call' = [call EXCEPT ![n] = [Idle EXCEPT !.kind = call[n].kind, !.at = stage, !.comment = call[n].comment,
                                             !.answer = IF stage = "comment" THEN call[n].answer ELSE None]]
Become(p) == page' = IF Left THEN page ELSE p

\* Mutant: only a handler that succeeds gives the buttons back.
FreedIfOk(p, n) == IF Refused(n) THEN p ELSE [p EXCEPT !.saving = FALSE]

\* The finally of a handler.
Freed(p, n) == [p EXCEPT !.saving = FALSE]

\* setPendingNav, and the effect that acts on it once.
Redirected(p) == IF page.pendingNav THEN p ELSE Navigated([p EXCEPT !.pendingNav = TRUE], "own")

\* handleSave, alone or in another handler, does not say whether it failed.
AfterPatch(n) ==
    LET shown == Freed(IF Refused(n) THEN page ELSE Applied(page, call[n].answer), n)
    IN  /\ Hears(n, "patch")
        /\ \/ call[n].kind = "save" /\ End(n) /\ Become(shown)
           \/ call[n].kind = "quit" /\ End(n) /\ Become(Gone)
           \/ call[n].kind \in {"publish", "republish"} /\ Then(n, call[n].kind) /\ Become(shown)

\* A published rating sends its comment after it, or the page redirects.
AfterPublish(n) ==
    /\ Hears(n, "publish")
    /\ IF ~Refused(n) /\ call[n].comment
       THEN Then(n, "comment") /\ UNCHANGED page
       ELSE End(n) /\ Become(IF Refused(n) THEN Freed(page, n) ELSE Redirected(Freed(page, n)))

\* A comment that fails leaves the page where it is, with the rating published.
AfterComment(n) ==
    /\ Hears(n, "comment") /\ End(n)
    /\ Become(IF Refused(n) THEN Applied(Freed(page, n), call[n].answer)
              ELSE Redirected([Freed(page, n) EXCEPT !.comment = FALSE]))

AfterRepublish(n) ==
    /\ Hears(n, "republish") /\ End(n)
    /\ Become(IF Refused(n) THEN Freed(page, n) ELSE Redirected(Freed(page, n)))

\* A removal that succeeds keeps the buttons disabled until the page is left.
AfterDelete(n) ==
    /\ Hears(n, "delete") /\ End(n)
    /\ Become(IF Refused(n) THEN Freed(page, n) ELSE Redirected(page))

Resume(n) ==
    /\ \/ AfterPatch(n) \/ AfterPublish(n) \/ AfterComment(n) \/ AfterRepublish(n)
       \/ AfterDelete(n)
    /\ UNCHANGED <<row, edits, faults, muddled, raced>>

----------------------------------------------------------------------------
ChangeForm ==
    \/ \E score \in Scores : SetScore(score)
    \/ \E t \in Tracks : AddTrack(t) \/ RemoveTrack(t) \/ StartDrag(t)
    \/ \E t \in Noted, text \in Texts \cup {Blank} : ChangeNote(t, text)
    \/ ResetTop \/ TypeComment \/ EndDrag \/ CancelDrag

Press(n) ==
    \/ HandleSave(n) \/ HandlePublish(n) \/ HandleRepublish(n) \/ HandleRemove(n)
    \/ SaveAndQuit(n)

Next ==
    \/ Load \/ LoadFails \/ StartedElsewhere
    \/ ChangeForm \/ ClickLink \/ Answered
    \/ \E n \in Calls : Press(n) \/ Serve(n) \/ Lose(n) \/ Resume(n)

Spec == Init /\ [][Next]_vars

\* Every request ends, by an answer or by the timeout of the client (30 s), and
\* what waits for it goes on.
FairSpec == Spec /\ \A n \in Calls : WF_vars(Serve(n) \/ Resume(n))

----------------------------------------------------------------------------
TypeOK ==
    /\ row \in Rows \cup {None} /\ (row # None => Serialized(row.content) = row.content)
    /\ page \in Pages
    /\ call \in [Calls -> CallStates]
    /\ edits \in 0..MaxEdits /\ faults \in 0..MaxFaults
    /\ muddled \in BOOLEAN /\ raced \in BOOLEAN

\* What the world sees is a whole rating: in whatever order the requests of the
\* page come and fail, a published row has a score, and no track twice.  It has
\* every slot too, unless two of them met on the server: the checks of
\* patch_rating and publish_rating are of a row that is read before the commit and
\* not locked, so a PATCH that was checked against the draft empties a slot of what
\* has been published meanwhile (raced).  The page sends both when it is edited and
\* saved during a publication, whose inner save frees the buttons.
PublishedIsWhole == row # None /\ row.status = "published" =>
    row.content.score # None /\ Distinct(row.content) /\ (Full(row.content) \/ raced)

\* A save makes of the row exactly what the form showed when it was clicked, the
\* notes that were erased included, although the patch only says what to change
\* (handleSave) - as long as no two handlers of the page run at once.
SavesWholeForm == [][
    row # None /\ row' # None /\ row'.content # row.content /\ ~muddled =>
        \E n \in Calls : call[n].at = "patch" /\ row'.content = Serialized(call[n].form)]_vars

\* "Serialized snapshot of the last saved rating state": when no handler runs,
\* the state the form is compared with is the one the server has, whatever was
\* typed while an answer was awaited, and whether it was refused or lost.
SnapshotIsSaved ==
    page.rating # "none" /\ row # None /\ ~muddled /\ (\A n \in Calls : ~Busy(n)) =>
        page.saved = row.content

\* The buttons of the page come back, unless it is on its way out.
ButtonsComeBack == page.saving ~> (~page.saving \/ page.pendingNav)

\* "A pending programmatic navigation performed once the dirty flag has cleared,
\* so our own redirect isn't blocked by the guard."
RedirectNotBlocked == page.blocked # "own"
=============================================================================
