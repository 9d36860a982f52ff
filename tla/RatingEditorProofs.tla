------------------------- MODULE RatingEditorProofs -------------------------
(***************************************************************************)
(* For any tracks, notes, handlers and faults: what the world sees has a   *)
(* score and no track twice, and every slot unless a commit met a row that *)
(* was not the one it had checked (PublishedWhole); and as long as no two  *)
(* handlers of the page run at once a save writes the form (Saves) and     *)
(* leaves the page with the state of the server (Snapshot).                *)
(*                                                                         *)
(* The patch says only what to change, so a save writes the form if what   *)
(* the form has not (no score, no note) the row has not either (Covers):   *)
(* that holds of the form and the snapshot, and of the snapshot and the    *)
(* row while nothing is under way.                                         *)
(***************************************************************************)
EXTENDS RatingEditor, TLAPS

----------------------------------------------------------------------------
(* The inductive invariant *)

\* What the one has no score or note for, the other has none for.
Covers(form, content) ==
    /\ form.score = None => content.score = None
    /\ \A t \in Noted : form.notes[t] = None => content.notes[t] = None

RowOK == row # None =>
    /\ Distinct(row.content)
    /\ row.status = "published" => row.content.score # None /\ (Full(row.content) \/ raced)

\* What a handler has read and checked may have changed since, but a score is
\* never taken back.
CheckedOK == \A n \in Calls : call[n].told = "checked" =>
    /\ call[n].seen \in Rows /\ Admits(call[n].seen, call[n])
    /\ row # None /\ call[n].seen.content.score # None => row.content.score # None

\* Only an open page has a rating, and only one that was open has handlers.
PageOK ==
    /\ page.load = "left" => page = Gone
    /\ page.load # "open" => page.rating = "none"
    /\ Covers(page.form, page.saved)
    /\ \A n \in Calls : Busy(n) => page.load \in {"open", "left"}

\* A handler that holds a rating: the answer to the last request, or the one
\* before it where a comment is sent.
Brings(n) ==
    call[n].at = "comment" \/ (call[n].at \in {"patch", "publish"} /\ call[n].told = "ok")

CallsOK == \A n \in Calls :
    /\ Busy(n) <=> call[n].at # "idle"
    /\ Brings(n) => call[n].answer \in Rows

\* As long as no two handlers run at once, nothing but the one that does can come
\* between the page and the row.
InStep == ~muddled =>
    /\ \A m, n \in Calls : Busy(m) /\ Busy(n) => m = n
    /\ row # None =>
         /\ page.rating # "none" =>
               page.saved = row.content \/ \E n \in Calls : call[n].at = "patch" /\ call[n].told = "ok"
         /\ \A n \in Calls : Brings(n) => call[n].answer.content = row.content
         /\ \A n \in Calls : call[n].told = "checked" => call[n].seen.content = row.content
         /\ \A n \in Calls : call[n].at = "patch" /\ call[n].told \in {"waiting", "checked"} =>
               Covers(call[n].form, row.content)

IInv == TypeOK /\ RowOK /\ PageOK /\ CallsOK /\ CheckedOK /\ InStep

----------------------------------------------------------------------------
(* What the operators give *)

\* The state of a form, changed in one part, is one.
LEMMA FormsStayForms ==
  ASSUME NEW c \in Contents, NEW score \in Scores \cup {None}, NEW slots \in [Slots -> Tracks \cup {None}],
         NEW notes \in [Noted -> Texts \cup {Blank, None}]
  PROVE  /\ c.score \in Scores \cup {None} /\ c.slots \in [Slots -> Tracks \cup {None}]
         /\ c.notes \in [Noted -> Texts \cup {Blank, None}]
         /\ [c EXCEPT !.score = score] \in Contents
         /\ [c EXCEPT !.slots = slots] \in Contents
         /\ [c EXCEPT !.notes = notes] \in Contents
         /\ [score |-> score, slots |-> slots, notes |-> notes] \in Contents
  BY DEF Contents

\* Two states of a form are the same if their parts are.
LEMMA FormsEqual ==
  ASSUME NEW c \in Contents, NEW d \in Contents, c.score = d.score, c.slots = d.slots,
         \A t \in Noted : c.notes[t] = d.notes[t]
  PROVE  c = d
<1>1. c.notes = d.notes
  BY DEF Contents
<1>2. QED
  BY <1>1 DEF Contents

\* serialize: the erased notes go, the rest stays.
LEMMA SerializedForm ==
  ASSUME NEW c \in Contents
  PROVE  /\ Serialized(c) \in Contents
         /\ Serialized(c).score = c.score /\ Serialized(c).slots = c.slots
         /\ \A t \in Noted : Serialized(c).notes[t] = IF c.notes[t] = Blank THEN None ELSE c.notes[t]
         /\ Serialized(c) = c <=> \A t \in Noted : c.notes[t] # Blank
<1> DEFINE notes == [t \in Noted |-> IF c.notes[t] = Blank THEN None ELSE c.notes[t]]
<1>1. notes \in [Noted -> Texts \cup {Blank, None}]
  BY DEF Contents
<1>2. \A t \in Noted : notes[t] = IF c.notes[t] = Blank THEN None ELSE c.notes[t]
  OBVIOUS
<1>3. Serialized(c) = [c EXCEPT !.notes = notes]
  BY DEF Serialized
<1> HIDE DEF notes
<1>4. /\ Serialized(c) \in Contents
      /\ Serialized(c).score = c.score /\ Serialized(c).slots = c.slots /\ Serialized(c).notes = notes
  BY <1>1, <1>3 DEF Contents
<1>5. ASSUME \A t \in Noted : c.notes[t] # Blank PROVE Serialized(c) = c
  BY <1>2, <1>4, <1>5, FormsEqual
<1>6. ASSUME Serialized(c) = c, NEW t \in Noted PROVE c.notes[t] # Blank
  BY <1>2, <1>4, <1>6, ConstantsAssumption
<1>7. QED
  BY <1>2, <1>4, <1>5, <1>6

\* patch_rating: what it leaves is a form without erased notes, with the slots of
\* the row or of the form, and with the score of the row if that of the form is
\* missing; it is the form it was sent if nothing came in between and that has
\* whatever the row has.
LEMMA MergedForm ==
  ASSUME NEW now \in Contents, Serialized(now) = now, NEW read \in Contents, NEW c \in Contents
  PROVE  /\ Merged(now, read, c) \in Contents /\ Serialized(Merged(now, read, c)) = Merged(now, read, c)
         /\ Merged(now, read, c).slots \in {now.slots, c.slots}
         /\ Merged(now, read, c).slots = now.slots => read.slots = c.slots \/ now.slots = c.slots
         /\ Merged(now, read, c).score = None => now.score = None
         /\ read = now /\ Covers(c, now) => Merged(now, read, c) = Serialized(c)
<1> DEFINE notes == [t \in Noted |->
                       IF c.notes[t] = Blank THEN (IF read.notes[t] = None THEN now.notes[t] ELSE None)
                       ELSE Written(c.notes[t], read.notes[t], now.notes[t])]
           slots == IF c.slots = read.slots THEN now.slots ELSE c.slots
           score == Written(c.score, read.score, now.score)
<1>1. \A t \in Noted : notes[t] = IF c.notes[t] = Blank THEN (IF read.notes[t] = None THEN now.notes[t] ELSE None)
                                  ELSE IF c.notes[t] \in {None, read.notes[t]} THEN now.notes[t] ELSE c.notes[t]
  BY DEF Written
<1>2. \A t \in Noted : /\ now.notes[t] \in Texts \cup {Blank, None} /\ now.notes[t] # Blank
                       /\ c.notes[t] \in Texts \cup {Blank, None}
  BY SerializedForm DEF Contents
<1>3. score \in Scores \cup {None} /\ slots \in [Slots -> Tracks \cup {None}]
  BY DEF Contents, Written
<1>4. Merged(now, read, c) = [score |-> score, slots |-> slots, notes |-> notes]
  BY DEF Merged
<1>5. notes = [t \in Noted |-> notes[t]]
  OBVIOUS
<1>6. score = IF c.score \in {None, read.score} THEN now.score ELSE c.score
  BY DEF Written
<1>7. slots = IF c.slots = read.slots THEN now.slots ELSE c.slots
  OBVIOUS
<1> HIDE DEF notes, slots, score
<1>8. \A t \in Noted : notes[t] \in Texts \cup {None} /\ notes[t] # Blank
  BY <1>1, <1>2, ConstantsAssumption
<1>9. notes \in [Noted -> Texts \cup {Blank, None}]
  BY <1>5, <1>8
<1>10. Merged(now, read, c) \in Contents
  BY <1>3, <1>4, <1>9 DEF Contents
<1>11. Merged(now, read, c).score = score /\ Merged(now, read, c).slots = slots /\ Merged(now, read, c).notes = notes
  BY <1>4
<1>12. Serialized(Merged(now, read, c)) = Merged(now, read, c)
  BY <1>8, <1>10, <1>11, SerializedForm
<1>13. ASSUME read = now, Covers(c, now) PROVE Merged(now, read, c) = Serialized(c)
  <2>1. score = c.score /\ slots = c.slots
    BY <1>6, <1>7, <1>13 DEF Covers
  <2>2. \A t \in Noted : notes[t] = IF c.notes[t] = Blank THEN None ELSE c.notes[t]
    BY <1>1, <1>13, ConstantsAssumption DEF Covers
  <2>3. /\ Serialized(c) \in Contents /\ Serialized(c).score = c.score /\ Serialized(c).slots = c.slots
        /\ \A t \in Noted : Serialized(c).notes[t] = IF c.notes[t] = Blank THEN None ELSE c.notes[t]
    BY SerializedForm
  <2>4. QED
    BY <1>10, <1>11, <2>1, <2>2, <2>3, FormsEqual
<1>14. QED
  BY <1>6, <1>7, <1>10, <1>11, <1>12, <1>13

\* applyRating: the page holds the rating, and its form has what the rating has.
LEMMA AppliedPage ==
  ASSUME NEW p \in Pages, NEW r \in Rows
  PROVE  /\ Applied(p, r) \in Pages
         /\ Applied(p, r).load = p.load /\ Applied(p, r).rating = r.status
         /\ Applied(p, r).saved = Serialized(r.content)
         /\ Covers(Applied(p, r).form, Applied(p, r).saved)
<1>1. r.content \in Contents /\ r.status \in {"draft", "published"} /\ p.form \in Contents
  BY DEF Rows, Pages
<1> DEFINE score == IF r.content.score = None THEN p.form.score ELSE r.content.score
           form == [r.content EXCEPT !.score = score]
           saved == Serialized(r.content)
<1>2. form \in Contents
  BY <1>1 DEF Contents
<1>3. (form.score = None => r.content.score = None) /\ form.notes = r.content.notes
  BY <1>1 DEF Contents
<1>4. saved \in Contents /\ saved.score = r.content.score
      /\ \A t \in Noted : saved.notes[t] = IF r.content.notes[t] = Blank THEN None ELSE r.content.notes[t]
  BY <1>1, SerializedForm
<1>5. Applied(p, r) = [p EXCEPT !.rating = r.status, !.form = form, !.saved = saved]
  BY DEF Applied
<1> HIDE DEF form, saved
<1>6. Covers(form, saved)
  BY <1>3, <1>4, ConstantsAssumption DEF Covers
<1>7. /\ Applied(p, r) \in Pages
      /\ Applied(p, r).load = p.load /\ Applied(p, r).rating = r.status
      /\ Applied(p, r).form = form /\ Applied(p, r).saved = saved
  BY <1>1, <1>2, <1>4, <1>5 DEF Pages
<1>8. QED
  BY <1>6, <1>7 DEF saved

\* The page, changed in the parts that no lemma above is about, is one.
LEMMA PagesStayPages ==
  ASSUME NEW p \in Pages, NEW form \in Contents, NEW b \in BOOLEAN,
         NEW drag \in [track : Tracks, top : BOOLEAN] \cup {None}, NEW from \in {"nothing", "link", "own"},
         NEW load \in {"album", "mine", "create", "again", "open", "failed", "left"}
  PROVE  /\ p.form \in Contents /\ p.saved \in Contents
         /\ [p EXCEPT !.form = form] \in Pages
         /\ [p EXCEPT !.load = load] \in Pages
         /\ [p EXCEPT !.comment = b] \in Pages
         /\ [p EXCEPT !.saving = b] \in Pages
         /\ [p EXCEPT !.pendingNav = b] \in Pages
         /\ [p EXCEPT !.drag = drag] \in Pages
         /\ [p EXCEPT !.blocked = from] \in Pages
         /\ [p EXCEPT !.drag = drag, !.form = form] \in Pages
<1>1. [p EXCEPT !.drag = drag] \in Pages /\ [p EXCEPT !.form = form] \in Pages
  BY DEF Pages
<1>2. [[p EXCEPT !.drag = drag] EXCEPT !.form = form] \in Pages
  BY <1>1 DEF Pages
<1>3. QED
  BY <1>1, <1>2 DEF Pages

LEMMA BlankForms ==
  /\ Empty \in Contents /\ Serialized(Empty) = Empty /\ Draft \in Rows /\ Distinct(Empty)
  /\ Mounted \in Pages /\ Gone \in Pages /\ Idle \in CallStates
  /\ Gone.load = "left" /\ Gone.rating = "none" /\ Covers(Gone.form, Gone.saved)
<1>1. Empty \in Contents /\ \A t \in Noted : Empty.notes[t] = None
  BY DEF Empty, Contents
<1>2. Serialized(Empty) = Empty
  BY <1>1, SerializedForm, ConstantsAssumption
<1>3. Draft \in Rows /\ Distinct(Empty)
  BY <1>1 DEF Draft, Rows, Distinct, Empty
<1>4. Mounted \in Pages /\ Gone \in Pages
  BY <1>1 DEF Mounted, Gone, Pages
<1>5. Idle \in CallStates
  BY <1>1 DEF Idle, CallStates, Kinds, Stages
<1>6. Gone.load = "left" /\ Gone.rating = "none" /\ Covers(Gone.form, Gone.saved)
  BY DEF Gone, Mounted, Covers
<1>7. QED
  BY <1>1, <1>2, <1>3, <1>4, <1>5, <1>6

----------------------------------------------------------------------------
(* The first state, and the steps that leave row and handlers alone *)

LEMMA InitInductive == Init => IInv
<1> SUFFICES ASSUME Init PROVE IInv
  OBVIOUS
<1>1. call \in [Calls -> CallStates] /\ \A n \in Calls : call[n].kind = "idle" /\ call[n].at = "idle" /\ call[n].told = "waiting"
  BY BlankForms DEF Init, Idle
<1>2. page \in Pages /\ page.load = "album" /\ page.rating = "none" /\ Covers(page.form, page.saved)
  BY BlankForms DEF Init, Mounted, Covers
<1>3. row # None => row \in Rows /\ Serialized(row.content) = row.content
                    /\ Distinct(row.content) /\ (row.status = "published" => row.content.score # None /\ Full(row.content))
  BY FoundAssumption DEF Init, Complete
<1>4. edits \in 0..MaxEdits /\ faults \in 0..MaxFaults
  BY ConstantsAssumption DEF Init
<1>5. muddled \in BOOLEAN /\ raced \in BOOLEAN
  BY Zenon DEF Init
<1>6. TypeOK
  BY <1>1, <1>2, <1>3, <1>4, <1>5 DEF TypeOK
<1>7. PageOK /\ CallsOK /\ CheckedOK
  BY <1>1, <1>2 DEF PageOK, CallsOK, CheckedOK, Busy, Brings
<1>8. InStep
  BY <1>1, <1>2 DEF InStep, Busy, Brings
<1>9. QED
  BY <1>3, <1>6, <1>7, <1>8 DEF IInv, RowOK

\* A page as it is, but for its form and what does not count, or one that is left
Stays(p) ==
    /\ p \in Pages
    /\ \/ p = Gone
       \/ /\ page.load # "left" /\ p.load = page.load
          /\ p.rating = page.rating /\ p.saved = page.saved /\ Covers(p.form, p.saved)

LEMMA PageOnly ==
  ASSUME IInv, NEW p, Stays(p), page' = p, UNCHANGED <<row, call, muddled, raced>>,
         edits' \in 0..MaxEdits, faults' \in 0..MaxFaults
  PROVE  IInv'
<1>1. TypeOK' /\ RowOK' /\ CallsOK' /\ CheckedOK'
  BY DEF IInv, TypeOK, RowOK, CallsOK, CheckedOK, Admits, Stays, Busy, Brings
<1>2. PageOK'
  BY BlankForms DEF IInv, PageOK, Stays, Busy
<1>3. InStep'
  BY BlankForms DEF IInv, InStep, Stays, Busy, Brings
<1>4. QED
  BY <1>1, <1>2, <1>3 DEF IInv

\* An edit of the form
LEMMA FormOnly ==
  ASSUME IInv, page.load # "left", NEW form \in Contents, Covers(form, page.saved)
  PROVE  Stays([page EXCEPT !.form = form])
<1>1. page \in Pages
  BY DEF IInv, TypeOK
<1>2. [page EXCEPT !.form = form] \in Pages
  BY <1>1, PagesStayPages
<1>3. /\ [page EXCEPT !.form = form].load = page.load /\ [page EXCEPT !.form = form].rating = page.rating
      /\ [page EXCEPT !.form = form].saved = page.saved /\ [page EXCEPT !.form = form].form = form
  BY <1>1 DEF Pages
<1>4. QED
  BY <1>2, <1>3 DEF Stays

\* The slots say nothing of scores and notes.
LEMMA SlotsOnly ==
  ASSUME IInv, NEW slots \in [Slots -> Tracks \cup {None}]
  PROVE  /\ [page.form EXCEPT !.slots = slots] \in Contents
         /\ Covers([page.form EXCEPT !.slots = slots], page.saved)
<1>1. page.form \in Contents /\ Covers(page.form, page.saved)
  BY DEF IInv, TypeOK, Pages, PageOK
<1>2. QED
  BY <1>1 DEF Covers, Contents

\* A drop leaves slots, whatever the form has become during the drag.
LEMMA DroppedSlots ==
  ASSUME NEW slots \in [Slots -> Tracks \cup {None}], NEW drag \in [track : Tracks, top : BOOLEAN], NEW i \in Slots
  PROVE  Dropped(slots, drag, i) \in [Slots -> Tracks \cup {None}]
<1> DEFINE source == {j \in Slots : slots[j] = drag.track}
           first == CHOOSE j \in source : \A k \in source : j <= k
<1>1. CASE drag.top /\ source # {}
  <2>1. Dropped(slots, drag, i) = [slots EXCEPT ![first] = slots[i], ![i] = drag.track]
    BY <1>1 DEF Dropped
  <2> HIDE DEF first
  <2>2. [slots EXCEPT ![first] = slots[i]] \in [Slots -> Tracks \cup {None}]
    OBVIOUS
  <2>3. QED
    BY <2>1, <2>2
<1>2. CASE ~(drag.top /\ source # {})
  BY <1>2 DEF Dropped
<1>3. QED
  BY <1>1, <1>2

\* What the user does to the form: a score is set and never taken back, a note
\* is written or erased and never unwritten, and tracks change their slots.
LEMMA ChangeFormSteps == IInv /\ ChangeForm => IInv'
<1> SUFFICES ASSUME IInv, ChangeForm PROVE IInv'
  OBVIOUS
<1>1. /\ page \in Pages /\ page.form \in Contents /\ page.saved \in Contents /\ Covers(page.form, page.saved)
      /\ page.form.slots \in [Slots -> Tracks \cup {None}]
      /\ edits \in 0..MaxEdits /\ faults \in 0..MaxFaults
  BY DEF IInv, TypeOK, PageOK, Pages, Contents
<1>2. ASSUME NEW p, Stays(p), Edit(p) PROVE IInv'
  BY <1>1, <1>2, PageOnly, ConstantsAssumption DEF Edit
<1>3. ASSUME NEW form \in Contents, Covers(form, page.saved), EditForm(form) PROVE IInv'
  BY <1>2, <1>3, FormOnly DEF EditForm, Edit, Usable
<1>4. ASSUME NEW slots \in [Slots -> Tracks \cup {None}], EditForm([page.form EXCEPT !.slots = slots]) PROVE IInv'
  BY <1>3, <1>4, SlotsOnly
<1>5. ASSUME NEW score \in Scores, SetScore(score) PROVE IInv'
  <2> DEFINE form == [page.form EXCEPT !.score = score]
  <2>1. form \in Contents /\ form.score # None /\ form.notes = page.form.notes
    BY <1>1, ConstantsAssumption DEF Contents
  <2>2. EditForm(form)
    BY <1>5 DEF SetScore
  <2> HIDE DEF form
  <2>3. Covers(form, page.saved)
    BY <1>1, <2>1 DEF Covers
  <2>4. QED
    BY <1>3, <2>1, <2>2, <2>3
<1>6. ASSUME NEW t \in Noted, NEW text \in Texts \cup {Blank}, ChangeNote(t, text) PROVE IInv'
  <2> DEFINE form == [page.form EXCEPT !.notes = [page.form.notes EXCEPT ![t] = text]]
  <2>1. /\ form \in Contents /\ form.score = page.form.score
        /\ \A u \in Noted : form.notes[u] = IF u = t THEN text ELSE page.form.notes[u]
    BY <1>1 DEF Contents
  <2>2. EditForm(form)
    BY <1>6 DEF ChangeNote
  <2> HIDE DEF form
  <2>3. text # None
    BY ConstantsAssumption
  <2>4. Covers(form, page.saved)
    BY <1>1, <2>1, <2>3 DEF Covers
  <2>5. QED
    BY <1>3, <2>1, <2>2, <2>4
<1>7. ASSUME NEW t \in Tracks, AddTrack(t) PROVE IInv'
  <2>1. PICK i \in Slots : EditForm([page.form EXCEPT !.slots = SetSlot(@, i, t)])
    BY <1>7 DEF AddTrack
  <2>2. SetSlot(page.form.slots, i, t) \in [Slots -> Tracks \cup {None}]
    BY <1>1 DEF SetSlot, Without
  <2>3. QED
    BY <1>4, <2>1, <2>2
<1>8. ASSUME NEW t \in Tracks, RemoveTrack(t) PROVE IInv'
  <2>1. Without(page.form.slots, t) \in [Slots -> Tracks \cup {None}]
    BY <1>1 DEF Without
  <2>2. QED
    BY <1>4, <1>8, <2>1 DEF RemoveTrack
<1>9. CASE ResetTop
  <2>1. Empty.slots \in [Slots -> Tracks \cup {None}]
    BY DEF Empty
  <2>2. QED
    BY <1>4, <1>9, <2>1 DEF ResetTop
<1>10. ASSUME NEW t \in Tracks, StartDrag(t) PROVE IInv'
  <2> DEFINE drag == [track |-> t, top |-> t \in Picked(page.form)]
  <2>1. drag \in [track : Tracks, top : BOOLEAN]
    OBVIOUS
  <2>2. Edit([page EXCEPT !.drag = drag]) /\ page.load = "open"
    BY <1>10 DEF StartDrag, Edit, Usable
  <2> HIDE DEF drag
  <2>3. Stays([page EXCEPT !.drag = drag])
    BY <1>1, <2>1, <2>2 DEF Stays, Pages
  <2>4. QED
    BY <1>2, <2>2, <2>3
<1>11. CASE TypeComment
  <2> DEFINE b == ~page.comment
  <2>1. Edit([page EXCEPT !.comment = b]) /\ page.load = "open" /\ b \in BOOLEAN
    BY <1>11 DEF TypeComment, Edit, Usable
  <2> HIDE DEF b
  <2>2. Stays([page EXCEPT !.comment = b])
    BY <1>1, <2>1 DEF Stays, Pages
  <2>3. QED
    BY <1>2, <2>1, <2>2
<1>12. CASE EndDrag
  <2>1. PICK i \in Slots : Edit([page EXCEPT !.drag = None, !.form.slots = Dropped(@, page.drag, i)])
    BY <1>12 DEF EndDrag
  <2> DEFINE slots == Dropped(page.form.slots, page.drag, i)
             form == [page.form EXCEPT !.slots = slots]
             p == [page EXCEPT !.drag = None, !.form = form]
  <2>2. page.drag \in [track : Tracks, top : BOOLEAN] /\ page.load = "open"
    BY <1>1, <1>12 DEF EndDrag, Edit, Usable, Pages
  <2>3. slots \in [Slots -> Tracks \cup {None}]
    BY <1>1, <2>2, DroppedSlots
  <2>4. Edit(p)
    BY <1>1, <2>1 DEF Edit, Pages
  <2> HIDE DEF slots
  <2>5. form \in Contents /\ Covers(form, page.saved)
    BY <2>3, SlotsOnly
  <2> HIDE DEF form
  <2>6. p \in Pages
    BY <1>1, <2>5, PagesStayPages
  <2>7. p.load = page.load /\ p.rating = page.rating /\ p.saved = page.saved /\ p.form = form
    BY <1>1 DEF Pages
  <2> HIDE DEF p
  <2>8. Stays(p)
    BY <2>2, <2>5, <2>6, <2>7 DEF Stays
  <2>9. QED
    BY <1>2, <2>4, <2>8
<1>13. CASE CancelDrag
  <2>1. UNCHANGED <<row, call, edits, faults, muddled, raced>> /\ page.load = "open" /\ page' = [page EXCEPT !.drag = None]
    BY <1>13 DEF CancelDrag, Usable
  <2>2. Stays([page EXCEPT !.drag = None])
    BY <1>1, <2>1 DEF Stays, Pages
  <2>3. QED
    BY <1>1, <2>1, <2>2, PageOnly
<1>14. QED
  BY <1>5, <1>6, <1>7, <1>8, <1>9, <1>10, <1>11, <1>12, <1>13 DEF ChangeForm

----------------------------------------------------------------------------
(* The opening of the page, the guard and the buttons *)

\* Until the page is open nothing holds a rating.
LEMMA LoadSteps == IInv /\ (Load \/ LoadFails \/ StartedElsewhere) => IInv'
<1> SUFFICES ASSUME IInv, Load \/ LoadFails \/ StartedElsewhere PROVE IInv'
  OBVIOUS
<1>1. /\ page \in Pages /\ Covers(page.form, page.saved)
      /\ page.load \in {"album", "mine", "create", "again"} => page.rating = "none" /\ \A n \in Calls : ~Busy(n)
      /\ edits \in 0..MaxEdits /\ faults \in 0..MaxFaults
      /\ row # None => row \in Rows /\ Serialized(row.content) = row.content
  BY DEF IInv, TypeOK, PageOK
<1>2. page.load \in {"album", "mine", "create", "again"} =>
        \A n \in Calls : call[n].at = "idle" /\ call[n].told # "checked"
  <2>1. \A n \in Calls : Busy(n) <=> call[n].at # "idle"
    BY DEF IInv, CallsOK
  <2>2. \A n \in Calls : call[n].told = "checked" => call[n].at # "idle"
    BY DEF IInv, CheckedOK, Admits
  <2>3. QED
    BY <1>1, <2>1, <2>2
<1>3. ASSUME NEW from \in {"album", "mine", "create", "again"}, NEW to \in {"mine", "create", "again", "open", "failed"},
             LoadStep(from, to), UNCHANGED <<row, call, edits, muddled, raced>>, faults' \in 0..MaxFaults
      PROVE  IInv'
  <2> DEFINE p == [page EXCEPT !.load = to]
  <2>1. page' = p /\ page.load = from
    BY <1>3 DEF LoadStep
  <2>2. p \in Pages /\ p.load = to /\ p.rating = page.rating /\ p.form = page.form /\ p.saved = page.saved
    BY <1>1 DEF Pages
  <2> HIDE DEF p
  <2>3. TypeOK' /\ RowOK' /\ CallsOK' /\ CheckedOK'
    BY <1>3, <2>1, <2>2 DEF IInv, TypeOK, RowOK, CallsOK, CheckedOK, Admits, Busy, Brings
  <2>4. PageOK'
    BY <1>1, <1>3, <2>1, <2>2 DEF PageOK, Busy
  <2>5. InStep'
    BY <1>1, <1>2, <1>3, <2>1, <2>2 DEF InStep, Busy, Brings
  <2>6. QED
    BY <2>3, <2>4, <2>5 DEF IInv
<1>4. ASSUME NEW from \in {"mine", "create", "again"}, NEW r \in Rows, Open(from, r), row' = r,
             Serialized(r.content) = r.content, Distinct(r.content), r.status = "published" => r.content.score # None /\ (Full(r.content) \/ raced),
             UNCHANGED <<call, edits, faults, muddled, raced>>
      PROVE  IInv'
  <2> DEFINE q == [page EXCEPT !.load = "open"]
             p == Applied(q, r)
  <2>1. page' = p /\ page.load = from
    BY <1>4 DEF Open
  <2>2. q \in Pages /\ q.load = "open"
    BY <1>1 DEF Pages
  <2> HIDE DEF q
  <2>3. p \in Pages /\ p.load = "open" /\ p.saved = r.content /\ Covers(p.form, p.saved)
    BY <1>4, <2>2, AppliedPage
  <2> HIDE DEF p
  <2>4. TypeOK'
    BY <1>4, <2>1, <2>3 DEF IInv, TypeOK
  <2>5. RowOK' /\ CallsOK' /\ CheckedOK'
    BY <1>1, <1>2, <1>4, <2>1 DEF IInv, RowOK, CallsOK, CheckedOK, Busy, Brings
  <2>6. PageOK'
    BY <1>1, <1>4, <2>1, <2>3 DEF PageOK, Busy
  <2>7. InStep'
    BY <1>1, <1>2, <1>4, <2>1, <2>3 DEF InStep, Busy, Brings
  <2>8. QED
    BY <2>4, <2>5, <2>6, <2>7 DEF IInv
<1>5. ASSUME NEW from \in {"mine", "again"}, row # None, Open(from, row), UNCHANGED <<row, call, edits, faults, muddled, raced>>
      PROVE  IInv'
  BY <1>1, <1>4, <1>5 DEF IInv, RowOK
<1>6. ASSUME row' = Draft, Open("create", Draft), UNCHANGED <<call, edits, faults, muddled, raced>>
      PROVE  IInv'
  BY <1>4, <1>6, BlankForms DEF Draft
<1>7. CASE Load
  BY <1>1, <1>3, <1>5, <1>6, <1>7 DEF Load
<1>8. CASE LoadFails
  <2>1. faults' \in 0..MaxFaults /\ UNCHANGED <<row, call, edits, muddled, raced>>
    BY <1>1, <1>8, ConstantsAssumption DEF LoadFails
  <2>2. QED
    BY <1>3, <1>8, <2>1 DEF LoadFails
<1>9. CASE StartedElsewhere
  <2>1. row' = Draft /\ page.load = "create" /\ UNCHANGED <<page, call, edits, faults, muddled, raced>>
    BY <1>9 DEF StartedElsewhere
  <2>2. Draft.content = Empty /\ Draft.status = "draft"
    BY DEF Draft
  <2>3. TypeOK'
    BY <2>1, <2>2, BlankForms DEF IInv, TypeOK
  <2>4. RowOK'
    BY <2>1, <2>2, BlankForms DEF RowOK
  <2>5. PageOK' /\ CallsOK' /\ CheckedOK'
    BY <1>1, <1>2, <2>1 DEF IInv, PageOK, CallsOK, CheckedOK, Busy, Brings
  <2>6. InStep'
    BY <1>1, <1>2, <2>1 DEF InStep, Busy, Brings
  <2>7. QED
    BY <2>3, <2>4, <2>5, <2>6 DEF IInv
<1>10. QED
  BY <1>7, <1>8, <1>9

\* The guard stops the page or lets it go, and the modal does either.
LEMMA GuardSteps == IInv /\ (ClickLink \/ Answered) => IInv'
<1> SUFFICES ASSUME IInv, ClickLink \/ Answered PROVE IInv'
  OBVIOUS
<1>1. page \in Pages /\ edits \in 0..MaxEdits /\ faults \in 0..MaxFaults /\ Covers(page.form, page.saved)
  BY DEF IInv, TypeOK, PageOK
<1>2. UNCHANGED <<row, call, edits, faults, muddled, raced>>
  BY DEF ClickLink, Answered
<1>3. Stays(Gone)
  BY BlankForms DEF Stays
<1>4. ASSUME NEW from \in {"nothing", "link"}, page.load # "left" PROVE Stays([page EXCEPT !.blocked = from])
  BY <1>1, <1>4 DEF Stays, Pages
<1>5. page.load = "left" => page.blocked = "nothing" /\ page = Gone
  BY DEF IInv, PageOK, Gone, Mounted
<1>6. page' = Gone \/ \E from \in {"nothing", "link"} : page' = [page EXCEPT !.blocked = from] /\ page.load # "left"
  BY <1>5 DEF ClickLink, Answered, Navigated, Left
<1>7. QED
  BY <1>1, <1>2, <1>3, <1>4, <1>6, PageOnly

\* A handler starts with what the page shows: alone, it finds the page in step.
LEMMA RequestSteps ==
  ASSUME IInv, NEW n \in Calls, NEW handler \in CallStates, Request(n, handler),
         handler.kind # "idle", handler.told = "waiting",
         handler.at = "delete" \/ (handler.at = "patch" /\ handler.form = page.form)
  PROVE  IInv'
<1>1. /\ page \in Pages /\ call \in [Calls -> CallStates] /\ muddled \in BOOLEAN
      /\ page.rating # "none" /\ page.load = "open" /\ Covers(page.form, page.saved)
  BY DEF IInv, TypeOK, PageOK, Request
<1> DEFINE p == [page EXCEPT !.saving = TRUE]
<1>2. p \in Pages /\ p.load = page.load /\ p.rating = page.rating /\ p.form = page.form /\ p.saved = page.saved
  BY <1>1 DEF Pages
<1>3. page' = p /\ call' = [call EXCEPT ![n] = handler] /\ UNCHANGED <<row, edits, faults, raced>>
  BY DEF Request
<1>4. muddled' = (muddled \/ \E k \in Calls : Busy(k))
  BY DEF Request
<1> HIDE DEF p
<1>5. muddled' \in BOOLEAN /\ (~muddled' => ~muddled /\ \A k \in Calls : ~Busy(k))
  BY <1>4
<1>6. TypeOK'
  BY <1>1, <1>2, <1>3, <1>5 DEF IInv, TypeOK
<1>7. RowOK'
  BY <1>3 DEF IInv, RowOK
<1>8. PageOK'
  BY <1>1, <1>2, <1>3 DEF PageOK, Busy
<1>9. CallsOK' /\ CheckedOK'
  <2>1. \A k \in Calls : call'[k] = IF k = n THEN handler ELSE call[k]
    BY <1>1, <1>3
  <2>2. CallsOK'
    BY <2>1 DEF IInv, CallsOK, Busy, Brings
  <2>3. CheckedOK'
    BY <1>3, <2>1 DEF IInv, CheckedOK, Admits
  <2>4. QED
    BY <2>2, <2>3
<1>10. InStep'
  <2> SUFFICES ASSUME ~muddled' PROVE InStep'
    BY DEF InStep
  <2>1. \A k \in Calls : ~Busy(k) /\ call[k].at = "idle" /\ call[k].told # "checked"
    BY <1>5 DEF IInv, CallsOK, CheckedOK, Admits
  <2>2. row # None => page.saved = row.content
    BY <1>1, <1>5, <2>1 DEF IInv, InStep
  <2>3. \A k \in Calls : call'[k] = IF k = n THEN handler ELSE call[k]
    BY <1>1, <1>3
  <2>4. QED
    BY <1>1, <1>2, <1>3, <2>1, <2>2, <2>3 DEF InStep, Busy, Brings, Covers
<1>11. QED
  BY <1>6, <1>7, <1>8, <1>9, <1>10 DEF IInv

LEMMA PressSteps == ASSUME IInv, NEW n \in Calls, Press(n) PROVE IInv'
<1>1. page.form \in Contents /\ page.comment \in BOOLEAN
  BY DEF IInv, TypeOK, Pages
<1>2. ASSUME NEW kind \in Kinds, Request(n, Saving(kind)) PROVE IInv'
  <2> DEFINE handler == Saving(kind)
  <2>1. /\ handler \in CallStates /\ handler.kind = kind /\ handler.told = "waiting" /\ handler.at = "patch"
        /\ handler.form = page.form
    BY <1>1, BlankForms DEF Saving, Idle, CallStates, Kinds, Stages
  <2>2. Request(n, handler) /\ kind # "idle"
    BY <1>2 DEF Kinds
  <2> HIDE DEF handler
  <2>3. QED
    BY <2>1, <2>2, RequestSteps
<1>3. CASE HandleSave(n) \/ HandleRepublish(n) \/ SaveAndQuit(n)
  BY <1>2, <1>3 DEF HandleSave, HandleRepublish, SaveAndQuit, Click, Kinds
<1>4. CASE HandlePublish(n)
  <2> DEFINE handler == [Saving("publish") EXCEPT !.comment = page.comment]
  <2>1. /\ handler \in CallStates /\ handler.kind = "publish" /\ handler.told = "waiting" /\ handler.at = "patch"
        /\ handler.form = page.form
    BY <1>1, BlankForms DEF Saving, Idle, CallStates, Kinds, Stages
  <2>2. Request(n, handler)
    BY <1>4 DEF HandlePublish, Click
  <2> HIDE DEF handler
  <2>3. QED
    BY <2>1, <2>2, RequestSteps
<1>5. CASE HandleRemove(n)
  <2> DEFINE handler == [Idle EXCEPT !.kind = "remove", !.at = "delete"]
  <2>1. handler \in CallStates /\ handler.kind = "remove" /\ handler.told = "waiting" /\ handler.at = "delete"
    BY BlankForms DEF Idle, CallStates, Kinds, Stages
  <2>2. Request(n, handler)
    BY <1>5 DEF HandleRemove, Click
  <2> HIDE DEF handler
  <2>3. QED
    BY <2>1, <2>2, RequestSteps
<1>6. QED
  BY <1>3, <1>4, <1>5 DEF Press

----------------------------------------------------------------------------
(* The server, and what is lost on the way *)

\* A handler that is told something, or brought a row, is the handler it was.
LEMMA CallStays ==
  ASSUME TypeOK, NEW n \in Calls, NEW told \in {"waiting", "checked", "ok", "failed"},
         NEW seen \in Rows \cup {None}, NEW answer \in Rows \cup {None},
         Know(n, told, seen, answer)
  PROVE  /\ call' \in [Calls -> CallStates]
         /\ call'[n].told = told /\ call'[n].seen = seen /\ call'[n].answer = answer
         /\ call'[n].kind = call[n].kind /\ call'[n].at = call[n].at /\ call'[n].form = call[n].form
         /\ \A k \in Calls : k # n => call'[k] = call[k]
<1>1. call \in [Calls -> CallStates]
  BY DEF TypeOK
<1> DEFINE new == [call[n] EXCEPT !.told = told, !.seen = seen, !.answer = answer]
<1>2. /\ new \in CallStates /\ new.told = told /\ new.seen = seen /\ new.answer = answer
      /\ new.kind = call[n].kind /\ new.at = call[n].at /\ new.form = call[n].form
  BY <1>1 DEF CallStates
<1>3. call' = [call EXCEPT ![n] = new]
  BY <1>1 DEF Know
<1> HIDE DEF new
<1>4. QED
  BY <1>1, <1>2, <1>3

LEMMA TellStays ==
  ASSUME TypeOK, NEW n \in Calls, NEW told \in {"ok", "failed"}, Tell(n, told)
  PROVE  /\ call' \in [Calls -> CallStates]
         /\ call'[n].told = told /\ call'[n].seen = None /\ call'[n].answer = call[n].answer
         /\ call'[n].kind = call[n].kind /\ call'[n].at = call[n].at /\ call'[n].form = call[n].form
         /\ \A k \in Calls : k # n => call'[k] = call[k]
<1>1. call[n] \in CallStates /\ call[n].answer \in Rows \cup {None}
  BY DEF TypeOK, CallStates
<1>2. QED
  BY <1>1, CallStays DEF Tell

\* The row is read and checked, which changes nothing but what the handler knows.
LEMMA ReadSteps == ASSUME IInv, NEW n \in Calls, UNCHANGED <<row, page, edits, faults, muddled, raced>>,
         row # None, Admits(row, call[n]), call[n].told = "waiting",
         Know(n, "checked", row, call[n].answer)
  PROVE  IInv'
<1>1. /\ TypeOK /\ RowOK /\ PageOK /\ CallsOK /\ CheckedOK /\ InStep
      /\ row \in Rows /\ call[n] \in CallStates /\ call[n].answer \in Rows \cup {None}
  BY DEF IInv, TypeOK, CallStates
<1>2. /\ call' \in [Calls -> CallStates]
      /\ call'[n].told = "checked" /\ call'[n].seen = row /\ call'[n].answer = call[n].answer
      /\ call'[n].kind = call[n].kind /\ call'[n].at = call[n].at /\ call'[n].form = call[n].form
      /\ \A k \in Calls : k # n => call'[k] = call[k]
  BY <1>1, CallStays
<1>3. TypeOK' /\ RowOK'
  BY <1>1, <1>2 DEF TypeOK, RowOK
<1>4. PageOK' /\ CallsOK'
  BY <1>1, <1>2 DEF PageOK, CallsOK, Busy, Brings
<1>5. CheckedOK'
  BY <1>1, <1>2 DEF CheckedOK, Admits
<1>6. InStep'
  BY <1>1, <1>2 DEF InStep, Busy, Brings
<1>7. QED
  BY <1>3, <1>4, <1>5, <1>6 DEF IInv

\* A commit changes the row of a handler that has checked it, or refuses.
LEMMA ServeSteps == ASSUME IInv, NEW n \in Calls, Serve(n) PROVE IInv'
<1>1. UNCHANGED <<page, edits, faults, muddled>>
  BY DEF Serve
<1>2. /\ TypeOK /\ RowOK /\ PageOK /\ CallsOK /\ CheckedOK /\ InStep
      /\ call \in [Calls -> CallStates] /\ call[n].form \in Contents /\ raced \in BOOLEAN
      /\ row # None => row \in Rows /\ row.content \in Contents /\ Serialized(row.content) = row.content
  BY DEF IInv, TypeOK, CallStates, Rows
<1>3. ASSUME NEW told \in {"ok", "failed"}, Tell(n, told), call[n].at \notin {"patch", "publish"} \/ told = "failed",
             call[n].told \in {"waiting", "checked"}, row' = row \/ row' = None, UNCHANGED raced
      PROVE  IInv'
  <2>1. /\ call' \in [Calls -> CallStates]
        /\ call'[n].told = told /\ call'[n].seen = None /\ call'[n].answer = call[n].answer
        /\ call'[n].kind = call[n].kind /\ call'[n].at = call[n].at /\ call'[n].form = call[n].form
        /\ \A k \in Calls : k # n => call'[k] = call[k]
    BY <1>2, <1>3, TellStays
  <2>2. TypeOK' /\ RowOK'
    BY <1>1, <1>2, <1>3, <2>1 DEF TypeOK, RowOK
  <2>3. PageOK'
    BY <1>1, <1>2, <2>1 DEF PageOK, Busy
  <2>4. CallsOK'
    BY <1>2, <1>3, <2>1 DEF CallsOK, Busy, Brings
  <2>5. CheckedOK'
    BY <1>2, <1>3, <2>1 DEF CheckedOK, Admits
  <2>6. InStep'
    BY <1>1, <1>2, <1>3, <2>1 DEF InStep, Busy, Brings
  <2>7. QED
    BY <2>2, <2>3, <2>4, <2>5, <2>6 DEF IInv
<1>4. ASSUME NEW r \in Rows, row # None, Put(n, r), Serialized(r.content) = r.content, Distinct(r.content),
             r.status = "published" => r.content.score # None /\ (Full(r.content) \/ raced'),
             r.content.score = None => row.content.score = None,
             raced' \in BOOLEAN, raced => raced', call[n].told = "checked",
             call[n].at = "patch" \/ (call[n].at \in {"publish", "republish"} /\ r.content = row.content)
      PROVE  IInv'
  <2>1. Know(n, "ok", None, r) /\ row' = r
    BY <1>4 DEF Put
  <2>2. /\ call' \in [Calls -> CallStates]
        /\ call'[n].told = "ok" /\ call'[n].seen = None /\ call'[n].answer = r
        /\ call'[n].kind = call[n].kind /\ call'[n].at = call[n].at /\ call'[n].form = call[n].form
        /\ \A k \in Calls : k # n => call'[k] = call[k]
    BY <1>2, <2>1, CallStays
  <2>3. TypeOK' /\ RowOK'
    BY <1>1, <1>2, <1>4, <2>1, <2>2 DEF TypeOK, RowOK
  <2>4. PageOK'
    BY <1>1, <1>2, <2>2 DEF PageOK, Busy
  <2>5. CallsOK'
    BY <1>2, <1>4, <2>2 DEF CallsOK, Busy, Brings
  <2>6. CheckedOK'
    BY <1>2, <1>4, <2>1, <2>2 DEF CheckedOK, Admits
  <2>7. InStep'
    <3> SUFFICES ASSUME ~muddled' PROVE InStep'
      BY DEF InStep
    <3>1. \A k \in Calls : k # n => ~Busy(k) /\ call[k].at = "idle" /\ call[k].told # "checked"
      BY <1>1, <1>2, <1>4 DEF InStep, CallsOK, CheckedOK, Admits
    <3>2. page.rating # "none" => page.saved = row.content
      BY <1>1, <1>2, <1>4, <3>1 DEF InStep
    <3>3. QED
      BY <1>1, <1>2, <1>4, <2>1, <2>2, <3>1, <3>2 DEF InStep, Busy, Brings
  <2>8. QED
    BY <2>3, <2>4, <2>5, <2>6, <2>7 DEF IInv
<1>5. ASSUME call[n].told \in {"waiting", "checked"}, Refuse(n) PROVE IInv'
  BY <1>3, <1>5 DEF Refuse
<1>6. CASE ReadRating(n)
  BY <1>1, <1>5, <1>6, ReadSteps DEF ReadRating
<1>7. ASSUME call[n].told = "checked", row # None
      PROVE  /\ call[n].seen \in Rows /\ call[n].seen.content \in Contents /\ Admits(call[n].seen, call[n])
             /\ call[n].seen.content.score # None => row.content.score # None
  BY <1>2, <1>7 DEF CheckedOK, Rows
<1>8. CASE PatchRating(n)
  <2>1. call[n].at = "patch" /\ call[n].told = "checked"
    BY <1>8 DEF PatchRating, Is
  <2>2. CASE row # None /\ ~Collides(row.content, call[n].seen.content, call[n].form)
    <3> DEFINE seen == call[n].seen
               form == call[n].form
               content == Merged(row.content, seen.content, form)
               r == [row EXCEPT !.content = content]
    <3>1. /\ content \in Contents /\ Serialized(content) = content /\ content.slots \in {row.content.slots, form.slots}
          /\ content.slots = row.content.slots => seen.content.slots = form.slots \/ row.content.slots = form.slots
          /\ content.score = None => row.content.score = None
      BY <1>2, <1>7, <2>1, <2>2, MergedForm
    <3>2. Put(n, r) /\ raced' = (raced \/ row.status # seen.status)
      BY <1>8, <2>2 DEF PatchRating
    <3>3. seen \in Rows /\ Patchable(seen, form)
      BY <1>7, <2>1, <2>2 DEF Admits
    <3> HIDE DEF content, seen, form
    <3>4. r \in Rows /\ r.content = content /\ r.status = row.status
      BY <1>2, <2>2, <3>1 DEF Rows
    <3>5. Distinct(content)
      BY <1>2, <2>2, <3>1, <3>3 DEF Patchable, Distinct, RowOK
    <3>6. ASSUME row.status = "published" PROVE content.score # None /\ (Full(content) \/ raced')
      <4>1. row.content.score # None /\ (Full(row.content) \/ raced)
        BY <1>2, <2>2, <3>6 DEF RowOK
      <4>2. CASE raced \/ row.status # seen.status
        BY <3>1, <3>2, <4>1, <4>2
      <4>3. CASE ~(raced \/ row.status # seen.status)
        BY <3>1, <3>3, <3>6, <4>1, <4>3 DEF Patchable, Full
      <4>4. QED
        BY <4>2, <4>3
    <3>7. raced' \in BOOLEAN /\ (raced => raced')
      BY <1>2, <3>2
    <3> HIDE DEF r
    <3>8. QED
      BY <1>4, <2>1, <2>2, <3>1, <3>2, <3>4, <3>5, <3>6, <3>7
  <2>3. CASE ~(row # None /\ ~Collides(row.content, call[n].seen.content, call[n].form))
    BY <1>5, <1>8, <2>1, <2>3 DEF PatchRating
  <2>4. QED
    BY <2>2, <2>3
<1>9. CASE PublishRating(n)
  <2>1. call[n].at = "publish" /\ call[n].told = "checked"
    BY <1>9 DEF PublishRating, Is
  <2>2. CASE row # None
    <3> DEFINE seen == call[n].seen
               r == [row EXCEPT !.status = "published"]
    <3>1. r \in Rows /\ r.content = row.content /\ r.status = "published"
      BY <1>2, <2>2 DEF Rows
    <3>2. Put(n, r) /\ raced' = (raced \/ row.content # seen.content)
      BY <1>9, <2>2 DEF PublishRating
    <3>3. Complete(seen.content) /\ row.content.score # None
      BY <1>7, <2>1, <2>2 DEF Admits, Complete
    <3> HIDE DEF r, seen
    <3>4. raced' \in BOOLEAN /\ (raced => raced') /\ (Full(row.content) \/ raced')
      BY <1>2, <3>2, <3>3 DEF Complete
    <3>5. QED
      BY <1>2, <1>4, <2>1, <2>2, <3>1, <3>2, <3>3, <3>4 DEF RowOK
  <2>3. CASE row = None
    BY <1>5, <1>9, <2>1, <2>3 DEF PublishRating
  <2>4. QED
    BY <2>2, <2>3
<1>10. CASE RepublishRating(n)
  <2>1. call[n].at = "republish" /\ call[n].told = "checked"
    BY <1>10 DEF RepublishRating, Is
  <2>2. CASE row # None
    <3>1. Put(n, row) /\ raced' = raced
      BY <1>10, <2>2 DEF RepublishRating
    <3>2. QED
      BY <1>2, <1>4, <2>1, <2>2, <3>1 DEF RowOK
  <2>3. CASE row = None
    BY <1>5, <1>10, <2>1, <2>3 DEF RepublishRating
  <2>4. QED
    BY <2>2, <2>3
<1>11. CASE DeleteRating(n) \/ CreateComment(n)
  <2>1. CASE DeleteRating(n)
    BY <1>3, <1>5, <2>1 DEF DeleteRating, Is
  <2>2. CASE CreateComment(n)
    BY <1>3, <2>2 DEF CreateComment, Is
  <2>3. QED
    BY <1>11, <2>1, <2>2
<1>12. QED
  BY <1>6, <1>8, <1>9, <1>10, <1>11 DEF Serve

\* A patch that gets through and whose answer does not muddles the page; of what
\* else is lost nothing was to be shown.
LEMMA LoseSteps == ASSUME IInv, NEW n \in Calls, Lose(n) PROVE IInv'
<1>1. /\ TypeOK /\ RowOK /\ PageOK /\ CallsOK /\ CheckedOK /\ InStep
      /\ faults \in 0..MaxFaults /\ muddled \in BOOLEAN
  BY DEF IInv, TypeOK
<1>2. UNCHANGED <<row, page, edits, raced>> /\ faults' \in 0..MaxFaults
  BY <1>1, ConstantsAssumption DEF Lose
<1>3. muddled' = (muddled \/ (call[n].at = "patch" /\ call[n].told = "ok"))
  BY DEF Lose
<1>4. PICK told \in {"ok", "failed"} : told = "failed" /\ Tell(n, told)
  BY DEF Lose
<1>5. /\ call' \in [Calls -> CallStates]
      /\ call'[n].told = "failed" /\ call'[n].seen = None /\ call'[n].answer = call[n].answer
      /\ call'[n].kind = call[n].kind /\ call'[n].at = call[n].at /\ call'[n].form = call[n].form
      /\ \A k \in Calls : k # n => call'[k] = call[k]
  BY <1>1, <1>4, TellStays
<1>6. muddled' \in BOOLEAN /\ (~muddled' => ~muddled /\ ~(call[n].at = "patch" /\ call[n].told = "ok"))
  BY <1>3
<1>7. TypeOK' /\ RowOK'
  BY <1>1, <1>2, <1>4, <1>5, <1>6 DEF TypeOK, RowOK
<1>8. PageOK' /\ CallsOK' /\ CheckedOK'
  BY <1>1, <1>2, <1>4, <1>5 DEF PageOK, CallsOK, CheckedOK, Admits, Busy, Brings
<1>9. InStep'
  BY <1>1, <1>2, <1>4, <1>5, <1>6 DEF InStep, Busy, Brings
<1>10. QED
  BY <1>7, <1>8, <1>9 DEF IInv

----------------------------------------------------------------------------
(* What follows an await *)

\* A page as it may be after an answer: it has what the row has, or has been left.
Shown(p) ==
    \/ p = Gone
    \/ /\ p \in Pages /\ p.load = "open" /\ Covers(p.form, p.saved)
       /\ ~muddled /\ row # None /\ p.rating # "none" => p.saved = row.content

\* A handler that has ended, or waits for its next answer
GoesOn(n) ==
    /\ call' \in [Calls -> CallStates] /\ \A k \in Calls : k # n => call'[k] = call[k]
    /\ \/ call'[n].kind = "idle" /\ call'[n].at = "idle" /\ call'[n].told = "waiting"
       \/ /\ call'[n].kind # "idle" /\ call'[n].told = "waiting"
          /\ \/ call'[n].at \in {"publish", "republish"}
             \/ call'[n].at = "comment" /\ Brings(n) /\ call'[n].answer = call[n].answer

\* Alone, a handler that resumes leaves the page in step with the row.
LEMMA ResumeKeeps ==
  ASSUME IInv, NEW n \in Calls, Busy(n), UNCHANGED <<row, edits, faults, muddled, raced>>, GoesOn(n),
         NEW p, ~Left => Shown(p), page' = IF Left THEN page ELSE p
  PROVE  IInv'
<1>1. TypeOK /\ RowOK /\ PageOK /\ CallsOK /\ CheckedOK /\ InStep
  BY DEF IInv
<1>2. Shown(page')
  BY DEF Left, Shown
<1>3. page' \in Pages /\ (page'.load # "open" => page'.rating = "none") /\ Covers(page'.form, page'.saved)
      /\ (page'.load = "left" => page' = Gone) /\ page'.load \in {"open", "left"}
  BY <1>2, BlankForms DEF Shown
<1>4. TypeOK' /\ RowOK'
  BY <1>1, <1>3 DEF TypeOK, RowOK, GoesOn
<1>5. PageOK'
  BY <1>3 DEF PageOK, Busy
<1>6. CallsOK' /\ CheckedOK'
  BY <1>1 DEF CallsOK, CheckedOK, Admits, Busy, Brings, GoesOn
<1>7. InStep'
  <2> SUFFICES ASSUME ~muddled' PROVE InStep'
    BY DEF InStep
  <2>1. \A k \in Calls : k # n => ~Busy(k) /\ call[k].at = "idle" /\ call[k].told # "checked"
    BY <1>1 DEF InStep, CallsOK, CheckedOK, Admits
  <2>2. row # None /\ page'.rating # "none" => page'.saved = row.content
    BY <1>2, BlankForms DEF Shown
  <2>3. row # None /\ Brings(n) => call[n].answer.content = row.content
    BY <1>1 DEF InStep
  <2>4. QED
    BY <2>1, <2>2, <2>3 DEF InStep, Busy, Brings, GoesOn
<1>8. QED
  BY <1>4, <1>5, <1>6, <1>7 DEF IInv

\* What the pages that handlers show have in common
LEMMA ShownPages ==
  ASSUME NEW p, Shown(p), NEW b \in BOOLEAN
  PROVE  /\ p # Gone => Shown([p EXCEPT !.saving = b]) /\ Shown([p EXCEPT !.comment = b])
         /\ p # Gone => Shown(Redirected(p))
<1>1. SUFFICES ASSUME p # Gone PROVE Shown([p EXCEPT !.saving = b]) /\ Shown([p EXCEPT !.comment = b]) /\ Shown(Redirected(p))
  OBVIOUS
<1>2. p \in Pages /\ p.load = "open" /\ Covers(p.form, p.saved) /\ (~muddled /\ row # None /\ p.rating # "none" => p.saved = row.content)
  BY <1>1 DEF Shown
<1>3. Shown([p EXCEPT !.saving = b])
  <2> DEFINE q == [p EXCEPT !.saving = b]
  <2>1. q \in Pages /\ q.load = p.load /\ q.rating = p.rating /\ q.form = p.form /\ q.saved = p.saved
    BY <1>2 DEF Pages
  <2> HIDE DEF q
  <2>2. Shown(q)
    BY <1>2, <2>1 DEF Shown
  <2>3. QED
    BY <2>2 DEF q
<1>4. Shown([p EXCEPT !.comment = b])
  <2> DEFINE q == [p EXCEPT !.comment = b]
  <2>1. q \in Pages /\ q.load = p.load /\ q.rating = p.rating /\ q.form = p.form /\ q.saved = p.saved
    BY <1>2 DEF Pages
  <2> HIDE DEF q
  <2>2. Shown(q)
    BY <1>2, <2>1 DEF Shown
  <2>3. QED
    BY <2>2 DEF q
<1>5. Shown(Redirected(p))
  <2> DEFINE q == [p EXCEPT !.pendingNav = TRUE]
             r == [q EXCEPT !.blocked = "own"]
  <2>1. q \in Pages /\ q.load = p.load /\ q.rating = p.rating /\ q.form = p.form /\ q.saved = p.saved
    BY <1>2 DEF Pages
  <2>2. Redirected(p) \in {p, r, Gone}
    BY DEF Redirected, Navigated
  <2> HIDE DEF q
  <2>3. r \in Pages /\ r.load = p.load /\ r.rating = p.rating /\ r.form = p.form /\ r.saved = p.saved
    BY <2>1 DEF Pages
  <2> HIDE DEF r
  <2>4. QED
    BY <1>2, <2>2, <2>3 DEF Shown
<1>6. QED
  BY <1>3, <1>4, <1>5

\* The finally of a handler leaves the page open.
LEMMA FreedIsOpen ==
  ASSUME NEW p \in Pages, NEW n
  PROVE  /\ Freed(p, n) \in Pages /\ Freed(p, n).load = p.load
         /\ p.load = "open" => p # Gone /\ Freed(p, n) # Gone
<1>1. Freed(p, n) \in Pages /\ Freed(p, n).load = p.load
  BY DEF Freed, Pages
<1>2. QED
  BY <1>1, BlankForms

\* Each handler, after each of its requests.
LEMMA ResumeSteps == ASSUME IInv, NEW n \in Calls, Resume(n) PROVE IInv'
<1>1. UNCHANGED <<row, edits, faults, muddled, raced>>
  BY DEF Resume
<1>2. TypeOK /\ PageOK /\ CallsOK /\ InStep /\ page \in Pages /\ call \in [Calls -> CallStates]
      /\ (row # None => Serialized(row.content) = row.content)
  BY DEF IInv, TypeOK
<1>3. Busy(n)
  BY <1>2 DEF CallsOK, Resume, AfterPatch, AfterPublish, AfterComment, AfterRepublish, AfterDelete, Hears
<1>4. ~Left => page.load = "open"
  BY <1>2, <1>3 DEF PageOK, Left
<1>5. ASSUME ~(call[n].at = "patch" /\ call[n].told = "ok"), ~Left PROVE Shown(page)
  <2>1. ~muddled => \A k \in Calls : k # n => call[k].at = "idle"
    BY <1>2, <1>3 DEF InStep, CallsOK
  <2>2. ~muddled /\ row # None /\ page.rating # "none" => page.saved = row.content
    BY <1>2, <1>5, <2>1 DEF InStep
  <2>3. QED
    BY <1>2, <1>4, <1>5, <2>2 DEF Shown, PageOK
<1>6. ASSUME ~Left, NEW p \in Pages, p.load = "open", Brings(n) PROVE Shown(Applied(p, call[n].answer))
  <2> DEFINE r == call[n].answer
             q == Applied(p, r)
  <2>1. r \in Rows /\ (~muddled /\ row # None => r.content = row.content)
    BY <1>2, <1>6 DEF CallsOK, InStep
  <2>2. q \in Pages /\ q.load = "open" /\ q.saved = Serialized(r.content) /\ Covers(q.form, q.saved)
    BY <1>6, <2>1, AppliedPage
  <2> HIDE DEF q
  <2>3. Shown(q)
    BY <1>2, <2>1, <2>2 DEF Shown
  <2>4. QED
    BY <2>3 DEF q
<1>7. ASSUME ~Left PROVE page # Gone
  BY <1>7 DEF Left
<1>8. ASSUME NEW p, Shown(p) PROVE Shown(Freed(p, n))
  <2>1. CASE p # Gone
    BY <1>8, <2>1, ShownPages DEF Freed
  <2>2. CASE p = Gone
    <3>1. Gone.saving = FALSE
      BY DEF Gone, Mounted
    <3>2. [Gone EXCEPT !.saving = FALSE] = Gone
      BY <3>1, BlankForms DEF Pages
    <3>3. QED
      BY <2>2, <3>2 DEF Freed, Shown
  <2>3. QED
    BY <2>1, <2>2
<1>9. End(n) => GoesOn(n)
  BY <1>2, BlankForms DEF End, GoesOn, Idle
<1>10. ASSUME NEW stage \in {"publish", "republish", "comment"}, Then(n, stage), stage = "comment" => Brings(n)
       PROVE  GoesOn(n)
  <2> DEFINE new == [Idle EXCEPT !.kind = call[n].kind, !.at = stage, !.comment = call[n].comment,
                                 !.answer = IF stage = "comment" THEN call[n].answer ELSE None]
  <2>1. /\ new \in CallStates /\ new.kind = call[n].kind /\ new.at = stage /\ new.told = "waiting"
        /\ stage = "comment" => new.answer = call[n].answer
    BY <1>2, BlankForms DEF Idle, CallStates, Stages
  <2>2. call' = [call EXCEPT ![n] = new]
    BY <1>10 DEF Then
  <2> HIDE DEF new
  <2>3. QED
    BY <1>2, <1>3, <1>10, <2>1, <2>2 DEF GoesOn, Busy
<1>11. ASSUME NEW p, ~Left => Shown(p), Become(p), GoesOn(n) PROVE IInv'
  BY <1>1, <1>3, <1>11, ResumeKeeps DEF Become
<1>12. CASE AfterPatch(n)
  <2> DEFINE told == IF Refused(n) THEN page ELSE Applied(page, call[n].answer)
  <2>1. call[n].at = "patch" /\ call[n].told \in {"ok", "failed"}
    BY <1>2, <1>12 DEF AfterPatch, Hears, CallStates
  <2>2. ~Left => Shown(told)
    BY <1>2, <1>4, <1>5, <1>6, <2>1 DEF Refused, Brings
  <2>3. ~Left => Shown(Freed(told, n))
    BY <1>8, <2>2
  <2>4. Shown(Gone)
    BY DEF Shown
  <2>5. Become(Gone) \/ Become(Freed(told, n))
    BY <1>12 DEF AfterPatch
  <2>6. GoesOn(n)
    BY <1>9, <1>10, <1>12 DEF AfterPatch
  <2> HIDE DEF told
  <2>7. QED
    BY <1>11, <2>3, <2>4, <2>5, <2>6
<1>13. CASE AfterPublish(n)
  <2>1. call[n].at = "publish" /\ call[n].told \in {"ok", "failed"}
    BY <1>2, <1>13 DEF AfterPublish, Hears, CallStates
  <2>2. ~Left => Shown(page)
    BY <1>5, <2>1
  <2>3. CASE ~Refused(n) /\ call[n].comment
    <3>1. Then(n, "comment") /\ page' = page /\ Brings(n)
      BY <1>13, <2>1, <2>3 DEF AfterPublish, Refused, Brings
    <3>2. GoesOn(n) /\ Become(page)
      BY <1>10, <3>1 DEF Become
    <3>3. QED
      BY <1>11, <2>2, <3>2
  <2>4. CASE ~(~Refused(n) /\ call[n].comment)
    <3>1. End(n) /\ Become(IF Refused(n) THEN Freed(page, n) ELSE Redirected(Freed(page, n)))
      BY <1>13, <2>4 DEF AfterPublish
    <3>2. ~Left => Shown(Freed(page, n))
      BY <1>8, <2>2
    <3>3. ~Left => Shown(Redirected(Freed(page, n)))
      BY <1>2, <1>4, <3>2, FreedIsOpen, ShownPages
    <3>4. QED
      BY <1>9, <1>11, <3>1, <3>2, <3>3
  <2>5. QED
    BY <2>3, <2>4
<1>14. CASE AfterComment(n)
  <2> DEFINE quiet == [Freed(page, n) EXCEPT !.comment = FALSE]
  <2>1. call[n].at = "comment" /\ Brings(n)
    BY <1>14 DEF AfterComment, Hears, Brings
  <2>2. ~Left => Shown(Freed(page, n)) /\ Freed(page, n) \in Pages /\ Freed(page, n).load = "open"
    BY <1>2, <1>4, <1>5, <1>8, <2>1, FreedIsOpen
  <2>3. ~Left => Shown(Applied(Freed(page, n), call[n].answer))
    BY <1>6, <2>1, <2>2
  <2>4. ~Left => Shown(quiet) /\ quiet # Gone
    <3>1. ~Left => Freed(page, n) # Gone
      BY <2>2, BlankForms
    <3>2. ~Left => quiet.load = "open"
      BY <2>2 DEF Pages
    <3>3. QED
      BY <2>2, <3>1, <3>2, ShownPages, BlankForms
  <2>5. ~Left => Shown(Redirected(quiet))
    BY <2>4, ShownPages
  <2>6. End(n) /\ (Become(Applied(Freed(page, n), call[n].answer)) \/ Become(Redirected(quiet)))
    BY <1>14 DEF AfterComment
  <2> HIDE DEF quiet
  <2>7. QED
    BY <1>9, <1>11, <2>3, <2>5, <2>6
<1>15. CASE AfterRepublish(n) \/ AfterDelete(n)
  <2>1. ~(call[n].at = "patch" /\ call[n].told = "ok")
    BY <1>15 DEF AfterRepublish, AfterDelete, Hears
  <2>2. ~Left => Shown(page) /\ Shown(Freed(page, n))
    BY <1>5, <1>8, <2>1
  <2>3. ~Left => Shown(Redirected(page)) /\ Shown(Redirected(Freed(page, n)))
    BY <1>2, <1>4, <1>7, <2>2, FreedIsOpen, ShownPages
  <2>4. End(n) /\ (Become(Freed(page, n)) \/ Become(Redirected(page)) \/ Become(Redirected(Freed(page, n))))
    BY <1>15 DEF AfterRepublish, AfterDelete
  <2>5. QED
    BY <1>9, <1>11, <2>2, <2>3, <2>4
<1>16. QED
  BY <1>12, <1>13, <1>14, <1>15 DEF Resume

----------------------------------------------------------------------------
(* The theorems *)

LEMMA StepInductive == IInv /\ [Next]_vars => IInv'
<1> SUFFICES ASSUME IInv, [Next]_vars PROVE IInv'
  OBVIOUS
<1>1. CASE UNCHANGED vars
  BY <1>1 DEF vars, IInv, TypeOK, RowOK, PageOK, CallsOK, CheckedOK, Admits, InStep, Busy, Brings
<1>2. QED
  BY <1>1, LoadSteps, ChangeFormSteps, GuardSteps, PressSteps, ServeSteps, LoseSteps, ResumeSteps DEF
     Next

\* The inductive invariant holds.
THEOREM Invariance == Spec => []IInv
  BY InitInductive, StepInductive, PTL DEF Spec

\* Row, page and handlers are what the operators take them for.
THEOREM TypeCorrect == Spec => []TypeOK
<1>1. IInv => TypeOK
  BY DEF IInv
<1>2. QED
  BY <1>1, Invariance, PTL

\* A published row has a score and no track twice, in whatever order the requests
\* of any number of handlers come; it has every slot as long as no commit of
\* patch_rating or publish_rating met a row that was not the one it had checked.
THEOREM PublishedWhole == Spec => []PublishedIsWhole
<1>1. IInv => PublishedIsWhole
  BY DEF IInv, RowOK, PublishedIsWhole
<1>2. QED
  BY <1>1, Invariance, PTL

\* When nothing is under way the snapshot of the page is the row: applyRating
\* takes it from the answer, not from what was sent.
THEOREM Snapshot == Spec => []SnapshotIsSaved
<1>1. IInv => SnapshotIsSaved
  BY DEF IInv, InStep, CallsOK, SnapshotIsSaved
<1>2. QED
  BY <1>1, Invariance, PTL

\* What the server does to the row on which a patch comes.
LEMMA PatchWrites ==
  ASSUME IInv, NEW n \in Calls, PatchRating(n), ~muddled, row # None, row' # None, row'.content # row.content
  PROVE  call[n].at = "patch" /\ row'.content = Serialized(call[n].form)
<1>1. /\ row \in Rows /\ row.content \in Contents /\ Serialized(row.content) = row.content /\ call[n].form \in Contents
      /\ call[n].at = "patch" /\ call[n].told = "checked"
  BY DEF IInv, TypeOK, CallStates, Rows, PatchRating, Is
<1>2. Covers(call[n].form, row.content) /\ call[n].seen.content = row.content
  BY <1>1 DEF IInv, InStep
<1>3. row' = [row EXCEPT !.content = Merged(row.content, row.content, call[n].form)]
  BY <1>2 DEF PatchRating, Put, Refuse
<1>4. Merged(row.content, row.content, call[n].form) = Serialized(call[n].form)
  BY <1>1, <1>2, MergedForm
<1>5. row'.content = Merged(row.content, row.content, call[n].form)
  BY <1>1, <1>3 DEF Rows
<1>6. QED
  BY <1>1, <1>4, <1>5

\* A save makes of the row what the form showed when it was clicked: what the
\* patch leaves out is what the form and the row have in common.
THEOREM Saves == Spec => SavesWholeForm
<1>1. ASSUME IInv, Next, row # None, row' # None, row'.content # row.content, ~muddled
      PROVE  \E n \in Calls : call[n].at = "patch" /\ row'.content = Serialized(call[n].form)
  <2>1. PICK n \in Calls : Serve(n)
    BY <1>1 DEF Next, Load, LoadFails, StartedElsewhere, ChangeForm, SetScore, ChangeNote, AddTrack,
       RemoveTrack, ResetTop, TypeComment, StartDrag, EditForm, Edit, EndDrag, CancelDrag, ClickLink,
       Answered, Press, HandleSave, HandlePublish, HandleRepublish, HandleRemove, SaveAndQuit, Click,
       Request, Lose, Resume
  <2>2. row \in Rows
    BY <1>1 DEF IInv, TypeOK
  <2>3. ~PublishRating(n)
    BY <1>1, <2>2 DEF PublishRating, Put, Refuse, Rows
  <2>4. PatchRating(n)
    BY <1>1, <2>1, <2>3 DEF Serve, ReadRating, RepublishRating, DeleteRating, CreateComment, Put, Refuse
  <2>5. QED
    BY <1>1, <2>4, PatchWrites
<1>2. IInv /\ [Next]_vars =>
        [row # None /\ row' # None /\ row'.content # row.content /\ ~muddled =>
            \E n \in Calls : call[n].at = "patch" /\ row'.content = Serialized(call[n].form)]_vars
  BY <1>1
<1>3. QED
  BY <1>2, Invariance, PTL DEF Spec, SavesWholeForm
=============================================================================
