---------------------------- MODULE AlbumImport ----------------------------
(***************************************************************************)
(* The catalogue: an album is imported when it is first opened, under the  *)
(* Spotify id it was opened by, and an album that Spotify lists under      *)
(* several ids is to have one row, found again by its barcode.  A row from *)
(* before barcodes, or from before all tracks were fetched, is completed   *)
(* when it is opened.                                                      *)
(* Code: get_or_import_album of routers/albums.py, models/album.py.        *)
(*                                                                         *)
(* The id of the artist is completed as the barcode is, and the five most  *)
(* popular tracks may be missing: both are left out.  What Spotify tells   *)
(* does not change (an answer of theirs may also come from the cache).     *)
(***************************************************************************)
EXTENDS FiniteSets, Naturals

CONSTANTS
    Editions,    \* Spotify ids
    Barcode,     \* external_ids.upc of each, or NoCode
    NoCode,
    Opens,       \* the requests there may ever be, in the order they are sent
    MaxFailures  \* bound: requests that fail at Spotify or in the database

ASSUME ImportAssumption ==
    /\ IsFiniteSet(Editions) /\ DOMAIN Barcode = Editions
    /\ IsFiniteSet(Opens) /\ Opens \subseteq Nat
    /\ MaxFailures \in Nat

VARIABLES
    albums,    \* the rows: a function from the ids there is one for
    opens,     \* get_or_import_album
    failures,
    missed     \* history: <<e, f>> when the import of e could not find the row of f

importVars == <<albums, opens, failures, missed>>

AlbumRows == [upc : {NoCode} \cup {Barcode[e] : e \in Editions}, tracks : {"some", "all"}]

\* A row as it is imported
Whole(e) == [upc |-> Barcode[e], tracks |-> "all"]
Unread == [upc |-> NoCode, tracks |-> "some"]
Unopened == [at |-> "unsent", edition |-> "none", read |-> Unread, album |-> "none", tracks |-> "none"]

SameAlbum(e) == {f \in Editions : Barcode[f] = Barcode[e] /\ Barcode[e] # NoCode}

ImportInit ==
    /\ \E old \in SUBSET Editions :
          albums \in {f \in [old -> AlbumRows] : \A e \in old : f[e].upc \in {NoCode, Barcode[e]}}
    /\ opens = [o \in Opens |-> Unopened]
    /\ failures = 0 /\ missed = (DOMAIN albums) \X (DOMAIN albums)

----------------------------------------------------------------------------
OpenAlbum(o, e) ==
    /\ opens[o].at = "unsent" /\ \A p \in Opens : p < o => opens[p].at # "unsent"
    /\ opens' = [opens EXCEPT ![o].at = "sent", ![o].edition = e]
    /\ UNCHANGED <<albums, failures, missed>>

\* The row the request goes on with is read here, its tracks when they are used.
FindAlbum(o) ==
    LET e == opens[o].edition IN
    /\ opens[o].at = "sent"
    /\ opens' = IF e \in DOMAIN albums
                THEN [opens EXCEPT ![o].at = "found", ![o].read.upc = albums[e].upc]
                ELSE [opens EXCEPT ![o].at = "unknown"]
    /\ UNCHANGED <<albums, failures, missed>>

\* A request that has ended has forgotten what it read.
Ended(o, how) == opens' = [opens EXCEPT ![o] = [@ EXCEPT !.at = how, !.read = Unread]]

\* _to_album_out(row of e)
Tells(o, e, row) ==
    opens' = [opens EXCEPT ![o] = [@ EXCEPT !.at = "answered", !.read = Unread, !.album = e, !.tracks = row.tracks]]

LoadTracks(o) ==
    /\ opens[o].at = "found"
    /\ opens' = [opens EXCEPT ![o].at = "loaded", ![o].read.tracks = albums[opens[o].edition].tracks]
    /\ UNCHANGED <<albums, failures, missed>>

\* mutant: tracks are completed with the barcode only
CompletedOnce(row, read, e) ==
    IF read.upc = NoCode THEN [upc |-> Barcode[e], tracks |-> "all"] ELSE row

\* What the row lacks, by what was read of it
Completed(row, read, e) ==
    [upc |-> IF read.upc = NoCode THEN Barcode[e] ELSE row.upc,
     tracks |-> IF read.tracks = "some" THEN "all" ELSE row.tracks]

\* The tracks another request has added by now are not added again:
\* uq_album_track_index refuses them, and the barcode with them.
Backfill(o) ==
    LET e == opens[o].edition
        row == Completed(albums[e], opens[o].read, e) IN
    /\ opens[o].at = "loaded"
    /\ IF opens[o].read.tracks = "some" /\ albums[e].tracks = "all"
       THEN Ended(o, "refused") /\ UNCHANGED albums
       ELSE albums' = [albums EXCEPT ![e] = row] /\ Tells(o, e, row)
    /\ UNCHANGED <<failures, missed>>

\* mutant: the barcode is not looked for
NoneOfCode(e) == {}

OfCode(e) == {f \in DOMAIN albums : Barcode[e] # NoCode /\ albums[f].upc = Barcode[e]}

\* get_album, and the row of another edition: whichever the database gives
FindByBarcode(o) ==
    LET e == opens[o].edition IN
    /\ opens[o].at = "unknown"
    /\ \/ /\ OfCode(e) = {}
          /\ opens' = [opens EXCEPT ![o].at = "new"]
          /\ missed' = missed \cup {<<e, f>> : f \in {g \in SameAlbum(e) \cap DOMAIN albums : albums[g].upc = NoCode}}
       \/ /\ \E f \in OfCode(e) : Tells(o, f, albums[f])
          /\ UNCHANGED missed
    /\ UNCHANGED <<albums, failures>>

\* Two rows may have one barcode, but not one Spotify id.
Import(o) ==
    LET e == opens[o].edition IN
    /\ opens[o].at = "new"
    /\ IF e \in DOMAIN albums
       THEN Ended(o, "refused") /\ UNCHANGED <<albums, missed>>
       ELSE /\ albums' = [f \in DOMAIN albums \cup {e} |-> IF f = e THEN Whole(e) ELSE albums[f]]
            /\ Tells(o, e, Whole(e))
            /\ missed' = missed \cup {<<opens[p].edition, e>> : p \in {q \in Opens : opens[q].at = "new"}}
    /\ UNCHANGED failures

\* A request is one transaction, and leaves nothing.
FailOpen(o) ==
    /\ failures < MaxFailures /\ failures' = failures + 1
    /\ opens[o].at \in {"sent", "found", "loaded", "unknown", "new"}
    /\ Ended(o, "failed")
    /\ UNCHANGED <<albums, missed>>

ImportNext ==
    \E o \in Opens :
       \/ \E e \in Editions : OpenAlbum(o, e)
       \/ FindAlbum(o) \/ LoadTracks(o) \/ Backfill(o)
       \/ FindByBarcode(o) \/ Import(o) \/ FailOpen(o)

ImportSpec == ImportInit /\ [][ImportNext]_importVars

----------------------------------------------------------------------------
\* Two editions of one album have two rows only if the import of the one could
\* not find the other: it was not yet committed, or had no barcode.
EditionsShareARow ==
    \A e, f \in DOMAIN albums :
       e # f /\ f \in SameAlbum(e) => <<e, f>> \in missed \/ <<f, e>> \in missed

\* Who opens an album by the id of its row is told all of its tracks; and whom
\* the database refuses was preceded: who opens it again is told them.
AlbumsComeWhole ==
    \A o \in Opens :
       LET e == opens[o].edition IN
       /\ opens[o].at = "answered" /\ opens[o].album = e => opens[o].tracks = "all"
       /\ opens[o].at = "refused" => e \in DOMAIN albums /\ albums[e].tracks = "all"
=============================================================================
