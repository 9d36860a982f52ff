--------------------------- MODULE MCRatingEditor ---------------------------
(* Instances of RatingEditor for TLC. *)
EXTENDS RatingEditor

\* A rating with every slot filled and a note, as a draft and published.
Whole == CHOOSE content \in Contents : Complete(content) /\ Distinct(content) /\ \A t \in Noted : content.notes[t] \in Texts
WholeRows == [status : {"draft", "published"}, content : {Whole}]
=============================================================================
