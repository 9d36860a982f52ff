------------------------------ MODULE MCServer ------------------------------
(* The parts of the server that share no state, one at a time. *)
EXTENDS SpotifyGate, Avatars, AlbumImport, CommentLikes

\* Whose steps are taken: the gate's to Spotify, or those of the requests about
\* the picture of a profile, about the catalogue, or the likes of a comment.
VARIABLE part

EditionCodes == [e \in {"e1", "e2", "e3"} |-> IF e = "e3" THEN "none" ELSE "code"]

\* A part that is not served waits, with one thing it might begin from.
ServerInit ==
    /\ part \in {"spotify", "avatar", "albums", "likes"}
    /\ Init /\ (part # "spotify" => cooldown = 0)
    /\ AvatarInit /\ (part # "avatar" => picture = NoKey)
    /\ ImportInit /\ (part # "albums" => DOMAIN albums = {})
    /\ LikesInit

ServerNext ==
    \/ part = "spotify" /\ Next /\ UNCHANGED <<part, avatarVars, importVars, likesVars>>
    \/ part = "avatar" /\ AvatarNext /\ UNCHANGED <<part, vars, importVars, likesVars>>
    \/ part = "albums" /\ ImportNext /\ UNCHANGED <<part, vars, avatarVars, likesVars>>
    \/ part = "likes" /\ LikesNext /\ UNCHANGED <<part, vars, avatarVars, importVars>>

ServerSpec == ServerInit /\ [][ServerNext]_<<part, vars, avatarVars, importVars, likesVars>>
=============================================================================
