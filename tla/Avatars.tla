------------------------------ MODULE Avatars ------------------------------
(***************************************************************************)
(* The picture of a profile: a key in the row of the user, and an object   *)
(* of that key in the store.  A change writes the one, then the other, and *)
(* then removes what it replaced, and may end after any of these.          *)
(* Code: routers/users.py (upload_avatar, delete_avatar),                  *)
(* services/storage.py, core/deps.py, AvatarLightbox of ProfilePage.tsx.   *)
(*                                                                         *)
(* The key of an upload is drawn at random, and is here the call itself.   *)
(* The lightbox may be closed and opened again over a call that is under   *)
(* way, and forgets it: so calls overlap.  Closed, it does nothing.        *)
(***************************************************************************)
EXTENDS Integers, FiniteSets

CONSTANTS
    AvatarCalls,  \* the uploads and removals there may ever be, in the order they are asked for
    First,        \* the key of a picture from before
    NoKey,        \* no picture
    MaxLost       \* bound: the calls that fail

ASSUME AvatarAssumption ==
    /\ IsFiniteSet(AvatarCalls) /\ AvatarCalls \subseteq Nat /\ First # NoKey
    /\ First \notin AvatarCalls /\ NoKey \notin AvatarCalls
    /\ MaxLost \in Nat

VARIABLES
    picture,   \* profile_picture_key of the row
    objects,   \* the keys in the store
    calls,     \* upload_avatar and delete_avatar
    photo,     \* the picture the page shows
    busy,      \* the call the lightbox waits for, or NoKey
    lost,
    blind      \* history: how many calls replaced a key they had not read

avatarVars == <<picture, objects, calls, photo, busy, lost, blind>>

Keys == AvatarCalls \cup {First}
Unsent == [at |-> "unsent", does |-> "none", old |-> NoKey, answer |-> NoKey]
Over == [Unsent EXCEPT !.at = "ended"]

AvatarInit ==
    /\ picture \in {First, NoKey}
    /\ objects = {picture} \ {NoKey}
    /\ calls = [c \in AvatarCalls |-> Unsent]
    /\ photo = picture /\ busy = NoKey
    /\ lost = 0 /\ blind = 0

----------------------------------------------------------------------------
(* The lightbox *)

\* onClose, and the lightbox that is opened next: useState(false)
ReopenLightbox ==
    /\ busy # NoKey /\ busy' = NoKey
    /\ UNCHANGED <<picture, objects, calls, photo, lost, blind>>

\* handleFile and handleRemove
ChangePhoto(c, does) ==
    /\ busy = NoKey
    /\ calls[c].at = "unsent" /\ \A d \in AvatarCalls : d < c => calls[d].at # "unsent"
    /\ does = "remove" => photo # NoKey
    /\ calls' = [calls EXCEPT ![c].at = "sent", ![c].does = does]
    /\ busy' = c
    /\ UNCHANGED <<picture, objects, photo, lost, blind>>

\* setBusy(false), in the lightbox that asked
Released(c) == IF busy = c THEN NoKey ELSE busy

ShowPhoto(c) ==
    /\ calls[c].at = "answered"
    /\ photo' = calls[c].answer
    /\ calls' = [calls EXCEPT ![c] = Over]
    /\ busy' = Released(c)
    /\ UNCHANGED <<picture, objects, lost, blind>>

ShowFailure(c) ==
    /\ calls[c].at = "failed"
    /\ calls' = [calls EXCEPT ![c] = Over]
    /\ busy' = Released(c)
    /\ UNCHANGED <<picture, objects, photo, lost, blind>>

----------------------------------------------------------------------------
(* The endpoints *)

Goes(c, from, to) == calls[c].at = from /\ calls' = [calls EXCEPT ![c].at = to]

\* get_current_user.  The handler selects the user again, in the same session,
\* and is given the object that was read here.
ReadUser(c) ==
    /\ calls[c].at = "sent"
    /\ calls' = [calls EXCEPT ![c].at = "read", ![c].old = picture]
    /\ UNCHANGED <<picture, objects, photo, busy, lost, blind>>

SaveImage(c) ==
    /\ calls[c].does = "upload" /\ Goes(c, "read", "saved")
    /\ objects' = objects \cup {c}
    /\ UNCHANGED <<picture, photo, busy, lost, blind>>

\* A row that is not changed is not written.
NewKey(c) ==
    IF calls[c].does = "upload" THEN c
    ELSE IF calls[c].old = NoKey THEN picture ELSE NoKey

CommitKey(c) ==
    /\ Goes(c, IF calls[c].does = "upload" THEN "saved" ELSE "read", "committed")
    /\ picture' = NewKey(c)
    /\ blind' = IF picture \in {calls[c].old, NewKey(c)} THEN blind ELSE blind + 1
    /\ UNCHANGED <<objects, photo, busy, lost>>

\* The answer of an upload is the row as it is by then.
RefreshUser(c) ==
    /\ calls[c].at = "committed"
    /\ calls' = [calls EXCEPT ![c].at = "refreshed",
                              ![c].answer = IF calls[c].does = "upload" THEN picture ELSE NoKey]
    /\ UNCHANGED <<picture, objects, photo, busy, lost, blind>>

\* mutant: what the row had by now is removed
ReadAgain(c) == {picture}

\* mutant: a removal clears the row only
UploadsOnly(c) == IF calls[c].does = "upload" THEN {calls[c].old} ELSE {}

ReplacedKey(c) == {calls[c].old}

DropOld(c) ==
    /\ Goes(c, "refreshed", "answered")
    /\ objects' = objects \ ReplacedKey(c)
    /\ UNCHANGED <<picture, photo, busy, lost, blind>>

\* The store, the database, the process or the connection fails.  What has
\* been done stays: there is nothing that would undo it.
LoseAvatar(c) ==
    /\ lost < MaxLost /\ lost' = lost + 1
    /\ calls[c].at \in {"sent", "read", "saved", "committed", "refreshed", "answered"}
    /\ calls' = [calls EXCEPT ![c].at = "failed"]
    /\ UNCHANGED <<picture, objects, photo, busy, blind>>

----------------------------------------------------------------------------
AvatarNext ==
    \/ ReopenLightbox
    \/ \E c \in AvatarCalls :
          \/ \E does \in {"upload", "remove"} : ChangePhoto(c, does)
          \/ ReadUser(c) \/ SaveImage(c) \/ CommitKey(c) \/ RefreshUser(c) \/ DropOld(c)
          \/ LoseAvatar(c) \/ ShowPhoto(c) \/ ShowFailure(c)

AvatarSpec == AvatarInit /\ [][AvatarNext]_avatarVars

----------------------------------------------------------------------------
CallRecord ==
    [at : {"unsent", "sent", "read", "saved", "committed", "refreshed", "answered", "failed", "ended"},
     does : {"none", "upload", "remove"},
     old : Keys \cup {NoKey}, answer : Keys \cup {NoKey}]

AvatarTypeOK ==
    /\ picture \in Keys \cup {NoKey} /\ photo \in Keys \cup {NoKey}
    /\ objects \subseteq Keys
    /\ calls \in [AvatarCalls -> CallRecord]
    /\ busy \in AvatarCalls \cup {NoKey}
    /\ lost \in Nat /\ blind \in Nat

\* The key in the row is that of an object, however many calls overlap, and
\* wherever each of them ends: a picture is not removed while it is in use.
AvatarIsThere == picture # NoKey => picture \in objects

\* What nothing will remove any more was left by a call that failed, or by one
\* that replaced another key than it had read: each leaves one object at most.
OrphansAreFew ==
    (\A c \in AvatarCalls : calls[c].at \in {"unsent", "failed", "ended"})
        => Cardinality(objects \ {picture}) <= lost + blind
=============================================================================
