------------------------------ MODULE Lookups ------------------------------
(***************************************************************************)
(* What the cache of the Spotify lookups promises its callers, and what    *)
(* services/spotify.py and the rate gate rely on: of the callers that ask  *)
(* for a key while it is not cached one loads it, and the others get what  *)
(* it stored.  There are no locks here, and no second look.                *)
(*                                                                         *)
(* A key that is lost while somebody asks for it - it expires, makes room  *)
(* for another, or the cache is cleared - is excused: it may be loaded by  *)
(* several at once, until nobody asks for it any more at the latest.       *)
(***************************************************************************)
CONSTANTS
    Callers,
    Keys,
    NoKey      \* the key of a caller that asks for nothing

VARIABLES
    asked,     \* what each caller has asked for
    loading,   \* those who run their loader, or have yet to store its value
    served,    \* those who have stored theirs
    cached,    \* the keys that have a value
    excused

vars == <<asked, loading, served, cached, excused>>

Init ==
    /\ asked = [c \in Callers |-> NoKey]
    /\ loading = {} /\ served = {}
    /\ cached = {} /\ excused = {}

----------------------------------------------------------------------------
\* Excuses come from losing a key, and go at any time.
Excuse(K) == excused' \subseteq excused \cup K

Ask(c, k) ==
    /\ asked[c] = NoKey
    /\ asked' = [asked EXCEPT ![c] = k]
    /\ Excuse({})
    /\ UNCHANGED <<loading, served, cached>>

Leave(c) ==
    /\ asked' = [asked EXCEPT ![c] = NoKey]
    /\ loading' = loading \ {c} /\ served' = served \ {c}
    /\ Excuse({})
    /\ UNCHANGED cached

\* What is cached is returned; so is what the caller itself has stored; and a
\* loader may raise.
Answer(c) ==
    /\ asked[c] \in cached \/ c \in served \/ c \in loading
    /\ Leave(c)

\* One loads what is not there.
StartLoad(c) ==
    /\ asked[c] # NoKey /\ asked[c] \notin cached
    /\ asked[c] \in excused \/ \A d \in loading : asked[d] # asked[c]
    /\ loading' = loading \cup {c}
    /\ Excuse({})
    /\ UNCHANGED <<asked, served, cached>>

\* What is stored may make others go.
Store(c) ==
    /\ c \in loading
    /\ loading' = loading \ {c}
    /\ served' = served \cup {c}
    /\ \E E \in SUBSET (Keys \ {asked[c]}) :
          cached' = (cached \cup {asked[c]}) \ E /\ Excuse(E)
    /\ UNCHANGED asked

Forget(K) ==
    /\ cached' = cached \ K
    /\ Excuse(K)
    /\ UNCHANGED <<asked, loading, served>>

Next ==
    \/ \E c \in Callers : (\E k \in Keys : Ask(c, k)) \/ Answer(c) \/ StartLoad(c) \/ Store(c)
    \/ \E K \in SUBSET Keys : Forget(K)

Spec == Init /\ [][Next]_vars
=============================================================================
