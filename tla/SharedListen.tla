---------------------------- MODULE SharedListen ----------------------------
(***************************************************************************)
(* What listening together to an album promises to those who do: an invite *)
(* is answered once, an acceptance gives a draft to a partner who has no   *)
(* rating, and an invite is completed by a partner who has published, with *)
(* another who has published too, or who has just taken the rating back.   *)
(* Nothing but its owner changes a rating that is there, and who removes   *)
(* one leaves every listen that was accepted.                              *)
(*                                                                         *)
(* There are no requests here, nothing that was read earlier, and no       *)
(* notifications: each row changes as if its handler were alone.           *)
(***************************************************************************)
CONSTANT Users

VARIABLES
    invites,   \* the invite of each (sender, receiver)
    ratings,   \* the rating of each user
    leaving    \* the users who have removed theirs, and are still in their listens

vars == <<invites, ratings, leaving>>

Invites == {p \in Users \X Users : p[1] # p[2]}
Partners(p) == {p[1], p[2]}
AcceptedOf(u) == {p \in Invites : u \in Partners(p) /\ invites[p] = "accepted"}

Init ==
    /\ invites = [p \in Invites |-> "none"]
    /\ ratings \in [Users -> {"none", "draft", "published"}]
    /\ leaving = {}

----------------------------------------------------------------------------
Becomes(S, status) == invites' = [p \in Invites |-> IF p \in S THEN status ELSE invites[p]]
IsRated(u, status) == ratings' = [ratings EXCEPT ![u] = status]

Invite(p) ==
    /\ invites[p] = "none"
    /\ Becomes({p}, "pending")
    /\ UNCHANGED <<ratings, leaving>>

\* A partner has a rating, but for one who removed it since the answer began.
Accept(p) ==
    /\ invites[p] = "pending"
    /\ Becomes({p}, "accepted")
    /\ \E new \in SUBSET Partners(p) :
          /\ \A u \in new : ratings[u] = "none"
          /\ ratings' = [u \in Users |-> IF u \in new THEN "draft" ELSE ratings[u]]
    /\ UNCHANGED leaving

\* Declined, withdrawn, or gone with the friendship: one row, or the two of a couple.
End(p) ==
    /\ \E S \in SUBSET {q \in Invites : Partners(q) = Partners(p)} : Becomes(S, "none")
    /\ UNCHANGED <<ratings, leaving>>

Rate(u) ==
    /\ ratings[u] = "none"
    /\ IsRated(u, "draft")
    /\ UNCHANGED <<invites, leaving>>

Finish(u) ==
    /\ ratings[u] = "draft"
    /\ IsRated(u, "published")
    /\ UNCHANGED <<invites, leaving>>

HasFinished(u) == ratings[u] = "published" \/ u \in leaving

Complete(u) ==
    /\ ratings[u] = "published"
    /\ \E S \in SUBSET AcceptedOf(u) :
          /\ \A p \in S : \A v \in Partners(p) : HasFinished(v)
          /\ Becomes(S, "completed")
    /\ UNCHANGED <<ratings, leaving>>

Remove(u) ==
    /\ ratings[u] # "none" /\ u \notin leaving
    /\ IsRated(u, "none")
    /\ leaving' = leaving \cup {u}
    /\ UNCHANGED invites

Leave(u) ==
    /\ u \in leaving
    /\ Becomes(AcceptedOf(u), "none")
    /\ leaving' = leaving \ {u}
    /\ UNCHANGED ratings

Next ==
    \/ \E p \in Invites : Invite(p) \/ Accept(p) \/ End(p)
    \/ \E u \in Users : Rate(u) \/ Finish(u) \/ Complete(u) \/ Remove(u) \/ Leave(u)

Spec == Init /\ [][Next]_vars
=============================================================================
