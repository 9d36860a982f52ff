------------------------- MODULE MCFriendDashboard -------------------------
(* Instances of FriendDashboard for TLC. *)
EXTENDS FriendDashboard, TLC

\* Albums, scores and threads are interchangeable; users are ordered by name.
Symmetry == Permutations(Albums) \cup Permutations(Scores) \cup Permutations(Threads)
=============================================================================
