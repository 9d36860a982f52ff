-------------------------- MODULE MCListenInvites --------------------------
(* Instances of ListenInvites for TLC. *)
EXTENDS ListenInvites, TLC

\* Users are interchangeable, and so are the pool's threads.
Symmetry == Permutations(Users) \cup Permutations(Threads)
=============================================================================
