------------------------ MODULE MCNotificationBadge ------------------------
(* A friend request and something else for alice, nothing for bob. *)
EXTENDS NotificationBadge, TLC
CONSTANTS alice, bob, request, other
Recipients == request :> alice @@ other :> alice
ScopeOf == request :> "friend_requests" @@ other :> "bell"
=============================================================================
