---------------------------- MODULE ClientSession ----------------------------
(***************************************************************************)
(* Who is signed in, as one browser tab sees it.  The server keeps a       *)
(* refresh cookie in the browser, the tab an access token in its memory    *)
(* and a hint, on disk, that somebody signed in here before.  A request    *)
(* answered 401 waits for a refresh, which it shares with all the others,  *)
(* and is sent once more.                                                  *)
(* Code: api/client.ts, context/AuthContext.tsx, api/auth.ts,              *)
(* components/ProtectedRoute.tsx, pages/LoginPage.tsx,                     *)
(* pages/RegisterPage.tsx; the endpoints of routers/auth.py.               *)
(*                                                                         *)
(* A step is a handler up to its first await, or what follows an await.    *)
(* Any request may fail before the server has seen it, or after.           *)
(***************************************************************************)
EXTENDS Naturals, FiniteSets

CONSTANTS
    Users,
    None,
    Requests      \* bound: the requests of pages under way at once

ASSUME ConstantsAssumption ==
    /\ None \notin Users
    /\ None \notin [user : Users, expired : BOOLEAN]

VARIABLES
    cookie,       \* whose refresh cookie the browser holds
    hint,         \* albumania.hasSession
    token,        \* _accessToken: whose, and whether it has expired
    auth,         \* the state of AuthProvider
    refresh,      \* refreshPromise
    sign,         \* the sign-in or sign-out under way
    req,          \* the requests of pages
    welcome,      \* history: who was signed in with the cookie there, and neither
                  \* left nor lost it since
    overtaken,    \* history: a refresh and a sign-in or sign-out were under way together
    crossed       \* history: the hint went when such a refresh was refused

vars == <<cookie, hint, token, auth, refresh, sign, req, welcome, overtaken, crossed>>

----------------------------------------------------------------------------
Somebody == Users \cup {None}
Fresh(u) == [user |-> u, expired |-> FALSE]
Tokens == [user : Users, expired : BOOLEAN] \cup {None}

\* How a call to the server stands: on its way, refused as unauthorized, ...
Outcomes == {"none", "sent", "ok", "unauthorized", "failed"}
Waiting == "waiting"

\* user: whose cookie went with the refresh; met: whether it has been under way
\* together with a sign-in or sign-out.
NoRefresh == [at |-> "none", user |-> None, mount |-> FALSE, met |-> FALSE]
NoSign == [kind |-> "none", at |-> "none", user |-> None]
Unsent == [at |-> "none", with |-> None, retry |-> FALSE, profile |-> None]
SignedOut == [user |-> None, profile |-> None, isLoading |-> FALSE]
Booting == [SignedOut EXCEPT !.isLoading = TRUE]
Refreshing == refresh.at # "none"

\* A refresh takes the cookie along that is there when it is sent.
Sent == [NoRefresh EXCEPT !.at = "sent", !.user = cookie]

\* The effect of AuthProvider that runs when it is mounted: without the hint
\* nobody waits for a refresh that would be refused.
Boot(hinted) ==
    /\ auth' = IF hinted THEN Booting ELSE SignedOut
    /\ refresh' = IF hinted THEN [Sent EXCEPT !.mount = TRUE] ELSE NoRefresh

Init ==
    /\ cookie \in Somebody /\ hint \in BOOLEAN
    /\ cookie # None => hint
    /\ token = None
    /\ auth = IF hint THEN Booting ELSE SignedOut
    /\ refresh = IF hint THEN [Sent EXCEPT !.mount = TRUE] ELSE NoRefresh
    /\ sign = NoSign
    /\ req = [r \in Requests |-> Unsent]
    /\ welcome = cookie
    /\ overtaken = FALSE /\ crossed = FALSE

----------------------------------------------------------------------------
(* Requests of pages *)

\* A protected page is there only for somebody who is signed in.
PageAsks(r) ==
    /\ auth.user # None /\ req[r] = Unsent
    /\ req' = [req EXCEPT ![r] = [Unsent EXCEPT !.at = "sent", !.with = token]]
    /\ UNCHANGED <<cookie, hint, token, auth, refresh, sign, welcome, overtaken, crossed>>

\* What a request was sent with matters no more once it is answered.
Answered(r, outcome) == req' = [req EXCEPT ![r].at = outcome, ![r].with = None]

Answer(r) ==
    /\ req[r].at = "sent"
    /\ Answered(r, IF req[r].with # None /\ ~req[r].with.expired THEN "ok" ELSE "unauthorized")
    /\ UNCHANGED <<cookie, hint, token, auth, refresh, sign, welcome, overtaken, crossed>>

RequestFails(r) ==
    /\ req[r].at = "sent"
    /\ Answered(r, "failed")
    /\ UNCHANGED <<cookie, hint, token, auth, refresh, sign, welcome, overtaken, crossed>>

\* The response interceptor: a first 401 starts a refresh or joins the one under
\* way; anything else is passed on.
RefreshAndRetry(r) ==
    /\ req[r].at = "unauthorized" /\ ~req[r].retry
    /\ req' = [req EXCEPT ![r].at = Waiting, ![r].retry = TRUE]
    /\ refresh' = IF Refreshing THEN refresh ELSE [Sent EXCEPT !.met = sign # NoSign]
    /\ overtaken' = (overtaken \/ sign # NoSign)
    /\ UNCHANGED <<cookie, hint, token, auth, sign, welcome, crossed>>

\* Mutant: loadProfile shows whatever profile arrives.
MineAnyhow(r) == req[r].profile # None

\* loadProfile keeps a profile only if its user is still the one signed in.
Mine(r) == req[r].profile = auth.user

PassOn(r) ==
    /\ req[r].at \in {"ok", "failed"} \/ (req[r].at = "unauthorized" /\ req[r].retry)
    /\ req' = [req EXCEPT ![r] = Unsent]
    /\ auth' = IF req[r].at = "ok" /\ Mine(r) THEN [auth EXCEPT !.profile = req[r].profile] ELSE auth
    /\ UNCHANGED <<cookie, hint, token, refresh, sign, welcome, overtaken, crossed>>

----------------------------------------------------------------------------
(* The refresh they share *)

\* The endpoint answers whoever sent a refresh cookie, and sets it again: the
\* browser has it back even if it was replaced or deleted meanwhile.  A cookie
\* that is not the browser's any more may have expired on the way.
Cookied == refresh.user # None

RefreshServed ==
    /\ refresh.at = "sent"
    /\ \/ /\ Cookied
          /\ refresh' = [refresh EXCEPT !.at = "ok"]
          /\ cookie' = refresh.user
       \/ /\ ~Cookied \/ cookie # refresh.user
          /\ refresh' = [refresh EXCEPT !.at = "unauthorized", !.user = None]
          /\ UNCHANGED cookie
    /\ UNCHANGED <<hint, token, auth, sign, req, welcome, overtaken, crossed>>

RefreshFails ==
    /\ refresh.at = "sent"
    /\ refresh' = [refresh EXCEPT !.at = "failed", !.user = None]
    /\ UNCHANGED <<cookie, hint, token, auth, sign, req, welcome, overtaken, crossed>>

\* login(token): the session of a user begins, and their profile is asked for
\* (left out when the bound on the requests under way is reached).
Begin(u, requests) ==
    /\ token' = Fresh(u)
    /\ hint' = TRUE
    /\ auth' = [SignedOut EXCEPT !.user = u]
    /\ welcome' = IF cookie = u THEN u ELSE None
    /\ crossed' = FALSE
    /\ LET free == {r \in Requests : requests[r] = Unsent} IN
        \/ free = {} /\ req' = requests
        \/ \E r \in free : req' = [requests EXCEPT ![r] = [Unsent EXCEPT !.at = "sent", !.with = Fresh(u), !.profile = u]]

Retried(t) == [r \in Requests |-> IF req[r].at = Waiting THEN [req[r] EXCEPT !.at = "sent", !.with = t] ELSE req[r]]
Rejected == [r \in Requests |-> IF req[r].at = Waiting THEN Unsent ELSE req[r]]

RefreshSucceeds ==
    /\ refresh.at = "ok"
    /\ refresh' = NoRefresh
    /\ IF refresh.mount
       THEN Begin(refresh.user, Retried(Fresh(refresh.user)))
       ELSE /\ token' = Fresh(refresh.user)
            /\ req' = Retried(token')
            /\ UNCHANGED <<hint, auth, welcome, crossed>>
    /\ UNCHANGED <<cookie, sign, overtaken>>

\* Mutant: any failure counts as the end of the session.
EndsSessionAnyhow == TRUE

\* Only a 401 means that the session is over: the hint goes.  Whatever the
\* failure, the tab does not go on as if somebody were signed in.
EndsSession == refresh.at = "unauthorized"

RefreshRefused ==
    /\ refresh.at \in {"unauthorized", "failed"}
    /\ refresh' = NoRefresh
    /\ token' = None
    /\ hint' = (hint /\ ~EndsSession)
    /\ auth' = SignedOut
    /\ req' = Rejected
    /\ crossed' = (crossed \/ (EndsSession /\ refresh.met))
    /\ UNCHANGED <<cookie, sign, welcome, overtaken>>

\* Mutant: the refresh goes through the interceptor too, and when it is refused
\* it waits for the refresh under way, itself.
RefreshEndsUnlessRefused == RefreshSucceeds \/ (~EndsSession /\ RefreshRefused)

RefreshEnds == RefreshSucceeds \/ RefreshRefused

----------------------------------------------------------------------------
(* Signing in and out *)

Submit(kind, u) ==
    /\ sign = NoSign
    /\ sign' = [kind |-> kind, at |-> "sent", user |-> u]
    /\ refresh' = [refresh EXCEPT !.met = Refreshing]
    /\ overtaken' = (overtaken \/ Refreshing)

\* The pages to sign in and to sign up are open to all, even before the boot
\* has ended.
SignIn(u) ==
    /\ auth.user = None
    /\ Submit("login", u)
    /\ UNCHANGED <<cookie, hint, token, auth, req, welcome, crossed>>

Logout ==
    /\ auth.user # None
    /\ Submit("logout", auth.user)
    /\ welcome' = None
    /\ UNCHANGED <<cookie, hint, token, auth, req, crossed>>

\* The endpoints set and delete the cookie.  Credentials may be wrong, and a
\* name may be taken; none of this is retried on a 401.
SignServed ==
    /\ sign.at = "sent"
    /\ \/ /\ sign.kind = "login"
          /\ \/ cookie' = sign.user /\ sign' = [sign EXCEPT !.at = "ok"]
             \/ UNCHANGED cookie /\ sign' = [sign EXCEPT !.at = "failed"]
          /\ UNCHANGED welcome
       \/ /\ sign.kind = "logout"
          /\ cookie' = None /\ sign' = [sign EXCEPT !.at = "ok"]
          /\ welcome' = None
    /\ UNCHANGED <<hint, token, auth, refresh, req, overtaken, crossed>>

SignFails ==
    /\ sign.at \in {"sent", "ok"}
    /\ sign' = [sign EXCEPT !.at = "failed"]
    /\ UNCHANGED <<cookie, hint, token, auth, refresh, req, welcome, overtaken, crossed>>

SignedIn ==
    /\ sign.kind = "login" /\ sign.at = "ok"
    /\ Begin(sign.user, req)
    /\ sign' = NoSign
    /\ UNCHANGED <<cookie, refresh, overtaken>>

NotSignedIn ==
    /\ sign.kind = "login" /\ sign.at = "failed"
    /\ sign' = NoSign
    /\ UNCHANGED <<cookie, hint, token, auth, refresh, req, welcome, overtaken, crossed>>

\* Whatever the server says to it, the tab signs out.
LoggedOut ==
    /\ sign.kind = "logout" /\ sign.at \in {"ok", "failed"}
    /\ sign' = NoSign
    /\ token' = None /\ hint' = FALSE /\ auth' = SignedOut
    /\ welcome' = None
    /\ UNCHANGED <<cookie, refresh, req, overtaken, crossed>>

----------------------------------------------------------------------------
(* Time, and the browser *)

TokenExpires ==
    /\ token # None /\ ~token.expired
    /\ token' = [token EXCEPT !.expired = TRUE]
    /\ UNCHANGED <<cookie, hint, auth, refresh, sign, req, welcome, overtaken, crossed>>

CookieExpires ==
    /\ cookie # None
    /\ cookie' = None /\ welcome' = None
    /\ UNCHANGED <<hint, token, auth, refresh, sign, req, overtaken, crossed>>

\* What is in memory is gone, and so are the answers to what has been sent.
\* (To reload during the boot is to begin the same boot again: left out.)
Reload ==
    /\ ~auth.isLoading
    /\ token' = None
    /\ Boot(hint)
    /\ sign' = NoSign
    /\ req' = [r \in Requests |-> Unsent]
    /\ overtaken' = FALSE
    /\ UNCHANGED <<cookie, hint, welcome, crossed>>

----------------------------------------------------------------------------
Next ==
    \/ \E r \in Requests : PageAsks(r) \/ Answer(r) \/ RequestFails(r) \/ RefreshAndRetry(r) \/ PassOn(r)
    \/ RefreshServed \/ RefreshFails \/ RefreshEnds
    \/ \E u \in Users : SignIn(u)
    \/ Logout \/ SignServed \/ SignFails \/ SignedIn \/ NotSignedIn \/ LoggedOut
    \/ TokenExpires \/ CookieExpires \/ Reload

Spec == Init /\ [][Next]_vars

\* Every request ends: after thirty seconds the client gives it up.
FairSpec ==
    /\ Spec
    /\ \A r \in Requests :
        /\ WF_vars(Answer(r) \/ RequestFails(r))
        /\ WF_vars(RefreshAndRetry(r) \/ PassOn(r))
    /\ WF_vars(RefreshServed \/ RefreshFails) /\ WF_vars(RefreshEnds)

----------------------------------------------------------------------------
TypeOK ==
    /\ cookie \in Somebody /\ {hint, overtaken, crossed} \subseteq BOOLEAN
    /\ token \in Tokens
    /\ auth \in [user : Somebody, profile : Somebody, isLoading : BOOLEAN]
    /\ refresh \in [at : Outcomes, user : Somebody, mount : BOOLEAN, met : BOOLEAN]
    /\ sign \in [kind : {"none", "login", "logout"}, at : Outcomes, user : Somebody]
    /\ req \in [Requests -> [at : Outcomes \cup {Waiting}, with : Tokens, retry : BOOLEAN, profile : Somebody]]
    /\ welcome \in Somebody

\* "Only drop the session hint on a real 401": whoever was signed in, has not
\* asked to leave and still has the cookie is signed in again by the next load
\* of the page, whatever network failures, refreshes, reloads and unsuccessful
\* sign-ins come between.  One case is excepted: the 401 of a refresh that was
\* under way together with a sign-in takes the hint of the new session away.
SessionSurvives == cookie # None /\ cookie = welcome => hint \/ crossed

\* The pages are somebody's own: what is shown of a user is theirs, and what is
\* asked is asked in their name, as long as no sign-in or sign-out is under way
\* together with a refresh.
InOnesOwnName ==
    ~overtaken /\ auth.user # None =>
        /\ auth.profile \in {None, auth.user}
        /\ token # None /\ token.user = auth.user

\* "the client should never be able to hang": a request, with the refresh it
\* waits for, comes to an end, and so does the boot.
NothingHangs ==
    /\ \A r \in Requests : req[r] # Unsent ~> req[r] = Unsent
    /\ auth.isLoading ~> ~auth.isLoading

----------------------------------------------------------------------------
\* What makes them inductive: whoever has been welcomed has a cookie and has left
\* the hint, and a refresh that met no sign-in or sign-out is refused only if the
\* cookie is gone.  While none overlaps a refresh at all, the cookie, the answer
\* of a refresh and the tab are of one user, or of none.
HintLeft == welcome # None => cookie # None /\ (hint \/ crossed)

RefusedIsOver ==
    ~refresh.met =>
        /\ Refreshing => sign = NoSign
        /\ refresh.at \in {"sent", "ok"} => cookie \in {None, refresh.user}
        /\ refresh.at = "unauthorized" => cookie = None

CookieOfSign == ~overtaken /\ sign.kind = "login" /\ sign.at = "ok" => cookie \in {None, sign.user}
SignIsSomebodys == sign.kind = "login" => sign.user # None
AnswerIsSomebodys == refresh.at = "ok" => refresh.user # None

OneAtATime ==
    ~overtaken =>
        /\ Refreshing => sign = NoSign
        /\ sign.kind = "login" => auth.user = None

OneUser ==
    ~overtaken =>
        /\ ~refresh.met
        /\ auth.user # None => cookie \in {None, auth.user}
        /\ Refreshing /\ auth.user # None => refresh.user \in {None, auth.user}

IInv ==
    /\ TypeOK /\ HintLeft /\ RefusedIsOver
    /\ SignIsSomebodys /\ AnswerIsSomebodys /\ CookieOfSign
    /\ OneAtATime /\ OneUser /\ InOnesOwnName
=============================================================================
