------------------------ MODULE ClientSessionProofs ------------------------
(* Proofs about ClientSession, for any users and any number of requests. *)
EXTENDS ClientSession, TLAPS

RefreshType == [at : Outcomes, user : Somebody, mount : BOOLEAN, met : BOOLEAN]
RequestType == [at : Outcomes \cup {Waiting}, with : Tokens, retry : BOOLEAN, profile : Somebody]

\* What an answer, a retry and the end of a refresh leave of the requests' types.
LEMMA AnsweredType ==
    ASSUME TypeOK, NEW r \in Requests, NEW o \in Outcomes, Answered(r, o)
    PROVE  req' \in [Requests -> RequestType]
<1>1. req[r] \in RequestType /\ o \in Outcomes \cup {Waiting} /\ None \in Tokens
  BY DEF TypeOK, RequestType, Tokens
<1>2. [req[r] EXCEPT !.at = o, !.with = None] \in RequestType
  BY <1>1 DEF RequestType
<1>3. req' = [req EXCEPT ![r] = [req[r] EXCEPT !.at = o, !.with = None]]
  BY DEF Answered
<1>4. req \in [Requests -> RequestType]
  BY DEF TypeOK, RequestType
<1> QED BY <1>2, <1>3, <1>4

LEMMA RetriedType ==
    ASSUME TypeOK, NEW t \in Tokens
    PROVE  Retried(t) \in [Requests -> RequestType] /\ Rejected \in [Requests -> RequestType]
<1>1. Unsent \in RequestType
  BY DEF Unsent, RequestType, Outcomes, Tokens, Somebody
<1>2. \A r \in Requests : req[r] \in RequestType
  BY DEF TypeOK, RequestType
<1>3. \A r \in Requests : [req[r] EXCEPT !.at = "sent", !.with = t] \in RequestType
  BY <1>2 DEF RequestType, Outcomes
<1> QED BY <1>1, <1>2, <1>3 DEF Retried, Rejected

LEMMA FreshToken ==
    ASSUME NEW u \in Users
    PROVE  Fresh(u) \in Tokens /\ Fresh(u) # None /\ Fresh(u).user = u
<1>1. Fresh(u) \in [user : Users, expired : BOOLEAN]
  BY DEF Fresh
<1> QED BY <1>1, ConstantsAssumption DEF Fresh, Tokens

LEMMA BeginType ==
    ASSUME TypeOK, NEW u \in Users, NEW requests \in [Requests -> RequestType], Begin(u, requests)
    PROVE  /\ token' = Fresh(u) /\ token' \in Tokens /\ hint' = TRUE
           /\ welcome' = (IF cookie = u THEN u ELSE None) /\ crossed' = FALSE
           /\ auth' = [user |-> u, profile |-> None, isLoading |-> FALSE]
           /\ req' \in [Requests -> RequestType]
<1>1. Fresh(u) \in Tokens
  BY DEF Fresh, Tokens
<1>2. [Unsent EXCEPT !.at = "sent", !.with = Fresh(u), !.profile = u] \in RequestType
  BY <1>1 DEF Unsent, RequestType, Outcomes, Somebody
<1>3. /\ token' = Fresh(u) /\ hint' = TRUE
      /\ welcome' = (IF cookie = u THEN u ELSE None) /\ crossed' = FALSE
      /\ auth' = [user |-> u, profile |-> None, isLoading |-> FALSE]
  BY DEF Begin, SignedOut
<1>4. req' \in [Requests -> RequestType]
  BY <1>2 DEF Begin
<1> QED BY <1>1, <1>3, <1>4

----------------------------------------------------------------------------
LEMMA InitIInv == Init => IInv
<1> SUFFICES ASSUME Init PROVE IInv
  OBVIOUS
<1>1. Unsent \in RequestType
  BY DEF Unsent, RequestType, Outcomes, Tokens, Somebody
<1>2. TypeOK
  BY <1>1 DEF Init, TypeOK, RequestType, Somebody, Tokens, Booting, SignedOut, Sent, NoRefresh,
     NoSign, Outcomes
<1>3. HintLeft /\ RefusedIsOver /\ CookieOfSign /\ SignIsSomebodys /\ AnswerIsSomebodys
  BY DEF Init, HintLeft, RefusedIsOver, CookieOfSign, SignIsSomebodys, AnswerIsSomebodys, NoSign,
     Sent, NoRefresh
<1>4. OneAtATime /\ OneUser /\ InOnesOwnName
  BY DEF Init, OneAtATime, OneUser, InOnesOwnName, NoSign, Booting, SignedOut, Sent, NoRefresh
<1> QED BY <1>2, <1>3, <1>4 DEF IInv

Safe ==
    /\ HintLeft /\ RefusedIsOver /\ CookieOfSign /\ SignIsSomebodys /\ AnswerIsSomebodys
    /\ OneAtATime /\ OneUser /\ InOnesOwnName

\* Requests of pages change neither the session nor the refresh that is there.
LEMMA RequestsIInv ==
    ASSUME IInv, NEW r \in Requests,
           PageAsks(r) \/ Answer(r) \/ RequestFails(r) \/ RefreshAndRetry(r) \/ PassOn(r)
    PROVE  IInv'
<1> USE ConstantsAssumption
<1>0. req \in [Requests -> RequestType]
  BY DEF IInv, TypeOK, RequestType
<1>1. CASE PageAsks(r)
  <2>1. [Unsent EXCEPT !.at = "sent", !.with = token] \in RequestType
    BY DEF IInv, TypeOK, Unsent, RequestType, Outcomes, Somebody
  <2>2. req' \in [Requests -> RequestType]
    BY <1>0, <1>1, <2>1 DEF PageAsks
  <2>3. TypeOK'
    BY <1>1, <2>2 DEF PageAsks, IInv, TypeOK, RequestType
  <2>4. Safe'
    BY <1>1 DEF PageAsks, IInv, Safe, HintLeft, RefusedIsOver, CookieOfSign, SignIsSomebodys,
       AnswerIsSomebodys, OneAtATime, OneUser, InOnesOwnName, Refreshing
  <2> QED BY <2>3, <2>4 DEF IInv, Safe
<1>2. CASE Answer(r) \/ RequestFails(r)
  <2>1. req' \in [Requests -> RequestType]
    BY <1>2, AnsweredType DEF Answer, RequestFails, IInv, Outcomes
  <2>2. TypeOK'
    BY <1>2, <2>1 DEF Answer, RequestFails, IInv, TypeOK, RequestType
  <2>3. Safe'
    BY <1>2 DEF Answer, RequestFails, IInv, Safe, HintLeft, RefusedIsOver, CookieOfSign, SignIsSomebodys,
       AnswerIsSomebodys, OneAtATime, OneUser, InOnesOwnName, Refreshing
  <2> QED BY <2>2, <2>3 DEF IInv, Safe
<1>3. CASE RefreshAndRetry(r)
  <2>1. req' \in [Requests -> RequestType]
    BY <1>0, <1>3 DEF RefreshAndRetry, RequestType
  <2>2. refresh' \in [at : Outcomes, user : Somebody, mount : BOOLEAN, met : BOOLEAN]
    BY <1>3 DEF RefreshAndRetry, IInv, TypeOK, Sent, NoRefresh, Outcomes, Somebody
  <2>3. TypeOK'
    BY <1>3, <2>1, <2>2 DEF RefreshAndRetry, IInv, TypeOK, RequestType
  <2>4. Safe'
    BY <1>3 DEF RefreshAndRetry, IInv, TypeOK, Safe, HintLeft, RefusedIsOver, CookieOfSign,
       SignIsSomebodys, AnswerIsSomebodys, OneAtATime, OneUser, InOnesOwnName, Refreshing, Sent,
       NoRefresh
  <2> QED BY <2>3, <2>4 DEF IInv, Safe
<1>4. CASE PassOn(r)
  <2>1. Unsent \in RequestType
    BY DEF Unsent, RequestType, Outcomes, Tokens, Somebody
  <2>2. req' \in [Requests -> RequestType]
    BY <1>0, <1>4, <2>1 DEF PassOn
  <2>3. req[r].profile \in Somebody
    BY <1>0 DEF RequestType
  <2>4. auth' \in [user : Somebody, profile : Somebody, isLoading : BOOLEAN] /\ auth'.user = auth.user
        /\ auth'.profile \in {auth.profile, auth.user}
    BY <1>4, <2>3 DEF PassOn, Mine, IInv, TypeOK
  <2>5. TypeOK'
    BY <1>4, <2>2, <2>4 DEF PassOn, IInv, TypeOK, RequestType
  <2>6. Safe'
    BY <1>4, <2>4 DEF PassOn, IInv, Safe, HintLeft, RefusedIsOver, CookieOfSign, SignIsSomebodys,
       AnswerIsSomebodys, OneAtATime, OneUser, InOnesOwnName, Refreshing
  <2> QED BY <2>5, <2>6 DEF IInv, Safe
<1> QED BY <1>1, <1>2, <1>3, <1>4

\* The refresh: its answer is of the cookie's user, who is the tab's, if anybody is.
LEMMA RefreshIInv ==
    ASSUME IInv, RefreshServed \/ RefreshFails \/ RefreshEnds
    PROVE  IInv'
<1> USE ConstantsAssumption
<1>0. req \in [Requests -> RequestType]
  BY DEF IInv, TypeOK, RequestType
<1>1. CASE RefreshServed
  <2>0. /\ refresh' \in RefreshType /\ refresh'.met = refresh.met
        /\ \/ /\ refresh'.at = "ok" /\ refresh'.user = refresh.user /\ refresh.user # None
              /\ cookie' = refresh.user /\ cookie' \in Somebody
           \/ /\ refresh'.at = "unauthorized" /\ refresh'.user = None
              /\ cookie' = cookie /\ (refresh.user = None \/ cookie # refresh.user)
    <3>1. refresh \in RefreshType /\ "ok" \in Outcomes /\ "unauthorized" \in Outcomes /\ None \in Somebody
      BY DEF IInv, TypeOK, RefreshType, Outcomes, Somebody
    <3> QED BY <1>1, <3>1 DEF RefreshServed, Cookied, RefreshType
  <2>1. TypeOK'
    BY <1>1, <2>0 DEF RefreshServed, IInv, TypeOK, RefreshType
  <2>2. HintLeft' /\ SignIsSomebodys' /\ AnswerIsSomebodys'
    BY <1>1, <2>0 DEF RefreshServed, IInv, HintLeft, SignIsSomebodys, AnswerIsSomebodys
  <2>3. refresh.at = "sent" /\ Refreshing
    BY <1>1 DEF RefreshServed, Refreshing
  <2>4. RefusedIsOver'
    BY <1>1, <2>0, <2>3 DEF RefreshServed, IInv, RefusedIsOver
  <2>5. ~overtaken => sign = NoSign /\ sign.kind = "none"
    BY <2>3 DEF IInv, OneAtATime, NoSign
  <2>6. OneAtATime' /\ CookieOfSign'
    <3>1. UNCHANGED <<overtaken, sign, auth>>
      BY <1>1 DEF RefreshServed
    <3>2. overtaken' = overtaken /\ sign' = sign /\ auth' = auth
      BY <3>1
    <3>3. ~overtaken' => sign' = NoSign /\ sign'.kind = "none"
      BY <3>2, <2>5
    <3> QED BY <3>3 DEF OneAtATime, CookieOfSign, NoSign
  <2>7. OneUser' /\ InOnesOwnName'
    <3>1. UNCHANGED <<token, overtaken, auth>>
      BY <1>1 DEF RefreshServed
    <3>2. overtaken' = overtaken /\ auth' = auth /\ token' = token
      BY <3>1
    <3>3. OneUser' /\ (~overtaken => ~refresh.met)
      BY <2>0, <2>3, <3>2 DEF IInv, OneUser, Refreshing
    <3>4. InOnesOwnName'
      BY <3>2 DEF IInv, InOnesOwnName
    <3> QED BY <3>3, <3>4
  <2> QED BY <2>1, <2>2, <2>4, <2>6, <2>7 DEF IInv, Safe
<1>2. CASE RefreshFails
  <2>0. refresh' \in RefreshType /\ refresh'.at = "failed" /\ refresh'.met = refresh.met /\ refresh'.user = None
    <3>1. refresh \in RefreshType /\ "failed" \in Outcomes /\ None \in Somebody
      BY DEF IInv, TypeOK, RefreshType, Outcomes, Somebody
    <3> QED BY <1>2, <3>1 DEF RefreshFails, RefreshType
  <2>1. TypeOK'
    BY <1>2, <2>0 DEF RefreshFails, IInv, TypeOK, RefreshType
  <2>2. Safe'
    BY <1>2, <2>0 DEF RefreshFails, IInv, TypeOK, Safe, HintLeft, RefusedIsOver, CookieOfSign,
       SignIsSomebodys, AnswerIsSomebodys, OneAtATime, OneUser, InOnesOwnName, Refreshing
  <2> QED BY <2>1, <2>2 DEF IInv, Safe
<1>3. CASE RefreshSucceeds
  <2>0. refresh.user \in Users
    BY <1>3 DEF RefreshSucceeds, IInv, TypeOK, AnswerIsSomebodys, Somebody
  <2> DEFINE u == refresh.user
  <2>1. Fresh(u) \in Tokens /\ Fresh(u) # None /\ Fresh(u).user = u
    BY <2>0, FreshToken
  <2>2. NoRefresh \in [at : Outcomes, user : Somebody, mount : BOOLEAN, met : BOOLEAN]
    BY DEF NoRefresh, Outcomes, Somebody
  <2>3. Retried(Fresh(u)) \in [Requests -> RequestType]
    BY <2>1, RetriedType DEF IInv
  <2>4. CASE refresh.mount
    <3>1. /\ token' = Fresh(u) /\ hint' = TRUE
           /\ welcome' = (IF cookie = u THEN u ELSE None) /\ crossed' = FALSE
          /\ auth' = [user |-> u, profile |-> None, isLoading |-> FALSE]
          /\ req' \in [Requests -> RequestType]
      BY <1>3, <2>0, <2>3, <2>4, BeginType DEF RefreshSucceeds, IInv
    <3>2. TypeOK'
      BY <1>3, <2>0, <2>1, <2>2, <3>1 DEF RefreshSucceeds, IInv, TypeOK, RequestType, Somebody
    <3>3. Safe'
      BY <1>3, <2>0, <2>1, <3>1 DEF RefreshSucceeds, IInv, Safe, HintLeft, RefusedIsOver,
         CookieOfSign, SignIsSomebodys, AnswerIsSomebodys, OneAtATime, OneUser, InOnesOwnName,
         Refreshing, Sent, NoRefresh, NoSign
    <3> QED BY <3>2, <3>3 DEF IInv, Safe
  <2>5. CASE ~refresh.mount
    <3>1. TypeOK'
      BY <1>3, <2>1, <2>2, <2>3, <2>5 DEF RefreshSucceeds, IInv, TypeOK, RequestType
    <3>2. Safe'
      BY <1>3, <2>0, <2>1, <2>5 DEF RefreshSucceeds, IInv, Safe, HintLeft, RefusedIsOver,
         CookieOfSign, SignIsSomebodys, AnswerIsSomebodys, OneAtATime, OneUser, InOnesOwnName,
         Refreshing, Sent, NoRefresh
    <3> QED BY <3>1, <3>2 DEF IInv, Safe
  <2> QED BY <2>4, <2>5
<1>4. CASE RefreshRefused
  <2>1. Rejected \in [Requests -> RequestType]
    BY RetriedType DEF IInv, Tokens
  <2>2. TypeOK'
    BY <1>4, <2>1 DEF RefreshRefused, EndsSession, IInv, TypeOK, RequestType, Sent, NoRefresh, SignedOut,
       Outcomes,
       Somebody, Tokens
  <2>3. Safe'
    BY <1>4 DEF RefreshRefused, EndsSession, IInv, TypeOK, Safe, HintLeft, RefusedIsOver,
       CookieOfSign, SignIsSomebodys, AnswerIsSomebodys, OneAtATime, OneUser, InOnesOwnName,
       Refreshing, Sent, NoRefresh, SignedOut
  <2> QED BY <2>2, <2>3 DEF IInv, Safe
<1> QED BY <1>1, <1>2, <1>3, <1>4 DEF RefreshEnds

\* What is submitted marks a refresh that is under way, and changes no more of it.
LEMMA SubmitType ==
    ASSUME TypeOK, NEW kind \in {"login", "logout"}, NEW u \in Somebody, Submit(kind, u)
    PROVE  /\ refresh' \in RefreshType
           /\ refresh'.at = refresh.at /\ refresh'.user = refresh.user /\ refresh'.met = Refreshing
           /\ sign' \in [kind : {"none", "login", "logout"}, at : Outcomes, user : Somebody]
           /\ sign'.kind = kind /\ sign'.at = "sent" /\ sign'.user = u
           /\ overtaken' = (overtaken \/ Refreshing) /\ overtaken' \in BOOLEAN /\ sign = NoSign
<1>1. refresh \in RefreshType /\ Refreshing \in BOOLEAN /\ overtaken \in BOOLEAN
  BY DEF TypeOK, RefreshType, Refreshing
<1>2. refresh' = [refresh EXCEPT !.met = Refreshing]
  BY DEF Submit
<1>3. /\ refresh' \in RefreshType
      /\ refresh'.at = refresh.at /\ refresh'.user = refresh.user /\ refresh'.met = Refreshing
  BY <1>1, <1>2 DEF RefreshType
<1> QED BY <1>1, <1>3 DEF Submit, Outcomes

\* Signing in and out.
LEMMA SignIInv ==
    ASSUME IInv,
           \/ \E u \in Users : SignIn(u)
           \/ Logout \/ SignServed \/ SignFails \/ SignedIn \/ NotSignedIn \/ LoggedOut
    PROVE  IInv'
<1> USE ConstantsAssumption
<1>0. req \in [Requests -> RequestType]
  BY DEF IInv, TypeOK, RequestType
<1>1. ASSUME NEW u \in Users, SignIn(u) PROVE IInv'
  <2>0. Submit("login", u) /\ u \in Somebody /\ u # None
    BY <1>1 DEF SignIn, Somebody
  <2>1. TypeOK'
    BY <1>1, <2>0, SubmitType DEF SignIn, IInv, TypeOK, RefreshType
  <2>2. Safe'
    BY <1>1, <2>0, SubmitType DEF SignIn, IInv, NoSign, Safe, HintLeft, RefusedIsOver, CookieOfSign,
       SignIsSomebodys, AnswerIsSomebodys, OneAtATime, OneUser, InOnesOwnName, Refreshing
  <2> QED BY <2>1, <2>2 DEF IInv, Safe
<1>2. CASE Logout
  <2>0. Submit("logout", auth.user) /\ auth.user \in Somebody
    BY <1>2 DEF Logout, IInv, TypeOK
  <2>1. TypeOK'
    BY <1>2, <2>0, SubmitType DEF Logout, IInv, TypeOK, RefreshType, Somebody
  <2>2. Safe'
    BY <1>2, <2>0, SubmitType DEF Logout, IInv, NoSign, Safe, HintLeft, RefusedIsOver, CookieOfSign,
       SignIsSomebodys, AnswerIsSomebodys, OneAtATime, OneUser, InOnesOwnName, Refreshing
  <2> QED BY <2>1, <2>2 DEF IInv, Safe
<1>3. CASE SignServed
  <2>0. /\ sign' \in [kind : {"none", "login", "logout"}, at : Outcomes, user : Somebody]
        /\ sign'.kind = sign.kind /\ sign'.user = sign.user /\ sign'.at \in {"ok", "failed"}
    <3>1. "ok" \in Outcomes /\ "failed" \in Outcomes
      BY DEF Outcomes
    <3> QED BY <1>3, <3>1 DEF SignServed, IInv, TypeOK
  <2>1. TypeOK'
    BY <1>3, <2>0 DEF SignServed, IInv, TypeOK, Somebody
  <2>2. HintLeft' /\ SignIsSomebodys' /\ AnswerIsSomebodys'
    BY <1>3, <2>0 DEF SignServed, IInv, HintLeft, SignIsSomebodys, AnswerIsSomebodys
  <2>3. ~overtaken => ~Refreshing
    BY <1>3 DEF SignServed, IInv, OneAtATime, NoSign
  <2>4. Refreshing => overtaken /\ refresh.met
    BY <1>3, <2>3 DEF SignServed, IInv, OneAtATime, RefusedIsOver, NoSign
  <2>5. RefusedIsOver'
    BY <1>3, <2>4 DEF SignServed, IInv, RefusedIsOver, Refreshing
  <2>6. OneAtATime' /\ CookieOfSign'
    BY <1>3, <2>0, <2>3 DEF SignServed, IInv, OneAtATime, CookieOfSign, Refreshing
  <2>7. OneUser' /\ InOnesOwnName'
    BY <1>3, <2>0, <2>3 DEF SignServed, IInv, OneAtATime, OneUser, InOnesOwnName, Refreshing
  <2> QED BY <2>1, <2>2, <2>5, <2>6, <2>7 DEF IInv, Safe
<1>4. CASE SignFails
  <2>1. TypeOK'
    BY <1>4 DEF SignFails, IInv, TypeOK, Outcomes
  <2>2. Safe'
    BY <1>4 DEF SignFails, IInv, TypeOK, Safe, HintLeft, RefusedIsOver, CookieOfSign, SignIsSomebodys,
       AnswerIsSomebodys, OneAtATime, OneUser,
                InOnesOwnName, Refreshing, NoSign
  <2> QED BY <2>1, <2>2 DEF IInv, Safe
<1>5. CASE SignedIn
  <2>0. sign.user \in Users
    BY <1>5 DEF SignedIn, IInv, SignIsSomebodys, TypeOK, Somebody
  <2>1. Fresh(sign.user) # None /\ Fresh(sign.user).user = sign.user
    BY <2>0, FreshToken
  <2>2. /\ token' = Fresh(sign.user) /\ token' \in Tokens /\ hint' = TRUE
        /\ welcome' = (IF cookie = sign.user THEN sign.user ELSE None) /\ crossed' = FALSE
        /\ auth' = [user |-> sign.user, profile |-> None, isLoading |-> FALSE]
        /\ req' \in [Requests -> RequestType]
    BY <1>0, <1>5, <2>0, BeginType DEF SignedIn, IInv
  <2>3. TypeOK'
    BY <1>5, <2>0, <2>2 DEF SignedIn, IInv, TypeOK, RequestType, NoSign, Outcomes, Somebody
  <2>4. Safe'
    BY <1>5, <2>0, <2>1, <2>2 DEF SignedIn, IInv, TypeOK, Safe, HintLeft, RefusedIsOver,
       CookieOfSign, SignIsSomebodys, AnswerIsSomebodys, OneAtATime, OneUser, InOnesOwnName,
       Refreshing, NoSign
  <2> QED BY <2>3, <2>4 DEF IInv, Safe
<1>6. CASE NotSignedIn
  <2>1. TypeOK'
    BY <1>6 DEF NotSignedIn, IInv, TypeOK, NoSign, Outcomes, Somebody
  <2>2. Safe'
    BY <1>6 DEF NotSignedIn, IInv, Safe, HintLeft, RefusedIsOver, CookieOfSign, SignIsSomebodys,
       AnswerIsSomebodys, OneAtATime, OneUser, InOnesOwnName, Refreshing, NoSign
  <2> QED BY <2>1, <2>2 DEF IInv, Safe
<1>7. CASE LoggedOut
  <2>1. TypeOK'
    BY <1>7 DEF LoggedOut, IInv, TypeOK, NoSign, SignedOut, Outcomes, Somebody, Tokens
  <2>2. Safe'
    BY <1>7 DEF LoggedOut, IInv, Safe, HintLeft, RefusedIsOver, CookieOfSign, SignIsSomebodys,
       AnswerIsSomebodys, OneAtATime, OneUser, InOnesOwnName, Refreshing, NoSign, SignedOut
  <2> QED BY <2>1, <2>2 DEF IInv, Safe
<1> QED BY <1>1, <1>2, <1>3, <1>4, <1>5, <1>6, <1>7

\* Time and the browser.
LEMMA BrowserIInv == ASSUME IInv, TokenExpires \/ CookieExpires \/ Reload PROVE IInv'
<1> USE ConstantsAssumption
<1>1. CASE TokenExpires
  <2>0. token \in [user : Users, expired : BOOLEAN]
    BY <1>1 DEF TokenExpires, IInv, TypeOK, Tokens
  <2>1. token' \in [user : Users, expired : BOOLEAN] /\ token'.user = token.user
    BY <1>1, <2>0 DEF TokenExpires
  <2>2. TypeOK'
    BY <1>1, <2>1 DEF TokenExpires, IInv, TypeOK, Tokens
  <2>3. Safe'
    BY <1>1, <2>1 DEF TokenExpires, IInv, Safe, HintLeft, RefusedIsOver, CookieOfSign, SignIsSomebodys,
       AnswerIsSomebodys, OneAtATime, OneUser,
       InOnesOwnName, Refreshing
  <2> QED BY <2>2, <2>3 DEF IInv, Safe
<1>2. CASE CookieExpires
  <2>1. TypeOK'
    BY <1>2 DEF CookieExpires, IInv, TypeOK, Somebody
  <2>2. Safe'
    BY <1>2 DEF CookieExpires, IInv, Safe, HintLeft, RefusedIsOver, CookieOfSign, SignIsSomebodys,
       AnswerIsSomebodys, OneAtATime, OneUser, InOnesOwnName, Refreshing
  <2> QED BY <2>1, <2>2 DEF IInv, Safe
<1>3. CASE Reload
  <2>1. req' \in [Requests -> RequestType]
    BY <1>3 DEF Reload, Unsent, RequestType, Outcomes, Tokens, Somebody
  <2>2. TypeOK'
    BY <1>3, <2>1 DEF Reload, Boot, IInv, TypeOK, RequestType, Booting, SignedOut, Sent, NoRefresh,
       NoSign, Outcomes, Somebody, Tokens
  <2>3. Safe'
    BY <1>3 DEF Reload, Boot, IInv, Safe, HintLeft, RefusedIsOver, CookieOfSign, SignIsSomebodys,
       AnswerIsSomebodys, OneAtATime, OneUser, InOnesOwnName, Refreshing, Booting, SignedOut, Sent,
       NoRefresh, NoSign
  <2> QED BY <2>2, <2>3 DEF IInv, Safe
<1> QED BY <1>1, <1>2, <1>3

LEMMA StutterIInv == ASSUME IInv, UNCHANGED vars PROVE IInv'
BY DEF vars, IInv, TypeOK, HintLeft, RefusedIsOver, CookieOfSign, SignIsSomebodys, AnswerIsSomebodys,
   OneAtATime, OneUser, InOnesOwnName, Refreshing

\* A tab as it starts has the inductive invariant, and no step of it loses it.
THEOREM Invariance == Spec => []IInv
<1>1. IInv /\ [Next]_vars => IInv'
  BY RequestsIInv, RefreshIInv, SignIInv, BrowserIInv, StutterIInv DEF Next
<1> QED BY InitIInv, <1>1, PTL DEF Spec

\* The variables keep their types, for any users and any number of requests.
THEOREM TypeCorrect == Spec => []TypeOK
<1>1. IInv => TypeOK
  BY DEF IInv
<1> QED BY Invariance, <1>1, PTL

\* Network failures, refreshes and reloads do not cost a session that its cookie
\* still carries; only the 401 of a refresh that a sign-in overtook can.
THEOREM Survives == Spec => []SessionSurvives
<1>1. IInv => SessionSurvives
  BY DEF IInv, HintLeft, SessionSurvives
<1> QED BY Invariance, <1>1, PTL

\* What a page shows of its user is theirs, and what it asks is asked in their
\* name.
THEOREM OwnName == Spec => []InOnesOwnName
<1>1. IInv => InOnesOwnName
  BY DEF IInv
<1> QED BY Invariance, <1>1, PTL
=============================================================================
