------------------------- MODULE ClientPagesProofs -------------------------
(***************************************************************************)
(* Three of the pages of a tab, for any instance of each.                  *)
(*                                                                         *)
(* Comments: for any comments and texts, any number of acts, mishaps and   *)
(* requests.                                                               *)
(*                                                                         *)
(* The list is the server's (ListIInv): each request carries the comments  *)
(* of which what it has read, or will show, is still as it was; a change   *)
(* of a comment takes it out of all of them, and puts it behind.           *)
(*                                                                         *)
(* Save & quit loses no draft (Keeps): each draft it has taken is in a     *)
(* request that is awaited, or on the server, and nothing that is under    *)
(* way can take it away from there.                                        *)
(*                                                                         *)
(* HomeFeed: for any events, page size and number of toggles and changes.  *)
(* A page of get_feed leaves out nothing down to its cursor                *)
(* (GetFeedRight), the next one begins there (PagesJoin), and no request   *)
(* of another selection comes between (FeedIInv).                          *)
(*                                                                         *)
(* SocialPages: for any other users, ids, requests and troubles.  What a   *)
(* page offers the server accepts (PagesIInv): a copy that is not behind   *)
(* is as it is on the server (CopyOK); where only part of a page is loaded *)
(* again, a handler that has been served will make it so, unless another   *)
(* one is served before it has ended (SerialOK); the comparison of a       *)
(* profile fits the friendship it shows, and its dashboard has an entry    *)
(* only of that comparison and only if both have published (DashOK).       *)
(***************************************************************************)
EXTENDS SocialPages, HomeFeed, Comments, FiniteSetTheorems, TLAPS

Reactions == {"none", "up"}
CommentOut == [text : Texts, likes : Int, viewer_reaction : Reactions]
CommentRows == [text : Texts, others : Int, reaction : Reactions]
FunctionsOn(T) == UNION {[D -> T] : D \in SUBSET Ids}
Lists == [by : Sorts \cup {"none"}, has : FunctionsOn(CommentOut)]
Requests == [at : {"idle", "sent", "done", "read"}, do : {"none", "list", "add", "react", "edit", "delete"},
             text : Texts \cup Sorts \cup Reactions \cup {""}, from : CommentOut \cup {<<>>},
             data : Lists, fresh : SUBSET Ids]
Questions == [at : {"no", "blocked", "saving", "saved", "quit"}, saving : SUBSET Composers,
              had : SUBSET Ids, kept : UNION {[D -> Texts] : D \in SUBSET Composers}]

\* A list shows comment c as it is in the thread T.
Right(T, list, c) ==
    /\ c \in DOMAIN list.has <=> c \in DOMAIN T
    /\ c \in DOMAIN list.has => list.has[c] = ToCommentOut(T[c])

ReadsRight(T, p) == p.at = "read" => \A c \in p.fresh : Right(T, p.data, c)

\* The thread T, and the comments E there have been.
ThreadOK(T, E) == T \in FunctionsOn(CommentRows) /\ DOMAIN T \subseteq E /\ E \subseteq Ids

ListingOK(T, E, order, p) ==
    /\ p \in Requests /\ DOMAIN p.data.has \subseteq E
    /\ p.at # "idle" => p.text = order
    /\ p.at = "read" => p.data.by = order
    /\ ReadsRight(T, p)

PostingOK(T, E, order, o, p) ==
    /\ p \in Requests /\ DOMAIN p.data.has \subseteq E
    /\ p.at # "idle" => p.text \in Texts /\ p.data.by \in Sorts /\ (p.data.by = order \/ o)
    /\ ReadsRight(T, p)

ThumbOK(T, p, c) ==
    /\ p \in Requests /\ p.at # "done"
    /\ p.at # "idle" =>
         /\ p.do = "react" /\ p.text \in Reactions /\ p.from \in CommentOut
         /\ c \in p.fresh => c \in DOMAIN T /\ p.from = ToCommentOut(T[c])

OwnOK(T, E, p, c) ==
    /\ p \in Requests /\ p.at # "done"
    /\ p.at # "idle" => c \in Mine \cap E /\ p.do \in {"edit", "delete"}
    /\ p.do = "edit" /\ p.at # "idle" => p.text \in Texts
    /\ p.do = "edit" /\ p.at = "read" =>
         p.from \in CommentOut /\ (c \in p.fresh => c \in DOMAIN T /\ p.from = ToCommentOut(T[c]))
    /\ p.do = "delete" /\ p.at = "read" => (c \in p.fresh => c \notin DOMAIN T)

HandlerOK(T, E, p, h) == IF h[2] = "own" THEN OwnOK(T, E, p, h[1]) ELSE ThumbOK(T, p, h[1])

ShownOK(T, E, order, o, b, list) ==
    /\ list \in Lists /\ DOMAIN list.has \subseteq E
    /\ list = NoList \/ list.by = order \/ o
    /\ \A c \in Ids \ b : Right(T, list, c)

DraftsOK(E, d) ==
    /\ d \in [Composers -> Texts \cup {""}]
    /\ \A c \in Mine : d[c] # "" => c \in E

ListIInv ==
    /\ ThreadOK(thread, ever)
    /\ sorting \in Sorts /\ behind \subseteq Ids /\ overtaken \in BOOLEAN /\ leave \in Questions
    /\ DraftsOK(ever, drafts)
    /\ ListingOK(thread, ever, sorting, listing)
    /\ PostingOK(thread, ever, sorting, overtaken, posting)
    /\ handlers \in [Handlers -> Requests]
    /\ \A h \in Handlers : HandlerOK(thread, ever, handlers[h], h)
    /\ ShownOK(thread, ever, sorting, overtaken, behind, shown)

----------------------------------------------------------------------------
(* Functions on some comments *)

LEMMA FunctionsFacts ==
    ASSUME NEW T, NEW f \in FunctionsOn(T)
    PROVE  DOMAIN f \subseteq Ids /\ \A c \in DOMAIN f : f[c] \in T
BY DEF FunctionsOn

\* Two functions differ at most in c.
SameBut(T, U, c) ==
    \A d : d # c => (d \in DOMAIN U <=> d \in DOMAIN T) /\ (d \in DOMAIN T => U[d] = T[d])

LEMMA WithFacts ==
    ASSUME NEW T, NEW f \in FunctionsOn(T), NEW c \in Ids, NEW v \in T
    PROVE  /\ With(f, c, v) \in FunctionsOn(T) /\ DOMAIN With(f, c, v) = DOMAIN f \cup {c}
           /\ With(f, c, v)[c] = v /\ SameBut(f, With(f, c, v), c)
<1>1. With(f, c, v) \in [DOMAIN f \cup {c} -> T]
  BY FunctionsFacts DEF With
<1>2. DOMAIN f \cup {c} \subseteq Ids
  BY FunctionsFacts
<1>3. With(f, c, v) \in FunctionsOn(T)
  BY <1>1, <1>2 DEF FunctionsOn
<1> QED BY <1>3 DEF With, SameBut

LEMMA WithoutFacts ==
    ASSUME NEW T, NEW f \in FunctionsOn(T), NEW c
    PROVE  /\ Without(f, c) \in FunctionsOn(T) /\ DOMAIN Without(f, c) = DOMAIN f \ {c}
           /\ SameBut(f, Without(f, c), c)
<1>1. Without(f, c) \in [DOMAIN f \ {c} -> T]
  BY FunctionsFacts DEF Without
<1>2. DOMAIN f \ {c} \subseteq Ids
  BY FunctionsFacts
<1>3. Without(f, c) \in FunctionsOn(T)
  BY <1>1, <1>2 DEF FunctionsOn
<1> QED BY <1>3 DEF Without, SameBut

LEMMA RowsWith ==
    ASSUME NEW f \in FunctionsOn(CommentRows), NEW c \in Ids, NEW v \in CommentRows
    PROVE  /\ With(f, c, v) \in FunctionsOn(CommentRows) /\ DOMAIN With(f, c, v) = DOMAIN f \cup {c}
           /\ With(f, c, v)[c] = v /\ SameBut(f, With(f, c, v), c)
BY WithFacts

LEMMA RowsWithout ==
    ASSUME NEW f \in FunctionsOn(CommentRows), NEW c
    PROVE  /\ Without(f, c) \in FunctionsOn(CommentRows) /\ DOMAIN Without(f, c) = DOMAIN f \ {c}
           /\ SameBut(f, Without(f, c), c)
BY WithoutFacts

LEMMA ListsWith ==
    ASSUME NEW f \in FunctionsOn(CommentOut), NEW c \in Ids, NEW v \in CommentOut
    PROVE  /\ With(f, c, v) \in FunctionsOn(CommentOut) /\ DOMAIN With(f, c, v) = DOMAIN f \cup {c}
           /\ With(f, c, v)[c] = v /\ SameBut(f, With(f, c, v), c)
BY WithFacts

LEMMA ListsWithout ==
    ASSUME NEW f \in FunctionsOn(CommentOut), NEW c
    PROVE  /\ Without(f, c) \in FunctionsOn(CommentOut) /\ DOMAIN Without(f, c) = DOMAIN f \ {c}
           /\ SameBut(f, Without(f, c), c)
BY WithoutFacts

----------------------------------------------------------------------------
(* Requests *)

LEMMA EmptyList == NoList \in Lists /\ NoData = NoList /\ DOMAIN NoList.has = {}
<1>1. <<>> \in [{} -> CommentOut]
  OBVIOUS
<1>2. <<>> \in FunctionsOn(CommentOut)
  BY <1>1 DEF FunctionsOn
<1> QED BY <1>2 DEF NoList, NoData, Lists

LEMMA AtRestFacts ==
    /\ AtRest \in Requests /\ AtRest.at = "idle" /\ AtRest.data = NoList
    /\ \A T, E, order, o : ListingOK(T, E, order, AtRest) /\ PostingOK(T, E, order, o, AtRest)
    /\ \A T, E, h : HandlerOK(T, E, AtRest, h)
<1>1. /\ AtRest \in Requests /\ AtRest.at = "idle" /\ AtRest.data = NoList
      /\ AtRest.fresh = {} /\ AtRest.do = "none"
  BY EmptyList DEF AtRest, Requests
<1>2. DOMAIN AtRest.data.has = {}
  BY <1>1, EmptyList
<1> QED BY <1>1, <1>2 DEF ListingOK, PostingOK, HandlerOK, OwnOK, ThumbOK, ReadsRight

LEMMA AgedFacts ==
    ASSUME NEW p \in Requests, NEW c
    PROVE  LET q == Aged(p, c) IN
           /\ q \in Requests /\ q.at = p.at /\ q.do = p.do /\ q.text = p.text /\ q.from = p.from
           /\ q.data = p.data /\ q.fresh = p.fresh \ {c}
BY DEF Aged, Requests

LEMMA RowFacts ==
    ASSUME NEW r \in CommentRows
    PROVE  /\ ToCommentOut(r) \in CommentOut
           /\ ToCommentOut(r).text = r.text /\ ToCommentOut(r).viewer_reaction = r.reaction
<1>1. Likes(r) \in Int
  BY DEF Likes, CommentRows
<1> QED BY <1>1 DEF ToCommentOut, CommentRows, CommentOut

\* The endpoint that lists the comments tells them as they are.
LEMMA ListFacts ==
    ASSUME ThreadOK(thread, ever), NEW order \in Sorts
    PROVE  LET list == ListComments(order) IN
           /\ list \in Lists /\ list.by = order /\ DOMAIN list.has = DOMAIN thread
           /\ \A c : Right(thread, list, c)
<1> DEFINE f == [c \in DOMAIN thread |-> ToCommentOut(thread[c])]
<1>1. DOMAIN thread \subseteq Ids /\ \A c \in DOMAIN thread : thread[c] \in CommentRows
  BY FunctionsFacts DEF ThreadOK
<1>2. f \in [DOMAIN thread -> CommentOut]
  BY <1>1, RowFacts
<1>3. f \in FunctionsOn(CommentOut)
  BY <1>1, <1>2 DEF FunctionsOn
<1>4. ListComments(order) = [by |-> order, has |-> f]
  BY DEF ListComments
<1>5. DOMAIN f = DOMAIN thread /\ \A c \in DOMAIN thread : f[c] = ToCommentOut(thread[c])
  OBVIOUS
<1> HIDE DEF f
<1>6. /\ [by |-> order, has |-> f] \in Lists
      /\ [by |-> order, has |-> f].by = order /\ [by |-> order, has |-> f].has = f
  BY <1>3 DEF Lists
<1> QED BY <1>4, <1>5, <1>6 DEF Right

----------------------------------------------------------------------------
(* A comment changes: what has been read of the others is as it was. *)

LEMMA Changes ==
    ASSUME NEW T, NEW U, NEW E, NEW F, E \subseteq F, NEW c,
           SameBut(T, U, c)
    PROVE  /\ \A order, p : ListingOK(T, E, order, p) => ListingOK(U, F, order, Aged(p, c))
           /\ \A order, o, p : PostingOK(T, E, order, o, p) => PostingOK(U, F, order, o, Aged(p, c))
           /\ \A p, h : HandlerOK(T, E, p, h) => HandlerOK(U, F, Aged(p, c), h)
           /\ \A order, o, b, list :
                 ShownOK(T, E, order, o, b, list) => ShownOK(U, F, order, o, b \cup {c}, list)
           /\ \A d : DraftsOK(E, d) => DraftsOK(F, d)
<1>1. \A list, d : d # c /\ Right(T, list, d) => Right(U, list, d)
  BY DEF Right, SameBut
<1>2. ASSUME NEW p \in Requests, ReadsRight(T, p) PROVE ReadsRight(U, Aged(p, c))
  BY <1>1, <1>2, AgedFacts DEF ReadsRight
<1>3. \A order, p : ListingOK(T, E, order, p) => ListingOK(U, F, order, Aged(p, c))
  BY <1>2, AgedFacts DEF ListingOK
<1>4. \A order, o, p : PostingOK(T, E, order, o, p) => PostingOK(U, F, order, o, Aged(p, c))
  BY <1>2, AgedFacts DEF PostingOK
<1>5. ASSUME NEW p, NEW d, ThumbOK(T, p, d) PROVE ThumbOK(U, Aged(p, c), d)
  BY <1>5, AgedFacts DEF ThumbOK, SameBut
<1>6. ASSUME NEW p, NEW d, OwnOK(T, E, p, d) PROVE OwnOK(U, F, Aged(p, c), d)
  BY <1>6, AgedFacts DEF OwnOK, SameBut
<1>7. \A p, h : HandlerOK(T, E, p, h) => HandlerOK(U, F, Aged(p, c), h)
  BY <1>5, <1>6 DEF HandlerOK
<1>8. \A order, o, b, list :
        ShownOK(T, E, order, o, b, list) => ShownOK(U, F, order, o, b \cup {c}, list)
  BY <1>1 DEF ShownOK
<1>9. \A d : DraftsOK(E, d) => DraftsOK(F, d)
  BY DEF DraftsOK
<1> QED BY <1>3, <1>4, <1>7, <1>8, <1>9

LEMMA AllAgedFacts ==
    ASSUME NEW f \in [Handlers -> Requests], NEW c
    PROVE  AllAged(f, c) \in [Handlers -> Requests] /\ \A h \in Handlers : AllAged(f, c)[h] = Aged(f[h], c)
BY AgedFacts DEF AllAged

\* One handler moves on.
LEMMA HandlerMoves ==
    ASSUME ListIInv, NEW h \in Handlers, NEW q, HandlerOK(thread, ever, q, h),
           handlers' = [handlers EXCEPT ![h] = q]
    PROVE  /\ handlers' \in [Handlers -> Requests]
           /\ \A x \in Handlers : HandlerOK(thread, ever, handlers'[x], x)
<1>1. q \in Requests
  BY DEF HandlerOK, OwnOK, ThumbOK
<1> QED BY <1>1 DEF ListIInv

LEMMA ListBegins == ThreadInit => ListIInv
<1> SUFFICES ASSUME ThreadInit PROVE ListIInv
  OBVIOUS
<1>1. ThreadOK(thread, ever)
  <2> DEFINE D == {c \in Ids : c \in Mine => \E d \in Mine : d > c}
  <2>1. (CHOOSE t \in Texts : TRUE) \in Texts
    BY ThreadAssumption
  <2>2. \A r \in {"none", "up"} : Stored(CHOOSE t \in Texts : TRUE, 0, r) \in CommentRows
    BY <2>1 DEF Stored, CommentRows, Reactions
  <2>3. thread \in [D -> CommentRows]
    BY <2>2 DEF ThreadInit
  <2>4. D \in SUBSET Ids
    OBVIOUS
  <2> HIDE DEF D
  <2>5. thread \in FunctionsOn(CommentRows) /\ DOMAIN thread \subseteq Ids
    BY <2>3, <2>4 DEF FunctionsOn
  <2> QED BY <2>5 DEF ThreadOK, ThreadInit
<1>2. leave \in Questions
  <2>1. <<>> \in [{} -> Texts]
    OBVIOUS
  <2>2. <<>> \in UNION {[D -> Texts] : D \in SUBSET Composers}
    BY <2>1
  <2> QED BY <2>2 DEF ThreadInit, Stay, Questions
<1>3. DraftsOK(ever, drafts)
  BY DEF ThreadInit, DraftsOK, Composers
<1>4. ListingOK(thread, ever, sorting, listing)
  <2>1. PICK p : p = Sent("list", "recent", <<>>)
    OBVIOUS
  <2>2. p \in Requests /\ p.at = "sent" /\ p.text = "recent" /\ p.data = NoList
    BY <2>1, EmptyList DEF Sent, AtRest, Requests, Sorts
  <2> QED BY <2>1, <2>2, EmptyList DEF ThreadInit, ListingOK, ReadsRight
<1>5. handlers \in [Handlers -> Requests] /\ \A h \in Handlers : HandlerOK(thread, ever, handlers[h], h)
  BY AtRestFacts DEF ThreadInit
<1>6. ShownOK(thread, ever, sorting, overtaken, behind, shown)
  BY EmptyList DEF ThreadInit, ShownOK
<1> QED BY <1>1, <1>2, <1>3, <1>4, <1>5, <1>6, AtRestFacts DEF ListIInv, ThreadInit, Sorts

----------------------------------------------------------------------------
(* The steps of the thread *)

LEMMA OthersKeepList ==
    ASSUME ListIInv, OthersAct
    PROVE  ListIInv'
<1>1. PICK c \in DOMAIN thread :
        /\ thread' \in ByOthers(c)
        /\ behind' = behind \cup {c}
        /\ listing' = Aged(listing, c) /\ posting' = Aged(posting, c) /\ handlers' = AllAged(handlers, c)
  BY DEF OthersAct
<1>2. UNCHANGED <<ever, sorting, shown, drafts, leave, overtaken>>
  BY DEF OthersAct
<1>3. thread \in FunctionsOn(CommentRows) /\ c \in Ids /\ thread[c] \in CommentRows
  BY FunctionsFacts DEF ListIInv, ThreadOK
<1>4. /\ thread' \in FunctionsOn(CommentRows) /\ DOMAIN thread' \subseteq DOMAIN thread
      /\ SameBut(thread, thread', c)
  <2>1. \A t \in Texts : [thread[c] EXCEPT !.text = t] \in CommentRows
    BY <1>3 DEF CommentRows
  <2>2. [thread[c] EXCEPT !.others = 1 - @] \in CommentRows
    BY <1>3 DEF CommentRows
  <2>3. CASE \E v \in CommentRows : thread' = With(thread, c, v)
    <3>1. PICK v \in CommentRows : thread' = With(thread, c, v)
      BY <2>3
    <3>2. thread' \in FunctionsOn(CommentRows) /\ SameBut(thread, thread', c) /\ DOMAIN thread' = DOMAIN thread \cup {c}
      BY <1>3, <3>1, RowsWith
    <3> QED BY <1>1, <3>2
  <2>4. CASE thread' = Without(thread, c)
    BY <1>3, <2>4, RowsWithout
  <2> QED BY <1>1, <2>1, <2>2, <2>3, <2>4 DEF ByOthers
<1>5. ThreadOK(thread', ever')
  BY <1>2, <1>4 DEF ListIInv, ThreadOK
<1>6. /\ ListingOK(thread', ever', sorting', listing')
      /\ PostingOK(thread', ever', sorting', overtaken', posting')
      /\ ShownOK(thread', ever', sorting', overtaken', behind', shown')
  BY <1>1, <1>2, <1>4, Changes DEF ListIInv
<1>7. handlers' \in [Handlers -> Requests] /\ \A h \in Handlers : HandlerOK(thread', ever', handlers'[h], h)
  <2>1. \A h \in Handlers : HandlerOK(thread', ever', Aged(handlers[h], c), h)
    BY <1>2, <1>4, Changes DEF ListIInv
  <2> QED BY <1>1, <2>1, AllAgedFacts DEF ListIInv
<1> QED BY <1>1, <1>2, <1>3, <1>5, <1>6, <1>7 DEF ListIInv

LEMMA CreateKeepsList ==
    ASSUME ListIInv, CreateComment
    PROVE  ListIInv'
<1>1. PICK c \in Mine \ ever :
        /\ ever' = ever \cup {c}
        /\ behind' = behind \cup {c}
        /\ thread' = With(thread, c, Stored(posting.text, 0, "none"))
        /\ listing' = Aged(listing, c) /\ handlers' = AllAged(handlers, c)
        /\ posting' = [posting EXCEPT !.at = "done"]
  BY DEF CreateComment
<1>2. UNCHANGED <<sorting, shown, drafts, leave, overtaken>> /\ posting.at = "sent"
  BY DEF CreateComment
<1>3. /\ thread \in FunctionsOn(CommentRows) /\ DOMAIN thread \subseteq ever /\ ever \subseteq Ids /\ c \in Ids
      /\ posting \in Requests /\ posting.text \in Texts
  BY <1>2, ThreadAssumption DEF ListIInv, ThreadOK, PostingOK
<1>a. ever \subseteq ever'
  BY <1>1
<1>4. Stored(posting.text, 0, "none") \in CommentRows
  BY <1>3 DEF Stored, CommentRows, Reactions
<1>5. /\ thread' \in FunctionsOn(CommentRows) /\ DOMAIN thread' = DOMAIN thread \cup {c}
      /\ SameBut(thread, thread', c)
  BY <1>1, <1>3, <1>4, RowsWith
<1>6. ThreadOK(thread', ever') /\ behind' \subseteq Ids
  BY <1>1, <1>3, <1>5 DEF ListIInv, ThreadOK
<1>7. /\ ListingOK(thread', ever', sorting', listing')
      /\ ShownOK(thread', ever', sorting', overtaken', behind', shown')
      /\ DraftsOK(ever', drafts')
  BY <1>1, <1>2, <1>5, <1>a, Changes DEF ListIInv
<1>8. handlers' \in [Handlers -> Requests] /\ \A h \in Handlers : HandlerOK(thread', ever', handlers'[h], h)
  <2>1. \A h \in Handlers : HandlerOK(thread', ever', Aged(handlers[h], c), h)
    BY <1>a, <1>5, Changes DEF ListIInv
  <2> QED BY <1>1, <2>1, AllAgedFacts DEF ListIInv
<1>9. PostingOK(thread', ever', sorting', overtaken', posting')
  <2>1. /\ posting' \in Requests /\ posting'.at = "done" /\ posting'.text = posting.text
        /\ posting'.data = posting.data
    BY <1>1, <1>3 DEF Requests
  <2> QED BY <1>1, <1>2, <2>1 DEF ListIInv, PostingOK, ReadsRight
<1> QED BY <1>2, <1>6, <1>7, <1>8, <1>9 DEF ListIInv

\* What a handler asks for is done to its comment.
LEMMA DoneFacts ==
    ASSUME ListIInv, NEW h \in Handlers, handlers[h].at = "sent", h[1] \in DOMAIN thread
    PROVE  LET c == h[1]
               p == handlers[h]
               U == Done(p, c)
           IN /\ U \in FunctionsOn(CommentRows)
              /\ DOMAIN U = IF p.do = "delete" THEN DOMAIN thread \ {c} ELSE DOMAIN thread
              /\ SameBut(thread, U, c)
              /\ p.do = "edit" => U[c] = [thread[c] EXCEPT !.text = p.text] /\ U[c] \in CommentRows /\ U[c].text = p.text
              /\ p.do = "react" => /\ U[c] = [thread[c] EXCEPT !.reaction = p.text] /\ U[c] \in CommentRows
                                   /\ U[c].text = thread[c].text
<1>0. PICK c, p, U : c = h[1] /\ p = handlers[h] /\ U = Done(p, c)
  OBVIOUS
<1>1. thread \in FunctionsOn(CommentRows) /\ c \in Ids /\ c \in DOMAIN thread /\ thread[c] \in CommentRows
  BY <1>0, FunctionsFacts DEF ListIInv, ThreadOK
<1>2. /\ p.do \in {"react", "edit", "delete"} /\ (p.do = "react" => p.text \in Reactions)
      /\ p.do = "edit" => p.text \in Texts
  BY <1>0 DEF ListIInv, HandlerOK, OwnOK, ThumbOK
<1>3. CASE p.do = "react"
  <2>1. PICK v : v = [thread[c] EXCEPT !.reaction = p.text]
    OBVIOUS
  <2>2. v \in CommentRows /\ v.text = thread[c].text
    BY <1>1, <1>2, <1>3, <2>1 DEF CommentRows
  <2>3. U = With(thread, c, v)
    BY <1>0, <1>3, <2>1 DEF Done
  <2>4. U \in FunctionsOn(CommentRows) /\ DOMAIN U = DOMAIN thread \cup {c} /\ U[c] = v /\ SameBut(thread, U, c)
    BY <1>1, <2>2, <2>3, RowsWith
  <2>5. DOMAIN U = DOMAIN thread
    BY <1>1, <2>4
  <2> QED BY <1>0, <1>3, <2>1, <2>2, <2>4, <2>5
<1>4. CASE p.do = "edit"
  <2>1. PICK v : v = [thread[c] EXCEPT !.text = p.text]
    OBVIOUS
  <2>2. v \in CommentRows /\ v.text = p.text
    BY <1>1, <1>2, <1>4, <2>1 DEF CommentRows
  <2>3. U = With(thread, c, v)
    BY <1>0, <1>4, <2>1 DEF Done
  <2>4. U \in FunctionsOn(CommentRows) /\ DOMAIN U = DOMAIN thread \cup {c} /\ U[c] = v /\ SameBut(thread, U, c)
    BY <1>1, <2>2, <2>3, RowsWith
  <2>5. DOMAIN U = DOMAIN thread
    BY <1>1, <2>4
  <2> QED BY <1>0, <1>4, <2>1, <2>2, <2>4, <2>5
<1>5. CASE p.do = "delete"
  <2>1. U = Without(thread, c)
    BY <1>0, <1>5 DEF Done
  <2>2. U \in FunctionsOn(CommentRows) /\ DOMAIN U = DOMAIN thread \ {c} /\ SameBut(thread, U, c)
    BY <1>0, <1>1, <2>1, RowsWithout
  <2> QED BY <1>0, <1>5, <2>2
<1> QED BY <1>0, <1>2, <1>3, <1>4, <1>5

LEMMA ServeItemKeepsList ==
    ASSUME ListIInv, NEW h \in Handlers, ServeItem(h)
    PROVE  ListIInv'
<1>0. PICK c, p : c = h[1] /\ p = handlers[h]
  OBVIOUS
<1>1. /\ p.at = "sent" /\ c \in DOMAIN thread
      /\ thread' = Done(p, c)
      /\ handlers' = [AllAged(handlers, c) EXCEPT ![h] = [p EXCEPT !.at = "read", !.from = Answer(p, c)]]
      /\ listing' = Aged(listing, c) /\ posting' = Aged(posting, c)
      /\ behind' = behind \cup {c}
      /\ UNCHANGED <<ever, sorting, shown, drafts, leave, overtaken>>
  BY <1>0 DEF ServeItem
<1>2. /\ thread \in FunctionsOn(CommentRows) /\ DOMAIN thread \subseteq ever /\ ever \subseteq Ids
      /\ c \in Ids /\ p \in Requests /\ HandlerOK(thread, ever, p, h)
      /\ p.do \in {"react", "edit", "delete"}
  BY <1>0, <1>1, FunctionsFacts DEF ListIInv, ThreadOK, HandlerOK, OwnOK, ThumbOK
<1>3. /\ thread' \in FunctionsOn(CommentRows)
      /\ DOMAIN thread' = IF p.do = "delete" THEN DOMAIN thread \ {c} ELSE DOMAIN thread
      /\ SameBut(thread, thread', c)
      /\ p.do \in {"edit", "react"} => thread'[c] \in CommentRows
      /\ p.do = "react" => thread'[c].text = thread[c].text
  BY <1>0, <1>1, DoneFacts
<1>4. ever \subseteq ever'
  BY <1>1
<1>5. ThreadOK(thread', ever') /\ behind' \subseteq Ids
  BY <1>1, <1>2, <1>3 DEF ListIInv, ThreadOK
<1>6. /\ ListingOK(thread', ever', sorting', listing')
      /\ PostingOK(thread', ever', sorting', overtaken', posting')
      /\ ShownOK(thread', ever', sorting', overtaken', behind', shown')
      /\ DraftsOK(ever', drafts')
  BY <1>1, <1>3, <1>4, Changes DEF ListIInv
<1>7. PICK q : q = [p EXCEPT !.at = "read", !.from = Answer(p, c)]
  OBVIOUS
<1>8. /\ p.do \in {"edit", "react"} => ToCommentOut(thread'[c]) \in CommentOut
      /\ p.do = "edit" => Answer(p, c) = ToCommentOut(thread'[c])
      /\ p.do = "react" => Answer(p, c) \in CommentOut /\ (p.from = ToCommentOut(thread[c]) => Answer(p, c) = ToCommentOut(thread'[c]))
      /\ p.do = "delete" => Answer(p, c) = <<>>
  <2>1. p.do \in {"edit", "react"} => ToCommentOut(thread'[c]) \in CommentOut
    BY <1>3, RowFacts
  <2>2. CASE p.do = "react"
    <3>1. PICK told : told = ToCommentOut(thread'[c])
      OBVIOUS
    <3>2. told \in CommentOut /\ told.text = thread[c].text /\ ToCommentOut(thread[c]).text = thread[c].text
      BY <1>1, <1>2, <1>3, <2>2, <3>1, RowFacts, FunctionsFacts
    <3>3. p.from \in CommentOut
      BY <1>1, <1>2, <2>2 DEF HandlerOK, OwnOK, ThumbOK
    <3>4. Answer(p, c) = [p.from EXCEPT !.likes = told.likes, !.viewer_reaction = told.viewer_reaction]
      BY <1>1, <2>2, <3>1 DEF Answer
    <3>5. Answer(p, c) \in CommentOut
      BY <3>2, <3>3, <3>4 DEF CommentOut
    <3>6. p.from.text = told.text => Answer(p, c) = told
      BY <3>2, <3>3, <3>4 DEF CommentOut
    <3> QED BY <2>1, <2>2, <3>1, <3>2, <3>5, <3>6
  <2>3. CASE p.do = "edit"
    BY <1>1, <2>1, <2>3 DEF Answer
  <2>4. CASE p.do = "delete"
    BY <2>4 DEF Answer
  <2> QED BY <1>2, <2>2, <2>3, <2>4
<1>9. /\ q \in Requests /\ q.at = "read" /\ q.do = p.do /\ q.text = p.text /\ q.fresh = p.fresh
      /\ q.from = Answer(p, c)
  <2>1. Answer(p, c) \in CommentOut \cup {<<>>}
    BY <1>2, <1>8
  <2> QED BY <1>2, <1>7, <2>1 DEF Requests
<1>10. HandlerOK(thread', ever', q, h)
  <2>1. CASE h[2] = "own"
    <3>1. OwnOK(thread, ever, p, c) /\ p.do \in {"edit", "delete"}
      BY <1>0, <1>1, <1>2, <2>1 DEF HandlerOK, OwnOK
    <3>2. OwnOK(thread', ever', q, c)
      BY <1>1, <1>3, <1>8, <1>9, <3>1 DEF OwnOK
    <3> QED BY <1>0, <2>1, <3>2 DEF HandlerOK
  <2>2. CASE h[2] # "own"
    <3>1. ThumbOK(thread, p, c) /\ p.do = "react"
      BY <1>0, <1>1, <1>2, <2>2 DEF HandlerOK, ThumbOK
    <3>2. ThumbOK(thread', q, c)
      BY <1>1, <1>3, <1>8, <1>9, <3>1 DEF ThumbOK
    <3> QED BY <1>0, <2>2, <3>2 DEF HandlerOK
  <2> QED BY <2>1, <2>2
<1>11. handlers' \in [Handlers -> Requests] /\ \A x \in Handlers : HandlerOK(thread', ever', handlers'[x], x)
  <2>1. /\ handlers' = [AllAged(handlers, c) EXCEPT ![h] = q]
        /\ AllAged(handlers, c) \in [Handlers -> Requests]
        /\ \A x \in Handlers : AllAged(handlers, c)[x] = Aged(handlers[x], c)
    BY <1>1, <1>7, AllAgedFacts DEF ListIInv
  <2>2. \A x \in Handlers : HandlerOK(thread', ever', Aged(handlers[x], c), x)
    BY <1>1, <1>3, <1>4, Changes DEF ListIInv
  <2> QED BY <1>9, <1>10, <2>1, <2>2
<1> QED BY <1>1, <1>5, <1>6, <1>11 DEF ListIInv

----------------------------------------------------------------------------
(* The steps of the tab: the thread is as it was *)

\* What a step must show that changes neither the thread nor what there has been.
LEMMA TabKeepsList ==
    ASSUME ListIInv, UNCHANGED <<thread, ever>>,
           sorting' \in Sorts, behind' \subseteq Ids, overtaken' \in BOOLEAN, leave' \in Questions,
           DraftsOK(ever, drafts'),
           ListingOK(thread, ever, sorting', listing'),
           PostingOK(thread, ever, sorting', overtaken', posting'),
           handlers' \in [Handlers -> Requests],
           \A h \in Handlers : HandlerOK(thread, ever, handlers'[h], h),
           ShownOK(thread, ever, sorting', overtaken', behind', shown')
    PROVE  ListIInv'
BY DEF ListIInv

LEMMA QuestionFacts ==
    ASSUME leave \in Questions
    PROVE  /\ Stay \in Questions
           /\ \A at \in {"no", "blocked", "quit"} : [Stay EXCEPT !.at = at] \in Questions
           /\ \A at \in {"blocked", "saved"} : [leave EXCEPT !.at = at] \in Questions
           /\ \A k : Succeeded(k) \in Questions /\ Failed(k) \in Questions
<1>1. <<>> \in [{} -> Texts]
  OBVIOUS
<1>2. <<>> \in UNION {[D -> Texts] : D \in SUBSET Composers}
  BY <1>1
<1>3. /\ Stay \in Questions
      /\ \A at \in {"no", "blocked", "quit"} : [Stay EXCEPT !.at = at] \in Questions
  BY <1>2 DEF Stay, Questions
<1>4. \A at \in {"blocked", "saved"} : [leave EXCEPT !.at = at] \in Questions
  BY DEF Questions
<1>5. \A k : Succeeded(k) \in Questions
  BY DEF Succeeded, Questions
<1>6. \A k : Failed(k) \in Questions
  BY <1>3 DEF Failed
<1> QED BY <1>3, <1>4, <1>5, <1>6

LEMMA SubmittedFacts ==
    ASSUME ListIInv
    PROVE  /\ Submitted(0) => /\ PostingOK(thread, ever, sorting, overtaken, Posting)
                              /\ Posting.at = "sent" /\ Posting.text = drafts[0] /\ drafts[0] \in Texts
           /\ \A c \in Mine : Submitted(c) =>
                 /\ HandlerOK(thread, ever, Editing(c), <<c, "own">>)
                 /\ Editing(c).at = "sent" /\ Editing(c).do = "edit" /\ Editing(c).text = drafts[c]
                 /\ drafts[c] \in Texts
<1>1. \A k \in Composers : Submitted(k) => drafts[k] \in Texts
  BY DEF Submitted, ListIInv, DraftsOK
<1>2. ASSUME Submitted(0)
      PROVE  /\ PostingOK(thread, ever, sorting, overtaken, Posting)
             /\ Posting.at = "sent" /\ Posting.text = drafts[0]
  <2>1. drafts[0] \in Texts
    BY <1>1, <1>2 DEF Composers
  <2>2. PICK p : p = Sent("add", drafts[0], <<>>)
    OBVIOUS
  <2>3. p \in Requests /\ p.at = "sent" /\ p.text = drafts[0] /\ p.data = NoList
    BY <2>1, <2>2, EmptyList DEF Sent, AtRest, Requests
  <2>4. [NoList EXCEPT !.by = sorting] \in Lists /\ [NoList EXCEPT !.by = sorting].by = sorting
        /\ [NoList EXCEPT !.by = sorting].has = NoList.has
    BY EmptyList DEF Lists, ListIInv
  <2>5. PICK n : n = [NoList EXCEPT !.by = sorting]
    OBVIOUS
  <2>6. Posting = [p EXCEPT !.data = n]
    BY <2>2, <2>3, <2>5 DEF Posting
  <2>7. Posting \in Requests /\ Posting.at = "sent" /\ Posting.text = drafts[0] /\ Posting.data = n
    BY <2>3, <2>4, <2>5, <2>6 DEF Requests
  <2> QED BY <2>1, <2>4, <2>5, <2>7, EmptyList DEF PostingOK, ReadsRight, ListIInv
<1>3. ASSUME NEW c \in Mine, Submitted(c)
      PROVE  /\ HandlerOK(thread, ever, Editing(c), <<c, "own">>)
             /\ Editing(c).at = "sent" /\ Editing(c).do = "edit" /\ Editing(c).text = drafts[c]
  <2>1. drafts[c] \in Texts /\ c \in ever /\ c \in Ids
    BY <1>1, <1>3, ThreadAssumption DEF Composers, Submitted, ListIInv, DraftsOK
  <2>2. PICK p : p = Sent("edit", drafts[c], <<>>)
    OBVIOUS
  <2>3. p \in Requests /\ p.at = "sent" /\ p.text = drafts[c] /\ p.do = "edit"
    BY <2>1, <2>2, EmptyList DEF Sent, AtRest, Requests
  <2>4. Editing(c) = [p EXCEPT !.fresh = {c}] /\ {c} \in SUBSET Ids
    BY <2>1, <2>2 DEF Editing
  <2>5. /\ Editing(c) \in Requests /\ Editing(c).at = "sent" /\ Editing(c).do = "edit"
        /\ Editing(c).text = drafts[c]
    BY <2>1, <2>3, <2>4 DEF Requests
  <2>6. OwnOK(thread, ever, Editing(c), c)
    BY <2>1, <2>5 DEF OwnOK
  <2> QED BY <2>5, <2>6 DEF HandlerOK
<1> QED BY <1>1, <1>2, <1>3, ThreadAssumption DEF Composers

LEMMA ListStepsKeepList ==
    ASSUME ListIInv,
           ServeList \/ ShowList \/ LoseList \/ \E s \in Sorts : SelectSort(s)
    PROVE  ListIInv'
<1>a. listing \in Requests /\ ThreadOK(thread, ever)
  BY DEF ListIInv, ListingOK
<1>1. ASSUME NEW s \in Sorts, SelectSort(s) PROVE ListIInv'
  <2>1. /\ sorting' = s /\ shown' = NoList /\ behind' = Ids
        /\ listing' = Sent("list", s, <<>>)
        /\ overtaken' = (overtaken \/ posting.at # "idle")
        /\ drafts' = [k \in Composers |-> IF k = 0 THEN drafts[0] ELSE ""]
        /\ UNCHANGED <<thread, ever, leave, posting, handlers>>
    BY <1>1 DEF SelectSort, ShowsList, Select
  <2>2. PICK p : p = Sent("list", s, <<>>)
    OBVIOUS
  <2>3. p \in Requests /\ p.at = "sent" /\ p.text = s /\ p.data = NoList
    BY <2>2, EmptyList DEF Sent, AtRest, Requests
  <2>4. ListingOK(thread, ever, s, listing')
    BY <2>1, <2>2, <2>3, EmptyList DEF ListingOK, ReadsRight
  <2>5. PostingOK(thread, ever, s, overtaken', posting)
    BY <2>1 DEF ListIInv, PostingOK
  <2>6. ShownOK(thread, ever, s, overtaken', Ids, NoList)
    BY EmptyList DEF ShownOK
  <2>7. DraftsOK(ever, drafts')
    BY <2>1, ThreadAssumption DEF ListIInv, DraftsOK, Composers
  <2> QED BY <2>1, <2>4, <2>5, <2>6, <2>7, TabKeepsList DEF ListIInv
<1>2. CASE ServeList
  <2>1. PICK l : l = ListComments(listing.text)
    OBVIOUS
  <2>2. listing.text = sorting /\ sorting \in Sorts
    BY <1>2 DEF ServeList, ListIInv, ListingOK
  <2>3. l \in Lists /\ l.by = sorting /\ DOMAIN l.has = DOMAIN thread /\ \A c : Right(thread, l, c)
    BY <1>a, <2>1, <2>2, ListFacts
  <2>4. listing' = [listing EXCEPT !.at = "read", !.data = l, !.fresh = Ids]
    BY <1>2, <2>1 DEF ServeList
  <2>5. listing' \in Requests /\ listing'.at = "read" /\ listing'.data = l /\ listing'.text = listing.text
    BY <1>a, <2>3, <2>4 DEF Requests
  <2>6. ListingOK(thread, ever, sorting, listing')
    BY <1>a, <2>2, <2>3, <2>5 DEF ListingOK, ReadsRight, ThreadOK
  <2> QED BY <1>2, <2>6, TabKeepsList DEF ServeList, ListIInv
<1>3. CASE ShowList
  <2>1. /\ shown' = listing.data /\ behind' = Ids \ listing.fresh /\ listing' = AtRest
        /\ overtaken' = (posting.at # "idle" /\ overtaken)
        /\ UNCHANGED <<thread, ever, sorting, drafts, leave, posting, handlers>>
        /\ listing.at = "read"
    BY <1>3 DEF ShowList, ShowsList
  <2>2. ShownOK(thread, ever, sorting, overtaken', behind', shown')
    BY <1>a, <2>1 DEF ListIInv, ListingOK, ReadsRight, ShownOK, Requests
  <2>3. PostingOK(thread, ever, sorting, overtaken', posting)
    BY <2>1 DEF ListIInv, PostingOK
  <2> QED BY <2>1, <2>2, <2>3, AtRestFacts, TabKeepsList DEF ListIInv
<1>4. CASE LoseList
  BY <1>4, AtRestFacts, TabKeepsList DEF LoseList, ListIInv
<1> QED BY <1>1, <1>2, <1>3, <1>4

LEMMA ComposerKeepsList ==
    ASSUME ListIInv,
           \/ \E k \in Composers, t \in Texts : Type(k, t)
           \/ \E k \in Composers : Discard(k)
           \/ HandleAdd \/ ListAgain \/ ShowAdded \/ LoseAdd
    PROVE  ListIInv'
<1>a. /\ posting \in Requests /\ ThreadOK(thread, ever) /\ drafts \in [Composers -> Texts \cup {""}]
      /\ 0 \in Composers /\ leave \in Questions /\ \A c \in Mine : c # 0
  BY ThreadAssumption DEF ListIInv, PostingOK, DraftsOK, Composers
<1>1. ASSUME NEW k \in Composers, NEW t \in Texts, Type(k, t) PROVE ListIInv'
  <2>1. drafts' = [drafts EXCEPT ![k] = t] /\ (k # 0 => k \in ever)
    BY <1>1 DEF Type, Listed, ListIInv, ShownOK
  <2>2. DraftsOK(ever, drafts')
    BY <1>a, <2>1, ThreadAssumption DEF ListIInv, DraftsOK, Composers
  <2> QED BY <1>1, <2>2, TabKeepsList DEF Type, ListIInv
<1>2. ASSUME NEW k \in Composers, Discard(k) PROVE ListIInv'
  <2>1. DraftsOK(ever, drafts')
    BY <1>a, <1>2 DEF Discard, ListIInv, DraftsOK, Composers
  <2> QED BY <1>2, <2>1, TabKeepsList DEF Discard, ListIInv
<1>3. CASE HandleAdd
  BY <1>3, SubmittedFacts, TabKeepsList DEF HandleAdd, ListIInv
<1>4. CASE ListAgain
  <2>1. PICK l : l = ListComments(posting.data.by)
    OBVIOUS
  <2>2. posting.data.by \in Sorts /\ posting.text \in Texts /\ (posting.data.by = sorting \/ overtaken)
    BY <1>4 DEF ListAgain, ListIInv, PostingOK
  <2>3. l \in Lists /\ l.by = posting.data.by /\ DOMAIN l.has = DOMAIN thread /\ \A c : Right(thread, l, c)
    BY <1>a, <2>1, <2>2, ListFacts
  <2>4. posting' = [posting EXCEPT !.at = "read", !.data = l, !.fresh = Ids]
    BY <1>4, <2>1 DEF ListAgain
  <2>5. posting' \in Requests /\ posting'.at = "read" /\ posting'.data = l /\ posting'.text = posting.text
    BY <1>a, <2>3, <2>4 DEF Requests
  <2>6. PostingOK(thread, ever, sorting, overtaken, posting')
    BY <1>a, <2>2, <2>3, <2>5 DEF PostingOK, ReadsRight, ThreadOK
  <2> QED BY <1>4, <2>6, TabKeepsList DEF ListAgain, ListIInv
<1>5. CASE ShowAdded
  <2>1. /\ shown' = posting.data /\ behind' = Ids \ posting.fresh /\ posting' = AtRest
        /\ drafts' = [drafts EXCEPT ![0] = ""] /\ leave' = Succeeded(0)
        /\ UNCHANGED <<thread, ever, sorting, listing, handlers, overtaken>>
        /\ posting.at = "read"
    BY <1>5 DEF ShowAdded, ShowsList
  <2>2. ShownOK(thread, ever, sorting, overtaken', behind', shown')
    BY <1>a, <2>1 DEF ListIInv, PostingOK, ReadsRight, ShownOK, Requests
  <2>3. DraftsOK(ever, drafts')
    BY <1>a, <2>1, ThreadAssumption DEF ListIInv, DraftsOK, Composers
  <2> QED BY <1>a, <2>1, <2>2, <2>3, AtRestFacts, QuestionFacts, TabKeepsList DEF ListIInv
<1>6. CASE LoseAdd
  BY <1>a, <1>6, AtRestFacts, QuestionFacts, TabKeepsList DEF LoseAdd, ListIInv
<1> QED BY <1>1, <1>2, <1>3, <1>4, <1>5, <1>6

LEMMA ItemKeepsList ==
    ASSUME ListIInv,
           \/ \E c \in Ids, k \in Thumbs : React(c, k)
           \/ \E c \in Mine : HandleEdit(c) \/ HandleDelete(c)
           \/ \E h \in Handlers : LoseItem(h)
    PROVE  ListIInv'
<1>1. ASSUME NEW c \in Ids, NEW k \in Thumbs, React(c, k) PROVE ListIInv'
  <2>1. /\ c \in DOMAIN shown.has /\ shown \in Lists /\ shown.has[c] \in CommentOut
        /\ c \notin behind => Right(thread, shown, c)
    <3>1. c \in DOMAIN shown.has /\ shown \in Lists /\ (c \notin behind => Right(thread, shown, c))
      BY <1>1 DEF React, Listed, ListIInv, ShownOK
    <3>2. shown.has \in FunctionsOn(CommentOut)
      BY <3>1 DEF Lists
    <3> QED BY <3>1, <3>2, FunctionsFacts
  <2>2. PICK v : v = IF shown.has[c].viewer_reaction = "up" THEN "none" ELSE "up"
    OBVIOUS
  <2>3. PICK p : p = Sent("react", v, shown.has[c])
    OBVIOUS
  <2>4. v \in Reactions /\ p \in Requests /\ p.at = "sent" /\ p.text = v /\ p.do = "react" /\ p.from = shown.has[c]
    BY <2>1, <2>2, <2>3, EmptyList DEF Sent, AtRest, Requests, Reactions
  <2>5. PICK q : q = [p EXCEPT !.fresh = {c} \ behind]
    OBVIOUS
  <2>6. /\ q \in Requests /\ q.at = "sent" /\ q.text = v /\ q.do = "react" /\ q.from = shown.has[c]
        /\ q.fresh = {c} \ behind
    BY <2>4, <2>5 DEF Requests
  <2>7. ThumbOK(thread, q, c)
    BY <2>1, <2>4, <2>6 DEF ThumbOK, Right
  <2>8. <<c, k>> \in Handlers /\ HandlerOK(thread, ever, q, <<c, k>>)
    BY <2>7 DEF Handlers, HandlerOK, Thumbs
  <2>9. handlers' = [handlers EXCEPT ![<<c, k>>] = q]
    BY <1>1, <2>2, <2>3, <2>5 DEF React
  <2>10. UNCHANGED <<thread, ever, sorting, shown, drafts, leave, listing, posting, behind, overtaken>>
    BY <1>1 DEF React
  <2> QED BY <2>8, <2>9, <2>10, HandlerMoves, TabKeepsList DEF ListIInv
<1>2. ASSUME NEW c \in Mine, HandleEdit(c) PROVE ListIInv'
  <2>1. <<c, "own">> \in Handlers
    BY ThreadAssumption DEF Handlers
  <2>2. HandlerOK(thread, ever, Editing(c), <<c, "own">>)
    BY <1>2, SubmittedFacts DEF HandleEdit
  <2> QED BY <1>2, <2>1, <2>2, HandlerMoves, TabKeepsList DEF HandleEdit, ListIInv
<1>3. ASSUME NEW c \in Mine, HandleDelete(c) PROVE ListIInv'
  <2>1. <<c, "own">> \in Handlers /\ c \in ever /\ c \in Ids
    BY <1>3, ThreadAssumption DEF Handlers, HandleDelete, Listed, ListIInv, ShownOK
  <2>2. PICK p : p = Sent("delete", "", <<>>)
    OBVIOUS
  <2>3. p \in Requests /\ p.at = "sent" /\ p.do = "delete"
    BY <2>2, EmptyList DEF Sent, AtRest, Requests
  <2>4. PICK q : q = [p EXCEPT !.fresh = {c}]
    OBVIOUS
  <2>5. q \in Requests /\ q.at = "sent" /\ q.do = "delete"
    BY <2>1, <2>3, <2>4 DEF Requests
  <2>6. HandlerOK(thread, ever, q, <<c, "own">>)
    BY <1>3, <2>1, <2>5 DEF HandlerOK, OwnOK
  <2>7. handlers' = [handlers EXCEPT ![<<c, "own">>] = q]
    BY <1>3, <2>2, <2>4 DEF HandleDelete
  <2> QED BY <1>3, <2>1, <2>6, <2>7, HandlerMoves, TabKeepsList DEF HandleDelete, ListIInv
<1>4. ASSUME NEW h \in Handlers, LoseItem(h) PROVE ListIInv'
  <2>1. leave' \in Questions
    BY <1>4, QuestionFacts DEF LoseItem, ListIInv
  <2> QED BY <1>4, <2>1, AtRestFacts, HandlerMoves, TabKeepsList DEF LoseItem, ListIInv
<1> QED BY <1>1, <1>2, <1>3, <1>4

\* What an answer puts into the list, or takes out of it.
LEMMA ShowItemKeepsList ==
    ASSUME ListIInv, NEW h \in Handlers, ShowItem(h)
    PROVE  ListIInv'
<1>0. PICK c, p : c = h[1] /\ p = handlers[h]
  OBVIOUS
<1>1. /\ p.at = "read"
      /\ shown' = IF p.do = "delete" THEN [shown EXCEPT !.has = Without(@, c)] ELSE Replaced(shown, c, p.from)
      /\ behind' = IF c \in DOMAIN shown.has THEN (behind \ {c}) \cup ({c} \ p.fresh) ELSE behind
      /\ drafts' = IF p.do = "edit" THEN [drafts EXCEPT ![c] = ""] ELSE drafts
      /\ leave' = IF p.do = "edit" THEN Succeeded(c) ELSE leave
      /\ handlers' = [handlers EXCEPT ![h] = AtRest]
      /\ UNCHANGED <<thread, ever, sorting, listing, posting, overtaken>>
  BY <1>0 DEF ShowItem, Listed
<1>2. /\ c \in Ids /\ p \in Requests /\ HandlerOK(thread, ever, p, h)
      /\ shown \in Lists /\ shown.has \in FunctionsOn(CommentOut) /\ DOMAIN shown.has \subseteq ever
      /\ shown = NoList \/ shown.by = sorting \/ overtaken
      /\ \A d \in Ids \ behind : Right(thread, shown, d)
  BY <1>0, <1>1 DEF ListIInv, ShownOK, Lists, Handlers, HandlerOK, OwnOK, ThumbOK
<1>3. /\ p.do \in {"react", "edit", "delete"}
      /\ p.do \in {"react", "edit"} =>
           p.from \in CommentOut /\ (c \in p.fresh => c \in DOMAIN thread /\ p.from = ToCommentOut(thread[c]))
      /\ p.do = "delete" => (c \in p.fresh => c \notin DOMAIN thread)
      /\ p.do = "edit" => c \in Mine
  BY <1>0, <1>1, <1>2 DEF HandlerOK, OwnOK, ThumbOK
<1>4. DraftsOK(ever, drafts') /\ leave' \in Questions /\ behind' \subseteq Ids
  BY <1>1, <1>2, <1>3, QuestionFacts DEF ListIInv, DraftsOK, Composers
<1>5. ShownOK(thread, ever, sorting, overtaken, behind', shown')
  <2>1. CASE p.do = "delete"
    <3>1. PICK f : f = Without(shown.has, c)
      OBVIOUS
    <3>2. f \in FunctionsOn(CommentOut) /\ DOMAIN f = DOMAIN shown.has \ {c} /\ SameBut(shown.has, f, c)
      BY <1>2, <3>1, ListsWithout
    <3>3. shown' = [shown EXCEPT !.has = f]
      BY <1>1, <2>1, <3>1
    <3>4. shown' \in Lists /\ shown'.by = shown.by /\ shown'.has = f
      BY <1>2, <3>2, <3>3 DEF Lists
    <3>5. shown = NoList => shown' = NoList
      <4>1. NoList.has = <<>> /\ [NoList EXCEPT !.has = <<>>] = NoList
        BY DEF NoList
      <4>2. Without(<<>>, c) = <<>>
        <5>1. DOMAIN <<>> = {}
          OBVIOUS
        <5>2. DOMAIN <<>> \ {c} = {}
          BY <5>1
        <5>3. [x \in {} |-> <<>>[x]] = <<>>
          OBVIOUS
        <5> QED BY <5>2, <5>3 DEF Without
      <4> QED BY <3>1, <3>3, <4>1, <4>2
    <3>6. ASSUME NEW d \in Ids \ behind' PROVE Right(thread, shown', d)
      <4>1. CASE d = c
        BY <1>1, <1>2, <1>3, <2>1, <3>2, <3>4, <3>6, <4>1 DEF Right
      <4>2. CASE d # c
        <5>1. Right(thread, shown, d)
          BY <1>1, <1>2, <3>6, <4>2
        <5> QED BY <3>2, <3>4, <4>2, <5>1 DEF Right, SameBut
      <4> QED BY <4>1, <4>2
    <3> QED BY <1>2, <3>2, <3>4, <3>5, <3>6 DEF ShownOK
  <2>2. CASE p.do # "delete" /\ c \in DOMAIN shown.has
    <3>1. PICK f : f = With(shown.has, c, p.from)
      OBVIOUS
    <3>2. /\ f \in FunctionsOn(CommentOut) /\ DOMAIN f = DOMAIN shown.has \cup {c}
          /\ f[c] = p.from /\ SameBut(shown.has, f, c)
      BY <1>2, <1>3, <2>2, <3>1, ListsWith
    <3>3. shown' = [shown EXCEPT !.has = f]
      BY <1>1, <2>2, <3>1 DEF Replaced
    <3>4. shown' \in Lists /\ shown'.by = shown.by /\ shown'.has = f
      BY <1>2, <3>2, <3>3 DEF Lists
    <3>5. shown # NoList
      BY <2>2, EmptyList
    <3>6. ASSUME NEW d \in Ids \ behind' PROVE Right(thread, shown', d)
      <4>1. CASE d = c
        BY <1>1, <1>2, <1>3, <2>2, <3>2, <3>4, <3>6, <4>1 DEF Right
      <4>2. CASE d # c
        <5>1. Right(thread, shown, d)
          BY <1>1, <1>2, <3>6, <4>2
        <5> QED BY <3>2, <3>4, <4>2, <5>1 DEF Right, SameBut
      <4> QED BY <4>1, <4>2
    <3> QED BY <1>2, <2>2, <3>2, <3>4, <3>5, <3>6 DEF ShownOK
  <2>3. CASE p.do # "delete" /\ c \notin DOMAIN shown.has
    BY <1>1, <1>2, <2>3 DEF Replaced, ShownOK
  <2> QED BY <2>1, <2>2, <2>3
<1>6. /\ handlers' \in [Handlers -> Requests]
      /\ \A x \in Handlers : HandlerOK(thread, ever, handlers'[x], x)
  BY <1>1, AtRestFacts, HandlerMoves
<1> QED BY <1>1, <1>4, <1>5, <1>6, TabKeepsList DEF ListIInv

LEMMA LeaveKeepsList ==
    ASSUME ListIInv,
           Leave \/ SaveAll \/ Proceed \/ \E choice \in {"quit", "no"} : Answers(choice)
    PROVE  ListIInv'
<1>1. CASE SaveAll
  <2>1. PICK S : S = {k \in Composers : Submitted(k)}
    OBVIOUS
  <2>2. /\ leave' = [at |-> "saving", saving |-> S, had |-> DOMAIN thread, kept |-> [k \in S |-> drafts[k]]]
        /\ posting' = IF 0 \in S THEN Posting ELSE posting
        /\ handlers' = [h \in Handlers |-> IF h[2] = "own" /\ h[1] \in S THEN Editing(h[1]) ELSE handlers[h]]
        /\ UNCHANGED <<thread, ever, sorting, shown, drafts, listing, behind, overtaken>>
    BY <1>1, <2>1 DEF SaveAll
  <2>3. leave' \in Questions
    <3>1. \A k \in S : drafts[k] \in Texts
      BY <2>1 DEF Submitted, ListIInv, DraftsOK
    <3>2. S \in SUBSET Composers
      BY <2>1
    <3>3. [k \in S |-> drafts[k]] \in [S -> Texts]
      BY <3>1
    <3>4. [k \in S |-> drafts[k]] \in UNION {[D -> Texts] : D \in SUBSET Composers}
      BY <3>2, <3>3
    <3>5. DOMAIN thread \in SUBSET Ids
      BY FunctionsFacts DEF ListIInv, ThreadOK
    <3> QED BY <2>2, <3>2, <3>4, <3>5 DEF Questions
  <2>4. PostingOK(thread, ever, sorting, overtaken, posting')
    BY <2>1, <2>2, SubmittedFacts DEF ListIInv
  <2>5. ASSUME NEW h \in Handlers PROVE handlers'[h] \in Requests /\ HandlerOK(thread, ever, handlers'[h], h)
    <3>1. CASE h[2] = "own" /\ h[1] \in S
      <4>1. h = <<h[1], "own">> /\ h[1] \in Mine /\ Submitted(h[1])
        <5>1. h[1] \in Ids /\ h = <<h[1], h[2]>>
          BY DEF Handlers
        <5>2. h[1] \in Composers /\ Submitted(h[1])
          BY <2>1, <3>1
        <5>3. h[1] # 0
          BY <5>1, ThreadAssumption
        <5> QED BY <3>1, <5>1, <5>2, <5>3 DEF Composers
      <4>2. HandlerOK(thread, ever, Editing(h[1]), h)
        BY <4>1, SubmittedFacts
      <4> QED BY <2>2, <3>1, <4>2 DEF HandlerOK, OwnOK
    <3>2. CASE ~(h[2] = "own" /\ h[1] \in S)
      BY <2>2, <3>2 DEF ListIInv
    <3> QED BY <3>1, <3>2
  <2>6. handlers' \in [Handlers -> Requests]
    BY <2>2, <2>5
  <2> QED BY <2>2, <2>3, <2>4, <2>5, <2>6, TabKeepsList DEF ListIInv
<1>2. CASE Leave \/ Proceed \/ \E choice \in {"quit", "no"} : Answers(choice)
  BY <1>2, QuestionFacts, TabKeepsList DEF Leave, Proceed, Answers, ListIInv
<1> QED BY <1>1, <1>2

LEMMA ListInvariance == ThreadSpec => []ListIInv
<1>1. ListIInv /\ [ThreadNext]_threadVars => ListIInv'
  <2> SUFFICES ASSUME ListIInv, [ThreadNext]_threadVars PROVE ListIInv'
    OBVIOUS
  <2>1. CASE UNCHANGED threadVars
    BY <2>1 DEF threadVars, ListIInv
  <2>2. CASE ThreadNext
    BY <2>2, OthersKeepList, CreateKeepsList, ServeItemKeepsList, ListStepsKeepList, ComposerKeepsList,
       ItemKeepsList, ShowItemKeepsList, LeaveKeepsList
    DEF ThreadNext
  <2> QED BY <2>1, <2>2
<1> QED BY <1>1, ListBegins, PTL DEF ThreadSpec

\* For any comments and texts, and however many lists, posts, edits, removals and
\* thumbs overlap or are lost: the list that is shown is in the order selected,
\* and right about every comment no other has changed and no race has put behind.
THEOREM ListIsTheServers == ThreadSpec => []ThreadIsTheServers
<1>1. ListIInv => ThreadIsTheServers
  BY DEF ListIInv, ShownOK, Right, ThreadIsTheServers, Listed
<1> QED BY <1>1, ListInvariance, PTL

----------------------------------------------------------------------------
(* Save & quit *)

Own(c) == handlers[<<c, "own">>]
Told(c, text) == c \in DOMAIN thread /\ thread[c].text = text
Resting(c) == Own(c).at = "idle"
NewlyTold(text) == \E c \in Mine \ leave.had : Told(c, text) /\ Resting(c)

\* The new comment is on its way and awaited, or there; so is an edit.  Nothing
\* that could change it again is under way once it is there.
PostingKept ==
    0 \in DOMAIN leave.kept =>
      \/ 0 \in leave.saving /\ posting.at = "sent" /\ posting.text = leave.kept[0]
      \/ (posting.at \in {"done", "read"} \/ 0 \notin leave.saving) /\ NewlyTold(leave.kept[0])

EditKept(k) ==
    \/ /\ k \in leave.saving /\ Own(k).do = "edit" /\ Own(k).text = leave.kept[k]
       /\ Own(k).at = "sent" \/ (Own(k).at = "read" /\ Told(k, leave.kept[k]))
    \/ k \notin leave.saving /\ Resting(k) /\ Told(k, leave.kept[k])

Keeps ==
    leave.at \in {"saving", "saved"} =>
      /\ leave.had \subseteq ever
      /\ PostingKept
      /\ \A k \in DOMAIN leave.kept \ {0} : EditKept(k)
      /\ leave.at = "saved" => leave.saving = {}

QuitIInv == ListIInv /\ Keeps

LEMMA KeptFacts ==
    ASSUME ListIInv
    PROVE  \A k \in DOMAIN leave.kept \ {0} : k \in Mine /\ k \in Ids /\ <<k, "own">> \in Handlers
<1>1. DOMAIN leave.kept \subseteq Composers
  BY DEF ListIInv, Questions
<1> QED BY <1>1, ThreadAssumption DEF Composers, Handlers

\* What a step must show while the drafts are being saved.
LEMMA KeptOn ==
    ASSUME ListIInv, Keeps, leave.at = "saving", UNCHANGED leave, ever \subseteq ever',
           posting'.at = posting.at, posting'.text = posting.text,
           \A c \in Mine : /\ Own(c)'.at = Own(c).at /\ Own(c)'.do = Own(c).do /\ Own(c)'.text = Own(c).text
                           /\ \A text : Told(c, text) => Told(c, text)'
    PROVE  Keeps'
<1>1. \A c \in Mine : Resting(c) => Resting(c)'
  BY DEF Resting
<1>2. PostingKept'
  BY <1>1 DEF Keeps, PostingKept, NewlyTold
<1>3. ASSUME NEW k \in DOMAIN leave.kept \ {0} PROVE EditKept(k)'
  <2>1. EditKept(k) /\ k \in Mine
    BY <1>3, KeptFacts DEF Keeps
  <2> QED BY <1>1, <2>1 DEF EditKept
<1> QED BY <1>2, <1>3 DEF Keeps

LEMMA ChangesKept ==
    ASSUME ListIInv, NEW c, handlers' = AllAged(handlers, c)
    PROVE  \A k \in Mine : Own(k)'.at = Own(k).at /\ Own(k)'.do = Own(k).do /\ Own(k)'.text = Own(k).text
<1>1. ASSUME NEW k \in Mine
      PROVE  Own(k)'.at = Own(k).at /\ Own(k)'.do = Own(k).do /\ Own(k)'.text = Own(k).text
  <2>1. <<k, "own">> \in Handlers
    BY ThreadAssumption DEF Handlers
  <2>2. Own(k)' = Aged(Own(k), c) /\ Own(k) \in Requests
    BY <2>1, AllAgedFacts DEF Own, ListIInv
  <2> QED BY <2>2, AgedFacts
<1> QED BY <1>1

LEMMA OthersKeepDrafts ==
    ASSUME ListIInv, Keeps, leave.at = "saving", OthersAct
    PROVE  Keeps'
<1>1. PICK c \in DOMAIN thread :
        /\ thread' \in ByOthers(c)
        /\ posting' = Aged(posting, c) /\ handlers' = AllAged(handlers, c)
        /\ UNCHANGED <<ever, leave>>
  BY DEF OthersAct
<1>2. thread \in FunctionsOn(CommentRows) /\ c \in Ids /\ thread[c] \in CommentRows /\ posting \in Requests
  BY FunctionsFacts DEF ListIInv, ThreadOK, PostingOK
<1>3. ASSUME NEW k \in Mine, NEW text, Told(k, text) PROVE Told(k, text)'
  <2>1. CASE \E v \in CommentRows : thread' = With(thread, c, v) /\ (c \in Mine => v.text = thread[c].text)
    <3>1. PICK v \in CommentRows : thread' = With(thread, c, v) /\ (c \in Mine => v.text = thread[c].text)
      BY <2>1
    <3>2. DOMAIN thread' = DOMAIN thread \cup {c} /\ thread'[c] = v /\ SameBut(thread, thread', c)
      BY <1>2, <3>1, RowsWith
    <3> QED BY <1>3, <3>1, <3>2 DEF Told, SameBut
  <2>2. CASE thread' = Without(thread, c) /\ c \notin Mine
    <3>1. DOMAIN thread' = DOMAIN thread \ {c} /\ SameBut(thread, thread', c)
      BY <1>2, <2>2, RowsWithout
    <3> QED BY <1>3, <2>2, <3>1 DEF Told, SameBut
  <2>3. \A t \in Texts : [thread[c] EXCEPT !.text = t] \in CommentRows
    BY <1>2 DEF CommentRows
  <2>4. /\ [thread[c] EXCEPT !.others = 1 - @] \in CommentRows
        /\ [thread[c] EXCEPT !.others = 1 - @].text = thread[c].text
    BY <1>2 DEF CommentRows
  <2> QED BY <1>1, <2>1, <2>2, <2>3, <2>4 DEF ByOthers
<1> QED BY <1>1, <1>2, <1>3, AgedFacts, ChangesKept, KeptOn

LEMMA CreateKeepsDrafts ==
    ASSUME ListIInv, Keeps, leave.at = "saving", CreateComment
    PROVE  Keeps'
<1>1. PICK c \in Mine \ ever :
        /\ ever' = ever \cup {c}
        /\ thread' = With(thread, c, Stored(posting.text, 0, "none"))
        /\ handlers' = AllAged(handlers, c)
        /\ posting' = [posting EXCEPT !.at = "done"]
        /\ UNCHANGED leave /\ posting.at = "sent"
  BY DEF CreateComment
<1>2. /\ thread \in FunctionsOn(CommentRows) /\ DOMAIN thread \subseteq ever /\ c \in Ids
      /\ posting \in Requests /\ posting.text \in Texts
  BY <1>1, ThreadAssumption DEF ListIInv, ThreadOK, PostingOK
<1>3. PICK v : v = Stored(posting.text, 0, "none")
  OBVIOUS
<1>4. v \in CommentRows /\ v.text = posting.text
  BY <1>2, <1>3 DEF Stored, CommentRows, Reactions
<1>5. DOMAIN thread' = DOMAIN thread \cup {c} /\ thread'[c] = v /\ SameBut(thread, thread', c)
  <2>1. thread' = With(thread, c, v)
    BY <1>1, <1>3
  <2> QED BY <1>2, <1>4, <2>1, RowsWith
<1>6. \A k \in Mine : \A text : Told(k, text) => Told(k, text)'
  BY <1>1, <1>2, <1>5 DEF Told, SameBut
<1>7. Told(c, posting.text)'
  <2>1. c \in DOMAIN thread' /\ thread'[c].text = posting.text
    BY <1>4, <1>5
  <2>2. posting'.text = posting.text
    BY <1>1, <1>2 DEF Requests
  <2> QED BY <2>1, <2>2 DEF Told
<1>8. \A k \in Mine : Resting(k) => Resting(k)'
  BY <1>1, ChangesKept DEF Resting
<1>9. Resting(c)'
  <2>1. <<c, "own">> \in Handlers
    BY <1>2 DEF Handlers
  <2>2. OwnOK(thread, ever, Own(c), c)
    BY <2>1 DEF ListIInv, HandlerOK, Own
  <2> QED BY <1>1, <1>8, <2>2 DEF OwnOK, Resting
<1>10. PostingKept'
  <2> SUFFICES ASSUME 0 \in DOMAIN leave'.kept
               PROVE  (posting'.at \in {"done", "read"} \/ 0 \notin leave'.saving) /\ NewlyTold(leave.kept[0])'
    BY DEF PostingKept
  <2>1. posting'.at = "done" /\ posting'.text = posting.text
    BY <1>1, <1>2 DEF Requests
  <2>2. CASE posting.text = leave.kept[0]
    <3>1. c \in Mine \ leave'.had
      BY <1>1 DEF Keeps
    <3>2. Told(c, leave.kept[0])'
      BY <1>1, <1>4, <1>5, <2>2 DEF Told
    <3> QED BY <1>9, <2>1, <3>1, <3>2 DEF NewlyTold
  <2>3. CASE NewlyTold(leave.kept[0])
    <3>1. PICK d \in Mine \ leave.had : Told(d, leave.kept[0]) /\ Resting(d)
      BY <2>3 DEF NewlyTold
    <3>2. Told(d, leave.kept[0])' /\ Resting(d)'
      BY <1>1, <1>6, <1>8, <3>1 DEF Told
    <3> QED BY <1>1, <2>1, <3>1, <3>2 DEF NewlyTold
  <2> QED BY <1>1, <2>2, <2>3 DEF Keeps, PostingKept
<1>11. ASSUME NEW k \in DOMAIN leave'.kept \ {0} PROVE EditKept(k)'
  <2>1. EditKept(k) /\ k \in Mine
    BY <1>1, KeptFacts DEF Keeps
  <2>2. Own(k)'.at = Own(k).at /\ Own(k)'.do = Own(k).do /\ Own(k)'.text = Own(k).text
    BY <1>1, <2>1, ChangesKept
  <2>3. Told(k, leave.kept[k]) => Told(k, leave.kept[k])'
    BY <1>1, <1>6, <2>1 DEF Told
  <2> QED BY <1>1, <1>8, <2>1, <2>2, <2>3 DEF EditKept
<1>12. leave'.had \subseteq ever' /\ leave'.at = "saving"
  BY <1>1 DEF Keeps
<1> QED BY <1>10, <1>11, <1>12 DEF Keeps

LEMMA ServeItemKeepsDrafts ==
    ASSUME ListIInv, Keeps, leave.at = "saving", NEW h \in Handlers, ServeItem(h)
    PROVE  Keeps'
<1>0. PICK c, p : c = h[1] /\ p = handlers[h]
  OBVIOUS
<1>1. /\ p.at = "sent" /\ c \in DOMAIN thread
      /\ thread' = Done(p, c)
      /\ handlers' = [AllAged(handlers, c) EXCEPT ![h] = [p EXCEPT !.at = "read", !.from = Answer(p, c)]]
      /\ posting' = Aged(posting, c)
      /\ UNCHANGED <<ever, leave>>
  BY <1>0 DEF ServeItem
<1>2. /\ c \in Ids /\ p \in Requests /\ HandlerOK(thread, ever, p, h) /\ posting \in Requests
      /\ h = <<c, h[2]>> /\ h[2] \in Thumbs \cup {"own"}
  BY <1>0 DEF ListIInv, PostingOK, Handlers
<1>3. /\ DOMAIN thread' = IF p.do = "delete" THEN DOMAIN thread \ {c} ELSE DOMAIN thread
      /\ SameBut(thread, thread', c)
      /\ p.do = "edit" => thread'[c].text = p.text
      /\ p.do = "react" => thread'[c].text = thread[c].text
  BY <1>0, <1>1, DoneFacts
<1>4. posting'.at = posting.at /\ posting'.text = posting.text
  BY <1>1, <1>2, AgedFacts
<1>5. ASSUME NEW k \in Mine, <<k, "own">> # h
      PROVE  Own(k)'.at = Own(k).at /\ Own(k)'.do = Own(k).do /\ Own(k)'.text = Own(k).text
  <2>1. <<k, "own">> \in Handlers
    BY ThreadAssumption DEF Handlers
  <2>2. AllAged(handlers, c) \in [Handlers -> Requests] /\ AllAged(handlers, c)[<<k, "own">>] = Aged(Own(k), c)
    BY <2>1, AllAgedFacts DEF ListIInv, Own
  <2>3. Own(k)' = Aged(Own(k), c) /\ Own(k) \in Requests
    BY <1>1, <1>5, <2>1, <2>2 DEF Own, ListIInv
  <2> QED BY <2>3, AgedFacts
\* A thumb leaves the text as it was; and who rests is not what is served.
<1>6. ASSUME NEW k \in Mine, <<k, "own">> # h, NEW text, Told(k, text) PROVE Told(k, text)'
  <2>1. CASE k = c
    <3>1. p.do = "react"
      BY <1>1, <1>2, <1>6, <2>1 DEF HandlerOK, ThumbOK, OwnOK
    <3> QED BY <1>3, <1>6, <2>1, <3>1 DEF Told
  <2>2. CASE k # c
    BY <1>3, <1>6, <2>2 DEF Told, SameBut
  <2> QED BY <2>1, <2>2
<1>7. ASSUME NEW k \in Mine, Resting(k) PROVE <<k, "own">> # h
  BY <1>0, <1>1, <1>7 DEF Resting, Own
<1>8. PostingKept'
  <2>1. \A text : NewlyTold(text) => NewlyTold(text)'
    <3> SUFFICES ASSUME NEW text, NewlyTold(text) PROVE NewlyTold(text)'
      OBVIOUS
    <3>1. PICK d \in Mine \ leave.had : Told(d, text) /\ Resting(d)
      BY DEF NewlyTold
    <3>2. Told(d, text)' /\ Resting(d)'
      BY <1>5, <1>6, <1>7, <3>1 DEF Resting
    <3> QED BY <1>1, <3>1, <3>2 DEF NewlyTold
  <2> QED BY <1>1, <1>4, <2>1 DEF Keeps, PostingKept
<1>9. ASSUME NEW k \in DOMAIN leave'.kept \ {0} PROVE EditKept(k)'
  <2>1. EditKept(k) /\ k \in Mine /\ <<k, "own">> \in Handlers
    BY <1>1, <1>9, KeptFacts DEF Keeps
  <2>2. CASE <<k, "own">> # h
    <3>1. Own(k)'.at = Own(k).at /\ Own(k)'.do = Own(k).do /\ Own(k)'.text = Own(k).text
      BY <1>5, <2>1, <2>2
    <3>2. Told(k, leave.kept[k]) => Told(k, leave.kept[k])'
      BY <1>1, <1>6, <2>1, <2>2 DEF Told
    <3> QED BY <1>1, <2>1, <3>1, <3>2 DEF EditKept, Resting
  <2>3. CASE <<k, "own">> = h
    <3>1. c = k /\ Own(k) = p
      BY <1>0, <2>3 DEF Own
    <3>2. k \in leave.saving /\ p.do = "edit" /\ p.text = leave.kept[k]
      BY <1>1, <2>1, <3>1 DEF EditKept, Resting
    <3>3. PICK q : q = [p EXCEPT !.at = "read", !.from = Answer(p, c)]
      OBVIOUS
    <3>4. q.at = "read" /\ q.do = p.do /\ q.text = p.text
      BY <1>2, <3>3 DEF Requests
    <3>5. AllAged(handlers, c) \in [Handlers -> Requests]
      BY AllAgedFacts DEF ListIInv
    <3>6. Own(k)' = q
      BY <1>1, <2>3, <3>3, <3>5 DEF Own
    <3>7. Told(k, leave.kept[k])'
      BY <1>1, <1>3, <3>1, <3>2 DEF Told
    <3> QED BY <1>1, <3>2, <3>4, <3>6, <3>7 DEF EditKept
  <2> QED BY <2>2, <2>3
<1> QED BY <1>1, <1>8, <1>9 DEF Keeps

LEMMA ShowItemKeepsDrafts ==
    ASSUME ListIInv, Keeps, leave.at = "saving", NEW h \in Handlers, ShowItem(h) \/ LoseItem(h)
    PROVE  Keeps'
<1>0. PICK c, p : c = h[1] /\ p = handlers[h]
  OBVIOUS
<1>1. /\ p.at # "idle" /\ (ShowItem(h) => p.at = "read")
      /\ handlers' = [handlers EXCEPT ![h] = AtRest]
      /\ UNCHANGED <<thread, ever, posting>>
      /\ ShowItem(h) => leave' = IF p.do = "edit" THEN Succeeded(c) ELSE leave
      /\ LoseItem(h) => leave' = IF p.do = "edit" THEN Failed(c) ELSE leave
  BY <1>0 DEF ShowItem, LoseItem
<1>2. /\ c \in Ids /\ c # 0 /\ HandlerOK(thread, ever, p, h) /\ leave \in Questions
      /\ h = <<c, h[2]>> /\ h[2] \in Thumbs \cup {"own"}
  <2>1. c \in Ids /\ h = <<c, h[2]>> /\ h[2] \in Thumbs \cup {"own"}
    BY <1>0 DEF Handlers
  <2>2. c # 0
    BY <2>1, ThreadAssumption
  <2> QED BY <1>0, <2>1, <2>2 DEF ListIInv
<1>3. p.do = "edit" => h = <<c, "own">> /\ Own(c) = p
  BY <1>0, <1>1, <1>2 DEF HandlerOK, ThumbOK, Own
<1>4. ASSUME NEW k \in Mine
      PROVE  /\ <<k, "own">> # h => Own(k)' = Own(k)
             /\ Resting(k) => Resting(k)'
             /\ <<k, "own">> = h => Own(k) = p /\ c = k /\ Resting(k)'
  <2>1. <<k, "own">> \in Handlers
    BY ThreadAssumption DEF Handlers
  <2>2. AtRest.at = "idle" /\ handlers \in [Handlers -> Requests]
    BY AtRestFacts DEF ListIInv
  <2>3. Own(k)' = IF <<k, "own">> = h THEN AtRest ELSE Own(k)
    BY <1>1, <2>1, <2>2 DEF Own
  <2> QED BY <1>0, <2>2, <2>3 DEF Resting, Own
<1>5. \A k, text : Told(k, text) => Told(k, text)'
  BY <1>1 DEF Told
<1>6. \A text : leave'.had = leave.had /\ NewlyTold(text) => NewlyTold(text)'
  BY <1>4, <1>5 DEF NewlyTold
<1>7. CASE LoseItem(h) /\ p.do = "edit" /\ c \in leave.saving
  BY <1>1, <1>7 DEF Failed, Keeps, Stay
<1>8. CASE /\ ~(LoseItem(h) /\ p.do = "edit" /\ c \in leave.saving)
           /\ ~(ShowItem(h) /\ p.do = "edit")
  <2>1. leave' = leave
    BY <1>1, <1>8 DEF Failed
  <2>2. PostingKept'
    BY <1>1, <1>6, <2>1 DEF Keeps, PostingKept
  <2>3. ASSUME NEW k \in DOMAIN leave'.kept \ {0} PROVE EditKept(k)'
    <3>1. EditKept(k) /\ k \in Mine
      BY <2>1, <2>3, KeptFacts DEF Keeps
    <3>2. <<k, "own">> # h
      BY <1>1, <1>4, <1>8, <3>1 DEF EditKept, Resting
    <3> QED BY <1>4, <1>5, <2>1, <3>1, <3>2 DEF EditKept
  <2> QED BY <1>1, <2>1, <2>2, <2>3 DEF Keeps
\* The answer to an edit: it has been told, and nothing else is under way.
<1>9. CASE ShowItem(h) /\ p.do = "edit"
  <2>1. /\ leave'.at = leave.at /\ leave'.had = leave.had /\ leave'.kept = leave.kept
        /\ leave'.saving = leave.saving \ {c}
    BY <1>1, <1>2, <1>9 DEF Succeeded, Questions
  <2>2. PostingKept'
    <3>1. 0 \in leave'.saving <=> 0 \in leave.saving
      BY <1>2, <2>1
    <3> QED BY <1>1, <1>6, <2>1, <3>1 DEF Keeps, PostingKept
  <2>3. ASSUME NEW k \in DOMAIN leave'.kept \ {0} PROVE EditKept(k)'
    <3>1. EditKept(k) /\ k \in Mine
      BY <2>1, <2>3, KeptFacts DEF Keeps
    <3>2. CASE k = c
      BY <1>1, <1>3, <1>4, <1>5, <1>9, <2>1, <3>1, <3>2 DEF EditKept, Resting
    <3>3. CASE k # c
      BY <1>3, <1>4, <1>5, <1>9, <2>1, <3>1, <3>3 DEF EditKept
    <3> QED BY <3>2, <3>3
  <2> QED BY <1>1, <2>1, <2>2, <2>3 DEF Keeps
<1> QED BY <1>7, <1>8, <1>9

LEMMA ComposerKeepsDrafts ==
    ASSUME ListIInv, Keeps, leave.at = "saving", ListAgain \/ ShowAdded \/ LoseAdd
    PROVE  Keeps'
<1>1. posting \in Requests /\ leave \in Questions /\ AtRest.at = "idle"
  BY AtRestFacts DEF ListIInv, PostingOK
<1>2. UNCHANGED <<thread, ever, handlers>>
  BY DEF ListAgain, ShowAdded, LoseAdd
<1>3. /\ \A text : leave'.had = leave.had => (NewlyTold(text) <=> NewlyTold(text)')
      /\ \A k : Own(k)' = Own(k) /\ (Resting(k) <=> Resting(k)') /\ \A text : Told(k, text) <=> Told(k, text)'
  BY <1>2 DEF NewlyTold, Told, Resting, Own
<1>4. CASE ListAgain
  <2>1. posting.at = "done" /\ posting'.at = "read" /\ leave' = leave
    BY <1>1, <1>4 DEF ListAgain, Requests
  <2>2. PostingKept'
    BY <1>3, <2>1 DEF Keeps, PostingKept
  <2>3. \A k \in DOMAIN leave'.kept \ {0} : EditKept(k)'
    BY <1>3, <2>1 DEF Keeps, EditKept
  <2> QED BY <1>2, <2>1, <2>2, <2>3 DEF Keeps
<1>5. CASE ShowAdded
  <2>1. /\ leave'.at = leave.at /\ leave'.had = leave.had /\ leave'.kept = leave.kept
        /\ leave'.saving = leave.saving \ {0} /\ posting.at = "read"
    BY <1>1, <1>5 DEF ShowAdded, Succeeded, Questions
  <2>2. PostingKept'
    BY <1>3, <2>1 DEF Keeps, PostingKept
  <2>3. \A k \in DOMAIN leave'.kept \ {0} : EditKept(k)'
    BY <1>3, <2>1 DEF Keeps, EditKept
  <2> QED BY <1>2, <2>1, <2>2, <2>3 DEF Keeps
<1>6. CASE LoseAdd /\ 0 \in leave.saving
  BY <1>6 DEF LoseAdd, Failed, Stay, Keeps
<1>7. CASE LoseAdd /\ 0 \notin leave.saving
  <2>1. leave' = leave
    BY <1>7 DEF LoseAdd, Failed
  <2>2. PostingKept'
    BY <1>3, <1>7, <2>1 DEF Keeps, PostingKept
  <2>3. \A k \in DOMAIN leave'.kept \ {0} : EditKept(k)'
    BY <1>3, <2>1 DEF Keeps, EditKept
  <2> QED BY <1>2, <2>1, <2>2, <2>3 DEF Keeps
<1> QED BY <1>4, <1>5, <1>6, <1>7

LEMMA SaveAllKeepsDrafts ==
    ASSUME ListIInv, SaveAll
    PROVE  Keeps'
<1>1. PICK S : S = {k \in Composers : Submitted(k)}
  OBVIOUS
<1>2. /\ leave' = [at |-> "saving", saving |-> S, had |-> DOMAIN thread, kept |-> [k \in S |-> drafts[k]]]
      /\ posting' = IF 0 \in S THEN Posting ELSE posting
      /\ handlers' = [h \in Handlers |-> IF h[2] = "own" /\ h[1] \in S THEN Editing(h[1]) ELSE handlers[h]]
      /\ UNCHANGED <<thread, ever>>
  BY <1>1 DEF SaveAll
<1>3. /\ leave'.at = "saving" /\ leave'.saving = S /\ leave'.had = DOMAIN thread
      /\ DOMAIN leave'.kept = S /\ \A k \in S : leave'.kept[k] = drafts[k]
  BY <1>2
<1>4. PostingKept'
  BY <1>1, <1>2, <1>3, SubmittedFacts DEF PostingKept
<1>5. ASSUME NEW k \in S \ {0} PROVE EditKept(k)'
  <2>1. k \in Mine /\ Submitted(k) /\ <<k, "own">> \in Handlers
    BY <1>1, ThreadAssumption DEF Composers, Handlers
  <2>2. Own(k)' = Editing(k)
    BY <1>2, <2>1 DEF Own
  <2>3. /\ Editing(k).at = "sent" /\ Editing(k).do = "edit" /\ Editing(k).text = drafts[k]
    BY <2>1, SubmittedFacts
  <2>4. k \in leave'.saving /\ leave'.kept[k] = drafts[k]
    BY <1>3
  <2> QED BY <2>2, <2>3, <2>4 DEF EditKept
<1> QED BY <1>2, <1>3, <1>4, <1>5 DEF Keeps, ListIInv, ThreadOK

LEMMA QuitInvariance == ThreadSpec => []QuitIInv
<1>1. ThreadInit => Keeps
  <2>1. Stay.at = "no"
    BY DEF Stay
  <2> QED BY <2>1 DEF ThreadInit, Keeps
<1>2. ListIInv /\ Keeps /\ [ThreadNext]_threadVars => Keeps'
  <2> SUFFICES ASSUME ListIInv, Keeps, [ThreadNext]_threadVars PROVE Keeps'
    OBVIOUS
  <2>1. CASE UNCHANGED threadVars
    BY <2>1 DEF threadVars, Keeps, PostingKept, EditKept, NewlyTold, Told, Resting, Own
  <2>2. CASE ThreadNext /\ leave.at # "saving"
    <3>1. CASE SaveAll
      BY <3>1, SaveAllKeepsDrafts
    <3>2. CASE leave'.at \notin {"saving", "saved"}
      BY <3>2 DEF Keeps
    <3>3. ASSUME ~SaveAll PROVE leave'.at \notin {"saving", "saved"}
      <4>1. \A k : Succeeded(k).at = leave.at
        BY DEF Succeeded, ListIInv, Questions
      <4>2. \A k : Failed(k).at \in {leave.at, "blocked"}
        BY DEF Failed, Stay
      <4>3. [leave EXCEPT !.at = "blocked"].at = "blocked"
        BY DEF ListIInv, Questions
      <4>4. \A choice \in {"quit", "no"} : [Stay EXCEPT !.at = choice].at = choice
        BY DEF Stay
      <4>5. leave.at \notin {"saving", "saved"}
        BY <2>2 DEF ThreadNext
      <4>6. CASE leave' = leave
        BY <4>5, <4>6
      <4>7. CASE Leave \/ ShowAdded \/ LoseAdd \/ \E choice \in {"quit", "no"} : Answers(choice)
        <5>1. CASE Leave
          BY <4>3, <5>1 DEF Leave
        <5>2. CASE ShowAdded \/ LoseAdd
          <6>1. leave' \in {Succeeded(0), Failed(0)}
            BY <5>2 DEF ShowAdded, LoseAdd
          <6> QED BY <4>1, <4>2, <4>5, <6>1
        <5>3. CASE \E choice \in {"quit", "no"} : Answers(choice)
          BY <4>4, <5>3 DEF Answers
        <5> QED BY <4>7, <5>1, <5>2, <5>3
      <4>8. ASSUME NEW h \in Handlers, ShowItem(h) \/ LoseItem(h) PROVE leave'.at \notin {"saving", "saved"}
        <5>1. leave' \in {leave, Succeeded(h[1]), Failed(h[1])}
          BY <4>8 DEF ShowItem, LoseItem
        <5> QED BY <4>1, <4>2, <4>5, <5>1
      <4>9. ~Proceed
        BY <2>2 DEF Proceed
      <4>10. /\ OthersAct \/ ServeList \/ ShowList \/ LoseList \/ HandleAdd \/ CreateComment \/ ListAgain => leave' = leave
             /\ \A s : SelectSort(s) => leave' = leave
        BY DEF OthersAct, ServeList, ShowList, LoseList, HandleAdd, CreateComment, ListAgain, SelectSort
      <4>11. \A k, t : Type(k, t) \/ Discard(k) \/ HandleEdit(k) \/ HandleDelete(k) \/ ServeItem(k) => leave' = leave
        BY DEF Type, Discard, HandleEdit, HandleDelete, ServeItem
      <4>12. \A c, k : React(c, k) => leave' = leave
        BY DEF React
      <4>13. CASE \E h \in Handlers : ServeItem(h) \/ ShowItem(h) \/ LoseItem(h)
        BY <4>6, <4>8, <4>11, <4>13
      <4>14. CASE \E k \in Composers : Discard(k) \/ \E t \in Texts : Type(k, t)
        BY <4>6, <4>11, <4>14
      <4>15. CASE \E c \in Mine : HandleEdit(c) \/ HandleDelete(c)
        BY <4>6, <4>11, <4>15
      <4>16. CASE \E c \in Ids, k \in Thumbs : React(c, k)
        BY <4>6, <4>12, <4>16
      <4>17. CASE \E s \in Sorts : SelectSort(s)
        BY <4>6, <4>10, <4>17
      <4> QED BY <2>2, <3>3, <4>6, <4>7, <4>9, <4>10, <4>13, <4>14, <4>15, <4>16, <4>17 DEF ThreadNext
    <3> QED BY <3>1, <3>2, <3>3
  <2>3. CASE ThreadNext /\ leave.at = "saving"
    <3>1. ~(Leave \/ SaveAll \/ HandleAdd \/ \E choice \in {"quit", "no"} : Answers(choice))
      BY <2>3 DEF Leave, SaveAll, HandleAdd, Answers, Act, AtPage
    <3>2. /\ \A s \in Sorts : ~SelectSort(s)
          /\ \A k \in Composers : ~Discard(k) /\ \A t \in Texts : ~Type(k, t)
          /\ \A c \in Ids, k \in Thumbs : ~React(c, k)
          /\ \A c \in Mine : ~HandleEdit(c) /\ ~HandleDelete(c)
      BY <2>3 DEF SelectSort, Discard, Type, React, HandleEdit, HandleDelete, Act, AtPage
    <3>3. CASE ServeList \/ ShowList \/ LoseList
      BY <2>3, <3>3, KeptOn DEF ServeList, ShowList, LoseList, Own, Told
    <3>4. CASE Proceed
      <4>1. /\ leave'.at = "saved" /\ leave'.saving = {} /\ leave.saving = {}
            /\ leave'.had = leave.had /\ leave'.kept = leave.kept
            /\ UNCHANGED <<thread, ever, posting, handlers>>
        BY <3>4 DEF Proceed, ListIInv, Questions
      <4> QED BY <2>3, <4>1 DEF Keeps, PostingKept, EditKept, NewlyTold, Told, Resting, Own
    <3> QED BY <2>3, <3>1, <3>2, <3>3, <3>4, OthersKeepDrafts, CreateKeepsDrafts, ServeItemKeepsDrafts,
            ShowItemKeepsDrafts, ComposerKeepsDrafts DEF ThreadNext
  <2> QED BY <2>1, <2>2, <2>3
<1> QED BY <1>1, <1>2, ListInvariance, PTL DEF ThreadSpec, QuitIInv

\* For any comments, drafts and texts, and however the saves overlap, are late or
\* fail: whoever has left by Save & quit finds on the server each draft it took,
\* the new comment among those there were not, and each edit in its own comment.
THEOREM QuitLosesNoDraft == ThreadSpec => []QuitKeepsDrafts
<1>1. QuitIInv => QuitKeepsDrafts
  <2> SUFFICES ASSUME ListIInv, Keeps, leave.at = "saved", NEW k \in DOMAIN leave.kept
               PROVE  \E c \in (IF k = 0 THEN Mine \ leave.had ELSE {k}) \cap DOMAIN thread :
                         thread[c].text = leave.kept[k]
    BY DEF QuitIInv, QuitKeepsDrafts
  <2>1. leave.saving = {}
    BY DEF Keeps
  <2>2. CASE k = 0
    BY <2>1, <2>2 DEF Keeps, PostingKept, NewlyTold, Told
  <2>3. CASE k # 0
    BY <2>1, <2>3 DEF Keeps, EditKept, Told
  <2> QED BY <2>2, <2>3
<1> QED BY <1>1, QuitInvariance, PTL

----------------------------------------------------------------------------
(* HomeFeed: what get_feed gives *)

\* Every event is before now.
LEMMA TimeType == \A e \in Events : Time[e] \in Nat /\ Time[e] < Now /\ Category[e] \in Categories
<1> TAKE e \in Events
<1>1. Time[e] \in 0..(Now - 1) /\ Category[e] \in Categories
  BY FeedAssumption
<1> QED BY <1>1, SMTT(60) DEF Now

\* Later is a strict total order of the events.
LEMMA LaterOrder ==
    /\ \A e, f \in Events : e = f \/ Later(e, f) \/ Later(f, e)
    /\ \A e, f \in Events : Later(e, f) => ~Later(f, e) /\ e # f
    /\ \A e, f, g \in Events : Later(e, f) /\ Later(f, g) => Later(e, g)
<1>1. \A e, f \in Events : Time[e] = Time[f] => e = f
  BY FeedAssumption
<1>2. \A e \in Events : Time[e] \in Nat
  BY TimeType
<1>3. \A e, f \in Events : e = f \/ Later(e, f) \/ Later(f, e)
  BY <1>1, <1>2 DEF Later
<1>4. \A e, f \in Events : Later(e, f) => ~Later(f, e) /\ e # f
  BY <1>2 DEF Later
<1>5. \A e, f, g \in Events : Later(e, f) /\ Later(f, g) => Later(e, g)
  BY <1>2 DEF Later
<1> QED BY <1>3, <1>4, <1>5

\* Sets of events can be counted.
LEMMA Finite == ASSUME NEW S, S \subseteq Events
                PROVE  IsFiniteSet(S) /\ Cardinality(S) \in Nat
<1>1. IsFiniteSet(Events)
  BY FeedAssumption
<1>2. IsFiniteSet(S)
  BY <1>1, FS_Subset
<1> QED BY <1>2, FS_CardinalityType

\* An element of S comes after fewer than there are.
LEMMA RankType ==
    ASSUME NEW S, S \subseteq Events, NEW e \in S
    PROVE  Rank(S, e) \in 0..(Cardinality(S) - 1)
<1> DEFINE B == {f \in S : Later(f, e)}
<1>1. IsFiniteSet(S) /\ Cardinality(S) \in Nat
  BY Finite
<1>2. e \notin B
  BY LaterOrder
<1>3. IsFiniteSet(B) /\ Cardinality(B) <= Cardinality(S) /\ (Cardinality(S) = Cardinality(B) => S = B)
  BY <1>1, FS_Subset
<1>4. Cardinality(B) \in Nat
  BY <1>3, FS_CardinalityType
<1>5. Cardinality(B) # Cardinality(S)
  BY <1>2, <1>3
<1>6. Cardinality(B) \in 0..(Cardinality(S) - 1)
  BY <1>1, <1>3, <1>4, <1>5
<1> QED BY <1>6 DEF Rank

\* The older of two has the greater rank.
LEMMA RankMonotone ==
    ASSUME NEW S, S \subseteq Events, NEW e \in S, NEW f \in S, Later(e, f)
    PROVE  Rank(S, e) < Rank(S, f)
<1> DEFINE B == {g \in S : Later(g, e)}
           C == {g \in S : Later(g, f)}
<1>1. B \subseteq C /\ e \in C /\ e \notin B
  BY LaterOrder
<1>2. IsFiniteSet(C) /\ Cardinality(C) \in Nat
  BY Finite
<1>3. IsFiniteSet(B) /\ Cardinality(B) \in Nat
  BY Finite
<1>4. Cardinality(B) <= Cardinality(C) /\ (Cardinality(C) = Cardinality(B) => C = B)
  BY <1>1, <1>2, FS_Subset
<1>5. Cardinality(B) < Cardinality(C)
  BY <1>1, <1>2, <1>3, <1>4
<1> QED BY <1>5 DEF Rank

\* The ranks order S as Later does, and tell its elements apart.
LEMMA RankOrder ==
    ASSUME NEW S, S \subseteq Events, NEW e \in S, NEW f \in S
    PROVE  /\ Later(e, f) <=> Rank(S, e) < Rank(S, f)
           /\ Rank(S, e) = Rank(S, f) => e = f
<1>1. Later(e, f) => Rank(S, e) < Rank(S, f)
  BY RankMonotone
<1>2. Later(f, e) => Rank(S, f) < Rank(S, e)
  BY RankMonotone
<1>3. e = f \/ Later(e, f) \/ Later(f, e)
  BY LaterOrder
<1>4. e = f => ~Later(e, f) /\ Rank(S, e) = Rank(S, f)
  BY LaterOrder
<1>5. Rank(S, e) \in Int /\ Rank(S, f) \in Int
  <2>1. Rank(S, e) \in 0..(Cardinality(S) - 1)
    BY RankType
  <2>2. Rank(S, f) \in 0..(Cardinality(S) - 1)
    BY RankType
  <2> QED BY <2>1, <2>2
<1> HIDE DEF Rank
<1> QED BY <1>1, <1>2, <1>3, <1>4, <1>5

\* Each rank is taken: else two would share one of the rest.
LEMMA RankOnto ==
    ASSUME NEW S, S \subseteq Events, NEW k \in 0..(Cardinality(S) - 1)
    PROVE  \E e \in S : Rank(S, e) = k
<1> DEFINE n == Cardinality(S)
           T == (0..(n - 1)) \ {k}
           f == [e \in S |-> Rank(S, e)]
<1>1. IsFiniteSet(S) /\ n \in Nat
  BY Finite
<1> SUFFICES ASSUME \A e \in S : Rank(S, e) # k PROVE FALSE
  OBVIOUS
<1> HIDE DEF n
<1>2. IsFiniteSet(0..(n - 1)) /\ Cardinality(0..(n - 1)) = IF 0 > n - 1 THEN 0 ELSE n - 1 - 0 + 1
  BY <1>1, FS_Interval
<1>3. k \in 0..(n - 1)
  BY DEF n
<1>4. IsFiniteSet(T) /\ Cardinality(T) = Cardinality(0..(n - 1)) - 1
  BY <1>2, <1>3, FS_RemoveElement
<1>5. Cardinality(T) < n
  BY <1>1, <1>2, <1>3, <1>4
<1>6. \A e \in S : Rank(S, e) \in 0..(n - 1)
  BY RankType DEF n
<1>7. f \in [S -> T]
  BY <1>6
<1>8. \E x, y \in S : x # y /\ f[x] = f[y]
  <2> HIDE DEF f, T
  <2> QED BY <1>1, <1>4, <1>5, <1>7, FS_PigeonHole DEF n
<1>9. PICK x \in S, y \in S : x # y /\ Rank(S, x) = Rank(S, y)
  BY <1>8
<1> QED BY <1>9, RankOrder

\* A page holds no more than there is, and no more than Limit.
LEMMA SizeType ==
    ASSUME NEW S, S \subseteq Events
    PROVE  PageSize(S) \in Nat /\ PageSize(S) <= Cardinality(S) /\ PageSize(S) <= Limit /\ Limit \in Nat /\ Limit > 0
<1>1. Cardinality(S) \in Nat
  BY Finite
<1>2. Limit \in Nat \ {0}
  BY FeedAssumption
<1> QED BY <1>1, <1>2 DEF PageSize

\* The i-th of a page is the one that i - 1 come before.
LEMMA NewestRank ==
    ASSUME NEW S, S \subseteq Events
    PROVE  /\ Newest(S) \in [1..PageSize(S) -> S]
           /\ \A i \in 1..PageSize(S) : Newest(S)[i] \in S /\ Rank(S, Newest(S)[i]) = i - 1
<1>1. PageSize(S) \in Nat /\ PageSize(S) <= Cardinality(S) /\ Cardinality(S) \in Nat
  BY SizeType, Finite
<1>2. Newest(S) = [i \in 1..PageSize(S) |-> CHOOSE e \in S : Rank(S, e) = i - 1]
  <2> DEFINE c(i) == CHOOSE e \in S : Rank(S, e) = i - 1
  <2> HIDE DEF c
  <2>1. SubSeq([i \in 1..Cardinality(S) |-> c(i)], 1, PageSize(S)) = [i \in 1..PageSize(S) |-> c(i)]
    BY <1>1
  <2>2. Newest(S) = SubSeq([i \in 1..Cardinality(S) |-> c(i)], 1, PageSize(S))
    BY DEF Newest, Sorted, c
  <2> QED BY <2>1, <2>2 DEF c
<1>3. \A i \in 1..PageSize(S) : Newest(S)[i] \in S /\ Rank(S, Newest(S)[i]) = i - 1
  <2> TAKE i \in 1..PageSize(S)
  <2>1. i - 1 \in 0..(Cardinality(S) - 1)
    BY <1>1
  <2>2. \E e \in S : Rank(S, e) = i - 1
    BY <2>1, RankOnto
  <2>3. Newest(S)[i] = CHOOSE e \in S : Rank(S, e) = i - 1
    BY <1>2
  <2> HIDE DEF Rank
  <2> QED BY <2>2, <2>3
<1> QED BY <1>2, <1>3

\* ORDER BY and LIMIT: a page is in order, and what it leaves out comes after
\* the Limit that it holds.
LEMMA NewestFacts ==
    ASSUME NEW S, S \subseteq Events
    PROVE  /\ Newest(S) \in Seq(S) /\ Len(Newest(S)) = PageSize(S) /\ PageSize(S) \in Nat
           /\ \A i, j \in 1..PageSize(S) : i < j => Later(Newest(S)[i], Newest(S)[j])
           /\ \A e \in S : e \in ToSet(Newest(S)) \/ (PageSize(S) = Limit /\ Rank(S, e) >= Limit)
<1> DEFINE s == Newest(S)
<1>1. PageSize(S) \in Nat /\ PageSize(S) <= Cardinality(S) /\ Cardinality(S) \in Nat /\ Limit \in Nat
  BY SizeType, Finite
<1>2. s \in [1..PageSize(S) -> S]
  BY NewestRank
<1>3. \A i \in 1..PageSize(S) : s[i] \in S /\ Rank(S, s[i]) = i - 1
  BY NewestRank
<1> HIDE DEF s
<1>4. s \in Seq(S) /\ Len(s) = PageSize(S)
  BY <1>1, <1>2
<1>5. \A i, j \in 1..PageSize(S) : i < j => Later(s[i], s[j])
  <2> TAKE i, j \in 1..PageSize(S)
  <2> HAVE i < j
  <2>1. Rank(S, s[i]) < Rank(S, s[j])
    <3> HIDE DEF Rank
    <3> QED BY <1>1, <1>3
  <2> QED BY <2>1, <1>3, RankOrder
<1>6. \A e \in S : e \in ToSet(s) \/ (PageSize(S) = Limit /\ Rank(S, e) >= Limit)
  <2> TAKE e \in S
  <2> DEFINE r == Rank(S, e)
  <2>1. r \in 0..(Cardinality(S) - 1)
    BY RankType
  <2>2. CASE r < PageSize(S)
    <3>1. r + 1 \in 1..PageSize(S) /\ (r + 1) - 1 = r
      BY <1>1, <2>1, <2>2
    <3>2. s[r + 1] \in S /\ Rank(S, s[r + 1]) = r
      BY <1>3, <3>1
    <3>3. s[r + 1] = e
      BY <3>2, RankOrder
    <3>4. r + 1 \in DOMAIN s
      BY <1>2, <3>1
    <3> QED BY <3>3, <3>4 DEF ToSet
  <2>3. CASE ~(r < PageSize(S))
    <3>1. r \in Int /\ r < Cardinality(S) /\ r >= PageSize(S)
      BY <1>1, <2>1, <2>3
    <3> HIDE DEF r
    <3>2. PageSize(S) = Limit
      BY <1>1, <3>1 DEF PageSize
    <3> QED BY <3>1, <3>2 DEF r
  <2> QED BY <2>2, <2>3
<1> QED BY <1>1, <1>4, <1>5, <1>6 DEF s

\* The set of what a sequence holds.
LEMMA ToSetFact == ASSUME NEW S, NEW s \in Seq(S)
                   PROVE  ToSet(s) = {s[i] : i \in 1..Len(s)} /\ ToSet(s) \subseteq S
BY DEF ToSet

Cutoff(before) == IF before = None THEN Now ELSE before
Below(E, types, before) == {e \in E : Category[e] \in types /\ Time[e] < Cutoff(before)}

\* A page p of the categories types, older than before, is sorted and goes
\* down to its cursor; all of the events E that it could show down to there
\* are on it.
InOrder(s) == \A i, j \in 1..Len(s) : i < j => Later(s[i], s[j])
PageRight(p, types, before) ==
    /\ p.items \in Seq(Events) /\ p.next \in Nat
    /\ InOrder(p.items)
    /\ \A i \in 1..Len(p.items) :
         /\ p.items[i] \in Events /\ Category[p.items[i]] \in types
         /\ Time[p.items[i]] < Cutoff(before) /\ Time[p.items[i]] >= p.next
    /\ p.next # None => p.next < Cutoff(before)
Covers(p, E, types, before) ==
    \A e \in Below(E, types, before) : Time[e] >= p.next => e \in ToSet(p.items)

\* A source gives rows of its category below the cutoff; whatever it does not
\* give, it gives Limit later ones.
LEMMA SourceFacts ==
    ASSUME Private = {}, NEW c \in Categories, NEW cutoff \in Nat, events \subseteq Events
    PROVE  /\ Source(c, cutoff) \subseteq {x \in events : Category[x] = c /\ Time[x] < cutoff}
           /\ \A e \in {x \in events : Category[x] = c /\ Time[x] < cutoff} :
                e \in Source(c, cutoff)
                  \/ \E T : T \subseteq Source(c, cutoff) /\ Cardinality(T) = Limit /\ \A f \in T : Later(f, e)
<1> DEFINE R == {x \in events : Category[x] = c /\ Time[x] < cutoff}
           s == Newest(R)
<1>1. R \subseteq Events
  OBVIOUS
<1>2. Source(c, cutoff) = ToSet(s)
  BY DEF Source, Shown
<1>3. /\ s \in Seq(R) /\ Len(s) = PageSize(R) /\ PageSize(R) \in Nat
      /\ \A e \in R : e \in ToSet(s) \/ (PageSize(R) = Limit /\ Rank(R, e) >= Limit)
  <2> HIDE DEF R
  <2> QED BY <1>1, NewestFacts
<1>4. ToSet(s) = {s[i] : i \in 1..Len(s)} /\ ToSet(s) \subseteq R
  BY <1>3, ToSetFact
<1>5. ASSUME NEW e \in R, e \notin ToSet(s)
      PROVE  Cardinality(ToSet(s)) = Limit /\ \A f \in ToSet(s) : Later(f, e)
  <2>1. PageSize(R) = Limit /\ Rank(R, e) >= Limit /\ Limit \in Nat
    BY <1>3, <1>5, FeedAssumption
  <2>2. \A i \in 1..PageSize(R) : s[i] \in R /\ Rank(R, s[i]) = i - 1
    <3> HIDE DEF R
    <3> QED BY <1>1, NewestRank
  <2>3. Rank(R, e) \in Int
    <3>1. Rank(R, e) \in 0..(Cardinality(R) - 1)
      <4> HIDE DEF R
      <4> QED BY <1>1, <1>5, RankType
    <3> QED BY <3>1
  <2> HIDE DEF R, s
  <2>4. \A i \in 1..Limit : Later(s[i], e)
    <3> TAKE i \in 1..Limit
    <3>1. s[i] \in R /\ Rank(R, s[i]) = i - 1
      BY <2>1, <2>2
    <3>2. Rank(R, s[i]) < Rank(R, e)
      <4> HIDE DEF Rank
      <4> QED BY <2>1, <2>3, <3>1
    <3> QED BY <1>1, <1>5, <3>1, <3>2, RankOrder
  <2>5. \A f \in ToSet(s) : Later(f, e)
    BY <1>3, <1>4, <2>1, <2>4
  <2>6. Cardinality(ToSet(s)) = Limit
    <3> DEFINE T == ToSet(s)
    <3>1. \A i, j \in 1..Limit : s[i] = s[j] => i = j
      <4> TAKE i, j \in 1..Limit
      <4> HAVE s[i] = s[j]
      <4>1. Rank(R, s[i]) = i - 1 /\ Rank(R, s[j]) = j - 1
        BY <2>1, <2>2
      <4>2. i - 1 = j - 1
        <5> HIDE DEF Rank
        <5> QED BY <4>1
      <4> QED BY <4>2
    <3>2. T = {s[i] : i \in 1..Limit}
      BY <1>3, <1>4, <2>1
    <3>3. s \in [1..Limit -> T]
      BY <1>3, <2>1, <3>2
    <3>4. ExistsBijection(1..Limit, T)
      <4> HIDE DEF T
      <4>1. s \in Injection(1..Limit, T)
        BY <3>1, <3>3 DEF Injection, IsInjective
      <4>2. s \in Surjection(1..Limit, T)
        BY <3>2, <3>3 DEF Surjection
      <4> QED BY <4>1, <4>2 DEF ExistsBijection, Bijection
    <3> HIDE DEF T
    <3>5. Cardinality(T) = Limit
      BY <2>1, <3>4, FS_CountingElements
    <3> QED BY <3>5 DEF T
  <2> QED BY <2>5, <2>6
<1>6. \A e \in R : e \in ToSet(s)
        \/ \E T : T \subseteq ToSet(s) /\ Cardinality(T) = Limit /\ \A f \in T : Later(f, e)
  BY <1>5
<1> QED BY <1>2, <1>4, <1>6

\* A page of get_feed is right, and leaves out nothing down to its cursor: what
\* is not in the merge is older than Limit of one source, so that the page is full
\* and ends before it.
LEMMA GetFeedRight ==
    ASSUME Private = {}, NEW before \in Nat, NEW types, types \subseteq Categories, events \subseteq Events
    PROVE  /\ PageRight(GetFeed(before, types), types, before)
           /\ Covers(GetFeed(before, types), events, types, before)
<1> DEFINE cut == Cutoff(before)
           U == UNION {Source(c, cut) : c \in types}
           s == Newest(U)
           B == Below(events, types, before)
<1>1. cut \in Nat
  BY DEF Cutoff, Now
<1>2. U \subseteq B
  <2>1. ASSUME NEW c \in types PROVE Source(c, cut) \subseteq B
    <3>1. Source(c, cut) \subseteq {x \in events : Category[x] = c /\ Time[x] < cut}
      <4> HIDE DEF cut
      <4> QED BY <1>1, SourceFacts
    <3> QED BY <3>1 DEF Below
  <2> HIDE DEF B, cut
  <2> QED BY <2>1
<1>3. B \subseteq Events /\ \A e \in B : e \in events /\ Category[e] \in types /\ Time[e] < cut
  BY DEF Below
<1>4. U \subseteq Events
  BY <1>2, <1>3
<1>5. GetFeed(before, types) = [items |-> s, next |-> Cursor(s)]
  BY DEF GetFeed, Cutoff
<1> HIDE DEF U, B, cut
<1>6. /\ s \in Seq(U) /\ Len(s) = PageSize(U) /\ PageSize(U) \in Nat
      /\ \A i, j \in 1..PageSize(U) : i < j => Later(s[i], s[j])
      /\ \A e \in U : e \in ToSet(s) \/ (PageSize(U) = Limit /\ Rank(U, e) >= Limit)
  BY <1>4, NewestFacts
<1>7. \A i \in 1..PageSize(U) : s[i] \in U /\ Rank(U, s[i]) = i - 1
  BY <1>4, NewestRank
<1>8. Limit \in Nat /\ Limit > 0
  BY FeedAssumption
<1> HIDE DEF s
<1>9. \A i \in 1..Len(s) : s[i] \in U /\ s[i] \in Events /\ Category[s[i]] \in types
                           /\ Time[s[i]] \in Nat /\ Time[s[i]] < cut
  BY <1>2, <1>3, <1>6, <1>7, TimeType
<1>10. Cursor(s) \in Nat /\ (Cursor(s) # None => Cursor(s) < cut)
       /\ \A i \in 1..Len(s) : Time[s[i]] >= Cursor(s)
  <2>1. CASE Len(s) = Limit
    <3>1. Cursor(s) = Time[s[Limit]] /\ Limit \in 1..Len(s)
      BY <1>8, <2>1 DEF Cursor
    <3>2. Time[s[Limit]] \in Nat /\ Time[s[Limit]] < cut
      BY <1>9, <3>1
    <3>3. \A i \in 1..Len(s) : i < Limit => Later(s[i], s[Limit])
      BY <1>6, <3>1
    <3>4. \A i \in 1..Len(s) : Time[s[i]] >= Time[s[Limit]]
      <4> TAKE i \in 1..Len(s)
      <4>1. i = Limit \/ i < Limit
        BY <1>6, <2>1
      <4> QED BY <1>9, <3>2, <3>3, <4>1 DEF Later
    <3> QED BY <3>1, <3>2, <3>4
  <2>2. CASE Len(s) # Limit
    <3>1. Cursor(s) = 0
      BY <2>2 DEF Cursor, None
    <3> QED BY <1>9, <3>1 DEF None
  <2> QED BY <2>1, <2>2
<1>11. PageRight([items |-> s, next |-> Cursor(s)], types, before)
  <2>1. s \in Seq(Events)
    BY <1>4, <1>6
  <2>2. InOrder(s)
    BY <1>6 DEF InOrder
  <2> QED BY <1>9, <1>10, <2>1, <2>2 DEF PageRight, cut
\* The last of a full page is later than what is below U, or not in it.
<1>12. ASSUME NEW e \in B, e \notin ToSet(s)
       PROVE  Cursor(s) > Time[e]
  <2>1. e \in Events /\ Time[e] \in Nat /\ Category[e] \in types
    BY <1>3, <1>12, TimeType
  <2>2. Len(s) = Limit /\ Later(s[Limit], e)
    <3>1. CASE e \in U
      <4>1. PageSize(U) = Limit /\ Rank(U, e) >= Limit
        BY <1>6, <1>12, <3>1
      <4>2. s[Limit] \in U /\ Rank(U, s[Limit]) = Limit - 1
        BY <1>7, <1>8, <4>1
      <4>3. Rank(U, e) \in 0..(Cardinality(U) - 1)
        BY <1>4, <3>1, RankType
      <4>4. Rank(U, s[Limit]) < Rank(U, e)
        <5> HIDE DEF Rank
        <5> QED BY <1>8, <4>1, <4>2, <4>3
      <4>5. Later(s[Limit], e)
        BY <1>4, <3>1, <4>2, <4>4, RankOrder
      <4> QED BY <1>6, <4>1, <4>5
    <3>2. CASE e \notin U
      <4> DEFINE c == Category[e]
      <4>1. e \notin Source(c, cut)
        BY <2>1, <3>2 DEF U
      <4>2. PICK T : T \subseteq Source(c, cut) /\ Cardinality(T) = Limit /\ \A f \in T : Later(f, e)
        <5>1. c \in Categories
          BY <2>1
        <5>2. e \in {x \in events : Category[x] = c /\ Time[x] < cut}
          BY <1>3, <1>12
        <5> HIDE DEF c
        <5> QED BY <1>1, <4>1, <5>1, <5>2, SourceFacts
      <4>3. T \subseteq U
        BY <2>1, <4>2 DEF U
      <4>4. IsFiniteSet(U) /\ Cardinality(U) \in Nat
        BY <1>4, Finite
      <4>5. Cardinality(T) <= Cardinality(U)
        BY <4>3, <4>4, FS_Subset
      <4>6. PageSize(U) = Limit
        BY <1>8, <4>2, <4>4, <4>5 DEF PageSize
      <4>7. s[Limit] \in U /\ Rank(U, s[Limit]) = Limit - 1
        BY <1>7, <1>8, <4>6
      <4>8. ~ \A f \in T : Later(f, s[Limit])
        <5> SUFFICES ASSUME \A f \in T : Later(f, s[Limit]) PROVE FALSE
          OBVIOUS
        <5> DEFINE A == {f \in U : Later(f, s[Limit])}
        <5>1. T \subseteq A
          BY <4>3
        <5>2. IsFiniteSet(A) /\ Cardinality(A) \in Nat
          BY <1>4, Finite
        <5>3. Cardinality(A) = Limit - 1
          BY <4>7 DEF Rank
        <5> HIDE DEF A
        <5>4. Cardinality(T) <= Cardinality(A)
          BY <5>1, <5>2, FS_Subset
        <5> QED BY <1>8, <4>2, <5>3, <5>4
      <4>9. PICK f \in T : ~Later(f, s[Limit])
        BY <4>8
      <4>10. f \in Events /\ s[Limit] \in Events /\ Later(f, e)
        BY <1>4, <4>2, <4>3, <4>7, <4>9
      <4>11. f = s[Limit] \/ Later(s[Limit], f)
        BY <4>9, <4>10, LaterOrder
      <4>12. Later(s[Limit], e)
        BY <2>1, <4>10, <4>11, LaterOrder
      <4> QED BY <1>6, <4>6, <4>12
    <3> QED BY <3>1, <3>2
  <2>3. Cursor(s) = Time[s[Limit]]
    BY <2>2 DEF Cursor
  <2> QED BY <2>2, <2>3 DEF Later
<1>13. Covers([items |-> s, next |-> Cursor(s)], events, types, before)
  <2> SUFFICES ASSUME NEW e \in B, Time[e] >= Cursor(s) PROVE e \in ToSet(s)
    BY DEF Covers, B
  <2>1. Time[e] \in Nat
    BY <1>3, TimeType
  <2> QED BY <1>10, <1>12, <2>1
<1> QED BY <1>5, <1>11, <1>13 DEF s

----------------------------------------------------------------------------
\* What is known of the requests under way and of what is shown.

FeedPages == [items : Seq(Events), next : Nat]
FeedRequests == [at : {"none", "sent", "read"}, before : Nat, types : SUBSET Categories, page : FeedPages]

FirstOK ==
    /\ first \in FeedRequests
    /\ first.at # "none" => first.types = selected
    /\ first.at = "read" => PageRight(first.page, selected, None) /\ Covers(first.page, known, selected, None)

MoreOK ==
    more.at # "none" =>
        /\ items # Loading /\ more.types = selected
        /\ more.before = nextBefore /\ nextBefore # None
        /\ more.at = "read" =>
             PageRight(more.page, selected, nextBefore) /\ Covers(more.page, known, selected, nextBefore)

\* What is shown is one page, of everything down to the cursor.
FeedShows == [items |-> items, next |-> nextBefore]

FeedShownOK ==
    items # Loading =>
        first.at = "none" /\ PageRight(FeedShows, selected, None) /\ Covers(FeedShows, known, selected, None)

\* While no page of another selection is on its way (~mixed), only one of the
\* two requests is, and what each has read is right about what is known.
FeedIInv ==
    /\ events \subseteq Events /\ selected \subseteq Categories /\ nextBefore \in Nat /\ mixed \in BOOLEAN
    /\ known \subseteq {e \in events : Category[e] \in selected}
    /\ FirstOK /\ more \in FeedRequests
    /\ ~mixed =>
         /\ first.at # "none" => more.at = "none"
         /\ MoreOK /\ FeedShownOK

\* get_feed answers with a page.
LEMMA PageType == ASSUME NEW types, NEW before \in Nat,
                         Private = {}, types \subseteq Categories, events \subseteq Events
                  PROVE  GetFeed(before, types) \in FeedPages
<1>1. PageRight(GetFeed(before, types), types, before)
  BY GetFeedRight
<1>2. GetFeed(before, types) = [items |-> GetFeed(before, types).items, next |-> GetFeed(before, types).next]
  BY DEF GetFeed
<1> QED BY <1>1, <1>2 DEF PageRight, FeedPages

\* What covers some events covers fewer.
LEMMA CoversLess == ASSUME NEW p, NEW E, NEW F, NEW types, NEW before, F \subseteq E,
                           Covers(p, E, types, before)
                    PROVE  Covers(p, F, types, before)
BY DEF Covers, Below

\* Two pages, the second from the cursor of the first, are one.
LEMMA PagesJoin ==
    ASSUME NEW p, NEW q, NEW types, NEW E, E \subseteq Events, p.next # None,
           PageRight(p, types, None), Covers(p, E, types, None),
           PageRight(q, types, p.next), Covers(q, E, types, p.next)
    PROVE  LET r == [items |-> p.items \o q.items, next |-> q.next] IN
           PageRight(r, types, None) /\ Covers(r, E, types, None)
<1> DEFINE s == p.items
           t == q.items
           r == [items |-> s \o t, next |-> q.next]
<1>1. s \in Seq(Events) /\ t \in Seq(Events) /\ p.next \in Nat /\ q.next \in Nat
  BY DEF PageRight
<1>2. /\ s \o t \in Seq(Events) /\ Len(s \o t) = Len(s) + Len(t) /\ Len(s) \in Nat /\ Len(t) \in Nat
      /\ \A i \in 1..Len(s) : (s \o t)[i] = s[i]
      /\ \A i \in 1..(Len(s) + Len(t)) : i > Len(s) => (s \o t)[i] = t[i - Len(s)] /\ i - Len(s) \in 1..Len(t)
  <2> HIDE DEF s, t
  <2> QED BY <1>1
<1>3. Cutoff(None) = Now /\ Cutoff(p.next) = p.next /\ p.next < Now
  BY DEF Cutoff, PageRight
<1>4. \A i \in 1..Len(s) : /\ s[i] \in Events /\ Category[s[i]] \in types /\ Time[s[i]] \in Nat
                           /\ Time[s[i]] < Now /\ Time[s[i]] >= p.next
  BY <1>3, TimeType DEF PageRight
<1>5. \A i \in 1..Len(t) : /\ t[i] \in Events /\ Category[t[i]] \in types /\ Time[t[i]] \in Nat
                           /\ Time[t[i]] < p.next /\ Time[t[i]] >= q.next
  BY <1>3, TimeType DEF PageRight
<1>6. q.next # None => q.next < p.next
  BY <1>3 DEF PageRight
<1>7. q.next <= p.next
  BY <1>1, <1>6 DEF None
<1>8. InOrder(s) /\ InOrder(t)
  BY DEF PageRight
<1> HIDE DEF s, t
<1>9. \A i \in 1..Len(s \o t) :
         /\ (s \o t)[i] \in Events /\ Category[(s \o t)[i]] \in types
         /\ Time[(s \o t)[i]] < Now /\ Time[(s \o t)[i]] >= q.next
  <2> TAKE i \in 1..Len(s \o t)
  <2>1. CASE i \in 1..Len(s)
    BY <1>1, <1>2, <1>4, <1>7, <2>1
  <2>2. CASE i > Len(s)
    <3>1. (s \o t)[i] = t[i - Len(s)] /\ i - Len(s) \in 1..Len(t)
      BY <1>2, <2>2
    <3>2. Now \in Nat
      BY DEF Now
    <3> QED BY <1>1, <1>3, <1>5, <3>1, <3>2
  <2> QED BY <1>2, <2>1, <2>2
<1>10. InOrder(s \o t)
  <2> SUFFICES ASSUME NEW i \in 1..Len(s \o t), NEW j \in 1..Len(s \o t), i < j
               PROVE  Later((s \o t)[i], (s \o t)[j])
    BY DEF InOrder
  <2>1. CASE j \in 1..Len(s)
    <3>1. i \in 1..Len(s)
      BY <1>2, <2>1
    <3> QED BY <1>2, <1>8, <2>1, <3>1 DEF InOrder
  <2>2. CASE i > Len(s)
    <3>1. (s \o t)[i] = t[i - Len(s)] /\ i - Len(s) \in 1..Len(t)
      BY <1>2, <2>2
    <3>2. (s \o t)[j] = t[j - Len(s)] /\ j - Len(s) \in 1..Len(t)
      BY <1>2, <2>2
    <3>3. i - Len(s) < j - Len(s)
      BY <1>2
    <3> QED BY <1>8, <3>1, <3>2, <3>3 DEF InOrder
  <2>3. CASE i \in 1..Len(s) /\ j > Len(s)
    <3>1. (s \o t)[i] = s[i]
      BY <1>2, <2>3
    <3>2. (s \o t)[j] = t[j - Len(s)] /\ j - Len(s) \in 1..Len(t)
      BY <1>2, <2>3
    <3>3. Time[s[i]] >= p.next /\ Time[s[i]] \in Nat
      BY <1>4, <2>3
    <3>4. Time[t[j - Len(s)]] < p.next /\ Time[t[j - Len(s)]] \in Nat
      BY <1>5, <3>2
    <3> QED BY <1>1, <3>1, <3>2, <3>3, <3>4 DEF Later
  <2> QED BY <1>2, <2>1, <2>2, <2>3
<1>11. PageRight(r, types, None)
  <2>1. q.next # None => q.next < Now
    BY <1>1, <1>3, <1>6 DEF Now
  <2> QED BY <1>1, <1>2, <1>3, <1>9, <1>10, <2>1 DEF PageRight
<1>12. ToSet(s \o t) = ToSet(s) \cup ToSet(t)
  <2>1. ToSet(s \o t) = {(s \o t)[i] : i \in 1..Len(s \o t)}
    BY <1>2, ToSetFact
  <2>2. ToSet(s) = {s[i] : i \in 1..Len(s)}
    BY <1>1, ToSetFact
  <2>3. ToSet(t) = {t[i] : i \in 1..Len(t)}
    BY <1>1, ToSetFact
  <2>4. \A i \in 1..Len(s) : i \in 1..Len(s \o t)
    BY <1>2
  <2>5. \A i \in 1..Len(t) : Len(s) + i \in 1..Len(s \o t) /\ (s \o t)[Len(s) + i] = t[i]
    BY <1>1, <1>2
  <2>6. \A i \in 1..Len(s \o t) : i \in 1..Len(s) \/ (i > Len(s) /\ i \in 1..(Len(s) + Len(t)))
    BY <1>2
  <2>7. ToSet(s) \subseteq ToSet(s \o t)
    BY <1>2, <2>1, <2>2, <2>4
  <2>8. ToSet(t) \subseteq ToSet(s \o t)
    BY <2>1, <2>3, <2>5
  <2>9. ToSet(s \o t) \subseteq ToSet(s) \cup ToSet(t)
    BY <1>2, <2>1, <2>2, <2>3, <2>6
  <2> QED BY <2>7, <2>8, <2>9
<1>13. Covers(r, E, types, None)
  <2> SUFFICES ASSUME NEW e \in Below(E, types, None), Time[e] >= q.next
               PROVE  e \in ToSet(s \o t)
    BY DEF Covers
  <2>1. e \in E /\ Category[e] \in types /\ Time[e] \in Nat
    BY TimeType DEF Below
  <2>2. CASE Time[e] >= p.next
    BY <1>12, <2>2 DEF Covers, s
  <2>3. CASE Time[e] < p.next
    <3>1. e \in Below(E, types, p.next)
      BY <1>3, <2>1, <2>3 DEF Below
    <3> QED BY <1>12, <3>1 DEF Covers, t
  <2> QED BY <1>1, <2>1, <2>2, <2>3
<1> QED BY <1>11, <1>13 DEF s, t

\* The invariant holds when the page is opened.
LEMMA FeedStart == FeedInit => FeedIInv
<1> SUFFICES ASSUME FeedInit PROVE FeedIInv
  OBVIOUS
<1>1. NoPage \in FeedPages /\ NoRequest \in FeedRequests /\ first \in FeedRequests /\ first.at = "sent" /\ first.types = selected
  <2>1. <<>> \in Seq(Events)
    OBVIOUS
  <2>2. NoPage \in FeedPages
    BY <2>1 DEF NoPage, FeedPages, None
  <2>3. NoRequest \in FeedRequests
    BY <2>2 DEF NoRequest, FeedRequests, None
  <2>4. first = [NoRequest EXCEPT !.at = "sent", !.types = Categories] /\ selected = Categories
    BY DEF FeedInit
  <2> QED BY <2>2, <2>3, <2>4 DEF NoRequest, FeedRequests
<1>2. more = NoRequest /\ NoRequest.at = "none"
  BY DEF FeedInit, NoRequest
<1>3. items = Loading
  BY DEF FeedInit
<1>4. FirstOK
  BY <1>1 DEF FirstOK
<1>5. MoreOK /\ FeedShownOK
  BY <1>2, <1>3 DEF MoreOK, FeedShownOK
<1> QED BY <1>1, <1>2, <1>4, <1>5 DEF FeedIInv, FeedInit, None

\* Nothing under way is a request.
LEMMA NoRequestType == NoRequest \in FeedRequests /\ NoRequest.at = "none" /\ NoPage \in FeedPages
<1>1. <<>> \in Seq(Events)
  OBVIOUS
<1>2. NoPage \in FeedPages
  BY <1>1 DEF NoPage, FeedPages, None
<1> QED BY <1>2 DEF NoRequest, FeedRequests, None

\* No step breaks the invariant.
LEMMA FeedKept ==
    ASSUME Private = {}, FeedIInv, [FeedNext]_feedVars
    PROVE  FeedIInv'
<1>1. /\ events \subseteq Events /\ selected \subseteq Categories /\ nextBefore \in Nat /\ mixed \in BOOLEAN
      /\ known \subseteq {e \in events : Category[e] \in selected}
      /\ FirstOK /\ more \in FeedRequests
      /\ ~mixed => (first.at # "none" => more.at = "none") /\ MoreOK /\ FeedShownOK
  BY DEF FeedIInv
<1>2. first \in FeedRequests /\ more \in FeedRequests
  BY <1>1 DEF FirstOK
<1>3. ASSUME NEW c \in Categories, ToggleCategory(c) PROVE FeedIInv'
  <2>1. selected' \subseteq Categories /\ events' = events /\ more' = more /\ known' = {}
        /\ first' = FirstPage(selected') /\ mixed' = (more.at # "none")
        /\ items' = (IF selected' = {} THEN <<>> ELSE Loading)
        /\ nextBefore' = (IF selected' = {} THEN None ELSE nextBefore)
    BY <1>1, <1>3 DEF ToggleCategory
  <2>2. CASE selected' = {}
    <3>1. first' = NoRequest /\ items' = <<>> /\ nextBefore' = None
      BY <2>1, <2>2 DEF FirstPage
    <3>2. FirstOK'
      BY <3>1, NoRequestType DEF FirstOK
    <3>3. ~mixed' => more'.at = "none"
      BY <2>1
    <3>4. FeedShownOK'
      <4>1. FeedShows' = [items |-> <<>>, next |-> 0]
        BY <3>1 DEF FeedShows, None
      <4>2. PageRight([items |-> <<>>, next |-> 0], selected', None)
        BY DEF PageRight, InOrder, None
      <4>3. Covers([items |-> <<>>, next |-> 0], known', selected', None)
        BY <2>1 DEF Covers, Below
      <4> QED BY <3>1, <4>1, <4>2, <4>3, NoRequestType DEF FeedShownOK
    <3> QED BY <1>1, <2>1, <3>1, <3>2, <3>3, <3>4, NoRequestType DEF FeedIInv, MoreOK, None
  <2>3. CASE selected' # {}
    <3>1. first' = [NoRequest EXCEPT !.at = "sent", !.types = selected'] /\ items' = Loading /\ nextBefore' = nextBefore
      BY <2>1, <2>3 DEF FirstPage
    <3>2. first' \in FeedRequests /\ first'.at = "sent" /\ first'.types = selected'
      BY <2>1, <3>1, NoRequestType DEF FeedRequests
    <3>3. FirstOK'
      BY <3>2 DEF FirstOK
    <3>4. ~mixed' => more'.at = "none"
      BY <2>1
    <3>5. FeedShownOK'
      BY <3>1 DEF FeedShownOK
    <3> QED BY <1>1, <2>1, <3>1, <3>3, <3>4, <3>5 DEF FeedIInv, MoreOK
  <2> QED BY <2>2, <2>3
<1>4. CASE ServeFirst
  <2> DEFINE gave == GetFeed(None, selected)
  <2>1. first.at = "sent" /\ first.types = selected
    BY <1>1, <1>4 DEF ServeFirst, FirstOK
  <2>2. /\ first' = [first EXCEPT !.at = "read", !.page = gave]
        /\ known' = {e \in events : Shown(e) /\ Category[e] \in selected}
        /\ UNCHANGED <<events, selected, items, nextBefore, more, mixed>>
    BY <1>4, <2>1 DEF ServeFirst
  <2>3. gave \in FeedPages /\ PageRight(gave, selected, None) /\ Covers(gave, events, selected, None)
    BY <1>1, GetFeedRight, PageType DEF None
  <2> HIDE DEF gave
  <2>4. first' \in FeedRequests /\ first'.at = "read" /\ first'.page = gave /\ first'.types = selected
    BY <1>2, <2>1, <2>2, <2>3 DEF FeedRequests
  <2>5. known' \subseteq events /\ known' \subseteq {e \in events : Category[e] \in selected}
    BY <2>2
  <2>6. Covers(gave, known', selected, None)
    BY <2>3, <2>5, CoversLess
  <2>7. FirstOK'
    BY <2>2, <2>3, <2>4, <2>6 DEF FirstOK
  <2>8. ~mixed => more.at = "none" /\ items = Loading
    BY <1>1, <2>1 DEF FeedShownOK
  <2>9. ~mixed' => MoreOK' /\ FeedShownOK' /\ more'.at = "none"
    BY <2>2, <2>8 DEF MoreOK, FeedShownOK
  <2> QED BY <1>1, <2>2, <2>5, <2>7, <2>9 DEF FeedIInv
<1>5. CASE ShowFirst
  <2>1. /\ first.at = "read" /\ first' = NoRequest
        /\ items' = first.page.items /\ nextBefore' = first.page.next
        /\ UNCHANGED <<events, selected, more, known, mixed>>
    BY <1>5 DEF ShowFirst
  <2>2. PageRight(first.page, selected, None) /\ Covers(first.page, known, selected, None)
    BY <1>1, <2>1 DEF FirstOK
  <2>3. first.page \in FeedPages
    BY <1>2 DEF FeedRequests
  <2>4. FeedShows' = first.page /\ nextBefore' \in Nat
    BY <2>1, <2>3 DEF FeedShows, FeedPages
  <2>5. FirstOK'
    BY <2>1, NoRequestType DEF FirstOK
  <2>6. FeedShownOK'
    BY <2>1, <2>2, <2>4, NoRequestType DEF FeedShownOK
  <2>7. ~mixed' => more'.at = "none"
    BY <1>1, <2>1
  <2>8. ~mixed' => MoreOK'
    BY <2>7 DEF MoreOK
  <2> QED BY <1>1, <2>1, <2>4, <2>5, <2>6, <2>7, <2>8 DEF FeedIInv
<1>6. CASE LoseFirst
  <2>1. /\ first.at = "sent" /\ first' = NoRequest
        /\ UNCHANGED <<events, selected, items, nextBefore, more, known, mixed>>
    BY <1>6 DEF LoseFirst
  <2>2. ~mixed => more.at = "none" /\ items = Loading
    BY <1>1, <2>1 DEF FeedShownOK
  <2>3. ~mixed' => MoreOK' /\ FeedShownOK' /\ more'.at = "none"
    BY <2>1, <2>2 DEF MoreOK, FeedShownOK
  <2>4. FirstOK'
    BY <2>1, NoRequestType DEF FirstOK
  <2> QED BY <1>1, <2>1, <2>3, <2>4 DEF FeedIInv
<1>7. CASE LoadMore
  <2>1. /\ items # Loading /\ nextBefore # None /\ more.at = "none"
        /\ more' = [NoRequest EXCEPT !.at = "sent", !.before = nextBefore, !.types = selected]
        /\ UNCHANGED <<events, selected, items, nextBefore, first, known, mixed>>
    BY <1>7 DEF LoadMore, Request
  <2>2. more' \in FeedRequests /\ more'.at = "sent" /\ more'.types = selected /\ more'.before = nextBefore
    BY <1>1, <2>1, NoRequestType DEF FeedRequests
  <2>3. FirstOK' /\ (FeedShownOK => FeedShownOK')
    BY <1>1, <2>1 DEF FirstOK, FeedShownOK, FeedShows
  <2>4. MoreOK'
    BY <2>1, <2>2 DEF MoreOK
  <2>5. ~mixed => first.at = "none"
    BY <1>1, <2>1 DEF FeedShownOK
  <2> QED BY <1>1, <2>1, <2>2, <2>3, <2>4, <2>5 DEF FeedIInv
<1>8. CASE ServeMore
  <2> DEFINE gave == GetFeed(more.before, more.types)
  <2>1. /\ more.at = "sent" /\ more' = [more EXCEPT !.at = "read", !.page = gave]
        /\ UNCHANGED <<events, selected, items, nextBefore, first, known, mixed>>
    BY <1>8 DEF ServeMore
  <2>2. more.before \in Nat /\ more.types \subseteq Categories
    BY <1>2 DEF FeedRequests
  <2>3. gave \in FeedPages /\ PageRight(gave, more.types, more.before) /\ Covers(gave, events, more.types, more.before)
    BY <1>1, <2>2, GetFeedRight, PageType
  <2> HIDE DEF gave
  <2>4. more' \in FeedRequests /\ more'.at = "read" /\ more'.page = gave
        /\ more'.types = more.types /\ more'.before = more.before
    BY <1>2, <2>1, <2>3 DEF FeedRequests
  <2>5. Covers(gave, known, more.types, more.before)
    BY <1>1, <2>3, CoversLess
  <2>6. FirstOK' /\ (FeedShownOK => FeedShownOK')
    BY <1>1, <2>1 DEF FirstOK, FeedShownOK, FeedShows
  <2>7. ~mixed => MoreOK'
    BY <1>1, <2>1, <2>3, <2>4, <2>5 DEF MoreOK
  <2>8. ~mixed => first.at = "none"
    BY <1>1, <2>1
  <2> QED BY <1>1, <2>1, <2>4, <2>6, <2>7, <2>8 DEF FeedIInv
<1>9. CASE ShowMore
  <2>1. /\ more.at = "read" /\ more' = NoRequest
        /\ items' = (IF items = Loading THEN more.page.items ELSE items \o more.page.items)
        /\ nextBefore' = more.page.next
        /\ UNCHANGED <<events, selected, first, known, mixed>>
    BY <1>9 DEF ShowMore
  <2>2. more.page \in FeedPages /\ nextBefore' \in Nat
    BY <1>2, <2>1 DEF FeedRequests, FeedPages
  <2>3. FirstOK'
    BY <1>1, <2>1 DEF FirstOK
  <2>4. ASSUME ~mixed PROVE FeedShownOK'
    <3>1. items # Loading /\ nextBefore # None /\ MoreOK /\ FeedShownOK
      BY <1>1, <2>1, <2>4 DEF MoreOK
    <3>2. PageRight(more.page, selected, nextBefore) /\ Covers(more.page, known, selected, nextBefore)
      BY <2>1, <3>1 DEF MoreOK
    <3>3. first.at = "none" /\ PageRight(FeedShows, selected, None) /\ Covers(FeedShows, known, selected, None)
      BY <3>1 DEF FeedShownOK
    <3>4. FeedShows.items = items /\ FeedShows.next = nextBefore
      BY DEF FeedShows
    <3>5. FeedShows' = [items |-> FeedShows.items \o more.page.items, next |-> more.page.next]
      BY <2>1, <3>1, <3>4 DEF FeedShows
    <3>6. known \subseteq Events
      BY <1>1
    <3>7. PageRight(FeedShows', selected, None) /\ Covers(FeedShows', known, selected, None)
      BY <3>1, <3>2, <3>3, <3>4, <3>5, <3>6, PagesJoin
    <3> QED BY <2>1, <3>3, <3>7 DEF FeedShownOK
  <2>5. MoreOK' /\ more'.at = "none" /\ more' \in FeedRequests
    BY <2>1, NoRequestType DEF MoreOK
  <2> QED BY <1>1, <2>1, <2>2, <2>3, <2>4, <2>5 DEF FeedIInv
<1>10. CASE LoseMore
  <2>1. /\ more' = NoRequest
        /\ UNCHANGED <<events, selected, items, nextBefore, first, known, mixed>>
    BY <1>10 DEF LoseMore
  <2>2. FirstOK' /\ (FeedShownOK => FeedShownOK')
    BY <1>1, <2>1 DEF FirstOK, FeedShownOK, FeedShows
  <2>3. MoreOK' /\ more'.at = "none" /\ more' \in FeedRequests
    BY <2>1, NoRequestType DEF MoreOK
  <2> QED BY <1>1, <2>1, <2>2, <2>3 DEF FeedIInv
<1>11. ASSUME NEW e \in Events, Happen(e) PROVE FeedIInv'
  <2>1. /\ events' = (IF e \in events THEN events \ {e} ELSE events \cup {e}) /\ known' = known \ {e}
        /\ UNCHANGED <<selected, items, nextBefore, first, more, mixed>>
    BY <1>11 DEF Happen
  <2>2. known' \subseteq known /\ known' \subseteq {x \in events' : Category[x] \in selected} /\ events' \subseteq Events
    BY <1>1, <2>1
  <2>3. FirstOK'
    BY <1>1, <2>1, <2>2, CoversLess DEF FirstOK
  <2>4. MoreOK => MoreOK'
    BY <2>1, <2>2, CoversLess DEF MoreOK
  <2>5. FeedShownOK => FeedShownOK'
    BY <2>1, <2>2, CoversLess DEF FeedShownOK, FeedShows
  <2> QED BY <1>1, <2>1, <2>2, <2>3, <2>4, <2>5 DEF FeedIInv
<1>12. CASE UNCHANGED feedVars
  <2>1. UNCHANGED <<events, selected, items, nextBefore, first, more, known, mixed>>
    BY <1>12 DEF feedVars
  <2> QED BY <1>1, <2>1 DEF FeedIInv, FirstOK, MoreOK, FeedShownOK, FeedShows
<1> QED BY <1>3, <1>4, <1>5, <1>6, <1>7, <1>8, <1>9, <1>10, <1>11, <1>12 DEF FeedNext

\* The invariant implies that the pages join up.
LEMMA FeedSafe == FeedIInv => FeedHasNoHoles
<1> SUFFICES ASSUME FeedIInv, items # Loading, ~mixed
             PROVE  /\ \A i, j \in 1..Len(items) : i < j => Later(items[i], items[j])
                    /\ \A i \in 1..Len(items) : Category[items[i]] \in selected
                    /\ \A e \in known : nextBefore = None \/ Time[e] >= nextBefore => e \in ToSet(items)
  BY DEF FeedHasNoHoles
<1>1. PageRight(FeedShows, selected, None) /\ Covers(FeedShows, known, selected, None)
      /\ known \subseteq {e \in Events : Category[e] \in selected}
  BY DEF FeedIInv, FeedShownOK
<1>2. FeedShows.items = items /\ FeedShows.next = nextBefore
  BY DEF FeedShows
<1>3. ASSUME NEW e \in known, nextBefore = None \/ Time[e] >= nextBefore PROVE e \in ToSet(items)
  <2>1. e \in Events /\ Category[e] \in selected /\ Time[e] \in Nat /\ Time[e] < Now
    BY <1>1, TimeType
  <2>2. e \in Below(known, selected, None)
    BY <2>1 DEF Below, Cutoff
  <2>3. Time[e] >= nextBefore
    BY <1>3, <2>1 DEF None
  <2> QED BY <1>1, <1>2, <2>2, <2>3 DEF Covers
<1> QED BY <1>1, <1>2, <1>3 DEF PageRight, InOrder

\* The pages of get_feed join up in the feed, however requests, toggles and
\* changes interleave and whatever is lost, if no comment is kept from the user.
THEOREM NoHoles == Private = {} => (FeedSpec => []FeedHasNoHoles)
<1> SUFFICES ASSUME Private = {} PROVE FeedSpec => []FeedHasNoHoles
  OBVIOUS
<1>1. FeedInit => FeedIInv
  BY FeedStart
<1>2. FeedIInv /\ [FeedNext]_feedVars => FeedIInv'
  BY FeedKept
<1>3. FeedIInv => FeedHasNoHoles
  BY FeedSafe
<1> QED BY <1>1, <1>2, <1>3, PTL DEF FeedSpec

----------------------------------------------------------------------------
(* SocialPages: what a page has, and what the server has *)

\* The rows of friendships and invites, the database, what a page has, and its handlers.
RowsOf == [is : Standing \cup Inviting, id : Nat]
RowsByFriend == [Others -> RowsOf]
RatingIs == {"none", "draft", "published"}
DbType(d) ==
    /\ d \in [friendship : RowsByFriend, invite : RowsByFriend, mine : RatingIs, published : SUBSET Others]
    /\ \A o \in Others : d.invite[o].is \in Inviting /\ (d.invite[o].is = "accepted" => d.mine # "none")
Copies == [friendships : RowsByFriend, invites : RowsByFriend, later : [there : BOOLEAN, with : SUBSET Others],
           rated : SUBSET Others, rating : RatingIs, compared : {"none", "refused", "entry", "empty"},
           viewable : SUBSET Others]
PageActs == FriendActs \cup InviteActs \cup {"none", "bump", "add", "remove", "delete_rating"}
PageAsks == [act : PageActs, with : Rows, id : Nat]
PageJobs == [at : {"idle", "sent", "done", "read"}, ask : PageAsks, data : Copies, fresh : BOOLEAN]

\* What a row may be.
LEMMA RowKinds ==
    /\ "none" \in Standing \cup Inviting /\ "sent" \in Standing \cup Inviting
    /\ "received" \in Standing \cup Inviting /\ "friends" \in Standing \cup Inviting
    /\ "outgoing" \in Standing \cup Inviting /\ "incoming" \in Standing \cup Inviting
    /\ "accepted" \in Standing \cup Inviting /\ "completed" \in Standing \cup Inviting
BY DEF Standing, Inviting

\* What a page has before it has loaded anything is a copy.
LEMMA EmptyType ==
    /\ Empty \in Copies /\ NoRow \in RowsOf
    /\ NoInvites \in RowsByFriend /\ NoFriendships \in RowsByFriend
<1>1. NoRow \in RowsOf
  BY RowKinds DEF NoRow, Row, RowsOf
<1>2. NoInvites \in RowsByFriend /\ NoFriendships \in RowsByFriend
  BY <1>1 DEF NoInvites, NoFriendships, RowsByFriend
<1> QED BY <1>1, <1>2 DEF Empty, NothingLater, Copies, RatingIs

\* A handler that has nothing to do.
LEMMA IdleType == Idle \in PageJobs /\ Idle.at = "idle" /\ Idle.ask.act = "none"
<1>1. NoAsk \in PageAsks
  BY DEF NoAsk, OnRating, Ask, PageAsks, PageActs, Rows
<1> QED BY <1>1, EmptyType DEF Idle, PageJobs, NoAsk, OnRating, Ask

\* What a list tells of a row is a row.
LEMMA PendingType == ASSUME NEW r \in RowsOf PROVE Pending(r) \in RowsOf
BY EmptyType DEF Pending

\* What the endpoints tell of a database is a copy.
LEMMA SnapshotType == ASSUME NEW d, DbType(d) PROVE Snapshot(d) \in Copies
<1>1. d.friendship \in RowsByFriend /\ d.invite \in RowsByFriend /\ d.mine \in RatingIs /\ d.published \subseteq Others
  BY DEF DbType
<1>2. ListMyInvites(d) \in RowsByFriend
  <2>1. \A o \in Others : Pending(d.invite[o]) \in RowsOf
    BY <1>1, PendingType DEF RowsByFriend
  <2> QED BY <2>1 DEF ListMyInvites, RowsByFriend
<1>3. GetListenLater(d) \in [there : BOOLEAN, with : SUBSET Others]
  BY DEF GetListenLater
<1>4. GetAlbumFriendRatings(d) \subseteq Others
  BY <1>1 DEF GetAlbumFriendRatings
<1>5. FetchComparison(d, compare) \in {"refused", "entry", "empty"}
  BY DEF FetchComparison
<1>6. {o \in Others : MayView(d, o)} \subseteq Others
  OBVIOUS
<1> QED BY <1>1, <1>2, <1>3, <1>4, <1>5, <1>6 DEF Snapshot, Copies

\* Each page takes a copy from what has been loaded.
LEMMA LoadType ==
    ASSUME NEW s \in Copies, page \in Pages \cup Others
    PROVE  /\ Loaded(s) \in Copies /\ LoadFriendships(s) \in Copies
           /\ \A a : Reads(a, s) \in Copies
<1>1. LoadAlbum(s) \in Copies
  BY DEF LoadAlbum, Copies
<1>2. LoadLater(s) \in Copies
  BY EmptyType DEF LoadLater, Copies
<1>3. LoadFriends(s) \in Copies
  BY EmptyType DEF LoadFriends, Copies
<1>4. LoadProfile(s) \in Copies
  <2>1. [o \in Others |-> IF o = page THEN s.friendships[o] ELSE NoRow] \in RowsByFriend
    BY EmptyType DEF Copies, RowsByFriend
  <2>2. s.viewable \cap {page} \subseteq Others
    BY DEF Copies
  <2> QED BY <2>1, <2>2, EmptyType DEF LoadProfile, Copies
<1>5. LoadDetail(s) \in Copies
  BY EmptyType DEF LoadDetail, Copies
<1>6. LoadPair(s) \in Copies
  BY EmptyType DEF LoadPair, Copies, RatingIs
<1>7. Loaded(s) \in Copies
  BY <1>1, <1>2, <1>3, <1>4, <1>5, <1>6 DEF Loaded
<1>8. LoadFriendships(s) \in Copies
  <2>1. [LoadProfile(s) EXCEPT !.viewable = {}] \in Copies
    BY <1>4 DEF Copies
  <2> QED BY <1>3, <2>1 DEF LoadFriendships
<1>9. [Empty EXCEPT !.invites = s.invites, !.later = s.later] \in Copies
  BY EmptyType DEF Copies
<1> QED BY <1>5, <1>7, <1>8, <1>9 DEF Reads

\* Each way to load part of a page again makes a copy of a copy.
LEMMA ReloadType ==
    ASSUME NEW c \in Copies, NEW s \in Copies
    PROVE  /\ \A a : Reloaded(a, c, s) \in Copies
           /\ ReloadFailed(c) \in Copies /\ ReloadFriendships(c, s) \in Copies
<1>1. ReloadInviteState(c, s) \in Copies
  BY DEF ReloadInviteState, Copies
<1>2. ReloadCompleted(c, s) \in Copies
  BY DEF ReloadCompleted, Copies, RatingIs
<1>3. ReloadFriendships(c, s) \in Copies
  BY DEF ReloadFriendships, Copies
<1>4. [c EXCEPT !.invites = NoInvites, !.later = NothingLater] \in Copies
  BY EmptyType DEF Copies, NothingLater
<1>5. [c EXCEPT !.friendships = NoFriendships] \in Copies
  BY EmptyType DEF Copies
<1>6. ReloadFailed(c) \in Copies
  BY <1>4, <1>5, EmptyType DEF ReloadFailed
<1> QED BY <1>1, <1>2, <1>3, <1>6 DEF Reloaded

\* A row that is made, answered or removed is a row.
LEMMA RowTypes ==
    ASSUME NEW r \in RowsOf
    PROVE  /\ \A is \in Standing \cup Inviting : Remade(r, is) \in RowsOf /\ [r EXCEPT !.is = is] \in RowsOf
           /\ Gone(r) \in RowsOf /\ Gone(r).is = "none" /\ Gone(r).is \in Inviting
BY RowKinds DEF RowsOf, Remade, Row, Gone, Inviting

\* One friendship changes.
LEMMA WithFriendship ==
    ASSUME NEW d, DbType(d), NEW o \in Others, NEW r \in RowsOf
    PROVE  DbType([d EXCEPT !.friendship[o] = r])
<1> DEFINE e == [d EXCEPT !.friendship[o] = r]
<1>1. e.friendship = [d.friendship EXCEPT ![o] = r] /\ e.invite = d.invite 
      /\ e.mine = d.mine /\ e.published = d.published
      /\ e \in [friendship : RowsByFriend, invite : RowsByFriend, mine : RatingIs, published : SUBSET Others]
  BY DEF DbType, RowsByFriend
<1> HIDE DEF e
<1>2. DbType(e)
  BY <1>1 DEF DbType
<1> QED BY <1>2 DEF e

\* One invite changes.
LEMMA WithInvite ==
    ASSUME NEW d, DbType(d), NEW o \in Others, NEW r \in RowsOf,
           r.is \in Inviting, r.is = "accepted" => d.mine # "none"
    PROVE  DbType([d EXCEPT !.invite[o] = r])
<1> DEFINE e == [d EXCEPT !.invite[o] = r]
<1>1. e.friendship = d.friendship /\ e.invite = [d.invite EXCEPT ![o] = r] 
      /\ e.mine = d.mine /\ e.published = d.published
      /\ e \in [friendship : RowsByFriend, invite : RowsByFriend, mine : RatingIs, published : SUBSET Others]
  BY DEF DbType, RowsByFriend
<1> HIDE DEF e
<1>2. DbType(e)
  BY <1>1 DEF DbType, RowsByFriend
<1> QED BY <1>2 DEF e

\* Who has published changes.
LEMMA WithPublished ==
    ASSUME NEW d, DbType(d), NEW P, P \subseteq Others
    PROVE  DbType([d EXCEPT !.published = P])
BY DEF DbType

\* A change of friendship o and of the invites, of the invite alone.
LEMMA AfterFriendshipType ==
    ASSUME NEW d, DbType(d), NEW o \in Others, NEW act \in FriendActs
    PROVE  DbType(AfterFriendship(d, act, o)) /\ AfterFriendship(d, act, o).mine = d.mine
           /\ AfterFriendship(d, act, o).published = d.published
           /\ \A x \in Others \ {o} : AfterFriendship(d, act, o).friendship[x] = d.friendship[x]
<1>1. d.friendship \in RowsByFriend /\ d.friendship[o] \in RowsOf /\ d.invite[o] \in RowsOf
      /\ d \in [friendship : RowsByFriend, invite : RowsByFriend, mine : RatingIs, published : SUBSET Others]
  BY DEF DbType, RowsByFriend
<1>2. CASE act = "ask"
  <2> DEFINE r == Remade(d.friendship[o], "sent")
  <2>1. r \in RowsOf
    BY <1>1, RowTypes, RowKinds
  <2>2. AfterFriendship(d, act, o) = [d EXCEPT !.friendship[o] = r]
    BY <1>2 DEF AfterFriendship
  <2> HIDE DEF r
  <2>3. DbType([d EXCEPT !.friendship[o] = r])
    BY <2>1, WithFriendship
  <2> QED BY <1>1, <2>2, <2>3 DEF RowsByFriend
<1>3. CASE act = "accept"
  <2> DEFINE r == [d.friendship[o] EXCEPT !.is = "friends"]
  <2>1. r \in RowsOf
    BY <1>1, RowTypes, RowKinds
  <2>2. AfterFriendship(d, act, o) = [d EXCEPT !.friendship[o] = r]
    BY <1>1, <1>3 DEF AfterFriendship, RowsByFriend
  <2> HIDE DEF r
  <2>3. DbType([d EXCEPT !.friendship[o] = r])
    BY <2>1, WithFriendship
  <2> QED BY <1>1, <2>2, <2>3 DEF RowsByFriend
<1>4. CASE act \notin {"ask", "accept"}
  <2> DEFINE r == Gone(d.friendship[o])
             q == Gone(d.invite[o])
             e == [d EXCEPT !.friendship[o] = r]
  <2>1. r \in RowsOf /\ q \in RowsOf /\ q.is = "none" /\ q.is \in Inviting
    BY <1>1, RowTypes
  <2>2. AfterFriendship(d, act, o) = [e EXCEPT !.invite[o] = q]
    BY <1>1, <1>4 DEF AfterFriendship
  <2> HIDE DEF r, q
  <2>3. DbType(e)
    BY <2>1, WithFriendship
  <2>4. e.mine = d.mine /\ e.published = d.published
        /\ e \in [friendship : RowsByFriend, invite : RowsByFriend, mine : RatingIs, published : SUBSET Others]
        /\ \A x \in Others \ {o} : e.friendship[x] = d.friendship[x]
    BY <1>1, <2>3 DEF DbType, RowsByFriend
  <2> HIDE DEF e
  <2>5. DbType([e EXCEPT !.invite[o] = q])
    BY <2>1, <2>3, WithInvite
  <2> QED BY <2>2, <2>4, <2>5
<1> QED BY <1>2, <1>3, <1>4

\* What the routers of invites leave behind is a database.
LEMMA AfterInviteType ==
    ASSUME NEW d, DbType(d), NEW o \in Others, NEW act \in InviteActs
    PROVE  DbType(AfterInvite(d, act, o))
<1>1. d.friendship \in RowsByFriend /\ d.invite \in RowsByFriend /\ d.invite[o] \in RowsOf /\ d.mine \in RatingIs
      /\ d \in [friendship : RowsByFriend, invite : RowsByFriend, mine : RatingIs, published : SUBSET Others]
  BY DEF DbType, RowsByFriend
<1>2. CASE act = "invite"
  <2> DEFINE r == Remade(d.invite[o], "outgoing")
  <2>1. r \in RowsOf /\ r.is = "outgoing" /\ r.is \in Inviting
    BY <1>1, RowTypes, RowKinds DEF Remade, Row, Inviting
  <2>2. AfterInvite(d, act, o) = [d EXCEPT !.invite[o] = r]
    BY <1>2 DEF AfterInvite
  <2> HIDE DEF r
  <2> QED BY <2>1, <2>2, WithInvite
<1>3. CASE act = "accept_invite"
  <2> DEFINE r == [d.invite[o] EXCEPT !.is = "accepted"]
             m == IF d.mine = "none" THEN "draft" ELSE d.mine
             e == [d EXCEPT !.mine = m]
  <2>1. r \in RowsOf /\ r.is \in Inviting
    BY <1>1, RowTypes, RowKinds DEF RowsOf, Inviting
  <2>2. m \in RatingIs /\ m # "none"
    BY <1>1 DEF RatingIs
  <2>3. AfterInvite(d, act, o) = [e EXCEPT !.invite[o] = r]
    BY <1>1, <1>3 DEF AfterInvite, RowsByFriend
  <2> HIDE DEF r, m
  <2>4. DbType(e) /\ e.mine # "none"
    BY <1>1, <2>2 DEF DbType
  <2> HIDE DEF e
  <2> QED BY <2>1, <2>3, <2>4, WithInvite
<1>4. CASE act \notin {"invite", "accept_invite"}
  <2> DEFINE r == Gone(d.invite[o])
  <2>1. r \in RowsOf /\ r.is = "none" /\ r.is \in Inviting
    BY <1>1, RowTypes
  <2>2. AfterInvite(d, act, o) = [d EXCEPT !.invite[o] = r]
    BY <1>4 DEF AfterInvite
  <2> HIDE DEF r
  <2> QED BY <2>1, <2>2, WithInvite
<1> QED BY <1>2, <1>3, <1>4

\* So is what those of ratings do.
LEMMA AfterRatingType ==
    ASSUME NEW d, DbType(d), NEW act, act = "add" => d.mine = "none"
    PROVE  DbType(AfterRating(d, act))
<1>1. d.invite \in RowsByFriend
      /\ d \in [friendship : RowsByFriend, invite : RowsByFriend, mine : RatingIs, published : SUBSET Others]
      /\ \A o \in Others : d.invite[o].is \in Inviting /\ (d.invite[o].is = "accepted" => d.mine # "none")
  BY DEF DbType
<1>2. CASE act = "add"
  BY <1>1, <1>2 DEF AfterRating, DbType, RatingIs
<1>3. CASE act # "add"
  <2> DEFINE i == [o \in Others |-> IF d.invite[o].is = "accepted" THEN Gone(d.invite[o]) ELSE d.invite[o]]
  <2>1. AfterRating(d, act) = [d EXCEPT !.mine = "none", !.invite = i]
    BY <1>1, <1>3 DEF AfterRating
  <2>2. \A o \in Others : i[o] \in RowsOf /\ i[o].is # "accepted" /\ i[o].is \in Inviting
    BY <1>1, RowTypes DEF RowsByFriend
  <2>3. i \in RowsByFriend
    BY <2>2 DEF RowsByFriend
  <2> HIDE DEF i
  <2> QED BY <1>1, <2>1, <2>2, <2>3 DEF DbType, RatingIs
<1> QED BY <1>2, <1>3

\* So is whatever another user does.
LEMMA ByAnotherType ==
    ASSUME NEW d, DbType(d), NEW o \in Others, NEW e \in ByAnother(d, o)
    PROVE  DbType(e)
<1> DEFINE f == d.friendship[o]
           i == d.invite[o]
<1>1. f \in RowsOf /\ i \in RowsOf /\ d.friendship \in RowsByFriend /\ d.invite \in RowsByFriend
      /\ d \in [friendship : RowsByFriend, invite : RowsByFriend, mine : RatingIs, published : SUBSET Others]
      /\ i.is \in Inviting
  BY DEF DbType, RowsByFriend
<1>2. CASE e = [d EXCEPT !.friendship[o] = Remade(f, "received")]
  <2>1. Remade(f, "received") \in RowsOf
    BY <1>1, RowTypes, RowKinds
  <2> HIDE DEF f
  <2> QED BY <1>2, <2>1, WithFriendship
<1>3. CASE e = [d EXCEPT !.friendship[o].is = "friends"]
  <2> DEFINE r == [f EXCEPT !.is = "friends"]
  <2>1. r \in RowsOf
    BY <1>1, RowTypes, RowKinds
  <2>2. e = [d EXCEPT !.friendship[o] = r]
    BY <1>1, <1>3 DEF RowsByFriend
  <2> HIDE DEF r
  <2> QED BY <2>1, <2>2, WithFriendship
<1>4. CASE e = AfterFriendship(d, "delete", o)
  BY <1>4, AfterFriendshipType DEF FriendActs
<1>5. CASE e = [d EXCEPT !.invite[o] = Remade(i, "incoming")]
  <2>1. Remade(i, "incoming") \in RowsOf /\ Remade(i, "incoming").is = "incoming"
        /\ Remade(i, "incoming").is \in Inviting
    BY <1>1, RowTypes, RowKinds DEF Remade, Row, Inviting
  <2> HIDE DEF i
  <2> QED BY <1>5, <2>1, WithInvite
<1>6. CASE e = [AfterInvite(d, "accept_invite", o) EXCEPT !.published = @]
  <2> DEFINE a == AfterInvite(d, "accept_invite", o)
  <2>1. DbType(a)
    BY AfterInviteType DEF InviteActs
  <2> HIDE DEF a
  <2>2. e = [a EXCEPT !.published = a.published] /\ a.published \subseteq Others
    BY <1>6, <2>1 DEF a, DbType
  <2> QED BY <2>1, <2>2, WithPublished
<1>7. CASE e = AfterInvite(d, "decline_invite", o) \/ e = AfterInvite(d, "cancel_invite", o)
  BY <1>7, AfterInviteType DEF InviteActs
<1>8. CASE e = [d EXCEPT !.published = @ \cup {o},
                         !.invite[o].is = IF @ = "accepted" /\ d.mine = "published" THEN "completed" ELSE @]
  <2> DEFINE s == IF i.is = "accepted" /\ d.mine = "published" THEN "completed" ELSE i.is
             r == [i EXCEPT !.is = s]
             P == d.published \cup {o}
             g == [d EXCEPT !.published = P]
  <2>1. s \in Inviting /\ (s = "accepted" => i.is = "accepted")
    BY <1>1 DEF Inviting
  <2>2. r \in RowsOf /\ r.is = s /\ r.is \in Inviting
    BY <1>1, <2>1 DEF RowsOf
  <2>3. P \subseteq Others
    BY <1>1
  <2>4. e = [g EXCEPT !.invite[o] = r]
    BY <1>1, <1>8 DEF RowsByFriend
  <2>5. s = "accepted" => d.mine # "none"
    BY <2>1 DEF DbType
  <2> HIDE DEF r, s, P
  <2>6. DbType(g) /\ g.mine = d.mine
    BY <1>1, <2>3, WithPublished
  <2> HIDE DEF g
  <2> QED BY <2>2, <2>4, <2>5, <2>6, WithInvite
<1>9. CASE e = [d EXCEPT !.published = @ \ {o}, !.invite[o] = IF @.is = "accepted" THEN Gone(@) ELSE @]
  <2> DEFINE r == IF i.is = "accepted" THEN Gone(i) ELSE i
             P == d.published \ {o}
             g == [d EXCEPT !.published = P]
  <2>1. r \in RowsOf /\ r.is # "accepted" /\ r.is \in Inviting
    BY <1>1, RowTypes
  <2>2. P \subseteq Others
    BY <1>1
  <2>3. e = [g EXCEPT !.invite[o] = r]
    BY <1>1, <1>9
  <2> HIDE DEF r, P
  <2>4. DbType(g)
    BY <2>2, WithPublished
  <2> HIDE DEF g
  <2> QED BY <2>1, <2>3, <2>4, WithInvite
<1>10. \/ e = [d EXCEPT !.friendship[o] = Remade(f, "received")]
       \/ e = [d EXCEPT !.friendship[o].is = "friends"]
       \/ e = AfterFriendship(d, "delete", o)
       \/ e = [d EXCEPT !.invite[o] = Remade(i, "incoming")]
       \/ e = [AfterInvite(d, "accept_invite", o) EXCEPT !.published = @]
       \/ e = AfterInvite(d, "decline_invite", o)
       \/ e = AfterInvite(d, "cancel_invite", o)
       \/ e = [d EXCEPT !.published = @ \cup {o},
                        !.invite[o].is = IF @ = "accepted" /\ d.mine = "published" THEN "completed" ELSE @]
       \/ e = [d EXCEPT !.published = @ \ {o}, !.invite[o] = IF @.is = "accepted" THEN Gone(@) ELSE @]
  BY Zenon DEF ByAnother, Remade, Row
<1> QED BY <1>2, <1>3, <1>4, <1>5, <1>6, <1>7, <1>8, <1>9, <1>10

----------------------------------------------------------------------------
(* The handlers of the buttons *)

\* What the handler of row r may have been asked for, on each page.
AskOK(r, act) ==
    \/ page = "album" /\ r = "rating" /\ act \in {"add", "delete_rating"}
    \/ page = "album" /\ r \in Others /\ act = "invite"
    \/ page = "later" /\ r = "rating" /\ act \in {"remove", "delete_rating"}
    \/ page = "later" /\ r \in Others /\ act \in InviteActs \ {"invite"}
    \/ (page = "friends" \/ OnProfile) /\ r \in Others /\ act \in FriendActs
    \/ page \in {"detail", "pair"} /\ r = "rating" /\ act = "delete_rating"

RowsOK == \A r \in Rows : row[r].at # "idle" => row[r].ask.with = r /\ AskOK(r, row[r].ask.act)

\* The types, and what is asked for.
PageTypesOK ==
    /\ DbType(db) /\ page \in Pages \cup Others /\ copy \in Copies /\ stale \in BOOLEAN
    /\ load \in PageJobs /\ row \in [Rows -> PageJobs] /\ RowsOK

\* The page is one of those there are, and a profile is none of the others.
LEMMA PageKinds ==
    ASSUME page \in Pages \cup Others
    PROVE  /\ OnProfile => page \notin Pages
           /\ \/ page = "album" \/ page = "later" \/ page = "friends" \/ page = "detail"
              \/ page = "own" \/ page = "pair" \/ OnProfile
BY PagesAssumption DEF OnProfile, Pages

\* What a button that is not a view asks for.
LEMMA OfferType ==
    ASSUME PageTypesOK, NEW a \in Offers, a.act \notin Views
    PROVE  /\ a \in PageAsks /\ a.with \in Rows /\ AskOK(a.with, a.act)
           /\ a.act = "delete_rating" => copy.rating = "published"
<1>1. copy \in Copies /\ page \in Pages \cup Others
  BY DEF PageTypesOK
<1>2. \A o \in Others : copy.friendships[o] \in RowsOf /\ copy.invites[o] \in RowsOf
  BY <1>1 DEF Copies, RowsByFriend
<1>3. \A o \in Others : o \in Rows /\ copy.friendships[o].id \in Nat /\ copy.invites[o].id \in Nat
  BY <1>2 DEF RowsOf, Rows
<1>4. CASE page = "album"
  <2>1. a \in IconActions(copy) \/ a \in InviteModal(copy) \/ a \in FriendRatingsPicker(copy)
    BY <1>4 DEF Offers
  <2>2. CASE a \in IconActions(copy)
    BY <1>4, <2>2 DEF IconActions, OnRating, Ask, PageAsks, PageActs, Rows, AskOK
  <2>3. CASE a \in InviteModal(copy)
    BY <1>3, <1>4, <2>3 DEF InviteModal, Ask, PageAsks, PageActs, InviteActs, AskOK
  <2>4. CASE a \in FriendRatingsPicker(copy)
    BY <2>4 DEF FriendRatingsPicker, Ask, Views
  <2> QED BY <2>1, <2>2, <2>3, <2>4
<1>5. CASE page = "later"
  <2>1. a \in SidebarInvite(copy) \/ a \in EntryCard(copy)
    BY <1>5 DEF Offers
  <2>2. CASE a \in SidebarInvite(copy)
    <3>1. PICK o \in Others : a \in {Ask("accept_invite", o, copy.invites[o].id),
                                     Ask("decline_invite", o, copy.invites[o].id),
                                     Ask("cancel_invite", o, copy.invites[o].id)}
      BY <2>2 DEF SidebarInvite
    <3>2. a.with = o /\ a.id = copy.invites[o].id /\ a.act \in InviteActs \ {"invite"}
          /\ a = [act |-> a.act, with |-> a.with, id |-> a.id]
      BY <3>1 DEF Ask, InviteActs
    <3> QED BY <1>3, <1>5, <3>2 DEF PageAsks, PageActs, AskOK, InviteActs
  <2>3. CASE a \in EntryCard(copy)
    BY <1>5, <2>3 DEF EntryCard, OnRating, Ask, PageAsks, PageActs, Rows, AskOK
  <2> QED BY <2>1, <2>2, <2>3
<1>6. ASSUME NEW o \in Others, a \in FriendshipButton(copy, o), page = "friends" \/ OnProfile
      PROVE  a \in PageAsks /\ a.with \in Rows /\ AskOK(a.with, a.act) /\ a.act # "delete_rating"
  <2>1. a \in {Ask("ask", o, 0), Ask("accept", o, copy.friendships[o].id),
               Ask("decline", o, copy.friendships[o].id),
               Ask("delete", o, copy.friendships[o].id)}
    BY <1>6 DEF FriendshipButton
  <2>2. a.with = o /\ a.id \in Nat /\ a.act \in FriendActs /\ a = [act |-> a.act, with |-> a.with, id |-> a.id]
    BY <1>3, <2>1 DEF Ask, FriendActs
  <2> QED BY <1>3, <1>6, <2>2 DEF PageAsks, PageActs, AskOK, FriendActs
<1>7. CASE page = "friends"
  BY <1>6, <1>7 DEF Offers
<1>8. CASE page \in {"detail", "pair"}
  BY <1>8 DEF Offers, RemoveRating, OnRating, Ask, PageAsks, PageActs, Rows, AskOK
<1>9. ASSUME a \in AlbumDetailPath PROVE FALSE
  BY <1>9 DEF AlbumDetailPath, Ask, Views
<1>10. CASE page = "own"
  BY <1>9, <1>10 DEF Offers, FriendCombobox, Ask, Views
<1>11. CASE OnProfile
  <2>1. page \in Others /\ page \notin Pages
    BY <1>1, <1>11, PageKinds DEF OnProfile
  <2>2. Offers = FriendshipButton(copy, page) \cup AlbumDetailPath
    BY <2>1 DEF Offers, Pages
  <2> QED BY <1>6, <1>9, <1>11, <2>1, <2>2
<1> QED BY <1>1, <1>4, <1>5, <1>7, <1>8, <1>10, <1>11, PageKinds

\* A handler that is put behind is where it was.
LEMMA BehindType == ASSUME NEW j \in PageJobs
    PROVE /\ Behind(j) \in PageJobs /\ Behind(j).at = j.at /\ Behind(j).ask = j.ask /\ Behind(j).data = j.data
          /\ ~Behind(j).fresh
BY DEF Behind, PageJobs

\* The handler of row r serves what fits the page.
LEMMA ServeType ==
    ASSUME PageTypesOK, NEW r \in Rows, row[r].at = "sent", Allows(db, row[r].ask)
    PROVE  DbType(After(db, row[r].ask))
<1> DEFINE a == row[r].ask
<1>1. DbType(db) /\ a.with = r /\ AskOK(r, a.act)
  BY DEF PageTypesOK, RowsOK
<1>2. "rating" \notin Others
  BY PagesAssumption
<1> HIDE DEF a
<1>3. CASE r \in Others
  <2>1. a.act \in FriendActs \/ (a.act \in InviteActs /\ a.act \notin FriendActs)
    BY <1>1, <1>2, <1>3 DEF AskOK, InviteActs, FriendActs
  <2> QED BY <1>1, <1>3, <2>1, AfterFriendshipType, AfterInviteType DEF After, a
<1>4. CASE r = "rating"
  <2>1. a.act \in {"add", "remove", "delete_rating"}
    BY <1>1, <1>2, <1>4 DEF AskOK
  <2>2. a.act = "add" => db.mine = "none"
    BY DEF Allows, RatingAllows, a, Views, FriendActs, InviteActs
  <2>3. After(db, a) = AfterRating(db, a.act)
    BY <2>1 DEF After, FriendActs, InviteActs
  <2> QED BY <1>1, <2>2, <2>3, AfterRatingType DEF a
<1> QED BY <1>3, <1>4 DEF Rows

\* What is loaded is a copy.
LEMMA ReadType == ASSUME PageTypesOK
                  PROVE  /\ Loaded(Snapshot(db)) \in Copies /\ LoadFriendships(Snapshot(db)) \in Copies
                         /\ \A a : Reads(a, Snapshot(db)) \in Copies
<1>1. Snapshot(db) \in Copies
  BY SnapshotType DEF PageTypesOK
<1> QED BY <1>1, LoadType DEF PageTypesOK

\* The parts of a handler.
LEMMA RowType == ASSUME PageTypesOK, NEW r \in Rows
                 PROVE  /\ row[r] \in PageJobs /\ row[r].ask \in PageAsks
                        /\ row[r].data \in Copies /\ row[r].fresh \in BOOLEAN
BY DEF PageTypesOK, PageJobs

\* One row changes, and what else does not matter to the types.
LEMMA OneRow ==
    ASSUME PageTypesOK, NEW r \in Rows, NEW j \in PageJobs, row' = [row EXCEPT ![r] = j], page' = page,
           j.at # "idle" => j.ask.with = r /\ AskOK(r, j.ask.act)
    PROVE  row' \in [Rows -> PageJobs] /\ RowsOK'
<1>1. row' \in [Rows -> PageJobs] /\ row \in [Rows -> PageJobs]
  BY DEF PageTypesOK
<1>2. \A x \in Rows : row'[x] = IF x = r THEN j ELSE row[x]
  BY <1>1
<1> QED BY <1>1, <1>2 DEF PageTypesOK, RowsOK, AskOK, OnProfile

\* An answer that says it all makes a copy of a copy.
LEMMA AnswerType == ASSUME NEW c \in Copies, NEW act
    PROVE  [c EXCEPT !.rating = IF act = "add" THEN "draft" ELSE "none"] \in Copies
BY DEF Copies, RatingIs

\* The steps of a handler.
RowStep(r) == \/ Serve(r) \/ Refuse(r) \/ LoseClick(r) \/ Answered(r)
              \/ ServeReread(r) \/ ShowReread(r) \/ LoseReread(r)

\* Each step keeps the types of what the pages have.
LEMMA PageTypesKept == ASSUME PageTypesOK, [PagesNext]_pageVars PROVE PageTypesOK'
<1>1. DbType(db) /\ page \in Pages \cup Others /\ copy \in Copies /\ stale \in BOOLEAN
      /\ load \in PageJobs /\ row \in [Rows -> PageJobs] /\ RowsOK
  BY DEF PageTypesOK
<1>2. ASSUME NEW o \in Others, Elsewhere(o) PROVE PageTypesOK'
  <2>1. db' \in ByAnother(db, o) /\ stale' = TRUE /\ load' = Behind(load)
        /\ row' = [r \in Rows |-> Behind(row[r])] /\ UNCHANGED <<page, copy>>
    BY <1>2 DEF Elsewhere
  <2>2. DbType(db')
    BY <1>1, <2>1, ByAnotherType
  <2>3. load' \in PageJobs
    BY <1>1, <2>1, BehindType
  <2>4. \A r \in Rows : row'[r] \in PageJobs /\ row'[r].at = row[r].at /\ row'[r].ask = row[r].ask
    BY <1>1, <2>1, BehindType
  <2>5. row' \in [Rows -> PageJobs]
    BY <2>1, <2>4
  <2>6. RowsOK'
    BY <1>1, <2>1, <2>4 DEF RowsOK, AskOK, OnProfile
  <2> QED BY <1>1, <2>1, <2>2, <2>3, <2>5, <2>6 DEF PageTypesOK, DbType
<1>3. CASE ServeLoad
  <2>1. /\ load' = [load EXCEPT !.at = "read", !.fresh = TRUE,
                            !.data = IF load.ask.act = "bump" THEN LoadFriendships(Snapshot(db))
                                     ELSE Loaded(Snapshot(db))]
        /\ UNCHANGED <<db, page, copy, row, stale>>
    BY <1>3 DEF ServeLoad
  <2>2. load' \in PageJobs
    BY <1>1, <2>1, ReadType DEF PageJobs
  <2> QED BY <1>1, <2>1, <2>2 DEF PageTypesOK, RowsOK, AskOK, OnProfile, DbType
<1>4. ASSUME NEW c \in Copies, NEW s \in BOOLEAN, LoadDone(c, s) PROVE PageTypesOK'
  BY <1>1, <1>4, IdleType DEF LoadDone, PageTypesOK, RowsOK, AskOK, OnProfile, DbType
<1>5. CASE ShowLoad
  <2>1. load.data \in Copies /\ load.fresh \in BOOLEAN
    BY <1>1 DEF PageJobs
  <2>2. (IF load.ask.act = "bump" THEN ReloadFriendships(copy, load.data) ELSE load.data) \in Copies
    BY <1>1, <2>1, ReloadType
  <2> QED BY <1>4, <1>5, <2>1, <2>2 DEF ShowLoad
<1>6. CASE LoseLoad
  BY <1>1, <1>4, <1>6, ReloadType DEF LoseLoad
<1>7. CASE Bump
  <2>1. load' = [Idle EXCEPT !.at = "sent", !.ask = OnRating("bump")]
        /\ UNCHANGED <<db, page, copy, row, stale>>
    BY <1>7 DEF Bump
  <2>2. OnRating("bump") \in PageAsks
    BY DEF OnRating, Ask, PageAsks, PageActs, Rows
  <2>3. load' \in PageJobs
    BY <2>1, <2>2, IdleType DEF PageJobs
  <2> QED BY <1>1, <2>1, <2>3 DEF PageTypesOK, RowsOK, AskOK, OnProfile, DbType
<1>8. ASSUME NEW a \in Offers, Click(a) PROVE PageTypesOK'
  <2>1. a.act \notin Views /\ row' = [row EXCEPT ![a.with] = [Idle EXCEPT !.at = "sent", !.ask = a]]
        /\ UNCHANGED <<db, page, copy, load, stale>>
    BY <1>8 DEF Click
  <2>2. a \in PageAsks /\ a.with \in Rows /\ AskOK(a.with, a.act)
    BY <2>1, OfferType
  <2>3. [Idle EXCEPT !.at = "sent", !.ask = a] \in PageJobs /\ [Idle EXCEPT !.at = "sent", !.ask = a].ask = a
    BY <2>2, IdleType DEF PageJobs
  <2>4. row' \in [Rows -> PageJobs] /\ RowsOK'
    BY <2>1, <2>2, <2>3, OneRow
  <2> QED BY <1>1, <2>1, <2>4 DEF PageTypesOK, DbType
<1>9. ASSUME NEW r \in Rows PROVE RowStep(r) => PageTypesOK'
  <2>1. ASSUME Ends(r), page' = page PROVE row' \in [Rows -> PageJobs] /\ RowsOK'
    BY <2>1, OneRow, IdleType DEF Ends
  <2>2. row[r] \in PageJobs /\ row[r].ask \in PageAsks /\ row[r].data \in Copies /\ row[r].fresh \in BOOLEAN
    BY RowType
  <2>3. CASE Serve(r)
    <3>1. /\ row[r].at = "sent" /\ Allows(db, row[r].ask) /\ db' = After(db, row[r].ask)
          /\ row' = [x \in Rows |-> IF x = r THEN [row[r] EXCEPT !.at = "done", !.fresh = ~stale]
                                       ELSE Behind(row[x])]
          /\ load' = Behind(load) /\ stale' = TRUE /\ UNCHANGED <<page, copy>>
      BY <2>3 DEF Serve
    <3>2. DbType(db') /\ load' \in PageJobs
      BY <1>1, <3>1, ServeType, BehindType
    <3>3. [row[r] EXCEPT !.at = "done", !.fresh = ~stale] \in PageJobs
          /\ [row[r] EXCEPT !.at = "done", !.fresh = ~stale].ask = row[r].ask
      BY <1>1, <2>2 DEF PageJobs
    <3>4. \A x \in Rows : /\ row'[x] \in PageJobs /\ row'[x].ask = row[x].ask
                          /\ row'[x].at # "idle" => row[x].at # "idle"
      BY <1>1, <3>1, <3>3, BehindType
    <3>5. row' \in [Rows -> PageJobs]
      BY <3>1, <3>4
    <3>6. RowsOK'
      BY <1>1, <3>1, <3>4 DEF RowsOK, AskOK, OnProfile
    <3> QED BY <1>1, <3>1, <3>2, <3>5, <3>6 DEF PageTypesOK, DbType
  <2>4. CASE Refuse(r) \/ LoseClick(r)
    BY <1>1, <2>1, <2>4 DEF Refuse, LoseClick, PageTypesOK, DbType
  <2>5. ASSUME NEW c \in Copies, NEW s \in BOOLEAN, Shows(c, s), Ends(r) PROVE PageTypesOK'
    BY <1>1, <2>1, <2>5 DEF Shows, PageTypesOK, DbType
  <2>6. CASE Answered(r)
    BY <1>1, <2>2, <2>5, <2>6, AnswerType DEF Answered
  <2>7. CASE ServeReread(r)
    <3> DEFINE j == [row[r] EXCEPT !.at = "read", !.data = Reads(row[r].ask, Snapshot(db)),
                                   !.fresh = row[r].fresh \/ page = "friends" \/ OnProfile]
    <3>1. row' = [row EXCEPT ![r] = j] /\ row[r].at = "done" /\ UNCHANGED <<db, page, copy, load, stale>>
      BY <1>1, <2>7 DEF ServeReread
    <3>2. j \in PageJobs /\ j.ask = row[r].ask
      BY <2>2, ReadType DEF PageJobs
    <3>3. j.ask.with = r /\ AskOK(r, j.ask.act)
      BY <1>1, <3>1, <3>2 DEF RowsOK
    <3> HIDE DEF j
    <3>4. row' \in [Rows -> PageJobs] /\ RowsOK'
      BY <3>1, <3>2, <3>3, OneRow
    <3> QED BY <1>1, <3>1, <3>4 DEF PageTypesOK, DbType
  <2>8. CASE ShowReread(r)
    BY <1>1, <2>2, <2>5, <2>8, ReloadType DEF ShowReread
  <2>9. CASE LoseReread(r)
    BY <1>1, <2>5, <2>9, ReloadType DEF LoseReread
  <2> QED BY <2>3, <2>4, <2>6, <2>7, <2>8, <2>9 DEF RowStep
<1>10. CASE Compare
  <2>1. /\ copy' = IF compare # Solo
               THEN [copy EXCEPT !.viewable = IF MayView(db, page) THEN {page} ELSE {}]
               ELSE copy
        /\ OnProfile /\ UNCHANGED <<db, page, load, row, stale>>
    BY <1>10 DEF Compare
  <2>2. copy' \in Copies
    BY <1>1, <2>1 DEF Copies, OnProfile
  <2> QED BY <1>1, <2>1, <2>2 DEF PageTypesOK, RowsOK, AskOK, OnProfile, DbType
<1>11. ASSUME UNCHANGED <<db, page, copy, load, row, stale>> PROVE PageTypesOK'
  BY <1>1, <1>11 DEF PageTypesOK, RowsOK, AskOK, OnProfile, DbType
<1>12. CASE Choose
  BY <1>11, <1>12 DEF Choose
<1>13. ASSUME NEW f \in dash.under, ServeDash(f) \/ ShowDash(f) \/ LoseDash(f) PROVE PageTypesOK'
  BY <1>11, <1>13 DEF ServeDash, ShowDash, LoseDash
<1>14. CASE UNCHANGED pageVars
  BY <1>11, <1>14 DEF pageVars
<1> QED BY <1>2, <1>3, <1>5, <1>6, <1>7, <1>8, <1>9, <1>10, <1>12, <1>13, <1>14 DEF PagesNext, RowStep

----------------------------------------------------------------------------
(* What a page shows is what the server has *)

\* The pages whose handlers must come one by one: the others load all they show again.
Serial == page \in {"album", "later", "detail", "pair"}

\* What the page shows of copy c is what database d has.
AsOnServer(d, c) ==
    /\ page = "album" =>
         /\ c.friendships = d.friendship /\ c.invites = ListMyInvites(d)
         /\ c.later.with = GetListenLater(d).with
         /\ c.rated = GetAlbumFriendRatings(d) /\ c.rating = d.mine
    /\ page = "later" => c.invites = ListMyInvites(d) /\ c.later = GetListenLater(d)
    /\ page \in {"later", "detail", "pair"} => (c.rating = "published" => d.mine = "published")
    /\ page \in {"friends", "own"} => c.friendships = d.friendship
    /\ OnProfile => c.friendships[page] = d.friendship[page]

\* A rating is only deleted that is shown as published.
StillMeant(j, c) == j.at = "sent" /\ j.ask.act = "delete_rating" => c.rating = "published"

\* Handlers that have changed nothing, and those whose answer makes up for all that has.
WaitingJob(j) == j.at \in {"idle", "sent"}
FreshJob(j) == j.at \in {"done", "read"} /\ j.fresh

\* What a page will show when handler j has ended.
AnswerShown(a, c) == [c EXCEPT !.rating = IF a.act = "add" THEN "draft" ELSE "none"]
Outcome(d, c, j) ==
    IF j.at = "done" /\ AnswerIsAll(j.ask) THEN AnswerShown(j.ask, c)
    ELSE Reloaded(j.ask, c, IF j.at = "read" THEN j.data ELSE Reads(j.ask, Snapshot(d)))

\* At most one handler is fresh, and what it will show is right.
SerialOK ==
    Serial =>
        /\ load.at # "idle" => load.ask.act = "none" /\ stale /\ \A r \in Rows : row[r].at = "idle"
        /\ ~stale => StillMeant(row["rating"], copy) /\ \A r \in Rows : WaitingJob(row[r])
        /\ \A r \in Rows : FreshJob(row[r]) =>
              /\ stale /\ \A x \in Rows \ {r} : WaitingJob(row[x])
              /\ AsOnServer(db, Outcome(db, copy, row[r]))
              /\ StillMeant(row["rating"], Outcome(db, copy, row[r]))

\* A copy that is not behind is right, and so is what has been read and not yet shown.
CopyOK ==
    /\ ~stale => AsOnServer(db, copy)
    /\ load.at = "read" /\ load.fresh => AsOnServer(db, load.data)
    /\ load.ask.act = "bump" => ~Serial
    /\ ~Serial => \A r \in Rows : row[r].at = "read" /\ row[r].fresh => AsOnServer(db, row[r].data)

\* What the endpoints tell.
LEMMA SnapshotFields ==
    ASSUME NEW d
    PROVE  /\ Snapshot(d).friendships = d.friendship /\ Snapshot(d).invites = ListMyInvites(d)
           /\ Snapshot(d).later = GetListenLater(d) /\ Snapshot(d).rated = GetAlbumFriendRatings(d)
           /\ Snapshot(d).rating = d.mine /\ Snapshot(d).compared = FetchComparison(d, compare)
BY DEF Snapshot

\* When the album is on a comparison.
LEMMA FetchFacts == ASSUME NEW d, NEW k
                    PROVE  FetchComparison(d, k) = "entry"
                             <=> MayCompare(d, k) /\ d.mine = "published" /\ k[2] \in d.published
BY DEF FetchComparison

\* What is loaded is right.
LEMMA LoadAsOnServer == ASSUME PageTypesOK PROVE AsOnServer(db, Loaded(Snapshot(db)))
<1> DEFINE s == Snapshot(db)
<1>1. s \in Copies /\ page \in Pages \cup Others
  BY SnapshotType DEF PageTypesOK
<1>2. /\ s.friendships = db.friendship /\ s.invites = ListMyInvites(db)
      /\ s.later = GetListenLater(db) /\ s.rated = GetAlbumFriendRatings(db)
      /\ s.rating = db.mine /\ s.compared = FetchComparison(db, compare)
  BY SnapshotFields
<1> HIDE DEF s
<1>3. s.compared = "entry" => db.mine = "published"
  BY <1>2, FetchFacts
<1>4. CASE page = "album"
  <2>1. Loaded(s) = [s EXCEPT !.viewable = {}, !.compared = "none"]
    BY <1>4 DEF Loaded, LoadAlbum
  <2>2. Loaded(s).friendships = s.friendships /\ Loaded(s).invites = s.invites /\ Loaded(s).later = s.later
        /\ Loaded(s).rated = s.rated /\ Loaded(s).rating = s.rating
    BY <1>1, <2>1 DEF Copies
  <2> QED BY <1>1, <1>2, <1>4, <2>2, PageKinds DEF AsOnServer, Pages, s
<1>5. CASE page = "later"
  <2>1. Loaded(s) = [Empty EXCEPT !.invites = s.invites, !.later = s.later, !.rating = s.rating]
    BY <1>5 DEF Loaded, LoadLater
  <2>2. Loaded(s).invites = s.invites /\ Loaded(s).later = s.later /\ Loaded(s).rating = s.rating
    BY <2>1 DEF Empty
  <2> QED BY <1>1, <1>2, <1>5, <2>2, PageKinds DEF AsOnServer, Pages, s
<1>6. CASE page = "detail" \/ page = "pair"
  <2>1. Loaded(s).rating = "published" => db.mine = "published"
    BY <1>2, <1>3, <1>6 DEF Loaded, LoadDetail, LoadPair, Empty
  <2> QED BY <1>1, <1>6, <2>1, PageKinds DEF AsOnServer, Pages, s
<1>7. CASE page = "friends" \/ page = "own"
  <2>1. Loaded(s).friendships = s.friendships
    BY <1>7 DEF Loaded, LoadFriends, Empty
  <2> QED BY <1>1, <1>2, <1>7, <2>1, PageKinds DEF AsOnServer, Pages, s
<1>8. CASE OnProfile
  <2>1. page \in Others /\ page \notin Pages
    BY <1>1, <1>8, PageKinds DEF OnProfile
  <2>2. Loaded(s) = LoadProfile(s)
    BY <2>1 DEF Loaded, Pages
  <2>3. Loaded(s).friendships[page] = s.friendships[page]
    BY <2>1, <2>2 DEF LoadProfile, Empty
  <2> QED BY <1>2, <2>1, <2>3 DEF AsOnServer, Pages, s
<1> QED BY <1>1, <1>4, <1>5, <1>6, <1>7, <1>8, PageKinds DEF s

\* On the other pages the friendships are all.
LEMMA FriendshipsAsOnServer ==
    ASSUME PageTypesOK, ~Serial, NEW c \in Copies
    PROVE  /\ AsOnServer(db, LoadFriendships(Snapshot(db)))
           /\ \A s : AsOnServer(db, s) => AsOnServer(db, ReloadFriendships(c, s))
           /\ \A e : e.friendships = c.friendships => (AsOnServer(db, c) <=> AsOnServer(db, e))
           /\ \A a, s : Reads(a, s) = LoadFriendships(s) /\ Reloaded(a, c, s) = ReloadFriendships(c, s)
<1>1. page \in Pages \cup Others /\ page \notin {"album", "later", "detail", "pair"}
  BY DEF PageTypesOK, Serial
<1>2. \A e : AsOnServer(db, e) <=> /\ page \in {"friends", "own"} => e.friendships = db.friendship
                                   /\ OnProfile => e.friendships[page] = db.friendship[page]
  BY <1>1 DEF AsOnServer
<1>3. \A s : ReloadFriendships(c, s).friendships = s.friendships
  BY DEF ReloadFriendships, Copies
<1>4. \A a, s : Reads(a, s) = LoadFriendships(s) /\ Reloaded(a, c, s) = ReloadFriendships(c, s)
  BY <1>1 DEF Reads, Reloaded
<1>5. AsOnServer(db, LoadFriendships(Snapshot(db)))
  <2> DEFINE s == Snapshot(db)
  <2>1. s.friendships = db.friendship
    BY SnapshotFields
  <2> HIDE DEF s
  <2>2. CASE OnProfile
    <3>1. page \in Others /\ page \notin Pages
      BY <1>1, <2>2, PageKinds DEF OnProfile
    <3>2. [LoadProfile(s) EXCEPT !.viewable = {}].friendships[page] = s.friendships[page]
      BY <3>1 DEF LoadProfile, Empty
    <3> QED BY <1>2, <2>1, <2>2, <3>1, <3>2 DEF LoadFriendships, Pages, s
  <2>3. CASE ~OnProfile
    <3>1. LoadFriendships(s).friendships = s.friendships
      BY <2>3 DEF LoadFriendships, LoadFriends, Empty
    <3> QED BY <1>2, <2>1, <2>3, <3>1 DEF s
  <2> QED BY <2>2, <2>3
<1> QED BY <1>2, <1>3, <1>4, <1>5

\* Without my rating the friendships, and the invites that are listed, are as they were.
LEMMA RemovalFacts ==
    ASSUME NEW d, DbType(d), NEW act, act # "add"
    PROVE  /\ AfterRating(d, act).friendship = d.friendship /\ AfterRating(d, act).published = d.published
           /\ AfterRating(d, act).mine = "none" /\ ListMyInvites(AfterRating(d, act)) = ListMyInvites(d)
<1> DEFINE i == [o \in Others |-> IF d.invite[o].is = "accepted" THEN Gone(d.invite[o]) ELSE d.invite[o]]
<1>1. d \in [friendship : RowsByFriend, invite : RowsByFriend, mine : RatingIs, published : SUBSET Others]
  BY DEF DbType
<1>2. AfterRating(d, act) = [d EXCEPT !.mine = "none", !.invite = i]
  BY <1>1 DEF AfterRating
<1>3. \A o \in Others : Pending(i[o]) = Pending(d.invite[o])
  <2>1. \A o \in Others : d.invite[o] \in RowsOf
    BY <1>1 DEF RowsByFriend
  <2> QED BY <2>1, RowTypes DEF Pending
<1> HIDE DEF i
<1> QED BY <1>1, <1>2, <1>3 DEF ListMyInvites

\* Without a draft there is nothing in Listen & Rate.
LEMMA NoDraft == ASSUME NEW d, d.mine # "draft" PROVE GetListenLater(d) = [there |-> FALSE, with |-> {}]
BY DEF GetListenLater

\* An answer, or what is loaded after it, makes up for what has been served.
LEMMA ServedAsOnServer ==
    ASSUME PageTypesOK, Serial, AsOnServer(db, copy), StillMeant(row["rating"], copy),
           NEW r \in Rows, row[r].at = "sent", Allows(db, row[r].ask),
           NEW j, j.at = "done", j.ask = row[r].ask
    PROVE  AsOnServer(After(db, row[r].ask), Outcome(After(db, row[r].ask), copy, j))
<1> DEFINE a == row[r].ask
           d == After(db, a)
           s == Snapshot(d)
<1>1. DbType(db) /\ a.with = r /\ AskOK(r, a.act) /\ copy \in Copies /\ page \in Pages \cup Others
  BY DEF PageTypesOK, RowsOK
<1>2. "rating" \notin Others /\ (page \in Pages => ~OnProfile) /\ page # "friends" /\ page # "own"
  BY <1>1, PagesAssumption DEF OnProfile, Serial
<1>3. /\ s.friendships = d.friendship /\ s.invites = ListMyInvites(d)
      /\ s.later = GetListenLater(d) /\ s.rated = GetAlbumFriendRatings(d)
      /\ s.rating = d.mine
  BY SnapshotFields
<1>4. page \in Pages /\ ~OnProfile
  BY <1>2 DEF Serial, Pages
<1>5. db \in [friendship : RowsByFriend, invite : RowsByFriend, mine : RatingIs, published : SUBSET Others]
  BY <1>1 DEF DbType
<1>6. CASE r = "rating"
  <2>1. a.act \in {"add", "remove", "delete_rating"}
    BY <1>1, <1>2, <1>6 DEF AskOK
  <2>2. d = AfterRating(db, a.act)
    BY <2>1 DEF After, FriendActs, InviteActs
  <2>3. a.act = "add" => db.mine = "none"
    BY DEF Allows, RatingAllows, Views, FriendActs, InviteActs
  <2>4. a.act = "remove" => db.mine = "draft"
    BY DEF Allows, RatingAllows, Views, FriendActs, InviteActs
  <2>5. a.act = "delete_rating" => copy.rating = "published"
    BY <1>6 DEF StillMeant
  <2>6. a.act # "add" => /\ d.friendship = db.friendship /\ d.published = db.published
                         /\ d.mine = "none" /\ ListMyInvites(d) = ListMyInvites(db)
    BY <1>1, <2>2, RemovalFacts
  <2>7. a.act = "add" => d = [db EXCEPT !.mine = "draft"]
    BY <2>2 DEF AfterRating
  <2> HIDE DEF d, s, a
  <2>8. CASE page = "album"
    <3>1. Outcome(d, copy, j) = AnswerShown(a, copy)
      BY <1>1, <1>6, <2>8 DEF Outcome, AnswerIsAll, a
    <3>2. /\ AnswerShown(a, copy).friendships = copy.friendships /\ AnswerShown(a, copy).invites = copy.invites
          /\ AnswerShown(a, copy).later = copy.later /\ AnswerShown(a, copy).rated = copy.rated
          /\ AnswerShown(a, copy).rating = IF a.act = "add" THEN "draft" ELSE "none"
      BY <1>1 DEF AnswerShown, Copies
    <3>3. /\ copy.friendships = db.friendship /\ copy.invites = ListMyInvites(db)
          /\ copy.later.with = GetListenLater(db).with
          /\ copy.rated = GetAlbumFriendRatings(db) /\ copy.rating = db.mine
      BY <2>8 DEF AsOnServer
    <3>4. copy.later.with = {}
      BY <2>1, <2>3, <2>5, <3>3, <1>1, <1>2, <1>6, <2>8, NoDraft DEF AskOK
    <3>5. d.friendship = db.friendship /\ d.published = db.published /\ ListMyInvites(d) = ListMyInvites(db)
          /\ d.mine = (IF a.act = "add" THEN "draft" ELSE "none")
      BY <1>5, <2>6, <2>7 DEF ListMyInvites
    <3>6. GetListenLater(d).with = {}
      <4>1. CASE a.act = "add"
        <5>1. \A o \in Others : d.invite[o].is # "accepted"
          BY <1>1, <1>5, <2>3, <2>7, <4>1 DEF DbType
        <5> QED BY <5>1 DEF GetListenLater
      <4>2. CASE a.act # "add"
        BY <3>5, <4>2, NoDraft
      <4> QED BY <4>1, <4>2
    <3>7. GetAlbumFriendRatings(d) = GetAlbumFriendRatings(db)
      BY <3>5 DEF GetAlbumFriendRatings, Friends
    <3> QED BY <1>4, <2>8, <3>1, <3>2, <3>3, <3>4, <3>5, <3>6, <3>7 DEF AsOnServer, d, a
  <2>9. CASE page = "later"
    <3>1. a.act \in {"remove", "delete_rating"}
      BY <1>1, <1>2, <1>6, <2>9 DEF AskOK
    <3>2. copy.invites = ListMyInvites(db) /\ copy.later = GetListenLater(db)
          /\ (copy.rating = "published" => db.mine = "published")
      BY <2>9 DEF AsOnServer
    <3>3. ~(j.at = "done" /\ AnswerIsAll(j.ask)) /\ j.at # "read"
      BY <2>9 DEF AnswerIsAll
    <3>4. Outcome(d, copy, j) = Reloaded(a, copy, Reads(a, s))
      BY <3>3 DEF Outcome, s, a
    <3>5. CASE a.act = "remove"
      <4>1. Outcome(d, copy, j) = ReloadInviteState(copy, [Empty EXCEPT !.invites = s.invites, !.later = s.later])
        BY <2>9, <3>4, <3>5 DEF Reloaded, Reads
      <4>2. Outcome(d, copy, j).invites = s.invites /\ Outcome(d, copy, j).later = s.later
            /\ Outcome(d, copy, j).rating = copy.rating
        BY <1>1, <4>1 DEF ReloadInviteState, Empty, Copies
      <4> QED BY <1>3, <1>4, <2>4, <2>9, <3>2, <3>5, <4>2 DEF AsOnServer, d, a, s
    <3>6. CASE a.act = "delete_rating"
      <4>1. Outcome(d, copy, j) = ReloadCompleted(copy, LoadDetail(s))
        BY <2>9, <3>4, <3>6 DEF Reloaded, Reads
      <4>2. LoadDetail(s).rating = "none"
        BY <1>3, <2>6, <3>6 DEF LoadDetail, Empty
      <4>3. Outcome(d, copy, j).invites = copy.invites /\ Outcome(d, copy, j).later = copy.later
            /\ Outcome(d, copy, j).rating = "none"
        BY <1>1, <4>1, <4>2 DEF ReloadCompleted, Copies
      <4>4. GetListenLater(d) = GetListenLater(db)
        BY <2>5, <2>6, <3>2, <3>6, NoDraft
      <4> QED BY <1>4, <2>6, <2>9, <3>2, <3>6, <4>3, <4>4 DEF AsOnServer, d, a
    <3> QED BY <3>1, <3>5, <3>6
  <2>10. CASE page \in {"detail", "pair"}
    <3>1. a.act = "delete_rating"
      BY <1>1, <1>2, <1>4, <1>6, <2>10 DEF AskOK
    <3>2. Outcome(d, copy, j) = AnswerShown(a, copy)
      BY <2>10 DEF Outcome, AnswerIsAll, a
    <3>3. AnswerShown(a, copy).rating = "none"
      BY <1>1, <3>1 DEF AnswerShown, Copies
    <3> QED BY <1>4, <2>10, <3>2, <3>3 DEF AsOnServer, d, a
  <2> QED BY <2>8, <2>9, <2>10 DEF Serial, d, a
<1>7. CASE r \in Others
  <2>1. page \in {"album", "later"} /\ a.act \in InviteActs /\ (page = "album" => a.act = "invite")
    BY <1>1, <1>2, <1>4, <1>7 DEF AskOK, InviteActs
  <2>2. d = AfterInvite(db, a.act, r)
    BY <1>1, <2>1 DEF After, InviteActs, FriendActs
  <2> HIDE DEF d, a, s
  <2>3. ~(j.at = "done" /\ AnswerIsAll(j.ask)) /\ j.at # "read"
    BY <1>1, <1>2, <1>7, <2>1 DEF AnswerIsAll, a
  <2>4. Outcome(d, copy, j) = ReloadInviteState(copy, [Empty EXCEPT !.invites = s.invites, !.later = s.later])
    BY <2>1, <2>3 DEF Outcome, Reloaded, Reads, InviteActs, s, a
  <2>5. Outcome(d, copy, j).invites = s.invites /\ Outcome(d, copy, j).later = s.later
        /\ Outcome(d, copy, j).rating = copy.rating /\ Outcome(d, copy, j).friendships = copy.friendships
        /\ Outcome(d, copy, j).rated = copy.rated
    BY <1>1, <2>4 DEF ReloadInviteState, Empty, Copies
  <2>6. CASE page = "album"
    <3>1. d.friendship = db.friendship /\ d.mine = db.mine /\ d.published = db.published
      BY <1>5, <2>1, <2>2, <2>6 DEF AfterInvite
    <3>2. GetAlbumFriendRatings(d) = GetAlbumFriendRatings(db)
      BY <3>1 DEF GetAlbumFriendRatings, Friends
    <3> QED BY <1>3, <1>4, <2>5, <2>6, <3>1, <3>2 DEF AsOnServer, d, a, s
  <2>7. CASE page = "later"
    <3>1. db.mine = "published" => d.mine = "published"
      BY <1>5, <2>1, <2>2 DEF AfterInvite, InviteActs
    <3> QED BY <1>3, <1>4, <2>5, <2>7, <3>1 DEF AsOnServer, d, a, s
  <2> QED BY <2>1, <2>6, <2>7
<1> QED BY <1>6, <1>7 DEF Rows

----------------------------------------------------------------------------
(* The steps keep it *)

\* A notification reloads none of the pages whose handlers must come one by one.
LEMMA BumpPages == page = "friends" \/ Comparing => ~Serial
BY PagesAssumption DEF Comparing, OnProfile, Serial, Pages

\* The page is not left.
LEMMA SamePage == ASSUME page' = page PROVE Serial' = Serial /\ OnProfile' = OnProfile
BY DEF Serial, OnProfile

\* Whether a copy is right depends on the page alone.
LEMMA SameAsOnServer == ASSUME page' = page PROVE \A d, c : AsOnServer(d, c)' = AsOnServer(d, c)
BY DEF AsOnServer, OnProfile

\* An invite leaves the rating that is shown alone.
LEMMA OutcomeRating ==
    ASSUME PageTypesOK, Serial, NEW r \in Others, NEW d, row[r].at # "idle"
    PROVE  Outcome(d, copy, row[r]).rating = copy.rating
<1>1. row[r].ask.with = r /\ AskOK(r, row[r].ask.act) /\ r \in Rows
      /\ copy \in Copies /\ page \in Pages \cup Others
  BY DEF PageTypesOK, RowsOK, Rows
<1>2. "rating" \notin Others /\ ~OnProfile /\ page # "friends"
  BY PagesAssumption DEF Serial, OnProfile, Pages
<1>3. page \in {"album", "later"} /\ row[r].ask.act # "delete_rating"
  BY <1>1, <1>2 DEF AskOK, InviteActs
<1>4. ~AnswerIsAll(row[r].ask)
  BY <1>1, <1>2, <1>3 DEF AnswerIsAll
<1>5. \A s : Reloaded(row[r].ask, copy, s).rating = copy.rating
  BY <1>1, <1>3 DEF Reloaded, ReloadInviteState, Copies
<1> QED BY <1>4, <1>5 DEF Outcome

\* The copy after a handler has ended is right if what it has shown was.
LEMMA HandlerEnds ==
    ASSUME PageTypesOK, SerialOK, CopyOK, Serial, NEW r \in Rows, row[r].at \in {"done", "read"},
           Ends(r), page' = page, db' = db, load' = load,
           stale' = TRUE \/ (FreshJob(row[r]) /\ stale' = FALSE /\ copy' = Outcome(db, copy, row[r]))
    PROVE  SerialOK' /\ CopyOK'
<1>1. row' = [row EXCEPT ![r] = Idle] /\ row \in [Rows -> PageJobs]
      /\ row'[r] = Idle /\ \A x \in Rows \ {r} : row'[x] = row[x]
  BY DEF PageTypesOK, Ends
<1>2. load.at = "idle"
  BY DEF SerialOK
<1>3. \A x \in Rows \ {r} : ~FreshJob(row[x])
  BY DEF SerialOK, WaitingJob
<1>4. \A x \in Rows : ~FreshJob(row'[x])
  BY <1>1, <1>3, IdleType DEF FreshJob
<1>5. ASSUME FreshJob(row[r]), copy' = Outcome(db, copy, row[r])
      PROVE  /\ AsOnServer(db, copy') /\ StillMeant(row'["rating"], copy')
             /\ \A x \in Rows : WaitingJob(row'[x])
  <2>1. AsOnServer(db, copy') /\ StillMeant(row["rating"], copy') /\ \A x \in Rows \ {r} : WaitingJob(row[x])
    BY <1>5 DEF SerialOK
  <2>2. "rating" \in Rows
    BY DEF Rows
  <2> QED BY <1>1, <2>1, <2>2, IdleType DEF StillMeant, WaitingJob
<1>6. SerialOK'
  BY <1>2, <1>4, <1>5 DEF SerialOK, FreshJob, StillMeant, WaitingJob
<1>7. CopyOK'
  BY <1>2, <1>5, SameAsOnServer, SamePage DEF CopyOK
<1> QED BY <1>6, <1>7

\* The same pages, server and copy, and rows that are no fresher.
LEMMA NothingShown ==
    ASSUME PageTypesOK, SerialOK, CopyOK, UNCHANGED <<db, page, copy, compare, load, stale>>,
           \A r \in Rows : row'[r] = row[r] \/ row'[r] = Idle
    PROVE  SerialOK' /\ CopyOK'
<1>1. \A r \in Rows : row'[r] = row[r] \/ ~FreshJob(row'[r])
  BY IdleType DEF FreshJob
<1>2. \A r \in Rows : WaitingJob(row[r]) => WaitingJob(row'[r])
  BY IdleType DEF WaitingJob
<1>3. \A c : StillMeant(row["rating"], c) => StillMeant(row'["rating"], c)
  <2>1. row'["rating"] = row["rating"] \/ row'["rating"] = Idle
    BY DEF Rows
  <2> QED BY <2>1, IdleType DEF StillMeant
<1>4. \A j : Outcome(db, copy, j)' = Outcome(db, copy, j)
  BY DEF Outcome, AnswerShown, AnswerIsAll, Reloaded, Reads, ReloadInviteState,
         ReloadCompleted, ReloadFriendships,
         LoadFriendships, LoadFriends, LoadProfile, LoadDetail, Snapshot, OnProfile
<1>5. SerialOK'
  <2> SUFFICES ASSUME Serial PROVE SerialOK'
    BY SamePage DEF SerialOK
  <2>1. /\ load.at # "idle" => load.ask.act = "none" /\ stale /\ \A r \in Rows : row[r].at = "idle"
        /\ ~stale => StillMeant(row["rating"], copy) /\ \A r \in Rows : WaitingJob(row[r])
        /\ \A r \in Rows : FreshJob(row[r]) =>
              /\ stale /\ \A x \in Rows \ {r} : WaitingJob(row[x])
              /\ AsOnServer(db, Outcome(db, copy, row[r]))
              /\ StillMeant(row["rating"], Outcome(db, copy, row[r]))
    BY DEF SerialOK
  <2>2. load'.at # "idle" => load'.ask.act = "none" /\ stale' /\ \A r \in Rows : row'[r].at = "idle"
    BY <2>1, IdleType
  <2>3. ~stale' => StillMeant(row'["rating"], copy') /\ \A r \in Rows : WaitingJob(row'[r])
    BY <1>2, <1>3, <2>1
  <2>4. ASSUME NEW r \in Rows, FreshJob(row'[r])
        PROVE  /\ stale' /\ \A x \in Rows \ {r} : WaitingJob(row'[x])
               /\ AsOnServer(db, Outcome(db, copy, row'[r]))
               /\ StillMeant(row'["rating"], Outcome(db, copy, row'[r]))
    BY <1>1, <1>2, <1>3, <2>1, <2>4
  <2> QED BY <1>4, <2>2, <2>3, <2>4, SameAsOnServer, SamePage DEF SerialOK, FreshJob, StillMeant, WaitingJob
<1>6. CopyOK'
  BY <1>1, SameAsOnServer, SamePage, IdleType DEF CopyOK
<1> QED BY <1>5, <1>6

\* A load ends: with a right copy, or a stale one.
LEMMA LoadEnds ==
    ASSUME PageTypesOK, SerialOK, CopyOK, load.at # "idle", NEW c \in Copies, NEW s \in BOOLEAN,
           LoadDone(c, s), ~s => AsOnServer(db, c)
    PROVE  SerialOK' /\ CopyOK'
<1>1. copy' = c /\ stale' = s /\ load' = Idle /\ UNCHANGED <<db, page, row>>
  BY DEF LoadDone
<1>2. Serial => \A r \in Rows : row[r].at = "idle"
  BY DEF SerialOK
<1>3. "rating" \in Rows
  BY DEF Rows
<1>4. SerialOK'
  BY <1>1, <1>2, <1>3, SamePage, IdleType DEF SerialOK, FreshJob, StillMeant, WaitingJob
<1>5. CopyOK'
  BY <1>1, SamePage, SameAsOnServer, IdleType DEF CopyOK
<1> QED BY <1>4, <1>5

\* The copy changes on one of the other pages.
LEMMA OtherPage ==
    ASSUME PageTypesOK, CopyOK, ~Serial, UNCHANGED <<db, page, load>>, ~stale' => AsOnServer(db, copy'),
           \A r \in Rows : row'[r].at = "read" /\ row'[r].fresh => row'[r] = row[r] \/ AsOnServer(db, row'[r].data)
    PROVE  SerialOK' /\ CopyOK'
<1>1. SerialOK'
  BY SamePage DEF SerialOK
<1>2. \A r \in Rows : row'[r].at = "read" /\ row'[r].fresh => AsOnServer(db, row'[r].data)
  BY DEF CopyOK
<1>3. CopyOK'
  BY <1>2, SamePage, SameAsOnServer DEF CopyOK
<1> QED BY <1>1, <1>3

\* Each step keeps what is shown as it is on the server.
LEMMA CopyOKKept == ASSUME PageTypesOK, SerialOK, CopyOK, [PagesNext]_pageVars PROVE SerialOK' /\ CopyOK'
<1>1. DbType(db) /\ page \in Pages \cup Others /\ copy \in Copies /\ stale \in BOOLEAN
      /\ load \in PageJobs /\ row \in [Rows -> PageJobs] /\ RowsOK
  BY DEF PageTypesOK
<1>2. ASSUME NEW o \in Others, Elsewhere(o) PROVE SerialOK' /\ CopyOK'
  <2>1. stale' = TRUE /\ load' = Behind(load) /\ row' = [r \in Rows |-> Behind(row[r])]
        /\ UNCHANGED <<page, copy>>
    BY <1>2 DEF Elsewhere
  <2>2. load'.at = load.at /\ load'.ask = load.ask /\ ~load'.fresh
    BY <1>1, <2>1, BehindType
  <2>3. \A r \in Rows : row'[r].at = row[r].at /\ ~row'[r].fresh
    BY <1>1, <2>1, BehindType
  <2>4. SerialOK'
    BY <2>1, <2>2, <2>3, SamePage DEF SerialOK, FreshJob
  <2>5. CopyOK'
    BY <2>1, <2>2, <2>3, SamePage DEF CopyOK
  <2> QED BY <2>4, <2>5
<1>3. CASE ServeLoad
  <2>1. /\ load.at = "sent"
        /\ load' = [load EXCEPT !.at = "read", !.fresh = TRUE,
                            !.data = IF load.ask.act = "bump" THEN LoadFriendships(Snapshot(db))
                                     ELSE Loaded(Snapshot(db))]
        /\ UNCHANGED <<db, page, copy, compare, row, stale>>
    BY <1>3 DEF ServeLoad
  <2>2. load'.at = "read" /\ load'.ask = load.ask
        /\ load'.data = IF load.ask.act = "bump" THEN LoadFriendships(Snapshot(db)) ELSE Loaded(Snapshot(db))
    BY <1>1, <2>1 DEF PageJobs
  <2>3. AsOnServer(db, load'.data)
    BY <1>1, <2>2, LoadAsOnServer, FriendshipsAsOnServer DEF CopyOK
  <2>4. Serial => \A r \in Rows : row[r].at = "idle"
    BY <2>1 DEF SerialOK
  <2>5. SerialOK'
    BY <2>1, <2>2, <2>4, SamePage DEF SerialOK, FreshJob, WaitingJob, StillMeant
  <2>6. CopyOK'
    BY <2>1, <2>2, <2>3, SamePage, SameAsOnServer DEF CopyOK
  <2> QED BY <2>5, <2>6
<1>4. CASE ShowLoad
  <2> DEFINE c == IF load.ask.act = "bump" THEN ReloadFriendships(copy, load.data) ELSE load.data
  <2>1. load.at = "read" /\ LoadDone(c, ~load.fresh)
    BY <1>4 DEF ShowLoad
  <2>2. load.data \in Copies /\ load.fresh \in BOOLEAN
    BY <1>1 DEF PageJobs
  <2>3. c \in Copies
    BY <1>1, <2>2, ReloadType
  <2>4. load.fresh => AsOnServer(db, c)
    BY <1>1, <2>1, FriendshipsAsOnServer DEF CopyOK
  <2> HIDE DEF c
  <2> QED BY <2>1, <2>2, <2>3, <2>4, LoadEnds
<1>5. CASE LoseLoad
  <2>1. load.at = "sent" /\ LoadDone(ReloadFailed(copy), TRUE)
    BY <1>5 DEF LoseLoad
  <2>2. ReloadFailed(copy) \in Copies
    BY <1>1, ReloadType
  <2> QED BY <2>1, <2>2, LoadEnds
<1>6. CASE Bump
  <2>1. load' = [Idle EXCEPT !.at = "sent", !.ask = OnRating("bump")] /\ UNCHANGED <<db, page, copy, row, stale>>
        /\ ~Serial
    BY <1>6, BumpPages DEF Bump
  <2>2. load'.at = "sent"
    BY <2>1 DEF Idle
  <2>3. SerialOK' /\ CopyOK'
    BY <2>1, <2>2, SamePage, SameAsOnServer DEF SerialOK, CopyOK
  <2> QED BY <2>3
<1>7. ASSUME NEW a \in Offers, Click(a) PROVE SerialOK' /\ CopyOK'
  <2> DEFINE j == [Idle EXCEPT !.at = "sent", !.ask = a]
  <2>1. Showing /\ a.act \notin Views /\ row[a.with].at = "idle" /\ row' = [row EXCEPT ![a.with] = j]
        /\ UNCHANGED <<db, page, copy, compare, load, stale>>
    BY <1>7 DEF Click
  <2>2. a \in PageAsks /\ a.with \in Rows /\ (a.act = "delete_rating" => copy.rating = "published")
    BY <2>1, OfferType
  <2>3. j.at = "sent" /\ j.ask = a
    BY DEF Idle
  <2> HIDE DEF j
  <2>4. row'[a.with] = j /\ \A r \in Rows \ {a.with} : row'[r] = row[r]
    BY <1>1, <2>1, <2>2
  <2>5. CASE ~Serial
    BY <2>1, <2>3, <2>4, <2>5, OtherPage DEF CopyOK
  <2>6. CASE Serial
    <3>1. load.at = "idle"
      BY <2>1, <2>6 DEF Showing, CopyOK
    <3>2. ~stale => StillMeant(row["rating"], copy) /\ \A r \in Rows : WaitingJob(row[r])
      BY <2>6 DEF SerialOK
    <3>3. ~stale => StillMeant(row'["rating"], copy) /\ \A r \in Rows : WaitingJob(row'[r])
      BY <2>2, <2>3, <2>4, <3>2 DEF StillMeant, WaitingJob, Rows
    <3>4. ASSUME NEW r \in Rows, FreshJob(row'[r])
          PROVE  /\ stale /\ \A x \in Rows \ {r} : WaitingJob(row'[x])
                 /\ AsOnServer(db, Outcome(db, copy, row'[r]))
                 /\ StillMeant(row'["rating"], Outcome(db, copy, row'[r]))
      <4>1. r # a.with /\ row'[r] = row[r] /\ FreshJob(row[r])
        BY <2>3, <2>4, <3>4 DEF FreshJob
      <4>2. /\ stale /\ \A x \in Rows \ {r} : WaitingJob(row[x])
            /\ AsOnServer(db, Outcome(db, copy, row[r]))
            /\ StillMeant(row["rating"], Outcome(db, copy, row[r]))
        BY <2>6, <4>1 DEF SerialOK
      <4>3. \A x \in Rows \ {r} : WaitingJob(row'[x])
        BY <2>3, <2>4, <4>2 DEF WaitingJob
      <4>4. StillMeant(row'["rating"], Outcome(db, copy, row[r]))
        <5>1. CASE a.with # "rating"
          BY <2>4, <4>2, <5>1 DEF Rows
        <5>2. CASE a.with = "rating"
          <6>1. r \in Others /\ row[r].at # "idle"
            BY <4>1, <5>2 DEF Rows, FreshJob
          <6>2. Outcome(db, copy, row[r]).rating = copy.rating
            BY <2>6, <6>1, OutcomeRating
          <6> HIDE DEF Outcome
          <6> QED BY <2>2, <2>3, <2>4, <5>2, <6>2 DEF StillMeant
        <5> QED BY <5>1, <5>2
      <4> QED BY <4>1, <4>2, <4>3, <4>4
    <3>5. \A k : Outcome(db, copy, k)' = Outcome(db, copy, k)
      BY <2>1 DEF Outcome, AnswerShown, AnswerIsAll, Reloaded, Reads, ReloadInviteState,
         ReloadCompleted, ReloadFriendships,
             LoadFriendships, LoadFriends, LoadProfile, LoadDetail, Snapshot, OnProfile
    <3>6. SerialOK'
      BY <2>1, <3>1, <3>3, <3>4, <3>5, SameAsOnServer DEF SerialOK, FreshJob, StillMeant, WaitingJob
    <3>7. CopyOK'
      BY <2>1, <2>6, SamePage, SameAsOnServer DEF CopyOK
    <3> QED BY <3>6, <3>7
  <2> QED BY <2>5, <2>6
<1>8. ASSUME NEW r \in Rows PROVE RowStep(r) => SerialOK' /\ CopyOK'
  <2>2. row[r] \in PageJobs /\ row[r].ask \in PageAsks /\ row[r].data \in Copies /\ row[r].fresh \in BOOLEAN
    BY RowType
  <2>3. CASE Serve(r)
    <3> DEFINE j == [row[r] EXCEPT !.at = "done", !.fresh = ~stale]
               d == After(db, row[r].ask)
    <3>1. /\ row[r].at = "sent" /\ Allows(db, row[r].ask) /\ db' = d
          /\ row' = [x \in Rows |-> IF x = r THEN j ELSE Behind(row[x])]
          /\ load' = Behind(load) /\ stale' = TRUE /\ UNCHANGED <<page, copy, compare>>
      BY <2>3 DEF Serve
    <3>2. j.at = "done" /\ j.ask = row[r].ask /\ j.fresh = ~stale
      BY <2>2 DEF PageJobs
    <3> HIDE DEF j, d
    <3>3. load'.at = load.at /\ load'.ask = load.ask /\ ~load'.fresh
      BY <1>1, <3>1, BehindType
    <3>4. /\ row'[r] = j
          /\ \A x \in Rows \ {r} : row'[x].at = row[x].at /\ row'[x].ask = row[x].ask /\ ~row'[x].fresh
      BY <1>1, <3>1, BehindType
    <3>5. CopyOK'
      BY <3>1, <3>2, <3>3, <3>4, SamePage DEF CopyOK
    <3>6. SerialOK'
      <4> SUFFICES ASSUME Serial PROVE SerialOK'
        BY <3>1, SamePage DEF SerialOK
      <4>1. load.at = "idle"
        BY <3>1 DEF SerialOK
      <4>2. ASSUME NEW x \in Rows, FreshJob(row'[x])
            PROVE  /\ \A y \in Rows \ {x} : WaitingJob(row'[y])
                   /\ AsOnServer(d, Outcome(d, copy, row'[x]))
                   /\ StillMeant(row'["rating"], Outcome(d, copy, row'[x]))
        <5>1. x = r /\ ~stale
          BY <3>2, <3>4, <4>2 DEF FreshJob
        <5>2. AsOnServer(db, copy) /\ StillMeant(row["rating"], copy) /\ \A y \in Rows : WaitingJob(row[y])
          BY <5>1 DEF SerialOK, CopyOK
        <5>3. AsOnServer(d, Outcome(d, copy, j))
          BY <3>1, <3>2, <5>2, ServedAsOnServer DEF d
        <5>4. \A y \in Rows \ {x} : WaitingJob(row'[y])
          BY <3>4, <5>1, <5>2 DEF WaitingJob
        <5>5. StillMeant(row'["rating"], Outcome(d, copy, j))
          <6>1. CASE r = "rating"
            BY <3>2, <3>4, <6>1 DEF StillMeant
          <6>2. CASE r # "rating"
            <7>1. r \in Others /\ "rating" \in Rows \ {r}
              BY <6>2 DEF Rows
            <7>2. Outcome(d, copy, j).rating = copy.rating
              <8>1. row[r].ask.with = r /\ AskOK(r, row[r].ask.act)
                BY <1>1, <3>1 DEF RowsOK
              <8>2. "rating" \notin Others /\ ~OnProfile /\ page # "friends"
                BY PagesAssumption DEF Serial, OnProfile, Pages
              <8>3. page \in {"album", "later"} /\ row[r].ask.act # "delete_rating"
                BY <7>1, <8>1, <8>2 DEF AskOK, InviteActs
              <8>4. ~AnswerIsAll(row[r].ask)
                BY <6>2, <8>1, <8>3 DEF AnswerIsAll
              <8>5. \A s : Reloaded(row[r].ask, copy, s).rating = copy.rating
                BY <1>1, <8>3 DEF Reloaded, ReloadInviteState, Copies
              <8> QED BY <3>2, <8>4, <8>5 DEF Outcome
            <7>3. row'["rating"].at = row["rating"].at /\ row'["rating"].ask = row["rating"].ask
              BY <3>4, <7>1
            <7> HIDE DEF Outcome
            <7> QED BY <5>2, <7>2, <7>3 DEF StillMeant
          <6> QED BY <6>1, <6>2
        <5> QED BY <3>4, <5>1, <5>3, <5>4, <5>5
      <4>3. \A k : Outcome(db, copy, k)' = Outcome(d, copy, k)
        BY <3>1 DEF Outcome, AnswerShown, AnswerIsAll, Reloaded, Reads, ReloadInviteState,
         ReloadCompleted, ReloadFriendships,
             LoadFriendships, LoadFriends, LoadProfile, LoadDetail, Snapshot, OnProfile,
             FetchComparison, MayCompare, MayView, Friends
      <4>4. \A k : AsOnServer(db, k)' = AsOnServer(d, k')
        BY <3>1 DEF AsOnServer, OnProfile
      <4> QED BY <3>1, <3>3, <4>1, <4>2, <4>3, <4>4, SameAsOnServer DEF SerialOK, FreshJob, StillMeant, WaitingJob
    <3> QED BY <3>5, <3>6
  <2>4. CASE Refuse(r) \/ LoseClick(r)
    <3>1. Ends(r) /\ UNCHANGED <<db, page, copy, compare, load, stale>>
      BY <2>4 DEF Refuse, LoseClick
    <3>2. \A x \in Rows : row'[x] = row[x] \/ row'[x] = Idle
      BY <1>1, <3>1 DEF Ends
    <3> QED BY <3>1, <3>2, NothingShown
  <2>5. CASE Answered(r)
    <3>1. /\ row[r].at = "done" /\ AnswerIsAll(row[r].ask) /\ Ends(r) /\ UNCHANGED <<db, page, load>>
          /\ copy' = AnswerShown(row[r].ask, copy) /\ stale' = ~row[r].fresh
      BY <2>5 DEF Answered, Shows, AnswerShown
    <3>2. Serial
      BY <3>1 DEF AnswerIsAll, Serial
    <3>3. copy' = Outcome(db, copy, row[r])
      BY <3>1 DEF Outcome
    <3>4. stale' = TRUE \/ (FreshJob(row[r]) /\ stale' = FALSE)
      BY <2>2, <3>1 DEF FreshJob
    <3> HIDE DEF Outcome
    <3> QED BY <3>1, <3>2, <3>3, <3>4, HandlerEnds
  <2>6. CASE ServeReread(r)
    <3> DEFINE j == [row[r] EXCEPT !.at = "read", !.data = Reads(row[r].ask, Snapshot(db)),
                                   !.fresh = row[r].fresh \/ page = "friends" \/ OnProfile]
    <3>1. row' = [row EXCEPT ![r] = j] /\ row[r].at = "done" /\ ~AnswerIsAll(row[r].ask)
          /\ UNCHANGED <<db, page, copy, compare, load, stale>>
      BY <1>1, <2>6 DEF ServeReread
    <3>2. j.ask = row[r].ask /\ j.at = "read" /\ j.data = Reads(row[r].ask, Snapshot(db))
          /\ j.fresh = (row[r].fresh \/ page = "friends" \/ OnProfile)
      BY <2>2 DEF PageJobs
    <3> HIDE DEF j
    <3>3. row'[r] = j /\ \A x \in Rows \ {r} : row'[x] = row[x]
      BY <1>1, <3>1
    <3>4. CASE ~Serial
      <4>1. AsOnServer(db, j.data)
        BY <1>1, <3>2, <3>4, FriendshipsAsOnServer
      <4> QED BY <3>1, <3>3, <3>4, <4>1, OtherPage DEF CopyOK
    <3>5. CASE Serial
      <4>1. page # "friends" /\ ~OnProfile
        BY <3>5, PagesAssumption DEF Serial, OnProfile, Pages
      <4>2. /\ Outcome(db, copy, j) = Outcome(db, copy, row[r])
            /\ FreshJob(j) <=> FreshJob(row[r])
            /\ ~WaitingJob(row[r]) /\ ~WaitingJob(j)
        BY <3>1, <3>2, <4>1 DEF Outcome, FreshJob, WaitingJob
      <4>3. StillMeant(row["rating"], copy) => StillMeant(row'["rating"], copy)
        BY <3>2, <3>3 DEF StillMeant, Rows
      <4>4. \A k : Outcome(db, copy, k)' = Outcome(db, copy, k)
        BY <3>1 DEF Outcome, AnswerShown, AnswerIsAll, Reloaded, Reads, ReloadInviteState,
         ReloadCompleted, ReloadFriendships,
             LoadFriendships, LoadFriends, LoadProfile, LoadDetail, Snapshot, OnProfile
      <4>5. \A c : StillMeant(row["rating"], c) => StillMeant(row'["rating"], c)
        BY <3>2, <3>3 DEF StillMeant, Rows
      <4>6. load.at = "idle" /\ stale
        BY <3>1, <3>5, <4>2 DEF SerialOK
      <4> HIDE DEF Outcome, StillMeant, FreshJob, WaitingJob
      <4>7. ASSUME NEW x \in Rows, FreshJob(row'[x])
            PROVE  /\ \A y \in Rows \ {x} : WaitingJob(row'[y])
                   /\ AsOnServer(db, Outcome(db, copy, row'[x]))
                   /\ StillMeant(row'["rating"], Outcome(db, copy, row'[x]))
        <5>1. FreshJob(row[x]) /\ Outcome(db, copy, row'[x]) = Outcome(db, copy, row[x])
          BY <3>3, <4>2, <4>7
        <5>2. /\ \A y \in Rows \ {x} : WaitingJob(row[y])
              /\ AsOnServer(db, Outcome(db, copy, row[x]))
              /\ StillMeant(row["rating"], Outcome(db, copy, row[x]))
          BY <3>5, <5>1 DEF SerialOK
        <5>3. x = r
          BY <4>2, <5>2
        <5> QED BY <3>3, <4>5, <5>1, <5>2, <5>3
      <4>8. SerialOK'
        BY <3>1, <4>4, <4>6, <4>7, SameAsOnServer DEF SerialOK, FreshJob, StillMeant, WaitingJob
      <4>9. CopyOK'
        BY <3>1, <3>5, SamePage, SameAsOnServer DEF CopyOK
      <4> QED BY <4>8, <4>9
    <3> QED BY <3>4, <3>5
  <2>7. CASE ShowReread(r)
    <3>1. /\ row[r].at = "read" /\ Ends(r) /\ UNCHANGED <<db, page, load>>
          /\ copy' = Reloaded(row[r].ask, copy, row[r].data) /\ stale' = ~row[r].fresh
      BY <2>7 DEF ShowReread, Shows
    <3>2. CASE Serial
      <4>1. copy' = Outcome(db, copy, row[r])
        BY <3>1 DEF Outcome
      <4>2. stale' = TRUE \/ (FreshJob(row[r]) /\ stale' = FALSE)
        BY <2>2, <3>1 DEF FreshJob
      <4> HIDE DEF Outcome
      <4> QED BY <3>1, <3>2, <4>1, <4>2, HandlerEnds
    <3>3. CASE ~Serial
      <4>0. /\ \A s : AsOnServer(db, s) => AsOnServer(db, ReloadFriendships(copy, s))
            /\ \A a, s : Reloaded(a, copy, s) = ReloadFriendships(copy, s)
        BY <1>1, <3>3, FriendshipsAsOnServer
      <4>3. copy' = ReloadFriendships(copy, row[r].data)
        BY <3>1, <4>0
      <4>4. row[r].fresh => AsOnServer(db, row[r].data)
        BY <3>1, <3>3 DEF CopyOK
      <4>1. ~stale' => AsOnServer(db, copy')
        BY <3>1, <4>0, <4>3, <4>4
      <4>2. \A x \in Rows : row'[x] = row[x] \/ row'[x].at = "idle"
        BY <1>1, <3>1, IdleType DEF Ends
      <4> QED BY <3>1, <3>3, <4>1, <4>2, OtherPage
    <3> QED BY <3>2, <3>3
  <2>8. CASE LoseReread(r)
    <3>1. row[r].at = "done" /\ Ends(r) /\ UNCHANGED <<db, page, load>> /\ stale' = TRUE
      BY <2>8 DEF LoseReread, Shows
    <3>2. CASE Serial
      BY <3>1, <3>2, HandlerEnds
    <3>3. CASE ~Serial
      <4>1. \A x \in Rows : row'[x] = row[x] \/ row'[x].at = "idle"
        BY <1>1, <3>1, IdleType DEF Ends
      <4> QED BY <3>1, <3>3, <4>1, OtherPage
    <3> QED BY <3>2, <3>3
  <2> QED BY <2>3, <2>4, <2>5, <2>6, <2>7, <2>8 DEF RowStep
<1>9. CASE Compare \/ Choose
  <2>1. ~Serial /\ UNCHANGED <<db, page, load, row, stale>>
    BY <1>9, BumpPages DEF Compare, Choose, Comparing
  <2>2. copy'.friendships = copy.friendships
    BY <1>1, <1>9 DEF Compare, Choose, Copies
  <2>3. AsOnServer(db, copy) <=> AsOnServer(db, copy')
    <3>1. \A e : e.friendships = copy.friendships => (AsOnServer(db, copy) <=> AsOnServer(db, e))
      BY <1>1, <2>1, FriendshipsAsOnServer
    <3> QED BY <2>2, <3>1
  <2>4. ~stale' => AsOnServer(db, copy')
    BY <2>1, <2>3 DEF CopyOK
  <2> QED BY <2>1, <2>4, OtherPage
<1>10. ASSUME UNCHANGED <<db, page, copy, compare, load, row, stale>> PROVE SerialOK' /\ CopyOK'
  BY <1>10, NothingShown
<1>11. ASSUME NEW f \in dash.under, ServeDash(f) \/ ShowDash(f) \/ LoseDash(f) PROVE SerialOK' /\ CopyOK'
  BY <1>10, <1>11 DEF ServeDash, ShowDash, LoseDash
<1>12. CASE UNCHANGED pageVars
  BY <1>10, <1>12 DEF pageVars
<1> QED BY <1>2, <1>3, <1>4, <1>5, <1>6, <1>7, <1>8, <1>9, <1>11, <1>12 DEF PagesNext, RowStep

----------------------------------------------------------------------------
(* The comparison and its dashboard *)

\* What may be compared, what is fetched for it, and the dashboard.
Sources == {Solo} \cup {OfUser(o) : o \in {x \in Others : OnProfile /\ x = page}}
                  \cup UNION {{OfFriendship(o, id) : id \in Nat} : o \in {x \in Others : OnProfile => x = page}}
Fetches == [of : Sources, at : {"sent", "read"}, is : {"none", "refused", "entry", "empty"}, fresh : BOOLEAN]
Dashboards == [of : Sources, shown : Sources, fresh : BOOLEAN, under : SUBSET Fetches]

\* The album is on the comparison k; on a profile, who may still see it is DashKept's.
HasEntry(k) ==
    /\ db.mine = "published" /\ k[2] \in db.published
    /\ page = "own" => MayCompare(db, k)

\* Dashboard d, mounted with k, has no entry the server has not, unless it is behind.
DashIs(d, k) ==
    /\ k \in Sources /\ d \in Dashboards /\ \A f \in d.under : f.of # Solo
    /\ d.fresh /\ d.shown # Solo => HasEntry(d.shown)
    /\ \A f \in d.under : f.at = "read" /\ f.fresh /\ f.is = "entry" => HasEntry(f.of)
    /\ OnProfile => /\ d.of \in {Solo, k} /\ d.shown \in {Solo, k}
                    /\ \A f \in d.under : f.of = k

\* The comparison fits the friendship that is shown, and the dashboard is of it.
DashOK ==
    Comparing =>
        /\ DashIs(dash, compare)
        /\ Showing => IsCurrent(copy, compare)
        /\ ~Showing => stale /\ \A r \in Rows : row[r].at = "idle"

\* A comparison with somebody: by whom, and of what.
LEMMA ComparedFacts ==
    ASSUME NEW k \in Sources, k # Solo
    PROVE  /\ k[2] \in Others /\ (OnProfile => k[2] = page)
           /\ \/ k[1] = "user" /\ OnProfile /\ k = OfUser(k[2])
              \/ k[1] = "friendship" /\ k[3] \in Nat /\ k = OfFriendship(k[2], k[3])
<1>1. CASE k \in {OfUser(o) : o \in {x \in Others : OnProfile /\ x = page}}
  <2>1. PICK o \in Others : k = OfUser(o) /\ OnProfile /\ o = page
    BY <1>1
  <2> QED BY <2>1 DEF OfUser
<1>2. CASE k \notin {OfUser(o) : o \in {x \in Others : OnProfile /\ x = page}}
  <2>1. PICK o \in {x \in Others : OnProfile => x = page} : k \in {OfFriendship(o, id) : id \in Nat}
    BY <1>2 DEF Sources
  <2>2. PICK id \in Nat : k = OfFriendship(o, id)
    BY <2>1
  <2> QED BY <2>1, <2>2 DEF OfFriendship
<1> QED BY <1>1, <1>2

\* With Spotify alone nothing is compared.
LEMMA SoloFacts ==
    /\ Solo \in Sources /\ Solo[1] = "solo"
    /\ NoDash \in Dashboards /\ NoDash.shown = Solo /\ NoDash.of = Solo /\ NoDash.under = {}
BY DEF Solo, Sources, NoDash, Dashboards

\* What may be compared depends on the page alone.
LEMMA SameDash ==
    ASSUME page' = page
    PROVE  Sources' = Sources /\ Dashboards' = Dashboards /\ Comparing' = Comparing
BY DEF Sources, Dashboards, Fetches, OnProfile, Comparing

\* A dashboard is mounted with a comparison.
LEMMA MountedIs ==
    ASSUME Comparing, DashIs(dash, compare), NEW k \in Sources,
           OnProfile => k = Solo \/ compare = Solo \/ k = compare
    PROVE  DashIs(Mounted(k), k)
<1>1. CASE k = Solo
  BY <1>1, SoloFacts DEF Mounted, DashIs
<1>2. CASE k # Solo /\ k = dash.of
  <2>1. Mounted(k) = dash
    BY <1>2 DEF Mounted
  <2>2. OnProfile => k = compare
    BY <1>2 DEF DashIs
  <2> QED BY <1>2, <2>1, <2>2 DEF DashIs
<1>3. CASE k # Solo /\ k # dash.of
  <2> DEFINE f == Fetch(k)
  <2>1. f \in Fetches /\ f.of = k /\ f.at = "sent"
    BY DEF Fetch, Fetches
  <2>2. Mounted(k) = [NoDash EXCEPT !.of = k, !.under = dash.under \cup {f}]
    BY <1>3 DEF Mounted
  <2> HIDE DEF f
  <2>3. dash.under \subseteq Fetches
    BY DEF DashIs, Dashboards
  <2> DEFINE U == dash.under \cup {f}
  <2>7. U \subseteq Fetches
    BY <2>1, <2>3
  <2> HIDE DEF U
  <2>8. Mounted(k) = [of |-> k, shown |-> Solo, fresh |-> TRUE, under |-> U]
    BY <2>2 DEF NoDash, U
  <2>4. Mounted(k).of = k /\ Mounted(k).shown = Solo /\ Mounted(k).under = U /\ Mounted(k) \in Dashboards
    BY <2>7, <2>8, SoloFacts DEF Dashboards
  <2>5. OnProfile => \A g \in U : g.of = k
    BY <1>3, <2>1 DEF DashIs, U
  <2>6. \A g \in U : g.of # Solo /\ (g.at = "read" /\ g.fresh /\ g.is = "entry" => HasEntry(g.of))
    BY <1>3, <2>1 DEF DashIs, U
  <2> QED BY <2>4, <2>5, <2>6 DEF DashIs
<1> QED BY <1>1, <1>2, <1>3

\* An entry stays while neither takes a rating back.
LEMMA EntrySame ==
    ASSUME page' = page, db'.mine = db.mine, db'.published = db.published, db' = db \/ page # "own"
    PROVE  \A k : HasEntry(k)' = HasEntry(k')
BY DEF HasEntry, MayCompare, MayView, Friends

\* So does the dashboard.
LEMMA SameDashIs ==
    ASSUME page' = page, db'.mine = db.mine, db'.published = db.published, db' = db \/ page # "own",
           NEW d, NEW k, DashIs(d, k), dash' = d, compare' = k
    PROVE  DashIs(dash, compare)'
<1>1. \A x : x \in Dashboards => x \in Dashboards'
  BY SameDash
<1> QED BY SameDash, SamePage, <1>1 DEF DashIs, HasEntry, MayCompare, MayView, Friends

----------------------------------------------------------------------------
(* The steps keep them *)

\* What is shown, and whether it is current, stays.
LEMMA DashStays ==
    ASSUME DashOK, UNCHANGED <<page, copy, compare, dash>>,
           db'.mine = db.mine, db'.published = db.published, db' = db \/ page # "own",
           Showing' => Showing, ~Showing' => stale' /\ \A r \in Rows : row'[r].at = "idle"
    PROVE  DashOK'
<1> SUFFICES ASSUME Comparing PROVE DashOK'
  BY SameDash DEF DashOK
<1>1. DashIs(dash, compare)'
  BY SameDashIs DEF DashOK
<1>2. IsCurrent(copy, compare)' = IsCurrent(copy, compare)
  BY DEF IsCurrent
<1> QED BY <1>1, <1>2 DEF DashOK

\* A comparison that does not fit is dropped.
LEMMA ReconciledIs ==
    ASSUME NEW k \in Sources, NEW c, Comparing, compare = k
    PROVE  Reconcile(c) \in {Solo, k} /\ IsCurrent(c, Reconcile(c))
BY SoloFacts DEF Reconcile, IsCurrent

\* A page that shows another copy drops a comparison that no longer fits.
LEMMA CopyShown ==
    ASSUME DashOK, NEW c, UNCHANGED <<db, page>>, copy' = c,
           compare' = Reconcile(c), dash' = Mounted(Reconcile(c)),
           ~Showing' => stale' /\ \A r \in Rows : row'[r].at = "idle"
    PROVE  DashOK'
<1> SUFFICES ASSUME Comparing PROVE DashOK'
  BY SameDash DEF DashOK
<1>1. DashIs(dash, compare) /\ compare \in Sources
  BY DEF DashOK, DashIs
<1> DEFINE k == Reconcile(c)
<1>2. k \in {Solo, compare} /\ IsCurrent(c, k)
  BY <1>1, ReconciledIs
<1> HIDE DEF k
<1>3. DashIs(Mounted(k), k)
  BY <1>1, <1>2, MountedIs, SoloFacts
<1>4. DashIs(dash, compare)'
  BY <1>3, SameDashIs DEF k
<1>5. IsCurrent(copy, compare)'
  BY <1>2 DEF IsCurrent, k
<1> QED BY <1>4, <1>5 DEF DashOK

\* On my own profile there is nothing to do but to choose, on that of another they are befriended.
LEMMA OwnRows ==
    ASSUME PageTypesOK, NEW r \in Rows, row[r].at # "idle"
    PROVE  /\ page # "own"
           /\ Comparing => OnProfile /\ r \in Others /\ row[r].ask.with = r /\ row[r].ask.act \in FriendActs
BY PagesAssumption DEF PageTypesOK, RowsOK, AskOK, OnProfile, Pages, Comparing

\* The friendships that are shown.
LEMMA FriendshipRow == ASSUME PageTypesOK, NEW o \in Others
                       PROVE  /\ copy.friendships[o].id \in Nat
                              /\ copy.friendships[o] = Row(copy.friendships[o].is, copy.friendships[o].id)
BY DEF PageTypesOK, Copies, RowsByFriend, RowsOf, Row

\* A friendship that may be compared on this page.
LEMMA ChosenSource ==
    ASSUME NEW o \in Others, NEW id \in Nat, OnProfile => o = page
    PROVE  OfFriendship(o, id) \in Sources
<1>1. OfFriendship(o, id) \in {OfFriendship(o, n) : n \in Nat}
  OBVIOUS
<1>2. o \in {x \in Others : OnProfile => x = page}
  OBVIOUS
<1> QED BY <1>1, <1>2 DEF Sources

\* Each step keeps the comparison current, and what its dashboard has as it is on the server.
LEMMA DashOKKept == ASSUME PageTypesOK, DashOK, [PagesNext]_pageVars PROVE DashOK'
<1>1. DbType(db) /\ page \in Pages \cup Others /\ copy \in Copies /\ stale \in BOOLEAN
      /\ load \in PageJobs /\ row \in [Rows -> PageJobs] /\ RowsOK
  BY DEF PageTypesOK
<1>2. ASSUME NEW o \in Others, Elsewhere(o) PROVE DashOK'
  <2>1. stale' = TRUE /\ load' = Behind(load) /\ row' = [r \in Rows |-> Behind(row[r])]
        /\ UNCHANGED <<page, copy, compare>>
        /\ dash' = [Behind(dash) EXCEPT !.under = {Behind(f) : f \in dash.under}]
    BY <1>2 DEF Elsewhere, Behind
  <2> SUFFICES ASSUME Comparing PROVE DashOK'
    BY <2>1, SameDash DEF DashOK
  <2>2. load'.at = load.at /\ load'.ask = load.ask /\ \A r \in Rows : row'[r].at = row[r].at
    BY <1>1, <2>1, BehindType
  <2>3. DashIs(dash, compare)
    BY DEF DashOK
  <2> DEFINE U == {Behind(f) : f \in dash.under}
  <2>4. \A f \in Fetches : Behind(f) \in Fetches /\ Behind(f).of = f.of /\ ~Behind(f).fresh
    BY DEF Behind, Fetches
  <2>5. \A g \in U : \E f \in dash.under : g.of = f.of /\ ~g.fresh /\ g \in Fetches
    BY <2>3, <2>4 DEF DashIs, Dashboards
  <2> HIDE DEF U
  <2>6. dash' = [of |-> dash.of, shown |-> dash.shown, fresh |-> FALSE, under |-> U]
    BY <2>1, <2>3 DEF Behind, DashIs, Dashboards, U
  <2>7. U \subseteq Fetches
    BY <2>5
  <2>8. dash' \in Dashboards
    BY <2>3, <2>6, <2>7 DEF DashIs, Dashboards
  <2>9. dash'.of = dash.of /\ dash'.shown = dash.shown /\ ~dash'.fresh /\ dash'.under = U
    BY <2>6
  <2>10. DashIs(dash, compare)'
    BY <2>1, <2>3, <2>5, <2>8, <2>9, SameDash, SamePage DEF DashIs
  <2>11. Showing' = Showing /\ IsCurrent(copy, compare)' = IsCurrent(copy, compare)
    BY <2>1, <2>2 DEF Showing, IsCurrent
  <2> QED BY <2>1, <2>2, <2>10, <2>11 DEF DashOK
<1>3. CASE ServeLoad
  <2>1. load.at = "sent" /\ load'.at = "read" /\ load'.ask = load.ask
        /\ UNCHANGED <<db, page, copy, compare, dash, row, stale>>
    BY <1>1, <1>3 DEF ServeLoad, PageJobs
  <2>2. Showing' = Showing
    BY <2>1 DEF Showing
  <2>3. Comparing => (~Showing => stale /\ \A r \in Rows : row[r].at = "idle")
    BY DEF DashOK
  <2>4. CASE Comparing
    BY <2>1, <2>2, <2>3, <2>4, DashStays
  <2>5. CASE ~Comparing
    BY <2>1, <2>5, SameDash DEF DashOK
  <2> QED BY <2>4, <2>5
<1>4. CASE ShowLoad \/ LoseLoad
  <2>1. PICK c : copy' = c /\ compare' = Reconcile(c) /\ dash' = Mounted(Reconcile(c))
                  /\ load' = Idle /\ UNCHANGED <<db, page>>
    BY <1>4 DEF ShowLoad, LoseLoad, LoadDone
  <2>2. Showing'
    BY <2>1, IdleType DEF Showing
  <2> QED BY <2>1, <2>2, CopyShown
<1>5. CASE Bump
  <2>1. load.at = "idle" /\ load'.ask.act = "bump" /\ UNCHANGED <<db, page, copy, compare, dash, row, stale>>
    BY <1>5 DEF Bump, Idle, OnRating, Ask
  <2>2. Showing /\ Showing'
    BY <2>1 DEF Showing
  <2> QED BY <2>1, <2>2, DashStays
<1>6. ASSUME NEW a \in Offers, Click(a) PROVE DashOK'
  <2>1. Showing /\ UNCHANGED <<db, page, copy, compare, dash, load, stale>>
    BY <1>6 DEF Click
  <2>2. Showing'
    BY <2>1 DEF Showing
  <2> QED BY <2>1, <2>2, DashStays
<1>7. ASSUME NEW r \in Rows PROVE RowStep(r) => DashOK'
  <2>1. CASE ~Comparing
    <3>1. RowStep(r) => page' = page
      BY DEF RowStep, Serve, Refuse, LoseClick, Answered, ServeReread, ShowReread, LoseReread, Shows
    <3> QED BY <2>1, <3>1, SameDash DEF DashOK
  <2>2. CASE Comparing /\ row[r].at # "idle"
    <3>1. Showing /\ page # "own" /\ OnProfile /\ r \in Others
          /\ row[r].ask.with = r /\ row[r].ask.act \in FriendActs
      BY <2>2, OwnRows DEF DashOK
    <3>2. CASE Serve(r)
      <4>1. db' = After(db, row[r].ask) /\ load' = Behind(load) /\ UNCHANGED <<page, copy, compare, dash>>
        BY <3>2 DEF Serve
      <4>2. db' = AfterFriendship(db, row[r].ask.act, r)
        BY <3>1, <4>1 DEF After, FriendActs, InviteActs
      <4>3. db'.mine = db.mine /\ db'.published = db.published
        BY <1>1, <3>1, <4>2, AfterFriendshipType
      <4>4. Showing'
        BY <1>1, <3>1, <4>1, BehindType DEF Showing
      <4> QED BY <3>1, <4>1, <4>3, <4>4, DashStays
    <3>3. CASE Refuse(r) \/ LoseClick(r) \/ ServeReread(r)
      <4>1. UNCHANGED <<db, page, copy, compare, dash, load>>
        BY <3>3 DEF Refuse, LoseClick, ServeReread
      <4>2. Showing'
        BY <3>1, <4>1 DEF Showing
      <4> QED BY <3>1, <4>1, <4>2, DashStays
    <3>4. CASE Answered(r) \/ ShowReread(r) \/ LoseReread(r)
      <4>1. PICK c : copy' = c /\ compare' = Reconcile(c) /\ dash' = Mounted(Reconcile(c))
                    /\ UNCHANGED <<db, page, load>>
        BY <3>4 DEF Answered, ShowReread, LoseReread, Shows
      <4>2. Showing'
        BY <3>1, <4>1 DEF Showing
      <4> QED BY <4>1, <4>2, CopyShown
    <3> QED BY <3>2, <3>3, <3>4 DEF RowStep
  <2>3. CASE row[r].at = "idle"
    BY <2>3 DEF RowStep, Serve, Refuse, LoseClick, Answered, ServeReread, ShowReread, LoseReread
  <2> QED BY <2>1, <2>2, <2>3
<1>8. CASE Compare \/ Choose
  <2>1. /\ Showing /\ Comparing /\ dash' = Mounted(compare') /\ UNCHANGED <<db, page, load, row, stale>>
        /\ copy'.friendships = copy.friendships
    BY <1>1, <1>8 DEF Compare, Choose, Comparing, Copies
  <2>2. /\ compare' \in Sources /\ IsCurrent(copy, compare')
        /\ OnProfile => compare' = Solo \/ compare = Solo
    <3>1. CASE Compare
      <4>1. /\ OnProfile /\ page \in Others
            /\ compare' = IF compare # Solo THEN Solo
                          ELSE IF copy.friendships[page].is = "friends"
                               THEN OfFriendship(page, copy.friendships[page].id)
                          ELSE OfUser(page)
        BY <3>1 DEF Compare, OnProfile
      <4>2. OfUser(page) \in Sources /\ OfUser(page)[1] = "user"
        BY <4>1 DEF Sources, OfUser
      <4>3. OfFriendship(page, copy.friendships[page].id) \in Sources
        BY <4>1, FriendshipRow, ChosenSource
      <4>4. copy.friendships[page].is = "friends"
              => IsCurrent(copy, OfFriendship(page, copy.friendships[page].id))
        BY <4>1, FriendshipRow DEF IsCurrent, OfFriendship
      <4> QED BY <4>1, <4>2, <4>3, <4>4, SoloFacts DEF IsCurrent
    <3>2. CASE Choose
      <4>1. page = "own" /\ ~OnProfile /\ compare' \in {Solo} \cup
                                    {OfFriendship(a.with, a.id) : a \in FriendCombobox(copy)}
        BY <3>2, PagesAssumption DEF Choose, OnProfile, Pages
      <4>2. CASE compare' # Solo
        <5>1. PICK a \in FriendCombobox(copy) : compare' = OfFriendship(a.with, a.id)
          BY <4>1, <4>2
        <5>2. PICK o \in Others : copy.friendships[o].is = "friends" /\ a = Ask("compare", o, copy.friendships[o].id)
          BY <5>1 DEF FriendCombobox
        <5>3. compare' = OfFriendship(o, copy.friendships[o].id)
          BY <5>1, <5>2 DEF Ask
        <5>4. compare' \in Sources
          BY <4>1, <5>3, FriendshipRow, ChosenSource
        <5>5. IsCurrent(copy, compare')
          BY <5>2, <5>3, FriendshipRow DEF IsCurrent, OfFriendship
        <5> QED BY <4>1, <5>4, <5>5
      <4> QED BY <4>1, <4>2, SoloFacts DEF IsCurrent
    <3> QED BY <1>8, <3>1, <3>2
  <2>3. DashIs(dash, compare)
    BY <2>1 DEF DashOK
  <2> DEFINE k == compare'
  <2>4. DashIs(Mounted(compare'), compare')
    <3>1. \A x \in Sources : (OnProfile => x = Solo \/ compare = Solo) => DashIs(Mounted(x), x)
      BY <2>1, <2>3, MountedIs
    <3> QED BY <2>2, <3>1
  <2>5. DashIs(dash, compare)'
    BY <2>1, <2>4, SameDashIs
  <2>6. IsCurrent(copy, compare)'
    BY <2>1, <2>2 DEF IsCurrent
  <2> QED BY <2>1, <2>5, <2>6 DEF DashOK, Showing
<1>9. ASSUME NEW f \in dash.under, ServeDash(f) \/ ShowDash(f) \/ LoseDash(f) PROVE DashOK'
  <2>1. UNCHANGED <<db, page, copy, compare, load, row, stale>>
    BY <1>9 DEF ServeDash, ShowDash, LoseDash
  <2> SUFFICES ASSUME Comparing PROVE DashOK'
    BY <2>1, SameDash DEF DashOK
  <2>2. /\ DashIs(dash, compare) /\ dash \in Dashboards /\ f \in Fetches /\ f.of # Solo
        /\ Unless(f) \subseteq dash.under /\ Unless(f) \subseteq Fetches
    BY DEF DashOK, DashIs, Dashboards, Unless
  <2>3. /\ dash.fresh /\ dash.shown # Solo => HasEntry(dash.shown)
        /\ \A g \in dash.under : g.of # Solo /\ (g.at = "read" /\ g.fresh /\ g.is = "entry" => HasEntry(g.of))
        /\ OnProfile => /\ dash.of \in {Solo, compare} /\ dash.shown \in {Solo, compare}
                        /\ \A g \in dash.under : g.of = compare
    BY <2>2 DEF DashIs
  <2>4. \E U, s, q : /\ U \subseteq Fetches /\ s \in Sources /\ q \in BOOLEAN
                     /\ dash' = [of |-> dash.of, shown |-> s, fresh |-> q, under |-> U]
                     /\ q /\ s # Solo => HasEntry(s)
                     /\ \A g \in U : g.of # Solo /\ (g.at = "read" /\ g.fresh /\ g.is = "entry" => HasEntry(g.of))
                     /\ OnProfile => s \in {Solo, compare} /\ \A g \in U : g.of = compare
    <3>1. CASE ServeDash(f)
      <4> DEFINE h == [f EXCEPT !.at = "read", !.is = FetchComparison(db, f.of), !.fresh = TRUE]
                 U == Unless(f) \cup {h}
      <4>1. h.of = f.of /\ h.is = FetchComparison(db, f.of)
        BY <2>2 DEF Fetches
      <4>2. FetchComparison(db, f.of) \in {"refused", "entry", "empty"}
        BY DEF FetchComparison
      <4>3. h \in Fetches
        BY <2>2, <4>2 DEF Fetches
      <4>4. h.is = "entry" => HasEntry(h.of)
        BY <4>1, FetchFacts DEF HasEntry
      <4>5. dash' = [dash EXCEPT !.under = U]
        BY <3>1 DEF ServeDash
      <4> HIDE DEF h
      <4>6. U \subseteq Fetches /\ \A g \in U : g \in dash.under \/ g = h
        BY <2>2, <4>3
      <4> HIDE DEF U
      <4>7. dash' = [of |-> dash.of, shown |-> dash.shown, fresh |-> dash.fresh, under |-> U]
        BY <2>2, <4>5 DEF Dashboards
      <4>8. \A g \in U : g.of # Solo /\ (g.at = "read" /\ g.fresh /\ g.is = "entry" => HasEntry(g.of))
        BY <2>2, <2>3, <4>1, <4>4, <4>6
      <4>9. OnProfile => \A g \in U : g.of = compare
        BY <2>3, <4>1, <4>6
      <4>10. dash.shown \in Sources /\ dash.fresh \in BOOLEAN
        BY <2>2 DEF Dashboards
      <4> QED BY <2>3, <4>6, <4>7, <4>8, <4>9, <4>10
    <3>2. CASE ShowDash(f)
      <4> DEFINE s == IF f.is = "entry" THEN f.of ELSE Solo
      <4>1. f.at = "read" /\ dash' = [dash EXCEPT !.under = Unless(f), !.shown = s, !.fresh = f.fresh]
        BY <3>2 DEF ShowDash
      <4>2. s \in Sources /\ f.fresh \in BOOLEAN
        BY <2>2, SoloFacts DEF Fetches
      <4>3. f.fresh /\ s # Solo => HasEntry(s)
        BY <2>3, <4>1
      <4>4. OnProfile => s \in {Solo, compare}
        BY <2>3
      <4> HIDE DEF s
      <4>5. dash' = [of |-> dash.of, shown |-> s, fresh |-> f.fresh, under |-> Unless(f)]
        BY <2>2, <4>1 DEF Dashboards
      <4> QED BY <2>2, <2>3, <4>2, <4>3, <4>4, <4>5
    <3>3. CASE LoseDash(f)
      <4>1. dash' = [dash EXCEPT !.under = Unless(f), !.shown = Solo]
        BY <3>3 DEF LoseDash
      <4>2. dash' = [of |-> dash.of, shown |-> Solo, fresh |-> dash.fresh, under |-> Unless(f)]
            /\ dash.fresh \in BOOLEAN
        BY <2>2, <4>1 DEF Dashboards
      <4> QED BY <2>2, <2>3, <4>2, SoloFacts
    <3> QED BY <1>9, <3>1, <3>2, <3>3
  <2>5. PICK U, s, q :
              /\ U \subseteq Fetches /\ s \in Sources /\ q \in BOOLEAN
              /\ dash' = [of |-> dash.of, shown |-> s, fresh |-> q, under |-> U]
              /\ q /\ s # Solo => HasEntry(s)
              /\ \A g \in U : g.of # Solo /\ (g.at = "read" /\ g.fresh /\ g.is = "entry" => HasEntry(g.of))
              /\ OnProfile => s \in {Solo, compare} /\ \A g \in U : g.of = compare
    BY <2>4
  <2> DEFINE d == [of |-> dash.of, shown |-> s, fresh |-> q, under |-> U]
  <2>6. d \in Dashboards /\ compare \in Sources
    BY <2>2, <2>5 DEF Dashboards, DashIs
  <2>7. d.of = dash.of /\ d.shown = s /\ d.fresh = q /\ d.under = U /\ dash' = d
    BY <2>5
  <2> HIDE DEF d
  <2>8. DashIs(d, compare)
    BY <2>3, <2>5, <2>6, <2>7 DEF DashIs
  <2>9. DashIs(dash, compare)'
    BY <2>1, <2>7, <2>8, SameDashIs
  <2> QED BY <2>1, <2>9 DEF DashOK, Showing, IsCurrent
<1>10. CASE UNCHANGED pageVars
  BY <1>10, SameDash, SameDashIs DEF pageVars, DashOK, Showing, IsCurrent
<1> QED BY <1>2, <1>3, <1>4, <1>5, <1>6, <1>7, <1>8, <1>9, <1>10 DEF PagesNext, RowStep

----------------------------------------------------------------------------
(* What is offered *)

\* The inductive invariant.
PagesIInv == PageTypesOK /\ SerialOK /\ CopyOK /\ DashOK

\* A page that is opened satisfies the invariant.
LEMMA PagesStart == ASSUME PagesInit PROVE PagesIInv
<1>1. db \in Databases /\ page \in Pages \cup Others /\ copy = Empty /\ dash = NoDash
      /\ load = [Idle EXCEPT !.at = "sent"] /\ row = [r \in Rows |-> Idle] /\ stale = TRUE
  BY DEF PagesInit
<1>2. DbType(db)
  <2>1. db \in [friendship : [Others -> {Row(s, 1) : s \in Standing}],
                invite : [Others -> {Row(s, 1) : s \in Inviting}],
                mine : {"none", "draft", "published"}, published : SUBSET Others] /\ Consistent(db)
    BY <1>1 DEF Databases
  <2>2. \A s \in Standing \cup Inviting : Row(s, 1) \in RowsOf /\ Row(s, 1).is = s
    BY DEF Row, RowsOf
  <2>3. \A o \in Others : db.friendship[o] \in RowsOf /\ db.invite[o] \in RowsOf /\ db.invite[o].is \in Inviting
    BY <2>1, <2>2
  <2>4. db.friendship \in RowsByFriend /\ db.invite \in RowsByFriend
    BY <2>1, <2>3 DEF RowsByFriend
  <2>5. db = [friendship |-> db.friendship, invite |-> db.invite, mine |-> db.mine, published |-> db.published]
        /\ db.mine \in RatingIs /\ db.published \in SUBSET Others
    BY <2>1 DEF RatingIs
  <2>6. db \in [friendship : RowsByFriend, invite : RowsByFriend, mine : RatingIs, published : SUBSET Others]
    BY <2>4, <2>5
  <2> QED BY <2>1, <2>3, <2>6 DEF DbType, Consistent
<1>3. load \in PageJobs /\ load.at = "sent" /\ load.ask.act = "none"
  BY <1>1, IdleType DEF PageJobs
<1>4. \A r \in Rows : row[r] = Idle /\ row[r].at = "idle"
  BY <1>1, IdleType
<1>5. PageTypesOK
  BY <1>1, <1>2, <1>3, <1>4, EmptyType, IdleType DEF PageTypesOK, RowsOK
<1>6. SerialOK /\ CopyOK
  BY <1>1, <1>3, <1>4 DEF SerialOK, CopyOK, FreshJob
<1>7. DashOK
  <2> SUFFICES ASSUME Comparing PROVE DashOK
    BY DEF DashOK
  <2>1. page = "own" \/ OnProfile
    BY DEF Comparing
  <2>2. "pair" \notin Others /\ "own" \notin Others
    BY PagesAssumption DEF Pages
  <2>3. page # "pair"
    BY <2>1, <2>2 DEF OnProfile
  <2>4. compare \in Sources
    <3>1. CASE compare = Solo
      BY <3>1, SoloFacts
    <3>2. CASE compare \in {OfUser(o) : o \in {x \in Others : page \in {x, "pair"}}}
      BY <2>3, <3>2 DEF Sources, OnProfile
    <3>3. CASE compare \in {OfFriendship(o, id) : o \in {x \in Others : page \in {x, "own", "pair"}}, id \in {0, 1}}
      <4>1. PICK o \in {x \in Others : page \in {x, "own", "pair"}}, id \in {0, 1} : compare = OfFriendship(o, id)
        BY <3>3
      <4>2. o \in Others /\ (OnProfile => o = page) /\ id \in Nat
        BY <2>2, <2>3, <4>1 DEF OnProfile
      <4> QED BY <4>1, <4>2, ChosenSource
    <3> QED BY <3>1, <3>2, <3>3 DEF PagesInit
  <2>5. DashIs(dash, compare)
    BY <1>1, <2>4, SoloFacts DEF DashIs
  <2>6. ~Showing
    BY <1>3 DEF Showing
  <2> QED BY <1>1, <1>4, <2>5, <2>6 DEF DashOK
<1> QED BY <1>5, <1>6, <1>7 DEF PagesIInv

\* What a list of pending invites tells of each.
LEMMA PendingFacts ==
    ASSUME NEW r \in RowsOf
    PROVE  /\ Pending(r).is = "incoming" \/ Pending(r).is = "outgoing" => Pending(r) = r
           /\ Pending(r) = NoRow => r.is \notin {"incoming", "outgoing"}
BY DEF Pending, NoRow, Row

\* A row is what it is and its id.
LEMMA RowFields == ASSUME NEW r \in RowsOf PROVE r = Row(r.is, r.id)
BY DEF RowsOf, Row

\* A request that is allowed, by the part of the server it is for.
LEMMA AllowedBy ==
    ASSUME NEW d, NEW a
    PROVE  /\ a.act \in FriendActs /\ FriendshipAllows(d, a.act, a.with, a.id) => Allows(d, a)
           /\ a.act \in InviteActs /\ InviteAllows(d, a.act, a.with, a.id) => Allows(d, a)
           /\ RatingAllows(d, a.act) => Allows(d, a)
           /\ a.act \in Views /\ ViewAllows(d, a.act, a.with, a.id) => Allows(d, a)
BY DEF Allows

\* The button of a friendship asks for what the server accepts.
LEMMA FriendshipOffers ==
    ASSUME PageTypesOK, NEW o \in Others, copy.friendships[o] = db.friendship[o],
           NEW a \in FriendshipButton(copy, o)
    PROVE  Allows(db, a)
<1> DEFINE f == db.friendship[o]
<1>1. f \in RowsOf /\ f = Row(f.is, f.id)
  BY RowFields DEF PageTypesOK, DbType, RowsByFriend
<1>2. f.is = "none" => a = Ask("ask", o, 0)
  BY DEF FriendshipButton
<1>3. f.is = "received" => a = Ask("accept", o, f.id) \/ a = Ask("decline", o, f.id)
  BY DEF FriendshipButton
<1>4. f.is \notin {"none", "received"} => a = Ask("delete", o, f.id)
  BY DEF FriendshipButton
<1>5. a.act \in FriendActs /\ a.with = o
  BY <1>2, <1>3, <1>4 DEF Ask, FriendActs
<1>6. FriendshipAllows(db, a.act, a.with, a.id)
  BY <1>1, <1>2, <1>3, <1>4 DEF Ask, FriendshipAllows
<1> QED BY <1>5, <1>6, AllowedBy

\* The comparison shown is of a friendship that is.
LEMMA CurrentFriend ==
    ASSUME PageTypesOK, DashOK, CopyOK, ~stale, Comparing, compare[1] = "friendship"
    PROVE  db.friendship[compare[2]] = Row("friends", compare[3])
<1>1. compare \in Sources /\ compare # Solo /\ IsCurrent(copy, compare)
  BY SoloFacts DEF DashOK, DashIs
<1>2. copy.friendships[compare[2]] = Row("friends", compare[3])
  BY <1>1 DEF IsCurrent
<1>3. OnProfile => compare[2] = page
  BY <1>1, ComparedFacts
<1> QED BY <1>2, <1>3 DEF CopyOK, AsOnServer, Comparing

\* What is opened from the dashboard.
LEMMA DashOffers ==
    ASSUME PageTypesOK, DashOK, CopyOK, ~stale, Comparing, NEW a \in AlbumDetailPath
    PROVE  Allows(db, a) \/ DashKept(a)
<1> DEFINE k == dash.shown
<1>1. k # Solo /\ a = IF k[1] = "friendship" THEN Ask("open_pair", k[2], k[3])
                     ELSE Ask("open_compare", compare[2], 0)
  BY DEF AlbumDetailPath
<1>2. k \in Sources /\ (OnProfile => k = compare)
  BY <1>1 DEF DashOK, DashIs, Dashboards
<1> SUFFICES ASSUME dash.fresh PROVE Allows(db, a) \/ DashKept(a)
  BY <1>1 DEF DashKept, Ask
<1>3. HasEntry(k)
  BY <1>1 DEF DashOK, DashIs
<1>4. \/ k[1] = "user" /\ OnProfile /\ k = OfUser(k[2])
      \/ k[1] = "friendship" /\ k[3] \in Nat /\ k = OfFriendship(k[2], k[3])
  BY <1>1, <1>2, ComparedFacts
<1>5. CASE k[1] = "friendship"
  <2>1. a = Ask("open_pair", k[2], k[3]) /\ k = OfFriendship(k[2], k[3])
    BY <1>1, <1>4, <1>5
  <2>2. MayCompare(db, k)
    <3>1. CASE page = "own"
      BY <1>3, <3>1 DEF HasEntry
    <3>2. CASE OnProfile
      BY <1>2, <1>5, <3>2, CurrentFriend DEF MayCompare
    <3> QED BY <3>1, <3>2 DEF Comparing
  <2>3. FetchComparison(db, k) = "entry"
    BY <1>3, <2>2, FetchFacts DEF HasEntry
  <2>4. a.act = "open_pair" /\ a.with = k[2] /\ a.id = k[3]
    BY <2>1 DEF Ask
  <2>5. ViewAllows(db, a.act, a.with, a.id) /\ a.act \in Views
    BY <2>1, <2>3, <2>4 DEF ViewAllows, Views
  <2> QED BY <2>5, AllowedBy
<1>6. CASE k[1] # "friendship"
  <2>1. OnProfile /\ k = OfUser(compare[2]) /\ a = Ask("open_compare", compare[2], 0)
    BY <1>1, <1>2, <1>4, <1>6
  <2>2. a.act = "open_compare" /\ a.with = compare[2]
    BY <2>1 DEF Ask
  <2>3. CASE ~MayView(db, a.with)
    BY <2>2, <2>3 DEF DashKept
  <2>4. CASE MayView(db, a.with)
    <3>1. OfUser(compare[2])[1] = "user" /\ OfUser(compare[2])[2] = compare[2]
      BY DEF OfUser
    <3>2. MayCompare(db, OfUser(compare[2]))
      BY <2>2, <2>4, <3>1 DEF MayCompare
    <3>3. FetchComparison(db, OfUser(compare[2])) = "entry"
      BY <1>3, <2>1, <3>2, FetchFacts DEF HasEntry
    <3>4. ViewAllows(db, a.act, a.with, a.id) /\ a.act \in Views
      BY <2>2, <3>3 DEF ViewAllows, Views
    <3> QED BY <3>4, AllowedBy
  <2> QED BY <2>3, <2>4
<1> QED BY <1>5, <1>6

\* So do the buttons of the album page, but for an invite no list tells of.
LEMMA AlbumOffers ==
    ASSUME PageTypesOK, CopyOK, ~stale, page = "album", NEW a \in Offers
    PROVE  Allows(db, a) \/ Untold(a)
<1>1. /\ copy.friendships = db.friendship /\ copy.invites = ListMyInvites(db)
      /\ copy.later.with = GetListenLater(db).with
      /\ copy.rated = GetAlbumFriendRatings(db) /\ copy.rating = db.mine
  BY DEF CopyOK, AsOnServer
<1>2. a \in IconActions(copy) \/ a \in InviteModal(copy) \/ a \in FriendRatingsPicker(copy)
  BY DEF Offers
<1>3. \A o \in Others : /\ db.friendship[o] \in RowsOf /\ db.invite[o] \in RowsOf /\ db.invite[o].is \in Inviting
                        /\ copy.invites[o] = Pending(db.invite[o])
  BY <1>1 DEF PageTypesOK, DbType, RowsByFriend, ListMyInvites
<1>4. CASE a \in IconActions(copy)
  <2>1. RatingAllows(db, a.act)
    BY <1>1, <1>4 DEF IconActions, OnRating, Ask, RatingAllows
  <2> QED BY <2>1, AllowedBy
<1>5. CASE a \in InviteModal(copy)
  <2>1. PICK o \in Others : /\ copy.friendships[o].is = "friends" /\ o \notin copy.rated
                            /\ o \notin copy.later.with /\ NotInvited(copy, o) /\ a = Ask("invite", o, 0)
    BY <1>5 DEF InviteModal
  <2>2. db.invite[o].is \notin {"incoming", "outgoing"}
    BY <1>3, <2>1, PendingFacts DEF NotInvited
  <2>3. Friends(db, o) /\ o \notin db.published
    BY <1>1, <2>1 DEF Friends, GetAlbumFriendRatings
  <2>4. a.act = "invite" /\ a.with = o /\ a.act \in InviteActs
    BY <2>1 DEF Ask, InviteActs
  <2>5. CASE db.invite[o].is = "none"
    <3>1. InviteAllows(db, a.act, a.with, a.id)
      BY <2>3, <2>4, <2>5 DEF InviteAllows
    <3> QED BY <2>4, <3>1, AllowedBy
  <2>6. CASE db.invite[o].is # "none"
    <3>1. db.invite[o].is = "accepted" \/ db.invite[o].is = "completed"
      BY <1>3, <2>2, <2>6 DEF Inviting
    <3>2. db.invite[o].is = "accepted" => db.mine # "draft"
      BY <1>1, <2>1 DEF GetListenLater
    <3> QED BY <2>4, <3>1, <3>2 DEF Untold
  <2> QED BY <2>5, <2>6
<1>6. CASE a \in FriendRatingsPicker(copy)
  <2>1. PICK o \in copy.rated : a = IF copy.rating = "published"
                                    THEN Ask("open_pair", o, copy.friendships[o].id)
                                    ELSE Ask("open_solo", o, 0)
    BY <1>6 DEF FriendRatingsPicker
  <2>2. o \in db.published /\ Friends(db, o) /\ o \in Others
    BY <1>1, <2>1 DEF GetAlbumFriendRatings, PageTypesOK, DbType
  <2>3. CASE copy.rating = "published"
    <3> DEFINE k == OfFriendship(o, db.friendship[o].id)
    <3>1. a = Ask("open_pair", o, db.friendship[o].id)
      BY <1>1, <2>1, <2>3
    <3>2. k[1] = "friendship" /\ k[2] = o /\ k[3] = db.friendship[o].id
      BY DEF OfFriendship
    <3>3. db.friendship[o] = Row("friends", db.friendship[o].id)
      BY <1>3, <2>2, RowFields DEF Friends
    <3> HIDE DEF k
    <3>4. MayCompare(db, k)
      BY <3>2, <3>3 DEF MayCompare
    <3>5. FetchComparison(db, k) = "entry"
      BY <1>1, <2>2, <2>3, <3>2, <3>4, FetchFacts
    <3>6. ViewAllows(db, a.act, a.with, a.id) /\ a.act \in Views
      BY <3>1, <3>5 DEF Ask, ViewAllows, Views, k
    <3> QED BY <3>6, AllowedBy
  <2>4. CASE copy.rating # "published"
    <3>1. ViewAllows(db, a.act, a.with, a.id) /\ a.act \in Views
      BY <2>1, <2>2, <2>4 DEF Ask, ViewAllows, Views
    <3> QED BY <3>1, AllowedBy
  <2> QED BY <2>3, <2>4
<1> QED BY <1>2, <1>4, <1>5, <1>6

\* So do those of Listen & Rate.
LEMMA LaterOffers ==
    ASSUME PageTypesOK, CopyOK, ~stale, page = "later", NEW a \in Offers
    PROVE  Allows(db, a)
<1>1. /\ copy.invites = ListMyInvites(db) /\ copy.later = GetListenLater(db)
      /\ copy.rating = "published" => db.mine = "published"
  BY DEF CopyOK, AsOnServer
<1>2. \A o \in Others : db.invite[o] \in RowsOf /\ copy.invites[o] = Pending(db.invite[o])
  BY <1>1 DEF PageTypesOK, DbType, RowsByFriend, ListMyInvites
<1>3. a \in SidebarInvite(copy) \/ a \in EntryCard(copy)
  BY DEF Offers
<1>4. CASE a \in SidebarInvite(copy)
  <2>1. PICK o \in Others :
             \/ /\ copy.invites[o].is = "incoming"
                /\ \/ a = Ask("accept_invite", o, copy.invites[o].id)
                   \/ a = Ask("decline_invite", o, copy.invites[o].id)
             \/ copy.invites[o].is = "outgoing" /\ a = Ask("cancel_invite", o, copy.invites[o].id)
    BY <1>4 DEF SidebarInvite
  <2>2. copy.invites[o] = db.invite[o] /\ db.invite[o] = Row(db.invite[o].is, db.invite[o].id)
    BY <1>2, <2>1, PendingFacts, RowFields
  <2>3. /\ a.with = o /\ a.id = db.invite[o].id
        /\ \/ a.act \in {"accept_invite", "decline_invite"} /\ db.invite[o].is = "incoming"
           \/ a.act = "cancel_invite" /\ db.invite[o].is = "outgoing"
    BY <2>1, <2>2 DEF Ask
  <2>4. a.act \in InviteActs /\ InviteAllows(db, a.act, a.with, a.id)
    BY <2>2, <2>3 DEF InviteActs, InviteAllows
  <2> QED BY <2>4, AllowedBy
<1>5. CASE a \in EntryCard(copy)
  <2>1. \/ a = OnRating("remove") /\ copy.later.there
        \/ a = OnRating("delete_rating") /\ copy.rating = "published"
    BY <1>5 DEF EntryCard
  <2>2. copy.later.there => db.mine = "draft"
    <3>1. GetListenLater(db).there = (db.mine = "draft")
      BY DEF GetListenLater
    <3> QED BY <1>1, <3>1
  <2>3. RatingAllows(db, a.act)
    BY <1>1, <2>1, <2>2 DEF OnRating, Ask, RatingAllows
  <2> QED BY <2>3, AllowedBy
<1> QED BY <1>3, <1>4, <1>5

\* The invariant implies that offers are accepted.
LEMMA PagesSafe == ASSUME PagesIInv PROVE OffersAreAccepted
<1> SUFFICES ASSUME ~stale
             PROVE  /\ \A a \in Offers : row[a.with].at = "idle" => Allows(db, a) \/ Untold(a) \/ DashKept(a)
                    /\ Comparing /\ compare[1] = "friendship" => db.friendship[compare[2]] = Row("friends", compare[3])
  BY DEF OffersAreAccepted
<1>1. PageTypesOK /\ CopyOK /\ DashOK /\ AsOnServer(db, copy) /\ page \in Pages \cup Others
  BY DEF PagesIInv, CopyOK, PageTypesOK
<1>2. ASSUME NEW a \in Offers PROVE Allows(db, a) \/ Untold(a) \/ DashKept(a)
  <2>1. CASE page = "album"
    BY <1>1, <2>1, AlbumOffers
  <2>2. CASE page = "later"
    BY <1>1, <2>2, LaterOffers
  <2>3. CASE page = "friends"
    <3>1. PICK o \in Others : a \in FriendshipButton(copy, o)
      BY <2>3 DEF Offers
    <3> QED BY <1>1, <2>3, <3>1, FriendshipOffers DEF AsOnServer
  <2>4. CASE page \in {"detail", "pair"}
    <3>1. a \in RemoveRating(copy)
      BY <2>4 DEF Offers
    <3>2. RatingAllows(db, a.act)
      BY <1>1, <2>4, <3>1 DEF RemoveRating, OnRating, Ask, RatingAllows, AsOnServer
    <3> QED BY <3>2, AllowedBy
  <2>5. CASE page = "own"
    <3>1. a \in FriendCombobox(copy) \/ a \in AlbumDetailPath
      BY <2>5 DEF Offers
    <3>2. CASE a \in FriendCombobox(copy)
      <4>1. PICK o \in Others : copy.friendships[o].is = "friends" /\ a = Ask("compare", o, copy.friendships[o].id)
        BY <3>2 DEF FriendCombobox
      <4>2. copy.friendships[o] = db.friendship[o] /\ copy.friendships[o] = Row("friends", copy.friendships[o].id)
        BY <1>1, <2>5, <4>1, FriendshipRow DEF AsOnServer
      <4>3. MayCompare(db, OfFriendship(o, copy.friendships[o].id))
        BY <4>2 DEF MayCompare, OfFriendship
      <4>4. ViewAllows(db, a.act, a.with, a.id) /\ a.act \in Views
        BY <4>1, <4>3 DEF Ask, ViewAllows, Views
      <4> QED BY <4>4, AllowedBy
    <3>3. CASE a \in AlbumDetailPath
      BY <1>1, <2>5, <3>3, DashOffers DEF Comparing
    <3> QED BY <3>1, <3>2, <3>3
  <2>6. CASE OnProfile
    <3>1. page \in Others /\ page \notin Pages
      BY <1>1, <2>6, PageKinds DEF OnProfile
    <3>2. a \in FriendshipButton(copy, page) \/ a \in AlbumDetailPath
      BY <3>1 DEF Offers, Pages
    <3>3. copy.friendships[page] = db.friendship[page]
      BY <1>1, <2>6 DEF AsOnServer
    <3> QED BY <1>1, <2>6, <3>1, <3>2, <3>3, FriendshipOffers, DashOffers DEF Comparing
  <2> QED BY <1>1, <2>1, <2>2, <2>3, <2>4, <2>5, <2>6, PageKinds
<1>3. Comparing /\ compare[1] = "friendship" => db.friendship[compare[2]] = Row("friends", compare[3])
  BY <1>1, CurrentFriend
<1> QED BY <1>2, <1>3

\* The invariant of the pages, for any other users, any ids, any number of requests
\* that are lost and of things others do, and any comparisons that are being loaded.
THEOREM PagesInvariant == PagesSpec => []PagesIInv
<1>1. PagesIInv /\ [PagesNext]_pageVars => PagesIInv'
  BY PageTypesKept, CopyOKKept, DashOKKept DEF PagesIInv
<1> QED BY <1>1, PagesStart, PTL DEF PagesSpec

\* Whatever a page offers while nothing has changed elsewhere and nothing has been lost
\* is accepted by the server, in whichever order the requests of the page overlap.
THEOREM OffersHold == PagesSpec => []OffersAreAccepted
BY PagesInvariant, PagesSafe, PTL
=============================================================================
