-------------------------- MODULE SearchPagesProofs --------------------------
(***************************************************************************)
(* Proofs about SearchPages, for any items, page size and number of hits:  *)
(* where the pager leads, what a walk through the results has shown, and   *)
(* what the search button sends.                                           *)
(***************************************************************************)
EXTENDS SearchPages, TLAPS

\* The last page starts within the hits, and no page behind it does.
LEMMA LastPageStarts ==
  ASSUME NEW n \in Nat, NEW s \in Nat \ {0}
  PROVE  /\ n \div s \in Nat
         /\ s * (n \div s) <= n
         /\ n < s * (n \div s) + s
  OBVIOUS

\* An earlier page starts earlier.
LEMMA PagesInOrder ==
  ASSUME NEW s \in Nat \ {0}, NEW p \in Nat, NEW q \in Nat, p <= q
  PROVE  s * p <= s * q
  OBVIOUS

\* A page that starts before the end of another is not behind it.
LEMMA StartsBefore ==
  ASSUME NEW s \in Nat \ {0}, NEW p \in Nat, NEW q \in Nat, s * p < s * q + s
  PROVE  p <= q
  OBVIOUS

LEMMA NextStart ==
  ASSUME NEW s \in Nat, NEW p \in Int
  PROVE  s * (p + 1) = s * p + s /\ s * p \in Int
  OBVIOUS

LEMMA AnswerIsSequence ==
  ASSUME NEW h \in Answers
  PROVE  /\ Len(h) \in Nat
         /\ DOMAIN h = 1 .. Len(h)
         /\ \A k \in DOMAIN h : h[k] \in Item
<1>1. PICK n \in 0 .. MaxHits : h \in [1 .. n -> Item]
  BY DEF Answers
<1>2. n \in Nat /\ h \in Seq(Item)
  BY <1>1, MaxHitsAssumption
<1> QED
  BY <1>1, <1>2

\* What the server computes from the hits has the types of a view.
LEMMA IndexType ==
  ASSUME NEW h \in Answers, NEW q \in Query, NEW refused \in BOOLEAN
  PROVE  Index(h, q, refused) \in
           [results : BOOLEAN, term : Term, type : Type \cup {None}, page : Int, last : Nat,
            total : Nat, rows : SUBSET Item]
<1> DEFINE Result == [last : Nat, total : Nat, rows : SUBSET Item]
<1>1. q.term \in Term /\ q.type \in Type \cup {None} /\ q.page \in Int /\ q.size \in Nat
  BY DEF Query
<1>2. LastPage(h, q.size) \in Nat
  <2>1. (IF q.size = 0 THEN 1 ELSE q.size) \in Nat \ {0}
    BY <1>1
  <2> QED
    BY <2>1, AnswerIsSequence, LastPageStarts DEF LastPage
<1>3. Window(h, q.page, q.size) \in SUBSET Item
  BY AnswerIsSequence DEF Window
<1>4. GetSearchResponse(h, q) \in Result /\ Nothing \in Result
  BY <1>2, <1>3, AnswerIsSequence DEF GetSearchResponse, Nothing
<1>5. Handle(h, q, refused) \in [users : Result, accounts : Result]
  BY <1>4 DEF Handle, FindUsers, FindAccounts
<1>6. "empty" \in Term
  BY DEF Term, Length
<1>7. BareForm.results \in BOOLEAN /\ BareForm \in
        [results : BOOLEAN, term : Term, type : Type \cup {None}, page : Int, last : Nat,
         total : Nat, rows : SUBSET Item]
  BY <1>6 DEF BareForm
<1> HIDE DEF Result
<1>8. (IF q.type = "Account" THEN Handle(h, q, refused).accounts
                             ELSE Handle(h, q, refused).users) \in Result
  BY <1>5
<1> USE DEF Result
<1> QED
  BY <1>1, <1>7, <1>8 DEF Index

\* A page with rows has been searched, the last page counts pages of the query's size, and a
\* query whose page is neither negative nor past the hits shows the window of its page.
LEMMA IndexRows ==
  ASSUME NEW h \in Answers, NEW q \in Query, NEW refused \in BOOLEAN,
         Accepts(q), q.type \in Type, Searched(q), ~refused
  PROVE  /\ Index(h, q, refused).results
         /\ Index(h, q, refused).type = q.type
         /\ Index(h, q, refused).term = q.term
         /\ Index(h, q, refused).page = q.page
         /\ Index(h, q, refused).last = LastPage(h, q.size)
         /\ Index(h, q, refused).rows = Window(h, q.page, q.size)
<1>1. Handle(h, q, refused) = [users |-> FindUsers(h, q), accounts |-> FindAccounts(h, q)]
  BY DEF Handle
<1>2. CASE q.type = "Account"
  <2>1. FindAccounts(h, q) = GetSearchResponse(h, q)
    BY <1>2 DEF FindAccounts
  <2> QED
    BY <1>1, <1>2, <2>1 DEF Index, GetSearchResponse
<1>3. CASE q.type = "User"
  <2>1. FindUsers(h, q) = GetSearchResponse(h, q)
    BY <1>3 DEF FindUsers
  <2> QED
    BY <1>1, <1>3, <2>1 DEF Index, GetSearchResponse
<1> QED
  BY <1>2, <1>3 DEF Type

\* No other query shows rows.
LEMMA IndexNoRows ==
  ASSUME NEW h \in Answers, NEW q \in Query, NEW refused \in BOOLEAN,
         ~(Accepts(q) /\ q.type \in Type /\ Searched(q) /\ ~refused)
  PROVE  Index(h, q, refused).rows = {}
<1>1. CASE Accepts(q) /\ q.type \in Type
  <2>1. Handle(h, q, refused) = [users |-> Nothing, accounts |-> Nothing]
    BY <1>1 DEF Handle
  <2> QED
    BY <1>1, <2>1 DEF Index, Nothing
<1>2. CASE ~(Accepts(q) /\ q.type \in Type)
  BY <1>2 DEF Index, BareForm
<1> QED
  BY <1>1, <1>2

\* Rows are shown only of pages up to the last one.
LEMMA RowsUpToLast ==
  ASSUME NEW h \in Answers, NEW page \in Int, NEW size \in Nat, Window(h, page, size) # {}
  PROVE  page <= LastPage(h, size)
<1>1. PICK k \in DOMAIN h : size * GetPage(page) < k /\ k <= size * GetPage(page) + size
  BY DEF Window
<1>2. GetPage(page) \in Nat /\ page <= GetPage(page)
  BY DEF GetPage
<1> DEFINE start == size * GetPage(page)
<1>3. start \in Int
  BY <1>2
<1> HIDE DEF start
<1>4. size # 0
  BY <1>1, <1>3, AnswerIsSequence DEF start
<1>5. Len(h) \div size \in Nat /\ Len(h) < size * (Len(h) \div size) + size
  BY <1>4, AnswerIsSequence, LastPageStarts
<1>6. start < size * (Len(h) \div size) + size
  BY <1>1, <1>3, <1>5, AnswerIsSequence DEF start
<1>7. GetPage(page) <= Len(h) \div size
  BY <1>2, <1>4, <1>5, <1>6, StartsBefore DEF start
<1> QED
  BY <1>2, <1>4, <1>5, <1>7 DEF LastPage
------------------------------------------------------------------------------
(* Types *)

LEMMA SubmittedType ==
  ASSUME NEW term \in Term, NEW by \in {"button", "enter"}, TypeOK
  PROVE  Submitted(term, by) \in Query
  BY PageSizeAssumption DEF Submitted, Query, TypeOK

LEMMA LinkType ==
  ASSUME NEW page \in Int, TypeOK
  PROVE  Link(page) \in Query
  BY PageSizeAssumption DEF Link, Query, TypeOK

LEMMA InitTypes == Init => TypeOK
<1> SUFFICES ASSUME Init PROVE TypeOK
  OBVIOUS
<1>1. <<>> \in Answers
  <2>1. 0 \in 0 .. MaxHits /\ <<>> \in [1 .. 0 -> Item]
    BY MaxHitsAssumption
  <2> QED
    BY <2>1 DEF Answers
<1>2. "empty" \in Term
  BY DEF Term, Length
<1>3. view \in [results : BOOLEAN, term : Term, type : Type \cup {None}, page : Int, last : Nat,
                total : Nat, rows : SUBSET Item]
  BY <1>2 DEF Init, BareForm
<1>4. request \in Request
  BY DEF Init, Request, NoRequest
<1>5. hits \in Answers /\ seen \in SUBSET Item
  BY <1>1 DEF Init
<1>6. radio \in Type /\ ready \in BOOLEAN /\ mark \in Type \cup {None}
      /\ promise \in Type \cup {None}
  BY DEF Init, Type
<1> QED
  BY <1>3, <1>4, <1>5, <1>6 DEF Init, TypeOK

LEMMA NextTypes == TypeOK /\ [Next]_vars => TypeOK'
<1> SUFFICES ASSUME TypeOK, [Next]_vars PROVE TypeOK'
  OBVIOUS
<1> USE DEF TypeOK, form, walk
<1>1. CASE Ready
  BY <1>1 DEF Ready, ChangePlaceholder
<1>2. CASE ChooseType
  BY <1>2 DEF ChooseType, ChangePlaceholder
<1>3. CASE SearchClick
  <2>1. request' \in Query
    BY <1>3, SubmittedType DEF SearchClick
  <2> QED
    BY <1>3, <2>1 DEF SearchClick, Request
<1>4. CASE PressEnter
  <2>1. request' \in Query
    BY <1>4, SubmittedType DEF PressEnter
  <2> QED
    BY <1>4, <2>1 DEF PressEnter, Request
<1>5. CASE Follow
  <2>1. view.page - 1 \in Int /\ view.page + 1 \in Int
    OBVIOUS
  <2>2. request' \in Query
    BY <1>5, <2>1, LinkType DEF Follow
  <2> QED
    BY <1>5, <2>2 DEF Follow, Request
<1>6. CASE Clear
  <2>1. "empty" \in Term
    BY DEF Term, Length
  <2>2. request' \in Query
    BY <1>6, <2>1, PageSizeAssumption DEF Clear, Query
  <2> QED
    BY <1>6, <2>2 DEF Clear, Request
<1>7. CASE Open
  <2>1. "plain" \in Term
    BY DEF Term, Length
  <2>2. request' \in Query
    BY <1>7, <2>1, TypedAssumption DEF Open, Query
  <2> QED
    BY <1>7, <2>2 DEF Open, Request
<1>8. CASE Answer
  <2>1. request \in Query /\ hits' \in Answers
    BY <1>8 DEF Answer, Request, NoRequest
  <2>2. PICK refused \in BOOLEAN : view' = Index(hits', request, refused)
                                   /\ WalkOn(request, refused)
    BY <1>8 DEF Answer
  <2>3. view' \in [results : BOOLEAN, term : Term, type : Type \cup {None}, page : Int,
                   last : Nat, total : Nat, rows : SUBSET Item]
    BY <2>1, <2>2, IndexType
  <2>4. request.page \in Int
    BY <2>1 DEF Query
  <2>5. far' \in Nat \cup {-1} /\ seen' \in SUBSET Item
    BY <2>2, <2>3, <2>4 DEF WalkOn, EndWalk
  <2> QED
    BY <1>8, <2>1, <2>3, <2>5 DEF Answer, Type, Request, NoRequest
<1>9. CASE Abandon
  BY <1>9 DEF Abandon, Request, NoRequest
<1>10. CASE Publish
  BY <1>10 DEF Publish, EndWalk
<1>11. CASE Reorder
  BY <1>11 DEF Reorder, EndWalk
<1>12. CASE UNCHANGED vars
  BY <1>12 DEF vars
<1> QED
  BY <1>1, <1>2, <1>3, <1>4, <1>5, <1>6, <1>7, <1>8, <1>9, <1>10, <1>11, <1>12 DEF Next

\* The state stays within the types: a page shows existing items, and a walk is never at a
\* negative page.
THEOREM TypeCorrect == Spec => []TypeOK
  BY InitTypes, NextTypes, PTL DEF Spec
------------------------------------------------------------------------------
(* The pager *)

\* Rows are shown of searches only, and only up to the last page.
PagerInv ==
  view.rows # {} =>
    /\ view.page <= view.last
    /\ view.type \in Type /\ Length[view.term] >= 2 /\ view.term # "marks"

\* What an answer shows.
LEMMA AnswerShows ==
  ASSUME TypeOK, Answer
  PROVE  /\ request \in Query /\ hits' \in Answers
         /\ \E refused \in BOOLEAN :
              view' = Index(hits', request, refused) /\ WalkOn(request, refused)
<1>1. hits \in Answers /\ request \in Request /\ request # NoRequest
  BY DEF TypeOK, Answer
<1> QED
  BY <1>1 DEF Answer, Request, NoRequest

LEMMA PagerStep == TypeOK /\ PagerInv /\ [Next]_vars => PagerInv'
<1> SUFFICES ASSUME TypeOK, PagerInv, [Next]_vars PROVE PagerInv'
  OBVIOUS
<1>1. CASE Answer
  <2>1. request \in Query /\ hits' \in Answers
    BY <1>1, AnswerShows
  <2>2. PICK refused \in BOOLEAN : view' = Index(hits', request, refused)
    BY <1>1, AnswerShows
  <2> DEFINE Asks == Accepts(request) /\ request.type \in Type /\ Searched(request) /\ ~refused
  <2>3. CASE Asks
    <3>1. /\ view'.type = request.type /\ view'.term = request.term
          /\ view'.page = request.page
          /\ view'.last = LastPage(hits', request.size)
          /\ view'.rows = Window(hits', request.page, request.size)
      BY <2>1, <2>2, <2>3, IndexRows
    <3>2. request.page \in Int /\ request.size \in Nat
      BY <2>1 DEF Query
    <3>3. view'.rows # {} => view'.page <= view'.last
      BY <2>1, <3>1, <3>2, RowsUpToLast
    <3> QED
      BY <2>3, <3>1, <3>3 DEF PagerInv, Accepts, Searched
  <2>4. CASE ~Asks
    BY <2>1, <2>2, <2>4, IndexNoRows DEF PagerInv
  <2> QED
    BY <2>3, <2>4
<1>2. CASE ~Answer
  <2>1. UNCHANGED view
    BY <1>2 DEF Next, vars, Ready, ChooseType, SearchClick, PressEnter, Follow, Clear, Open,
                Abandon, Publish, Reorder
  <2> QED
    BY <2>1 DEF PagerInv
<1> QED
  BY <1>1, <1>2

\* Whatever page and size are asked for, and whatever is published in between, the pager offers
\* a next page only in front of the last one.
THEOREM PagerStaysWithin == Spec => []NextWithinLast
<1>1. Init => PagerInv
  BY DEF Init, PagerInv, BareForm
<1>2. TypeOK /\ PagerInv => NextWithinLast
  BY DEF TypeOK, PagerInv, NextWithinLast, NextOffered
<1> QED
  BY <1>1, <1>2, PagerStep, TypeCorrect, PTL DEF Spec
------------------------------------------------------------------------------
(* The button *)

\* The watermark follows the category, and the button sends the category it names.
ButtonInv ==
  /\ ready => mark = radio
  /\ request # NoRequest /\ request.by = "button" =>
       promise = request.type /\ request.type \in Type /\ Accepts(request)

LEMMA ButtonStep == TypeOK /\ ButtonInv /\ [Next]_vars => ButtonInv'
<1> SUFFICES ASSUME TypeOK, ButtonInv, [Next]_vars PROVE ButtonInv'
  OBVIOUS
<1> USE DEF ButtonInv, form
<1>1. CASE Ready
  BY <1>1 DEF Ready, ChangePlaceholder, Accepts
<1>2. CASE ChooseType
  BY <1>2 DEF ChooseType, ChangePlaceholder, Accepts
<1>3. CASE SearchClick
  BY <1>3 DEF SearchClick, Submitted, Accepts, TypeOK
<1>4. CASE PressEnter
  BY <1>4 DEF PressEnter, Submitted
<1>5. CASE Follow
  BY <1>5 DEF Follow, Link
<1>6. CASE Clear
  BY <1>6 DEF Clear
<1>7. CASE Open
  BY <1>7 DEF Open
<1>8. CASE Answer
  BY <1>8 DEF Answer
<1>9. CASE Abandon
  BY <1>9 DEF Abandon
<1>10. CASE Publish
  BY <1>10 DEF Publish, Accepts
<1>11. CASE Reorder
  BY <1>11 DEF Reorder, Accepts
<1>12. CASE UNCHANGED vars
  BY <1>12 DEF vars, Accepts
<1> QED
  BY <1>1, <1>2, <1>3, <1>4, <1>5, <1>6, <1>7, <1>8, <1>9, <1>10, <1>11, <1>12 DEF Next

\* A search sent by the button is answered with results of the category that the watermark
\* named: what the script lets pass the controller searches for.
THEOREM ButtonFindsWhatItSays == Spec => ButtonKeepsPromise
<1>1. Init => ButtonInv
  BY DEF Init, ButtonInv
<1>2. TypeOK /\ ButtonInv =>
        (Answer /\ request.by = "button" => view'.results /\ view'.type = promise)
  <2> SUFFICES ASSUME TypeOK, ButtonInv, Answer, request.by = "button"
               PROVE  view'.results /\ view'.type = promise
    OBVIOUS
  <2>1. request # NoRequest
    BY DEF Answer
  <2>2. PICK refused \in BOOLEAN : view' = Index(hits', request, refused)
    BY AnswerShows
  <2> QED
    BY <2>1, <2>2 DEF ButtonInv, Index
<1>3. TypeOK /\ ButtonInv /\ [Next]_vars =>
        [Answer /\ request.by = "button" => view'.results /\ view'.type = promise]_vars
  BY <1>2
<1> QED
  BY <1>1, <1>3, ButtonStep, TypeCorrect, PTL DEF Spec, ButtonKeepsPromise
------------------------------------------------------------------------------
(* The walk through the results *)

\* The hits of the pages 0 to f.
UpTo(h, f) == {h[k] : k \in {k \in DOMAIN h : k <= PageSize * f + PageSize}}

LEMMA FirstPage ==
  ASSUME NEW h \in Answers
  PROVE  Window(h, 0, PageSize) = UpTo(h, 0)
<1>1. PageSize * GetPage(0) = 0 /\ PageSize * 0 = 0
  BY PageSizeAssumption DEF GetPage
<1>2. \A k \in DOMAIN h : k \in Nat /\ 0 < k
  BY AnswerIsSequence
<1> QED
  BY <1>1, <1>2, PageSizeAssumption DEF Window, UpTo

LEMMA NextPage ==
  ASSUME NEW h \in Answers, NEW f \in Nat
  PROVE  UpTo(h, f) \cup Window(h, f + 1, PageSize) = UpTo(h, f + 1)
<1> DEFINE start == PageSize * f + PageSize
<1>1. GetPage(f + 1) = f + 1 /\ PageSize * (f + 1) = start /\ start \in Nat
  BY PageSizeAssumption, NextStart DEF GetPage
<1>2. \A k \in DOMAIN h : k \in Nat
  BY AnswerIsSequence
<1> HIDE DEF start
<1>3. UpTo(h, f) = {h[k] : k \in {k \in DOMAIN h : k <= start}}
  BY DEF UpTo, start
<1>4. UpTo(h, f + 1) = {h[k] : k \in {k \in DOMAIN h : k <= start + PageSize}}
  BY <1>1 DEF UpTo
<1>5. Window(h, f + 1, PageSize) =
        {h[k] : k \in {k \in DOMAIN h : start < k /\ k <= start + PageSize}}
  BY <1>1 DEF Window
<1>6. \A k \in DOMAIN h :
        k <= start + PageSize <=> k <= start \/ (start < k /\ k <= start + PageSize)
  BY <1>1, <1>2, PageSizeAssumption
<1> QED
  BY <1>3, <1>4, <1>5, <1>6

LEMMA EarlierPage ==
  ASSUME NEW h \in Answers, NEW p \in Nat, NEW f \in Nat, p <= f
  PROVE  Window(h, p, PageSize) \subseteq UpTo(h, f)
<1> DEFINE at == PageSize * p
           to == PageSize * f
<1>1. at <= to /\ at \in Nat /\ to \in Nat
  BY PageSizeAssumption, PagesInOrder
<1>2. GetPage(p) = p
  BY DEF GetPage
<1>3. \A k \in DOMAIN h : k \in Nat
  BY AnswerIsSequence
<1>4. Window(h, p, PageSize) =
        {h[k] : k \in {k \in DOMAIN h : at < k /\ k <= at + PageSize}}
  BY <1>2 DEF Window
<1>5. UpTo(h, f) = {h[k] : k \in {k \in DOMAIN h : k <= to + PageSize}}
  BY DEF UpTo
<1> HIDE DEF at, to
<1>6. \A k \in DOMAIN h : k <= at + PageSize => k <= to + PageSize
  BY <1>1, <1>3, PageSizeAssumption
<1> QED
  BY <1>4, <1>5, <1>6

\* What the form and the pager ask for.
AskedInv ==
  request # NoRequest =>
    /\ request.by \in {"button", "enter"} => request.page = 0 /\ request.size = PageSize
    /\ request.by = "link" =>
         /\ request.size = PageSize
         /\ request.type \in Type /\ Accepts(request) /\ Searched(request)

\* Where an unbroken walk is, what it has shown, and where its links lead.
WalkInv ==
  far >= 0 =>
    /\ view.page \in 0 .. far
    /\ far <= LastPage(hits, PageSize)
    /\ view.last = LastPage(hits, PageSize)
    /\ view.rows = Window(hits, view.page, PageSize)
    /\ seen = UpTo(hits, far)
    /\ request # NoRequest /\ request.by = "link" =>
         request.page \in 0 .. far + 1 /\ request.page <= LastPage(hits, PageSize)

\* Results are shown of a category.
ResultsInv == view.results => view.type \in Type

LEMMA AskedStep == TypeOK /\ PagerInv /\ AskedInv /\ [Next]_vars => AskedInv'
<1> SUFFICES ASSUME TypeOK, PagerInv, AskedInv, [Next]_vars PROVE AskedInv'
  OBVIOUS
<1> USE DEF AskedInv
<1>1. CASE SearchClick
  BY <1>1 DEF SearchClick, Submitted
<1>2. CASE PressEnter
  BY <1>2 DEF PressEnter, Submitted
<1>3. CASE Follow
  <2>1. view.rows # {}
    BY <1>3 DEF Follow, PreviousOffered, NextOffered
  <2>2. view.type \in Type /\ Length[view.term] >= 2 /\ view.term # "marks"
    BY <2>1 DEF PagerInv
  <2> QED
    BY <1>3, <2>2 DEF Follow, Link, Accepts, Searched
<1>4. CASE Clear \/ Open
  BY <1>4 DEF Clear, Open
<1>5. CASE Answer \/ Abandon
  BY <1>5 DEF Answer, Abandon
<1>6. CASE Ready \/ ChooseType \/ Publish \/ Reorder \/ UNCHANGED vars
  <2>1. UNCHANGED request
    BY <1>6 DEF Ready, ChooseType, Publish, Reorder, vars
  <2> QED
    BY <2>1 DEF Accepts, Searched
<1> QED
  BY <1>1, <1>2, <1>3, <1>4, <1>5, <1>6 DEF Next

LEMMA ResultsStep == TypeOK /\ ResultsInv /\ [Next]_vars => ResultsInv'
<1> SUFFICES ASSUME TypeOK, ResultsInv, [Next]_vars PROVE ResultsInv'
  OBVIOUS
<1>1. CASE Answer
  <2>1. PICK refused \in BOOLEAN : view' = Index(hits', request, refused)
    BY <1>1, AnswerShows
  <2> QED
    BY <2>1 DEF ResultsInv, Index, BareForm
<1>2. CASE ~Answer
  <2>1. UNCHANGED view
    BY <1>2 DEF Next, vars, Ready, ChooseType, SearchClick, PressEnter, Follow, Clear, Open,
                Abandon, Publish, Reorder
  <2> QED
    BY <2>1 DEF ResultsInv
<1> QED
  BY <1>1, <1>2

LEMMA LastPageType ==
  ASSUME NEW h \in Answers
  PROVE  LastPage(h, PageSize) \in Nat
  BY AnswerIsSequence, LastPageStarts, PageSizeAssumption DEF LastPage

\* A step that leaves the walk, the page and the hits alone keeps the invariant if it asks for
\* nothing by a link.
LEMMA WalkUntouched ==
  ASSUME WalkInv, UNCHANGED <<hits, view, walk>>,
         UNCHANGED request \/ request'.by # "link" \/ request' = NoRequest
  PROVE  WalkInv'
  BY DEF WalkInv, walk

LEMMA WalkStep ==
  TypeOK /\ PagerInv /\ AskedInv /\ ResultsInv /\ WalkInv /\ [Next]_vars => WalkInv'
<1> SUFFICES ASSUME TypeOK, PagerInv, AskedInv, ResultsInv, WalkInv, [Next]_vars PROVE WalkInv'
  OBVIOUS
<1>1. CASE Ready \/ ChooseType \/ UNCHANGED vars
  BY <1>1, WalkUntouched DEF Ready, ChooseType, vars, walk
<1>2. CASE SearchClick \/ PressEnter
  BY <1>2, WalkUntouched DEF SearchClick, PressEnter, Submitted, walk
<1>3. CASE Clear \/ Open
  BY <1>3, WalkUntouched DEF Clear, Open, walk
<1>4. CASE Abandon
  BY <1>4, WalkUntouched DEF Abandon, walk
<1>5. CASE Follow
  <2> SUFFICES ASSUME far >= 0
               PROVE  request'.page \in 0 .. far + 1 /\ request'.page <= LastPage(hits, PageSize)
    BY <1>5 DEF Follow, WalkInv, walk
  <2>1. /\ view.page \in 0 .. far /\ far \in Nat
        /\ far <= LastPage(hits, PageSize) /\ view.last = LastPage(hits, PageSize)
    BY DEF WalkInv, TypeOK
  <2>2. LastPage(hits, PageSize) \in Nat
    BY LastPageType DEF TypeOK
  <2>3. CASE PreviousOffered /\ request' = Link(view.page - 1)
    BY <2>1, <2>2, <2>3 DEF PreviousOffered, Link
  <2>4. CASE NextOffered /\ request' = Link(view.page + 1)
    <3>1. view.page <= view.last /\ view.page # view.last
      BY <2>4 DEF NextOffered, PagerInv
    <3> QED
      BY <2>1, <2>2, <2>4, <3>1 DEF Link
  <2> QED
    BY <1>5, <2>3, <2>4 DEF Follow
<1>6. CASE Answer
  <2>1. request \in Query /\ hits' \in Answers /\ request # NoRequest /\ request' = NoRequest
    BY <1>6, AnswerShows DEF Answer
  <2>2. PICK refused \in BOOLEAN : view' = Index(hits', request, refused)
                                   /\ WalkOn(request, refused)
    BY <1>6, AnswerShows
  <2> DEFINE shown == view'.results /\ Searched(request) /\ ~refused
  <2>3. LastPage(hits', PageSize) \in Nat
    BY <2>1, LastPageType
  <2>4. ASSUME shown, request.size = PageSize
        PROVE  /\ view'.page = request.page
               /\ view'.last = LastPage(hits', PageSize)
               /\ view'.rows = Window(hits', request.page, PageSize)
    <3>1. Accepts(request) /\ request.type \in Type
      BY <2>2, <2>4 DEF Index, BareForm
    <3> QED
      BY <2>1, <2>2, <2>4, <3>1, IndexRows
  <2>5. CASE shown /\ request.by \in {"button", "enter"} /\ far' = 0 /\ seen' = view'.rows
    <3>1. request.page = 0 /\ request.size = PageSize
      BY <2>1, <2>5 DEF AskedInv
    <3>2. seen' = UpTo(hits', 0)
      BY <2>1, <2>4, <2>5, <3>1, FirstPage
    <3> QED
      BY <2>1, <2>3, <2>4, <2>5, <3>1, <3>2 DEF WalkInv, UpTo
  <2>6. CASE /\ shown /\ request.by = "link" /\ far >= 0
             /\ far' = (IF request.page > far THEN request.page ELSE far)
             /\ seen' = seen \cup view'.rows
    <3>1. hits' = hits
      BY <1>6, <2>6 DEF Answer
    <3>2. /\ request.size = PageSize
          /\ request.page \in 0 .. far + 1 /\ request.page <= LastPage(hits, PageSize)
          /\ far \in Nat /\ far <= LastPage(hits, PageSize) /\ seen = UpTo(hits, far)
      BY <2>1, <2>6 DEF AskedInv, WalkInv, TypeOK
    <3>3. far' \in Nat /\ request.page \in 0 .. far' /\ far' <= LastPage(hits, PageSize)
      BY <2>6, <3>2
    <3>4. seen' = UpTo(hits, far')
      <4>1. CASE request.page > far
        <5>1. request.page = far + 1 /\ far' = far + 1
          BY <2>6, <3>2, <4>1
        <5> QED
          BY <2>1, <2>4, <2>6, <3>1, <3>2, <5>1, NextPage
      <4>2. CASE ~(request.page > far)
        <5>1. far' = far /\ request.page \in Nat /\ request.page <= far
          BY <2>6, <3>2, <4>2
        <5>2. Window(hits, request.page, PageSize) \subseteq UpTo(hits, far)
          BY <2>1, <3>1, <3>2, <5>1, EarlierPage
        <5> QED
          BY <2>4, <2>6, <3>1, <3>2, <5>1, <5>2
      <4> QED
        BY <4>1, <4>2
    <3> QED
      BY <2>1, <2>4, <2>6, <3>1, <3>2, <3>3, <3>4 DEF WalkInv, UpTo
  <2>7. CASE EndWalk
    BY <2>7 DEF EndWalk, WalkInv
  <2> QED
    BY <2>2, <2>5, <2>6, <2>7 DEF WalkOn
<1>7. CASE Publish
  BY <1>7 DEF Publish, EndWalk, WalkInv
<1>8. CASE Reorder
  BY <1>8 DEF Reorder, EndWalk, WalkInv, ResultsInv, TieBroken, Type
<1> QED
  BY <1>1, <1>2, <1>3, <1>4, <1>5, <1>6, <1>7, <1>8 DEF Next

SearchInv == TypeOK /\ PagerInv /\ AskedInv /\ ResultsInv /\ WalkInv

LEMMA SearchInvariant == Spec => []SearchInv
<1>1. Init => PagerInv /\ AskedInv /\ ResultsInv /\ WalkInv
  BY DEF Init, PagerInv, AskedInv, ResultsInv, WalkInv, BareForm
<1> QED
  BY <1>1, InitTypes, NextTypes, PagerStep, AskedStep, ResultsStep, WalkStep, PTL
  DEF Spec, SearchInv

\* Where the page of an unbroken walk starts, and what it means that it has no rows.
LEMMA WalkPlace ==
  ASSUME SearchInv, far >= 0
  PROVE  /\ far \in Nat /\ view.page \in Nat /\ view.page <= far
         /\ PageSize * far \in Nat /\ PageSize * view.page \in Nat /\ Len(hits) \in Nat
         /\ PageSize * view.page <= PageSize * far /\ PageSize * far <= Len(hits)
         /\ view.rows = {} => Len(hits) <= PageSize * view.page
<1>1. hits \in Answers /\ Len(hits) \in Nat /\ DOMAIN hits = 1 .. Len(hits)
  BY AnswerIsSequence DEF SearchInv, TypeOK
<1>2. /\ far \in Nat /\ view.page \in Nat /\ view.page <= far
      /\ far <= LastPage(hits, PageSize)
      /\ view.rows = Window(hits, view.page, PageSize)
  BY DEF SearchInv, TypeOK, WalkInv
<1>3. LastPage(hits, PageSize) = Len(hits) \div PageSize
  BY PageSizeAssumption DEF LastPage
<1>4. /\ Len(hits) \div PageSize \in Nat
      /\ PageSize * (Len(hits) \div PageSize) <= Len(hits)
  BY <1>1, PageSizeAssumption, LastPageStarts
<1>5. PageSize * view.page <= PageSize * far
  BY <1>2, PageSizeAssumption, PagesInOrder
<1>6. PageSize * far <= PageSize * (Len(hits) \div PageSize)
  BY <1>2, <1>3, <1>4, PageSizeAssumption, PagesInOrder
<1>7. PageSize * far \in Nat /\ PageSize * view.page \in Nat
      /\ PageSize * (Len(hits) \div PageSize) \in Nat
  BY <1>2, <1>4, PageSizeAssumption
<1> DEFINE at == PageSize * view.page
<1>8. ASSUME view.rows = {}, ~(Len(hits) <= at) PROVE FALSE
  <2>1. GetPage(view.page) = view.page
    BY <1>2 DEF GetPage
  <2>2. at \in Nat
    BY <1>7
  <2> HIDE DEF at
  <2>3. at + 1 \in DOMAIN hits /\ at < at + 1 /\ at + 1 <= at + PageSize
    BY <1>1, <1>8, <2>2, PageSizeAssumption
  <2>4. hits[at + 1] \in view.rows
    BY <1>2, <2>1, <2>3 DEF Window, at
  <2> QED
    BY <1>8, <2>4
<1> QED
  BY <1>1, <1>2, <1>4, <1>5, <1>6, <1>7, <1>8

\* Whoever follows the pager from the first page until no next page is offered has seen every
\* hit, unless an index was published, tied hits of users moved or a page was refused.
THEOREM PagerMissesNothing == Spec => []NothingMissed
<1>1. SearchInv => NothingMissed
  <2> SUFFICES ASSUME SearchInv, far >= 0, ~NextOffered PROVE seen = Found(hits)
    BY DEF NothingMissed
  <2>1. Len(hits) \in Nat /\ DOMAIN hits = 1 .. Len(hits)
    BY AnswerIsSequence DEF SearchInv, TypeOK
  <2>2. seen = UpTo(hits, far)
    BY DEF SearchInv, WalkInv
  <2> DEFINE to == PageSize * far
  <2>3. to \in Nat
    BY WalkPlace
  <2>4. Len(hits) <= to + PageSize
    <3>1. CASE view.rows = {}
      BY <2>1, <2>3, <3>1, WalkPlace, PageSizeAssumption
    <3>2. CASE view.page = view.last
      <4>1. view.last = Len(hits) \div PageSize /\ far <= view.last
        BY PageSizeAssumption DEF SearchInv, WalkInv, LastPage
      <4>2. far = Len(hits) \div PageSize
        BY <3>2, <4>1, WalkPlace
      <4> QED
        BY <2>1, <2>3, <4>2, LastPageStarts, PageSizeAssumption
    <3> QED
      BY <3>1, <3>2 DEF NextOffered
  <2> HIDE DEF to
  <2>5. \A k \in DOMAIN hits : k <= to + PageSize
    BY <2>1, <2>3, <2>4, PageSizeAssumption
  <2> QED
    BY <2>2, <2>5 DEF UpTo, Found, to
<1> QED
  BY <1>1, SearchInvariant, PTL

\* An unbroken walk meets a page without rows only when the page size divides the number of
\* hits, and then it is the page behind the last full one.
THEOREM EmptyPageOnlyBehindFull == Spec => []EmptyOnlyBehindFull
<1>1. SearchInv => EmptyOnlyBehindFull
  <2> SUFFICES ASSUME SearchInv, far >= 0, view.rows = {} PROVE Len(hits) = view.page * PageSize
    BY DEF EmptyOnlyBehindFull
  <2>1. Len(hits) = PageSize * view.page
    BY WalkPlace
  <2>2. view.page \in Nat
    BY WalkPlace
  <2> QED
    BY <2>1, <2>2, PageSizeAssumption
<1> QED
  BY <1>1, SearchInvariant, PTL
=============================================================================
