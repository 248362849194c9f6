----------------------------- MODULE SearchPages -----------------------------
(***************************************************************************)
(* One browser on the portal's search page: the form and its script        *)
(* (Views/Search/Index.cshtml, search-index.js), the search on the server  *)
(* (SearchController, SearchHandler, ElasticSearchProvider) and the pager, *)
(* whose links ask for the page before or after the one shown.  Nothing is *)
(* kept on the server: every page is a search of its own, and between two  *)
(* of them the indexer may publish another index (IndexPublication) or the *)
(* cluster may put hits with the same score in another order.              *)
(*                                                                         *)
(* What the cluster answers to the search shown is a sequence of distinct  *)
(* items; which of them match a term is Elasticsearch's.  Two accounts     *)
(* with the same score and the same name are left out.  Pages and sizes    *)
(* are small enough for PageSize * Page to stay within 32 bits.            *)
(*                                                                         *)
(* A definition whose name ends in Faulty... is a plausible mistake in the *)
(* definition that follows it.                                             *)
(***************************************************************************)
EXTENDS Integers, Sequences

CONSTANTS
  Item,       \* accounts and users that can be found
  PageSize,   \* SearchQuery's page size, which neither the form nor the pager overrides
  TypedSize,  \* page sizes that someone puts into the address
  TypedPage,  \* pages that someone puts into the address
  MaxHits,    \* bound on the number of hits
  None        \* nothing under way; no category

ASSUME PageSizeAssumption == PageSize \in Nat \ {0}
ASSUME TypedAssumption == TypedSize \subseteq Nat /\ TypedPage \subseteq Int
ASSUME MaxHitsAssumption == MaxHits \in Nat
ASSUME NoneAssumption == None \notin {"User", "Account"}

\* Terms by their length once trimmed, 2 standing for anything longer: nothing typed, spaces,
\* one character, a term, and one that has nothing but the marks "/" and "*".
Length == [empty |-> 0, blank |-> 0, short |-> 1, plain |-> 2, marks |-> 2]
Term == DOMAIN Length

Type == {"User", "Account"}   \* SearchCategory, and None for any other

Query == [term : Term, type : Type \cup {None}, page : Int, size : Nat,
          by : {"button", "enter", "link", "address"}]
Request == Query \cup {[by |-> None]}
NoRequest == [by |-> None]

\* What an alias can answer: any distinct items, in any order.
Answers ==
  UNION {{s \in [1 .. n -> Item] : \A j, k \in 1 .. n : s[j] = s[k] => j = k} : n \in 0 .. MaxHits}

\* The items of an answer.
Found(h) == {h[k] : k \in DOMAIN h}

VARIABLES
  hits,      \* what the cluster answers to the search shown, best hit first
  radio,     \* the category chosen
  ready,     \* has the script run on this page?
  mark,      \* the watermark: the category it names
  request,   \* the request under way
  view,      \* the page shown
  promise,   \* history: the category that the watermark named when the button was pressed
  far,       \* history: the last page of the walk through the results, -1 if it is broken
  seen       \* history: the items shown in this walk

form == <<radio, ready, mark>>
walk == <<far, seen>>
vars == <<hits, form, request, view, promise, walk>>

TypeOK ==
  /\ hits \in Answers
  /\ radio \in Type /\ ready \in BOOLEAN /\ mark \in Type \cup {None}
  /\ request \in Request
  /\ view \in [results : BOOLEAN, term : Term, type : Type \cup {None}, page : Int, last : Nat,
               total : Nat, rows : SUBSET Item]
  /\ promise \in Type \cup {None}
  /\ far \in Nat \cup {-1} /\ seen \in SUBSET Item
------------------------------------------------------------------------------
(* The server *)

GetPage(page) == IF page < 0 THEN 0 ELSE page

\* Skip and Take.
Window(h, page, size) ==
  {h[k] : k \in {k \in DOMAIN h : size * GetPage(page) < k /\ k <= size * GetPage(page) + size}}

\* The number of pages, taken for the last page.
LastPage_FaultyCount(h, size) == Len(h) \div (IF size = 0 THEN 1 ELSE size) + 1

LastPage(h, size) == Len(h) \div (IF size = 0 THEN 1 ELSE size)

\* A result that is null has no last page.
Nothing_FaultyNull == [last |-> -1, total |-> 0, rows |-> {}]

\* A result that is null, as the mapping shows it.
Nothing == [last |-> 0, total |-> 0, rows |-> {}]

GetSearchResponse(h, q) ==
  [last |-> LastPage(h, q.size), total |-> Len(h), rows |-> Window(h, q.page, q.size)]

FindUsers(h, q) == IF q.type = "User" THEN GetSearchResponse(h, q) ELSE Nothing

FindAccounts(h, q) == IF q.type = "Account" THEN GetSearchResponse(h, q) ELSE Nothing

\* Without "/" and "*" something is left to search for.
Searched(q) == q.term # "marks"

\* Handle: whatever the cluster refuses leaves both results null.
Handle(h, q, refused) ==
  IF Searched(q) /\ ~refused
  THEN [users |-> FindUsers(h, q), accounts |-> FindAccounts(h, q)]
  ELSE [users |-> Nothing, accounts |-> Nothing]

\* The controller searches for two characters and more.
Accepts(q) == Length[q.term] >= 2

\* The page without results: the form alone, also for a category that is none of the two.
BareForm ==
  [results |-> FALSE, term |-> "empty", type |-> None, page |-> 0, last |-> 0, total |-> 0,
   rows |-> {}]

\* Index: the view of a query's results, the category's of the two.
Index(h, q, refused) ==
  LET response == Handle(h, q, refused)
      result == IF q.type = "Account" THEN response.accounts ELSE response.users
  IN  IF Accepts(q) /\ q.type \in Type
      THEN [results |-> TRUE, term |-> q.term, type |-> q.type, page |-> q.page,
            last |-> result.last, total |-> result.total, rows |-> result.rows]
      ELSE BareForm

\* Previous and Next are shown below a table with rows only.
PreviousOffered == view.rows # {} /\ view.page > 0

\* The pager is shown without rows too.
NextOffered_FaultyEmpty == view.results /\ view.page # view.last

NextOffered == view.rows # {} /\ view.page # view.last

\* Accounts with the same score are sorted by name, users are in any order.
TieBroken_FaultyScore(type) == FALSE

TieBroken(type) == type = "Account"
------------------------------------------------------------------------------
(* The browser *)

\* The watermark names the category chosen.
ChangePlaceholder(type) == mark' = type

Init ==
  /\ hits = <<>>
  /\ radio = "User" /\ ready = FALSE /\ mark = None
  /\ request = NoRequest /\ view = BareForm
  /\ promise = None
  /\ far = -1 /\ seen = {}

EndWalk == far' = -1 /\ seen' = {}

\* The page has loaded: the script sets the watermark and listens from now on.
Ready ==
  /\ ~ready
  /\ ready' = TRUE
  /\ ChangePlaceholder(radio)
  /\ UNCHANGED <<hits, radio, request, view, promise, walk>>

ChooseType ==
  /\ radio' \in Type
  /\ IF ready THEN ChangePlaceholder(radio') ELSE UNCHANGED mark
  /\ UNCHANGED <<hits, ready, request, view, promise, walk>>

\* What the form asks for, with the term typed: page 0.
Submitted(term, by) ==
  [term |-> term, type |-> radio, page |-> 0, size |-> PageSize, by |-> by]

\* Anything typed will do.
SearchClick_FaultyLength ==
  /\ ready
  /\ \E term \in Term :
       /\ Length[term] >= 1
       /\ request' = Submitted(term, "button")
  /\ promise' = mark
  /\ UNCHANGED <<hits, form, view, walk>>

\* The button: two characters are sent, in place of a request under way.  Less is cleared.
SearchClick ==
  /\ ready
  /\ \E term \in Term :
       /\ Length[term] >= 2
       /\ request' = Submitted(term, "button")
  /\ promise' = mark
  /\ UNCHANGED <<hits, form, view, walk>>

\* The form's request is sent without the script, whatever is in the box but nothing.
PressEnter ==
  /\ \E term \in Term \ {"empty"} : request' = Submitted(term, "enter")
  /\ promise' = None
  /\ UNCHANGED <<hits, form, view, walk>>

\* A link of the pager asks for the same search, another page and the usual size.
Link(page) ==
  [term |-> view.term, type |-> view.type, page |-> page, size |-> PageSize, by |-> "link"]

Follow ==
  /\ \/ PreviousOffered /\ request' = Link(view.page - 1)
     \/ NextOffered /\ request' = Link(view.page + 1)
  /\ promise' = None
  /\ UNCHANGED <<hits, form, view, walk>>

\* "Clear search" opens the form alone.
Clear ==
  /\ request' = [term |-> "empty", type |-> None, page |-> 0, size |-> PageSize, by |-> "address"]
  /\ promise' = None
  /\ UNCHANGED <<hits, form, view, walk>>

\* A bookmark, or an address that someone edited.
Open ==
  /\ \E type \in Type \cup {None}, page \in TypedPage, size \in TypedSize :
       request' = [term |-> "plain", type |-> type, page |-> page, size |-> size, by |-> "address"]
  /\ promise' = None
  /\ UNCHANGED <<hits, form, view, walk>>

\* The walk that an answer starts or goes on with; no claim is made of what an address shows.
WalkOn(q, refused) ==
  LET shown == view'.results /\ Searched(q) /\ ~refused IN
  \/ /\ shown /\ q.by \in {"button", "enter"}
     /\ far' = 0 /\ seen' = view'.rows
  \/ /\ shown /\ q.by = "link" /\ far >= 0
     /\ far' = IF q.page > far THEN q.page ELSE far
     /\ seen' = seen \cup view'.rows
  \/ /\ ~shown \/ q.by = "address" \/ (q.by = "link" /\ far = -1)
     /\ EndWalk

\* The server answers, the page shows the category of the request and is not ready yet.
Answer ==
  /\ request # NoRequest
  /\ hits' \in IF request.by = "link" THEN {hits} ELSE Answers
  /\ \E refused \in BOOLEAN :
       /\ view' = Index(hits', request, refused)
       /\ WalkOn(request, refused)
  /\ radio' = IF request.type \in Type THEN request.type ELSE "User"
  /\ ready' = FALSE /\ mark' = None
  /\ request' = NoRequest /\ promise' = None

\* No answer comes, or the user does not wait for it.
Abandon ==
  /\ request # NoRequest
  /\ request' = NoRequest /\ promise' = None
  /\ UNCHANGED <<hits, form, view, walk>>
------------------------------------------------------------------------------
(* The cluster *)

\* The indexer publishes another index, or changes to it become visible.
Publish ==
  /\ hits' \in Answers
  /\ EndWalk
  /\ UNCHANGED <<form, request, view, promise>>

\* Hits that tie come in another order.  For users that ends the walk.
Reorder ==
  /\ view.results /\ ~TieBroken(view.type)
  /\ hits' \in {h \in Answers : Len(h) = Len(hits) /\ Found(h) = Found(hits)}
  /\ IF view.type = "User" THEN EndWalk ELSE UNCHANGED walk
  /\ UNCHANGED <<form, request, view, promise>>

Next ==
  \/ Ready \/ ChooseType \/ SearchClick \/ PressEnter \/ Follow \/ Clear \/ Open
  \/ Answer \/ Abandon
  \/ Publish \/ Reorder

Spec == Init /\ [][Next]_vars
------------------------------------------------------------------------------
(* Properties *)

\* Following the pager from the first page, in either direction, a user who is offered no next
\* page has seen every hit, unless meanwhile an index was published or, for users, tied hits
\* came in another order, or the cluster refused a page.
NothingMissed ==
  far >= 0 /\ ~NextOffered => seen = Found(hits)

\* On such a walk a search that found something shows a page without rows, and so without a
\* pager, only at the end, and only when the page size divides the number of hits.
EmptyOnlyBehindFull ==
  far >= 0 /\ view.rows = {} /\ hits # <<>>
    => Len(hits) = view.page * PageSize

\* Whatever page and size were asked for, and whatever was published in between, a next page
\* is offered only in front of the last one: the test for "another page" never overruns it.
NextWithinLast == NextOffered => view.page < view.last

\* The script and the server agree: a search sent by the button is answered with results, of
\* the category that the watermark named, however the form was used before.
ButtonKeepsPromise ==
  [][Answer /\ request.by = "button" => view'.results /\ view'.type = promise]_vars
=============================================================================
