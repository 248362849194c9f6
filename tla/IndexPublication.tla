--------------------------- MODULE IndexPublication ---------------------------
(***************************************************************************)
(* One indexer worker rebuilding the search index of one category          *)
(* (Account or User) in Elasticsearch, pass after pass:                    *)
(* BaseIndexResourceProcessor.ProcessResource and what it calls in         *)
(* ElasticSearchIndexProvider and ElasticsearchCustomClient.               *)
(*                                                                         *)
(* A pass names a new index after the current second, creates it,          *)
(* downloads the item count and then the items page by page, loads each    *)
(* page, moves the alias to the new index and deletes old indices.  Every  *)
(* HTTP call to the sub site or to the cluster is one step, so the worker  *)
(* may be killed between any two of them, and every call may go wrong in   *)
(* the ways the code tells apart.                                          *)
(*                                                                         *)
(* The indices of one category share a prefix that no other category has;  *)
(* an index is represented by the time stamp that ends its name.           *)
(*                                                                         *)
(* A definition whose name ends in Faulty... is a plausible mistake in the *)
(* definition that follows it; nothing uses it, and PROJECT.json says      *)
(* which property refutes it.                                              *)
(***************************************************************************)
EXTENDS Integers, FiniteSets, CallAnswers

CONSTANTS
  IndexToRetain,  \* how many indices DeleteIndexes is asked to keep (2)
  PageSize,       \* items per downloaded page (50)
  MaxItems,       \* bound on the items the sub site holds
  MaxTime,        \* bound on the clock, in seconds
  MaxLost,        \* bound on the indices left unpublished since the last publication
  SameSecond      \* may a pass start in the second the previous one started in?

ASSUME IndexToRetainAssumption == IndexToRetain \in Int
ASSUME PageSizeAssumption == PageSize \in Nat \ {0}
ASSUME BoundsAssumption == MaxItems \in Nat /\ MaxTime \in Nat /\ MaxLost \in Nat
ASSUME SameSecondAssumption == SameSecond \in BOOLEAN

VARIABLES
  now,        \* the clock, in seconds
  indices,    \* the existing indices
  docs,       \* the items each index holds
  alias,      \* the indices the alias points at
  pc,         \* the worker's next call
  name,       \* newIndexName of the pass under way, or else of the last one
  lastCode,   \* SiteConnector.LastCode, which survives from one call to the next
  retryCount, \* retries of the download under way
  total,      \* totalSearchItems
  pageNumber, \* pageNumber
  searchItems,\* searchItems, what the last page download brought
  pointing,   \* existingIndexesOnAlias
  victims,    \* indicesToBeDelete that remain to be deleted
  lost,       \* history: indices left behind unpublished since the last publication
  dropped,    \* history: pages of this pass that did not reach the index in full
  undeleted   \* history: indices this pass asked to delete and that are still there

cluster == <<indices, docs, alias>>
download == <<lastCode, retryCount, total, pageNumber, searchItems>>
retention == <<pointing, victims>>
history == <<lost, dropped, undeleted>>
vars == <<now, cluster, pc, name, download, retention, history>>

Stamp == 1 .. MaxTime
Items == 1 .. MaxItems

\* The worker has created the index of its pass and not yet moved the alias.
Building == {"count", "page", "load", "discard", "aliasExists", "addAlias", "lookup", "swap"}
Cleaning == {"stats", "list", "delete"}
PC == {"idle", "exists", "create"} \cup Building \cup Cleaning

TypeOK ==
  /\ now \in Nat \ {0}
  /\ indices \in SUBSET Stamp
  /\ docs \in [Stamp -> SUBSET Items]
  /\ alias \in SUBSET indices
  /\ pc \in PC
  /\ name \in 0 .. now
  /\ lastCode \in Code
  /\ retryCount \in 0 .. 2
  /\ total \in 0 .. MaxItems
  /\ pageNumber \in Nat
  /\ searchItems \in SUBSET Items
  /\ pointing \in SUBSET Stamp
  /\ victims \in SUBSET Stamp
  /\ lost \in SUBSET Stamp
  /\ dropped \in SUBSET Nat
  /\ undeleted \in SUBSET Stamp
------------------------------------------------------------------------------
(* Helpers *)

Pages_FaultyFloor == total \div PageSize

\* (int)Math.Ceiling(totalSearchItems / (double)_pageSize)
Pages == (total + PageSize - 1) \div PageSize

\* The items that page p of the sub site's search answers with.
PageItems(p) == {k \in 1 .. total : (k - 1) \div PageSize = p - 1}

\* DeleteIndexes keeps three indices when it is asked to keep none.
Retained == IF IndexToRetain <= 0 THEN 3 ELSE IndexToRetain

\* The indices of S that are newer than i.
Newer(S, i) == {j \in S : i < j}

Expired_FaultyOneTooMany(S) == {i \in S : Cardinality(Newer(S, i)) > Retained}
Expired_FaultyOneTooFew(S) == {i \in S : Cardinality(Newer(S, i)) >= Retained - 1}
Expired_FaultyOrder(S) == {i \in S : Cardinality({j \in S : j < i}) >= Retained}

\* All but the Retained newest indices.
Expired(S) == {i \in S : Cardinality(Newer(S, i)) >= Retained}

\* The environment may still leave one more index unpublished.
MayLose == Cardinality(lost) < MaxLost

TryAgain_FaultyBound(answer) == answer.code = "Unauthorized" /\ retryCount + 1 < 4

\* do { ... } while (LastCode == Unauthorized && ++retryCount < 3)
TryAgain(answer) == answer.code = "Unauthorized" /\ retryCount + 1 < 3

\* ProcessResource returns: its locals go out of scope.
EndPass ==
  /\ pc' = "idle"
  /\ retryCount' = 0 /\ total' = 0 /\ pageNumber' = 0 /\ searchItems' = {}
  /\ pointing' = {} /\ victims' = {}
  /\ dropped' = {} /\ undeleted' = {}

\* The cluster deletes index i: it leaves the alias as well.
DropIndex(i) ==
  /\ indices' = indices \ {i}
  /\ docs' = [docs EXCEPT ![i] = {}]
  /\ alias' = alias \ {i}
------------------------------------------------------------------------------
(* Starting a pass and creating its index *)

Init ==
  /\ now = 1
  /\ indices = {} /\ docs = [i \in Stamp |-> {}] /\ alias = {}
  /\ pc = "idle" /\ name = 0
  /\ lastCode = "none" /\ retryCount = 0 /\ total = 0 /\ pageNumber = 0 /\ searchItems = {}
  /\ pointing = {} /\ victims = {}
  /\ lost = {} /\ dropped = {} /\ undeleted = {}

\* The clock advances.
Tick ==
  /\ now < MaxTime
  /\ now' = now + 1
  /\ UNCHANGED <<cluster, pc, name, download, retention, history>>

\* The worker sits in Task.Delay.
Delay ==
  /\ pc = "idle"
  /\ UNCHANGED vars

\* The name has a resolution of two seconds.
StartPass_FaultyResolution ==
  /\ pc = "idle"
  /\ now <= MaxTime
  /\ SameSecond \/ name < now
  /\ name' = now - ((now + 1) % 2)
  /\ pc' = "exists"
  /\ UNCHANGED <<now, cluster, download, retention, history>>

StartPass ==
  /\ pc = "idle"
  /\ now <= MaxTime
  /\ SameSecond \/ name < now
  /\ name' = now
  /\ pc' = "exists"
  /\ UNCHANGED <<now, cluster, download, retention, history>>

\* A failed call reads as "does not exist".
IndexExists ==
  /\ pc = "exists"
  /\ \E exists \in {(name \in indices), FALSE} :
       pc' = IF exists THEN "count" ELSE "create"
  /\ UNCHANGED <<now, cluster, name, download, retention, history>>

CreateIndex ==
  /\ pc = "create"
  /\ name \notin indices
  /\ indices' = indices \cup {name}
  /\ pc' = "count"
  /\ UNCHANGED <<now, docs, alias, name, download, retention, history>>

\* Creation is refused, or the index exists: the exception ends the pass.
CreateIndexRefused ==
  /\ pc = "create"
  /\ EndPass
  /\ UNCHANGED <<now, cluster, name, lastCode, lost>>

\* The index is created and the answer is lost: the exception ends the pass.
CreateIndexAnswerLost ==
  /\ pc = "create"
  /\ name \notin indices
  /\ MayLose
  /\ indices' = indices \cup {name}
  /\ lost' = lost \cup {name}
  /\ EndPass
  /\ UNCHANGED <<now, docs, alias, name, lastCode>>
------------------------------------------------------------------------------
(* Downloading and loading *)

\* One attempt at the item count.  A body with data is a number, here any up to the bound;
\* a negative one has no pages, like zero.
DownloadCount ==
  /\ pc = "count"
  /\ \E answer \in Answers(lastCode), n \in 0 .. MaxItems :
       /\ lastCode' = answer.code
       /\ \/ /\ TryAgain(answer)
             /\ retryCount' = retryCount + 1
             /\ UNCHANGED <<pc, total, pageNumber>>
          \/ /\ ~TryAgain(answer)
             /\ answer.code = "OK" /\ answer.body = "data"
             /\ retryCount' = 0
             /\ total' = n
             /\ pageNumber' = 1
             /\ pc' = IF n = 0 THEN "aliasExists" ELSE "page"
          \/ /\ ~TryAgain(answer)
             /\ ~(answer.code = "OK" /\ answer.body = "data")
             /\ retryCount' = 0
             /\ pc' = "discard"
             /\ UNCHANGED <<total, pageNumber>>
  /\ UNCHANGED <<now, cluster, name, searchItems, retention, history>>

\* The new index is not deleted.
Discard_FaultyKeep ==
  /\ pc = "discard"
  /\ EndPass
  /\ UNCHANGED <<now, cluster, name, lastCode, lost>>

\* The count failed: the new index is deleted and the exception ends the pass.
Discard ==
  /\ pc = "discard"
  /\ DropIndex(name)
  /\ EndPass
  /\ UNCHANGED <<now, name, lastCode, lost>>

\* The deletion is refused, which is only logged.
DiscardRefused ==
  /\ pc = "discard"
  /\ MayLose
  /\ lost' = lost \cup {name}
  /\ EndPass
  /\ UNCHANGED <<now, cluster, name, lastCode>>

\* One attempt at a page.  A failure is logged and the loop goes on with what there is.
DownloadPage ==
  /\ pc = "page"
  /\ \E answer \in Answers(lastCode) :
       /\ lastCode' = answer.code
       /\ \/ /\ TryAgain(answer)
             /\ retryCount' = retryCount + 1
             /\ UNCHANGED <<pc, searchItems>>
          \/ /\ ~TryAgain(answer)
             /\ retryCount' = 0
             /\ searchItems' = IF answer.body = "data" THEN PageItems(pageNumber) ELSE {}
             /\ pc' = "load"
  /\ UNCHANGED <<now, cluster, name, total, pageNumber, retention, history>>

\* The loop goes back to a page until something of it arrives.
LoadPage_FaultyInsist ==
  /\ pc = "load"
  /\ \E loaded \in SUBSET searchItems :
       /\ docs' = [docs EXCEPT ![name] = @ \cup loaded]
       /\ dropped' = IF loaded = PageItems(pageNumber) THEN dropped
                     ELSE dropped \cup {pageNumber}
  /\ searchItems' = {}
  /\ pageNumber' = IF searchItems = {} THEN pageNumber ELSE pageNumber + 1
  /\ pc' = IF searchItems = {} \/ pageNumber < Pages THEN "page" ELSE "aliasExists"
  /\ UNCHANGED <<now, indices, alias, name, lastCode, retryCount, total, retention, lost, undeleted>>

\* IndexDocuments swallows every failure, loading null included.
LoadPage ==
  /\ pc = "load"
  /\ \E loaded \in SUBSET searchItems :
       /\ docs' = [docs EXCEPT ![name] = @ \cup loaded]
       /\ dropped' = IF loaded = PageItems(pageNumber) THEN dropped
                     ELSE dropped \cup {pageNumber}
  /\ searchItems' = {}
  /\ pageNumber' = pageNumber + 1
  /\ pc' = IF pageNumber < Pages THEN "page" ELSE "aliasExists"
  /\ UNCHANGED <<now, indices, alias, name, lastCode, retryCount, total, retention, lost, undeleted>>
------------------------------------------------------------------------------
(* Moving the alias: no answer of the cluster is looked at *)

\* A failed call reads as "does not exist".
AliasExists ==
  /\ pc = "aliasExists"
  /\ \E exists \in {(alias # {}), FALSE} :
       pc' = IF exists THEN "lookup" ELSE "addAlias"
  /\ UNCHANGED <<now, cluster, name, download, retention, history>>

\* A failed call reads as "none".
GetIndicesPointingToAlias ==
  /\ pc = "lookup"
  /\ pointing' \in {alias, {}}
  /\ pc' = "swap"
  /\ UNCHANGED <<now, cluster, name, download, victims, history>>

\* The alias request is applied as a whole.
MoveAlias ==
  /\ pc \in {"addAlias", "swap"}
  /\ alias' = (alias \ pointing) \cup {name}
  /\ lost' = {}
  /\ pc' = "stats"
  /\ UNCHANGED <<now, indices, docs, name, download, retention, dropped, undeleted>>

\* The alias request fails; the worker does not notice.
MoveAliasLost ==
  /\ pc \in {"addAlias", "swap"}
  /\ MayLose
  /\ lost' = lost \cup {name}
  /\ pc' = "stats"
  /\ UNCHANGED <<now, cluster, name, download, retention, dropped, undeleted>>
------------------------------------------------------------------------------
(* Deleting old indices *)

\* The first statistics call only counts.
CountIndices ==
  /\ pc = "stats"
  /\ Cardinality(indices) > Retained
  /\ pc' = "list"
  /\ UNCHANGED <<now, cluster, name, download, retention, history>>

NothingToDelete ==
  /\ pc = "stats"
  /\ Cardinality(indices) <= Retained
  /\ EndPass
  /\ UNCHANGED <<now, cluster, name, lastCode, lost>>

\* The second statistics call lists the indices to delete.
ListIndices ==
  /\ pc = "list"
  /\ victims' = Expired(indices)
  /\ pc' = "delete"
  /\ UNCHANGED <<now, cluster, name, download, pointing, history>>

\* Either statistics call fails: the exception ends the pass.
StatsFail ==
  /\ pc \in {"stats", "list"}
  /\ EndPass
  /\ UNCHANGED <<now, cluster, name, lastCode, lost>>

\* The newest index that is left to delete goes first.
DeleteIndex ==
  /\ pc = "delete"
  /\ \E v \in victims :
       /\ Newer(victims, v) = {}
       /\ DropIndex(v)
       /\ victims' = victims \ {v}
  /\ UNCHANGED <<now, pc, name, download, pointing, history>>

\* The deletion is refused, which is only logged.
DeleteIndexRefused ==
  /\ pc = "delete"
  /\ \E v \in victims :
       /\ Newer(victims, v) = {}
       /\ victims' = victims \ {v}
       /\ undeleted' = undeleted \cup {v}
  /\ UNCHANGED <<now, cluster, pc, name, download, pointing, lost, dropped>>

DeletionCompleted ==
  /\ pc = "delete"
  /\ victims = {}
  /\ EndPass
  /\ UNCHANGED <<now, cluster, name, lastCode, lost>>
------------------------------------------------------------------------------
(* The worker is killed, and starts again with a new SiteConnector *)

Crash ==
  /\ pc \in Building => MayLose
  /\ lost' = IF pc \in Building THEN lost \cup {name} ELSE lost
  /\ lastCode' = "none"
  /\ EndPass
  /\ UNCHANGED <<now, cluster, name>>

\* The steps of the worker that its scheduling makes happen: the calls of a pass.
Step ==
  \/ IndexExists \/ CreateIndex \/ CreateIndexRefused \/ CreateIndexAnswerLost
  \/ DownloadCount \/ Discard \/ DiscardRefused
  \/ DownloadPage \/ LoadPage
  \/ AliasExists \/ GetIndicesPointingToAlias \/ MoveAlias \/ MoveAliasLost
  \/ CountIndices \/ NothingToDelete \/ ListIndices \/ StatsFail
  \/ DeleteIndex \/ DeleteIndexRefused \/ DeletionCompleted

Next == Tick \/ Delay \/ StartPass \/ Step \/ Crash

Spec == Init /\ [][Next]_vars

\* A running worker takes the next call of its pass.
FairSpec == Spec /\ WF_vars(Step)
------------------------------------------------------------------------------
(* Properties *)

\* Once search serves an index it never goes dark: neither retention nor the clean-up of a
\* failed pass takes the last index from the alias.
AliasNeverLost == [][alias # {} => alias' # {}]_vars

\* Every index newer than the newest one served is being built or was left behind by a
\* fault; a pass that merely fails to download leaves none.
NewerAccountedFor ==
  \A i \in indices :
    (\A a \in alias : a < i) => i \in lost \/ (i = name /\ pc \in Building)

\* The newest index served is out of retention's reach: it is not about to be deleted, and
\* only what NewerAccountedFor lists is newer.
LiveProtected ==
  alias # {} =>
    \E live \in alias :
      /\ \A a \in alias : a <= live
      /\ live \notin victims
      /\ \A i \in Newer(indices, live) : i \in lost \/ (i = name /\ pc \in Building)

\* Where the worker is in its pass and which indices exist: no index is newer than the one
\* being built, which is new and which nobody searches yet.
PassInv ==
  /\ pc # "idle" => name \in Stamp
  /\ \A i \in indices : i <= name
  /\ pc \in {"exists", "create"} => name \notin indices
  /\ pc \in Building => name \in indices \ alias
  /\ victims # {} => pc = "delete"

\* The inductive invariant behind AliasNeverLost and SearchSpec.
PublicationInv ==
  /\ TypeOK
  /\ PassInv
  /\ Cardinality(lost) <= MaxLost
  /\ NewerAccountedFor
  /\ LiveProtected

\* When retention has done its work, at most Retained indices are left beside those whose
\* deletion was refused.
RetentionHolds ==
  pc = "delete" /\ victims = {} => Cardinality(indices \ undeleted) <= Retained

\* When the alias is about to move, every item the count announced is in the new index
\* or on a page recorded as dropped.
ItemsAccountedFor ==
  pc \in {"aliasExists", "addAlias", "lookup", "swap"} =>
    1 .. total \subseteq docs[name] \cup UNION {PageItems(p) : p \in dropped}

\* What the comment at BaseIndexResourceProcessor.cs:143 says of the index that gets the
\* alias: one or two pages of it may be missing.
OneOrTwoPagesMissing ==
  pc \in {"addAlias", "swap"} => Cardinality(dropped) <= 2

\* What the log message at BaseIndexResourceProcessor.cs:68 says of the index that is
\* deleted after a failed count: it is a new one, which nobody searches yet.
DiscardedIsNew == pc = "discard" => name \notin alias

\* How far the end of a pass is: the stages that follow, and what is still to come of this one,
\* attempts at the count, pages with their attempts, or deletions.
StagesLeft ==
  [idle |-> 0, delete |-> 1, list |-> 2, stats |-> 3, addAlias |-> 4, swap |-> 4, lookup |-> 5,
   aliasExists |-> 6, discard |-> 6, load |-> 7, page |-> 7, count |-> 8, create |-> 9,
   exists |-> 10]

ToCome ==
  CASE pc = "count" -> 3 - retryCount
    [] pc = "page" -> 4 * (Pages - pageNumber) + 3 - retryCount
    [] pc = "load" -> 4 * (Pages - pageNumber)
    [] pc = "delete" -> Cardinality(victims)
    [] OTHER -> 0

\* However its calls go wrong, each of them brings a pass nearer to its end: it never starts a
\* stage again, and within a stage the attempts, pages and deletions to come run out.
PassAdvances ==
  [][pc # "idle" /\ now' = now =>
       \/ StagesLeft[pc'] < StagesLeft[pc]
       \/ StagesLeft[pc'] = StagesLeft[pc] /\ ToCome' \in 0 .. ToCome - 1]_vars

\* Every pass ends: retries, pages and deletions are finite.
PassEnds == pc # "idle" ~> pc = "idle"

\* The alias behaves as the portal's search needs it to: it moves to newer indices only, never
\* goes dark, and no index is loaded, emptied or filled again while a search can see it.
Search == INSTANCE SearchAlias WITH serving <- [i \in alias |-> docs[i]]
SearchSpec == Search!Spec
=============================================================================
