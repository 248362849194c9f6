# Specifications of the support portal and its indexer

The repository holds two programs. The *indexer worker* (`SFA.DAS.Support.Indexer.Worker`)
rebuilds, over and over, one Elasticsearch index of accounts and one of users from what two
sub sites (employer accounts, employer users) report. The *portal*
(`SFA.DAS.Support.Portal.Web`) lets support staff search those indices and shows pages it
fetches from the sub sites, some of them only after a challenge. Both talk to the sub sites
through the same class, `SiteConnector`, and both know them from two *manifests* compiled
into `SFA.DAS.Support.Shared`.

This directory specifies the indexer, the connector, and the portal's search, pages and
challenges in TLA+, checks the specifications with TLC on small instances, and proves the main
theorems with TLAPS for all instances.
Paths below are relative to `src/src/`, with the prefix `SFA.DAS.Support.` left out.

## 1. Inventory

| Component | State it keeps | Operations | Talks to | What is hard |
|---|---|---|---|---|
| Index publication: `Indexer.ApplicationServices/Services/*IndexResourceProcessor.cs`, `Common.Infrastucture/Elasticsearch/ElasticSearchIndexProvider.cs`, `ElasticsearchCustomClient.cs`, `Indexer/IndexNameCreator.cs` | none in memory beyond one pass; indices, documents and the alias live in the cluster | `ProcessResource`: create index, download count and pages, load, move alias, delete old indices | sub site (through the connector), cluster | every call can fail in a way of its own, most failures are swallowed; the worker may be killed between any two calls; names have a resolution of a second |
| Worker loop: `Indexer.Worker/WorkerRole.cs`, `IndexerService.cs`, `CompositIndexResourceProcessor.cs` | the cancellation, the delay, the place in the list of sites | `OnStart`, `Run`, `OnStop`, `IndexerService.Run` | index publication, configuration | delay arithmetic in 32 bits, one bad site ends the run, `OnStop` waits for `Run` |
| Site connector: `Shared/SiteConnection/SiteConnector.cs` and the five strategies | `LastCode`, `LastContent`, `LastException`, `HttpStatusCodeDecision`, the client's default `Authorization` header | `Download`, two `Upload`s that return something, one that does not | sub sites, token provider | callers read the outcome from fields after an await; in the portal all requests share one connector |
| Search cluster (Elasticsearch) | indices, documents, aliases | external | worker, portal search | lost answers, refused requests |
| Sub site pages: `ManifestRepository.cs`, `FormMapper.cs`, the actions of `ResourceController.cs` | a singleton; a copy of the site list | `GetResourcePage`, `GenerateHeader`, `GetChallengeForm`, `SubmitChallenge`, ... | connector, manifests | rewrites the shared manifest's URL formats while other requests read them; answers that are null; GET requests that change something |
| Manifests: `ServiceConfiguration.cs`, two site manifests | constant data (but see above) | look-ups | all | keys that no manifest or no site has |
| Challenge elevation: `ResourceController.cs`, `PermissionCookieProvider.cs` | a cookie per challenge and resource, with an end date | protected page, challenge form, submission | pages, cookies | sliding end, several tabs, case of ids |
| PAYE challenge: `ChallengeHandler.cs`, `ChallengePermissionHandler.cs`, `ChallengeService.cs`, `ChallengeHelper.cs`, `PayeSchemeObfuscator.cs` | none | choose positions, word them, check the answer | - | short schemes, ordinals |
| Search: `SearchController.cs`, `SearchHandler.cs`, `ElasticSearchProvider.cs`, `Views/Search/Index.cshtml`, `search-index.js` | none on the server; the form, its watermark and the page shown in the browser | `Index`, `FindUsers`, `FindAccounts`; button, Enter, pager | the alias | page arithmetic, ties, an index published between two pages, a form and a controller that check in different places |
| Token validation: `TokenValidationFilter.cs`, `TokenValidationHandler.cs` | cached issuer, keys and retrieval time | validate, refresh after 24 hours | identity provider | refresh by concurrent requests |
| Status and health: `StatusController.cs`, `HealthService.cs` | none | ask every sub site | connector | one failing site hides the others |
| Sign-in, cookie encryption, views, settings, wiring | configuration | - | libraries | object lifetimes decide what is shared |

What makes each correct:

* *Index publication.* Whatever fails, search keeps an index; it only moves to newer ones;
  retention keeps the right ones; no item goes missing without a trace; every pass ends.
* *Worker loop.* Passes of one category start in different seconds (the names of indices
  depend on it); a run covers the configured sites; the worker keeps going, and stops when
  it is told to.
* *Connector.* What a call returns and reports is the outcome of that call.
* *Elevation.* A protected page is shown only to a T2 user or within the timeout of the
  last grant for that very account; a grant is given only in the account's own form, where the
  portal takes the challenge for passed, and prolonged by visits; failures leave none behind.
* *Search.* Following the pager misses nothing and never leaves the results; a search that the
  button sends is carried out, in the category the watermark named.
* *Sub site pages.* Every URL asked for is right, however often the shared formats were
  rewritten; a request fails only for the configuration or its address; the portal's redirects lead to
  requests that only read.
* *Status.* A bad entry hides no other entry than the code's own limits make it hide.

PROJECT.json lists every component with its status and, under `hazards`, the lines at which
these requirements are at risk, each with the property that covers it or with the reason why
none does yet.

## 2. The modules

```
SearchAlias          what search relies on             (abstract)
   ^ refined by
IndexPublication     one pass after the other          <- MCIndexPublication, IndexPublicationProofs
   ^ assumes ~SameSecond            ^ takes the answers of its calls from
IndexerWorker        the loop around the passes        <- MCIndexerWorker, IndexerWorkerProofs
CallAnswers          what the indexer is told of a call
   ^ extended by
ConnectorCall        a call as its caller sees it      (abstract)
   ^ refined by, with one caller
SiteConnector        calls, alone or shared            <- MCSiteConnector, SiteConnectorProofs
   ^ calls of
PortalPages          requests for sub site pages       <- MCPortalPages, PortalPagesProofs
   ^ what a challenge protects
ChallengeElevation   protected pages in several tabs   <- MCChallengeElevation, ChallengeElevationProofs
   v refines
Elevation            what a challenge promises         (abstract)

SearchPages          a search and its pages            <- MCSearchPages, SearchPagesProofs
   ^ its index changes as SearchAlias says
```

The modules are composed by their assumptions, so that each stays small enough to be checked
exhaustively, and each assumption is a property of another module:

| Assumption | Made by | Shown by |
|---|---|---|
| passes of one category start in different seconds (`SameSecond = FALSE`) | the publication theorems | `IndexerWorker!DistinctSeconds`, theorem `PassesInDistinctSeconds`, for a `Sound` configuration |
| a pass ends and does not throw | `IndexerWorker!PassEnds`, an action | `IndexPublication!PassEnds`, run `content`; every path of `ProcessResource` ends in `EndPass` |
| an answer is recorded in `LastCode`, no answer leaves the code before (`Answers`) | `IndexPublication` | `SiteConnector!CallSpec`, theorem `ConnectorImplementsCall`: both modules take `Answers` from `CallAnswers` |
| the alias that search queries keeps an index, and the content of an index it serves stays | the portal's search | `IndexPublication!SearchSpec`, theorem `PublicationImplementsSearch` |
| hits change at any time, and only as a whole (`Publish`) | `SearchPages` | `IndexPublication`: the alias moves in one request |
| a call ends with an answer, without one, or with an exception kept in `LastException` | `PortalPages`, as choices | `SiteConnector`; with several callers the code read may be another's (run `connector_crosstalk`), which no choice of `PortalPages` depends on |
| an `Upload` returns its own answer, none, or the answer of a call that was answered after it | `ChallengeElevation` | `SiteConnector!UploadedSince`, theorem `UploadsLookForward` |
| a redirect after a passed challenge comes back to the page that asked for it | `PortalPages!SubmitChallenge` | `FormMapper` writes the address into the form, `ManifestRepository.cs:86` takes it from there |

Definitions called `..._Faulty...` are plausible mistakes in the definition that follows them.
No specification uses them; put in place of that definition, each makes the property that
PROJECT.json names with it fail, which shows that the property depends on the code.

### IndexPublication

One worker and one category. An index is the second its build started in, the part of its
name that varies (`IndexNameCreator.cs:17`). `pc` is the next HTTP call of
`ProcessResource`; each call is one action, with an action of its own for each way of failing
that matters:

* `IndexExists`, `CreateIndex`: a failed existence check reads as "no"; a refused creation or
  one whose answer is lost throws (`ValidateResponse`) and ends the pass.
* `DownloadCount`, `DownloadPage`: one *attempt* each; 401 is tried three times in all; the
  code of a call without an answer is the code of the call before it, so an unanswered call
  after a 401 is retried and one after a 200 passes for a success without a body. A failed
  count discards the index, a failed page is skipped.
* `LoadPage`: any part of the page may arrive, since `IndexDocuments` swallows exceptions.
* `AliasExists`, `GetIndicesPointingToAlias`, `MoveAlias`, `MoveAliasLost`: failures read as
  "no" and "none"; the answer of the alias request is never looked at.
* `CountIndices`, `ListIndices`, `DeleteIndex`, ...: retention, newest victim first, refusals
  are logged only.
* `Crash`: the worker is killed anywhere and starts again with a new connector.

`docs` holds items as numbers and a page as a set of them. Deleting an index takes it off the
alias, as Elasticsearch does. `lost`, `dropped` and `undeleted` are history variables: the
faults that happened, in terms of which the properties say what the code guarantees.

`SearchAlias` is the promise to the portal: the set of indices served only changes by
publishing a newer one or by retiring an older one while a newer one serves, and what an index
holds does not change while it is served. Its one variable maps each index served to its items;
`Search` instantiates it with `docs` restricted to the alias.

`StagesLeft` and `ToCome` are how far a pass is from its end: the pages, the attempts left for the
current call, the indices still to delete. `PassAdvances` says that every step leaves less.

### IndexerWorker

The clock is the millisecond within the current second (`phase`) and the time left to wait
(`left`). `sites` is the configured list, each entry reduced to whether a Uri can be made of
its BaseUrl and to the category its manifest has a resource to index for. `DelayTime` is the
32-bit product of `WorkerRole.cs:55`, with the width a constant. `RunFails` is the exception
of an unusable site, which ends the run at `IndexerService.cs:97`; `DelayOver` does not look at
the cancellation, `LeaveLoop` does. A pass is one action that takes any time. Its own `StagesLeft`
measures how far `Run` is from returning once the stop was asked for: the rest of the run, then
the time still to wait; `StopNearer` says that each step of the loop, and of the clock while the
worker waits, makes it less.

### SiteConnector

A set of callers, one connector. The shared fields are variables of their own; `answer`,
`handler`, `verdict` and what the caller read are per caller. A call goes through the steps of
the code: token, exchange, content, examine, select, handle, decide, switch, and then the
caller's reading of `LastCode` and `LastException`, each a step that may interleave with those
of other callers. Selecting a strategy compares `LastCode` with one bound after another, so
when another caller is about to set it any strategy may come out. A body is represented by the
caller it answers, which is what the properties are about.

`ConnectorCall` is the same with the inside left out: a call is answered by one of
`Answers(lastCode)` or not at all, and its caller is told just that. `Phase`, `Settled` and `Told`
map a lone caller's steps to it.

### ChallengeElevation

One user's browser with several tabs. The server keeps nothing between requests: all that is
known of an elevation is in the cookies, `jar`, one for each account, each reduced to its
`EndDate`. A request takes its cookie when it is sent (`Ask`, and `Receive` for the redirect after
a passed challenge) and the answer sets one when it arrives (`Receive`), so that an older cookie
may replace a newer one; `LoseAnswer` covers lost answers and error pages, which come without
cookies. `Index` has the two outcomes of the controller's: the page, with a renewed cookie if
permissions were checked, or the way to the challenge. `SubmitChallenge` and
`SubmitChallengeFails` are the outcomes of a submission; what fails in between (nothing
uploaded, an exception of the connector, a null result) either shows the form again or an
error, and in neither case permissions are given.

A submission passes when what `Upload` returns says so, and `Upload` returns `LastContent`, which
every call of the portal writes (`SiteConnector.cs:142`, `161`, `ManifestRepository.cs:105`).
So it takes two steps: `AnswerChallenge` reads the answer of the tab's own submission into
`content`, and `SubmitChallenge` looks at `content`, which an answer of another tab, or of any
other request of the portal (`AnswerOther`, and the calls for pages, headers and forms), may have
overwritten in between. A wrong answer is then granted when the one that overtook it is
right, and the model has that behaviour. `answer` is a history variable: what the sub site answered
to a tab's submission while it is looked at, "mixed" once another answer was read.

`until` is a history variable: the end of what the server granted last for an account in this
session, whatever became of the cookie. `ServedElevated` relates pages served to it,
`CookiesWithinGrant` relates cookies to it, and `JarCurrent` says when the browser's cookie is
exactly it: unless answers overlapped or got lost (`behind`). The account's id is one value, as
`Index` turns it to upper case before anything else and both comparisons ignore case. Whether
the user is T2 is fixed: a role changes with a new sign-in.

`Elevation` leaves out the cookies and the connector: a grant per account, given in the form of
that account for an answer that is right or was overtaken by another, prolonged by a visit while
it is in force, ended by the clock or with the session. `ElevationSpec` is the promise kept by
`ChallengeElevation`, with `until` as the grant. It says what the code can promise and no more: a
wrong answer that nothing overtakes is never granted, and no form but the account's own grants
it anything; but an answer for one account that overtakes the answer for another may decide it.

### SearchPages

One browser on the search page. The form (`radio`, `mark`, `ready`) belongs to the page in the
browser; `request` is what is under way; `view` is the page shown. `SearchClick` is the script's
handler (`search-index.js:28`), `PressEnter` the form's own submission, which the script does not
see; `Follow` is a link of the pager, which repeats the term and category of the page shown and
always asks for the usual page size; `Open` is an address with any page and size. `Answer` runs
the controller, the handler and the provider in one step, since nothing of it is shared: the
term's length is checked, the marks "/" and "*" are taken out, an exception leaves both results
null (`SearchHandler.cs:46`), and the mapping turns null into an empty result. Terms are known by
their trimmed length. `Publish` and `Reorder` are the environment: another index, and hits with
one score in another order. Accounts are sorted by name behind the score
(`ElasticSearchProvider.cs:93`), so that their ties keep an order; users are not
(line 59), and `Reorder` ends a walk of theirs.

`far` and `seen` are history: how far the user has followed the pager from the first page of a
search, and what was shown. A walk ends when something the code does not promise happened: a
publication, a reorder of users, a refused page, an edited address.

### PortalPages

Several requests in one portal process. `format` is the part of the manifests that is written:
`GetResourcePage` stores the absolute URL back into the resource (`ManifestRepository.cs:236`), so
it takes three steps, `ReadFormat`, `RewriteFormat` and `GetResourcePage` proper, between which
those of other requests come. The header of a page, an invitation and a change of role read the
format; a challenge's form and a search of apprentices have formats of their own, which nobody
writes. A request (`Progress`) goes from place to place as the controller's actions do, and ends
with an `outcome`: what the view shows of a call's result (`Shown`), the answer of a sub site or a
text that there was an error or nothing was found (`Sub.cshtml:5`), which says nothing of what
the sub site did; the portal's own messages for what is not registered or missing; or an
exception, an error page. `config` is any list of sites: each entry has the identity its key means,
whether it is spelt exactly so, and whether a Uri can be made of its BaseUrl; a key may be null,
at which the look-ups of pages throw and the status goes on. `Status` is the loop of `StatusController`, entry by entry.

The elements, their sites, headers and challenges are those of the two manifests, one by one.
`EmployerUserAccounts` has the path of the user's header in its manifest; the model tells the two
elements apart all the same.

`StepsLeft` bounds the steps a request has left, redirects included, at each place; `RequestsEnd`
says that each step leaves fewer.

## 3. Runs

| Run | Instance | Distinct states | Shows |
|---|---|---|---|
| `publication` | 6 seconds, so up to six indices; retention 2, as configured in the code; an item or none; at most 1 index lost in a row | 677,040 | `AliasNeverLost`, `SearchSpec`, `NewerAccountedFor`, `RetentionHolds`, `DiscardedIsNew`, and the invariant that the proofs use |
| `content` | 2 seconds, 3 items on 2 pages, passes may share a second | 70,909 | `ItemsAccountedFor`, `PassAdvances`; `PassEnds` under fairness |
| `lost_pages` | 3 pages | violation | an index that misses three pages out of three is published |
| `same_second` | 1 second | violation | the clean-up of a failed pass deletes the live index |
| `worker` | four lists of two sites, delays of 0 to 3 "seconds" of 3 ms, an int of 4 bits | 2,067 | `RunCovers`, `DistinctSeconds`, `StopNearer`, `StopReturns`, `KeepsIndexing` |
| `skipped_site` | a blank site first | violation | the site after it is never indexed |
| `connector_alone` | 1 caller, 2 sites, 7 status codes | 4,897 | `OwnOutcome`, `CallSpec` |
| `connector_shared` | 2 callers, 3 status codes | 3,291,946, callers being alike | `DownloadedOwn`, `UploadedSince` |
| `connector_crosstalk` | 2 callers, 200 and 404 | violation | a caller reads the status of another's answer |
| `elevation` | 2 tabs, 2 accounts, timeout 2, clock to 4 | 198,070, tabs and accounts being alike | `ServedElevated`, `CookiesWithinGrant`, `JarCurrent`, `ElevationSpec` |
| `search_pages` | 4 items, pages of 2, up to 4 hits; pages -1 and 2 and sizes 0 and 3 in addresses | 55,856, items being alike | `NothingMissed`, `EmptyOnlyBehindFull`, `NextWithinLast`, `ButtonKeepsPromise` |
| `portal_pages` | 2 requests, 6 lists of sites, 4 keys in addresses | 622,784, requests being alike | `AskedRight`, `ErrorOnlyForConfiguration`, `DeadEndsOnlyTyped`, `RedirectsOnlyRead`, `StatusComplete`, `RequestsEnd` |

Why the bounds are enough. *publication*: retention can only take the live index when more
indices are newer than it than are kept, which takes `Retained` + 1 indices, and a second cycle
shows that a state is reached again; six seconds are two cycles at retention 2 with a fault in
between. With two lost indices instead of one TLC refutes `AliasNeverLost`, so the bound
on `lost` is the real precondition and not a matter of size (it is an assumption of the
theorems). *content*: three items on pages of two have a full page, a partial one and a
last one; zero to three items cover counts below, at and above a page. *worker*: two sites
are one before and one after the bad one; three milliseconds tell the start, the middle and
the end of a second apart; delay 3 overflows 4 bits, 0 keeps the next run in the same second.
*connector*: two callers suffice for one to overwrite the field of another; the three codes
are a success, the 401 that clears the token and one that raises an exception. *elevation*: two
tabs are what it takes for answers to overlap, two accounts to tell whose elevation serves;
with a timeout of 2 and a clock to 4 an elevation can be granted, extended once and expire.
*search_pages*: up to four hits on pages of two are none, a partial page, a full one, a full and
a partial one, and two full ones; page 2 lies behind all of them, size 0 and page -1 are what the
provider corrects. *portal_pages*: two requests suffice for one to rewrite what the other is about
to read; the lists have everything in place, no site for a page, an unusable entry before a good
one of the same site, a site twice, keys that parse for pages but not for the status, and a null key; the
keys are a page behind a challenge, a page with a child at a site other than its header's, a page
that is its own header, and a challenge. The proofs hold for any of these sets.

Symmetry (callers, sites, tabs, accounts, items, requests) is used in runs of safety properties only, never for liveness. Deadlock is
checked in every run; no specification stops, because time passes or a next call begins.

### Fairness

* `IndexPublication!FairSpec` has weak fairness of `Step`, the calls of a pass: the worker awaits
  each call, and each of them ends because the HTTP clients time out. `StartPass`, `Crash` and
  `Tick` have none.
* `IndexerWorker!FairSpec` has weak fairness of `Tick` (time passes) and `Work` (the loop's own
  statements). `OnStart`, `OnStop` and `Kill` are the host's and have none: `KeepsIndexing` is
  stated for a worker that stays up.
* `SiteConnector`, `ChallengeElevation`, `SearchPages` and `PortalPages` have no liveness property,
  and no fairness: nothing makes a user go on. `RequestsEnd` needs none: it is about each step.

## 4. What the checks found

1. `lost_pages` - a comment (`BaseIndexResourceProcessor.cs:143`) says that the index is created
   "when 1 or 2 pages fail"; the loop puts no limit on failures.
2. `same_second` - the log speaks of deleting the *new* index (`BaseIndexResourceProcessor.cs:68`);
   when two passes of a category share a second it is the one that search uses.
   `IndexerWorker` shows when that happens: two configured keys of one manifest, or a delay of 0.
3. `skipped_site` - the guard for a blank BaseUrl (`IndexerService.cs:66`) comes after the
   constructor that throws on one (line 60), so that the run ends instead.
4. `connector_crosstalk` - `ManifestRepository` is a singleton, and reads `LastCode` after the
   await (`ManifestRepository.cs:278`).

## 5. What is proved

The theorems hold for every value of the constants that satisfies the modules' assumptions.

*IndexPublicationProofs.* `TypeCorrect` and `RetentionWorks` hold without a condition. The others
assume `~SameSecond` and, where retention is involved, `MaxLost < Retained`: fewer
indices are left unpublished in a row than retention keeps. Both are needed: TLC finds the
counterexamples. The argument is the inductive invariant `PublicationInv`. `AliasNeverLost` is
not inductive: from a state in which unpublished indices crowd out the live one,
`ListIndices` condemns it. So the invariant says in addition that no index is newer than the
one being built (`PassInv`), that everything newer than the newest served index is that one or
was lost (`NewerAccountedFor`), and that the newest served index is not among the victims
(`LiveProtected`). The step that counts is `ListIndices`: the live index has at most
`MaxLost` < `Retained` newer ones and so is not in `Expired`. From the invariant follow
`DiscardIsSafe`, `SearchStaysUp`, `NewerExplained` and the refinement
`PublicationImplementsSearch`, whose second half is that no action writes to an index on the
alias: what a pass loads goes to the index it builds, which is newer than any served.
`RetentionWorks` has an invariant of its own: among finitely many stamps those with fewer
than `Retained` newer ones number at most `Retained`.

`NoItemUnaccounted` needs no condition either: `ItemsInv` says that the pages in front of the
current one are accounted for, and `PageOfItem`, an inequality between two divisions, that no
item is behind page `Pages`.

`PassesAdvance` needs no condition: `PageInv` keeps the page number within the pages announced and
the attempts below three, so that what is to come is a natural number, and each step of a pass
makes it smaller or goes to a later stage.

*IndexerWorkerProofs.* `WorkerInv` says where the run is (`RunInv`: a pass was started for each
site in front of the current one, all of them usable) and which passes started in this second
(`SecondInv`: while the worker waits, either none, or the wait lasts into the next second).
`RunsCover` and `PassesInDistinctSeconds` follow; the latter under `Sound`, a delay of at
least a second and no two sites of one category. `StopComesNearer` holds for any list and delay:
`StopInv` keeps the rest of the run and the wait natural numbers.

*SiteConnectorProofs.* `DownloadsStayApart`, for any number of callers: a Download reads its
own response again, and the shared fields only decide whether it does. `UploadsLookForward`, for any
number of callers too: an `Upload` has no copy of its own to return, but from the step that reads
its answer on, all that comes into `LastContent` is of calls answered later. `AloneIsFaithful`, for
one caller: from the answer on, the shared fields hold what this call has put there
(`AloneAt`). `ConnectorImplementsCall` takes the same invariant: the step at which the outcome is
settled is the code's assignment of `LastCode`, or the exception of a call without an answer, and
whatever the strategies do after it, the caller is told that outcome. It is what allows
`IndexPublication` to take a call for one step.

*ChallengeElevationProofs.* `ElevationInv` is `TypeOK` with `CookiesWithinGrant`; the types carry
the bound that counts, no end further than the timeout ahead of the clock. It is inductive
because a new grant never ends before an older one: time only goes forward, so a cookie that
was within the last grant is within the next. `ServedOnlyElevated` follows at the one step
that serves a page. `JarIsCurrent` needs the invariant `JarInv`: an account that is not behind has
at most one answer with a cookie under way, and that one carries the last grant; when it
arrives the browser has it, and a second grant in the meantime puts the account behind.
`CookiesImplementElevation` maps each step to one of `Elevation` or to none: `CookiesWithinGrant`
is what makes a visit that a cookie allows one that the grant allows, however old the cookie. For a
grant it takes `AnswersRead`: what `content` says is the tab's own answer unless that was
overtaken.

*SearchPagesProofs.* `PagerInv` says that a page with rows starts before the end of the hits and
names their last page; `PagerStaysWithin` follows from the arithmetic of pages. `ButtonInv` ties
a request of the button to the form; `ButtonFindsWhatItSays` follows. `PagerMissesNothing` and
`EmptyPageOnlyBehindFull` need `WalkInv`: while a walk lasts, `seen` is exactly what the pages up
to `far` hold of the hits, and the page shown is one of them. That no hit lies behind the last
page is `LastPageStarts`.

*PortalPagesProofs.* `Inv` has one part for the manifests, `FormatInv`: a format is still relative
or already that of its element's own site, and then stays so. Each request has four: what it
asked for and is about to write (`UrlInv`), where it can be with which keys (`FlowInv`), how it may
end (`EndInv`), and what the status has collected (`StatusInv`). The step that counts is
`RewriteFormat`, which changes what other requests are about to read: `RewriteFormatStep` shows
that each of them still finds the URL it needs. The theorems, one for each property of the
run, follow for any number of requests, any list of sites and any keys. `RequestsComeToAnEnd` takes
`FlowInv` for the places that may follow the header, and one lemma for each kind of step.

Only model-checked: `PassEnds`, `StopReturns` and `KeepsIndexing`, because liveness under fairness
is beyond the prover. For the first two the part that depends on the code is proved, the measure
that each step decreases (`PassesAdvance`, `StopComesNearer`); what is left to TLC is that a step
stays possible and, by fairness, is taken.

## 6. What is not modelled

* Two workers at a time: no configuration in the repository gives the number of instances.
* A clock that steps back, and an index name with a `_` in it (`ElasticSearchIndexProvider.cs:88`
  then counts nothing): clocks and configured names are taken to be in order.
* Elasticsearch within one request: a request is applied as a whole or not at all; replicas,
  refresh and `BulkAll`'s 15 retries are one step that loads any part of a page.
* The time a restart takes: it is assumed to reach the next second at least.
* 1xx answers, which HttpClient does not hand on; `RethrowException`, which no strategy returns.
* In a search: which items match a term, their scores, two accounts with one score and one name,
  and page numbers so large that page times size leaves 32 bits (`ElasticSearchProvider.cs:76`).
* In the pages: the ids of addresses, which are assumed to be there, and how they are encoded;
  relative formats without a leading "/", which depend on a path in the BaseUrl.
* The PAYE challenge (`ChallengeHandler`, `ChallengePermissionHandler` and what they use): no
  controller sends a query to these handlers, only unit tests do. The challenges that the
  portal shows are the sub sites'. To be noted before somebody uses it: `ChallengeService` draws
  positions until they differ, for ever if a scheme has one character.
* Token validation (`TokenValidationFilter`, `TokenValidationHandler`): a library for sub sites,
  which neither program here installs. `HealthService` is registered and unused.
* Scripts: jQuery, Modernizr, Application Insights and the GOV.UK toolkit are third parties' and
  make up nearly all of the JavaScript in the repository; `app.js` and `application.js` decorate
  pages. `search-index.js`, the one script with a decision of the program's own, is modelled.
* Sign-in, encryption, views, settings: middleware, libraries and presentation.

## 7. Plan

What is left:

1. A variant of `IndexPublication` with two workers, to state what a second instance would break.
2. `PortalPages` over the steps of `SiteConnector`, to follow an exception of one request's call
   into another request.
3. Proofs: `WorkerInv` extended to the composition with publication.

Run `tlc -config X.cfg M` for the runs and `tlapm M.tla` for the proofs.
