-------------------------- MODULE PortalPagesProofs --------------------------
(***************************************************************************)
(* Proofs about PortalPages, for any number of requests and any list of    *)
(* sub sites: which URLs are asked for while the shared manifests are      *)
(* rewritten, which requests fail, and what the status reports.            *)
(***************************************************************************)
EXTENDS PortalPages, TLAPS

Url(k) == [base |-> FindSiteConfig(k), path |-> k]
HasSite(k) == Usable(FindSiteConfig(k))

\* A format is still relative or that of the element's own site.
FormatOK(f, k) == f = [base |-> 0, path |-> k] \/ (HasSite(k) /\ f = Url(k))

FormatInv == \A k \in Resource : FormatOK(format[k], k)

\* What a request asked for, is about to write, and is about to read again.
UrlInv(q) ==
  /\ q.url # None => q.asked \in Element /\ HasSite(q.asked) /\ q.url = Url(q.asked)
  /\ q.at = "rewrite" => HasSite(q.key) /\ q.local = Url(q.key)
  /\ q.at = "resolve" => HasSite(q.key) /\ format[q.key] = Url(q.key)

\* Where a request with which keys can be.
FlowInv(q) ==
  /\ q.at \in {"nav", "header"} => q.then \in AfterHeader
  /\ q.at = "index" /\ q.redirected => q.key \in Resource
  /\ q.at = "index" => q.then = "page"
  /\ q.at = "challenge" => q.then = "form"
  /\ q.at = "challenge" /\ q.redirected => q.chall \in Challenge
  /\ q.at \in {"nav", "header"} /\ q.then = "form" => q.chall \in Challenge
  /\ q.at \in {"form", "submit"} => q.chall \in Challenge
  /\ q.at \in {"header", "page", "rewrite", "resolve", "form", "result", "search", "invite",
               "role", "changed", "submit"} => q.key \in Resource
  /\ q.at = "submit" => q.then = "result"
  /\ q.at \in {"page", "form", "result", "search", "invite", "role"} => q.then = q.at
  /\ q.at \in {"rewrite", "resolve"} => q.then = "page"
  /\ q.at = "changed" => q.then = "role"

\* How a request may end.
Cause(q) ==
  \/ q.key \notin Resource
  \/ \E k \in {q.key, HeaderKey(q.key), q.chall} : k \in Element /\ ~HasSite(k)

EndInv(q) ==
  /\ q.at # "done" => q.outcome = "none"
  /\ q.outcome = "error" /\ ~q.posted => Cause(q)
  /\ q.outcome \in {"unregistered", "notFound"} => ~q.redirected
  /\ q.at = "changed" => q.posted
  /\ q.redirected => q.then \in {"page", "form"}
  /\ q.then \in {"page", "form"} => ~q.posted

\* How far the status is, and what it has collected.
StatusDone(q) ==
  \A j \in DOMAIN config :
    Parses(config[j]) /\ config[j].site \notin q.reported =>
      \E i \in 1 .. j :
        \/ ~config[i].usable
        \/ /\ Parses(config[i])
           /\ \E h \in 1 .. i - 1 : Parses(config[h]) /\ config[h].site = config[i].site

StatusInv(q) ==
  /\ q.place > 0 => q.at \in {"status", "done"}
  /\ q.at = "status" =>
       /\ q.place > 0 /\ q.place <= Len(config) + 1
       /\ \A j \in DOMAIN config :
            j < q.place /\ Parses(config[j]) => config[j].site \in q.reported
       /\ \A s \in q.reported :
            \E h \in DOMAIN config : h < q.place /\ Parses(config[h]) /\ config[h].site = s
  /\ q.place > 0 /\ q.at = "done" => StatusDone(q)

RequestInv(q) == q \in Progress /\ UrlInv(q) /\ FlowInv(q) /\ EndInv(q) /\ StatusInv(q)

Inv ==
  /\ config \in Config
  /\ format \in [Resource -> URL] /\ FormatInv
  /\ req \in [Request -> Progress]
  /\ \A r \in Request : RequestInv(req[r])
------------------------------------------------------------------------------
(* The configuration and the manifests *)

LEMMA ConfigType ==
  ASSUME config \in Config
  PROVE  /\ config \in Seq(Entry) /\ Len(config) \in Nat /\ DOMAIN config = 1 .. Len(config)
         /\ \A i \in DOMAIN config : config[i].site \in Identity \cup {None, NoKey}
<1>1. config \in Seq(Entry)
  BY ConfigAssumption
<1>2. Len(config) \in Nat /\ DOMAIN config = 1 .. Len(config)
  BY <1>1
<1>3. \A i \in DOMAIN config : config[i] \in Entry
  BY <1>1
<1> QED
  BY <1>1, <1>2, <1>3 DEF Entry

LEMMA SiteEntry ==
  ASSUME config \in Config, NEW k, HasSite(k)
  PROVE  FindSiteConfig(k) \in Nat \ {0}
  BY ConfigType DEF HasSite, Usable

LEMMA UrlType ==
  ASSUME config \in Config, NEW k \in Element, HasSite(k)
  PROVE  Url(k) \in AbsoluteURL
  BY SiteEntry DEF Url, AbsoluteURL

\* Elements of the manifests lead to elements.
LEMMA ManifestsClosed ==
  ASSUME NEW k \in Resource
  PROVE  /\ HeaderKey(k) \in Resource /\ HeaderKey(k) \notin TakesChild
         /\ ChallengeOf(k) \in Challenge \cup {None}
         /\ k \in Element
         /\ ChallengeOf(k) # None => ChallengeOf(k) \in Challenge
<1>1. HeaderKey(k) \in Resource
  BY DEF HeaderKey, Resource, AccountPage, CommitmentPage, UserResource, HeaderOfAccount,
         HeaderOfUser
<1>2. HeaderKey(k) \notin TakesChild
  BY DEF HeaderKey, Resource, AccountPage, CommitmentPage, UserResource, HeaderOfAccount,
         HeaderOfUser, TakesChild
<1> QED
  BY <1>1, <1>2 DEF ChallengeOf, Challenge, Element

\* A format, made absolute, is the URL of its element, also after it has been before.
LEMMA Resolved ==
  ASSUME config \in Config, NEW k \in Resource, HasSite(k), NEW f, FormatOK(f, k)
  PROVE  Resolve(FindSiteConfig(k), f) = Url(k)
<1>1. FindSiteConfig(k) # 0
  BY SiteEntry
<1>2. CASE f = [base |-> 0, path |-> k]
  BY <1>2 DEF Resolve, Url
<1>3. CASE f = Url(k)
  BY <1>1, <1>3 DEF Resolve, Url
<1> QED
  BY <1>2, <1>3 DEF FormatOK

\* A step of one request that leaves the manifests alone.
LEMMA Framed ==
  ASSUME Inv, NEW r \in Request, NEW q, RequestInv(q), Becomes(r, q), UNCHANGED <<config, format>>
  PROVE  Inv'
<1>1. req' = [req EXCEPT ![r] = q] /\ req \in [Request -> Progress] /\ q \in Progress
  BY DEF Inv, Becomes, RequestInv
<1>2. req' \in [Request -> Progress] /\ req'[r] = q
      /\ \A s \in Request \ {r} : req'[s] = req[s]
  BY <1>1
<1>3. ASSUME NEW x PROVE RequestInv(x) => RequestInv(x)'
  <2>1. UNCHANGED <<config, format>>
    OBVIOUS
  <2> QED
    BY <2>1 DEF RequestInv, UrlInv, FlowInv, EndInv, Cause, StatusInv, StatusDone, HasSite, Usable,
                FindSiteConfig, SiteConfig, IsFirst, Url, Parses
<1> QED
  BY <1>2, <1>3 DEF Inv, FormatInv, FormatOK, HasSite, Usable, FindSiteConfig, SiteConfig, IsFirst,
                   Url
------------------------------------------------------------------------------
(* One lemma for each kind of step *)

\* A step that sets neither a URL nor an outcome, by what it changes.
LEMMA DoneStep ==
  ASSUME Inv, NEW r \in Request, NEW outcome \in Outcome, Done(r, outcome),
         UNCHANGED <<config, format>>,
         req[r].at \notin {"idle", "status", "done"},
         outcome \in {"sub", "missing", "error", "unregistered", "notFound"},
         outcome \in {"unregistered", "notFound"} => ~req[r].redirected,
         outcome = "error" => req[r].posted \/ Cause(req[r])
  PROVE  Inv'
<1> DEFINE q == [req[r] EXCEPT !.at = "done", !.outcome = outcome]
<1>1. RequestInv(req[r]) /\ req[r] \in Progress
  BY DEF Inv
<1>2. q \in Progress
  BY <1>1 DEF Progress, Place
<1>3. UrlInv(q) /\ FlowInv(q)
  BY <1>1 DEF RequestInv, UrlInv, FlowInv, Progress
<1>4. EndInv(q)
  BY <1>1 DEF RequestInv, EndInv, Cause, Progress
<1>5. StatusInv(q)
  BY <1>1 DEF RequestInv, StatusInv, Progress
<1> QED
  BY <1>2, <1>3, <1>4, <1>5, Framed DEF Done, RequestInv

\* A request that has just arrived.
Fresh(q) ==
  /\ q \in Progress
  /\ q.url = None /\ ~q.redirected /\ ~q.posted /\ q.outcome = "none"

LEMMA Arrived ==
  ASSUME Inv, NEW r \in Request, NEW q, Becomes(r, q), UNCHANGED <<config, format>>,
         Fresh(q), q.at \in {"index", "challenge", "nav", "submit"}, q.place = 0,
         q.then \in AfterHeader,
         q.at = "index" => q.then = "page",
         q.at = "challenge" => q.then = "form",
         q.at = "nav" => q.then # "form",
         q.at = "submit" => q.then = "result" /\ q.chall \in Challenge /\ q.key \in Resource
  PROVE  Inv'
<1>1. UrlInv(q) /\ FlowInv(q)
  BY DEF Fresh, UrlInv, FlowInv
<1>2. EndInv(q) /\ StatusInv(q)
  BY DEF Fresh, EndInv, StatusInv
<1> QED
  BY <1>1, <1>2, Framed DEF RequestInv, Fresh

LEMMA ArriveStep ==
  ASSUME Inv, NEW r \in Request, Arrive(r)
  PROVE  Inv'
<1> USE DEF AfterHeader
<1>1. UNCHANGED <<config, format>>
  BY DEF Arrive
<1>2. ASSUME NEW k \in Typed,
             Becomes(r, [Idle EXCEPT !.at = "index", !.then = "page", !.key = k])
      PROVE  Inv'
  <2> DEFINE q == [Idle EXCEPT !.at = "index", !.then = "page", !.key = k]
  <2>1. Fresh(q) /\ q.at = "index" /\ q.then = "page" /\ q.place = 0
    BY DEF Fresh, Idle, Progress, Place, Outcome, Resource
  <2>2. Becomes(r, q)
    BY <1>2
  <2> HIDE DEF q
  <2> QED
    BY <1>1, <2>1, <2>2, Arrived
<1>3. ASSUME NEW k \in Typed, NEW c \in Typed,
             Becomes(r, [Idle EXCEPT !.at = "challenge", !.then = "form", !.key = k, !.chall = c])
      PROVE  Inv'
  <2> DEFINE q == [Idle EXCEPT !.at = "challenge", !.then = "form", !.key = k, !.chall = c]
  <2>1. Fresh(q) /\ q.at = "challenge" /\ q.then = "form" /\ q.place = 0
    BY DEF Fresh, Idle, Progress, Place, Outcome, Resource
  <2>2. Becomes(r, q)
    BY <1>3
  <2> HIDE DEF q
  <2> QED
    BY <1>1, <2>1, <2>2, Arrived
<1>4. ASSUME NEW k \in Typed \cap Resource, NEW c \in Challenge,
             Becomes(r, [Idle EXCEPT !.at = "submit", !.then = "result", !.key = k, !.chall = c])
      PROVE  Inv'
  <2> DEFINE q == [Idle EXCEPT !.at = "submit", !.then = "result", !.key = k, !.chall = c]
  <2>1. Fresh(q) /\ q.at = "submit" /\ q.then = "result" /\ q.place = 0 /\ q.key = k
        /\ q.chall = c
    BY DEF Fresh, Idle, Progress, Place, Outcome, Resource
  <2>2. Becomes(r, q)
    BY <1>4
  <2> HIDE DEF q
  <2> QED
    BY <1>1, <2>1, <2>2, Arrived
<1>5. ASSUME NEW p \in {"search", "invite", "role"}, NEW k \in Resource,
             Becomes(r, [Idle EXCEPT !.at = "nav", !.then = p, !.key = k])
      PROVE  Inv'
  <2> DEFINE q == [Idle EXCEPT !.at = "nav", !.then = p, !.key = k]
  <2>1. Fresh(q) /\ q.at = "nav" /\ q.then = p /\ q.place = 0
    BY DEF Fresh, Idle, Progress, Place, Outcome, Resource
  <2>2. Becomes(r, q)
    BY <1>5
  <2> HIDE DEF q
  <2> QED
    BY <1>1, <2>1, <2>2, Arrived
<1>6. ASSUME Becomes(r, [Idle EXCEPT !.at = "status", !.place = 1])
      PROVE  Inv'
  <2> DEFINE q == [Idle EXCEPT !.at = "status", !.place = 1]
  <2>1. Fresh(q) /\ q.at = "status" /\ q.then = "idle" /\ q.place = 1 /\ q.reported = {}
    BY DEF Fresh, Idle, Progress, Place, Outcome, Resource
  <2>2. Becomes(r, q)
    BY <1>6
  <2> HIDE DEF q
  <2>3. 1 <= Len(config) + 1 /\ \A j \in DOMAIN config : ~(j < 1)
    BY ConfigType DEF Inv
  <2>4. UrlInv(q) /\ FlowInv(q) /\ EndInv(q)
    BY <2>1 DEF Fresh, UrlInv, FlowInv, EndInv
  <2>5. StatusInv(q)
    BY <2>1, <2>3 DEF StatusInv
  <2> QED
    BY <1>1, <2>1, <2>2, <2>4, <2>5, Framed DEF RequestInv, Fresh
<1>7. {"CommitmentSearch", "EmployerAccountInvitation", "EmployerAccountChangeRole"}
        \subseteq Resource
  BY DEF Resource, AccountPage, CommitmentPage
<1> QED
  BY <1>2, <1>3, <1>4, <1>5, <1>6, <1>7 DEF Arrive

LEMMA IndexStep ==
  ASSUME Inv, NEW r \in Request, Index(r)
  PROVE  Inv'
<1>1. RequestInv(req[r]) /\ req[r] \in Progress /\ req[r].at = "index"
  BY DEF Inv, Index
<1>2. UNCHANGED <<config, format>>
  BY DEF Index
<1>3. CASE ~ResourceExists(req[r].key) /\ Done(r, "unregistered")
  <2>1. ~req[r].redirected
    BY <1>1, <1>3 DEF RequestInv, FlowInv, ResourceExists
  <2> QED
    BY <1>1, <1>2, <1>3, <2>1, DoneStep DEF Outcome, Shown
<1>4. CASE ResourceExists(req[r].key) /\ Becomes(r, [req[r] EXCEPT !.at = "nav"])
  <2>1. RequestInv([req[r] EXCEPT !.at = "nav"])
    BY <1>1, <1>4 DEF RequestInv, UrlInv, FlowInv, EndInv, Cause, StatusInv, Progress, Place,
                      AfterHeader, ResourceExists
  <2> QED
    BY <1>2, <1>4, <2>1, Framed
<1>5. CASE /\ ResourceExists(req[r].key) /\ ChallengeOf(req[r].key) # None
           /\ Becomes(r, [req[r] EXCEPT !.at = "challenge", !.then = "form",
                                        !.chall = ChallengeOf(req[r].key), !.redirected = TRUE])
  <2>1. ChallengeOf(req[r].key) \in Challenge
    BY <1>5, ManifestsClosed DEF ResourceExists
  <2>2. RequestInv([req[r] EXCEPT !.at = "challenge", !.then = "form",
                                  !.chall = ChallengeOf(req[r].key), !.redirected = TRUE])
    BY <1>1, <2>1 DEF RequestInv, UrlInv, FlowInv, EndInv, Cause, StatusInv, Progress, Place
  <2> QED
    BY <1>2, <1>5, <2>2, Framed
<1> QED
  BY <1>3, <1>4, <1>5 DEF Index

LEMMA AskChallengeStep ==
  ASSUME Inv, NEW r \in Request, AskChallenge(r)
  PROVE  Inv'
<1>1. RequestInv(req[r]) /\ req[r] \in Progress /\ req[r].at = "challenge"
  BY DEF Inv, AskChallenge
<1>2. UNCHANGED <<config, format>>
  BY DEF AskChallenge
<1>3. CASE ~ChallengeExists(req[r].chall) /\ Done(r, "notFound")
  <2>1. ~req[r].redirected
    BY <1>1, <1>3 DEF RequestInv, FlowInv, ChallengeExists
  <2> QED
    BY <1>1, <1>2, <1>3, <2>1, DoneStep DEF Outcome, Shown
<1>4. CASE ChallengeExists(req[r].chall) /\ Becomes(r, [req[r] EXCEPT !.at = "nav"])
  <2>1. RequestInv([req[r] EXCEPT !.at = "nav"])
    BY <1>1, <1>4 DEF RequestInv, UrlInv, FlowInv, EndInv, Cause, StatusInv, Progress, Place,
                      AfterHeader, ChallengeExists
  <2> QED
    BY <1>2, <1>4, <2>1, Framed
<1> QED
  BY <1>3, <1>4 DEF AskChallenge

LEMMA GetNavStep ==
  ASSUME Inv, NEW r \in Request, GetNav(r)
  PROVE  Inv'
<1>1. RequestInv(req[r]) /\ req[r] \in Progress /\ req[r].at = "nav"
  BY DEF Inv, GetNav
<1>2. UNCHANGED <<config, format>>
  BY DEF GetNav
<1>3. CASE ~ResourceExists(req[r].key) /\ Done(r, "error")
  <2>1. Cause(req[r])
    BY <1>3 DEF Cause, ResourceExists
  <2> QED
    BY <1>1, <1>2, <1>3, <2>1, DoneStep DEF Outcome, Shown
<1>4. CASE ResourceExists(req[r].key) /\ Becomes(r, [req[r] EXCEPT !.at = "header"])
  <2>1. RequestInv([req[r] EXCEPT !.at = "header"])
    BY <1>1, <1>4 DEF RequestInv, UrlInv, FlowInv, EndInv, Cause, StatusInv, Progress, Place,
                      ResourceExists
  <2> QED
    BY <1>2, <1>4, <2>1, Framed
<1> QED
  BY <1>3, <1>4 DEF GetNav

\* A step that asks for the URL of an element and does not end the request.
LEMMA AskStep ==
  ASSUME Inv, NEW r \in Request, NEW k \in Element, NEW place \in Place \ {"done"},
         HasSite(k), Asks(r, k, Url(k), place, "none"), UNCHANGED <<config, format>>,
         FlowInv([req[r] EXCEPT !.at = place, !.asked = k, !.url = Url(k), !.outcome = "none"]),
         req[r].at = "header", place \notin {"rewrite", "resolve", "status", "changed"}
  PROVE  Inv'
<1> DEFINE q == [req[r] EXCEPT !.at = place, !.asked = k, !.url = Url(k), !.outcome = "none"]
<1>1. RequestInv(req[r]) /\ req[r] \in Progress /\ Url(k) \in AbsoluteURL
  BY UrlType DEF Inv
<1>2. q \in Progress
  BY <1>1 DEF Progress, Outcome
<1>3. UrlInv(q)
  BY <1>1 DEF RequestInv, UrlInv, Progress
<1>4. EndInv(q)
  BY <1>1 DEF RequestInv, EndInv, Progress
<1>5. StatusInv(q)
  BY <1>1 DEF RequestInv, StatusInv, Progress
<1> QED
  BY <1>2, <1>3, <1>4, <1>5, Framed DEF Asks, RequestInv

LEMMA GenerateHeaderStep ==
  ASSUME Inv, NEW r \in Request, GenerateHeader(r)
  PROVE  Inv'
<1> DEFINE k == HeaderKey(req[r].key)
<1>1. RequestInv(req[r]) /\ req[r] \in Progress /\ req[r].at = "header"
  BY DEF Inv, GenerateHeader
<1>2. UNCHANGED <<config, format>> /\ req[r].key \in Resource
  BY <1>1 DEF GenerateHeader, RequestInv, FlowInv
<1>3. k \in Resource /\ k \in Element /\ k \notin TakesChild
  BY <1>2, ManifestsClosed
<1>4. CASE HasSite(k) /\ Asks(r, k, Resolve(FindSiteConfig(k), format[k]), req[r].then, "none")
  <2>1. Resolve(FindSiteConfig(k), format[k]) = Url(k)
    BY <1>3, <1>4, Resolved DEF Inv, FormatInv
  <2>2. req[r].then \in AfterHeader
    BY <1>1 DEF RequestInv, FlowInv
  <2>3. FlowInv([req[r] EXCEPT !.at = req[r].then, !.asked = k, !.url = Url(k),
                               !.outcome = "none"])
    BY <1>1, <1>2, <2>2 DEF RequestInv, FlowInv, AfterHeader, Progress
  <2> QED
    BY <1>1, <1>2, <1>3, <1>4, <2>1, <2>2, <2>3, AskStep DEF AfterHeader, Place
<1>5. CASE ~HasSite(k) /\ Done(r, "error")
  <2>1. Cause(req[r])
    BY <1>3, <1>5 DEF Cause
  <2> QED
    BY <1>1, <1>2, <1>5, <2>1, DoneStep DEF Outcome, Shown
<1> QED
  BY <1>3, <1>4, <1>5 DEF GenerateHeader, HasSite

LEMMA ShowResultStep ==
  ASSUME Inv, NEW r \in Request, ShowResult(r)
  PROVE  Inv'
  BY DoneStep DEF ShowResult, Outcome, Shown

LEMMA ReadFormatStep ==
  ASSUME Inv, NEW r \in Request, ReadFormat(r)
  PROVE  Inv'
<1> DEFINE k == req[r].key
<1>1. RequestInv(req[r]) /\ req[r] \in Progress /\ req[r].at = "page"
  BY DEF Inv, ReadFormat
<1>2. UNCHANGED <<config, format>> /\ k \in Resource /\ k \in Element /\ req[r].then = "page"
  BY <1>1, ManifestsClosed DEF ReadFormat, RequestInv, FlowInv
<1>3. CASE HasSite(k) /\ Becomes(r, [req[r] EXCEPT !.at = "rewrite",
                              !.local = Resolve(FindSiteConfig(k), format[k])])
  <2> DEFINE q == [req[r] EXCEPT !.at = "rewrite", !.local = Url(k)]
  <2>1. Resolve(FindSiteConfig(k), format[k]) = Url(k)
    BY <1>2, <1>3, Resolved DEF Inv, FormatInv
  <2>2. Url(k) \in AbsoluteURL
    BY <1>2, <1>3, UrlType DEF Inv
  <2>3. q \in Progress
    BY <1>1, <2>2 DEF Progress, Place
  <2>4. UrlInv(q)
    BY <1>1, <1>3 DEF RequestInv, UrlInv, Progress
  <2>5. FlowInv(q) /\ EndInv(q) /\ StatusInv(q)
    BY <1>1, <1>2 DEF RequestInv, FlowInv, EndInv, Cause, StatusInv, Progress
  <2> QED
    BY <1>2, <1>3, <2>1, <2>3, <2>4, <2>5, Framed DEF RequestInv
<1>4. CASE ~HasSite(k) /\ Done(r, "error")
  <2>1. Cause(req[r])
    BY <1>2, <1>4 DEF Cause
  <2> QED
    BY <1>1, <1>2, <1>4, <2>1, DoneStep DEF Outcome, Shown
<1> QED
  BY <1>3, <1>4 DEF ReadFormat, HasSite

\* The one step that writes to the manifests: what other requests are about to read there
\* stays what it was, or becomes what they need.
LEMMA RewriteFormatStep ==
  ASSUME Inv, NEW r \in Request, RewriteFormat(r)
  PROVE  Inv'
<1> DEFINE k == req[r].key
           q == [req[r] EXCEPT !.at = "resolve", !.local = None]
<1>1. RequestInv(req[r]) /\ req[r] \in Progress /\ req[r].at = "rewrite"
  BY DEF Inv, RewriteFormat
<1>2. /\ config' = config /\ k \in Resource /\ HasSite(k) /\ req[r].local = Url(k)
      /\ format \in [Resource -> URL] /\ format' = [format EXCEPT ![k] = Url(k)]
  BY <1>1 DEF Inv, RewriteFormat, RequestInv, FlowInv, UrlInv
<1>3. /\ format'[k] = Url(k)
      /\ \A e \in Resource : format'[e] = format[e] \/ (HasSite(e) /\ format'[e] = Url(e))
  BY <1>2
<1>4. Url(k) \in URL
  BY <1>2, ManifestsClosed, UrlType DEF Inv, URL, AbsoluteURL
<1>5. format' \in [Resource -> URL]
  BY <1>2, <1>4
<1>6. \A e : (HasSite(e))' = HasSite(e) /\ (Url(e))' = Url(e)
  BY <1>2 DEF HasSite, Usable, FindSiteConfig, SiteConfig, IsFirst, Url
<1>7. FormatInv'
  <2>1. \A e \in Resource : FormatOK(format'[e], e)
    BY <1>3 DEF Inv, FormatInv, FormatOK
  <2> QED
    BY <1>6, <2>1 DEF FormatInv, FormatOK
<1>8. q \in Progress
  BY <1>1 DEF Progress, Place
<1>9. req' \in [Request -> Progress] /\ req'[r] = q
      /\ \A s \in Request \ {r} : req'[s] = req[s]
  BY <1>8 DEF Inv, RewriteFormat, Becomes
<1>10. ASSUME NEW s \in Request \ {r} PROVE RequestInv(req[s])'
  <2>1. RequestInv(req[s]) /\ req'[s] = req[s] /\ req[s] \in Progress
    BY <1>9 DEF Inv
  <2>2. FlowInv(req[s])' /\ EndInv(req[s])'
    BY <1>6, <2>1 DEF RequestInv, FlowInv, EndInv, Cause
  <2>3. StatusInv(req[s])'
    BY <1>2, <2>1 DEF RequestInv, StatusInv, StatusDone, Parses
  <2>4. req[s].at = "resolve" => format'[req[s].key] = Url(req[s].key)
    BY <1>3, <2>1 DEF RequestInv, UrlInv, FlowInv
  <2>5. UrlInv(req[s])'
    BY <1>6, <2>1, <2>4 DEF RequestInv, UrlInv
  <2> QED
    BY <2>1, <2>2, <2>3, <2>5 DEF RequestInv
<1>11. RequestInv(req[r])'
  <2>1. /\ req'[r] = q /\ q \in Progress
        /\ q.key = k /\ q.at = "resolve" /\ q.then = "page" /\ q.place = 0
        /\ q.outcome = "none" /\ q.url = req[r].url /\ q.asked = req[r].asked
        /\ ~q.posted
    BY <1>1, <1>8, <1>9 DEF Progress, RequestInv, FlowInv, EndInv, StatusInv
  <2> HIDE DEF q
  <2>2. FlowInv(req[r])' /\ EndInv(req[r])' /\ StatusInv(req[r])'
    BY <1>2, <2>1 DEF FlowInv, EndInv, StatusInv
  <2>3. UrlInv(req[r])'
    BY <1>1, <1>2, <1>3, <1>6, <2>1 DEF RequestInv, UrlInv
  <2> QED
    BY <2>1, <2>2, <2>3 DEF RequestInv
<1> QED
  BY <1>2, <1>5, <1>7, <1>9, <1>10, <1>11 DEF Inv

\* A request that ends with the answer of a sub site.
LEMMA AnsweredStep ==
  ASSUME Inv, NEW r \in Request, NEW k \in Element, HasSite(k), NEW o \in Shown,
         \/ Asks(r, k, Url(k), "done", o)
         \/ Posts(r, k, Url(k), "done", o) /\ req[r].then \notin {"page", "form"},
         UNCHANGED <<config, format>>, req[r].at \notin {"idle", "status", "done"}
  PROVE  Inv'
<1>1. RequestInv(req[r]) /\ req[r] \in Progress /\ Url(k) \in AbsoluteURL
      /\ "done" \in Place /\ o \in Outcome
      /\ (req[r].redirected => req[r].then \in {"page", "form"})
      /\ (req[r].then \in {"page", "form"} => ~req[r].posted)
  BY UrlType DEF Inv, RequestInv, EndInv, Place, Outcome
<1>2. PICK q \in Progress : /\ Becomes(r, q) /\ q.at = "done" /\ q.outcome = o
                            /\ q.asked = k /\ q.url = Url(k) /\ q.place = req[r].place
                            /\ q.redirected => q.then \in {"page", "form"}
                            /\ q.then \in {"page", "form"} => ~q.posted
  <2>1. CASE Asks(r, k, Url(k), "done", o)
    <3> DEFINE q == [req[r] EXCEPT !.at = "done", !.asked = k, !.url = Url(k), !.outcome = o]
    <3>0. q \in Progress
      BY <1>1 DEF Progress
    <3>1. /\ q.at = "done" /\ q.outcome = o /\ q.asked = k /\ q.url = Url(k)
          /\ q.place = req[r].place
          /\ q.redirected => q.then \in {"page", "form"}
          /\ q.then \in {"page", "form"} => ~q.posted
      BY <1>1 DEF Progress
    <3>2. Becomes(r, q)
      BY <2>1 DEF Asks
    <3> HIDE DEF q
    <3> QED
      BY <3>0, <3>1, <3>2
  <2>2. CASE Posts(r, k, Url(k), "done", o) /\ req[r].then \notin {"page", "form"}
    <3> DEFINE q == [req[r] EXCEPT !.at = "done", !.asked = k, !.url = Url(k), !.posted = TRUE,
                                   !.outcome = o]
    <3>0. q \in Progress
      BY <1>1 DEF Progress
    <3>1. /\ q.at = "done" /\ q.outcome = o /\ q.asked = k /\ q.url = Url(k)
          /\ q.place = req[r].place
          /\ q.redirected => q.then \in {"page", "form"}
          /\ q.then \in {"page", "form"} => ~q.posted
      BY <1>1, <2>2 DEF Progress
    <3>2. Becomes(r, q)
      BY <2>2 DEF Posts
    <3> HIDE DEF q
    <3> QED
      BY <3>0, <3>1, <3>2
  <2> QED
    BY <2>1, <2>2
<1>3. UrlInv(q) /\ FlowInv(q) /\ EndInv(q)
  BY <1>2 DEF UrlInv, FlowInv, EndInv, Shown
<1>4. StatusInv(q)
  BY <1>1, <1>2 DEF RequestInv, StatusInv, Progress
<1> QED
  BY <1>2, <1>3, <1>4, Framed DEF RequestInv

\* A request that cannot go on for want of a site.
LEMMA NoSiteStep ==
  ASSUME Inv, NEW r \in Request, NEW k \in {req[r].key, req[r].chall}, k \in Element, ~HasSite(k),
         Done(r, "error"), UNCHANGED <<config, format>>,
         req[r].at \notin {"idle", "status", "done"}
  PROVE  Inv'
<1>1. Cause(req[r])
  BY DEF Cause
<1> QED
  BY <1>1, DoneStep DEF Outcome, Shown

LEMMA GetResourcePageStep ==
  ASSUME Inv, NEW r \in Request, GetResourcePage(r)
  PROVE  Inv'
<1> DEFINE k == req[r].key
<1>1. RequestInv(req[r]) /\ req[r].at = "resolve" /\ UNCHANGED <<config, format>>
      /\ \E o \in Shown : Asks(r, k, format[k], "done", o)
  BY DEF Inv, GetResourcePage
<1>2. k \in Resource /\ k \in Element /\ HasSite(k) /\ format[k] = Url(k)
  BY <1>1, ManifestsClosed DEF RequestInv, FlowInv, UrlInv
<1> QED
  BY <1>1, <1>2, AnsweredStep

LEMMA GetChallengeFormStep ==
  ASSUME Inv, NEW r \in Request, GetChallengeForm(r)
  PROVE  Inv'
<1> DEFINE k == req[r].chall
<1>1. RequestInv(req[r]) /\ req[r].at = "form" /\ UNCHANGED <<config, format>>
  BY DEF Inv, GetChallengeForm
<1>2. k \in Element
  BY <1>1 DEF RequestInv, FlowInv, Element
<1>3. CASE HasSite(k) /\ Asks(r, k, Url(k), "done", "sub")
  BY <1>1, <1>2, <1>3, AnsweredStep DEF Shown
<1>4. CASE Done(r, "missing")
  BY <1>1, <1>4, DoneStep DEF Outcome, Shown
<1> QED
  BY <1>3, <1>4 DEF GetChallengeForm, HasSite, Url

LEMMA SubmitSearchStep ==
  ASSUME Inv, NEW r \in Request, SubmitSearch(r)
  PROVE  Inv'
<1> DEFINE k == req[r].key
<1>1. RequestInv(req[r]) /\ req[r].at = "search" /\ UNCHANGED <<config, format>>
  BY DEF Inv, SubmitSearch
<1>2. k \in Element /\ req[r].then = "search"
  BY <1>1, ManifestsClosed DEF RequestInv, FlowInv
<1>3. CASE HasSite(k) /\ \E o \in Shown : Posts(r, k, Url(k), "done", o)
  BY <1>1, <1>2, <1>3, AnsweredStep
<1>4. CASE ~HasSite(k) /\ Done(r, "error")
  BY <1>1, <1>2, <1>4, NoSiteStep
<1> QED
  BY <1>3, <1>4 DEF SubmitSearch, HasSite, Url

LEMMA InviteStep ==
  ASSUME Inv, NEW r \in Request, Invite(r)
  PROVE  Inv'
<1> DEFINE k == req[r].key
<1>1. RequestInv(req[r]) /\ req[r].at = "invite" /\ UNCHANGED <<config, format>>
  BY DEF Inv, Invite
<1>2. k \in Resource /\ k \in Element /\ req[r].then = "invite"
  BY <1>1, ManifestsClosed DEF RequestInv, FlowInv
<1>3. CASE /\ HasSite(k)
           /\ \E o \in Shown : Posts(r, k, Resolve(FindSiteConfig(k), format[k]), "done", o)
  <2>1. Resolve(FindSiteConfig(k), format[k]) = Url(k)
    BY <1>2, <1>3, Resolved DEF Inv, FormatInv
  <2> QED
    BY <1>1, <1>2, <1>3, <2>1, AnsweredStep
<1>4. CASE ~HasSite(k) /\ Done(r, "error")
  BY <1>1, <1>2, <1>4, NoSiteStep
<1> QED
  BY <1>3, <1>4 DEF Invite, HasSite

LEMMA ChangeRoleStep ==
  ASSUME Inv, NEW r \in Request, ChangeRole(r)
  PROVE  Inv'
<1> DEFINE k == req[r].key
<1>1. RequestInv(req[r]) /\ req[r] \in Progress /\ req[r].at = "role"
      /\ UNCHANGED <<config, format>>
  BY DEF Inv, ChangeRole
<1>2. k \in Resource /\ k \in Element /\ req[r].then = "role"
  BY <1>1, ManifestsClosed DEF RequestInv, FlowInv
<1>3. CASE HasSite(k) /\ Posts(r, k, Resolve(FindSiteConfig(k), format[k]), "changed", "none")
  <2> DEFINE q == [req[r] EXCEPT !.at = "changed", !.asked = k, !.url = Url(k), !.posted = TRUE,
                                 !.outcome = "none"]
  <2>1. Resolve(FindSiteConfig(k), format[k]) = Url(k)
    BY <1>2, <1>3, Resolved DEF Inv, FormatInv
  <2>2. Url(k) \in AbsoluteURL
    BY <1>2, <1>3, UrlType DEF Inv
  <2>3. q \in Progress
    BY <1>1, <1>2, <2>2 DEF Progress, Place, Outcome
  <2>4. UrlInv(q) /\ FlowInv(q)
    BY <1>1, <1>2, <1>3 DEF UrlInv, FlowInv, Progress
  <2>5. EndInv(q) /\ StatusInv(q)
    BY <1>1, <1>2 DEF RequestInv, EndInv, StatusInv, Progress
  <2>6. Becomes(r, q)
    BY <1>3, <2>1 DEF Posts
  <2> QED
    BY <1>1, <2>3, <2>4, <2>5, <2>6, Framed DEF RequestInv
<1>4. CASE ~HasSite(k) /\ Done(r, "error")
  BY <1>1, <1>2, <1>4, NoSiteStep
<1> QED
  BY <1>3, <1>4 DEF ChangeRole, HasSite

\* A step that ends with the browser on its way to a page.
LEMMA RedirectStep ==
  ASSUME Inv, NEW r \in Request, NEW k \in Resource, Redirects(r, k),
         UNCHANGED <<config, format>>, req[r].at \notin {"idle", "status", "done"}
  PROVE  Inv'
<1> DEFINE q == [req[r] EXCEPT !.at = "index", !.then = "page", !.key = k, !.chall = None,
                               !.redirected = TRUE, !.posted = FALSE]
<1>1. RequestInv(req[r]) /\ req[r] \in Progress
  BY DEF Inv
<1>2. q \in Progress
  BY <1>1 DEF Progress, Place
<1>3. UrlInv(q) /\ FlowInv(q)
  BY <1>1 DEF RequestInv, UrlInv, FlowInv, Progress
<1>4. EndInv(q) /\ StatusInv(q)
  BY <1>1 DEF RequestInv, EndInv, StatusInv, Progress
<1> QED
  BY <1>2, <1>3, <1>4, Framed DEF Redirects, RequestInv

LEMMA ConfirmRoleStep ==
  ASSUME Inv, NEW r \in Request, ConfirmRole(r)
  PROVE  Inv'
<1>1. RequestInv(req[r]) /\ req[r].at = "changed" /\ UNCHANGED <<config, format>>
  BY DEF Inv, ConfirmRole
<1>2. req[r].posted /\ req[r].then = "role"
  BY <1>1 DEF RequestInv, FlowInv, EndInv
<1>3. CASE Done(r, "error")
  BY <1>1, <1>2, <1>3, DoneStep DEF Outcome, Shown
<1>4. CASE Redirects(r, "EmployerAccountChangeRoleConfirm")
  <2>1. "EmployerAccountChangeRoleConfirm" \in Resource
    BY DEF Resource, AccountPage
  <2> QED
    BY <1>1, <1>4, <2>1, RedirectStep
<1> QED
  BY <1>3, <1>4 DEF ConfirmRole

LEMMA SubmitChallengeStep ==
  ASSUME Inv, NEW r \in Request, SubmitChallenge(r)
  PROVE  Inv'
<1>1. RequestInv(req[r]) /\ req[r] \in Progress /\ req[r].at = "submit"
      /\ UNCHANGED <<config, format>>
  BY DEF Inv, SubmitChallenge
<1>2. req[r].key \in Resource /\ req[r].chall \in Element /\ req[r].then = "result"
  BY <1>1 DEF RequestInv, FlowInv, Element
<1>3. CASE Redirects(r, req[r].key)
  BY <1>1, <1>2, <1>3, RedirectStep
<1>4. CASE Becomes(r, [req[r] EXCEPT !.at = "nav", !.posted = TRUE])
  <2>1. RequestInv([req[r] EXCEPT !.at = "nav", !.posted = TRUE])
    BY <1>1, <1>2 DEF RequestInv, UrlInv, FlowInv, EndInv, StatusInv, Progress, Place, AfterHeader
  <2> QED
    BY <1>1, <1>4, <2>1, Framed
<1>5. CASE Becomes(r, [req[r] EXCEPT !.at = "done", !.outcome = "error", !.posted = TRUE])
  <2>1. RequestInv([req[r] EXCEPT !.at = "done", !.outcome = "error", !.posted = TRUE])
    BY <1>1, <1>2 DEF RequestInv, UrlInv, FlowInv, EndInv, StatusInv, Progress, Place, Outcome
  <2> QED
    BY <1>1, <1>5, <2>1, Framed
<1>6. CASE ~HasSite(req[r].chall) /\ Done(r, "error")
  BY <1>1, <1>2, <1>6, NoSiteStep
<1> QED
  BY <1>3, <1>4, <1>5, <1>6 DEF SubmitChallenge, HasSite

\* The status goes on to the next entry.
LEMMA StatusGoesOn ==
  ASSUME Inv, NEW r \in Request, req[r].at = "status", UNCHANGED <<config, format>>,
         NEW q \in Progress, Becomes(r, q),
         q.at = "status", q.url = req[r].url, q.asked = req[r].asked, q.posted = req[r].posted,
         q.redirected = req[r].redirected, q.outcome = req[r].outcome, q.then = req[r].then,
         q.key = req[r].key, q.chall = req[r].chall,
         q.place = req[r].place + 1, req[r].place \in DOMAIN config,
         \/ ~Parses(config[req[r].place]) /\ q.reported = req[r].reported
         \/ /\ Parses(config[req[r].place])
            /\ q.reported = req[r].reported \cup {config[req[r].place].site}
  PROVE  Inv'
<1> DEFINE n == req[r].place
<1>1. RequestInv(req[r]) /\ req[r] \in Progress /\ n \in Nat \ {0}
  BY DEF Inv, RequestInv, StatusInv, Progress
<1>2. UrlInv(q) /\ FlowInv(q) /\ EndInv(q)
  BY <1>1 DEF RequestInv, UrlInv, FlowInv, EndInv, Cause
<1>3. \A j \in DOMAIN config : j \in Nat
  BY ConfigType DEF Inv
<1>4. \A j \in DOMAIN config : j < n + 1 /\ Parses(config[j]) => config[j].site \in q.reported
  <2>1. \A j \in DOMAIN config : j < n /\ Parses(config[j]) => config[j].site \in q.reported
    BY <1>1 DEF RequestInv, StatusInv
  <2>2. \A j \in DOMAIN config : j < n + 1 => j < n \/ j = n
    BY <1>1, <1>3
  <2> QED
    BY <2>1, <2>2
<1>5. \A s \in q.reported :
        \E h \in DOMAIN config : h < n + 1 /\ Parses(config[h]) /\ config[h].site = s
  <2> TAKE s \in q.reported
  <2>1. CASE s \in req[r].reported
    <3>1. PICK h \in DOMAIN config : h < n /\ Parses(config[h]) /\ config[h].site = s
      BY <1>1, <2>1 DEF RequestInv, StatusInv
    <3>2. h < n + 1
      BY <1>1, <1>3, <3>1
    <3> QED
      BY <3>1, <3>2
  <2>2. CASE Parses(config[n]) /\ s = config[n].site
    BY <1>1, <2>2
  <2> QED
    BY <2>1, <2>2
<1>6. n + 1 > 0 /\ n + 1 <= Len(config) + 1
  BY <1>1, ConfigType DEF Inv
<1>7. StatusInv(q)
  BY <1>1, <1>4, <1>5, <1>6 DEF StatusInv
<1> QED
  BY <1>2, <1>7, Framed DEF RequestInv

\* The status ends where it has nothing to add or is stopped.
LEMMA StatusEnds ==
  ASSUME Inv, NEW r \in Request, req[r].at = "status", Done(r, "sub"),
         UNCHANGED <<config, format>>,
         \/ req[r].place \notin DOMAIN config
         \/ ~config[req[r].place].usable
         \/ /\ Parses(config[req[r].place])
            /\ config[req[r].place].site \in req[r].reported
  PROVE  Inv'
<1> DEFINE q == [req[r] EXCEPT !.at = "done", !.outcome = "sub"]
           n == req[r].place
<1>1. RequestInv(req[r]) /\ req[r] \in Progress /\ n \in Nat \ {0}
  BY DEF Inv, RequestInv, StatusInv, Progress
<1>2. q \in Progress
  BY <1>1 DEF Progress, Place, Outcome, Shown
<1>3. UrlInv(q) /\ FlowInv(q) /\ EndInv(q)
  BY <1>1 DEF RequestInv, UrlInv, FlowInv, EndInv, Progress
<1>4. StatusDone(q)
  <2> SUFFICES ASSUME NEW j \in DOMAIN config, Parses(config[j]),
                      config[j].site \notin req[r].reported
               PROVE  \E i \in 1 .. j :
                        \/ ~config[i].usable
                        \/ /\ Parses(config[i])
                           /\ \E h \in 1 .. i - 1 :
                                Parses(config[h]) /\ config[h].site = config[i].site
    BY <1>1 DEF StatusDone, Progress
  <2>1. Len(config) \in Nat /\ DOMAIN config = 1 .. Len(config)
    BY ConfigType DEF Inv
  <2>2. ~(j < n)
    BY <1>1 DEF RequestInv, StatusInv
  <2>3. n \in DOMAIN config /\ n \in 1 .. j
    BY <1>1, <2>1, <2>2
  <2>4. CASE Parses(config[n]) /\ config[n].site \in req[r].reported
    <3>1. PICK h \in DOMAIN config : h < n /\ Parses(config[h]) /\ config[h].site = config[n].site
      BY <1>1, <2>4 DEF RequestInv, StatusInv
    <3>2. h \in 1 .. n - 1
      BY <1>1, <2>1, <3>1
    <3> QED
      BY <2>3, <2>4, <3>1, <3>2
  <2> QED
    BY <2>3, <2>4
<1>5. StatusInv(q)
  BY <1>1, <1>4 DEF StatusInv, Progress
<1> QED
  BY <1>2, <1>3, <1>5, Framed DEF Done, RequestInv

\* The record with its set of sites changed: the provers see it with that set's type hidden.
LEMMA ReportedType ==
  ASSUME NEW p \in Progress, NEW n \in Nat, NEW s \in SUBSET Identity
  PROVE  [p EXCEPT !.place = n, !.reported = s] \in Progress
<1> DEFINE S == SUBSET Identity
<1>1. Progress =
        [at : Place, then : Place, key : Typed \cup Resource,
         chall : Typed \cup Challenge \cup {None}, asked : Element \cup {None},
         url : AbsoluteURL \cup {None}, local : AbsoluteURL \cup {None},
         redirected : BOOLEAN, posted : BOOLEAN, place : Nat, reported : S, outcome : Outcome]
  BY DEF Progress
<1>2. s \in S
  OBVIOUS
<1> HIDE DEF S
<1> QED
  BY <1>1, <1>2

LEMMA StatusStep ==
  ASSUME Inv, NEW r \in Request, Status(r)
  PROVE  Inv'
<1> DEFINE i == req[r].place
<1>1. RequestInv(req[r]) /\ req[r] \in Progress /\ req[r].at = "status"
      /\ UNCHANGED <<config, format>>
  BY DEF Inv, Status
<1>2. i \in Nat
  BY <1>1 DEF Progress
<1>3. CASE Done(r, "sub") /\ (\/ i \notin DOMAIN config
                              \/ ~config[i].usable
                              \/ Parses(config[i]) /\ config[i].site \in req[r].reported)
  BY <1>1, <1>3, StatusEnds
<1>4. CASE /\ i \in DOMAIN config /\ ~Parses(config[i])
           /\ Becomes(r, [req[r] EXCEPT !.place = i + 1])
  <2> DEFINE q == [req[r] EXCEPT !.place = i + 1]
  <2>1. /\ q \in Progress
        /\ q.at = "status" /\ q.url = req[r].url /\ q.asked = req[r].asked
        /\ q.posted = req[r].posted /\ q.redirected = req[r].redirected
        /\ q.outcome = req[r].outcome /\ q.then = req[r].then /\ q.key = req[r].key
        /\ q.chall = req[r].chall /\ q.place = i + 1 /\ q.reported = req[r].reported
    BY <1>1, <1>2 DEF Progress
  <2>2. Becomes(r, q)
    BY <1>4
  <2> HIDE DEF q
  <2> QED
    BY <1>1, <1>4, <2>1, <2>2, StatusGoesOn
<1>5. CASE /\ i \in DOMAIN config /\ Parses(config[i])
           /\ Becomes(r, [req[r] EXCEPT !.place = i + 1, !.reported = @ \cup {config[i].site}])
  <2> DEFINE all == req[r].reported \cup {config[i].site}
             q == [req[r] EXCEPT !.place = i + 1, !.reported = all]
  <2>1. config[i].site \in Identity
    BY <1>5, ConfigType DEF Inv, Parses
  <2>2. all \in SUBSET Identity
    BY <1>1, <2>1 DEF Progress
  <2>3. q \in Progress
    <3>1. i + 1 \in Nat /\ req[r] \in Progress
      BY <1>1, <1>2
    <3> HIDE DEF all
    <3> QED
      BY <2>2, <3>1, ReportedType
  <2>4. /\ q.at = "status" /\ q.url = req[r].url /\ q.asked = req[r].asked
        /\ q.posted = req[r].posted /\ q.redirected = req[r].redirected
        /\ q.outcome = req[r].outcome /\ q.then = req[r].then /\ q.key = req[r].key
        /\ q.chall = req[r].chall /\ q.place = i + 1
        /\ q.reported = all
    BY <1>1 DEF Progress
  <2>5. Becomes(r, q)
    BY <1>1, <1>5 DEF Progress
  <2> HIDE DEF q
  <2> QED
    BY <1>1, <1>5, <2>3, <2>4, <2>5, StatusGoesOn
<1> QED
  BY <1>3, <1>4, <1>5 DEF Status
------------------------------------------------------------------------------
(* Every step leaves fewer steps *)

Fewer(r) == StepsLeft(req[r])' \in 0 .. StepsLeft(req[r]) - 1

\* A request that is under way has at least a step left.
LEMMA StepsAhead ==
  ASSUME Inv, NEW r \in Request, req[r].at \notin {"idle", "done"}
  PROVE  StepsLeft(req[r]) \in Nat \ {0}
<1>1. RequestInv(req[r]) /\ req[r].at \in Place /\ req[r].place \in Nat
  BY DEF Inv, RequestInv, Progress
<1>2. CASE req[r].at = "status"
  <2>1. req[r].place <= Len(config) + 1 /\ Len(config) \in Nat
    BY <1>1, <1>2, ConfigType DEF Inv, RequestInv, StatusInv
  <2> QED
    BY <1>1, <1>2, <2>1 DEF StepsLeft, AfterHeader
<1>3. CASE req[r].at # "status"
  BY <1>1, <1>3 DEF StepsLeft, AfterHeader, Place
<1> QED
  BY <1>2, <1>3

LEMMA Moved ==
  ASSUME Inv, NEW r \in Request, NEW q, Becomes(r, q)
  PROVE  req'[r] = q /\ \A s \in Request \ {r} : req'[s] = req[s]
BY DEF Inv, Becomes

\* Where a step takes a request is all that counts.
LEMMA DoneEnds ==
  ASSUME Inv, NEW r \in Request, NEW outcome, Done(r, outcome),
         req[r].at \notin {"idle", "done"}
  PROVE  Fewer(r)
<1>1. req[r] \in Progress /\ req'[r] = [req[r] EXCEPT !.at = "done", !.outcome = outcome]
  BY Moved DEF Inv, Done
<1>2. req'[r].at = "done"
  BY <1>1 DEF Progress
<1>3. StepsLeft(req[r])' = 0
  BY <1>2 DEF StepsLeft, AfterHeader
<1> QED
  BY <1>3, StepsAhead DEF Fewer

LEMMA AskedGoesOn ==
  ASSUME Inv, NEW r \in Request, NEW k, NEW u, NEW place, NEW o,
         Asks(r, k, u, place, o) \/ Posts(r, k, u, place, o)
  PROVE  req'[r].at = place /\ req'[r].then = req[r].then
<1>1. req[r] \in Progress
  BY DEF Inv
<1>2. CASE Asks(r, k, u, place, o)
  <2>1. req'[r] = [req[r] EXCEPT !.at = place, !.asked = k, !.url = u, !.outcome = o]
    BY <1>2, Moved DEF Asks
  <2> QED
    BY <1>1, <2>1 DEF Progress
<1>3. CASE Posts(r, k, u, place, o)
  <2>1. req'[r] = [req[r] EXCEPT !.at = place, !.asked = k, !.url = u, !.posted = TRUE,
                                 !.outcome = o]
    BY <1>3, Moved DEF Posts
  <2> QED
    BY <1>1, <2>1 DEF Progress
<1> QED
  BY <1>2, <1>3

LEMMA EndsAsked ==
  ASSUME Inv, NEW r \in Request, NEW k, NEW u, NEW o,
         Asks(r, k, u, "done", o) \/ Posts(r, k, u, "done", o), req[r].at \notin {"idle", "done"}
  PROVE  Fewer(r)
<1>1. StepsLeft(req[r])' = 0
  BY AskedGoesOn DEF StepsLeft, AfterHeader
<1> QED
  BY <1>1, StepsAhead DEF Fewer

LEMMA RedirectsOn ==
  ASSUME Inv, NEW r \in Request, NEW k, Redirects(r, k), req[r].at \in {"changed", "submit"}
  PROVE  Fewer(r)
<1>1. /\ req[r] \in Progress
      /\ req'[r] = [req[r] EXCEPT !.at = "index", !.then = "page", !.key = k, !.chall = None,
                                  !.redirected = TRUE, !.posted = FALSE]
  BY Moved DEF Inv, Redirects
<1>2. req'[r].at = "index"
  BY <1>1 DEF Progress
<1> QED
  BY <1>2 DEF Fewer, StepsLeft, AfterHeader

LEMMA IndexFewer ==
  ASSUME Inv, NEW r \in Request, Index(r)
  PROVE  Fewer(r)
<1>1. req[r] \in Progress /\ req[r].at = "index" /\ req[r].then = "page"
  BY DEF Inv, Index, RequestInv, FlowInv
<1>2. CASE Done(r, "unregistered")
  BY <1>1, <1>2, DoneEnds
<1>3. CASE Becomes(r, [req[r] EXCEPT !.at = "nav"])
  <2>1. req'[r].at = "nav" /\ req'[r].then = "page"
    BY <1>1, <1>3, Moved DEF Progress
  <2> QED
    BY <1>1, <2>1 DEF Fewer, StepsLeft, AfterHeader
<1>4. CASE Becomes(r, [req[r] EXCEPT !.at = "challenge", !.then = "form",
                                     !.chall = ChallengeOf(req[r].key), !.redirected = TRUE])
  <2>1. req'[r] = [req[r] EXCEPT !.at = "challenge", !.then = "form",
                                 !.chall = ChallengeOf(req[r].key), !.redirected = TRUE]
    BY <1>4, Moved
  <2>2. req'[r].at = "challenge"
    BY <1>1, <2>1 DEF Progress
  <2> QED
    BY <1>1, <2>2 DEF Fewer, StepsLeft, AfterHeader
<1> QED
  BY <1>2, <1>3, <1>4 DEF Index

LEMMA AskChallengeFewer ==
  ASSUME Inv, NEW r \in Request, AskChallenge(r)
  PROVE  Fewer(r)
<1>1. req[r] \in Progress /\ req[r].at = "challenge" /\ req[r].then = "form"
  BY DEF Inv, AskChallenge, RequestInv, FlowInv
<1>2. CASE Done(r, "notFound")
  BY <1>1, <1>2, DoneEnds
<1>3. CASE Becomes(r, [req[r] EXCEPT !.at = "nav"])
  <2>1. req'[r].at = "nav" /\ req'[r].then = "form"
    BY <1>1, <1>3, Moved DEF Progress
  <2> QED
    BY <1>1, <2>1 DEF Fewer, StepsLeft, AfterHeader
<1> QED
  BY <1>2, <1>3 DEF AskChallenge

LEMMA GetNavFewer ==
  ASSUME Inv, NEW r \in Request, GetNav(r)
  PROVE  Fewer(r)
<1>1. req[r] \in Progress /\ req[r].at = "nav"
  BY DEF Inv, GetNav
<1>2. CASE Done(r, "error")
  BY <1>1, <1>2, DoneEnds
<1>3. CASE Becomes(r, [req[r] EXCEPT !.at = "header"])
  <2>1. req'[r].at = "header" /\ req'[r].then = req[r].then
    BY <1>1, <1>3, Moved DEF Progress
  <2> QED
    BY <1>1, <2>1 DEF Fewer, StepsLeft, AfterHeader
<1> QED
  BY <1>2, <1>3 DEF GetNav

LEMMA GenerateHeaderFewer ==
  ASSUME Inv, NEW r \in Request, GenerateHeader(r)
  PROVE  Fewer(r)
<1>1. req[r].at = "header" /\ req[r].then \in AfterHeader
  BY DEF Inv, GenerateHeader, RequestInv, FlowInv
<1>2. CASE Done(r, "error")
  BY <1>1, <1>2, DoneEnds
<1>3. ASSUME NEW k, NEW u, Asks(r, k, u, req[r].then, "none") PROVE Fewer(r)
  <2>1. req'[r].at = req[r].then
    BY <1>3, AskedGoesOn
  <2>2. CASE req[r].then = "role"
    <3>1. StepsLeft(req[r]) = 9 /\ StepsLeft(req[r])' = 8
      BY <1>1, <2>1, <2>2 DEF StepsLeft, AfterHeader
    <3> QED
      BY <3>1 DEF Fewer
  <2>3. CASE req[r].then = "page"
    <3>1. StepsLeft(req[r]) = 4 /\ StepsLeft(req[r])' = 3
      BY <1>1, <2>1, <2>3 DEF StepsLeft, AfterHeader
    <3> QED
      BY <3>1 DEF Fewer
  <2>4. CASE req[r].then \in AfterHeader \ {"role", "page"}
    <3>1. StepsLeft(req[r]) = 2 /\ StepsLeft(req[r])' = 1
      BY <1>1, <2>1, <2>4 DEF StepsLeft, AfterHeader
    <3> QED
      BY <3>1 DEF Fewer
  <2> QED
    BY <1>1, <2>2, <2>3, <2>4
<1> QED
  BY <1>2, <1>3 DEF GenerateHeader

LEMMA PageFewer ==
  ASSUME Inv, NEW r \in Request, ReadFormat(r) \/ RewriteFormat(r) \/ GetResourcePage(r)
  PROVE  Fewer(r)
<1>1. req[r] \in Progress
  BY DEF Inv
<1>2. CASE ReadFormat(r)
  <2>1. req[r].at = "page"
    BY <1>2 DEF ReadFormat
  <2>2. CASE Done(r, "error")
    BY <2>1, <2>2, DoneEnds
  <2>3. ASSUME NEW u, Becomes(r, [req[r] EXCEPT !.at = "rewrite", !.local = u])
        PROVE  Fewer(r)
    <3>1. req'[r].at = "rewrite"
      BY <1>1, <2>3, Moved DEF Progress
    <3> QED
      BY <2>1, <3>1 DEF Fewer, StepsLeft, AfterHeader
  <2> QED
    BY <1>2, <2>2, <2>3 DEF ReadFormat
<1>3. CASE RewriteFormat(r)
  <2>1. req[r].at = "rewrite" /\ Becomes(r, [req[r] EXCEPT !.at = "resolve", !.local = None])
    BY <1>3 DEF RewriteFormat
  <2>2. req'[r] = [req[r] EXCEPT !.at = "resolve", !.local = None]
    BY <2>1, Moved
  <2>3. req'[r].at = "resolve"
    BY <1>1, <2>2 DEF Progress
  <2> QED
    BY <2>1, <2>3 DEF Fewer, StepsLeft, AfterHeader
<1>4. CASE GetResourcePage(r)
  BY <1>4, EndsAsked DEF GetResourcePage
<1> QED
  BY <1>2, <1>3, <1>4

LEMMA SendFewer ==
  ASSUME Inv, NEW r \in Request,
         \/ GetChallengeForm(r) \/ ShowResult(r) \/ SubmitSearch(r) \/ Invite(r)
         \/ ChangeRole(r) \/ ConfirmRole(r)
  PROVE  Fewer(r)
<1>1. CASE GetChallengeForm(r)
  BY <1>1, DoneEnds, EndsAsked DEF GetChallengeForm
<1>2. CASE ShowResult(r)
  BY <1>2, DoneEnds DEF ShowResult
<1>3. CASE SubmitSearch(r)
  BY <1>3, DoneEnds, EndsAsked DEF SubmitSearch
<1>4. CASE Invite(r)
  BY <1>4, DoneEnds, EndsAsked DEF Invite
<1>5. CASE ChangeRole(r)
  <2>1. req[r].at = "role"
    BY <1>5 DEF ChangeRole
  <2>2. ASSUME NEW k, NEW u, Posts(r, k, u, "changed", "none") PROVE Fewer(r)
    <3>1. req'[r].at = "changed"
      BY <2>2, AskedGoesOn
    <3> QED
      BY <2>1, <3>1 DEF Fewer, StepsLeft, AfterHeader
  <2> QED
    BY <1>5, <2>1, <2>2, DoneEnds DEF ChangeRole
<1>6. CASE ConfirmRole(r)
  BY <1>6, DoneEnds, RedirectsOn DEF ConfirmRole
<1> QED
  BY <1>1, <1>2, <1>3, <1>4, <1>5, <1>6

LEMMA SubmitChallengeFewer ==
  ASSUME Inv, NEW r \in Request, SubmitChallenge(r)
  PROVE  Fewer(r)
<1>1. req[r] \in Progress /\ req[r].at = "submit" /\ req[r].then = "result"
  BY DEF Inv, SubmitChallenge, RequestInv, FlowInv
<1>2. CASE Done(r, "error")
  BY <1>1, <1>2, DoneEnds
<1>3. CASE Redirects(r, req[r].key)
  BY <1>1, <1>3, RedirectsOn
<1>4. CASE Becomes(r, [req[r] EXCEPT !.at = "nav", !.posted = TRUE])
  <2>1. req'[r] = [req[r] EXCEPT !.at = "nav", !.posted = TRUE]
    BY <1>4, Moved
  <2>2. req'[r].at = "nav" /\ req'[r].then = "result"
    BY <1>1, <2>1 DEF Progress
  <2> QED
    BY <1>1, <2>2 DEF Fewer, StepsLeft, AfterHeader
<1>5. CASE Becomes(r, [req[r] EXCEPT !.at = "done", !.outcome = "error", !.posted = TRUE])
  <2>1. req'[r] = [req[r] EXCEPT !.at = "done", !.outcome = "error", !.posted = TRUE]
    BY <1>5, Moved
  <2>2. req'[r].at = "done"
    BY <1>1, <2>1 DEF Progress
  <2> QED
    BY <1>1, <2>2 DEF Fewer, StepsLeft, AfterHeader
<1> QED
  BY <1>2, <1>3, <1>4, <1>5 DEF SubmitChallenge

\* The status has one entry less before it.
LEMMA StatusFewer ==
  ASSUME Inv, NEW r \in Request, Status(r)
  PROVE  Fewer(r)
<1> DEFINE n == req[r].place
<1>1. /\ req[r] \in Progress /\ req[r].at = "status" /\ n \in Nat
      /\ Len(config) \in Nat /\ DOMAIN config = 1 .. Len(config) /\ config' = config
  BY ConfigType DEF Inv, Status, Progress
<1>2. CASE Done(r, "sub")
  BY <1>1, <1>2, DoneEnds
<1>3. ASSUME req'[r].at = "status", req'[r].place = n + 1, n \in DOMAIN config
      PROVE  Fewer(r)
  <2>1. StepsLeft(req[r]) = Len(config) + 2 - n
    BY <1>1 DEF StepsLeft, AfterHeader
  <2>2. StepsLeft(req[r])' = Len(config) + 2 - (n + 1)
    BY <1>1, <1>3 DEF StepsLeft, AfterHeader
  <2> QED
    BY <1>1, <1>3, <2>1, <2>2 DEF Fewer
<1>4. CASE n \in DOMAIN config /\ Becomes(r, [req[r] EXCEPT !.place = n + 1])
  <2>1. req'[r].at = "status" /\ req'[r].place = n + 1
    BY <1>1, <1>4, Moved DEF Progress
  <2> QED
    BY <1>3, <1>4, <2>1
<1>5. CASE /\ n \in DOMAIN config
           /\ Becomes(r, [req[r] EXCEPT !.place = n + 1, !.reported = @ \cup {config[n].site}])
  <2>1. req'[r] = [req[r] EXCEPT !.place = n + 1, !.reported = @ \cup {config[n].site}]
    BY <1>5, Moved
  <2>2. req'[r].at = "status" /\ req'[r].place = n + 1
    BY <1>1, <2>1 DEF Progress
  <2> QED
    BY <1>3, <1>5, <2>2
<1> QED
  BY <1>2, <1>4, <1>5 DEF Status

LEMMA StepFewer ==
  ASSUME Inv, NEW r \in Request, Step(r)
  PROVE  Fewer(r)
BY IndexFewer, AskChallengeFewer, GetNavFewer, GenerateHeaderFewer, PageFewer, SendFewer,
   SubmitChallengeFewer, StatusFewer DEF Step

\* A step is that of one request, or an arrival at one that has ended.
LEMMA OneSteps ==
  ASSUME Inv, NEW r \in Request, Arrive(r) \/ Step(r)
  PROVE  \A s \in Request \ {r} : req'[s] = req[s]
BY Moved DEF Arrive, Step, Index, AskChallenge, GetNav, GenerateHeader, ShowResult, ReadFormat,
   RewriteFormat, GetResourcePage, GetChallengeForm, SubmitSearch, Invite, ChangeRole, ConfirmRole,
   SubmitChallenge, Status, Done, Asks, Posts, Redirects
------------------------------------------------------------------------------
(* The theorems *)

LEMMA InitInv == Init => Inv
<1> SUFFICES ASSUME Init PROVE Inv
  OBVIOUS
<1>1. config \in Config /\ format = [k \in Resource |-> [base |-> 0, path |-> k]]
      /\ req = [r \in Request |-> Idle]
  BY DEF Init
<1>2. format \in [Resource -> URL]
  BY <1>1, ManifestsClosed DEF URL
<1>3. FormatInv
  BY <1>1 DEF FormatInv, FormatOK
<1>4. Fresh(Idle) /\ Idle.at = "idle" /\ Idle.place = 0 /\ Idle.then = "idle"
  BY DEF Fresh, Idle, Progress, Place, Outcome, Resource
<1>5. RequestInv(Idle)
  BY <1>4 DEF Fresh, RequestInv, UrlInv, FlowInv, EndInv, StatusInv, AfterHeader
<1>6. req \in [Request -> Progress] /\ \A r \in Request : req[r] = Idle
  BY <1>1, <1>4 DEF Fresh
<1>7. \A r \in Request : RequestInv(req[r])
  BY <1>5, <1>6
<1> QED
  BY <1>1, <1>2, <1>3, <1>6, <1>7 DEF Inv

LEMMA NextInv == Inv /\ [Next]_vars => Inv'
<1> SUFFICES ASSUME Inv, [Next]_vars PROVE Inv'
  OBVIOUS
<1>1. CASE UNCHANGED vars
  <2>1. config' = config /\ format' = format /\ req' = req
    BY <1>1 DEF vars
  <2>2. \A k : (HasSite(k))' = HasSite(k) /\ (Url(k))' = Url(k)
    BY <2>1 DEF HasSite, Usable, FindSiteConfig, SiteConfig, IsFirst, Url
  <2>3. FormatInv'
    BY <2>1, <2>2 DEF Inv, FormatInv, FormatOK
  <2>4. ASSUME NEW r \in Request PROVE RequestInv(req[r])'
    <3>1. RequestInv(req[r]) /\ req'[r] = req[r]
      BY <2>1 DEF Inv
    <3>2. UrlInv(req[r])' /\ FlowInv(req[r])' /\ EndInv(req[r])'
      BY <2>1, <2>2, <3>1 DEF RequestInv, UrlInv, FlowInv, EndInv, Cause
    <3>3. StatusInv(req[r])'
      BY <2>1, <3>1 DEF RequestInv, StatusInv, StatusDone, Parses
    <3> QED
      BY <3>1, <3>2, <3>3 DEF RequestInv
  <2> QED
    BY <2>1, <2>3, <2>4 DEF Inv
<1>2. ASSUME NEW r \in Request, Arrive(r) \/ Step(r) PROVE Inv'
  BY <1>2, ArriveStep, IndexStep, AskChallengeStep, GetNavStep, GenerateHeaderStep, ShowResultStep,
     ReadFormatStep, RewriteFormatStep, GetResourcePageStep, GetChallengeFormStep, SubmitSearchStep,
     InviteStep, ChangeRoleStep, ConfirmRoleStep, SubmitChallengeStep, StatusStep DEF Step
<1> QED
  BY <1>1, <1>2 DEF Next

LEMMA Invariant == Spec => []Inv
  BY InitInv, NextInv, PTL DEF Spec

\* The types hold, whatever the sub sites configured and the keys typed.
THEOREM TypeCorrect == Spec => []TypeOK
<1>1. Inv => TypeOK
  BY DEF Inv, TypeOK
<1> QED
  BY <1>1, Invariant, PTL

\* However many requests rewrite the shared formats, and whenever, every URL asked for is that
\* of its element at the element's own site.
THEOREM UrlsRight == Spec => []AskedRight
<1>1. Inv => AskedRight
  BY DEF Inv, RequestInv, UrlInv, AskedRight, HasSite, Url
<1> QED
  BY <1>1, Invariant, PTL

\* A request that fails before it has sent anything had a key that is no resource's, or no
\* usable site for its page, its header or its challenge.
THEOREM ErrorsExplained == Spec => []ErrorOnlyForConfiguration
<1>1. Inv => ErrorOnlyForConfiguration
  BY DEF Inv, RequestInv, EndInv, Cause, ErrorOnlyForConfiguration, HasSite
<1> QED
  BY <1>1, Invariant, PTL

\* The portal's own redirects never lead to a page or a challenge it does not have.
THEOREM RedirectsArrive == Spec => []DeadEndsOnlyTyped
<1>1. Inv => DeadEndsOnlyTyped
  BY DEF Inv, RequestInv, EndInv, DeadEndsOnlyTyped
<1> QED
  BY <1>1, Invariant, PTL

\* Where the portal's redirects lead, a reload of the page sends nothing to a sub site again.
THEOREM RedirectsRead == Spec => []RedirectsOnlyRead
<1>1. Inv => RedirectsOnlyRead
  BY DEF Inv, RequestInv, EndInv, RedirectsOnlyRead
<1> QED
  BY <1>1, Invariant, PTL

\* What the status leaves out is behind an unusable entry or a second entry of a site.
THEOREM StatusCollected == Spec => []StatusComplete
<1>1. Inv => StatusComplete
  BY DEF Inv, RequestInv, StatusInv, StatusDone, StatusComplete
<1> QED
  BY <1>1, Invariant, PTL

\* For any list of sites and any keys, every step of a request leaves it fewer steps: its
\* redirects never go round in a circle.
THEOREM RequestsComeToAnEnd == Spec => RequestsEnd
<1>1. Inv /\ [Next]_vars =>
        [\A r \in Request :
           req[r].at \notin {"idle", "done"} /\ req'[r] # req[r] =>
             StepsLeft(req[r])' \in 0 .. StepsLeft(req[r]) - 1]_vars
  <2> SUFFICES ASSUME Inv, Next, NEW r \in Request, req[r].at \notin {"idle", "done"},
                      req'[r] # req[r]
               PROVE  Fewer(r)
    BY DEF Fewer
  <2>1. Arrive(r) \/ Step(r)
    BY OneSteps DEF Next
  <2>2. ~Arrive(r)
    BY DEF Arrive
  <2> QED
    BY <2>1, <2>2, StepFewer
<1> QED
  BY <1>1, Invariant, PTL DEF Spec, RequestsEnd
=============================================================================
