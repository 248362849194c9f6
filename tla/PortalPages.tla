----------------------------- MODULE PortalPages -----------------------------
(***************************************************************************)
(* The pages of the sub sites as the portal shows them: the handlers of    *)
(* ResourceController and StatusController, the operations of              *)
(* ManifestRepository and the look-ups of ServiceConfiguration, for        *)
(* requests that run at the same time.  They share the manifests, which    *)
(* are loaded once: GetResourcePage writes the absolute URL of a page over *)
(* the format in the manifest, other requests read it at any point.        *)
(*                                                                         *)
(* A request goes from one URL to the next; what becomes of an answer is   *)
(* SiteConnector's, what a challenge protects ChallengeElevation's, so     *)
(* both are choices here.  A URL is a site and the element of the          *)
(* manifests whose path it has; the ids in it, which every address is      *)
(* assumed to have, are left out, but for whether a path takes a child's.  *)
(*                                                                         *)
(* A definition whose name ends in Faulty... is a plausible mistake in the *)
(* definition that follows it.                                             *)
(***************************************************************************)
EXTENDS Integers, Sequences

CONSTANTS
  Request,   \* requests that may run at the same time
  Config,    \* lists of sub sites that the portal may be configured with
  Typed,     \* the keys that addresses may have, resources or not
  None       \* no key, no site

(* The two manifests *)

HeaderOfAccount == "EmployerAccountHeader"
HeaderOfUser == "EmployerUserHeader"

\* Pages of the employer accounts site, below the account's header.
AccountPage ==
  {"EmployerAccount", "EmployerAccountFinance", "EmployerAccountPayeSchemeLevys",
   "EmployerAccountTeam", "EmployerAccountChangeRole", "EmployerAccountChangeRoleConfirm",
   "EmployerAccountInvitation", "EmployerAccountResendInvitation"}

\* Pages of the commitments site, below the same header.
CommitmentPage == {"CommitmentSearch", "CommitmentApprenticeDetail", "CommitmentCohortDetail"}

UserResource == {"EmployerUser", "EmployerUserAccounts", HeaderOfUser}

Resource == AccountPage \cup {HeaderOfAccount} \cup CommitmentPage \cup UserResource
Challenge == {"EmployerAccountFinanceChallenge"}
Element == Resource \cup Challenge

Identity ==
  {"SupportPortal", "SupportEmployerUser", "SupportEmployerAccount", "SupportProvider",
   "SupportCommitments", "SupportPayments"}

ServiceIdentity(key) ==
  CASE key \in CommitmentPage -> "SupportCommitments"
    [] key \in UserResource -> "SupportEmployerUser"
    [] OTHER -> "SupportEmployerAccount"

\* The commitments' pages were copied without the header's key.
HeaderKey_FaultyMissing(key) ==
  CASE key \in AccountPage -> HeaderOfAccount
    [] key = "EmployerUser" -> HeaderOfUser
    [] OTHER -> key

\* resource.HeaderKey ?? key
HeaderKey(key) ==
  CASE key \in AccountPage \cup CommitmentPage -> HeaderOfAccount
    [] key = "EmployerUser" -> HeaderOfUser
    [] OTHER -> key

\* A page is given the key of another page for that of its challenge.
ChallengeOf_FaultyKey(key) ==
  IF key \in {"EmployerAccountFinance", "EmployerAccountPayeSchemeLevys"}
  THEN "EmployerAccountFinance" ELSE None

ChallengeOf(key) ==
  IF key \in {"EmployerAccountFinance", "EmployerAccountPayeSchemeLevys"}
  THEN "EmployerAccountFinanceChallenge" ELSE None

\* The formats with a {1}, which only GetResourcePage and ChangeRole fill in.
TakesChild ==
  {"EmployerAccountPayeSchemeLevys", "EmployerAccountChangeRole",
   "EmployerAccountChangeRoleConfirm", "EmployerAccountResendInvitation",
   "CommitmentApprenticeDetail", "CommitmentCohortDetail"}

ASSUME NoneAssumption == None \notin Element

\* For the site of an entry whose key is null.
NoKey == "no key"

\* An entry of the configuration: the site its key means, whether the key is spelt as in the
\* enumeration, letter by letter, and whether its BaseUrl is an absolute one.
Entry == [site : Identity \cup {None, NoKey}, exact : BOOLEAN, usable : BOOLEAN]

ASSUME ConfigAssumption == Config \subseteq Seq(Entry)

VARIABLES
  config,   \* the sub sites configured
  format,   \* the manifests' ResourceUrlFormat: relative (base 0) or of an entry of config
  req       \* the requests

vars == <<config, format, req>>

\* What a request does next.
Place == {"idle", "index", "challenge", "nav", "header", "resolve", "rewrite", "page", "form",
          "result", "search", "invite", "role", "changed", "submit", "status", "done"}

\* What the view makes of the result of a call: the sub site's content, or a text that there was
\* an error or nothing was found, after which the call may still have been carried out.
Shown == {"sub", "failed"}
Outcome == Shown \cup {"none", "unregistered", "notFound", "missing", "error"}

\* An entry of config, or 0 for a relative URL, and the element whose path it has.
URL == [base : Nat, path : Element]
AbsoluteURL == [base : Nat \ {0}, path : Element]

\* What is known of a request.
Progress ==
  [at : Place,                  \* the step it takes next
   then : Place,                \* the step after the header
   key : Typed \cup Resource,   \* the resource's key
   chall : Typed \cup Challenge \cup {None},   \* the challenge's key
   asked : Element \cup {None}, \* history: the element whose URL it asked for last
   url : AbsoluteURL \cup {None},     \* the URL it asked for last
   local : AbsoluteURL \cup {None},   \* the URL it is about to write
   redirected : BOOLEAN,        \* history: did the portal send the browser here?
   posted : BOOLEAN,            \* history: has it sent something to a sub site?
   place : Nat,                 \* how far it is in the list of sites
   reported : SUBSET Identity,  \* the sites whose status is collected
   outcome : Outcome]

TypeOK ==
  /\ config \in Config
  /\ format \in [Resource -> URL]
  /\ req \in [Request -> Progress]
------------------------------------------------------------------------------
(* ServiceConfiguration *)

\* Is entry i the first of a site, with no entry before it at whose key the look-up throws?
IsFirst(i, site) ==
  config[i].site = site /\ \A j \in 1 .. i - 1 : config[j].site \notin {site, NoKey}

\* The first entry of a site, 0 if there is none or the look-up does not reach it.
SiteConfig(site) ==
  IF \E i \in DOMAIN config : IsFirst(i, site)
  THEN CHOOSE i \in DOMAIN config : IsFirst(i, site)
  ELSE 0

\* The entry for an element of the manifests.
FindSiteConfig(key) == SiteConfig(ServiceIdentity(key))

\* Is there an entry whose BaseUrl makes a Uri?
Usable(entry) == entry \in DOMAIN config /\ config[entry].usable

ResourceExists(key) == key \in Resource
ChallengeExists(key) == key \in Challenge

\* The format is taken as it is.
Resolve_FaultyRelative(entry, f) == f

\* new Uri(site, format): a format that is absolute stays as it is.
Resolve(entry, f) == IF f.base # 0 THEN f ELSE [f EXCEPT !.base = entry]

(* Requests *)

Idle ==
  [at |-> "idle", then |-> "idle", key |-> HeaderOfAccount, chall |-> None, asked |-> None,
   url |-> None, local |-> None, redirected |-> FALSE, posted |-> FALSE, place |-> 0,
   reported |-> {}, outcome |-> "none"]

Init ==
  /\ config \in Config
  /\ format = [k \in Resource |-> [base |-> 0, path |-> k]]
  /\ req = [r \in Request |-> Idle]

\* Request r goes on as the record q.
Becomes(r, q) == req' = [req EXCEPT ![r] = q]

Done(r, outcome) == Becomes(r, [req[r] EXCEPT !.at = "done", !.outcome = outcome])

\* It asks for a URL of an element and goes on at a place, or ends there with an outcome.
Asks(r, element, url, place, outcome) ==
  Becomes(r, [req[r] EXCEPT !.at = place, !.asked = element, !.url = url, !.outcome = outcome])

\* The same, with something to be done there.
Posts(r, element, url, place, outcome) ==
  Becomes(r, [req[r] EXCEPT !.at = place, !.asked = element, !.url = url, !.posted = TRUE,
                            !.outcome = outcome])

\* The browser follows the portal to a page of Index, with a request that has sent nothing yet.
Redirects(r, key) ==
  Becomes(r, [req[r] EXCEPT !.at = "index", !.then = "page", !.key = key, !.chall = None,
                            !.redirected = TRUE, !.posted = FALSE])

\* A request arrives: for a page or for a challenge's form, with any keys; a search of
\* apprentices, an invitation or a change of role, for their own; an answer to a challenge
\* from its form; or for the status.
Arrive(r) ==
  /\ req[r].at \in {"idle", "done"}
  /\ \/ \E k \in Typed : Becomes(r, [Idle EXCEPT !.at = "index", !.then = "page", !.key = k])
     \/ \E k, c \in Typed :
          Becomes(r, [Idle EXCEPT !.at = "challenge", !.then = "form", !.key = k, !.chall = c])
     \/ \E k \in Typed \cap Resource, c \in Challenge :
          Becomes(r, [Idle EXCEPT !.at = "submit", !.then = "result", !.key = k, !.chall = c])
     \/ Becomes(r, [Idle EXCEPT !.at = "nav", !.then = "search", !.key = "CommitmentSearch"])
     \/ Becomes(r, [Idle EXCEPT !.at = "nav", !.then = "invite",
                                !.key = "EmployerAccountInvitation"])
     \/ Becomes(r, [Idle EXCEPT !.at = "nav", !.then = "role",
                                !.key = "EmployerAccountChangeRole"])
     \/ Becomes(r, [Idle EXCEPT !.at = "status", !.place = 1])
  /\ UNCHANGED <<config, format>>

\* ResourceController.Index up to the permission, which the cookie has or has not.
Index(r) ==
  LET key == req[r].key IN
  /\ req[r].at = "index"
  /\ \/ ~ResourceExists(key) /\ Done(r, "unregistered")
     \/ ResourceExists(key) /\ Becomes(r, [req[r] EXCEPT !.at = "nav"])
     \/ /\ ResourceExists(key) /\ ChallengeOf(key) # None
        /\ Becomes(r, [req[r] EXCEPT !.at = "challenge", !.then = "form",
                                     !.chall = ChallengeOf(key), !.redirected = TRUE])
  /\ UNCHANGED <<config, format>>

\* A form that is not needed sends the browser back to the page.
AskChallenge_FaultyBack(r) ==
  /\ req[r].at = "challenge"
  /\ \/ ResourceExists(req[r].key) /\ Redirects(r, req[r].key)
     \/ IF ChallengeExists(req[r].chall)
        THEN Becomes(r, [req[r] EXCEPT !.at = "nav"]) ELSE Done(r, "notFound")
  /\ UNCHANGED <<config, format>>

\* ResourceController.Challenge (GET) up to the navigation.
AskChallenge(r) ==
  /\ req[r].at = "challenge"
  /\ IF ChallengeExists(req[r].chall)
     THEN Becomes(r, [req[r] EXCEPT !.at = "nav"]) ELSE Done(r, "notFound")
  /\ UNCHANGED <<config, format>>

\* GetNav: a key that is no resource's has no manifest, which is a null reference.
GetNav(r) ==
  /\ req[r].at = "nav"
  /\ IF ResourceExists(req[r].key)
     THEN Becomes(r, [req[r] EXCEPT !.at = "header"]) ELSE Done(r, "error")
  /\ UNCHANGED <<config, format>>

\* The header is looked for at the site of the page.
GenerateHeader_FaultySite(r) ==
  LET key == HeaderKey(req[r].key) IN
  /\ req[r].at = "header"
  /\ IF Usable(FindSiteConfig(req[r].key)) /\ key \notin TakesChild
     THEN Asks(r, key, Resolve(FindSiteConfig(req[r].key), format[key]), req[r].then, "none")
     ELSE Done(r, "error")
  /\ UNCHANGED <<config, format>>

\* GenerateHeader, at the site that the header is of; only the id is filled in.
GenerateHeader(r) ==
  LET key == HeaderKey(req[r].key) IN
  /\ req[r].at = "header"
  /\ IF Usable(FindSiteConfig(key)) /\ key \notin TakesChild
     THEN Asks(r, key, Resolve(FindSiteConfig(key), format[key]), req[r].then, "none")
     ELSE Done(r, "error")
  /\ UNCHANGED <<config, format>>

\* The end of a submission with a wrong answer: the form again, below the header.
ShowResult(r) ==
  /\ req[r].at = "result"
  /\ Done(r, "sub")
  /\ UNCHANGED <<config, format>>

\* GetResourcePage finds the site, or throws, and reads the format.
ReadFormat(r) ==
  LET key == req[r].key IN
  /\ req[r].at = "page"
  /\ IF Usable(FindSiteConfig(key))
     THEN Becomes(r, [req[r] EXCEPT !.at = "rewrite",
                                    !.local = Resolve(FindSiteConfig(key), format[key])])
     ELSE Done(r, "error")
  /\ UNCHANGED <<config, format>>

\* It writes the absolute URL into the manifest.
RewriteFormat(r) ==
  /\ req[r].at = "rewrite"
  /\ format' = [format EXCEPT ![req[r].key] = req[r].local]
  /\ Becomes(r, [req[r] EXCEPT !.at = "resolve", !.local = None])
  /\ UNCHANGED config

\* It asks for what the manifest has by now.
GetResourcePage(r) ==
  /\ req[r].at = "resolve"
  /\ \E outcome \in Shown : Asks(r, req[r].key, format[req[r].key], "done", outcome)
  /\ UNCHANGED <<config, format>>

\* GetChallengeForm: the challenge's own format is not rewritten; whatever fails, the view
\* "Missing" is shown.
GetChallengeForm(r) ==
  LET entry == FindSiteConfig(req[r].chall) IN
  /\ req[r].at = "form"
  /\ \/ /\ Usable(entry)
        /\ Asks(r, req[r].chall, [base |-> entry, path |-> req[r].chall], "done", "sub")
     \/ Done(r, "missing")
  /\ UNCHANGED <<config, format>>

\* SubmitApprenticeSearchRequest: SearchItemsUrl is not rewritten either.
SubmitSearch(r) ==
  LET entry == FindSiteConfig(req[r].key) IN
  /\ req[r].at = "search"
  /\ IF Usable(entry)
     THEN \E outcome \in Shown :
            Posts(r, req[r].key, [base |-> entry, path |-> req[r].key], "done", outcome)
     ELSE Done(r, "error")
  /\ UNCHANGED <<config, format>>

\* SubmitCreateInvitationRequest: the connector's exception is shown, not thrown; sent it is
\* all the same.
Invite(r) ==
  LET entry == FindSiteConfig(req[r].key) IN
  /\ req[r].at = "invite"
  /\ IF Usable(entry)
     THEN \E outcome \in Shown :
            Posts(r, req[r].key, Resolve(entry, format[req[r].key]), "done", outcome)
     ELSE Done(r, "error")
  /\ UNCHANGED <<config, format>>

\* SubmitChangeRoleRequest: it is sent, and the connector's exception is thrown.
ChangeRole(r) ==
  LET entry == FindSiteConfig(req[r].key) IN
  /\ req[r].at = "role"
  /\ IF Usable(entry)
     THEN Posts(r, req[r].key, Resolve(entry, format[req[r].key]), "changed", "none")
     ELSE Done(r, "error")
  /\ UNCHANGED <<config, format>>

\* The browser is sent to the action it comes from.
ConfirmRole_FaultyAgain(r) ==
  /\ req[r].at = "changed"
  /\ \/ Done(r, "error")
     \/ Becomes(r, [req[r] EXCEPT !.at = "nav", !.redirected = TRUE, !.posted = FALSE])
  /\ UNCHANGED <<config, format>>

ConfirmRole(r) ==
  /\ req[r].at = "changed"
  /\ Done(r, "error") \/ Redirects(r, "EmployerAccountChangeRoleConfirm")
  /\ UNCHANGED <<config, format>>

\* SubmitChallenge: the answer goes where the form points; then it is right, and the page is
\* next; wrong, and the form is shown again; or the connector's exception is thrown.
SubmitChallenge(r) ==
  /\ req[r].at = "submit"
  /\ IF Usable(FindSiteConfig(req[r].chall))
     THEN \/ Redirects(r, req[r].key)
          \/ Becomes(r, [req[r] EXCEPT !.at = "nav", !.posted = TRUE])
          \/ Becomes(r, [req[r] EXCEPT !.at = "done", !.outcome = "error", !.posted = TRUE])
     ELSE Done(r, "error")
  /\ UNCHANGED <<config, format>>

\* A key that is no identity ends the loop.
Status_FaultyStop(r) ==
  LET i == req[r].place IN
  /\ req[r].at = "status"
  /\ IF i \in DOMAIN config /\ config[i].usable /\ config[i].exact
        /\ config[i].site \in Identity \ req[r].reported
     THEN Becomes(r, [req[r] EXCEPT !.place = i + 1, !.reported = @ \cup {config[i].site}])
     ELSE Done(r, "sub")
  /\ UNCHANGED <<config, format>>

\* Enum.TryParse minds the case, the look-ups of pages do not; it takes null for no identity.
Parses(entry) == entry.site \in Identity /\ entry.exact

\* StatusController.Get, one site after the other: an unusable BaseUrl ends it, so does a
\* site that is reported already, which throws twice; a key that is no identity is skipped.
Status(r) ==
  LET i == req[r].place IN
  /\ req[r].at = "status"
  /\ \/ /\ i \notin DOMAIN config
        /\ Done(r, "sub")
     \/ /\ i \in DOMAIN config
        /\ ~config[i].usable \/ (Parses(config[i]) /\ config[i].site \in req[r].reported)
        /\ Done(r, "sub")
     \/ /\ i \in DOMAIN config
        /\ config[i].usable /\ ~Parses(config[i])
        /\ Becomes(r, [req[r] EXCEPT !.place = i + 1])
     \/ /\ i \in DOMAIN config
        /\ config[i].usable /\ Parses(config[i]) /\ config[i].site \notin req[r].reported
        /\ Becomes(r, [req[r] EXCEPT !.place = i + 1, !.reported = @ \cup {config[i].site}])
  /\ UNCHANGED <<config, format>>

Step(r) ==
  \/ Index(r) \/ AskChallenge(r) \/ GetNav(r) \/ GenerateHeader(r) \/ ShowResult(r)
  \/ ReadFormat(r) \/ RewriteFormat(r) \/ GetResourcePage(r) \/ GetChallengeForm(r)
  \/ SubmitSearch(r) \/ Invite(r) \/ ChangeRole(r) \/ ConfirmRole(r) \/ SubmitChallenge(r)
  \/ Status(r)

Next == \E r \in Request : Arrive(r) \/ Step(r)

Spec == Init /\ [][Next]_vars
------------------------------------------------------------------------------
(* Properties *)

\* However often and in whatever order requests rewrite the formats of the shared manifests,
\* every URL asked for is that of its element, at the element's own site.
AskedRight ==
  \A r \in Request :
    req[r].url # None =>
      /\ Usable(FindSiteConfig(req[r].asked))
      /\ req[r].url = [base |-> FindSiteConfig(req[r].asked), path |-> req[r].asked]

\* Before it has sent something to a sub site a request fails only if the configuration has no
\* usable site that is found for its page, header or challenge, or if its address has a key that
\* is no resource: nothing in the manifests and the code's own use of keys makes it fail.
ErrorOnlyForConfiguration ==
  \A r \in Request :
    req[r].outcome = "error" /\ ~req[r].posted =>
      \/ req[r].key \notin Resource
      \/ \E k \in {req[r].key, HeaderKey(req[r].key), req[r].chall} :
           k \in Element /\ ~Usable(FindSiteConfig(k))

\* Whoever follows the portal's redirects, to a challenge, back to its page or to the
\* confirmation of a role, never arrives at a page that the portal does not have.
DeadEndsOnlyTyped ==
  \A r \in Request :
    req[r].outcome \in {"unregistered", "notFound"} => ~req[r].redirected

\* Where the portal's redirects lead, only pages and forms are read: whoever reloads the page
\* that a role change or an answered challenge led to sends nothing to a sub site once more.
RedirectsOnlyRead ==
  \A r \in Request : req[r].redirected => ~req[r].posted

\* A site that is configured under its exact name is missing from the status only if an
\* unusable entry or a site's second entry comes before it or is its own.
StatusComplete ==
  \A r \in Request :
    req[r].at = "done" /\ req[r].place > 0 =>
      \A j \in DOMAIN config :
        Parses(config[j]) /\ config[j].site \notin req[r].reported =>
          \E i \in 1 .. j :
            \/ ~config[i].usable
            \/ /\ Parses(config[i])
               /\ \E h \in 1 .. i - 1 : Parses(config[h]) /\ config[h].site = config[i].site

\* The places that follow the header.
AfterHeader == {"page", "form", "result", "search", "invite", "role"}

\* The most steps that a request has left, as it stands.
StepsLeft(q) ==
  LET After(place) == CASE place = "role" -> 8 [] place = "page" -> 3 [] OTHER -> 1 IN
  CASE q.at \in {"idle", "done"} -> 0
    [] q.at \in AfterHeader \cup {"resolve"} -> After(q.at)
    [] q.at = "rewrite" -> 2
    [] q.at = "header" -> After(q.then) + 1
    [] q.at = "nav" -> After(q.then) + 2
    [] q.at = "challenge" -> 4
    [] q.at = "index" -> 6
    [] q.at = "changed" -> 7
    [] q.at = "submit" -> 11
    [] q.at = "status" -> Len(config) + 2 - q.place

\* Every request ends, wherever the portal's redirects take its browser and whatever the sites
\* configured: each step leaves fewer steps, so that no redirects go round in a circle, between
\* a page, its challenge and the answer to it for one.
RequestsEnd ==
  [][\A r \in Request :
       req[r].at \notin {"idle", "done"} /\ req'[r] # req[r] =>
         StepsLeft(req[r])' \in 0 .. StepsLeft(req[r]) - 1]_vars
=============================================================================
