-------------------------- MODULE ChallengeElevation --------------------------
(***************************************************************************)
(* How the portal lets a user see pages that a challenge protects:         *)
(* ResourceController (Index and both Challenge actions), the submission   *)
(* in ManifestRepository and the cookies of PermissionCookieProvider.      *)
(*                                                                         *)
(* One user, one browser, several tabs.  The server keeps nothing: a       *)
(* passed challenge, and every visit to a protected page while one is in   *)
(* force, answers with a cookie that carries its own end, Timeout minutes  *)
(* ahead.  A request takes its cookie from the browser when it is sent,    *)
(* and answers arrive in any order or not at all, so an older cookie may   *)
(* replace a newer one.                                                    *)
(*                                                                         *)
(* Whether a submission passed is read off what the sub site answered.     *)
(* The connector keeps that in a field which all calls of the portal       *)
(* share, and Upload returns the field, not the answer: another answer     *)
(* that is read in between is taken for this one.                          *)
(*                                                                         *)
(* Time counts minutes.  There is one challenge in the manifests, shared   *)
(* by the pages it protects, so a cookie is named by the account's id; its *)
(* name and the id it holds are compared without regard to case, and both  *)
(* come from the id that Index turned to upper case.                       *)
(*                                                                         *)
(* A definition whose name ends in Faulty... is a plausible mistake in the *)
(* definition that follows it.                                             *)
(***************************************************************************)
EXTENDS Integers

CONSTANTS
  Tab,      \* the tabs of the browser
  Id,       \* the hashed ids of accounts
  Timeout,  \* ChallengeTimeoutMinutes
  MaxTime,  \* bound on the clock
  None      \* no account

ASSUME TimeoutAssumption == Timeout \in Nat /\ MaxTime \in Nat
ASSUME NoneAssumption == None \notin Id

VARIABLES
  now,      \* the clock, in minutes, from 1
  t2,       \* is the user in the T2 role?
  jar,      \* the browser's cookie of each account: its EndDate, 0 for no cookie
  at,       \* per tab: what is under way
  key, id,  \* per tab: the page and the account it is about
  cookie,   \* per tab: the cookie that its request or its answer carries
  until,    \* history: the end of what the server granted last, in this session
  behind,   \* history: the accounts whose answers overlapped or got lost
  content,  \* LastContent: the answer to a challenge, saying that it is valid, or anything else
  answer    \* history, per tab: what the sub site answered to its submission, while looked at

tabs == <<at, key, id, cookie>>
read == <<content, answer>>
vars == <<now, t2, jar, tabs, until, behind, read>>

Key == {"EmployerAccountTeam", "EmployerAccountFinance"}

\* resource.Challenge.HasValue
Challenged(k) == k = "EmployerAccountFinance"

\* A tab shows something that matters no more; asks for a page; was sent to the challenge;
\* shows its form, which may have been submitted; the sub site's answer to the submission has
\* been read into LastContent; or an answer is under way to the tab, with a page or after a
\* passed challenge.
Place == {"idle", "index", "challenge", "form", "read", "page", "passed"}
Answered == {"page", "passed"}

Content == {"valid", "other"}

TypeOK ==
  /\ now \in Nat \ {0}
  /\ t2 \in BOOLEAN
  /\ jar \in [Id -> 0 .. now + Timeout]
  /\ at \in [Tab -> Place]
  /\ key \in [Tab -> Key]
  /\ id \in [Tab -> Id \cup {None}]
  /\ cookie \in [Tab -> 0 .. now + Timeout]
  /\ until \in [Id -> 0 .. now + Timeout]
  /\ behind \in SUBSET Id
  /\ content \in Content
  /\ answer \in [Tab -> {"none", "right", "wrong", "mixed"}]
  /\ \A t \in Tab : at[t] # "idle" => id[t] \in Id
------------------------------------------------------------------------------
(* PermissionCookieProvider *)

\* The timeout is taken for seconds, or rather the seconds for minutes.
CreatePayload_FaultyUnit == now + 60 * Timeout

CreatePayload == now + Timeout

\* The cookie's end is not looked at.
HasPermissions_FaultyEnd(t) == t2 \/ cookie[t] # 0

HasPermissions(t) == t2 \/ cookie[t] > now

\* Another answer with a cookie for account i is under way than the one to tab t.
Overlap(t, i) == \E u \in Tab \ {t} : at[u] \in Answered /\ cookie[u] # 0 /\ id[u] = i

\* The answer to tab t gives permissions for its account.
GivePermissions(t) ==
  /\ cookie' = [cookie EXCEPT ![t] = CreatePayload]
  /\ until' = [until EXCEPT ![id[t]] = now + Timeout]
  /\ behind' = IF Overlap(t, id[t]) THEN behind \cup {id[t]} ELSE behind

\* The answer to tab t leaves the cookies alone.
KeepCookies(t) ==
  /\ cookie' = [cookie EXCEPT ![t] = 0]
  /\ UNCHANGED <<until, behind>>

Goto(t, place) == at' = [at EXCEPT ![t] = place]

\* Tab t is done with its account; whatever it shows needs nothing of the server.
Forget(t) ==
  /\ Goto(t, "idle")
  /\ id' = [id EXCEPT ![t] = None]
  /\ key' = [key EXCEPT ![t] = "EmployerAccountTeam"]
  /\ cookie' = [cookie EXCEPT ![t] = 0]
------------------------------------------------------------------------------
(* What the connector has read *)

\* Another answer is read into LastContent than those that are looked at.
Overtaken == [t \in Tab |-> IF answer[t] = "none" THEN "none" ELSE "mixed"]

\* No answer to tab t is looked at (any more).
NotLooking(t) == answer' = [answer EXCEPT ![t] = "none"] /\ UNCHANGED content

\* Tab t's request calls the sub sites for a page, its header or a form, and has what they
\* answered, if they did, in LastContent.
CallSites(t) ==
  \/ NotLooking(t)
  \/ answer' = [Overtaken EXCEPT ![t] = "none"] /\ content' \in Content
------------------------------------------------------------------------------
(* The browser and the server *)

Init ==
  /\ now = 1 /\ t2 \in BOOLEAN
  /\ jar = [i \in Id |-> 0]
  /\ at = [t \in Tab |-> "idle"]
  /\ key = [t \in Tab |-> "EmployerAccountTeam"]
  /\ id = [t \in Tab |-> None]
  /\ cookie = [t \in Tab |-> 0]
  /\ until = [i \in Id |-> 0]
  /\ behind = {}
  /\ content = "other"
  /\ answer = [t \in Tab |-> "none"]

Tick ==
  /\ now < MaxTime
  /\ now' = now + 1
  /\ UNCHANGED <<t2, jar, tabs, until, behind, read>>

\* The user asks for a page of an account in tab t, whatever the tab shows.
Ask(t) ==
  /\ at[t] \in {"idle", "challenge", "form"}
  /\ \E k \in Key, i \in Id :
       /\ key' = [key EXCEPT ![t] = k]
       /\ id' = [id EXCEPT ![t] = i]
       /\ cookie' = [cookie EXCEPT ![t] = jar[i]]
  /\ Goto(t, "index")
  /\ UNCHANGED <<now, t2, jar, until, behind, read>>

\* The visit does not move the end.
Index_FaultyFixedEnd(t) ==
  /\ at[t] = "index"
  /\ \/ /\ Challenged(key[t]) => HasPermissions(t)
        /\ IF Challenged(key[t]) /\ ~t2
           THEN /\ until' = [until EXCEPT ![id[t]] = now + Timeout]
                /\ UNCHANGED <<cookie, behind>>
           ELSE KeepCookies(t)
        /\ CallSites(t)
        /\ Goto(t, "page")
     \/ /\ Challenged(key[t]) /\ ~HasPermissions(t)
        /\ KeepCookies(t)
        /\ NotLooking(t)
        /\ Goto(t, "challenge")
  /\ UNCHANGED <<now, t2, jar, key, id>>

\* Index: the page, with a new cookie for whoever needed one, or the way to the challenge.
\* When the sub site fails the answer is an error in place of the page.
Index(t) ==
  /\ at[t] = "index"
  /\ \/ /\ Challenged(key[t]) => HasPermissions(t)
        /\ IF Challenged(key[t]) /\ ~t2 THEN GivePermissions(t) ELSE KeepCookies(t)
        /\ CallSites(t)
        /\ Goto(t, "page")
     \/ /\ Challenged(key[t]) /\ ~HasPermissions(t)
        /\ KeepCookies(t)
        /\ NotLooking(t)
        /\ Goto(t, "challenge")
  /\ UNCHANGED <<now, t2, jar, key, id>>

\* The challenge's form is fetched from the sub site and shown.
GetChallengeForm(t) ==
  /\ at[t] = "challenge"
  /\ CallSites(t)
  /\ Goto(t, "form")
  /\ UNCHANGED <<now, t2, jar, key, id, cookie, until, behind>>

\* Any failure shows the view "Missing".
ChallengeFormMissing(t) ==
  /\ at[t] = "challenge"
  /\ CallSites(t)
  /\ Forget(t)
  /\ UNCHANGED <<now, t2, jar, until, behind>>

\* The sub site's answer to a submitted form, right or wrong, is read into LastContent.
AnswerChallenge(t) ==
  /\ at[t] = "form"
  /\ content' \in Content
  /\ answer' = [Overtaken EXCEPT ![t] = IF content' = "valid" THEN "right" ELSE "wrong"]
  /\ Goto(t, "read")
  /\ UNCHANGED <<now, t2, jar, key, id, cookie, until, behind>>

\* Any other call of the portal is answered, of this user or another, a challenge's too.
AnswerOther ==
  /\ content' \in Content
  /\ answer' = Overtaken
  /\ UNCHANGED <<now, t2, jar, tabs, until, behind>>

\* Any answer counts as right.
SubmitChallenge_FaultyUnread(t) ==
  /\ at[t] = "read"
  /\ GivePermissions(t)
  /\ NotLooking(t)
  /\ Goto(t, "passed")
  /\ UNCHANGED <<now, t2, jar, key, id>>

\* LastContent says that the response was valid: permissions are given, and the browser is sent
\* back to the page.
SubmitChallenge(t) ==
  /\ at[t] = "read" /\ content = "valid"
  /\ GivePermissions(t)
  /\ NotLooking(t)
  /\ Goto(t, "passed")
  /\ UNCHANGED <<now, t2, jar, key, id>>

\* Permissions are given before the result is looked at.
SubmitChallengeFails_FaultyGive(t) ==
  /\ at[t] = "form"
  /\ jar' = [jar EXCEPT ![id[t]] = CreatePayload]
  /\ UNCHANGED <<now, t2, tabs, until, behind, read>>

\* LastContent holds no valid response, and the form in it is shown (again), with a new header;
\* or no usable result comes (no answer, none returned for its status, no form, an exception
\* that the connector keeps), whatever the sub site answered, and an error is shown.
SubmitChallengeFails(t) ==
  /\ \/ /\ at[t] = "read" /\ content = "other"
        /\ CallSites(t)
        /\ Goto(t, "form")
        /\ UNCHANGED <<key, id, cookie>>
     \/ /\ at[t] \in {"form", "read"}
        /\ NotLooking(t)
        /\ Forget(t)
  /\ UNCHANGED <<now, t2, jar, until, behind>>

\* The browser keeps what the answer set, and follows the redirect back to the page.
Receive(t) ==
  /\ at[t] \in Answered
  /\ jar' = IF cookie[t] # 0 THEN [jar EXCEPT ![id[t]] = cookie[t]] ELSE jar
  /\ behind' = IF cookie[t] # 0 /\ cookie[t] = until[id[t]] /\ ~Overlap(t, id[t])
               THEN behind \ {id[t]} ELSE behind
  /\ \/ /\ at[t] = "passed"
        /\ Goto(t, "index")
        /\ UNCHANGED <<key, id, cookie>>
     \/ /\ at[t] = "page"
        /\ Forget(t)
  /\ UNCHANGED <<now, t2, until, read>>

\* The answer does not arrive, or an error arrives without the cookie.
LoseAnswer(t) ==
  /\ at[t] \in Answered
  /\ behind' = IF cookie[t] # 0 THEN behind \cup {id[t]} ELSE behind
  /\ Forget(t)
  /\ UNCHANGED <<now, t2, jar, until, read>>

\* The browser is closed: the cookies have no Expires and go with the session.
CloseBrowser ==
  /\ jar' = [i \in Id |-> 0]
  /\ at' = [t \in Tab |-> "idle"]
  /\ key' = [t \in Tab |-> "EmployerAccountTeam"]
  /\ id' = [t \in Tab |-> None]
  /\ cookie' = [t \in Tab |-> 0]
  /\ until' = [i \in Id |-> 0]
  /\ behind' = {}
  /\ answer' = [t \in Tab |-> "none"]
  /\ UNCHANGED <<now, t2, content>>

Next ==
  \/ Tick \/ CloseBrowser \/ AnswerOther
  \/ \E t \in Tab :
       \/ Ask(t) \/ Index(t) \/ GetChallengeForm(t) \/ ChallengeFormMissing(t)
       \/ AnswerChallenge(t) \/ SubmitChallenge(t) \/ SubmitChallengeFails(t)
       \/ Receive(t) \/ LoseAnswer(t)

Spec == Init /\ [][Next]_vars
------------------------------------------------------------------------------
(* Properties *)

\* Whatever the order of requests and answers in however many tabs, a user who is not T2 gets
\* a protected page only while a grant of this session for that very account is in force: the
\* time given when the portal took the challenge for passed in that account's form, and by the
\* visits since.  (What it takes for passed is in ElevationSpec.)
ServedElevated ==
  [][\A t \in Tab :
       at[t] = "index" /\ at'[t] = "page" /\ Challenged(key[t]) /\ ~t2 => now < until[id[t]]]_vars

\* No cookie, in the browser or under way, lasts longer than what was granted last.
CookiesWithinGrant ==
  /\ \A i \in Id : jar[i] <= until[i]
  /\ \A t \in Tab : at[t] # "idle" => cookie[t] <= until[id[t]]

\* Only answers that overlap or get lost shorten an elevation: otherwise the browser holds the
\* cookie that was granted last.
JarCurrent ==
  \A i \in Id :
    i \notin behind /\ (\A t \in Tab : ~(at[t] \in Answered /\ cookie[t] # 0 /\ id[t] = i))
      => jar[i] = until[i]

\* Per tab, the account whose challenge it shows, and the account of which a protected page is on
\* its way to it.
FormShown == [t \in Tab |-> IF at[t] \in {"form", "read"} THEN id[t] ELSE None]
PageServed == [t \in Tab |-> IF at[t] = "page" /\ Challenged(key[t]) THEN id[t] ELSE None]

\* However requests and answers overtake each other, the challenge gives and cookies keep what
\* they are for: an account is granted something only from its own form, for a right answer, or
\* for one that is overtaken in LastContent by the answer to another call while it is looked at,
\* and for no other; and a request that took its cookie earlier, an answer that arrives late or
\* a grant for another account never brings back what has lapsed.
Promise == INSTANCE Elevation WITH granted <- until, form <- FormShown, page <- PageServed
ElevationSpec == Promise!Spec
=============================================================================
