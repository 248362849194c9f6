----------------------------- MODULE SiteConnector -----------------------------
(***************************************************************************)
(* One SiteConnector and the calls made through it.                        *)
(*                                                                         *)
(* The connector keeps the outcome of the last call in fields of its own   *)
(* (LastCode, LastContent, LastException, HttpStatusCodeDecision) and the  *)
(* token of the last call in the headers of its HttpClient; callers read   *)
(* LastCode and LastException after the call returns.  The indexer worker  *)
(* makes one call at a time.  The portal's ManifestRepository is a         *)
(* singleton, so all the requests the portal serves at a time share one    *)
(* connector without a lock, and the accesses to the shared fields of one  *)
(* call interleave with those of another.  One statement that both reads   *)
(* and writes LastException is one step; only whose exception it then is   *)
(* could come out otherwise, and nothing here depends on that.             *)
(*                                                                         *)
(* A Download is ManifestRepository.GetPage and the worker's downloads, an *)
(* Upload the challenge, search and invitation requests, a Post the change *)
(* of role, the only user of the Upload that returns nothing.              *)
(*                                                                         *)
(* A definition whose name ends in Faulty... is a plausible mistake in the *)
(* definition that follows it.                                             *)
(***************************************************************************)
CONSTANTS
  Caller,   \* who uses the connector at a time: portal requests, or the worker
  Site,     \* the sub sites, each with a token audience of its own
  Codes,    \* the status codes the sub sites answer with
  None      \* null

Code == {"OK", "MultiStatus", "Found", "Unauthorized", "NotFound", "BadRequest", "ServerError"}
Kind == {"Download", "Upload", "Post"}

ASSUME CodesAssumption == Codes \subseteq Code

VARIABLES
  authorization,  \* the site whose token DefaultRequestHeaders carries
  lastCode, lastContent, lastException, decision,
  pc, kind, site, \* per caller: its next step, what it calls and where
  answer,         \* per caller: the response to its own request
  handler, verdict, \* per caller: locals of ExamineResponse
  value, status, exception, \* per caller: what the call returned, and the two fields read after it
  since           \* history, per caller: whose answers were read into LastContent from its own on

content == <<lastContent, since>>
shared == <<authorization, lastCode, content, lastException, decision>>
local == <<kind, site, answer, handler, verdict, value, status, exception>>
vars == <<shared, pc, local>>

Handler == {"success", "redirection", "client", "system", "nobody"}
Decision == {"Continue", "ReturnNull", "HandleException"}
PC == {"idle", "send", "content", "examine", "select", "handle", "clear", "decide", "switch",
       "status", "exception", "done"}

\* A body is known by the caller it answers; None is one that is not of the type asked for.
Answer == [code : Codes, body : Caller \cup {None}]

ASSUME NoneAssumption == None \notin Caller \cup Site \cup Code \cup Answer

TypeOK ==
  /\ authorization \in Site \cup {None}
  /\ lastCode \in Code \cup {None}
  /\ lastContent \in Caller \cup {None}
  /\ lastException \in Caller \cup {None}
  /\ decision \in Decision
  /\ pc \in [Caller -> PC]
  /\ kind \in [Caller -> Kind]
  /\ site \in [Caller -> Site \cup {None}]
  /\ answer \in [Caller -> Answer \cup {None}]
  /\ handler \in [Caller -> Handler]
  /\ verdict \in [Caller -> Decision]
  /\ value \in [Caller -> Caller \cup {None}]
  /\ status \in [Caller -> Code \cup {None}]
  /\ exception \in [Caller -> Caller \cup {None}]
  /\ since \in [Caller -> SUBSET Caller]
------------------------------------------------------------------------------
(* The strategies for status codes *)

\* The strategy whose range of codes holds the code; 207 and a few others are in no range.
HandlerOf(code) ==
  CASE code = "OK" -> "success"
    [] code = "Found" -> "redirection"
    [] code \in {"Unauthorized", "NotFound", "BadRequest"} -> "client"
    [] code = "ServerError" -> "system"
    [] OTHER -> "nobody"

\* What strategy h decides on a code, which need not be in its range by the time it is asked.
Verdict(h, code) ==
  CASE h \in {"success", "nobody"} -> "Continue"
    [] h = "redirection" -> "ReturnNull"
    [] h = "system" -> "HandleException"
    [] h = "client" -> IF code \in {"Unauthorized", "NotFound"} THEN "ReturnNull"
                       ELSE "HandleException"

\* Strategy h takes the token away when it is asked about a 401.
TakesToken(h, code) == h = "client" /\ code = "Unauthorized"
------------------------------------------------------------------------------
(* The steps of a call *)

Init ==
  /\ authorization = None /\ lastCode = None /\ lastContent = None /\ lastException = None
  /\ decision = "Continue"
  /\ pc = [c \in Caller |-> "idle"]
  /\ kind = [c \in Caller |-> "Download"]
  /\ site = [c \in Caller |-> None]
  /\ answer = [c \in Caller |-> None]
  /\ handler = [c \in Caller |-> "nobody"]
  /\ verdict = [c \in Caller |-> "Continue"]
  /\ value = [c \in Caller |-> None]
  /\ status = [c \in Caller |-> None]
  /\ exception = [c \in Caller |-> None]
  /\ since = [c \in Caller |-> {}]

Goto(c, next) == pc' = [pc EXCEPT ![c] = next]

\* A call begins: it gets a token for its site, or none, and puts it in the shared header.
EnsureClientAuthorizationHeader(c) ==
  /\ pc[c] = "idle"
  /\ \E k \in Kind, s \in Site :
       /\ kind' = [kind EXCEPT ![c] = k]
       /\ site' = [site EXCEPT ![c] = s]
       /\ authorization' \in {s, None}
  /\ Goto(c, "send")
  /\ UNCHANGED <<lastCode, content, lastException, decision,
                 answer, handler, verdict, value, status, exception>>

\* The request goes out with the token in the header, and is answered; a site refuses the
\* token of another one, or none.
Exchange(c) ==
  /\ pc[c] = "send"
  /\ \E code \in Codes, body \in {c, None} :
       /\ authorization # site[c] => code = "Unauthorized"
       /\ answer' = [answer EXCEPT ![c] = [code |-> code, body |-> body]]
  /\ Goto(c, IF kind[c] = "Post" THEN "examine" ELSE "content")
  /\ UNCHANGED <<shared, kind, site, handler, verdict, value, status, exception>>

\* No answer comes: the exception is swallowed, but by the Upload that returns nothing.
NoAnswer(c) ==
  /\ pc[c] = "send"
  /\ \/ /\ kind[c] = "Post"
        /\ exception' = [exception EXCEPT ![c] = c]
        /\ Goto(c, "done")
     \/ /\ kind[c] # "Post"
        /\ Goto(c, "status")
        /\ UNCHANGED exception
  /\ UNCHANGED <<shared, kind, site, answer, handler, verdict, value, status>>

\* The answer of call c is in LastContent, for c and for the calls that read theirs before.
ReadFor(c) ==
  since' = [d \in Caller |-> IF d = c THEN {c} ELSE IF since[d] = {} THEN {} ELSE since[d] \cup {c}]

\* The response is kept in place of its content.
ReadContent_FaultyWhole(c) ==
  /\ pc[c] = "content"
  /\ lastContent' = answer[c]
  /\ ReadFor(c)
  /\ Goto(c, "examine")
  /\ UNCHANGED <<authorization, lastCode, lastException, decision, local>>

\* Only Downloads put their content in LastContent.
ReadContent_FaultyDownload(c) ==
  /\ pc[c] = "content"
  /\ lastContent' = IF kind[c] = "Download" THEN answer[c].body ELSE lastContent
  /\ ReadFor(c)
  /\ Goto(c, "examine")
  /\ UNCHANGED <<authorization, lastCode, lastException, decision, local>>

ReadContent(c) ==
  /\ pc[c] = "content"
  /\ lastContent' = answer[c].body
  /\ ReadFor(c)
  /\ Goto(c, "examine")
  /\ UNCHANGED <<authorization, lastCode, lastException, decision, local>>

\* The exception of an earlier call is kept.
Examine_FaultyKeep(c) ==
  /\ pc[c] = "examine"
  /\ lastCode' = answer[c].code
  /\ Goto(c, "select")
  /\ UNCHANGED <<authorization, content, lastException, decision, local>>

\* ExamineResponse.  Its two assignments are one step: nobody reads LastException and then
\* LastCode, so nobody can tell.
Examine(c) ==
  /\ pc[c] = "examine"
  /\ lastException' = None
  /\ lastCode' = answer[c].code
  /\ Goto(c, "select")
  /\ UNCHANGED <<authorization, content, decision, local>>

\* The strategy is chosen by LastCode, which is read again for every bound of every strategy:
\* when another call sets it meanwhile, any of them may match, or none ...
SelectHandler(c) ==
  /\ pc[c] = "select"
  /\ \E h \in Handler :
       /\ (\A d \in Caller : pc[d] # "examine") => h = HandlerOf(lastCode)
       /\ handler' = [handler EXCEPT ![c] = h]
  /\ Goto(c, "handle")
  /\ UNCHANGED <<shared, kind, site, answer, verdict, value, status, exception>>

\* ... and given LastCode, which is read again.
Handle(c) ==
  /\ pc[c] = "handle"
  /\ verdict' = [verdict EXCEPT ![c] = Verdict(handler[c], lastCode)]
  /\ Goto(c, IF TakesToken(handler[c], lastCode) THEN "clear" ELSE "decide")
  /\ UNCHANGED <<shared, kind, site, answer, handler, value, status, exception>>

\* The token is taken from the header, whoever put it there since.
ClearToken(c) ==
  /\ pc[c] = "clear"
  /\ authorization' = None
  /\ Goto(c, "decide")
  /\ UNCHANGED <<lastCode, content, lastException, decision, local>>

Decide(c) ==
  /\ pc[c] = "decide"
  /\ decision' = verdict[c]
  /\ Goto(c, "switch")
  /\ UNCHANGED <<authorization, lastCode, content, lastException, local>>

\* A Download returns LastContent as well.
Continue_FaultyShared(c) ==
  /\ pc[c] = "switch"
  /\ decision = "Continue"
  /\ value' = [value EXCEPT ![c] = IF kind[c] = "Post" THEN None ELSE lastContent]
  /\ Goto(c, "status")
  /\ UNCHANGED <<shared, kind, site, answer, handler, verdict, status, exception>>

\* The call goes on: a Download reads its response again, an Upload returns LastContent.
Continue(c) ==
  /\ pc[c] = "switch"
  /\ decision = "Continue"
  /\ value' = [value EXCEPT ![c] = CASE kind[c] = "Download" -> answer[c].body
                                     [] kind[c] = "Upload" -> lastContent
                                     [] kind[c] = "Post" -> None]
  /\ Goto(c, "status")
  /\ UNCHANGED <<shared, kind, site, answer, handler, verdict, status, exception>>

\* Null is returned; a Download ends a HandleException that way too.
ReturnNull(c) ==
  /\ pc[c] = "switch"
  /\ decision = "ReturnNull" \/ (decision = "HandleException" /\ kind[c] = "Download")
  /\ Goto(c, "status")
  /\ UNCHANGED <<shared, local>>

\* LastException is made and thrown; the Upload that returns something swallows it and
\* returns null.
HandleException(c) ==
  /\ pc[c] = "switch"
  /\ decision = "HandleException" /\ kind[c] # "Download"
  /\ lastException' = IF lastException = None THEN c ELSE lastException
  /\ \/ /\ kind[c] = "Post"
        /\ exception' = [exception EXCEPT ![c] = lastException']
        /\ Goto(c, "done")
     \/ /\ kind[c] = "Upload"
        /\ Goto(c, "status")
        /\ UNCHANGED exception
  /\ UNCHANGED <<authorization, lastCode, content, decision,
                 kind, site, answer, handler, verdict, value, status>>

\* The caller reads LastCode ...
ReadLastCode(c) ==
  /\ pc[c] = "status"
  /\ status' = [status EXCEPT ![c] = lastCode]
  /\ Goto(c, "exception")
  /\ UNCHANGED <<shared, kind, site, answer, handler, verdict, value, exception>>

\* ... and LastException.
ReadLastException(c) ==
  /\ pc[c] = "exception"
  /\ exception' = [exception EXCEPT ![c] = lastException]
  /\ Goto(c, "done")
  /\ UNCHANGED <<shared, kind, site, answer, handler, verdict, value, status>>

\* The caller is done with the outcome, and may call again.
Finish(c) ==
  /\ pc[c] = "done"
  /\ Goto(c, "idle")
  /\ kind' = [kind EXCEPT ![c] = "Download"]
  /\ site' = [site EXCEPT ![c] = None]
  /\ answer' = [answer EXCEPT ![c] = None]
  /\ handler' = [handler EXCEPT ![c] = "nobody"]
  /\ verdict' = [verdict EXCEPT ![c] = "Continue"]
  /\ value' = [value EXCEPT ![c] = None]
  /\ status' = [status EXCEPT ![c] = None]
  /\ exception' = [exception EXCEPT ![c] = None]
  /\ since' = [since EXCEPT ![c] = {}]
  /\ UNCHANGED <<authorization, lastCode, lastContent, lastException, decision>>

Next ==
  \E c \in Caller :
    \/ EnsureClientAuthorizationHeader(c) \/ Exchange(c) \/ NoAnswer(c)
    \/ ReadContent(c) \/ Examine(c) \/ SelectHandler(c) \/ Handle(c) \/ ClearToken(c) \/ Decide(c)
    \/ Continue(c) \/ ReturnNull(c) \/ HandleException(c)
    \/ ReadLastCode(c) \/ ReadLastException(c) \/ Finish(c)

Spec == Init /\ [][Next]_vars
------------------------------------------------------------------------------
(* Properties *)

\* Who else uses the connector meanwhile, what a Download returns came in answer to its own
\* request: a page is never another request's page.
DownloadedOwn ==
  \A c \in Caller : kind[c] = "Download" => value[c] \in {c, None}

\* An Upload may return the answer to another request, but only one that came after its own: what
\* is in LastContent from calls that were answered before is never taken for its answer.
UploadedSince ==
  \A c \in Caller : kind[c] = "Upload" => value[c] \in since[c] \cup {None}

\* What a call leaves when nobody else uses the connector.  Answered, its value, LastCode
\* and LastException are those of its own response; without an answer it returns nothing,
\* and only the Upload that returns nothing tells its caller.
OwnOutcome ==
  \A c \in Caller : pc[c] = "done" =>
    IF answer[c] = None
    THEN value[c] = None /\ (kind[c] = "Post" => exception[c] = c)
    ELSE LET own == answer[c].code
             fate == Verdict(HandlerOf(own), own)
         IN /\ value[c] = IF fate = "Continue" /\ kind[c] # "Post" THEN answer[c].body ELSE None
            /\ exception[c] = IF fate = "HandleException" /\ kind[c] # "Download" THEN c ELSE None
            /\ status[c] = own \/ kind[c] = "Post"

\* What the tests of the connector expect of LastCode after a Download, for instance at
\* SiteConnectorTests.cs:36: the code that this call was answered with.
StatusIsOwn ==
  \A c \in Caller :
    pc[c] = "done" /\ kind[c] = "Download" /\ answer[c] # None => status[c] = answer[c].code

(* The connector as its only caller sees it *)

\* The caller, when there is one at a time.
Worker == CHOOSE c \in Caller : TRUE

\* What the indexer tells apart in a code and in a body.
Seen(code) ==
  CASE code = None -> "none"
    [] code \in {"OK", "Unauthorized"} -> code
    [] OTHER -> "other"

Outcome(code, body) == [code |-> Seen(code), body |-> IF body = None THEN "none" ELSE "data"]

\* What call c is going to return, by its own answer.
Due(c) ==
  IF answer[c] # None /\ Verdict(HandlerOf(answer[c].code), answer[c].code) = "Continue"
     /\ kind[c] # "Post"
  THEN answer[c].body ELSE None

Phase(c) ==
  CASE pc[c] = "idle" -> "idle"
    [] pc[c] \in {"send", "content", "examine"} -> "called"
    [] pc[c] = "done" -> "returned"
    [] OTHER -> "answered"

\* What the answer to call c settles, once it is examined or failed to come.
Settled(c) ==
  IF Phase(c) \in {"answered", "returned"} THEN Outcome(lastCode, Due(c)) ELSE Outcome(None, None)

\* What the caller has in the end; after a Post it does not look at LastCode.
Told(c) ==
  IF Phase(c) = "returned"
  THEN Outcome(IF kind[c] = "Post" THEN lastCode ELSE status[c], value[c])
  ELSE Outcome(None, None)

\* For a single caller the connector, with its fields, strategies and exceptions, gives the
\* answers that IndexPublication counts on, and returns what it was answered: code and body
\* are of one call, and a call without an answer leaves the code of the one before.
Connector ==
  INSTANCE ConnectorCall WITH
    phase <- Phase(Worker), lastCode <- Seen(lastCode),
    answer <- Settled(Worker), told <- Told(Worker)
CallSpec == Connector!Spec
=============================================================================
