-------------------------- MODULE SiteConnectorProofs --------------------------
(***************************************************************************)
(* Theorems about SiteConnector, for every set of callers, sites and       *)
(* status codes.                                                           *)
(***************************************************************************)
EXTENDS SiteConnector, TLAPS

Reply == {"content", "examine", "select", "handle", "clear", "decide", "switch"}
Result == {"status", "exception", "done"}

\* The types, and which locals a caller's step needs to be set.
TypeInv ==
  /\ TypeOK
  /\ \A c \in Caller : pc[c] \in Reply => answer[c] # None
  /\ \A c \in Caller : pc[c] \notin Result => value[c] = None

\* The state before the first call.
LEMMA InitTypeInv == Init => TypeInv
BY DEF Init, TypeInv, TypeOK, Decision, PC, Kind, Handler, Reply, Result

\* Every step of every caller keeps the types.
LEMMA NextTypeInv == TypeInv /\ [Next]_vars => TypeInv'
<1> SUFFICES ASSUME TypeInv, [Next]_vars PROVE TypeInv'
    OBVIOUS
<1> USE CodesAssumption, NoneAssumption
    DEF TypeInv, TypeOK, PC, Reply, Result, Goto, shared, content, local
<1>1. CASE UNCHANGED vars BY <1>1 DEF vars
<1>2. ASSUME NEW c \in Caller, EnsureClientAuthorizationHeader(c) PROVE TypeInv'
  BY <1>2 DEF EnsureClientAuthorizationHeader
<1>3. ASSUME NEW c \in Caller, Exchange(c) PROVE TypeInv'
  BY <1>3 DEF Exchange, Answer
<1>4. ASSUME NEW c \in Caller, NoAnswer(c) PROVE TypeInv'
  BY <1>4 DEF NoAnswer
<1>5. ASSUME NEW c \in Caller, ReadContent(c) PROVE TypeInv'
  BY <1>5 DEF ReadContent, ReadFor, Answer
<1>6. ASSUME NEW c \in Caller, Examine(c) PROVE TypeInv'
  BY <1>6 DEF Examine, Answer
<1>7. ASSUME NEW c \in Caller, SelectHandler(c) PROVE TypeInv'
  BY <1>7 DEF SelectHandler, HandlerOf, Handler
<1>8. ASSUME NEW c \in Caller, Handle(c) PROVE TypeInv'
  BY <1>8 DEF Handle, Verdict, Handler, Decision
<1>9. ASSUME NEW c \in Caller, Decide(c) PROVE TypeInv'
  BY <1>9 DEF Decide
<1>10. ASSUME NEW c \in Caller, Continue(c) PROVE TypeInv'
  BY <1>10 DEF Continue, Answer, Kind
<1>11. ASSUME NEW c \in Caller, ReturnNull(c) PROVE TypeInv'
  BY <1>11 DEF ReturnNull
<1>12. ASSUME NEW c \in Caller, HandleException(c) PROVE TypeInv'
  BY <1>12 DEF HandleException
<1>13. ASSUME NEW c \in Caller, ReadLastCode(c) PROVE TypeInv'
  BY <1>13 DEF ReadLastCode
<1>14. ASSUME NEW c \in Caller, ReadLastException(c) PROVE TypeInv'
  BY <1>14 DEF ReadLastException
<1>15. ASSUME NEW c \in Caller, Finish(c) PROVE TypeInv'
  BY <1>15 DEF Finish, Kind, Handler, Decision
<1>16. ASSUME NEW c \in Caller, ClearToken(c) PROVE TypeInv'
  BY <1>16 DEF ClearToken
<1> QED
  BY <1>1, <1>2, <1>3, <1>4, <1>5, <1>6, <1>7, <1>8, <1>9, <1>10, <1>11, <1>12, <1>13,
     <1>14, <1>15, <1>16 DEF Next

\* Type correctness.
THEOREM TypeCorrect == Spec => []TypeOK
<1>1. TypeInv => TypeOK
  BY DEF TypeInv
<1> QED BY <1>1, InitTypeInv, NextTypeInv, PTL DEF Spec
------------------------------------------------------------------------------
(* What holds however many callers share the connector. *)

\* A response answers the request of the caller that holds it.
OwnBody == \A c \in Caller : answer[c] # None => answer[c].body \in {c, None}

OwnInv == TypeInv /\ OwnBody /\ DownloadedOwn

\* Every step of every caller keeps responses apart; the shared fields do not matter.
LEMMA NextOwnInv == OwnInv /\ [Next]_vars => OwnInv'
<1> SUFFICES ASSUME OwnInv, [Next]_vars PROVE OwnInv'
    OBVIOUS
<1>t. TypeInv'
  BY NextTypeInv DEF OwnInv
<1> USE NoneAssumption
    DEF OwnInv, OwnBody, DownloadedOwn, TypeInv, TypeOK, Reply, Result, Goto, shared, content, local
<1>1. CASE UNCHANGED vars BY <1>1, <1>t DEF vars
<1>2. ASSUME NEW c \in Caller, EnsureClientAuthorizationHeader(c) PROVE OwnInv'
  BY <1>2, <1>t DEF EnsureClientAuthorizationHeader
<1>3. ASSUME NEW c \in Caller, Exchange(c) PROVE OwnInv'
  BY <1>3, <1>t DEF Exchange
<1>4. ASSUME NEW c \in Caller, NoAnswer(c) PROVE OwnInv'
  BY <1>4, <1>t DEF NoAnswer
<1>5. ASSUME NEW c \in Caller, Continue(c) PROVE OwnInv'
  BY <1>5, <1>t DEF Continue
<1>6. ASSUME NEW c \in Caller, HandleException(c) PROVE OwnInv'
  BY <1>6, <1>t DEF HandleException
<1>7. ASSUME NEW c \in Caller, Finish(c) PROVE OwnInv'
  BY <1>7, <1>t DEF Finish
<1>8. ASSUME NEW c \in Caller,
             \/ ReadContent(c) \/ Examine(c) \/ SelectHandler(c) \/ Handle(c) \/ ClearToken(c)
             \/ Decide(c) \/ ReturnNull(c) \/ ReadLastCode(c) \/ ReadLastException(c)
      PROVE  OwnInv'
  <2>1. UNCHANGED <<answer, kind, value>>
    BY <1>8 DEF ReadContent, Examine, SelectHandler, Handle, ClearToken, Decide, ReturnNull,
                ReadLastCode, ReadLastException
  <2> QED BY <2>1, <1>t
<1> QED
  BY <1>1, <1>2, <1>3, <1>4, <1>5, <1>6, <1>7, <1>8 DEF Next

\* A Download returns what its own request was answered with, however the steps of other
\* callers interleave with it.
THEOREM DownloadsStayApart == Spec => []DownloadedOwn
<1>1. Init => OwnInv
  BY InitTypeInv DEF Init, OwnInv, OwnBody, DownloadedOwn
<1>2. OwnInv => DownloadedOwn
  BY DEF OwnInv
<1> QED BY <1>1, <1>2, NextOwnInv, PTL DEF Spec
\* From the time its own answer is in LastContent, a call finds there what it or a later one got.
SinceInv ==
  \A c \in Caller :
    pc[c] \in Reply \ {"content"} /\ kind[c] # "Post" =>
      c \in since[c] /\ lastContent \in since[c] \cup {None}

\* What an Upload returns was answered to it, or to a call that was answered after it.
UploadInv == OwnInv /\ SinceInv /\ UploadedSince

\* Every step of every caller keeps what the others found in LastContent.
LEMMA NextUploadInv == UploadInv /\ [Next]_vars => UploadInv'
<1> SUFFICES ASSUME UploadInv, [Next]_vars PROVE SinceInv' /\ UploadedSince'
    BY NextOwnInv DEF UploadInv
<1>t. TypeInv /\ TypeInv' /\ OwnBody
  BY NextTypeInv DEF UploadInv, OwnInv
<1> USE NoneAssumption
    DEF UploadInv, SinceInv, UploadedSince, TypeInv, TypeOK, Reply, Result, Goto,
        shared, content, local
<1>1. CASE UNCHANGED vars BY <1>1, <1>t DEF vars
<1>2. ASSUME NEW c \in Caller, EnsureClientAuthorizationHeader(c)
      PROVE  SinceInv' /\ UploadedSince'
  BY <1>2, <1>t DEF EnsureClientAuthorizationHeader
<1>3. ASSUME NEW c \in Caller, Exchange(c) PROVE SinceInv' /\ UploadedSince'
  BY <1>3, <1>t DEF Exchange
<1>4. ASSUME NEW c \in Caller, NoAnswer(c) PROVE SinceInv' /\ UploadedSince'
  BY <1>4, <1>t DEF NoAnswer
<1>5. ASSUME NEW c \in Caller, ReadContent(c) PROVE SinceInv' /\ UploadedSince'
  <2>1. lastContent' \in {c, None}
    BY <1>5, <1>t DEF ReadContent, OwnBody
  <2>2. /\ since'[c] = {c}
        /\ \A d \in Caller \ {c} : /\ since[d] \subseteq since'[d]
                                   /\ since[d] # {} => c \in since'[d]
    BY <1>5, <1>t DEF ReadContent, ReadFor
  <2>3. /\ kind' = kind /\ value' = value /\ value[c] = None
        /\ \A d \in Caller \ {c} : pc'[d] = pc[d]
    BY <1>5, <1>t DEF ReadContent
  <2> QED BY <2>1, <2>2, <2>3, <1>t
<1>6. ASSUME NEW c \in Caller, Continue(c) PROVE SinceInv' /\ UploadedSince'
  BY <1>6, <1>t DEF Continue, Kind
<1>7. ASSUME NEW c \in Caller, HandleException(c) PROVE SinceInv' /\ UploadedSince'
  BY <1>7, <1>t DEF HandleException
<1>8. ASSUME NEW c \in Caller, Finish(c) PROVE SinceInv' /\ UploadedSince'
  BY <1>8, <1>t DEF Finish
<1>9. ASSUME NEW c \in Caller,
             \/ Examine(c) \/ SelectHandler(c) \/ Handle(c) \/ ClearToken(c) \/ Decide(c)
             \/ ReturnNull(c) \/ ReadLastCode(c) \/ ReadLastException(c)
      PROVE  SinceInv' /\ UploadedSince'
  <2>1. UNCHANGED <<kind, value, since, lastContent>> /\ \A d \in Caller \ {c} : pc'[d] = pc[d]
    BY <1>9, <1>t DEF Examine, SelectHandler, Handle, ClearToken, Decide, ReturnNull,
                      ReadLastCode, ReadLastException
  <2>2. pc'[c] \in Reply => pc[c] \in Reply \ {"content"}
    BY <1>9, <1>t DEF Examine, SelectHandler, Handle, ClearToken, Decide, ReturnNull,
                      ReadLastCode, ReadLastException
  <2> QED BY <2>1, <2>2, <1>t
<1> QED BY <1>1, <1>2, <1>3, <1>4, <1>5, <1>6, <1>7, <1>8, <1>9 DEF Next

\* However many callers share the connector, an Upload never returns what LastContent held
\* before its own answer: this is what the model of the challenge takes for granted.
THEOREM UploadsLookForward == Spec => []UploadedSince
<1>1. Init => UploadInv
  BY InitTypeInv
  DEF Init, UploadInv, OwnInv, OwnBody, DownloadedOwn, SinceInv, UploadedSince, Reply
<1>2. UploadInv => UploadedSince
  BY DEF UploadInv
<1> QED BY <1>1, <1>2, NextUploadInv, PTL DEF Spec
------------------------------------------------------------------------------
(* What holds when the connector has one caller at a time, as in the worker. *)

\* What the strategies make of the response to caller c.
Fate(c) == Verdict(HandlerOf(answer[c].code), answer[c].code)

\* The exception made for caller c.
Raised(c) == IF Fate(c) = "HandleException" /\ kind[c] # "Download" THEN c ELSE None

\* From the answer on, the shared fields hold what this call has put there so far.
AloneAt(c) ==
  /\ pc[c] \in {"select", "handle", "clear", "decide", "switch"} =>
       /\ lastCode = answer[c].code /\ lastException = None
       /\ kind[c] # "Post" => lastContent = answer[c].body
  /\ pc[c] = "examine" /\ kind[c] # "Post" => lastContent = answer[c].body
  /\ pc[c] = "handle" => handler[c] = HandlerOf(answer[c].code)
  /\ pc[c] \in {"clear", "decide"} => verdict[c] = Fate(c)
  /\ pc[c] = "switch" => decision = Fate(c)
  /\ pc[c] \in {"status", "exception"} =>
       IF answer[c] = None
       THEN value[c] = None /\ kind[c] # "Post"
       ELSE /\ lastCode = answer[c].code
            /\ lastException = Raised(c)
            /\ value[c] = Due(c)
  /\ pc[c] = "exception" \/ (pc[c] = "done" /\ kind[c] # "Post") => status[c] = lastCode
  /\ pc[c] = "done" /\ answer[c] # None => lastCode = answer[c].code
  /\ pc[c] \in {"idle", "send"} => answer[c] = None

AloneInv == TypeInv /\ OwnOutcome /\ \A c \in Caller : AloneAt(c)

\* Every step of the only caller keeps the shared fields its own.
LEMMA NextAloneInv ==
  ASSUME NEW c \in Caller, Caller = {c}, AloneInv, [Next]_vars
  PROVE  AloneInv'
<1>t. TypeInv'
  BY NextTypeInv DEF AloneInv
<1>o. OwnOutcome' <=>
        (pc'[c] = "done" =>
          IF answer'[c] = None
          THEN value'[c] = None /\ (kind'[c] = "Post" => exception'[c] = c)
          ELSE /\ value'[c] = Due(c)'
               /\ exception'[c] = Raised(c)'
               /\ status'[c] = answer'[c].code \/ kind'[c] = "Post")
  BY DEF OwnOutcome, Due, Raised, Fate
<1>s. SUFFICES AloneAt(c)' /\ OwnOutcome'
  BY <1>t DEF AloneInv
<1> USE NoneAssumption
    DEF AloneInv, AloneAt, TypeInv, TypeOK, Reply, Result, Goto, shared, content, local
<1>1. CASE UNCHANGED vars
  BY <1>1 DEF vars, OwnOutcome, Fate, Due, Raised
<1>2. CASE EnsureClientAuthorizationHeader(c)
  BY <1>2, <1>o DEF EnsureClientAuthorizationHeader
<1>3. CASE Exchange(c)
  BY <1>3, <1>o DEF Exchange
<1>4. CASE NoAnswer(c)
  BY <1>4, <1>o DEF NoAnswer
<1>5. CASE ReadContent(c)
  BY <1>5, <1>o DEF ReadContent
<1>6. CASE Examine(c)
  BY <1>6, <1>o DEF Examine
<1>7. CASE SelectHandler(c)
  BY <1>7, <1>o DEF SelectHandler
<1>8. CASE Handle(c)
  BY <1>8, <1>o DEF Handle, Fate
<1>9. CASE Decide(c)
  BY <1>9, <1>o DEF Decide, Fate
<1>10. CASE Continue(c)
  BY <1>10, <1>o DEF Continue, Kind, Due, Raised, Fate
<1>11. CASE ReturnNull(c)
  BY <1>11, <1>o DEF ReturnNull, Due, Raised, Fate
<1>12. CASE HandleException(c)
  BY <1>12, <1>o DEF HandleException, Due, Raised, Fate
<1>13. CASE ReadLastCode(c)
  BY <1>13, <1>o DEF ReadLastCode, Due, Raised, Fate
<1>14. CASE ReadLastException(c)
  BY <1>14, <1>o DEF ReadLastException, Due, Raised, Fate
<1>15. CASE Finish(c)
  BY <1>15, <1>o DEF Finish
<1>16. CASE ClearToken(c)
  BY <1>16, <1>o DEF ClearToken, Fate
<1> QED
  BY <1>1, <1>2, <1>3, <1>4, <1>5, <1>6, <1>7, <1>8, <1>9, <1>10, <1>11, <1>12, <1>13,
     <1>14, <1>15, <1>16 DEF Next

\* The invariant of a connector with one caller.
LEMMA AloneInvariant ==
  ASSUME NEW c \in Caller, Caller = {c}
  PROVE  Spec => []AloneInv
<1>1. Init => AloneInv
  BY InitTypeInv DEF Init, AloneInv, AloneAt, OwnOutcome, TypeInv, TypeOK
<1>2. AloneInv /\ [Next]_vars => AloneInv'
  BY NextAloneInv
<1> QED BY <1>1, <1>2, PTL DEF Spec

\* A connector with one caller at a time reports the outcome of each call faithfully: this is
\* what the indexer's model assumes of the answers it gets.
THEOREM AloneIsFaithful ==
  ASSUME NEW c \in Caller, Caller = {c}
  PROVE  Spec => []OwnOutcome
<1>1. AloneInv => OwnOutcome
  BY DEF AloneInv
<1> QED BY <1>1, AloneInvariant, PTL
------------------------------------------------------------------------------
(* For one caller the connector implements ConnectorCall. *)

\* Whatever code a sub site answers with and whatever the strategies make of it, the indexer is
\* told one of the answers it counts on.
LEMMA AnswerExpected ==
  ASSUME NEW c \in Caller, NEW last, answer[c] \in Answer
  PROVE  Outcome(answer[c].code, Due(c)) \in Connector!Answers(last)
<1>1. answer[c].code \in Code /\ answer[c].code # None
  BY CodesAssumption, NoneAssumption DEF Answer
<1>2. CASE answer[c].code = "OK"
  BY <1>1, <1>2 DEF Outcome, Seen, Connector!Answers, Connector!Answered
<1>3. CASE answer[c].code = "Unauthorized"
  <2>1. Due(c) = None
    BY <1>3 DEF Due, Verdict, HandlerOf
  <2> QED
    BY <1>1, <1>3, <2>1 DEF Outcome, Seen, Connector!Answers, Connector!Answered
<1>4. CASE answer[c].code \notin {"OK", "Unauthorized"}
  BY <1>1, <1>4 DEF Outcome, Seen, Connector!Answers, Connector!Answered
<1> QED
  BY <1>2, <1>3, <1>4

\* Before an answer the caller has nothing.
LEMMA NothingYet == Outcome(None, None) = Connector!Nothing
<1>1. Seen(None) = "none"
  BY NoneAssumption DEF Seen, Code
<1> QED BY <1>1 DEF Outcome, Connector!Nothing

\* Each step of the only caller is one of the abstract call, or leaves what the caller can tell
\* unchanged.
LEMMA CallStep ==
  ASSUME NEW c \in Caller, Caller = {c}, AloneInv, AloneInv', Next
  PROVE  \/ Connector!Next
         \/ UNCHANGED <<Phase(c), Seen(lastCode), Settled(c), Told(c)>>
<1>w. Worker = c
  BY DEF Worker
<1>t. TypeInv /\ OwnOutcome /\ AloneAt(c) /\ AloneAt(c)'
  BY DEF AloneInv
<1> USE DEF Goto, shared, content, local, Phase, Told, Settled, Due
<1>1. CASE EnsureClientAuthorizationHeader(c)
  <2>1. Connector!Call
    BY <1>1, <1>w, <1>t DEF EnsureClientAuthorizationHeader, Connector!Call, TypeInv, TypeOK
  <2> QED
    BY <2>1 DEF Connector!Next
<1>2. CASE Exchange(c) \/ ReadContent(c)
  BY <1>2, <1>t DEF Exchange, ReadContent, TypeInv, TypeOK
<1>3. CASE NoAnswer(c) /\ kind[c] # "Post"
  <2>1. Connector!Answer
    BY <1>3, <1>w, <1>t DEF NoAnswer, Connector!Answer, Connector!Answers, Connector!Unanswered,
       TypeInv, TypeOK, Outcome, AloneAt
  <2> QED
    BY <2>1 DEF Connector!Next
<1>4. CASE NoAnswer(c) /\ kind[c] = "Post"
  <2>1. Connector!Throw
    BY <1>4, <1>w, <1>t DEF NoAnswer, Connector!Throw, Connector!Unanswered,
       TypeInv, TypeOK, Outcome, AloneAt, Result
  <2> QED
    BY <2>1 DEF Connector!Next
<1>5. CASE Examine(c)
  <2>1. answer[c] \in Answer /\ lastCode' = answer[c].code /\ answer' = answer /\ kind' = kind
    BY <1>5, <1>t DEF Examine, TypeInv, TypeOK, Reply
  <2>2. Outcome(answer[c].code, Due(c)) \in Connector!Answers(Seen(lastCode))
    BY <2>1, AnswerExpected
  <2>3. Connector!Answer
    BY <1>5, <1>w, <1>t, <2>1, <2>2 DEF Examine, Connector!Answer, TypeInv, TypeOK, Outcome
  <2> QED
    BY <2>3 DEF Connector!Next
<1>6. CASE SelectHandler(c) \/ Handle(c) \/ ClearToken(c) \/ Decide(c) \/ ReadLastCode(c)
  BY <1>6, <1>t DEF SelectHandler, Handle, ClearToken, Decide, ReadLastCode, TypeInv, TypeOK
<1>7. CASE Continue(c) \/ ReturnNull(c)
  BY <1>7, <1>t DEF Continue, ReturnNull, TypeInv, TypeOK
<1>8. CASE HandleException(c) /\ kind[c] # "Post"
  BY <1>8, <1>t DEF HandleException, TypeInv, TypeOK
<1>9. CASE HandleException(c) /\ kind[c] = "Post"
  <2>1. Connector!Return
    BY <1>9, <1>w, <1>t DEF HandleException, Connector!Return, TypeInv, TypeOK, Result, Outcome
  <2> QED
    BY <2>1 DEF Connector!Next
<1>10. CASE ReadLastException(c)
  <2>1. Connector!Return
    BY <1>10, <1>w, <1>t DEF ReadLastException, Connector!Return, TypeInv, TypeOK, AloneAt
  <2> QED
    BY <2>1 DEF Connector!Next
<1>11. CASE Finish(c)
  <2>1. Connector!Finish
    BY <1>11, <1>w, <1>t, NothingYet DEF Finish, Connector!Finish, TypeInv, TypeOK
  <2> QED
    BY <2>1 DEF Connector!Next
<1> QED
  BY <1>1, <1>2, <1>3, <1>4, <1>5, <1>6, <1>7, <1>8, <1>9, <1>10, <1>11 DEF Next

\* With one caller at a time, as in the indexer, the connector gives the answers that
\* IndexPublication's downloads are made of, and no others.
THEOREM ConnectorImplementsCall ==
  ASSUME NEW c \in Caller, Caller = {c}
  PROVE  Spec => CallSpec
<1>1. Worker = c
  BY DEF Worker
<1>2. Init => Connector!Init
  <2>1. Seen(None) = "none"
    BY NoneAssumption DEF Seen, Code
  <2> QED
    BY <1>1, <2>1, NothingYet DEF Init, Connector!Init, Phase, Settled, Told
<1>3. AloneInv /\ AloneInv' /\ [Next]_vars => [Connector!Next]_Connector!vars
  <2> SUFFICES ASSUME AloneInv, AloneInv', [Next]_vars PROVE [Connector!Next]_Connector!vars
    OBVIOUS
  <2>1. CASE Next
    BY <1>1, <2>1, CallStep DEF Connector!vars
  <2>2. CASE UNCHANGED vars
    BY <2>2 DEF vars, shared, content, local, Connector!vars, Phase, Seen, Settled, Told, Outcome, Due
  <2> QED
    BY <2>1, <2>2
<1> QED BY <1>2, <1>3, AloneInvariant, PTL DEF Spec, CallSpec, Connector!Spec
=============================================================================
