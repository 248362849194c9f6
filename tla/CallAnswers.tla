----------------------------- MODULE CallAnswers -----------------------------
(***************************************************************************)
(* What the indexer is told of a call to a sub site: SiteConnector's       *)
(* LastCode, as far as the indexer tells codes apart, and whether the body *)
(* was data of the type asked for.  IndexPublication takes its answers     *)
(* from here, and SiteConnector is shown to give no others (ConnectorCall).*)
(***************************************************************************)

\* "none" before the first answer.
Code == {"none", "OK", "Unauthorized", "other"}

\* A call that is answered records the code; a refusal has no body to go on with.
Answered ==
  [code : {"OK", "other"}, body : {"data", "none"}] \cup [code : {"Unauthorized"}, body : {"none"}]

\* A call that gets no answer leaves the code of the call before it.
Unanswered(last) == [code |-> last, body |-> "none"]

Answers(last) == Answered \cup {Unanswered(last)}
=============================================================================
