---------------------------- MODULE ConnectorCall ----------------------------
(***************************************************************************)
(* A call through the connector as its caller sees it: one of Answers, and *)
(* the code in it is the one that the next call may leave in place.  This  *)
(* is what IndexPublication takes a call to be, in a single step; here the *)
(* answer and the return are steps of their own.                           *)
(***************************************************************************)
EXTENDS CallAnswers

VARIABLES
  phase,     \* "idle", "called", "answered" or "returned"
  lastCode,  \* the code of the last call that was answered
  answer,    \* the answer that is going to be returned, Nothing when there is none
  told       \* what the caller is told, Nothing before

vars == <<phase, lastCode, answer, told>>

Nothing == [code |-> "none", body |-> "none"]

Init == phase = "idle" /\ lastCode = "none" /\ answer = Nothing /\ told = Nothing

Call ==
  /\ phase = "idle" /\ phase' = "called"
  /\ UNCHANGED <<lastCode, answer, told>>

\* The outcome is settled.
Answer ==
  /\ phase = "called" /\ phase' = "answered"
  /\ answer' \in Answers(lastCode)
  /\ lastCode' = answer'.code
  /\ UNCHANGED told

\* The caller is told that very outcome.
Return ==
  /\ phase = "answered" /\ phase' = "returned"
  /\ told' = answer
  /\ UNCHANGED <<lastCode, answer>>

\* No answer comes, and the caller learns it from an exception.
Throw ==
  /\ phase = "called" /\ phase' = "returned"
  /\ answer' = Unanswered(lastCode) /\ told' = answer'
  /\ UNCHANGED lastCode

Finish ==
  /\ phase = "returned" /\ phase' = "idle"
  /\ answer' = Nothing /\ told' = Nothing
  /\ UNCHANGED lastCode

Next == Call \/ Answer \/ Return \/ Throw \/ Finish

Spec == Init /\ [][Next]_vars
=============================================================================
