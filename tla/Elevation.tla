------------------------------ MODULE Elevation ------------------------------
(***************************************************************************)
(* What the challenge promises, without cookies, requests and answers: a   *)
(* protected page of an account goes to a user in the T2 role, or while    *)
(* what was granted for that account in this session is in force.  A grant *)
(* is given from the account's own form, for an answer of the sub site     *)
(* that is looked at: for a right one, or for one that another call of the *)
(* portal overtook in the meantime, whatever it was.  It is prolonged by a *)
(* visit while it is in force; once it has lapsed only the challenge       *)
(* brings it back.                                                         *)
(***************************************************************************)
EXTENDS Integers

CONSTANTS Tab, Id, Timeout, None

VARIABLES
  now,      \* the clock, in minutes
  t2,       \* is the user in the T2 role?
  granted,  \* per account: the end of what was granted last
  form,     \* per tab: the account whose challenge it shows
  answer,   \* per tab: the sub site's answer to its submission, while that is looked at
  page      \* per tab: the account of which a protected page is on its way to it

vars == <<now, t2, granted, form, answer, page>>

Grant(i) == granted' = [granted EXCEPT ![i] = now + Timeout]

\* Another answer has come to the portal while these are looked at.
Overtaken == [t \in Tab |-> IF answer[t] = "none" THEN "none" ELSE "mixed"]

\* Tab t has no answer to be looked at (any more); the portal may have had others for it.
NoAnswer(t) ==
  answer' \in {[answer EXCEPT ![t] = "none"], [Overtaken EXCEPT ![t] = "none"]}

Init ==
  /\ now = 1 /\ t2 \in BOOLEAN
  /\ granted = [i \in Id |-> 0]
  /\ form = [t \in Tab |-> None] /\ page = [t \in Tab |-> None]
  /\ answer = [t \in Tab |-> "none"]

Tick == now' = now + 1 /\ UNCHANGED <<t2, granted, form, answer, page>>

ShowForm(t) ==
  /\ form[t] = None /\ page[t] = None
  /\ \E i \in Id : form' = [form EXCEPT ![t] = i]
  /\ NoAnswer(t)
  /\ UNCHANGED <<now, t2, granted, page>>

\* The sub site's answer to the form of tab t has come, and overtakes the others.
Answer(t) ==
  /\ form[t] # None
  /\ \E a \in {"right", "wrong"} : answer' = [Overtaken EXCEPT ![t] = a]
  /\ UNCHANGED <<now, t2, granted, form, page>>

\* Another call of the portal is answered.
Overtake == answer' = Overtaken /\ UNCHANGED <<now, t2, granted, form, page>>

\* The challenge of the form's account counts as passed.
Pass(t) ==
  /\ form[t] # None /\ answer[t] \in {"right", "mixed"}
  /\ Grant(form[t])
  /\ form' = [form EXCEPT ![t] = None]
  /\ answer' = [answer EXCEPT ![t] = "none"]
  /\ UNCHANGED <<now, t2, page>>

\* It does not, and the form is shown again.
Fail(t) ==
  /\ answer[t] # "none" /\ NoAnswer(t)
  /\ UNCHANGED <<now, t2, granted, form, page>>

\* A protected page is served, and the grant prolonged.
Visit(t) ==
  /\ ~t2 /\ form[t] = None /\ page[t] = None
  /\ \E i \in Id :
       /\ now < granted[i]
       /\ Grant(i)
       /\ page' = [page EXCEPT ![t] = i]
  /\ NoAnswer(t)
  /\ UNCHANGED <<now, t2, form>>

\* A protected page is served to a user who needs no grant.
VisitOfT2(t) ==
  /\ t2 /\ form[t] = None /\ page[t] = None
  /\ \E i \in Id : page' = [page EXCEPT ![t] = i]
  /\ NoAnswer(t)
  /\ UNCHANGED <<now, t2, granted, form>>

\* A form is left, or a page has arrived or got lost.
Leave(t) ==
  /\ form' = [form EXCEPT ![t] = None]
  /\ page' = [page EXCEPT ![t] = None]
  /\ NoAnswer(t)
  /\ UNCHANGED <<now, t2, granted>>

\* Another session begins, with nothing granted.
NewSession ==
  /\ granted' = [i \in Id |-> 0]
  /\ form' = [t \in Tab |-> None] /\ page' = [t \in Tab |-> None]
  /\ answer' = [t \in Tab |-> "none"]
  /\ UNCHANGED <<now, t2>>

Next ==
  \/ Tick \/ NewSession \/ Overtake
  \/ \E t \in Tab :
       \/ ShowForm(t) \/ Answer(t) \/ Pass(t) \/ Fail(t)
       \/ Visit(t) \/ VisitOfT2(t) \/ Leave(t)

Spec == Init /\ [][Next]_vars
=============================================================================
