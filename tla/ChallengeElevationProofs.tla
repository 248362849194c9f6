----------------------- MODULE ChallengeElevationProofs -----------------------
(***************************************************************************)
(* Theorems about ChallengeElevation, for every set of tabs and accounts   *)
(* and every timeout.                                                      *)
(***************************************************************************)
EXTENDS ChallengeElevation, TLAPS

LEMMA InitTypes == Init => TypeOK
BY TimeoutAssumption DEF Init, TypeOK, Place, Key, Content

\* What is read, and looked at, has the types of answers.
LEMMA CallTypes ==
  ASSUME TypeOK, NEW t \in Tab, CallSites(t)
  PROVE  content' \in Content /\ answer' \in [Tab -> {"none", "right", "wrong", "mixed"}]
BY DEF TypeOK, CallSites, NotLooking, Overtaken

\* Every step of every tab keeps the types: no end is further than Timeout ahead of the clock.
LEMMA NextTypes == TypeOK /\ [Next]_vars => TypeOK'
<1> SUFFICES ASSUME TypeOK, [Next]_vars PROVE TypeOK'
    OBVIOUS
<1>1. CASE Tick
  <2>1. now \in Nat /\ now' = now + 1 /\ now' \in Nat \ {0}
    BY <1>1 DEF Tick, TypeOK
  <2>2. 0 .. now + Timeout \subseteq 0 .. now' + Timeout
    BY <2>1, TimeoutAssumption
  <2> USE DEF TypeOK, tabs, read
  <2>3. /\ jar' \in [Id -> 0 .. now' + Timeout]
        /\ cookie' \in [Tab -> 0 .. now' + Timeout]
        /\ until' \in [Id -> 0 .. now' + Timeout]
    BY <1>1, <2>2 DEF Tick
  <2> QED BY <1>1, <2>1, <2>3 DEF Tick
<1> USE TimeoutAssumption, NoneAssumption
    DEF TypeOK, Place, Key, Goto, Forget, KeepCookies, GivePermissions, CreatePayload, tabs, read,
        Content, Overtaken, NotLooking
<1>2. CASE CloseBrowser BY <1>2 DEF CloseBrowser
<1>3. ASSUME NEW t \in Tab, Ask(t) PROVE TypeOK'
  BY <1>3 DEF Ask
<1>4. ASSUME NEW t \in Tab, Index(t) PROVE TypeOK'
  BY <1>4, CallTypes DEF Index, CallSites
<1>5. ASSUME NEW t \in Tab, GetChallengeForm(t) PROVE TypeOK'
  BY <1>5, CallTypes DEF GetChallengeForm
<1>6. ASSUME NEW t \in Tab, ChallengeFormMissing(t) PROVE TypeOK'
  BY <1>6, CallTypes DEF ChallengeFormMissing
<1>7. ASSUME NEW t \in Tab, AnswerChallenge(t) PROVE TypeOK'
  BY <1>7 DEF AnswerChallenge
<1>8. CASE AnswerOther BY <1>8 DEF AnswerOther
<1>9. ASSUME NEW t \in Tab, SubmitChallenge(t) PROVE TypeOK'
  BY <1>9 DEF SubmitChallenge
<1>10. ASSUME NEW t \in Tab, SubmitChallengeFails(t) PROVE TypeOK'
  BY <1>10, CallTypes DEF SubmitChallengeFails, CallSites
<1>11. ASSUME NEW t \in Tab, Receive(t) PROVE TypeOK'
  BY <1>11 DEF Receive, Answered
<1>12. ASSUME NEW t \in Tab, LoseAnswer(t) PROVE TypeOK'
  BY <1>12 DEF LoseAnswer, Answered
<1>13. CASE UNCHANGED vars BY <1>13 DEF vars
<1> QED
  BY <1>1, <1>2, <1>3, <1>4, <1>5, <1>6, <1>7, <1>8, <1>9, <1>10, <1>11,
     <1>12, <1>13
  DEF Next

\* An answer is looked at as long as a submission waits for it, and it is what LastContent says
\* unless another one has overtaken it.
AnswersRead ==
  \A t \in Tab :
    /\ at[t] = "read" <=> answer[t] # "none"
    /\ answer[t] = "right" => content = "valid"
    /\ answer[t] = "wrong" => content = "other"

\* The invariant: cookies never outlast the last grant, and answers are read as they came.
ElevationInv == TypeOK /\ CookiesWithinGrant /\ AnswersRead

\* Whatever is read, or not, while other tabs look at their answers.
LEMMA AnswersStay ==
  ASSUME TypeOK, AnswersRead, NEW t \in Tab,
         CallSites(t), at'[t] # "read", \A u \in Tab \ {t} : at'[u] = at[u]
  PROVE  AnswersRead'
BY DEF TypeOK, AnswersRead, CallSites, NotLooking, Overtaken

LEMMA NextAnswersRead == TypeOK /\ AnswersRead /\ [Next]_vars => AnswersRead'
<1> SUFFICES ASSUME TypeOK, AnswersRead, [Next]_vars PROVE AnswersRead'
    OBVIOUS
<1>1. CASE Tick BY <1>1 DEF Tick, tabs, read, AnswersRead
<1>2. CASE CloseBrowser BY <1>2 DEF CloseBrowser, AnswersRead
<1>3. CASE AnswerOther
  BY <1>3 DEF AnswerOther, tabs, Overtaken, AnswersRead, TypeOK
<1>4. ASSUME NEW t \in Tab, AnswerChallenge(t) PROVE AnswersRead'
  BY <1>4 DEF AnswerChallenge, Content, Goto, Overtaken, AnswersRead, TypeOK
<1>5. ASSUME NEW t \in Tab, Ask(t) \/ Receive(t) \/ LoseAnswer(t) PROVE AnswersRead'
  BY <1>5 DEF Ask, Receive, LoseAnswer, Answered, Goto, Forget, read, AnswersRead, TypeOK
<1>6. ASSUME NEW t \in Tab, \/ Index(t) \/ GetChallengeForm(t) \/ ChallengeFormMissing(t)
                            \/ SubmitChallenge(t) \/ SubmitChallengeFails(t)
      PROVE  AnswersRead'
  <2>1. CallSites(t)
    BY <1>6 DEF Index, GetChallengeForm, ChallengeFormMissing, SubmitChallenge,
                SubmitChallengeFails, CallSites
  <2>2. at'[t] # "read" /\ \A u \in Tab \ {t} : at'[u] = at[u]
    BY <1>6 DEF Index, GetChallengeForm, ChallengeFormMissing, SubmitChallenge,
                SubmitChallengeFails, Goto, Forget, TypeOK
  <2> QED BY <2>1, <2>2, AnswersStay
<1>7. CASE UNCHANGED vars BY <1>7 DEF vars, tabs, read, AnswersRead
<1> QED BY <1>1, <1>2, <1>3, <1>4, <1>5, <1>6, <1>7 DEF Next

\* A grant ends no sooner than the one before it.
LEMMA GrantExtends ==
  ASSUME TypeOK, NEW i \in Id
  PROVE  until[i] \in Nat /\ until[i] <= now + Timeout
BY TimeoutAssumption DEF TypeOK

LEMMA NextElevationInv == ElevationInv /\ [Next]_vars => ElevationInv'
<1> SUFFICES ASSUME ElevationInv, [Next]_vars PROVE CookiesWithinGrant'
    BY NextTypes, NextAnswersRead DEF ElevationInv
<1>g. \A i \in Id : until[i] \in Nat /\ until[i] <= now + Timeout /\ jar[i] \in Nat
  BY GrantExtends, TimeoutAssumption DEF ElevationInv, TypeOK
<1>c. \A t \in Tab : cookie[t] \in Nat
  BY TimeoutAssumption DEF ElevationInv, TypeOK
<1> USE TimeoutAssumption, NoneAssumption, <1>g, <1>c
    DEF ElevationInv, CookiesWithinGrant, TypeOK, Goto, Forget, KeepCookies, GivePermissions,
        CreatePayload, tabs
<1>1. CASE Tick BY <1>1 DEF Tick
<1>2. CASE CloseBrowser BY <1>2 DEF CloseBrowser
<1>3. ASSUME NEW t \in Tab, Ask(t) PROVE CookiesWithinGrant'
  BY <1>3 DEF Ask
<1>4. ASSUME NEW t \in Tab, Index(t) PROVE CookiesWithinGrant'
  BY <1>4 DEF Index
<1>5. ASSUME NEW t \in Tab, GetChallengeForm(t) PROVE CookiesWithinGrant'
  BY <1>5 DEF GetChallengeForm
<1>6. ASSUME NEW t \in Tab, ChallengeFormMissing(t) PROVE CookiesWithinGrant'
  BY <1>6 DEF ChallengeFormMissing
<1>7. ASSUME NEW t \in Tab, AnswerChallenge(t) PROVE CookiesWithinGrant'
  BY <1>7 DEF AnswerChallenge
<1>8. CASE AnswerOther BY <1>8 DEF AnswerOther
<1>9. ASSUME NEW t \in Tab, SubmitChallenge(t) PROVE CookiesWithinGrant'
  BY <1>9 DEF SubmitChallenge
<1>10. ASSUME NEW t \in Tab, SubmitChallengeFails(t) PROVE CookiesWithinGrant'
  BY <1>10 DEF SubmitChallengeFails
<1>11. ASSUME NEW t \in Tab, Receive(t) PROVE CookiesWithinGrant'
  BY <1>11 DEF Receive, Answered
<1>12. ASSUME NEW t \in Tab, LoseAnswer(t) PROVE CookiesWithinGrant'
  BY <1>12 DEF LoseAnswer, Answered
<1>13. CASE UNCHANGED vars BY <1>13 DEF vars
<1> QED
  BY <1>1, <1>2, <1>3, <1>4, <1>5, <1>6, <1>7, <1>8, <1>9, <1>10, <1>11,
     <1>12, <1>13
  DEF Next

LEMMA Invariant == Spec => []ElevationInv
<1>1. Init => ElevationInv
  BY InitTypes DEF Init, ElevationInv, CookiesWithinGrant, AnswersRead
<1> QED BY <1>1, NextElevationInv, PTL DEF Spec

\* A page is served in the step in which Index finds permissions, and at no other.
LEMMA ServingChecks ==
  ASSUME ElevationInv, Next, NEW t \in Tab,
         at[t] = "index", at'[t] = "page", Challenged(key[t]), ~t2
  PROVE  now < until[id[t]]
<1>1. Index(t) => now < until[id[t]]
  <2> SUFFICES ASSUME Index(t) PROVE now < until[id[t]]
      OBVIOUS
  <2>1. HasPermissions(t)
    BY DEF Index, Goto, ElevationInv, TypeOK
  <2>2. cookie[t] > now /\ cookie[t] <= until[id[t]]
    BY <2>1 DEF HasPermissions, ElevationInv, CookiesWithinGrant
  <2>3. id[t] \in Id /\ now \in Nat /\ cookie[t] \in Int
    BY TimeoutAssumption DEF ElevationInv, TypeOK
  <2>4. until[id[t]] \in Nat
    BY <2>3, GrantExtends DEF ElevationInv
  <2> QED BY <2>2, <2>3, <2>4
<1>2. CASE Tick BY <1>2 DEF Tick, tabs
<1>3. CASE CloseBrowser BY <1>3 DEF CloseBrowser
<1>6. CASE AnswerOther BY <1>6 DEF AnswerOther, tabs
<1>4. ASSUME NEW u \in Tab, Index(u) PROVE u = t
  BY <1>4 DEF Index, Goto, ElevationInv, TypeOK
<1>5. ASSUME NEW u \in Tab,
             \/ Ask(u) \/ GetChallengeForm(u) \/ ChallengeFormMissing(u)
             \/ AnswerChallenge(u) \/ SubmitChallenge(u) \/ SubmitChallengeFails(u) \/ Receive(u) \/ LoseAnswer(u)
      PROVE  FALSE
  BY <1>5 DEF Ask, GetChallengeForm, ChallengeFormMissing, AnswerChallenge, SubmitChallenge,
              SubmitChallengeFails, Receive, LoseAnswer, Answered, Goto, Forget, tabs,
              ElevationInv, TypeOK
<1> QED BY <1>1, <1>2, <1>3, <1>4, <1>5, <1>6 DEF Next

(* The browser's cookie is current *)

\* An answer with a cookie for account i is under way to tab t.
UnderWay(t, i) == at[t] \in Answered /\ cookie[t] # 0 /\ id[t] = i

\* The invariant: an account that is not behind has at most one answer under way, which carries
\* what was granted last; with none under way the browser has that.
JarInv ==
  \A i \in Id \ behind :
    /\ \A t \in Tab : UnderWay(t, i) => cookie[t] = until[i]
    /\ \A t, u \in Tab : UnderWay(t, i) /\ UnderWay(u, i) => t = u
    /\ (\A t \in Tab : ~UnderWay(t, i)) => jar[i] = until[i]

\* A grant with no other answer under way is the one answer there is.
LEMMA GrantKeepsJar ==
  ASSUME TypeOK, JarInv, NEW t \in Tab, at[t] \notin Answered, at[t] # "idle",
         GivePermissions(t), jar' = jar, id' = id, NEW p \in Answered, Goto(t, p)
  PROVE  JarInv'
<1>1. /\ id[t] \in Id
      /\ cookie' = [cookie EXCEPT ![t] = now + Timeout]
      /\ until' = [until EXCEPT ![id[t]] = now + Timeout]
      /\ at' = [at EXCEPT ![t] = p]
      /\ now + Timeout # 0
  BY TimeoutAssumption DEF TypeOK, GivePermissions, CreatePayload, Goto
<1>2. \A u \in Tab \ {t} : \A i \in Id : UnderWay(u, i)' <=> UnderWay(u, i)
  BY <1>1 DEF UnderWay, TypeOK
<1>3. \A i \in Id : UnderWay(t, i)' <=> i = id[t]
  BY <1>1 DEF UnderWay, TypeOK
<1>4. \A i \in Id : ~UnderWay(t, i)
  BY DEF UnderWay
<1> SUFFICES ASSUME NEW i \in Id, i \notin behind'
             PROVE  /\ \A u \in Tab : UnderWay(u, i)' => cookie'[u] = until'[i]
                    /\ \A u, w \in Tab : UnderWay(u, i)' /\ UnderWay(w, i)' => u = w
                    /\ (\A u \in Tab : ~UnderWay(u, i)') => jar'[i] = until'[i]
    BY DEF JarInv
<1>5. i \notin behind
  BY DEF GivePermissions
<1>6. CASE i = id[t]
  <2>1. \A u \in Tab \ {t} : ~UnderWay(u, i)
    BY <1>6 DEF GivePermissions, Overlap, UnderWay
  <2> QED BY <2>1, <1>1, <1>2, <1>3, <1>6 DEF TypeOK
<1>7. CASE i # id[t]
  <2>1. \A u \in Tab : UnderWay(u, i)' <=> UnderWay(u, i)
    BY <1>2, <1>3, <1>4, <1>7
  <2>2. until'[i] = until[i] /\ \A u \in Tab \ {t} : cookie'[u] = cookie[u]
    BY <1>1, <1>7 DEF TypeOK
  <2> QED BY <2>1, <2>2, <1>3, <1>5, <1>7 DEF JarInv
<1> QED BY <1>6, <1>7

\* A step that leaves jar and the grants alone, gets no account out of being behind and changes
\* nothing that is under way for the others.
LEMMA QuietKeepsJar ==
  ASSUME JarInv, jar' = jar, until' = until, behind \subseteq behind',
         \A i \in Id \ behind' : \A u \in Tab :
            (UnderWay(u, i)' <=> UnderWay(u, i)) /\ (UnderWay(u, i) => cookie'[u] = cookie[u])
  PROVE  JarInv'
BY DEF JarInv

\* A tab that is not waiting for an answer before and after the step has none under way.
LEMMA ElsewhereKeepsJar ==
  ASSUME TypeOK, JarInv, jar' = jar, until' = until, behind' = behind, NEW t \in Tab,
         at[t] \notin Answered, at'[t] \notin Answered \/ cookie'[t] = 0,
         \A u \in Tab \ {t} : at'[u] = at[u] /\ cookie'[u] = cookie[u] /\ id'[u] = id[u]
  PROVE  JarInv'
<1>1. \A i \in Id : ~UnderWay(t, i) /\ ~UnderWay(t, i)'
  BY DEF UnderWay
<1>2. \A u \in Tab \ {t} : \A i \in Id : UnderWay(u, i)' <=> UnderWay(u, i)
  BY DEF UnderWay
<1> QED BY <1>1, <1>2, QuietKeepsJar

\* The answer that arrives is the last one granted, or its account is behind.
LEMMA ReceiveKeepsJar ==
  ASSUME TypeOK, JarInv, NEW t \in Tab, Receive(t)
  PROVE  JarInv'
<1>1. id[t] \in Id /\ at[t] \in Answered /\ until' = until
  BY DEF Receive, TypeOK, Answered
<1>2. \A i \in Id : ~UnderWay(t, i)'
  BY DEF Receive, UnderWay, Goto, Forget, Answered, TypeOK
<1>3. \A u \in Tab \ {t} : at'[u] = at[u] /\ cookie'[u] = cookie[u] /\ id'[u] = id[u]
  BY DEF Receive, Goto, Forget, TypeOK
<1>4. \A u \in Tab \ {t} : \A i \in Id : UnderWay(u, i)' <=> UnderWay(u, i)
  BY <1>3 DEF UnderWay
<1>5. CASE cookie[t] = 0
  <2>1. jar' = jar /\ behind' = behind
    BY <1>5 DEF Receive
  <2>2. \A i \in Id : ~UnderWay(t, i)
    BY <1>5 DEF UnderWay
  <2> QED BY <1>1, <1>2, <1>3, <1>4, <2>1, <2>2, QuietKeepsJar
<1>6. CASE cookie[t] # 0
  <2>1. jar' = [jar EXCEPT ![id[t]] = cookie[t]]
    BY <1>6 DEF Receive
  <2>2. \A i \in Id : UnderWay(t, i) <=> i = id[t]
    BY <1>1, <1>6 DEF UnderWay
  <2> SUFFICES ASSUME NEW i \in Id, i \notin behind'
               PROVE  /\ \A u \in Tab : UnderWay(u, i)' => cookie'[u] = until'[i]
                      /\ \A u, w \in Tab : UnderWay(u, i)' /\ UnderWay(w, i)' => u = w
                      /\ (\A u \in Tab : ~UnderWay(u, i)') => jar'[i] = until'[i]
      BY DEF JarInv
  <2>3. CASE i # id[t]
    <3>1. i \notin behind /\ jar'[i] = jar[i]
      BY <2>1, <2>3 DEF Receive, TypeOK
    <3> QED BY <1>1, <1>2, <1>3, <1>4, <2>2, <2>3, <3>1 DEF JarInv
  <2>4. CASE i = id[t]
    <3>1. cookie[t] = until[i] /\ \A u \in Tab \ {t} : ~UnderWay(u, i)
      <4>1. CASE i \in behind
        BY <1>6, <2>4, <4>1 DEF Receive, Overlap, UnderWay
      <4>2. CASE i \notin behind
        BY <2>2, <2>4, <4>2 DEF JarInv
      <4> QED BY <4>1, <4>2
    <3>2. jar'[i] = until'[i]
      BY <1>1, <2>1, <2>4, <3>1 DEF TypeOK
    <3> QED BY <1>2, <1>4, <3>1, <3>2
  <2> QED BY <2>3, <2>4
<1> QED BY <1>5, <1>6

LEMMA NextJarInv == TypeOK /\ JarInv /\ [Next]_vars => JarInv'
<1> SUFFICES ASSUME TypeOK, JarInv, [Next]_vars PROVE JarInv'
    OBVIOUS
<1>1. CASE Tick
  BY <1>1, QuietKeepsJar DEF Tick, tabs, UnderWay
<1>2. CASE CloseBrowser
  BY <1>2 DEF CloseBrowser, JarInv, UnderWay, Answered
<1>3. ASSUME NEW t \in Tab, Ask(t) PROVE JarInv'
  BY <1>3, ElsewhereKeepsJar DEF Ask, Goto, Answered, TypeOK
<1>4. ASSUME NEW t \in Tab, Index(t) PROVE JarInv'
  <2>1. CASE GivePermissions(t) /\ Goto(t, "page")
    BY <1>4, <2>1, GrantKeepsJar DEF Index, Answered
  <2>2. CASE KeepCookies(t)
    BY <1>4, <2>2, ElsewhereKeepsJar DEF Index, KeepCookies, Goto, Answered, TypeOK
  <2> QED BY <1>4, <2>1, <2>2 DEF Index
<1>5. ASSUME NEW t \in Tab, GetChallengeForm(t) PROVE JarInv'
  BY <1>5, ElsewhereKeepsJar DEF GetChallengeForm, Goto, Answered, TypeOK
<1>6. ASSUME NEW t \in Tab, ChallengeFormMissing(t) PROVE JarInv'
  BY <1>6, ElsewhereKeepsJar DEF ChallengeFormMissing, Forget, Goto, Answered, TypeOK
<1>7. ASSUME NEW t \in Tab, SubmitChallenge(t) PROVE JarInv'
  BY <1>7, GrantKeepsJar DEF SubmitChallenge, Answered
<1>8. ASSUME NEW t \in Tab, AnswerChallenge(t) PROVE JarInv'
  BY <1>8, ElsewhereKeepsJar DEF AnswerChallenge, Goto, Answered, TypeOK
<1>9. CASE AnswerOther
  BY <1>9, QuietKeepsJar DEF AnswerOther, tabs, UnderWay
<1>10. ASSUME NEW t \in Tab, SubmitChallengeFails(t) PROVE JarInv'
  BY <1>10, ElsewhereKeepsJar DEF SubmitChallengeFails, Forget, Goto, Answered, tabs, TypeOK
<1>11. ASSUME NEW t \in Tab, Receive(t) PROVE JarInv'
  BY <1>11, ReceiveKeepsJar
<1>12. ASSUME NEW t \in Tab, LoseAnswer(t) PROVE JarInv'
  <2>1. \A u \in Tab \ {t} : at'[u] = at[u] /\ cookie'[u] = cookie[u] /\ id'[u] = id[u]
    BY <1>12 DEF LoseAnswer, Forget, Goto, TypeOK
  <2>2. \A i \in Id \ behind' : ~UnderWay(t, i) /\ ~UnderWay(t, i)'
    BY <1>12 DEF LoseAnswer, Forget, Goto, UnderWay, Answered, TypeOK
  <2>3. \A u \in Tab \ {t} : \A i \in Id : UnderWay(u, i)' <=> UnderWay(u, i)
    BY <2>1 DEF UnderWay
  <2>4. jar' = jar /\ until' = until /\ behind \subseteq behind'
    BY <1>12 DEF LoseAnswer
  <2> QED BY <2>1, <2>2, <2>3, <2>4, QuietKeepsJar
<1>13. CASE UNCHANGED vars
  BY <1>13, QuietKeepsJar DEF vars, tabs, UnderWay
<1> QED
  BY <1>1, <1>2, <1>3, <1>4, <1>5, <1>6, <1>7, <1>8, <1>9, <1>10, <1>11,
     <1>12, <1>13
  DEF Next
(* The promise *)

\* What the promise sees of the tabs changes only where at, key or id do.
LEMMA OtherTabs ==
  ASSUME TypeOK, NEW t \in Tab,
         \A u \in Tab \ {t} : at'[u] = at[u] /\ key'[u] = key[u] /\ id'[u] = id[u]
  PROVE  \A u \in Tab \ {t} : FormShown'[u] = FormShown[u] /\ PageServed'[u] = PageServed[u]
BY DEF FormShown, PageServed

LEMMA Shown ==
  /\ FormShown = [t \in Tab |-> FormShown[t]] /\ PageServed = [t \in Tab |-> PageServed[t]]
  /\ FormShown' = [t \in Tab |-> FormShown'[t]] /\ PageServed' = [t \in Tab |-> PageServed'[t]]
BY DEF FormShown, PageServed

\* The sub sites are called for a tab that looks at no answer, which the promise sees as well.
LEMMA CallsSeen ==
  ASSUME NEW t \in Tab, CallSites(t)
  PROVE  Promise!NoAnswer(t)
BY DEF CallSites, NotLooking, Overtaken, Promise!NoAnswer, Promise!Overtaken

\* A tab that looks at no answer leaves the others to theirs.
LEMMA NothingSeen ==
  ASSUME ElevationInv, NEW t \in Tab, at[t] # "read", UNCHANGED read
  PROVE  Promise!NoAnswer(t)
BY DEF read, ElevationInv, AnswersRead, TypeOK, Promise!NoAnswer

\* A tab that ends up with neither a form nor a protected page has left them; one that had
\* neither has taken no step of the promise.
LEMMA Leaves ==
  ASSUME TypeOK, NEW t \in Tab, UNCHANGED <<now, t2, until>>, Promise!NoAnswer(t),
         at'[t] \notin {"form", "read", "page"} \/ (at'[t] = "page" /\ ~Challenged(key'[t])),
         \A u \in Tab \ {t} : at'[u] = at[u] /\ key'[u] = key[u] /\ id'[u] = id[u]
  PROVE  Promise!Leave(t)
<1>1. FormShown'[t] = None /\ PageServed'[t] = None
  BY DEF FormShown, PageServed
<1>2. FormShown' = [FormShown EXCEPT ![t] = None] /\ PageServed' = [PageServed EXCEPT ![t] = None]
  BY <1>1, OtherTabs, Shown
<1> QED BY <1>2 DEF Promise!Leave

\* A form that is shown, submitted or shown again is the same to the promise.
LEMMA FormStays ==
  ASSUME TypeOK, NEW t \in Tab, at[t] \in {"form", "read"}, at'[t] \in {"form", "read"},
         UNCHANGED <<key, id>>, \A u \in Tab \ {t} : at'[u] = at[u]
  PROVE  FormShown' = FormShown /\ PageServed' = PageServed
BY DEF FormShown, PageServed

\* Every step is a step of the promise, or one that it does not see.
LEMMA PromiseStep == ElevationInv /\ [Next]_vars => [Promise!Next]_Promise!vars
<1> SUFFICES ASSUME ElevationInv, [Next]_vars PROVE Promise!Next \/ UNCHANGED Promise!vars
    OBVIOUS
<1>t. TypeOK
  BY DEF ElevationInv
<1>1. CASE Tick
  <2>1. UNCHANGED <<FormShown, PageServed>>
    BY <1>1 DEF Tick, tabs, FormShown, PageServed
  <2> QED BY <1>1, <2>1 DEF Tick, read, Promise!Tick, Promise!Next
<1>2. CASE CloseBrowser
  <2>1. FormShown' = [t \in Tab |-> None] /\ PageServed' = [t \in Tab |-> None]
    BY <1>2 DEF CloseBrowser, FormShown, PageServed
  <2> QED BY <1>2, <2>1 DEF CloseBrowser, Promise!NewSession, Promise!Next
<1>3. ASSUME NEW t \in Tab, Ask(t) PROVE Promise!Leave(t)
  <2>1. Promise!NoAnswer(t)
    BY <1>3, NothingSeen DEF Ask
  <2> QED BY <1>t, <1>3, <2>1, Leaves DEF Ask, Goto, TypeOK
<1>4. ASSUME NEW t \in Tab, Index(t)
      PROVE  Promise!Visit(t) \/ Promise!VisitOfT2(t) \/ Promise!Leave(t)
  <2>1. /\ id[t] \in Id /\ FormShown[t] = None /\ PageServed[t] = None
        /\ \A u \in Tab \ {t} : at'[u] = at[u] /\ key'[u] = key[u] /\ id'[u] = id[u]
        /\ UNCHANGED <<now, t2>>
    BY <1>t, <1>4 DEF Index, Goto, TypeOK, FormShown, PageServed
  <2>n. Promise!NoAnswer(t)
    BY <1>4, CallsSeen DEF Index, CallSites
  <2>2. CASE at'[t] = "page" /\ Challenged(key[t])
    <3>1. /\ HasPermissions(t)
          /\ IF ~t2 THEN GivePermissions(t) ELSE KeepCookies(t)
      BY <1>t, <1>4, <2>2 DEF Index, Goto, TypeOK
    <3>2. FormShown'[t] = None /\ PageServed'[t] = id[t]
      BY <1>4, <2>2 DEF Index, FormShown, PageServed
    <3>3. FormShown' = FormShown /\ PageServed' = [PageServed EXCEPT ![t] = id[t]]
      BY <1>t, <2>1, <3>2, OtherTabs, Shown
    <3>4. CASE t2
      BY <2>1, <2>n, <3>1, <3>3, <3>4 DEF KeepCookies, Promise!VisitOfT2
    <3>5. CASE ~t2
      <4>1. now < until[id[t]]
        <5>1. cookie[t] > now /\ cookie[t] <= until[id[t]]
          BY <1>4, <3>1, <3>5 DEF HasPermissions, ElevationInv, CookiesWithinGrant, Index
        <5>2. now \in Nat /\ cookie[t] \in Int /\ until[id[t]] \in Nat
          BY <1>t, <2>1, GrantExtends, TimeoutAssumption DEF TypeOK
        <5> QED BY <5>1, <5>2
      <4>2. Promise!Grant(id[t])
        BY <3>1, <3>5 DEF GivePermissions, Promise!Grant
      <4> QED BY <2>1, <2>n, <3>3, <3>5, <4>1, <4>2 DEF Promise!Visit
    <3> QED BY <3>4, <3>5
  <2>3. CASE ~(at'[t] = "page" /\ Challenged(key[t]))
    <3>1. KeepCookies(t) /\ at'[t] \in {"page", "challenge"} /\ key' = key
      BY <1>t, <1>4, <2>3 DEF Index, Goto, TypeOK
    <3> QED BY <1>t, <2>1, <2>n, <2>3, <3>1, Leaves DEF KeepCookies
  <2> QED BY <2>2, <2>3
<1>5. ASSUME NEW t \in Tab, GetChallengeForm(t) PROVE Promise!ShowForm(t)
  <2>1. /\ id[t] \in Id /\ FormShown[t] = None /\ PageServed[t] = None
        /\ FormShown'[t] = id[t] /\ PageServed'[t] = None
    BY <1>t, <1>5 DEF GetChallengeForm, Goto, TypeOK, FormShown, PageServed
  <2>2. \A u \in Tab \ {t} : at'[u] = at[u] /\ key'[u] = key[u] /\ id'[u] = id[u]
    BY <1>t, <1>5 DEF GetChallengeForm, Goto, TypeOK
  <2>3. FormShown' = [FormShown EXCEPT ![t] = id[t]] /\ PageServed' = PageServed
    BY <1>t, <2>1, <2>2, OtherTabs, Shown
  <2> QED BY <1>5, <2>1, <2>3, CallsSeen DEF GetChallengeForm, Promise!ShowForm
<1>6. ASSUME NEW t \in Tab, ChallengeFormMissing(t) PROVE Promise!Leave(t)
  BY <1>t, <1>6, Leaves, CallsSeen DEF ChallengeFormMissing, Forget, Goto, TypeOK
<1>7. ASSUME NEW t \in Tab, SubmitChallenge(t) PROVE Promise!Pass(t)
  <2>1. /\ id[t] \in Id /\ FormShown[t] = id[t] /\ PageServed[t] = None
        /\ FormShown'[t] = None /\ PageServed'[t] = None
    BY <1>t, <1>7 DEF SubmitChallenge, Goto, TypeOK, FormShown, PageServed
  <2>2. \A u \in Tab \ {t} : at'[u] = at[u] /\ key'[u] = key[u] /\ id'[u] = id[u]
    BY <1>t, <1>7 DEF SubmitChallenge, Goto, TypeOK
  <2>3. FormShown' = [FormShown EXCEPT ![t] = None] /\ PageServed' = PageServed
    BY <1>t, <2>1, <2>2, OtherTabs, Shown
  <2>4. answer[t] \in {"right", "mixed"}
    BY <1>7 DEF SubmitChallenge, ElevationInv, AnswersRead, TypeOK
  <2> QED BY <1>7, <2>1, <2>3, <2>4, NoneAssumption
          DEF SubmitChallenge, NotLooking, GivePermissions, Promise!Pass, Promise!Grant
<1>8. ASSUME NEW t \in Tab, SubmitChallengeFails(t)
      PROVE  Promise!Fail(t) \/ Promise!Leave(t)
  <2>1. CASE at[t] = "read" /\ CallSites(t) /\ Goto(t, "form") /\ UNCHANGED <<key, id, cookie>>
    <3>1. FormShown' = FormShown /\ PageServed' = PageServed
      BY <1>t, <2>1, FormStays DEF Goto, TypeOK
    <3>2. answer[t] # "none"
      BY <2>1 DEF ElevationInv, AnswersRead
    <3> QED BY <1>8, <2>1, <3>1, <3>2, CallsSeen DEF SubmitChallengeFails, Promise!Fail
  <2>2. CASE Forget(t) /\ NotLooking(t)
    <3>1. Promise!NoAnswer(t)
      BY <2>2, CallsSeen DEF CallSites
    <3> QED BY <1>t, <1>8, <2>2, <3>1, Leaves DEF SubmitChallengeFails, Forget, Goto, TypeOK
  <2> QED BY <1>8, <2>1, <2>2 DEF SubmitChallengeFails
<1>9. ASSUME NEW t \in Tab, AnswerChallenge(t) PROVE Promise!Answer(t)
  <2>1. FormShown' = FormShown /\ PageServed' = PageServed
    BY <1>t, <1>9, FormStays DEF AnswerChallenge, Goto, TypeOK
  <2>2. FormShown[t] # None
    BY <1>t, <1>9, NoneAssumption DEF AnswerChallenge, FormShown, TypeOK
  <2>3. \E a \in {"right", "wrong"} : answer' = [Promise!Overtaken EXCEPT ![t] = a]
    BY <1>9 DEF AnswerChallenge, Overtaken, Promise!Overtaken
  <2> QED BY <1>9, <2>1, <2>2, <2>3 DEF AnswerChallenge, Promise!Answer
<1>10. CASE AnswerOther
  <2>1. UNCHANGED <<FormShown, PageServed>>
    BY <1>10 DEF AnswerOther, tabs, FormShown, PageServed
  <2> QED BY <1>10, <2>1 DEF AnswerOther, Overtaken, Promise!Overtake, Promise!Overtaken, Promise!Next
<1>11. ASSUME NEW t \in Tab, Receive(t) PROVE Promise!Leave(t)
  <2>1. Promise!NoAnswer(t)
    BY <1>11, NothingSeen DEF Receive, Answered
  <2> QED BY <1>t, <1>11, <2>1, Leaves DEF Receive, Forget, Goto, TypeOK
<1>12. ASSUME NEW t \in Tab, LoseAnswer(t) PROVE Promise!Leave(t)
  <2>1. Promise!NoAnswer(t)
    BY <1>12, NothingSeen DEF LoseAnswer, Answered
  <2> QED BY <1>t, <1>12, <2>1, Leaves DEF LoseAnswer, Forget, Goto, TypeOK
<1>13. CASE UNCHANGED vars
  BY <1>13 DEF vars, tabs, read, FormShown, PageServed, Promise!vars
<1> QED
  BY <1>1, <1>2, <1>3, <1>4, <1>5, <1>6, <1>7, <1>8, <1>9, <1>10, <1>11,
     <1>12, <1>13
  DEF Next, Promise!Next
------------------------------------------------------------------------------

\* Type correctness: no end is further ahead of the clock than the timeout.
THEOREM TypeCorrect == Spec => []TypeOK
<1>1. ElevationInv => TypeOK
  BY DEF ElevationInv
<1> QED BY <1>1, Invariant, PTL

\* However answers overlap or get lost, no cookie outlasts what the server granted last.
THEOREM CookiesBounded == Spec => []CookiesWithinGrant
<1>1. ElevationInv => CookiesWithinGrant
  BY DEF ElevationInv
<1> QED BY <1>1, Invariant, PTL

\* Unless answers for an account overlap or get lost, the browser holds the cookie that was
\* granted last: no other order of visits shortens an elevation.
THEOREM JarIsCurrent == Spec => []JarCurrent
<1>1. Init => JarInv
  BY DEF Init, JarInv, UnderWay, Answered
<1>2. JarInv => JarCurrent
  BY DEF JarInv, JarCurrent, UnderWay
<1>3. ElevationInv => TypeOK
  BY DEF ElevationInv
<1> QED BY <1>1, <1>2, <1>3, NextJarInv, Invariant, PTL DEF Spec

\* A protected page is served to a user who is not T2 only while a grant of the session for that
\* very account is in force.
THEOREM ServedOnlyElevated == Spec => ServedElevated
<1>1. ElevationInv /\ [Next]_vars =>
        [\A t \in Tab : at[t] = "index" /\ at'[t] = "page" /\ Challenged(key[t]) /\ ~t2
                          => now < until[id[t]]]_vars
  BY ServingChecks
<1> QED BY <1>1, Invariant, PTL DEF Spec, ServedElevated

\* The portal keeps the promise of Elevation: an account is granted something only from its own
\* form, for a right answer or for one that another call's answer overtook in LastContent, and
\* what was granted and has lapsed stays lapsed until that happens again.
THEOREM CookiesImplementElevation == Spec => ElevationSpec
<1>1. Init => Promise!Init
  BY DEF Init, Promise!Init, FormShown, PageServed
<1> QED BY <1>1, PromiseStep, Invariant, PTL DEF Spec, ElevationSpec, Promise!Spec
=============================================================================
