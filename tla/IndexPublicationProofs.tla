------------------------ MODULE IndexPublicationProofs ------------------------
(***************************************************************************)
(* Theorems about IndexPublication, for every number of items, every       *)
(* retention and every bound on the clock.                                 *)
(***************************************************************************)
EXTENDS IndexPublication, FiniteSetTheorems, WellFoundedInduction, TLAPS

\* The part of the invariant that types need, in force whatever the constants are.
TypeInv ==
  /\ TypeOK
  /\ pc # "idle" => name \in Stamp
  /\ pc \in Building => name \in indices

\* The items of a page are items of the sub site.
LEMMA PageItemsType ==
  ASSUME TypeOK, NEW p
  PROVE  PageItems(p) \in SUBSET Items
BY BoundsAssumption DEF TypeOK, PageItems, Items

\* The initial state has the types and is idle.
LEMMA InitTypeInv == Init => TypeInv
BY BoundsAssumption DEF Init, TypeInv, TypeOK, Stamp, Items, Code, PC, Building, Cleaning

\* Every step keeps the types, and keeps the index of the pass in existence while it is built.
LEMMA NextTypeInv == TypeInv /\ [Next]_vars => TypeInv'
<1> SUFFICES ASSUME TypeInv, [Next]_vars PROVE TypeInv'
    OBVIOUS
<1> USE BoundsAssumption DEF TypeInv, TypeOK, PC, Building, Cleaning, Stamp,
        cluster, download, retention, history
<1>1. CASE Tick BY <1>1 DEF Tick
<1>2. CASE Delay BY <1>2 DEF Delay, vars
<1>3. CASE StartPass BY <1>3 DEF StartPass
<1>4. CASE IndexExists BY <1>4 DEF IndexExists
<1>5. CASE CreateIndex BY <1>5 DEF CreateIndex
<1>6. CASE CreateIndexRefused BY <1>6 DEF CreateIndexRefused, EndPass
<1>7. CASE CreateIndexAnswerLost BY <1>7 DEF CreateIndexAnswerLost, EndPass
<1>8. CASE DownloadCount BY <1>8 DEF DownloadCount, Answers, Answered, Unanswered, TryAgain, Code
<1>9. CASE Discard BY <1>9 DEF Discard, DropIndex, EndPass
<1>10. CASE DiscardRefused BY <1>10 DEF DiscardRefused, EndPass
<1>11. CASE DownloadPage
  <2>1. PageItems(pageNumber) \in SUBSET Items
    BY PageItemsType
  <2> QED BY <1>11, <2>1 DEF DownloadPage, Answers, Answered, Unanswered, TryAgain, Code
<1>12. CASE LoadPage BY <1>12 DEF LoadPage
<1>13. CASE AliasExists BY <1>13 DEF AliasExists
<1>14. CASE GetIndicesPointingToAlias BY <1>14 DEF GetIndicesPointingToAlias
<1>15. CASE MoveAlias BY <1>15 DEF MoveAlias
<1>16. CASE MoveAliasLost BY <1>16 DEF MoveAliasLost
<1>17. CASE CountIndices BY <1>17 DEF CountIndices
<1>18. CASE NothingToDelete BY <1>18 DEF NothingToDelete, EndPass
<1>19. CASE ListIndices BY <1>19 DEF ListIndices, Expired
<1>20. CASE StatsFail BY <1>20 DEF StatsFail, EndPass
<1>21. CASE DeleteIndex BY <1>21 DEF DeleteIndex, DropIndex
<1>22. CASE DeleteIndexRefused BY <1>22 DEF DeleteIndexRefused
<1>23. CASE DeletionCompleted BY <1>23 DEF DeletionCompleted, EndPass
<1>24. CASE Crash BY <1>24 DEF Crash, EndPass, Code
<1>25. CASE UNCHANGED vars BY <1>25 DEF vars
<1> QED
  BY <1>1, <1>2, <1>3, <1>4, <1>5, <1>6, <1>7, <1>8, <1>9, <1>10, <1>11, <1>12, <1>13,
     <1>14, <1>15, <1>16, <1>17, <1>18, <1>19, <1>20, <1>21, <1>22, <1>23, <1>24, <1>25
  DEF Next, Step

\* Type correctness: a retry count never exceeds two, the alias only points at indices
\* that exist, and documents are only loaded from pages the count announced.
THEOREM TypeCorrect == Spec => []TypeOK
<1>1. TypeInv => TypeOK
  BY DEF TypeInv
<1> QED BY <1>1, InitTypeInv, NextTypeInv, PTL DEF Spec
------------------------------------------------------------------------------
(* Safety: what the code guarantees while passes start in different seconds and fewer *)
(* indices are left unpublished in a row than retention keeps.                         *)

\* The invariant includes the types.
LEMMA InvTypes == PublicationInv => TypeInv
BY DEF PublicationInv, PassInv, TypeInv

\* Sets of stamps are finite, and counted.
LEMMA StampSets ==
  ASSUME NEW S \in SUBSET Stamp
  PROVE  IsFiniteSet(S) /\ Cardinality(S) \in Nat
<1>1. IsFiniteSet(Stamp)
  BY FS_Interval, BoundsAssumption DEF Stamp
<1>2. IsFiniteSet(S)
  BY <1>1, FS_Subset
<1> QED BY <1>2, FS_CardinalityType

\* The history of lost indices never exceeds its bound, whichever call loses one.
LEMMA LostStep ==
  ASSUME lost \in SUBSET Stamp, NEW i, MayLose
  PROVE  Cardinality(lost \cup {i}) <= MaxLost
<1>1. IsFiniteSet(lost) /\ Cardinality(lost) \in Nat
  BY StampSets
<1>2. Cardinality(lost \cup {i}) = IF i \in lost THEN Cardinality(lost) ELSE Cardinality(lost) + 1
  BY <1>1, FS_AddElement
<1> QED BY <1>1, <1>2, BoundsAssumption DEF MayLose

\* The invariant holds before the first pass.
LEMMA InitInv == Init => PublicationInv
<1> SUFFICES ASSUME Init PROVE PublicationInv
    OBVIOUS
<1>1. TypeOK
  BY InitTypeInv DEF TypeInv
<1>2. Cardinality(lost) <= MaxLost
  BY FS_EmptySet, BoundsAssumption DEF Init
<1> QED BY <1>1, <1>2 DEF Init, PublicationInv, PassInv, NewerAccountedFor, LiveProtected, Building

\* Every step keeps the worker's place in its pass and the indices in step.
LEMMA NextPassInv ==
  ASSUME ~SameSecond, PublicationInv, [Next]_vars
  PROVE  PassInv'
<1> USE DEF PublicationInv, PassInv, TypeOK, PC, Building, Cleaning, Stamp,
        cluster, download, retention, history
<1>1. CASE Tick BY <1>1 DEF Tick
<1>2. CASE Delay BY <1>2 DEF Delay, vars
<1>3. CASE StartPass BY <1>3 DEF StartPass
<1>4. CASE IndexExists BY <1>4 DEF IndexExists
<1>5. CASE CreateIndex BY <1>5 DEF CreateIndex
<1>6. CASE CreateIndexRefused BY <1>6 DEF CreateIndexRefused, EndPass
<1>7. CASE CreateIndexAnswerLost BY <1>7 DEF CreateIndexAnswerLost, EndPass
<1>8. CASE DownloadCount BY <1>8 DEF DownloadCount
<1>9. CASE Discard BY <1>9 DEF Discard, DropIndex, EndPass
<1>10. CASE DiscardRefused BY <1>10 DEF DiscardRefused, EndPass
<1>11. CASE DownloadPage BY <1>11 DEF DownloadPage
<1>12. CASE LoadPage BY <1>12 DEF LoadPage
<1>13. CASE AliasExists BY <1>13 DEF AliasExists
<1>14. CASE GetIndicesPointingToAlias BY <1>14 DEF GetIndicesPointingToAlias
<1>15. CASE MoveAlias BY <1>15 DEF MoveAlias
<1>16. CASE MoveAliasLost BY <1>16 DEF MoveAliasLost
<1>17. CASE CountIndices BY <1>17 DEF CountIndices
<1>18. CASE NothingToDelete BY <1>18 DEF NothingToDelete, EndPass
<1>19. CASE ListIndices BY <1>19 DEF ListIndices
<1>20. CASE StatsFail BY <1>20 DEF StatsFail, EndPass
<1>21. CASE DeleteIndex BY <1>21 DEF DeleteIndex, DropIndex
<1>22. CASE DeleteIndexRefused BY <1>22 DEF DeleteIndexRefused
<1>23. CASE DeletionCompleted BY <1>23 DEF DeletionCompleted, EndPass
<1>24. CASE Crash BY <1>24 DEF Crash, EndPass
<1>25. CASE UNCHANGED vars BY <1>25 DEF vars
<1> QED
  BY <1>1, <1>2, <1>3, <1>4, <1>5, <1>6, <1>7, <1>8, <1>9, <1>10, <1>11, <1>12, <1>13,
     <1>14, <1>15, <1>16, <1>17, <1>18, <1>19, <1>20, <1>21, <1>22, <1>23, <1>24, <1>25
  DEF Next, Step

\* Every step keeps the number of lost indices within its bound.
LEMMA NextLost ==
  ASSUME PublicationInv, [Next]_vars
  PROVE  (Cardinality(lost) <= MaxLost)'
<1> USE DEF PublicationInv, TypeOK, cluster, download, retention, history
<1>1. CASE lost' = lost
  BY <1>1
<1>2. CASE lost' = {}
  BY <1>2, FS_EmptySet, BoundsAssumption
<1>3. CASE MayLose /\ \E i \in {name} : lost' = lost \cup {i}
  BY <1>3, LostStep
<1>4. \/ lost' = lost \/ lost' = {}
      \/ MayLose /\ lost' = lost \cup {name}
  BY DEF vars, Next, Step, Tick, Delay, StartPass, IndexExists, CreateIndex,
     CreateIndexRefused, CreateIndexAnswerLost, DownloadCount, Discard, DiscardRefused,
     DownloadPage, LoadPage, AliasExists, GetIndicesPointingToAlias, MoveAlias,
     MoveAliasLost, CountIndices, NothingToDelete, ListIndices, StatsFail, DeleteIndex,
     DeleteIndexRefused, DeletionCompleted, Crash
<1> QED BY <1>1, <1>2, <1>3, <1>4

\* The newest index served is beyond retention's reach: fewer indices than retention keeps
\* are newer.
LEMMA LiveNotExpired ==
  ASSUME MaxLost < Retained, lost \in SUBSET Stamp, Cardinality(lost) <= MaxLost,
         NEW live, Newer(indices, live) \subseteq lost
  PROVE  live \notin Expired(indices)
<1>1. IsFiniteSet(lost) /\ Cardinality(lost) \in Nat
  BY StampSets
<1>2. Cardinality(Newer(indices, live)) <= Cardinality(lost)
  BY <1>1, FS_Subset
<1>3. Cardinality(Newer(indices, live)) \in Nat
  BY <1>1, FS_Subset, FS_CardinalityType
<1>4. Retained \in Int
  BY IndexToRetainAssumption DEF Retained
<1> QED BY <1>1, <1>2, <1>3, <1>4, BoundsAssumption DEF Expired

\* Every step keeps the newest index served safe.
LEMMA NextLive ==
  ASSUME ~SameSecond, MaxLost < Retained, PublicationInv, [Next]_vars
  PROVE  LiveProtected' /\ NewerAccountedFor'
<1> USE DEF PublicationInv, PassInv, LiveProtected, NewerAccountedFor, Newer, TypeOK, PC,
        Building, Cleaning, Stamp, cluster, download, retention, history
<1>1. CASE Tick BY <1>1 DEF Tick
<1>2. CASE Delay BY <1>2 DEF Delay, vars
<1>3. CASE StartPass BY <1>3 DEF StartPass
<1>4. CASE IndexExists BY <1>4 DEF IndexExists
<1>5. CASE CreateIndex BY <1>5 DEF CreateIndex
<1>6. CASE CreateIndexRefused BY <1>6 DEF CreateIndexRefused, EndPass
<1>7. CASE CreateIndexAnswerLost BY <1>7 DEF CreateIndexAnswerLost, EndPass
<1>8. CASE DownloadCount BY <1>8 DEF DownloadCount
<1>9. CASE Discard BY <1>9 DEF Discard, DropIndex, EndPass
<1>10. CASE DiscardRefused BY <1>10 DEF DiscardRefused, EndPass
<1>11. CASE DownloadPage BY <1>11 DEF DownloadPage
<1>12. CASE LoadPage BY <1>12 DEF LoadPage
<1>13. CASE AliasExists BY <1>13 DEF AliasExists
<1>14. CASE GetIndicesPointingToAlias BY <1>14 DEF GetIndicesPointingToAlias
<1>15. CASE MoveAlias BY <1>15 DEF MoveAlias
<1>16. CASE MoveAliasLost BY <1>16 DEF MoveAliasLost
<1>17. CASE CountIndices BY <1>17 DEF CountIndices
<1>18. CASE NothingToDelete BY <1>18 DEF NothingToDelete, EndPass
<1>19. CASE ListIndices BY <1>19, LiveNotExpired DEF ListIndices
<1>20. CASE StatsFail BY <1>20 DEF StatsFail, EndPass
<1>21. CASE DeleteIndex BY <1>21 DEF DeleteIndex, DropIndex
<1>22. CASE DeleteIndexRefused BY <1>22 DEF DeleteIndexRefused
<1>23. CASE DeletionCompleted BY <1>23 DEF DeletionCompleted, EndPass
<1>24. CASE Crash BY <1>24 DEF Crash, EndPass
<1>25. CASE UNCHANGED vars BY <1>25 DEF vars
<1> QED
  BY <1>1, <1>2, <1>3, <1>4, <1>5, <1>6, <1>7, <1>8, <1>9, <1>10, <1>11, <1>12, <1>13,
     <1>14, <1>15, <1>16, <1>17, <1>18, <1>19, <1>20, <1>21, <1>22, <1>23, <1>24, <1>25
  DEF Next, Step

\* The invariant of publication: as long as no two passes start in the same second and
\* fewer indices are left unpublished in a row than retention keeps, the index search uses
\* is in place and every newer one is accounted for.
THEOREM PublicationInvariant ==
  ASSUME ~SameSecond, MaxLost < Retained
  PROVE  Spec => []PublicationInv
<1>1. PublicationInv /\ [Next]_vars => PublicationInv'
  <2> SUFFICES ASSUME PublicationInv, [Next]_vars PROVE PublicationInv'
    OBVIOUS
  <2>1. TypeOK'
    BY InvTypes, NextTypeInv DEF TypeInv
  <2> QED BY <2>1, NextPassInv, NextLost, NextLive DEF PublicationInv
<1> QED BY <1>1, InitInv, PTL DEF Spec

\* An index that may be discarded is one nobody searches (BaseIndexResourceProcessor.cs:69).
THEOREM DiscardIsSafe ==
  ASSUME ~SameSecond, MaxLost < Retained
  PROVE  Spec => []DiscardedIsNew
<1>1. PublicationInv => DiscardedIsNew
  BY DEF PublicationInv, PassInv, DiscardedIsNew, Building
<1> QED BY <1>1, PublicationInvariant, PTL

\* What is newer than all that search serves is being built or was left behind by a fault.
THEOREM NewerExplained ==
  ASSUME ~SameSecond, MaxLost < Retained
  PROVE  Spec => []NewerAccountedFor
<1>1. PublicationInv => NewerAccountedFor
  BY DEF PublicationInv
<1> QED BY <1>1, PublicationInvariant, PTL

\* Search never goes dark: no step takes the last index from the alias.
THEOREM SearchStaysUp ==
  ASSUME ~SameSecond, MaxLost < Retained
  PROVE  Spec => AliasNeverLost
<1>1. PublicationInv /\ [Next]_vars => [alias # {} => alias' # {}]_vars
  <2> SUFFICES ASSUME PublicationInv, Next, alias # {} PROVE alias' # {}
    OBVIOUS
  <2>1. CASE alias' = alias
    BY <2>1
  <2>2. CASE Discard
    BY <2>2 DEF Discard, DropIndex, PublicationInv, PassInv, Building
  <2>3. CASE MoveAlias
    BY <2>3 DEF MoveAlias
  <2>4. CASE DeleteIndex
    BY <2>4 DEF DeleteIndex, DropIndex, PublicationInv, LiveProtected
  <2>5. alias' = alias \/ Discard \/ MoveAlias \/ DeleteIndex
    BY DEF vars, cluster, Next, Step, Tick, Delay, StartPass, IndexExists, CreateIndex,
       CreateIndexRefused, CreateIndexAnswerLost, DownloadCount, DiscardRefused,
       DownloadPage, LoadPage, AliasExists, GetIndicesPointingToAlias,
       MoveAliasLost, CountIndices, NothingToDelete, ListIndices, StatsFail,
       DeleteIndexRefused, DeletionCompleted, Crash
  <2> QED BY <2>1, <2>2, <2>3, <2>4, <2>5
<1> QED BY <1>1, PublicationInvariant, PTL DEF Spec, AliasNeverLost

\* No step changes what an index holds that is served before and after it: the pass loads an
\* index that nobody searches yet.
LEMMA ServedContentStays ==
  ASSUME PublicationInv, [Next]_vars, NEW i \in alias, i \in alias'
  PROVE  docs'[i] = docs[i]
<1>1. i \in Stamp /\ docs \in [Stamp -> SUBSET Items]
  BY DEF PublicationInv, TypeOK
<1>2. CASE UNCHANGED docs
  BY <1>2
<1>3. CASE LoadPage
  <2>1. i # name
    BY <1>3 DEF LoadPage, PublicationInv, PassInv, Building
  <2> QED
    BY <1>1, <1>3, <2>1 DEF LoadPage
<1>4. CASE Discard
  <2>1. i # name
    BY <1>4 DEF Discard, PublicationInv, PassInv, Building
  <2> QED
    BY <1>1, <1>4, <2>1 DEF Discard, DropIndex
<1>5. CASE DeleteIndex
  <2>1. PICK v \in victims : docs' = [docs EXCEPT ![v] = {}] /\ alias' = alias \ {v}
    BY <1>5 DEF DeleteIndex, DropIndex
  <2> QED
    BY <1>1, <2>1
<1>6. UNCHANGED docs \/ LoadPage \/ Discard \/ DeleteIndex
  BY DEF vars, cluster, Next, Step, Tick, Delay, StartPass, IndexExists, CreateIndex,
     CreateIndexRefused, CreateIndexAnswerLost, DownloadCount, DiscardRefused,
     DownloadPage, AliasExists, GetIndicesPointingToAlias, MoveAlias,
     MoveAliasLost, CountIndices, NothingToDelete, ListIndices, StatsFail,
     DeleteIndexRefused, DeletionCompleted, Crash
<1> QED
  BY <1>2, <1>3, <1>4, <1>5, <1>6

\* Publication implements what search relies on: the alias serves ever newer indices, and each
\* of them unchanged for as long as it is served.
THEOREM PublicationImplementsSearch ==
  ASSUME ~SameSecond, MaxLost < Retained
  PROVE  Spec => SearchSpec
<1> DEFINE serving == [i \in alias |-> docs[i]]
<1>1. Init => Search!Init
  BY DEF Init, Search!Init, Search!served
<1>2. PublicationInv /\ [Next]_vars => [Search!Next]_serving
  <2> SUFFICES ASSUME PublicationInv, [Next]_vars, serving' # serving PROVE Search!Next
    OBVIOUS
  <2>1. Search!served = alias /\ Search!served' = alias'
    BY DEF Search!served
  <2>2. \A i \in alias' : i \in alias => serving'[i] = serving[i]
    BY ServedContentStays
  <2>3. alias' # alias
    <3>1. SUFFICES ASSUME alias' = alias PROVE serving' = serving
      OBVIOUS
    <3>2. \A i \in alias : docs'[i] = docs[i]
      BY <3>1, ServedContentStays
    <3> QED
      BY <3>1, <3>2
  <2>4. CASE Discard
    BY <2>3, <2>4 DEF Discard, DropIndex, PublicationInv, PassInv, Building
  <2>5. CASE MoveAlias
    <3>1. name \in alias' /\ alias' \ {name} \subseteq alias /\ name \in Nat
      BY <2>5 DEF MoveAlias, PublicationInv, TypeOK
    <3>2. \A old \in alias : old < name
      BY <2>5 DEF MoveAlias, PublicationInv, PassInv, TypeOK, Building, Stamp
    <3>3. \A i \in alias' \ {name} : i \in alias /\ serving'[i] = serving[i]
      BY <2>2, <3>1
    <3>4. Search!Publish
      BY <2>1, <3>1, <3>2, <3>3 DEF Search!Publish, Search!Kept
    <3> QED BY <3>4 DEF Search!Next
  <2>6. CASE DeleteIndex
    <3>1. PICK v \in victims : alias' = alias \ {v}
      BY <2>6 DEF DeleteIndex, DropIndex
    <3>2. v \in alias
      BY <2>3, <3>1
    <3>3. \E newer \in alias : v < newer
      <4>1. PICK live \in alias : (\A a \in alias : a <= live) /\ live \notin victims
        BY <3>2 DEF PublicationInv, LiveProtected
      <4>2. v \in Stamp /\ live \in Stamp
        BY <3>2 DEF PublicationInv, TypeOK
      <4>3. v <= live /\ v # live
        BY <3>2, <4>1
      <4> QED BY <4>2, <4>3 DEF Stamp
    <3>4. \A i \in alias' : i \in alias /\ serving'[i] = serving[i]
      BY <2>2, <3>1
    <3>5. Search!Retire
      BY <2>1, <3>1, <3>2, <3>3, <3>4 DEF Search!Retire, Search!Kept
    <3> QED BY <3>5 DEF Search!Next
  <2>7. alias' = alias \/ Discard \/ MoveAlias \/ DeleteIndex
    BY DEF vars, cluster, Next, Step, Tick, Delay, StartPass, IndexExists, CreateIndex,
       CreateIndexRefused, CreateIndexAnswerLost, DownloadCount, DiscardRefused,
       DownloadPage, LoadPage, AliasExists, GetIndicesPointingToAlias,
       MoveAliasLost, CountIndices, NothingToDelete, ListIndices, StatsFail,
       DeleteIndexRefused, DeletionCompleted, Crash
  <2> QED BY <2>3, <2>4, <2>5, <2>6, <2>7
<1> QED BY <1>1, <1>2, PublicationInvariant, PTL DEF Spec, SearchSpec, Search!Spec
------------------------------------------------------------------------------
(* Retention, whatever the constants are and whatever was lost. *)

\* While old indices are being deleted, few enough are neither to be deleted nor refused.
RetentionInv ==
  pc = "delete" => Cardinality(indices \ (victims \cup undeleted)) <= Retained

\* A set of numbers that is not empty has a least one.
LEMMA Least ==
  ASSUME NEW K \in SUBSET Nat, K # {}
  PROVE  \E m \in K : \A k \in K : m <= k
<1> DEFINE R == OpToRel(<, Nat)
<1>1. IsWellFoundedOn(R, Nat)
  BY NatLessThanWellFounded
<1>2. \A x, y \in Nat : <<x, y>> \in R <=> x < y
  BY DEF OpToRel
<1> HIDE DEF R
<1>3. PICK m \in K : \A k \in K : ~(<<k, m>> \in R)
  BY <1>1, WFMin, Zenon
<1>4. \A k \in K : ~(k < m)
  BY <1>2, <1>3, Zenon
<1>5. \A k \in K : m <= k
  BY <1>4
<1> QED BY <1>5

\* DeleteIndexes spares at most as many indices as it is to retain.
LEMMA SparedAreFew ==
  ASSUME NEW S \in SUBSET Stamp
  PROVE  Cardinality(S \ Expired(S)) <= Retained
<1> DEFINE K == S \ Expired(S)
<1>1. Retained \in Int /\ Retained >= 1
  BY IndexToRetainAssumption DEF Retained
<1>2. CASE K = {}
  BY <1>1, <1>2, FS_EmptySet
<1>3. CASE K # {}
  <2>1. K \in SUBSET Nat
    <3>1. Stamp \in SUBSET Nat
      BY BoundsAssumption DEF Stamp
    <3> QED BY <3>1
  <2>2. PICK m \in K : \A k \in K : m <= k
    BY <1>3, <2>1, Least
  <2>3. IsFiniteSet(K) /\ Cardinality(K) \in Nat
    BY StampSets
  <2>4. Cardinality(K \ {m}) = Cardinality(K) - 1
    BY <2>2, <2>3, FS_RemoveElement
  <2>5. Newer(S, m) \in SUBSET Stamp
    BY DEF Newer
  <2>6. IsFiniteSet(Newer(S, m)) /\ Cardinality(Newer(S, m)) \in Nat
    BY <2>5, StampSets
  <2>7. K \ {m} \subseteq Newer(S, m)
    BY <2>1, <2>2 DEF Newer
  <2>8. Cardinality(K \ {m}) <= Cardinality(Newer(S, m))
    BY <2>6, <2>7, FS_Subset
  <2>9. Cardinality(Newer(S, m)) < Retained
    BY <1>1, <2>2, <2>6 DEF Expired
  <2> QED BY <1>1, <2>3, <2>4, <2>6, <2>8, <2>9
<1> QED BY <1>2, <1>3

\* Removing candidates from a finite set of stamps does not make it larger.
LEMMA FewerSpared ==
  ASSUME NEW S \in SUBSET Stamp, NEW T \in SUBSET S, Cardinality(S) <= Retained
  PROVE  Cardinality(T) <= Retained
<1>1. IsFiniteSet(S) /\ Cardinality(S) \in Nat
  BY StampSets
<1>2. T \in SUBSET Stamp
  OBVIOUS
<1>3. Cardinality(T) <= Cardinality(S) /\ Cardinality(T) \in Nat
  BY <1>1, <1>2, StampSets, FS_Subset
<1>4. Retained \in Int
  BY IndexToRetainAssumption DEF Retained
<1> QED BY <1>1, <1>3, <1>4

\* Every step keeps the retention invariant.
LEMMA NextRetentionInv ==
  ASSUME TypeInv, RetentionInv, [Next]_vars
  PROVE  RetentionInv'
<1> USE DEF TypeInv, TypeOK, RetentionInv
<1>1. CASE ListIndices
  <2>1. Cardinality(indices \ Expired(indices)) <= Retained
    BY SparedAreFew
  <2> QED BY <1>1, <2>1, FewerSpared DEF ListIndices, cluster, history, Retained
<1>2. CASE DeleteIndex
  <2>1. indices' \ (victims' \cup undeleted') \in SUBSET (indices \ (victims \cup undeleted))
    BY <1>2 DEF DeleteIndex, DropIndex, history
  <2> QED BY <1>2, <2>1, FewerSpared DEF DeleteIndex, Retained
<1>3. CASE DeleteIndexRefused
  <2>1. indices' \ (victims' \cup undeleted') \in SUBSET (indices \ (victims \cup undeleted))
    BY <1>3 DEF DeleteIndexRefused, cluster
  <2> QED BY <1>3, <2>1, FewerSpared DEF DeleteIndexRefused, Retained
<1>4. \/ ListIndices \/ DeleteIndex \/ DeleteIndexRefused
      \/ pc' # "delete"
      \/ UNCHANGED <<pc, indices, victims, undeleted>>
  BY DEF vars, cluster, retention, history, Next, Step, Tick, Delay, StartPass, IndexExists,
     CreateIndex, CreateIndexRefused, CreateIndexAnswerLost, DownloadCount, Discard,
     DiscardRefused, DownloadPage, LoadPage, AliasExists, GetIndicesPointingToAlias,
     MoveAlias, MoveAliasLost, CountIndices, NothingToDelete, StatsFail, DeletionCompleted,
     Crash, EndPass
<1>5. CASE pc' # "delete"
  BY <1>5
<1>6. CASE UNCHANGED <<pc, indices, victims, undeleted>>
  BY <1>6 DEF Retained
<1> QED BY <1>1, <1>2, <1>3, <1>4, <1>5, <1>6

\* When retention has done its work, at most the indices it is to retain are left beside
\* those the cluster refused to delete (ElasticSearchIndexProvider.DeleteIndexes).
THEOREM RetentionWorks == Spec => []RetentionHolds
<1>1. Init => RetentionInv
  BY DEF Init, RetentionInv
<1>2. TypeInv /\ RetentionInv /\ [Next]_vars => RetentionInv'
  BY NextRetentionInv
<1>3. TypeInv /\ RetentionInv => RetentionHolds
  <2> SUFFICES ASSUME TypeInv, RetentionInv, pc = "delete", victims = {}
               PROVE  Cardinality(indices \ undeleted) <= Retained
    BY DEF RetentionHolds
  <2>1. indices \ (victims \cup undeleted) = indices \ undeleted
    OBVIOUS
  <2> QED BY <2>1 DEF RetentionInv
<1> QED BY <1>1, <1>2, <1>3, InitTypeInv, NextTypeInv, PTL DEF Spec
------------------------------------------------------------------------------
(* Completeness: what becomes of the items the count announced, whatever the constants are. *)

\* Item k is in the new index or on a page that is recorded as dropped.
Accounted(k) == k \in docs[name] \/ \E p \in dropped : (k - 1) \div PageSize = p - 1

Publishing == {"aliasExists", "addAlias", "lookup", "swap"}

\* The pages in front of the current one are accounted for, and in the end all of them.
ItemsInv ==
  /\ pc \in {"page", "load"} =>
       \A k \in 1 .. total : (k - 1) \div PageSize < pageNumber - 1 => Accounted(k)
  /\ pc \in Publishing => \A k \in 1 .. total : Accounted(k)

\* Items are on pages that count from 1, the last one on page Pages.
LEMMA PageOfItem ==
  ASSUME NEW n \in Nat, NEW s \in Nat \ {0}, NEW k \in 1 .. n
  PROVE  /\ (k - 1) \div s \in Nat
         /\ (k - 1) \div s < (n + s - 1) \div s
<1> DEFINE q == (k - 1) \div s
           r == (n + s - 1) \div s
<1>1. q \in Nat /\ s * q <= k - 1
  OBVIOUS
<1>2. r \in Nat /\ n + s - 1 < s * r + s
  OBVIOUS
<1> HIDE DEF q, r
<1>3. s * q < s * r
  BY <1>1, <1>2
<1>4. q < r
  BY <1>1, <1>2, <1>3
<1> QED
  BY <1>1, <1>4 DEF q, r

LEMMA NextItemsInv == TypeInv /\ ItemsInv /\ [Next]_vars => ItemsInv'
<1> SUFFICES ASSUME TypeInv, ItemsInv, [Next]_vars PROVE ItemsInv'
  OBVIOUS
<1> USE DEF cluster, download, retention, history
<1>1. CASE DownloadCount
  <2>1. CASE pc' = "page" /\ pageNumber' = 1
    <3>1. total' \in Nat /\ PageSize \in Nat \ {0}
      BY <1>1, BoundsAssumption, PageSizeAssumption DEF DownloadCount, TypeInv, TypeOK
    <3>2. \A k \in 1 .. total' : ~((k - 1) \div PageSize < 0)
      BY <3>1, PageOfItem
    <3> QED
      BY <2>1, <3>2 DEF ItemsInv, Publishing
  <2>2. CASE pc' = "aliasExists" /\ total' = 0
    BY <2>2 DEF ItemsInv
  <2>3. CASE pc' \in {"count", "discard"}
    BY <2>3 DEF ItemsInv, Publishing
  <2> QED
    BY <1>1, <2>1, <2>2, <2>3 DEF DownloadCount
<1>2. CASE LoadPage
  <2>1. /\ total \in Nat /\ PageSize \in Nat \ {0} /\ pageNumber \in Nat /\ name \in Stamp
        /\ docs \in [Stamp -> SUBSET Items]
    BY <1>2, BoundsAssumption, PageSizeAssumption DEF LoadPage, TypeInv, TypeOK
  <2>2. PICK loaded \in SUBSET searchItems :
          /\ docs' = [docs EXCEPT ![name] = @ \cup loaded]
          /\ dropped' = IF loaded = PageItems(pageNumber) THEN dropped
                        ELSE dropped \cup {pageNumber}
    BY <1>2 DEF LoadPage
  <2>3. /\ pageNumber' = pageNumber + 1 /\ total' = total /\ name' = name
        /\ pc' = IF pageNumber < Pages THEN "page" ELSE "aliasExists"
    BY <1>2 DEF LoadPage
  <2>4. docs'[name'] = docs[name] \cup loaded
    BY <2>1, <2>2, <2>3
  <2>5. ASSUME NEW k \in 1 .. total, (k - 1) \div PageSize < pageNumber PROVE Accounted(k)'
    <3>1. CASE (k - 1) \div PageSize < pageNumber - 1
      <4>1. Accounted(k)
        BY <1>2, <3>1 DEF ItemsInv, LoadPage
      <4> QED
        BY <2>2, <2>4, <4>1 DEF Accounted
    <3>2. CASE (k - 1) \div PageSize = pageNumber - 1
      <4>1. CASE loaded = PageItems(pageNumber)
        BY <2>4, <3>2, <4>1 DEF Accounted, PageItems
      <4>2. CASE pageNumber \in dropped'
        BY <3>2, <4>2 DEF Accounted
      <4> QED
        BY <2>2, <4>1, <4>2
    <3>3. (k - 1) \div PageSize \in Nat
      BY <2>1, PageOfItem
    <3> QED
      BY <2>1, <2>5, <3>1, <3>2, <3>3
  <2>6. CASE pageNumber < Pages
    BY <2>1, <2>3, <2>5, <2>6 DEF ItemsInv, Publishing
  <2>7. CASE ~(pageNumber < Pages)
    <3>1. \A k \in 1 .. total : (k - 1) \div PageSize < pageNumber
      <4>1. \A k \in 1 .. total : (k - 1) \div PageSize \in Nat
                                  /\ (k - 1) \div PageSize < Pages
        BY <2>1, PageOfItem DEF Pages
      <4>2. Pages \in Int
        BY <2>1 DEF Pages
      <4> QED
        BY <2>1, <2>7, <4>1, <4>2
    <3>2. \A k \in 1 .. total : Accounted(k)'
      BY <2>5, <3>1
    <3> QED
      BY <2>3, <2>7, <3>2 DEF ItemsInv
  <2> QED
    BY <2>6, <2>7
<1>3. CASE DownloadPage
  BY <1>3 DEF DownloadPage, ItemsInv, Accounted, Publishing
<1>4. CASE AliasExists \/ GetIndicesPointingToAlias
  BY <1>4 DEF AliasExists, GetIndicesPointingToAlias, ItemsInv, Accounted, Publishing
<1>5. CASE UNCHANGED vars \/ Delay \/ Tick
  BY <1>5 DEF vars, Delay, Tick, ItemsInv, Accounted
<1>6. CASE pc' \notin {"page", "load"} \cup Publishing
  BY <1>6 DEF ItemsInv
<1>7. CASE \/ StartPass \/ IndexExists \/ CreateIndex \/ CreateIndexRefused \/ CreateIndexAnswerLost
           \/ Discard \/ DiscardRefused \/ MoveAlias \/ MoveAliasLost \/ CountIndices
           \/ NothingToDelete \/ ListIndices \/ StatsFail \/ DeleteIndex \/ DeleteIndexRefused
           \/ DeletionCompleted \/ Crash
  <2>1. pc' \notin {"page", "load"} \cup Publishing
    BY <1>7 DEF StartPass, IndexExists, CreateIndex, CreateIndexRefused, CreateIndexAnswerLost,
       Discard, DiscardRefused, MoveAlias, MoveAliasLost, CountIndices, NothingToDelete, ListIndices,
       StatsFail, DeleteIndex, DeleteIndexRefused, DeletionCompleted, Crash, EndPass, Publishing
  <2> QED
    BY <1>6, <2>1
<1> QED
  BY <1>1, <1>2, <1>3, <1>4, <1>5, <1>7 DEF Next, Step

\* No item the count announced goes missing without a trace, whatever the page size, the
\* number of items and the faults: when the alias is about to move, each of them is in the new
\* index or on a page that failed to arrive in full.
THEOREM NoItemUnaccounted == Spec => []ItemsAccountedFor
<1>1. Init => ItemsInv
  BY DEF Init, ItemsInv, Publishing
<1>2. TypeInv /\ ItemsInv => ItemsAccountedFor
  BY DEF ItemsInv, ItemsAccountedFor, Accounted, PageItems, Publishing
<1> QED BY <1>1, <1>2, InitTypeInv, NextTypeInv, NextItemsInv, PTL DEF Spec
------------------------------------------------------------------------------
(* Progress: the ranking behind PassEnds, whatever the constants are. *)

\* The page being dealt with is one of the pages.
PageInv == pc \in {"page", "load"} => pageNumber <= Pages

\* A count that is not zero has a page, and how many there are is a number.
LEMMA PagesType ==
  ASSUME NEW n \in Nat
  PROVE  /\ (n + PageSize - 1) \div PageSize \in Nat
         /\ n # 0 => 1 <= (n + PageSize - 1) \div PageSize
<1>1. PageSize \in Nat \ {0}
  BY PageSizeAssumption
<1> DEFINE r == (n + PageSize - 1) \div PageSize
<1>2. r \in Nat /\ n + PageSize - 1 < PageSize * r + PageSize
  BY <1>1
<1> HIDE DEF r
<1>3. n # 0 => r # 0
  BY <1>1, <1>2
<1>4. n # 0 => 1 <= r
  BY <1>2, <1>3
<1> QED
  BY <1>2, <1>4 DEF r

\* Every step keeps the page among the pages.
LEMMA NextPageInv == TypeInv /\ PageInv /\ [Next]_vars => PageInv'
<1> SUFFICES ASSUME TypeInv, PageInv, [Next]_vars PROVE PageInv'
  OBVIOUS
<1>1. Pages \in Nat /\ pageNumber \in Nat
  BY PagesType, BoundsAssumption DEF Pages, TypeInv, TypeOK
<1>2. CASE DownloadCount
  <2>1. CASE pc' = "page"
    <3>1. total' \in Nat /\ total' # 0 /\ pageNumber' = 1
      BY <1>2, <2>1, BoundsAssumption DEF DownloadCount
    <3> QED
      BY <3>1, PagesType DEF PageInv, Pages
  <2> QED
    BY <1>2, <2>1 DEF DownloadCount, PageInv
<1>3. CASE LoadPage
  BY <1>1, <1>3 DEF LoadPage, PageInv, Pages
<1>4. CASE DownloadPage
  BY <1>4 DEF DownloadPage, PageInv, Pages
<1>5. CASE UNCHANGED <<pc, total, pageNumber>>
  BY <1>5 DEF PageInv, Pages
<1>6. CASE pc' \notin {"page", "load"}
  BY <1>6 DEF PageInv
<1>7. \/ DownloadCount \/ LoadPage \/ DownloadPage
      \/ UNCHANGED <<pc, total, pageNumber>> \/ pc' \notin {"page", "load"}
  BY DEF vars, download, Next, Step, Tick, Delay, StartPass, IndexExists, CreateIndex,
     CreateIndexRefused, CreateIndexAnswerLost, Discard, DiscardRefused, AliasExists,
     GetIndicesPointingToAlias, MoveAlias, MoveAliasLost, CountIndices, NothingToDelete,
     ListIndices, StatsFail, DeleteIndex, DeleteIndexRefused, DeletionCompleted, Crash, EndPass
<1> QED
  BY <1>2, <1>3, <1>4, <1>5, <1>6, <1>7

\* A call that does not end its stage leaves less of it to come.
LEMMA StageAdvances ==
  ASSUME TypeInv, PageInv,
         DownloadCount \/ DownloadPage \/ LoadPage \/ DeleteIndex \/ DeleteIndexRefused
  PROVE  \/ StagesLeft[pc'] < StagesLeft[pc]
         \/ StagesLeft[pc'] = StagesLeft[pc] /\ ToCome' \in 0 .. ToCome - 1
<1>1. Pages \in Nat /\ pageNumber \in Nat /\ retryCount \in 0 .. 2
  BY PagesType, BoundsAssumption DEF Pages, TypeInv, TypeOK
<1>2. CASE DownloadCount
  <2>1. pc = "count"
    BY <1>2 DEF DownloadCount
  <2>2. CASE pc' # "count"
    BY <1>2, <2>1, <2>2 DEF DownloadCount, StagesLeft
  <2>3. CASE pc' = "count"
    <3>1. retryCount' = retryCount + 1 /\ retryCount + 1 < 3
      BY <1>2, <2>3 DEF DownloadCount, TryAgain
    <3> QED
      BY <1>1, <2>1, <2>3, <3>1 DEF StagesLeft, ToCome
  <2> QED
    BY <2>2, <2>3
<1>3. CASE DownloadPage
  <2>1. pc = "page" /\ Pages' = Pages /\ pageNumber' = pageNumber
    BY <1>3 DEF DownloadPage, Pages
  <2>2. pageNumber <= Pages
    BY <2>1 DEF PageInv
  <2>3. \/ pc' = "page" /\ retryCount' = retryCount + 1 /\ retryCount + 1 < 3
        \/ pc' = "load" /\ retryCount' = 0
    BY <1>3, <2>1 DEF DownloadPage, TryAgain
  <2> QED
    BY <1>1, <2>1, <2>2, <2>3 DEF StagesLeft, ToCome
<1>4. CASE LoadPage
  <2>1. /\ pc = "load" /\ Pages' = Pages /\ pageNumber' = pageNumber + 1
        /\ retryCount' = retryCount
        /\ pc' = IF pageNumber < Pages THEN "page" ELSE "aliasExists"
    BY <1>4 DEF LoadPage, Pages
  <2> QED
    BY <1>1, <2>1 DEF StagesLeft, ToCome
<1>5. CASE DeleteIndex \/ DeleteIndexRefused
  <2>1. PICK v \in victims : victims' = victims \ {v} /\ pc = "delete" /\ pc' = pc
    BY <1>5 DEF DeleteIndex, DeleteIndexRefused
  <2>2. IsFiniteSet(victims) /\ Cardinality(victims) \in Nat
    BY StampSets DEF TypeInv, TypeOK
  <2>3. Cardinality(victims \ {v}) = Cardinality(victims) - 1
    BY <2>2, FS_RemoveElement
  <2>4. IsFiniteSet(victims \ {v}) /\ Cardinality(victims \ {v}) \in Nat
    BY <2>2, FS_RemoveElement, FS_CardinalityType
  <2> QED
    BY <2>1, <2>2, <2>3, <2>4 DEF StagesLeft, ToCome
<1> QED
  BY <1>2, <1>3, <1>4, <1>5

\* Each call of a pass brings it nearer to its end, whatever the answers, the page size and the
\* number of items: by a measure that is well-founded, so that no pass goes on for ever.
THEOREM PassesAdvance == Spec => PassAdvances
<1>1. Init => PageInv
  BY DEF Init, PageInv
<1>2. TypeInv /\ PageInv /\ [Next]_vars
      => [pc # "idle" /\ now' = now =>
            \/ StagesLeft[pc'] < StagesLeft[pc]
            \/ StagesLeft[pc'] = StagesLeft[pc] /\ ToCome' \in 0 .. ToCome - 1]_vars
  <2> SUFFICES ASSUME TypeInv, PageInv, Next, pc # "idle", now' = now
               PROVE  \/ StagesLeft[pc'] < StagesLeft[pc]
                      \/ StagesLeft[pc'] = StagesLeft[pc] /\ ToCome' \in 0 .. ToCome - 1
    OBVIOUS
  <2>1. CASE \/ DownloadCount \/ DownloadPage \/ LoadPage \/ DeleteIndex \/ DeleteIndexRefused
    BY <2>1, StageAdvances
  <2>2. CASE \/ CreateIndexRefused \/ CreateIndexAnswerLost \/ Discard \/ DiscardRefused
             \/ NothingToDelete \/ StatsFail \/ DeletionCompleted \/ Crash
    <3>1. pc' = "idle"
      BY <2>2 DEF CreateIndexRefused, CreateIndexAnswerLost, Discard, DiscardRefused,
         NothingToDelete, StatsFail, DeletionCompleted, Crash, EndPass
    <3>2. pc \in PC
      BY DEF TypeInv, TypeOK
    <3> QED
      BY <3>1, <3>2 DEF StagesLeft, PC, Building, Cleaning
  <2>3. CASE \/ IndexExists \/ CreateIndex \/ AliasExists \/ GetIndicesPointingToAlias
             \/ MoveAlias \/ MoveAliasLost \/ CountIndices \/ ListIndices
    BY <2>3 DEF IndexExists, CreateIndex, AliasExists, GetIndicesPointingToAlias, MoveAlias,
       MoveAliasLost, CountIndices, ListIndices, StagesLeft
  <2>4. ~Tick /\ ~Delay /\ ~StartPass
    BY DEF Tick, Delay, StartPass, TypeInv, TypeOK
  <2> QED
    BY <2>1, <2>2, <2>3, <2>4 DEF Next, Step
<1> QED
  BY <1>1, <1>2, InitTypeInv, NextTypeInv, NextPageInv, PTL DEF Spec, PassAdvances
=============================================================================
