----------------------------- MODULE SearchAlias -----------------------------
(***************************************************************************)
(* What the portal's search relies on: the alias it queries, for instance  *)
(* "<indexName>-account", once it serves an index always serves one, and   *)
(* the newest index it serves never gets older.  What an index holds does  *)
(* not change while it is served: a search sees a pass as a whole or not   *)
(* at all, never an index that is being loaded.                            *)
(*                                                                         *)
(* An index is named by the second at which its build started, so indices  *)
(* are natural numbers and "newer" is "greater".                           *)
(***************************************************************************)
EXTENDS Naturals

VARIABLE serving   \* the indices the alias points at, each with the items it holds

served == DOMAIN serving

\* Of the indices that were served, those in S hold what they held.
Kept(S) == \A i \in S : i \in served /\ serving'[i] = serving[i]

\* Nothing has been published yet.
Init == served = {}

\* A newer index than all those served is published; it replaces some or all of them.
Publish ==
  \E new \in served' :
    /\ new \in Nat
    /\ \A old \in served : old < new
    /\ Kept(served' \ {new})

\* An index leaves the alias because it was deleted, while a newer one serves.
Retire ==
  \E old \in served :
    /\ \E newer \in served : old < newer
    /\ served' = served \ {old}
    /\ Kept(served')

Next == Publish \/ Retire

Spec == Init /\ [][Next]_serving
=============================================================================
