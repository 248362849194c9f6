---------------------------- MODULE MCSearchPages ----------------------------
(* The search page, instantiated for TLC by SearchPages.cfg. *)
EXTENDS SearchPages, TLC

\* A negative page, which the server takes for the first, and one that may be past the end.
McTypedPage == {-1, 2}

\* Items are alike.
Symmetry == Permutations(Item)
=============================================================================
