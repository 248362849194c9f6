--------------------------- MODULE MCSiteConnector ---------------------------
(* The connector and its callers, instantiated for TLC by the .cfg files. *)
EXTENDS SiteConnector, TLC

\* Callers are alike, and so are sites.
Symmetry == Permutations(Caller) \cup Permutations(Site)
=============================================================================
