------------------------- MODULE MCChallengeElevation -------------------------
(* The portal's challenge, instantiated for TLC by Elevation.cfg. *)
EXTENDS ChallengeElevation, TLC

\* Tabs are alike, and so are accounts.
Symmetry == Permutations(Tab) \cup Permutations(Id)
=============================================================================
