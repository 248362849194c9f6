-------------------------- MODULE MCIndexPublication --------------------------
(* The publication of one category's index, instantiated for TLC by the .cfg files. *)
EXTENDS IndexPublication
=============================================================================
