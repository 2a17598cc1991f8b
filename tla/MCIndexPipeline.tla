-------------------------- MODULE MCIndexPipeline --------------------------
(***************************************************************************)
(* Instances of IndexPipeline for TLC.                                     *)
(***************************************************************************)
EXTENDS IndexPipeline, TLC

MCSymmetry == Permutations(Files)
=============================================================================
