-------------------------- MODULE MCAbstractFiles --------------------------
(* Instances of AbstractFiles for TLC.                                     *)
EXTENDS AbstractFiles
=============================================================================
