---------------------------- MODULE MCAllocator ----------------------------
(* Instances of Allocator for TLC.                                         *)
EXTENDS Allocator, TLC

Symmetry == Permutations(DataFiles)

(* A volume is followed up to the first block that cannot be sought.      *)
SoughtOnly == \A b \in used \ {hdr.total - 1} : b < Reach

SomeSizes  == {0, 3}
SomeWrites == {<<1, 4>>}
=============================================================================
