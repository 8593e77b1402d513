------------------------------ MODULE MCBTree ------------------------------
(* Instances of BTree for TLC.                                             *)
EXTENDS BTree, TLC

(* Five keys of two lengths.  A leaf takes two records, an index node two  *)
(* or, of the short ones, three; three leaves of a full volume therefore   *)
(* need a third level, and an index record can outgrow its node.           *)
FiveKeys    == 1 .. 5
FiveKey(k)  == IF k \in {2, 4} THEN 3 ELSE 2
FiveKeySize  == [k \in FiveKeys |-> FiveKey(k)]
FiveDataSize == [k \in FiveKeys |-> 4 - FiveKey(k)]
=============================================================================
