-------------------------- MODULE MCCompressedFile --------------------------
(* Instances of CompressedFile for TLC.                                    *)
EXTENDS CompressedFile

CONSTANTS calm, noisy

(* Less than a block, a block that does not go inline, and two blocks.     *)
CFiles == {<<calm>>, <<noisy, noisy>>, <<calm, noisy, noisy>>,
            <<noisy, calm, calm, noisy>>}
CData  == {<<noisy>>, <<calm, calm>>, <<noisy, noisy>>}
=============================================================================
