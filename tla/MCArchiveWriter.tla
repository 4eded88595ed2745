--------------------------- MODULE MCArchiveWriter ---------------------------
(***************************************************************************)
(* ArchiveWriter on a small instance: three names for two ids, so that the *)
(* ids run out; chunks of one and of two bytes, so that a chunk differs    *)
(* from its prefix.                                                        *)
(***************************************************************************)
EXTENDS ArchiveWriter, TLC

MCBytes == {0, 1}
MCData == {<<1>>, <<0, 1>>}
Symmetry == Permutations(Names)
=============================================================================
