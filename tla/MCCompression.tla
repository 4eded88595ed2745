--------------------------- MODULE MCCompression ---------------------------
(***************************************************************************)
(* The compression layer with blocks of two bytes: plaintexts from none    *)
(* to two full blocks and one byte more, cut at every byte of the stream,  *)
(* or with any one byte changed.                                          *)
(***************************************************************************)
EXTENDS CompressionTruncatedReader

MCMoves == {-3, 0, 1, 2}
=============================================================================
