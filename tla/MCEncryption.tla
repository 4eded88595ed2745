---------------------------- MODULE MCEncryption ----------------------------
(***************************************************************************)
(* EncryptionReader with chunks of three bytes of plaintext, heads and     *)
(* tags of two bytes: plaintexts from none to two full chunks and one byte *)
(* more, cut at every byte, with any one byte changed.                     *)
(***************************************************************************)
EXTENDS EncryptionReader

MCMoves == {-4, -1, 0, 2, 3}
=============================================================================
