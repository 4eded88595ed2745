------------------------- MODULE MCConvertTruncated -------------------------
(***************************************************************************)
(* ConvertTruncated on sources of two ids and at most five blocks, with    *)
(* contents of up to one buffer and a half.                                *)
(***************************************************************************)
EXTENDS ConvertTruncated

MCBytes == {0, 1}
MCData == {<<1>>, <<0, 1>>}
=============================================================================
