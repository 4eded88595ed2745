------------------------- MODULE CompressionWriter -------------------------
(***************************************************************************)
(* The stream that CompressionLayerWriter produces: one brotli stream for  *)
(* each UNCOMPRESSED_DATA_SIZE bytes of plaintext, then the sizes of these *)
(* streams.                                                                *)
(*                                                                         *)
(* As in the encryption layer, the i-th byte of the plaintext is the       *)
(* number i.  A byte of a brotli stream is a cell that says which bytes of *)
(* the plaintext it lets a decoder produce; the last one of a stream       *)
(* produces none.  What the compressor holds back while a block is open is *)
(* written when the block is closed: a stream cut earlier is a prefix.     *)
(***************************************************************************)
EXTENDS Integers, Sequences

CONSTANTS
    UNCOMPRESSED_DATA_SIZE,
    CELL_YIELD,     \* bytes of plaintext in a byte of a brotli stream, at most
    WriteSizes,     \* lengths of the buffers offered to write
    MaxPlain        \* bound on the bytes that are written

(***************************************************************************)
(* Buffers are not empty: the layers above write with write_all.           *)
(***************************************************************************)
ASSUME WriterAssumption ==
    /\ UNCOMPRESSED_DATA_SIZE \in Nat \ {0}
    /\ CELL_YIELD \in Nat \ {0}
    /\ WriteSizes \subseteq Nat \ {0}
    /\ MaxPlain \in Nat

VARIABLES
    wstate,             \* "Ready", "InData", "Empty", and "Finalized" after finalize
    in_block,           \* the bytes of the open block: the number in InData
    compressed_sizes,
    out,                \* what the inner layer has received
    written             \* bytes of plaintext write has accepted

writerVars == <<wstate, in_block, compressed_sizes, out, written>>

Least(a, b) == IF a < b THEN a ELSE b

(***************************************************************************)
(* The brotli stream of the plaintext bytes from + 1 to upto.              *)
(***************************************************************************)
BrotliStream(from, upto) ==
    LET full == (upto - from + CELL_YIELD - 1) \div CELL_YIELD IN
    [i \in 1..full + 1 |->
        [kind |-> "brotli", stream |-> from, part |-> i, last |-> i = full + 1,
         data |-> [j \in 1..Least(CELL_YIELD, upto - from - (i - 1) * CELL_YIELD) |->
                     from + (i - 1) * CELL_YIELD + j]]]

(***************************************************************************)
(* SizesInfo, between the options of the tail and its own length.          *)
(***************************************************************************)
SizesInfo(sizes, last) ==
    [kind |-> "sizes_info", compressed_sizes |-> sizes, last_block_size |-> last]

Footer(sizes, last) ==
    << [kind |-> "tail_opts"], SizesInfo(sizes, last), [kind |-> "length", of |-> 1] >>

WriterInit ==
    /\ wstate = "Ready" /\ in_block = 0 /\ compressed_sizes = <<>>
    /\ out = <<>> /\ written = 0

OpenStream == BrotliStream(written - in_block, written)

(***************************************************************************)
(* compress.into_inner ends the brotli stream; WriterWithCount has counted *)
(* its bytes.                                                              *)
(***************************************************************************)
CloseBlock ==
    /\ out' = out \o OpenStream
    /\ compressed_sizes' = Append(compressed_sizes, Len(OpenStream))

(***************************************************************************)
(* write: a full block is closed before the buffer goes into a new one; a  *)
(* buffer that does not fit is taken in part.                              *)
(***************************************************************************)
Write(size) ==
    LET full == wstate = "InData" /\ in_block = UNCOMPRESSED_DATA_SIZE
        before == IF full THEN 0 ELSE in_block
        taken == Least(UNCOMPRESSED_DATA_SIZE - before, size)
    IN  /\ wstate \in {"Ready", "InData"}
        /\ written + taken <= MaxPlain
        /\ IF full THEN CloseBlock ELSE UNCHANGED <<out, compressed_sizes>>
        /\ wstate' = "InData"
        /\ in_block' = before + taken
        /\ written' = written + taken

(***************************************************************************)
(* The inner layer fails while part of the block is written, in write or   *)
(* in finalize: the state stays Empty and every later call is refused.     *)
(***************************************************************************)
WriteFails ==
    /\ wstate \in {"Ready", "InData"}
    /\ \E k \in 0..(IF in_block = 0 THEN 0 ELSE Len(OpenStream)) :
          out' = out \o SubSeq(OpenStream, 1, k)
    /\ wstate' = "Empty"
    /\ UNCHANGED <<in_block, compressed_sizes, written>>

Finalize ==
    /\ wstate \in {"Ready", "InData"}
    /\ wstate' = "Finalized"
    /\ compressed_sizes' = IF wstate = "Ready" THEN compressed_sizes
                           ELSE Append(compressed_sizes, Len(OpenStream))
    /\ out' = out \o (IF wstate = "Ready" THEN <<>> ELSE OpenStream)
                  \o Footer(compressed_sizes', in_block)
    /\ UNCHANGED <<in_block, written>>

WriterNext == (\E size \in WriteSizes : Write(size)) \/ WriteFails \/ Finalize

Plaintext == [i \in 1..written |-> i]

(***************************************************************************)
(* The fields keep their types, a block is never overfilled ("Too much     *)
(* written" is unreachable), and every block but the open one is full.     *)
(***************************************************************************)
WriterTypeOK ==
    /\ wstate \in {"Ready", "InData", "Empty", "Finalized"}
    /\ in_block \in 0..UNCOMPRESSED_DATA_SIZE
    /\ compressed_sizes \in Seq(Nat)
    /\ written \in Nat
    /\ wstate \in {"Ready", "InData"} =>
         written = Len(compressed_sizes) * UNCOMPRESSED_DATA_SIZE + in_block
=============================================================================
