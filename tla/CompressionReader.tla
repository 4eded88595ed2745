------------------------- MODULE CompressionReader -------------------------
(***************************************************************************)
(* CompressionLayerReader: reads and seeks in the plaintext of a           *)
(* compressed stream, with the sizes of its footer.                        *)
(*                                                                         *)
(* The state is taken out of the reader (Empty) before anything that can   *)
(* fail, and put back afterwards: a call that fails leaves Empty behind,   *)
(* and taking the inner layer out of Empty panics.                         *)
(***************************************************************************)
EXTENDS CompressionWriter, SequencesExt

CONSTANTS
    Sizes,      \* lengths of the buffers given to read
    Moves       \* signed distances of seeks

ASSUME ReaderAssumption == Sizes \subseteq Nat /\ Moves \subseteq Int

VARIABLES
    mode,       \* "none", "indexed", "recovery" or "failed"
    damage,     \* ghost: the place of a byte that was changed, or 0
    src,        \* what the inner layer holds
    sizes_info,
    rd,         \* the fields of the reader
    result      \* the call just made and what it returned

readerVars == <<mode, damage, src, sizes_info, rd, result>>

NoSizes == SizesInfo(<<>>, 0)

(***************************************************************************)
(* state, read and uncompressed_size are those of the reader's state;      *)
(* cells is what the decompressor may read and given how many bytes it has *)
(* produced.                                                               *)
(***************************************************************************)
FreshReader ==
    [state |-> "Ready", read |-> 0, uncompressed_size |-> 0, cells |-> <<>>,
     given |-> 0, underlayer_pos |-> 0]

ReaderInit ==
    /\ mode = "none" /\ damage = 0 /\ src = <<>> /\ sizes_info = NoSizes
    /\ rd = FreshReader /\ result = [op |-> "none"]

(***************************************************************************)
(* A stream is opened once its writer is gone: finalized, or failed        *)
(* anywhere.  It is the first length bytes that were written, the one at   *)
(* place changed; a stream that was cut has no changed byte.               *)
(***************************************************************************)
Damages(length, place) ==
    /\ wstate \in {"Finalized", "Empty"}
    /\ place = 0 \/ length = Len(out)

Left(length, place) ==
    [i \in 1..length |-> IF i = place THEN [kind |-> "broken"] ELSE out[i]]

(***************************************************************************)
(* initialize: the length at the end leads to the sizes.                   *)
(***************************************************************************)
SizesAt(s) ==
    LET last == Len(s) IN
    IF last >= 2 /\ s[last].kind = "length" /\ s[last - 1].kind = "sizes_info"
    THEN {s[last - 1]} ELSE {}

OpenIndexed(length, place) ==
    LET found == SizesAt(Left(length, place)) IN
    /\ mode = "none" /\ Damages(length, place)
    /\ src' = Left(length, place) /\ damage' = place
    /\ mode' = IF found = {} THEN "failed" ELSE "indexed"
    /\ sizes_info' = IF found = {} THEN NoSizes ELSE CHOOSE s \in found : TRUE
    /\ result' = [op |-> "open"]
    /\ UNCHANGED rd

(***************************************************************************)
(* SizesInfo.  Without any block its arithmetic fails.                     *)
(***************************************************************************)
Blocks == Len(sizes_info.compressed_sizes)
Indexed == Blocks > 0

UncompressedBlockSizeAt(pos) ==
    IF pos \div UNCOMPRESSED_DATA_SIZE < Blocks - 1
    THEN UNCOMPRESSED_DATA_SIZE ELSE sizes_info.last_block_size

MaxUncompressedPos ==
    (Blocks - 1) * UNCOMPRESSED_DATA_SIZE + sizes_info.last_block_size

PosInStream(pos) == pos < MaxUncompressedPos

\* Mutant: the block itself is counted among those before it.
InnerStart_Inclusive(pos) ==
    FoldLeft(+, 0, SubSeq(sizes_info.compressed_sizes, 1,
                          pos \div UNCOMPRESSED_DATA_SIZE + 1))

(***************************************************************************)
(* Where sync_inner_with_uncompressed_pos puts the inner layer.            *)
(***************************************************************************)
InnerStart(pos) ==
    FoldLeft(+, 0, SubSeq(sizes_info.compressed_sizes, 1, pos \div UNCOMPRESSED_DATA_SIZE))

(***************************************************************************)
(* new_decompressor_at and the state it goes into, for the start of a      *)
(* block.                                                                  *)
(***************************************************************************)
InDataAt(pos) ==
    LET start == InnerStart(pos)
        size == sizes_info.compressed_sizes[pos \div UNCOMPRESSED_DATA_SIZE + 1]
    IN  [state |-> "InData", read |-> 0,
         uncompressed_size |-> UncompressedBlockSizeAt(pos),
         cells |-> SubSeq(src, start + 1, Least(start + size, Len(src))),
         given |-> 0, underlayer_pos |-> pos]

(***************************************************************************)
(* brotli::Decompressor over the bytes of one block: what it can produce,  *)
(* and whether it meets something that is not the rest of the stream.  It  *)
(* has the whole block at hand and may fail before it has produced all.    *)
(***************************************************************************)
Continues(cells, i) ==
    /\ cells[i].kind = "brotli"
    /\ cells[i].part = i
    /\ cells[i].stream = cells[1].stream

Sound(cells) == \A i \in 1..Len(cells) : Continues(cells, i)

Decoded(cells) ==
    LET good == Max({n \in 0..Len(cells) : \A i \in 1..n : Continues(cells, i)})
    IN  FlattenSeq([i \in 1..good |-> cells[i].data])

-----------------------------------------------------------------------------
(***************************************************************************)
(* read.                                                                   *)
(***************************************************************************)
CanCall == mode = "indexed" /\ rd.state # "Panicked"

ReadError(size) == result' = [op |-> "read_error", size |-> size]
ReadOk(size, data) == result' = [op |-> "read", size |-> size, data |-> data]

ReadRefused(size) ==
    /\ CanCall
    /\ ~Indexed \/ (PosInStream(rd.underlayer_pos) /\ rd.state = "Empty")
    /\ ReadError(size)
    /\ UNCHANGED <<mode, damage, src, sizes_info, rd>>

ReadAtEnd(size) ==
    /\ CanCall /\ Indexed /\ ~PosInStream(rd.underlayer_pos)
    /\ ReadOk(size, <<>>)
    /\ UNCHANGED <<mode, damage, src, sizes_info, rd>>

\* Mutant: the next block is begun one byte early.
BlockConsumed_Early(r) == r.read + 1 >= r.uncompressed_size

BlockConsumed(r) == r.read = r.uncompressed_size

(***************************************************************************)
(* The recursion of read: a consumed block makes the reader Ready, a Ready *)
(* reader starts the block at its position.                                *)
(***************************************************************************)
Started ==
    IF rd.state = "Ready" \/ BlockConsumed(rd)
    THEN InDataAt(rd.underlayer_pos) ELSE rd

Served == CanCall /\ Indexed /\ PosInStream(rd.underlayer_pos)
          /\ rd.state \in {"Ready", "InData"}

ReadData(size) ==
    /\ Served
    /\ LET r == Started
           decoded == Decoded(r.cells)
           most == Least(Least(size, r.uncompressed_size - r.read), Len(decoded) - r.given)
       IN  \E count \in (IF size = 0 THEN {0} ELSE 1..most) :
             /\ rd' = [r EXCEPT !.read = @ + count, !.given = @ + count,
                                !.underlayer_pos = @ + count]
             /\ ReadOk(size, SubSeq(decoded, r.given + 1, r.given + count))
    /\ UNCHANGED <<mode, damage, src, sizes_info>>

ReadFails(size) ==
    /\ Served /\ size > 0 /\ ~Sound(Started.cells)
    /\ rd' = [rd EXCEPT !.state = "Empty"]
    /\ ReadError(size)
    /\ UNCHANGED <<mode, damage, src, sizes_info>>

-----------------------------------------------------------------------------
(***************************************************************************)
(* seek.                                                                   *)
(***************************************************************************)
SeekResult(whence, by, ok) ==
    result' = [op |-> "seek", whence |-> whence, by |-> by, ok |-> ok]

Asked(whence, by) ==
    CASE whence = "Start" -> by
      [] whence = "Current" -> rd.underlayer_pos + by
      [] whence = "End" -> MaxUncompressedPos + by

(***************************************************************************)
(* SeekFrom::Current(0) tells the position and touches nothing; a place    *)
(* before the start or, from the end, behind it is refused before the      *)
(* state is touched.                                                       *)
(***************************************************************************)
Tells(whence, by) == whence = "Current" /\ by = 0

RefusedAtOnce(whence, by) ==
    \/ whence = "End" /\ (by > 0 \/ ~Indexed)
    \/ (whence = "End" => Indexed) /\ Asked(whence, by) < 0

SeekUntouched(whence, by) ==
    /\ CanCall /\ (whence = "Start" => by >= 0)
    /\ Tells(whence, by) \/ RefusedAtOnce(whence, by)
    /\ SeekResult(whence, by, Tells(whence, by))
    /\ UNCHANGED <<mode, damage, src, sizes_info, rd>>

Seeks(whence, by) ==
    /\ CanCall /\ (whence = "Start" => by >= 0)
    /\ ~Tells(whence, by) /\ ~RefusedAtOnce(whence, by)
    /\ UNCHANGED <<mode, damage, src, sizes_info>>

\* Mutant: the start of the block is taken for the place asked for.
Rounded_Not(pos) == pos

Rounded(pos) == pos - (pos % UNCOMPRESSED_DATA_SIZE)

Panic(whence, by) ==
    /\ Seeks(whence, by) /\ rd.state = "Empty"
    /\ rd' = [rd EXCEPT !.state = "Panicked"]
    /\ SeekResult(whence, by, FALSE)

(***************************************************************************)
(* SeekFrom::Start(pos): a new decompressor at the start of the block,     *)
(* whose first bytes go to a sink.                                         *)
(***************************************************************************)
SeekBlock(whence, by) ==
    LET pos == Asked(whence, by)
        start == Rounded(pos)
        inside == pos - start
        r == InDataAt(start)
    IN  /\ Seeks(whence, by) /\ rd.state # "Empty" /\ Indexed /\ PosInStream(start)
        /\ Sound(r.cells) \/ inside <= Len(Decoded(r.cells))
        /\ rd' = [r EXCEPT !.read = inside, !.given = Least(inside, Len(Decoded(r.cells))),
                           !.underlayer_pos = pos]
        /\ SeekResult(whence, by, TRUE)

SeekFails(whence, by) ==
    LET start == Rounded(Asked(whence, by))
    IN  /\ Seeks(whence, by) /\ rd.state # "Empty"
        /\ Indexed /\ PosInStream(start) =>
             start < Asked(whence, by) /\ ~Sound(InDataAt(start).cells)
        /\ rd' = [rd EXCEPT !.state = "Empty"]
        /\ SeekResult(whence, by, FALSE)

Places == {"Start", "Current", "End"}

ReaderNext ==
    \/ \E length \in 0..Len(out) : \E place \in 0..length : OpenIndexed(length, place)
    \/ \E size \in Sizes : ReadRefused(size) \/ ReadAtEnd(size) \/ ReadData(size)
                           \/ ReadFails(size)
    \/ \E whence \in Places, by \in Moves :
          \/ SeekUntouched(whence, by) \/ Panic(whence, by)
          \/ SeekBlock(whence, by) \/ SeekFails(whence, by)

-----------------------------------------------------------------------------
(***************************************************************************)
(* The types of the fields; a block is never read past its end ("Too much  *)
(* data read"), and a reader that is Ready stands at the start of a block, *)
(* so that BadAPIArgument is unreachable.                                  *)
(***************************************************************************)
ReaderTypeOK ==
    /\ WriterTypeOK
    /\ mode \in {"none", "indexed", "recovery", "failed"}
    /\ rd.state \in {"Ready", "InData", "Empty", "Panicked"}
    /\ rd.read \in Nat /\ rd.given \in 0..rd.read /\ rd.underlayer_pos \in Nat
    /\ rd.state = "InData" /\ PosInStream(rd.underlayer_pos) =>
         /\ rd.read <= rd.uncompressed_size
         /\ BlockConsumed(rd) => rd.underlayer_pos % UNCOMPRESSED_DATA_SIZE = 0
    /\ rd.state = "Ready" => rd.underlayer_pos % UNCOMPRESSED_DATA_SIZE = 0

(***************************************************************************)
(* The index serves: over a stream without a changed byte a reader that is *)
(* not Empty reads without error and reaches every byte, and it becomes    *)
(* Empty only by a seek behind the end of the last block, or to that end   *)
(* when the last block is full. The next seek of an Empty reader panics in *)
(* into_inner, which "must never happens" (compress.rs:195).               *)
(***************************************************************************)
IndexServes ==
    [][ mode = "indexed" /\ damage = 0 /\ written > 0 /\ rd.state # "Empty" =>
          /\ result'.op # "read_error"
          /\ rd'.state = "Empty" =>
               /\ result'.op = "seek"
               /\ Rounded(Asked(result'.whence, result'.by)) >= written ]_readerVars

(***************************************************************************)
(* Any sequence of reads and seeks, over a stream with a changed byte too, *)
(* is that of a cursor over the plaintext: see LayerCursor.                *)
(***************************************************************************)
Cursor == INSTANCE LayerCursor WITH
    opened <- mode = "indexed",
    content <- IF mode = "indexed" THEN Plaintext ELSE <<>>,
    pos <- IF mode = "indexed" THEN rd.underlayer_pos ELSE 0,
    promised <- mode = "indexed" /\ Indexed /\ rd.state \in {"Ready", "InData"},
    result <- IF mode = "indexed" THEN result ELSE [op |-> "none"]

LayerRefinesCursor == Cursor!CursorSpec
=============================================================================
