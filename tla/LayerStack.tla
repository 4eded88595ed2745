----------------------------- MODULE LayerStack -----------------------------
(***************************************************************************)
(* A seekable source under RawLayerReader and up to three                  *)
(* StripHeadTailReader, each a window on the one below it, with its own    *)
(* count of where it stands; and the deserializers that read fields of     *)
(* them.                                                                   *)
(*                                                                         *)
(* A field (a magic, a length, options, a key block, ...) is one cell: the *)
(* eight bytes of End(-8) are one cell here.  A call returns the set of    *)
(* its possible results, each with the source after it.                    *)
(***************************************************************************)
EXTENDS Integers, Sequences, FiniteSets

CONSTANT
    Misread     \* the numbers that a cell which is no length may be taken for

ASSUME MisreadAssumption == Misread \subseteq Nat

Source(bytes) == [bytes |-> bytes, pos |-> 0, offset_pos |-> 0, strips |-> <<>>]

Ok(io, value) == {[ok |-> TRUE, io |-> io, value |-> value]}
Error(why) == {[ok |-> FALSE, error |-> why]}

(***************************************************************************)
(* The ? of Rust: the first error is the result.                           *)
(***************************************************************************)
Then(results, Rest(_)) == UNION {IF r.ok THEN Rest(r) ELSE {r} : r \in results}

Least(a, b) == IF a < b THEN a ELSE b

-----------------------------------------------------------------------------
(***************************************************************************)
(* The source itself, a file: a place before its start is refused, one     *)
(* behind its end is not.                                                  *)
(***************************************************************************)
SeekSource(io, whence, by) ==
    LET to == CASE whence = "Start" -> by
                [] whence = "Current" -> io.pos + by
                [] whence = "End" -> Len(io.bytes) + by
    IN  IF to < 0 THEN Error("io") ELSE Ok([io EXCEPT !.pos = to], to)

(***************************************************************************)
(* RawLayerReader: positions count from offset_pos; a move to before it    *)
(* ends on it.                                                             *)
(***************************************************************************)
ResetPosition(io) == [io EXCEPT !.offset_pos = io.pos]

SeekRaw(io, whence, by) ==
    IF whence = "Start"
    THEN Then(SeekSource(io, "Start", io.offset_pos + by), LAMBDA r : Ok(r.io, by))
    ELSE Then(SeekSource(io, whence, by), LAMBDA r :
           IF r.value < io.offset_pos
           THEN Then(SeekSource(r.io, "Start", io.offset_pos), LAMBDA s : Ok(s.io, 0))
           ELSE Ok(r.io, r.value - io.offset_pos))

-----------------------------------------------------------------------------
(***************************************************************************)
(* StripHeadTailReader, over the layers below it.                          *)
(***************************************************************************)
Strip(io, head, tail, length) ==
    IF head + tail > length THEN Error("WrongReaderState")
    ELSE Ok([io EXCEPT !.strips = Append(@, [head_len |-> head, tail_len |-> tail,
                                             inner_len |-> length, current |-> 0])], 0)

\* Mutant: the tail is counted from the end of the window.
StripLength_HeadKept(s) == s.inner_len - s.tail_len

StripLength(s) == s.inner_len - s.head_len - s.tail_len

\* What a seek asks of the layer below.
Lowered(io, depth, whence, by) ==
    CASE whence = "Start" -> by + io.strips[depth].head_len
      [] whence = "Current" -> by
      [] whence = "End" -> by - io.strips[depth].tail_len

StandAt(io, depth, current) == [io EXCEPT !.strips[depth].current = current]

SeekStrip(io, depth, whence, by, below) ==
    LET s == io.strips[depth]
        current == CASE whence = "Start" -> by
                     [] whence = "Current" -> s.current + by
                     [] whence = "End" -> StripLength(s) + by
        refused == CASE whence = "Start" -> by + s.head_len > s.inner_len - s.tail_len
                     [] whence = "Current" -> current < 0 \/ current > StripLength(s)
                     [] whence = "End" -> current < 0 \/ by > 0
    IN  IF refused THEN Error("InvalidInput")
        ELSE Then(below, LAMBDA r : Ok(StandAt(r.io, depth, current), current))

SeekOne(io, whence, by) ==
    SeekStrip(io, 1, whence, by, SeekRaw(io, whence, Lowered(io, 1, whence, by)))
SeekTwo(io, whence, by) ==
    SeekStrip(io, 2, whence, by, SeekOne(io, whence, Lowered(io, 2, whence, by)))
SeekThree(io, whence, by) ==
    SeekStrip(io, 3, whence, by, SeekTwo(io, whence, Lowered(io, 3, whence, by)))

Seek(io, whence, by) ==
    CASE Len(io.strips) = 0 -> SeekRaw(io, whence, by)
      [] Len(io.strips) = 1 -> SeekOne(io, whence, by)
      [] Len(io.strips) = 2 -> SeekTwo(io, whence, by)
      [] Len(io.strips) = 3 -> SeekThree(io, whence, by)

\* stream_position.
Position(io) == Seek(io, "Current", 0)

-----------------------------------------------------------------------------
(***************************************************************************)
(* read: each window lets through what is left of it, and counts what came *)
(* through.  read_exact, of one field, and read_to_end.                    *)
(***************************************************************************)
Left(s) == StripLength(s) - s.current

MostReadable(io) ==
    LET windows == {Left(io.strips[i]) : i \in DOMAIN io.strips}
    IN  CHOOSE n \in windows \cup {Len(io.bytes) - io.pos} :
          \A m \in windows \cup {Len(io.bytes) - io.pos} : n <= m

Advance(strips, n) == [i \in DOMAIN strips |-> [strips[i] EXCEPT !.current = @ + n]]

ReadSome(io, n) ==
    Ok([io EXCEPT !.pos = @ + n, !.strips = Advance(@, n)],
       SubSeq(io.bytes, io.pos + 1, io.pos + n))

Get(io) ==
    IF MostReadable(io) < 1 THEN Error("DeserializationError")
    ELSE Then(ReadSome(io, 1), LAMBDA r : Ok(r.io, r.value[1]))

ReadToEnd(io) == ReadSome(io, IF MostReadable(io) < 0 THEN 0 ELSE MostReadable(io))

(***************************************************************************)
(* A length field.  Any other cell in its place is still some number.      *)
(***************************************************************************)
Length(n) == [t |-> "length", n |-> n]

GetLength(io) ==
    Then(Get(io), LAMBDA r :
      IF r.value.t = "length" THEN Ok(r.io, r.value.n)
      ELSE UNION {Ok(r.io, n) : n \in Misread})

(***************************************************************************)
(* Opts: one cell here, whatever options of a later version it holds; any  *)
(* other cell is refused, or taken for options that reach over what        *)
(* follows.                                                                *)
(***************************************************************************)
Opts == [t |-> "opts"]

GetOpts(io) ==
    Then(Get(io), LAMBDA r :
      IF r.value = Opts THEN Ok(r.io, 0)
      ELSE Error("DeserializationError")
           \cup UNION {ReadSome(r.io, Least(n, MostReadable(r.io))) : n \in Misread})
=============================================================================
