--------------------- MODULE CompressionTruncatedReader ---------------------
(***************************************************************************)
(* CompressionLayerTruncatedReader, which decompresses a stream of which   *)
(* any part may be missing or changed, without its index; and the whole    *)
(* compression layer, its writer and its two readers, as one specification.*)
(*                                                                         *)
(* The reader does not know where a brotli stream ends.  It gives what it  *)
(* has in its cache to the decoder; a decoder that fails may hold back     *)
(* bytes it has already decoded, so the reader starts the stream again,    *)
(* one byte at a time, from the copy BrotliStreamReader keeps of it.       *)
(***************************************************************************)
EXTENDS CompressionReader

CONSTANT TRUNCATED_READER_BUFFER_INITIAL_SIZE

ASSUME BufferAssumption == TRUNCATED_READER_BUFFER_INITIAL_SIZE \in Nat \ {0}

VARIABLES
    fs,         \* the fields of the fail-safe reader
    call,       \* the call of read in progress: where it is, and its buffer
    recovered,  \* ghost: the bytes returned
    stopped     \* ghost: read has returned an error or the end

recoveryVars == <<fs, call, recovered, stopped>>
vars == <<writerVars, readerVars, recoveryVars>>

(***************************************************************************)
(* The decoder: the stream it is in and how many bytes of it it has taken, *)
(* what it has decoded and not yet produced, and whether the stream ended. *)
(***************************************************************************)
NewBrotliState == [stream |-> -1, taken |-> 0, held |-> <<>>, ended |-> FALSE]

(***************************************************************************)
(* stream_cache and stream_read are the cache and number_of_bytes_read of  *)
(* BrotliStreamReader, inner_at the place in its source; window is the     *)
(* part of the reader's cache that the decoder has not taken, cache_len    *)
(* the size of that cache.                                                 *)
(***************************************************************************)
FreshRecovery ==
    [inner_at |-> 0, stream_cache |-> <<>>, stream_read |-> 0,
     window |-> <<>>, cache_len |-> TRUNCATED_READER_BUFFER_INITIAL_SIZE,
     brotli_state |-> NewBrotliState, uncompressed_read |-> 0,
     byte_by_byte |-> FALSE, streams |-> 0, rewound_in |-> 0]

Idle == [pc |-> "idle", size |-> 0, skip |-> 0]

RecoveryInit ==
    fs = FreshRecovery /\ call = Idle /\ recovered = <<>> /\ stopped = FALSE

OpenRecovery(length, place) ==
    /\ mode = "none" /\ Damages(length, place)
    /\ mode' = "recovery" /\ damage' = place /\ src' = Left(length, place)
    /\ result' = [op |-> "open"]
    /\ UNCHANGED <<sizes_info, rd, recoveryVars>>

-----------------------------------------------------------------------------
(***************************************************************************)
(* BrotliDecompressStream, over the window.                                *)
(***************************************************************************)
\* The decoder after it took n bytes of the window.
After(n) ==
    [fs.brotli_state EXCEPT
        !.stream = IF n > 0 THEN fs.window[1].stream ELSE @,
        !.taken = @ + n,
        !.held = @ \o FlattenSeq([i \in 1..n |-> fs.window[i].data]),
        !.ended = @ \/ (n > 0 /\ fs.window[n].last)]

\* The numbers of bytes of the window that continue the stream, or begin one.
Takable ==
    LET state == fs.brotli_state IN
    {n \in 0..(IF state.ended THEN 0 ELSE Len(fs.window)) :
        \A i \in 1..n :
            /\ fs.window[i].kind = "brotli"
            /\ fs.window[i].stream =
                 (IF state.stream = -1 THEN fs.window[1].stream ELSE state.stream)
            /\ fs.window[i].part = state.taken + i
            /\ i < n => ~fs.window[i].last}

Furthest == Max(Takable)
Room == IF call.pc = "skip" THEN call.skip ELSE call.size

(***************************************************************************)
(* How a call of read, or of the copy to the sink inside it, goes on with  *)
(* the bytes the decoder has produced.                                     *)
(***************************************************************************)
Returned(data) ==
    IF call.pc = "skip"
    THEN /\ call' = [call EXCEPT !.skip = @ - Len(data),
                                 !.pc = IF Len(data) = 0 \/ call.skip = Len(data)
                                        THEN "read" ELSE "skip"]
         /\ UNCHANGED <<recovered, stopped, result>>
    ELSE /\ call' = Idle
         /\ recovered' = recovered \o data
         /\ stopped' = (data = <<>>)
         /\ result' = [op |-> "read", size |-> call.size, data |-> data]

Failed ==
    /\ call' = Idle /\ stopped' = TRUE
    /\ result' = [op |-> "read_error", size |-> call.size]
    /\ UNCHANGED recovered

\* copy_within panics when it is told to start behind the end of the copy.
Panics ==
    /\ call' = Idle /\ stopped' = TRUE
    /\ result' = [op |-> "panic", size |-> call.size]
    /\ UNCHANGED recovered

InCall == call.pc # "idle" /\ UNCHANGED <<mode, damage, src, sizes_info, rd>>

StartRead(size) ==
    /\ mode = "recovery" /\ call.pc = "idle" /\ ~stopped /\ size > 0
    /\ call' = [Idle EXCEPT !.pc = "read", !.size = size]
    /\ UNCHANGED <<mode, damage, src, sizes_info, rd, result, fs, recovered, stopped>>

(***************************************************************************)
(* new_brotli_stream, with the bytes of the window as the offset; empty    *)
(* when more bytes are left in the window than the copy holds.             *)
(***************************************************************************)
StreamCacheAfter(remaining) ==
    IF remaining > Len(fs.stream_cache) THEN {}
    ELSE {SubSeq(fs.stream_cache, remaining + 1, Len(fs.stream_cache))}

(***************************************************************************)
(* ResultSuccess.  When nothing was produced the call reads on.            *)
(***************************************************************************)
StreamEnds ==
    LET state == After(Furthest)
        rest == SubSeq(fs.window, Furthest + 1, Len(fs.window))
        ended == [fs EXCEPT !.window = rest, !.brotli_state = NewBrotliState,
                            !.uncompressed_read = 0, !.streams = @ + 1]
    IN  /\ InCall /\ state.ended /\ Len(state.held) <= Room
        /\ IF StreamCacheAfter(Len(rest)) = {}
           THEN fs' = ended /\ Panics
           ELSE /\ \E kept \in StreamCacheAfter(Len(rest)) :
                     fs' = [ended EXCEPT !.stream_cache = kept, !.stream_read = Len(kept)]
                /\ IF state.held = <<>>
                   THEN UNCHANGED <<call, recovered, stopped, result>>
                   ELSE Returned(state.held)

(***************************************************************************)
(* NeedsMoreOutput: more was decoded than the buffer holds.                *)
(***************************************************************************)
BufferFull ==
    /\ InCall
    /\ \E n \in Takable :
         LET state == After(n) IN
         /\ Len(state.held) > Room
         /\ fs' = [fs EXCEPT
                     !.window = SubSeq(@, n + 1, Len(@)),
                     !.brotli_state =
                        [state EXCEPT !.held = SubSeq(@, Room + 1, Len(@))],
                     !.uncompressed_read = @ + Room]
         /\ Returned(SubSeq(state.held, 1, Room))

\* NeedsMoreInput: the decoder has taken all of the window.
Starved == /\ Furthest = Len(fs.window) /\ ~After(Furthest).ended
           /\ Len(After(Furthest).held) <= Room

InputUsed ==
    LET state == After(Furthest) IN
    /\ InCall /\ Starved /\ state.held # <<>>
    /\ fs' = [fs EXCEPT !.window = <<>>, !.brotli_state = [state EXCEPT !.held = <<>>],
                        !.uncompressed_read = @ + Len(state.held)]
    /\ Returned(state.held)

Rewound == fs.stream_read < Len(fs.stream_cache)

(***************************************************************************)
(* NeedsMoreInput without output: the cache is filled, from the copy of    *)
(* the stream after a rewind, else from the inner layer, which may return  *)
(* less than asked for.                                                    *)
(***************************************************************************)
Refill ==
    LET taken == [fs EXCEPT !.brotli_state = After(Furthest)]
        cached == Least(Len(fs.stream_cache) - fs.stream_read, fs.cache_len)
    IN  /\ InCall /\ Starved /\ After(Furthest).held = <<>>
        /\ \/ /\ Rewound
              /\ fs' = [taken EXCEPT
                          !.window = SubSeq(fs.stream_cache, fs.stream_read + 1,
                                            fs.stream_read + cached),
                          !.stream_read = @ + cached]
           \/ /\ ~Rewound
              /\ \E n \in 1..Least(fs.cache_len, Len(src) - fs.inner_at) :
                   LET new == SubSeq(src, fs.inner_at + 1, fs.inner_at + n) IN
                   fs' = [taken EXCEPT !.window = new, !.inner_at = @ + n,
                                       !.stream_cache = @ \o new, !.stream_read = @ + n]
        /\ UNCHANGED <<call, recovered, stopped, result>>

InnerEnds ==
    /\ InCall /\ Starved /\ After(Furthest).held = <<>>
    /\ ~Rewound /\ fs.inner_at = Len(src)
    /\ fs' = [fs EXCEPT !.window = <<>>, !.brotli_state = After(Furthest)]
    /\ IF fs.uncompressed_read > 0 THEN Failed ELSE Returned(<<>>)

\* Mutant: the bytes returned before the rewind are not skipped.
Skipped_Nothing == 0

Skipped == fs.uncompressed_read

(***************************************************************************)
(* ResultFailure: the first one starts the stream again, byte by byte, and *)
(* passes over what was returned of it; the second one is final.           *)
(***************************************************************************)
Unreadable == InCall /\ Furthest < Len(fs.window) /\ ~After(Furthest).ended

\* Mutant: the reader does not remember that it reads byte by byte.
Rewind_Again ==
    /\ Unreadable
    /\ fs' = [fs EXCEPT !.cache_len = 1, !.window = <<>>,
                        !.brotli_state = NewBrotliState, !.uncompressed_read = 0,
                        !.stream_read = 0]
    /\ call' = [call EXCEPT !.pc = IF Skipped = 0 THEN "read" ELSE "skip",
                            !.skip = Skipped]
    /\ UNCHANGED <<recovered, stopped, result>>

Rewind ==
    /\ Unreadable /\ ~fs.byte_by_byte
    /\ fs' = [fs EXCEPT !.byte_by_byte = TRUE, !.cache_len = 1, !.window = <<>>,
                        !.brotli_state = NewBrotliState, !.uncompressed_read = 0,
                        !.stream_read = 0, !.rewound_in = fs.streams]
    /\ call' = [call EXCEPT !.pc = IF Skipped = 0 THEN "read" ELSE "skip",
                            !.skip = Skipped]
    /\ UNCHANGED <<recovered, stopped, result>>

GivesUp == Unreadable /\ fs.byte_by_byte /\ Failed /\ UNCHANGED fs

ReadTurn == \/ StreamEnds \/ BufferFull \/ InputUsed \/ Refill \/ InnerEnds
            \/ Rewind \/ GivesUp

-----------------------------------------------------------------------------
Next ==
    \/ mode = "none" /\ WriterNext /\ UNCHANGED <<readerVars, recoveryVars>>
    \/ ReaderNext /\ UNCHANGED <<writerVars, recoveryVars>>
    \/ \E length \in 0..Len(out) : \E place \in 0..length :
          OpenRecovery(length, place) /\ UNCHANGED writerVars
    \/ \E size \in Sizes : StartRead(size) /\ UNCHANGED writerVars
    \/ ReadTurn /\ UNCHANGED writerVars

Init == WriterInit /\ ReaderInit /\ RecoveryInit

(***************************************************************************)
(* A call of read runs in its caller's thread until it returns.            *)
(***************************************************************************)
Spec == Init /\ [][Next]_vars /\ WF_vars(ReadTurn /\ UNCHANGED writerVars)

-----------------------------------------------------------------------------
(***************************************************************************)
(* A call of the fail-safe read returns, whatever the stream: neither the  *)
(* recursion of read nor the second decoding of a stream goes on for ever. *)
(***************************************************************************)
ReadReturns == (call.pc # "idle") ~> (call.pc = "idle")

\* The bytes of the first block whose part of the brotli stream is left.
FirstBlockLeft ==
    LET intact == {n \in 0..Len(src) :
                     \A i \in 1..n : src[i].kind = "brotli" /\ src[i].stream = 0}
    IN  FlattenSeq([i \in 1..Max(intact) |-> src[i].data])

(***************************************************************************)
(* Recovery of a stream in which nothing after the first block had to be   *)
(* decoded twice returns a prefix of the plaintext; and of the first block *)
(* every byte that comes before the cut or the changed byte is returned,   *)
(* also those a failing decoder had held back.                             *)
(***************************************************************************)
RecoveredInOrder ==
    mode = "recovery" =>
      /\ fs.rewound_in = 0 => IsPrefix(recovered, Plaintext)
      /\ stopped => IsPrefix(FirstBlockLeft, recovered)

(***************************************************************************)
(* "Drop the previous brotli stream from the cache, move cached part of    *)
(* the new brotli stream to start of cache" (compress.rs:1073): as long as *)
(* nothing was decoded twice, the copy is what was read of the current     *)
(* stream.                                                                 *)
(***************************************************************************)
NewStreamKept ==
    mode = "recovery" /\ ~fs.byte_by_byte /\ ~stopped =>
      fs.stream_cache =
        SubSeq(src, fs.inner_at - Len(fs.window) - fs.brotli_state.taken + 1, fs.inner_at)
=============================================================================
