-------------------------- MODULE EncryptionReader --------------------------
(***************************************************************************)
(* InternalEncryptionLayerReader over what is left of the writer's stream: *)
(* the seekable reader of a whole archive (mode "indexed") and the         *)
(* fail-safe reader of a truncated one, which returns only authenticated   *)
(* data or all data.                                                       *)
(*                                                                         *)
(* The reader keeps two caches of one chunk each: the chunk being read,    *)
(* decrypted, and the next one, as it was read from the inner layer.       *)
(***************************************************************************)
EXTENDS EncryptionWriter, SequencesExt

CONSTANTS
    Sizes,      \* lengths of the buffers given to read
    Moves       \* signed distances of seeks

(***************************************************************************)
(* read_internal compares a position that starts behind the chunk head     *)
(* with the size of plaintext and tag; get_end_of_tag_pos takes what fills *)
(* a cache for more than a final block.                                    *)
(***************************************************************************)
ASSUME ReaderAssumption ==
    /\ CHUNK_HEAD_SIZE = TAG_LENGTH
    /\ MAGIC_LENGTH + 1 < CHUNK_HEAD_SIZE + NORMAL_CHUNK_PT_SIZE
    /\ Sizes \subseteq Nat /\ Moves \subseteq Int

VARIABLES
    damage,         \* ghost: the place of a byte that was changed, or 0
    mode,           \* "none", "indexed", "authenticated", "unauthenticated", "failed"
    rd,             \* the fields of the reader, and what its inner layer holds
    result,         \* the call just made and what it returned
    recovered,      \* ghost: the bytes a fail-safe reader returned until the
                    \* cache could not be renewed
    stopped,        \* ghost: one of its reads failed or returned nothing
    lost,           \* ghost: the cache could not be renewed, or had no data
    strays          \* ghost: the bytes it returned after that

recoveryVars == <<recovered, stopped, lost, strays>>
readerVars == <<damage, mode, rd, result, recoveryVars>>
vars == <<writerVars, readerVars>>

M0_CHUNK_SIZE == CHUNK_HEAD_SIZE + NORMAL_CHUNK_PT_SIZE + TAG_LENGTH
NORMAL_CHUNK_PT_AND_TAG_SIZE == NORMAL_CHUNK_PT_SIZE + TAG_LENGTH
FINAL_INFO_SIZE_WOM == 1 + TAG_LENGTH
FINAL_INFO_SIZE == MAGIC_LENGTH + FINAL_INFO_SIZE_WOM
END_LENGTH == Len(END_OF_ENCRYPTED_INNER_LAYER_MAGIC)

Least(a, b) == IF a < b THEN a ELSE b
Greatest(a, b) == IF a < b THEN b ELSE a

FailSafe == {"authenticated", "unauthenticated"}

(***************************************************************************)
(* src is the inner layer and inner the place in it; cache and at are the  *)
(* cursor chunk_cache, next is next_chunk_cache, size all_plaintext_size   *)
(* and pos current_position_in_this_layer.                                 *)
(***************************************************************************)
Fresh(src) ==
    [src |-> src, inner |-> 0, cache |-> <<>>, at |-> 0, next |-> <<>>,
     size |-> 0, pos |-> 0]

ReaderInit ==
    /\ damage = 0 /\ mode = "none" /\ rd = Fresh(<<>>)
    /\ result = [op |-> "none"]
    /\ recovered = <<>> /\ stopped = FALSE /\ lost = FALSE /\ strays = <<>>

(***************************************************************************)
(* The fields after the next chunk was read from the inner layer.          *)
(***************************************************************************)
WithNext(r) ==
    LET to == Least(r.inner + M0_CHUNK_SIZE, Len(r.src))
    IN  [r EXCEPT !.next = SubSeq(r.src, r.inner + 1, to), !.inner = to]

\* Mutant: a plaintext that ends with a full chunk is counted as one chunk more.
LastDataChunkNumber_Floor(size) == size \div NORMAL_CHUNK_PT_SIZE

LastDataChunkNumber(size) ==
    IF size % NORMAL_CHUNK_PT_SIZE = 0
    THEN Greatest((size \div NORMAL_CHUNK_PT_SIZE) - 1, 0)
    ELSE size \div NORMAL_CHUNK_PT_SIZE

AtLeastInLastDataChunk(r) ==
    r.pos >= LastDataChunkNumber(r.size) * NORMAL_CHUNK_PT_SIZE

(***************************************************************************)
(* final_block_magic_scan, in the two caches and across their boundary.    *)
(* No other bytes look like the magic.                                     *)
(***************************************************************************)
FinalBlockMagicAt(r) ==
    LET both == r.cache \o r.next
    IN  {p \in 0..Len(both) - MAGIC_LENGTH :
            SubSeq(both, p + 1, p + MAGIC_LENGTH) = FINAL_BLOCK_MAGIC}

\* Mutant: the last bytes are given up as if they were the tag.
EndOfFakeTag_Within(r) == Len(r.cache)

(***************************************************************************)
(* A tag that nothing marks the end of is taken for ciphertext.            *)
(***************************************************************************)
EndOfFakeTag(r) == Len(r.cache) + TAG_LENGTH

(***************************************************************************)
(* get_end_of_tag_pos: where the tag ends, as a set that is empty when     *)
(* that is an error.                                                       *)
(***************************************************************************)
EndOfTagFailSafe(m, r) ==
    IF Len(r.cache) = M0_CHUNK_SIZE /\ Len(r.next) > FINAL_INFO_SIZE THEN {M0_CHUNK_SIZE}
    ELSE IF Len(r.cache) < TAG_LENGTH THEN {}
    ELSE IF FinalBlockMagicAt(r) # {} THEN FinalBlockMagicAt(r)
    ELSE IF m = "unauthenticated" THEN {EndOfFakeTag(r)}
    ELSE {}

\* Mutant: the head is left out of the length of the last chunk.
EndOfLastTag_NoHead(r) == Greatest(r.size - r.pos, 0) + TAG_LENGTH

(***************************************************************************)
(* The end of the tag of the last data chunk of a whole archive.           *)
(***************************************************************************)
EndOfLastTag(r) == Greatest(r.size - r.pos, 0) + TAG_LENGTH + CHUNK_HEAD_SIZE

EndOfTag(m, r) ==
    IF m = "indexed" /\ AtLeastInLastDataChunk(r)
    THEN {EndOfLastTag(r)}
    ELSE EndOfTagFailSafe(m, r)

(***************************************************************************)
(* Decryption of a run of cells under the cipher of a chunk.               *)
(***************************************************************************)
Decrypt(ctr, cells) ==
    [i \in 1..Len(cells) |->
        IF cells[i].kind = "cipher" /\ cells[i] = Cipher(ctr, i, cells[i].byte)
        THEN Plain(cells[i].byte)
        ELSE [kind |-> "garbage"]]

\* Mutant: the tag is there but not compared.
Verified_Length(ctr, aad, text, tag) == Len(tag) = TAG_LENGTH

Verified(ctr, aad, text, tag) == tag = Tag(ctr, aad, text)

(***************************************************************************)
(* load_in_cache.  The caches are exchanged and the next chunk is read     *)
(* before anything is decided: "none" and "error" leave the caches so,     *)
(* with the position at 0.                                                 *)
(***************************************************************************)
LoadInCache(m, r) ==
    LET l == WithNext([r EXCEPT !.cache = r.next, !.at = 0])
        ends == EndOfTag(m, l)
        end == CHOOSE e \in ends : TRUE
        text_end == Greatest(end - TAG_LENGTH, 0)
        data == SubSeq(l.cache, CHUNK_HEAD_SIZE + 1, text_end)
        ctr == (l.pos \div NORMAL_CHUNK_PT_SIZE) + FIRST_DATA_CHUNK_NUMBER
        head == SubSeq(l.cache, 1, CHUNK_HEAD_SIZE)
        plain == head \o Decrypt(ctr, data)
        rest == SubSeq(l.cache, text_end + 1, Len(l.cache))
        tag == SubSeq(rest, 1, Least(end - text_end, Len(rest)))
    IN  IF m = "indexed" /\ AtLeastInLastDataChunk(l) /\ l.pos >= l.size
        THEN [outcome |-> "none", reader |-> l]
        ELSE IF ends = {}
        THEN [outcome |-> "error", reader |-> l]
        ELSE IF text_end = 0
        THEN [outcome |-> "none", reader |-> l]
        ELSE IF text_end \notin CHUNK_HEAD_SIZE..Len(l.cache)
        THEN [outcome |-> "error", reader |-> l]
        ELSE IF m # "unauthenticated" /\ ~Verified(ctr, ASSOCIATED_DATA, data, tag)
        THEN [outcome |-> "error", reader |-> [l EXCEPT !.cache = plain \o rest]]
        ELSE [outcome |-> "some",
              reader |-> [l EXCEPT !.cache = plain, !.at = CHUNK_HEAD_SIZE]]

\* Mutant: the heads of the chunks before are left out.
InnerPosition_NoHeads(position) ==
    (position \div NORMAL_CHUNK_PT_SIZE) * NORMAL_CHUNK_PT_AND_TAG_SIZE
        + (position % NORMAL_CHUNK_PT_SIZE) + CHUNK_HEAD_SIZE

(***************************************************************************)
(* this_layer_position_to_inner_position.                                  *)
(***************************************************************************)
InnerPosition(position) ==
    (position \div NORMAL_CHUNK_PT_SIZE) * M0_CHUNK_SIZE
        + (position % NORMAL_CHUNK_PT_SIZE) + CHUNK_HEAD_SIZE

(***************************************************************************)
(* seek to asked from the start, as what it leaves and whether it fails.   *)
(* The inner layer refuses a place beyond its end.                         *)
(***************************************************************************)
SeekStart(r, asked) ==
    LET chunk == InnerPosition(asked) \div M0_CHUNK_SIZE
        within == (InnerPosition(asked) % M0_CHUNK_SIZE) - CHUNK_HEAD_SIZE
        moved == [r EXCEPT !.inner = chunk * M0_CHUNK_SIZE,
                           !.pos = chunk * NORMAL_CHUNK_PT_SIZE]
        loaded == LoadInCache("indexed", WithNext(moved))
    IN  IF chunk * M0_CHUNK_SIZE > Len(r.src)
        THEN [ok |-> FALSE, reader |-> r]
        ELSE IF loaded.outcome = "error"
        THEN [ok |-> FALSE, reader |-> loaded.reader]
        ELSE [ok |-> TRUE,
              reader |-> [loaded.reader EXCEPT !.at = CHUNK_HEAD_SIZE + within,
                                               !.pos = @ + within]]

-----------------------------------------------------------------------------
(***************************************************************************)
(* The writer stops, finished or not, and a prefix of its output is found  *)
(* again, one byte of it changed or none.                                  *)
(***************************************************************************)
Stored(length, place) ==
    [i \in 1..length |-> IF i = place THEN [kind |-> "changed"] ELSE out[i]]

(***************************************************************************)
(* set_all_plaintext_size.                                                 *)
(***************************************************************************)
AllPlaintextSize(input_size) ==
    LET data == Greatest(input_size - (END_LENGTH + FINAL_INFO_SIZE + CHUNK_HEAD_SIZE), 0)
        chunks == data \div M0_CHUNK_SIZE
        rest == data % M0_CHUNK_SIZE
    IN  chunks * NORMAL_CHUNK_PT_SIZE + (IF rest = 0 THEN 0 ELSE rest - TAG_LENGTH)

(***************************************************************************)
(* check_last_block, on a stream of size bytes of plaintext.               *)
(***************************************************************************)
LastBlockOK(src, size) ==
    LET start == Len(src) - (FINAL_INFO_SIZE_WOM + END_LENGTH)
        ctr == LastDataChunkNumber(size) + 1 + FIRST_DATA_CHUNK_NUMBER
        content == SubSeq(src, start + 1, start + 1)
        tag == SubSeq(src, start + 2, start + FINAL_INFO_SIZE_WOM)
    IN  /\ start >= 0
        /\ Decrypt(ctr, content) = <<Plain(FINAL_BLOCK_CONTENT)>>
        /\ Verified(ctr, FINAL_ASSOCIATED_DATA, content, tag)

OpenFails(asked, src) ==
    /\ mode' = "failed" /\ rd' = Fresh(src) /\ stopped' = (asked \in FailSafe)

(***************************************************************************)
(* EncryptionLayerReader: new and initialize.                              *)
(***************************************************************************)
OpenIndexed(src) ==
    LET size == AllPlaintextSize(Len(src))
        rewound == SeekStart([Fresh(src) EXCEPT !.size = size], 0)
    IN  IF size >= 0 /\ LastBlockOK(src, size) /\ rewound.ok
        THEN mode' = "indexed" /\ rd' = rewound.reader /\ UNCHANGED stopped
        ELSE OpenFails("indexed", src)

(***************************************************************************)
(* EncryptionLayerTruncatedReader::new_skip_header.                        *)
(***************************************************************************)
OpenFailSafe(m, src) ==
    LET loaded == LoadInCache(m, WithNext(Fresh(src)))
    IN  IF loaded.outcome # "error"
        THEN mode' = m /\ rd' = loaded.reader /\ UNCHANGED stopped
        ELSE OpenFails(m, src)

Open(m, length, place) ==
    /\ mode = "none" /\ ~torn
    /\ IF m = "indexed"
       THEN OpenIndexed(Stored(length, place))
       ELSE OpenFailSafe(m, Stored(length, place))
    /\ damage' = place
    /\ result' = [op |-> "open", asked |-> m]
    /\ UNCHANGED <<writerVars, recovered, lost, strays>>

(***************************************************************************)
(* The bytes one read may take from the cache.                             *)
(***************************************************************************)
Available(r) ==
    Greatest(0, Least(NORMAL_CHUNK_PT_AND_TAG_SIZE - r.at, Len(r.cache) - r.at))

(***************************************************************************)
(* read_internal; a consumed cache is renewed first.                       *)
(***************************************************************************)
Read(size) ==
    LET loaded == IF rd.at = NORMAL_CHUNK_PT_AND_TAG_SIZE
                  THEN LoadInCache(mode, rd)
                  ELSE [outcome |-> "some", reader |-> rd]
        r == loaded.reader
        count == IF loaded.outcome = "some" THEN Least(size, Available(r)) ELSE 0
        data == SubSeq(r.cache, r.at + 1, r.at + count)
        ends == loaded.outcome # "some" \/ (count = 0 /\ size > 0)
    IN  /\ mode \in FailSafe \cup {"indexed"}
        /\ UNCHANGED <<writerVars, damage, mode>>
        /\ rd' = [r EXCEPT !.at = @ + count, !.pos = @ + count]
        /\ result' = IF loaded.outcome = "error"
                     THEN [op |-> "read_error", size |-> size]
                     ELSE [op |-> "read", size |-> size, data |-> data]
        /\ IF mode \in FailSafe
           THEN /\ stopped' = (stopped \/ ends)
                /\ lost' = (lost \/ loaded.outcome # "some")
                /\ recovered' = (IF lost THEN recovered ELSE recovered \o data)
                /\ strays' = (IF lost THEN strays \o data ELSE strays)
           ELSE UNCHANGED recoveryVars

Asked(whence, by) ==
    CASE whence = "Start" -> by
      [] whence = "Current" -> rd.pos + by
      [] whence = "End" -> rd.size + by

(***************************************************************************)
(* seek: SeekFrom::Start takes no negative offset, SeekFrom::End no        *)
(* positive one, and SeekFrom::Current(0) only tells the position.         *)
(***************************************************************************)
Seek(whence, by) ==
    LET sought == SeekStart(rd, Asked(whence, by))
        refused == Asked(whence, by) < 0 \/ (whence = "End" /\ by > 0)
        told == whence = "Current" /\ by = 0
    IN  /\ mode = "indexed"
        /\ whence = "Start" => by >= 0
        /\ UNCHANGED <<writerVars, damage, mode, recoveryVars>>
        /\ rd' = IF told \/ refused THEN rd ELSE sought.reader
        /\ result' = [op |-> "seek", whence |-> whence, by |-> by,
                      ok |-> told \/ (~refused /\ sought.ok)]

Places == {"Start", "Current", "End"}

Writing == mode = "none" /\ WriterNext /\ UNCHANGED readerVars

Next ==
    \/ Writing
    \/ \E m \in FailSafe \cup {"indexed"}, length \in 0..Len(out) :
         \E place \in 0..length : Open(m, length, place)
    \/ \E size \in Sizes : Read(size)
    \/ \E whence \in Places, by \in Moves : Seek(whence, by)

Init == WriterInit /\ ReaderInit
Spec == Init /\ [][Next]_vars

-----------------------------------------------------------------------------
(***************************************************************************)
(* The state functions the properties are about.                           *)
(***************************************************************************)
Plaintext == [i \in 1..written |-> Plain(i)]

\* What the indexed reader is given: the stream but for the tail that
\* EncryptionLayerReader strips.
Whole == finalized /\ rd.src = SubSeq(out, 1, Len(out) - 1)

(***************************************************************************)
(* The caches and the positions agree with each other and with the stream: *)
(* what the reader promises its caller is exact in these states.           *)
(***************************************************************************)
InStep ==
    LET start == rd.pos - (rd.at - CHUNK_HEAD_SIZE)
        chunk == start \div NORMAL_CHUNK_PT_SIZE
        behind == Least((chunk + 2) * M0_CHUNK_SIZE, Len(rd.src))
    IN  /\ mode = "indexed"
        /\ rd.at >= CHUNK_HEAD_SIZE
        /\ start >= 0 /\ start % NORMAL_CHUNK_PT_SIZE = 0 /\ start < written
        /\ SubSeq(rd.cache, CHUNK_HEAD_SIZE + 1, Len(rd.cache))
             = SubSeq(Plaintext, start + 1, Least(start + NORMAL_CHUNK_PT_SIZE, written))
        /\ rd.inner = behind
        /\ rd.next = SubSeq(rd.src, (chunk + 1) * M0_CHUNK_SIZE + 1, behind)

\* A fail-safe reader was asked for in mode m, and opened or not.
Recovering(m) == mode = m \/ (mode = "failed" /\ result.asked = m)

(***************************************************************************)
(* Opening an archive in full succeeds exactly on a whole, finalized       *)
(* stream (a changed byte decides too), whatever the length of the         *)
(* plaintext, and finds that length: the writer's count of chunks, the one *)
(* initialize derives from the length and the nonce of the final block     *)
(* agree.                                                                  *)
(***************************************************************************)
OpensWholeStreamsOnly ==
    /\ mode = "indexed" /\ damage = 0 => Whole /\ rd.size = written
    /\ result = [op |-> "open", asked |-> "indexed"] /\ damage = 0 /\ Whole
         => mode = "indexed"
    /\ mode = "indexed" => Len(rd.src) = Len(out) - 1 /\ finalized

(***************************************************************************)
(* As long as no byte of the stream was changed, no read fails, and a seek *)
(* fails only where it names no byte of the plaintext.                     *)
(***************************************************************************)
UndamagedServes ==
    [][ mode = "indexed" /\ damage = 0 =>
          /\ result'.op # "read_error"
          /\ result'.op = "seek" /\ ~result'.ok =>
               Asked(result'.whence, result'.by) \notin 0..written - 1 ]_vars

(***************************************************************************)
(* Any sequence of reads and seeks, over a stream with a changed byte too, *)
(* is that of a cursor over the plaintext: see LayerCursor.                *)
(***************************************************************************)
Cursor == INSTANCE LayerCursor WITH
    opened <- mode = "indexed",
    content <- IF mode = "indexed" THEN Plaintext ELSE <<>>,
    pos <- IF InStep THEN rd.pos ELSE 0,
    promised <- InStep,
    result <- IF mode = "indexed" THEN result ELSE [op |-> "none"]

LayerRefinesCursor == Cursor!CursorSpec

(***************************************************************************)
(* Until load_in_cache first fails or finds no more data, the reads of     *)
(* authenticated recovery return a prefix of the plaintext, wherever the   *)
(* stream was cut and whichever byte of it was changed; and the end of a   *)
(* last chunk that is not full stays the end, however often it is read on. *)
(* What is returned after that is the subject of OnlyAuthenticatedData.    *)
(***************************************************************************)
AuthenticUntilLost ==
    Recovering("authenticated") => IsPrefix(recovered, Plaintext)

(***************************************************************************)
(* OnlyAuthenticatedData "Returns only the data that have been             *)
(* authenticated" (config.rs:250), and the "AEAD tag of a chunk is always  *)
(* checked before returning the corresponding clear-text data" (CRYPTO.md: *)
(* 411): all the bytes that reads return are a prefix of the plaintext,    *)
(* those after an error or an end included.                                *)
(***************************************************************************)
OnlyAuthenticatedData ==
    Recovering("authenticated") => IsPrefix(recovered \o strays, Plaintext)

IntactChunks ==
    {k \in 1..written : /\ k * NORMAL_CHUNK_PT_SIZE <= written
                        /\ k * M0_CHUNK_SIZE + FINAL_INFO_SIZE < Len(rd.src)}

CiphertextLeft ==
    Cardinality({i \in 1..Len(rd.src) : /\ rd.src[i].kind = "cipher"
                                        /\ rd.src[i].byte # FINAL_BLOCK_CONTENT})

(***************************************************************************)
(* A fail-safe reader has returned, when it stops for the first time, the  *)
(* content of every full chunk that is followed by more than a final block *)
(* (authenticated), or every byte of plaintext whose ciphertext is left    *)
(* (unauthenticated).                                                      *)
(***************************************************************************)
RecoveredEnough ==
    stopped /\ damage = 0 =>
      /\ Recovering("authenticated") =>
           Len(recovered) >= Cardinality(IntactChunks) * NORMAL_CHUNK_PT_SIZE
      /\ Recovering("unauthenticated") =>
           IsPrefix(SubSeq(Plaintext, 1, CiphertextLeft), recovered)

(***************************************************************************)
(* The caches are two "to find where the tag is if we are reading a        *)
(* truncated archive", and the search for the final block "lets us detect  *)
(* end of tag [...] (if the magic has not been truncated away)": with the  *)
(* magic still there, authenticated recovery returns all of the plaintext. *)
(***************************************************************************)
MagicMarksTheEnd ==
    /\ Recovering("authenticated") /\ stopped /\ damage = 0
    /\ [kind |-> "magic", part |-> MAGIC_LENGTH] \in ToSet(rd.src)
    => recovered = Plaintext
=============================================================================
