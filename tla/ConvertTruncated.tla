-------------------------- MODULE ConvertTruncated --------------------------
(***************************************************************************)
(* TruncatedArchiveReader::convert_to_archive (mla/src/lib.rs): copies the *)
(* blocks of a possibly cut or altered source into a new archive, block by *)
(* block, until the source or its coherence ends, then closes what is      *)
(* still open and finalizes.                                               *)
(*                                                                         *)
(* The output is ArchiveWriter itself: every call made on it is one of its *)
(* actions, failures included, and the first failure ends the conversion.  *)
(* A call the output would refuse is no action: it would show as a         *)
(* deadlock.  The source is any sequence of blocks, chosen as it is read,  *)
(* which may end anywhere, even inside a block.                            *)
(***************************************************************************)
EXTENDS ArchiveWriter

CONSTANTS
    SourceIds,    \* ids found in the source
    CACHE_SIZE,   \* size of the buffer that gathers a block's content
    MaxLength,    \* bound: content length a source block announces
    MaxBlocks     \* bound: blocks in the source

ASSUME CacheAssumption == CACHE_SIZE \in Nat \ {0}
ASSUME BoundsAssumption == MaxLength \in Nat /\ MaxBlocks \in Nat

VARIABLES
    pc,             \* "block", "content", "cleanup", "done", "failed"
    error,          \* the TruncatedReadError that stopped the copy
    id_output,      \* id_truncated2id_output
    id_entryname,   \* id_truncated2entryname
    id_done,        \* id_truncated_done
    id_hash,        \* id_truncated2hash: bytes hashed so far
    current,        \* the id whose content block is being copied
    left,           \* what src.take(length) may still deliver
    unfinished,     \* the ids the clean-up closed: unfinished_files
    source          \* history: blocks read, whether the source ended, the bytes
                    \* it delivered and the hash it gave for each id

converter == <<error, id_output, id_entryname, id_done, id_hash, current, left>>
convertVars == <<pc, converter, unfinished, source>>

ConvertInit ==
    /\ Init
    /\ pc = "block" /\ error = "NoError"
    /\ id_output = [x \in {} |-> 0] /\ id_entryname = [x \in {} |-> 0]
    /\ id_hash = [x \in {} |-> <<>>]
    /\ id_done = {} /\ unfinished = {}
    /\ current = 0 /\ left = 0
    /\ source = [blocks |-> 0, ended |-> FALSE,
                 sent |-> [x \in SourceIds |-> <<>>],
                 attested |-> [x \in SourceIds |-> <<>>]]

-----------------------------------------------------------------------------
(***************************************************************************)
(* The loop over blocks.                                                   *)
(***************************************************************************)
\* ArchiveEntryBlock::from delivers one more block.
NextBlock ==
    /\ pc = "block" /\ ~source.ended /\ source.blocks < MaxBlocks
    /\ source' = [source EXCEPT !.blocks = @ + 1]

\* update_error! and break 'read_block.
Stop(reason) ==
    /\ error' = (IF error = "NoError" THEN reason ELSE error)
    /\ pc' = "cleanup"

\* A `?` on a call to the output: the conversion returns the error.
Abandon == pc' = "failed" /\ UNCHANGED <<converter, unfinished>>

\* Mutant: the id of an entry is not looked up.
KnownStart_Never(id) == FALSE

KnownStart(id) == id \in DOMAIN id_output

CopyStart(id, name) ==
    /\ NextBlock /\ ~KnownStart(id)
    /\ StartEntry(name)
    /\ id_entryname' = Put(id_entryname, id, name)
    /\ id_output' = Put(id_output, id, next_id)
    /\ id_hash' = Put(id_hash, id, <<>>)
    /\ UNCHANGED <<pc, error, id_done, current, left, unfinished>>

CopyStartFails(id, name) ==
    /\ NextBlock /\ ~KnownStart(id)
    /\ StartEntryFails(name)
    /\ Abandon

\* The name is noted before start_entry refuses it.
StartRefused(id, name) ==
    /\ NextBlock
    /\ \/ KnownStart(id) /\ Stop("ArchiveEntryIDReuse") /\ UNCHANGED id_entryname
       \/ /\ ~KnownStart(id) /\ NameTaken(name)
          /\ Stop("EntryNameReuse")
          /\ id_entryname' = Put(id_entryname, id, name)
    /\ UNCHANGED <<id_output, id_done, id_hash, current, left, unfinished>>
    /\ UNCHANGED vars

Closed(id) == id \in id_done

\* The checks that EntryContent and EndOfEntry share.
BlockRefused(id, unknown) ==
    /\ NextBlock
    /\ \/ id \notin DOMAIN id_output /\ Stop(unknown)
       \/ id \in DOMAIN id_output /\ Closed(id) /\ Stop("ArchiveEntryIDAlreadyClosed")
    /\ UNCHANGED <<id_output, id_entryname, id_done, id_hash, current, left, unfinished>>
    /\ UNCHANGED vars

ContentRefused(id) == BlockRefused(id, "ContentForUnknownFile")
EndRefused(id) == BlockRefused(id, "EOFForUnknownFile")

CopyContent(id, length) ==
    /\ NextBlock
    /\ id \in DOMAIN id_output /\ ~Closed(id)
    /\ pc' = "content" /\ current' = id /\ left' = length
    /\ UNCHANGED <<error, id_output, id_entryname, id_done, id_hash, unfinished>>
    /\ UNCHANGED vars

(***************************************************************************)
(* One turn of the content loop: data is what the buffer held when the     *)
(* filling stopped.  An append of nothing does nothing.                    *)
(***************************************************************************)
Append0(id, data) ==
    IF data = <<>> THEN UNCHANGED vars ELSE AppendContent(id, data)

\* The bytes a turn may gather.
Filled(data) ==
    /\ pc = "content"
    /\ Len(data) <= CACHE_SIZE /\ Len(data) <= left
    /\ source' = [source EXCEPT !.sent[current] = @ \o data,
                                !.ended = Len(data) < left /\ Len(data) < CACHE_SIZE]

\* Mutant: a turn that ends the block still goes round the loop.
TurnEnds_Never(data) == FALSE

\* The buffer was not filled: the block, or the source, ended.
TurnEnds(data) == Len(data) < CACHE_SIZE

ContentHash(data) == id_hash' = [id_hash EXCEPT ![current] = @ \o data]

CopyTurn(data) ==
    /\ Filled(data)
    /\ Append0(id_output[current], data)
    /\ ContentHash(data)
    /\ left' = left - Len(data)
    /\ pc' = IF TurnEnds(data) THEN "block" ELSE "content"
    /\ UNCHANGED <<error, id_output, id_entryname, id_done, current, unfinished>>

CopyTurnFails(data) ==
    /\ Filled(data) /\ data # <<>>
    /\ \/ AppendContentHeaderFails(id_output[current], data)
       \/ \E written \in 0..Len(data) :
             AppendContentCopyFails(id_output[current], data, Len(data), written)
    /\ Abandon

\* Mutant: what was gathered before the error is dropped.
ErrorInFile_BufferLost(data) ==
    /\ pc = "content" /\ Len(data) < CACHE_SIZE /\ Len(data) <= left
    /\ source' = [source EXCEPT !.sent[current] = @ \o data]
    /\ Stop("ErrorInFile")
    /\ UNCHANGED <<id_output, id_entryname, id_done, id_hash, current, left, unfinished>>
    /\ UNCHANGED vars

\* The source fails: what was gathered is kept, but not hashed.
ErrorInFile(data) ==
    /\ pc = "content" /\ Len(data) < CACHE_SIZE /\ Len(data) <= left
    /\ source' = [source EXCEPT !.sent[current] = @ \o data]
    /\ Append0(id_output[current], data)
    /\ Stop("ErrorInFile")
    /\ UNCHANGED <<id_output, id_entryname, id_done, id_hash, current, left, unfinished>>

(***************************************************************************)
(* EndOfEntry: the hash of the source against the hash of the copy.        *)
(***************************************************************************)
Attest(id, hash) ==
    /\ pc = "block" /\ ~source.ended /\ source.blocks < MaxBlocks
    /\ source' = [source EXCEPT !.blocks = @ + 1, !.attested[id] = hash]

\* Mutant: the hash is not compared.
HashMatches_Always(id, hash) == TRUE

HashMatches(id, hash) == id \in DOMAIN id_hash /\ id_hash[id] = hash

CopyEnd(id, hash) ==
    /\ Attest(id, hash)
    /\ id \in DOMAIN id_output /\ ~Closed(id) /\ HashMatches(id, hash)
    /\ id_hash' = Drop(id_hash, id)
    /\ EndEntry(id_output[id])
    /\ id_done' = id_done \cup {id}
    /\ UNCHANGED <<pc, error, id_output, id_entryname, current, left, unfinished>>

CopyEndFails(id, hash) ==
    /\ Attest(id, hash)
    /\ id \in DOMAIN id_output /\ ~Closed(id) /\ HashMatches(id, hash)
    /\ EndEntryFails(id_output[id])
    /\ Abandon

HashDiffers(id, hash) ==
    /\ Attest(id, hash)
    /\ id \in DOMAIN id_output /\ ~Closed(id) /\ ~HashMatches(id, hash)
    /\ Stop(IF id \in DOMAIN id_hash THEN "HashDiffers" ELSE "TruncatedReadInternalError")
    /\ id_hash' = Drop(id_hash, id)
    /\ UNCHANGED <<id_output, id_entryname, id_done, current, left, unfinished>>
    /\ UNCHANGED vars

(***************************************************************************)
(* No further block.  The deserializers turn every failure into their own  *)
(* error; only the hash of an EndOfEntry is read with the io::Error kept.  *)
(***************************************************************************)
CopyStops(reason) ==
    /\ Stop(reason)
    /\ UNCHANGED <<id_output, id_entryname, id_done, id_hash, current, left, unfinished>>
    /\ UNCHANGED vars

SourceEnds(inHash) ==
    /\ pc = "block"
    /\ source' = [source EXCEPT !.ended = TRUE]
    /\ inHash => ~source.ended
    /\ CopyStops(IF inHash THEN "UnexpectedEOFOnNextBlock" ELSE "ErrorOnNextBlock")

SourceFails(inHash) ==
    /\ pc = "block" /\ ~source.ended
    /\ UNCHANGED source
    /\ CopyStops(IF inHash THEN "IOErrorOnNextBlock" ELSE "ErrorOnNextBlock")

EndOfData ==
    /\ pc = "block" /\ ~source.ended
    /\ UNCHANGED source
    /\ CopyStops("EndOfOriginalArchiveData")

-----------------------------------------------------------------------------
(***************************************************************************)
(* The clean-up, in the order of a hash map, and the end.                  *)
(***************************************************************************)
\* Mutant: an entry whose hash was not compared needs no end.
ToClose_Hashed == {id \in DOMAIN id_output : id \notin id_done /\ id \in DOMAIN id_hash} \ unfinished

\* The entries the clean-up has still to end.
ToClose == {id \in DOMAIN id_output : ~Closed(id)} \ unfinished

CloseUnfinished(id) ==
    /\ pc = "cleanup" /\ id \in ToClose
    /\ EndEntry(id_output[id])
    /\ unfinished' = unfinished \cup {id}
    /\ UNCHANGED <<pc, converter, source>>

CloseFails(id) ==
    /\ pc = "cleanup" /\ id \in ToClose
    /\ EndEntryFails(id_output[id])
    /\ Abandon
    /\ UNCHANGED source

FinalizeOutput ==
    /\ pc = "cleanup" /\ ToClose = {}
    /\ \/ Finalize /\ pc' = "done"
       \/ (FinalizeRefused \/ FinalizeFails) /\ pc' = "failed"
    /\ UNCHANGED <<converter, unfinished, source>>

-----------------------------------------------------------------------------
Returned == pc \in {"done", "failed"} /\ UNCHANGED <<vars, convertVars>>

\* The hash an EndOfEntry may hold: that of the bytes delivered, or another,
\* as when a block of the entry is missing from the source.
SourceHashes(id) == {source.sent[id], Append(source.sent[id], CHOOSE b \in Bytes : TRUE)}

ReadBlock(id) ==
    \/ \E name \in Names : CopyStart(id, name) \/ StartRefused(id, name)
    \/ ContentRefused(id) \/ EndRefused(id)
    \/ \E length \in 0..MaxLength : CopyContent(id, length)
    \/ \E hash \in SourceHashes(id) : CopyEnd(id, hash) \/ HashDiffers(id, hash)

\* The steps of the conversion as long as nothing fails.
Works ==
    \/ \E id \in SourceIds : ReadBlock(id) \/ CloseUnfinished(id)
    \/ \E data \in Data \cup {<<>>} : CopyTurn(data)
    \/ \E inHash \in BOOLEAN : SourceEnds(inHash)
    \/ EndOfData
    \/ FinalizeOutput

\* The output or the source fails.
Breaks ==
    \/ \E id \in SourceIds :
          \/ \E name \in Names : CopyStartFails(id, name)
          \/ \E hash \in SourceHashes(id) : CopyEndFails(id, hash)
          \/ CloseFails(id)
    \/ \E data \in Data \cup {<<>>} : CopyTurnFails(data) \/ ErrorInFile(data)
    \/ \E inHash \in BOOLEAN : SourceFails(inHash)

\* The conversion runs in its caller's thread and each read of the source
\* returns; nothing is promised to fail.
ConvertSpec ==
    /\ ConvertInit
    /\ [][Works \/ Breaks \/ Returned]_<<vars, convertVars>>
    /\ WF_<<vars, convertVars>>(Works)

-----------------------------------------------------------------------------
(***************************************************************************)
(* Properties.                                                             *)
(***************************************************************************)
\* The converter's maps agree with one another and with the output: an entry
\* of the source is open in the output exactly while neither its EndOfEntry
\* nor the clean-up has ended it, so that no call on the output can be refused.
OutputInStep ==
    pc # "failed" =>
        /\ DOMAIN id_output \subseteq DOMAIN id_entryname
        /\ id_done \subseteq DOMAIN id_output
        /\ id_done \cap DOMAIN id_hash = {}
        /\ ids = {id_output[id] : id \in DOMAIN id_output \ (id_done \cup unfinished)}
        /\ \A id \in DOMAIN id_output : entries_info[id_entryname[id]] = id_output[id]

\* All that the source delivered for an entry, to the last byte before a cut
\* or an error, is in the output, in order, and nothing else is.
AllThatCouldBeRead ==
    pc # "failed" =>
        \A id \in DOMAIN id_output :
            IndexedContent(dest, ids_info[id_output[id]]) = source.sent[id]

\* An entry that the conversion does not report as unfinished is, in the
\* output, what the source's EndOfEntry hash says it was.
FinishedIsAttested ==
    pc = "done" =>
        \A n \in DOMAIN entries_info :
            \/ \E id \in unfinished : id_entryname[id] = n
            \/ \E id \in id_done :
                  /\ id_entryname[id] = n
                  /\ IndexedContent(dest, dest[Len(dest)].index[n]) = source.attested[id]

\* doc/src/FUZZING.md: whatever the source holds, the conversion does not fail;
\* only the output can make it.
FailsOnlyWithOutput == pc = "failed" => faults > 0

\* The conversion of a source that ends, or fails for good, returns.
ConversionReturns == <>(pc \in {"done", "failed"})
=============================================================================
