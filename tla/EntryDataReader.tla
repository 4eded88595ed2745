--------------------------- MODULE EntryDataReader ---------------------------
(***************************************************************************)
(* mla::ArchiveReader::get_entry and get_hash, and the Read + Seek state   *)
(* machine of ArchiveEntryDataReader (mla/src/entry.rs), over the archives *)
(* that ArchiveWriter produces.                                            *)
(*                                                                         *)
(* The entries stream is src, a seekable stream whose position is shared   *)
(* by everything the reader does.  read does not seek to its next block:   *)
(* it parses whatever header comes next, and seeks only when the header is *)
(* another entry's.  Every call is one action.  A read takes what the      *)
(* layers below choose to deliver, at least one byte.                      *)
(*                                                                         *)
(* Entries one of whose writing calls failed are not opened here.  Their   *)
(* neighbours are, and may have a torn header between their own blocks.    *)
(***************************************************************************)
EXTENDS ArchiveWriter

CONSTANTS
    Sizes,      \* sizes of the buffers a caller reads into
    Moves       \* signed distances a caller seeks by

ASSUME SizesAssumption == Sizes \subseteq Nat
ASSUME MovesAssumption == Moves \subseteq Int

VARIABLES
    reader_state,   \* ArchiveEntryDataReaderState, and "None": no reader
    remaining,      \* of InEntryContent
    reader_id,      \* ArchiveEntryDataReader.id
    current_offsets_and_sizes_index,   \* counted from 0, as in the code
    offsets_and_sizes,
    src,            \* position in the stream; Lost inside a header that failed to parse
    result          \* what the last call was asked and returned

current_index == current_offsets_and_sizes_index
readerVars == <<reader_state, remaining, reader_id, current_offsets_and_sizes_index,
                offsets_and_sizes, src, result>>

Lost == -1
HeaderAt(p) == dest[p + 1]
OffsetOf(i) == offsets_and_sizes[i + 1].offset
SizeOf(i) == offsets_and_sizes[i + 1].size
LastIndex == Len(offsets_and_sizes) - 1

\* The sizes of the first n blocks.
SumOfFirst(n) ==
    LET sum[i \in 0..n] == IF i = 0 THEN 0 ELSE sum[i - 1] + SizeOf(i - 1) IN sum[n]
Total == SumOfFirst(LastIndex + 1)

ReaderInit ==
    /\ Init
    /\ reader_state = "None" /\ remaining = 0 /\ reader_id = 0
    /\ current_offsets_and_sizes_index = 0
    /\ offsets_and_sizes = <<>>
    /\ src = 0
    /\ result = [op |-> "none"]

\* The footer, as ArchiveReader.metadata holds it.
Metadata == dest[Len(dest)].index
Listed(name) ==
    /\ state = "Finalized" /\ reader_state = "None"
    /\ Metadata[name] # <<>>
    /\ entries_info[name] \notin damaged

-----------------------------------------------------------------------------
\* ArchiveEntryDataReader::new: the first record leads to the EntryStart.
GetEntry(name) ==
    /\ Listed(name)
    /\ LET start == Metadata[name][1].offset IN
       /\ HeaderAt(start).kind = "EntryStart"
       /\ reader_id' = HeaderAt(start).id
       /\ src' = start + 1
    /\ reader_state' = "Ready" /\ remaining' = 0
    /\ current_offsets_and_sizes_index' = 1
    /\ offsets_and_sizes' = Metadata[name]
    /\ result' = [op |-> "open"]
    /\ UNCHANGED vars

\* get_hash: the last record leads to the EndOfEntry.
GetHash(name) ==
    /\ Listed(name)
    /\ LET end == Metadata[name][Len(Metadata[name])].offset IN
       /\ HeaderAt(end).kind = "EndOfEntry"
       /\ result' = [op |-> "hash", name |-> name, hash |-> HeaderAt(end).hash]
       /\ src' = end + 1
    /\ UNCHANGED <<reader_state, remaining, reader_id, current_offsets_and_sizes_index,
                   offsets_and_sizes>>
    /\ UNCHANGED vars

\* The reader is dropped, and src is free again.
CloseReader ==
    /\ reader_state # "None"
    /\ reader_state' = "None" /\ remaining' = 0 /\ reader_id' = 0
    /\ current_offsets_and_sizes_index' = 0 /\ offsets_and_sizes' = <<>>
    /\ result' = [op |-> "none"]
    /\ UNCHANGED src
    /\ UNCHANGED vars

-----------------------------------------------------------------------------
(***************************************************************************)
(* read.                                                                   *)
(***************************************************************************)
\* Mutant: the EntryStart of the entry itself does not advance the index.
Landing_StartNotSkipped ==
    LET block == HeaderAt(src) IN
    IF block.kind \in {"EntryContent", "EndOfEntry"} /\ block.id = reader_id
    THEN [at |-> src, index |-> current_index]
    ELSE [at |-> OffsetOf(current_index), index |-> current_index]

\* Where read finds the block to read in state Ready: at src when the block is
\* the entry's own, otherwise at the offset the index gives.  The code calls
\* itself again after the seek; RecursionEnds says that once is enough.
Landing ==
    LET block == HeaderAt(src) IN
    IF block.kind \in {"EntryContent", "EndOfEntry"} /\ block.id = reader_id
    THEN [at |-> src, index |-> current_index]
    ELSE LET next == IF block.kind = "EntryStart" /\ block.id = reader_id
                     THEN current_index + 1 ELSE current_index
         IN  [at |-> OffsetOf(next), index |-> next]

Parses == src # Lost /\ HeaderAt(src).kind \in EntryBlockKinds

\* The bytes a layer may deliver when left bytes of the block remain.
Delivered(size, left) ==
    IF size = 0 THEN {0} ELSE {count \in 1..size : count <= left}

\* The end of read: count of the left bytes of a block, from position from on.
Taken(from, left, index, count) ==
    /\ src' = from + count
    /\ current_offsets_and_sizes_index' = IF left > count THEN index ELSE index + 1
    /\ remaining' = left - count
    /\ reader_state' = IF left > count THEN "InEntryContent" ELSE "Ready"

Got(size, from, count) ==
    result' = [op |-> "read", size |-> size, data |-> BytesAt(dest, from + 1, from + count)]

ReadContinues(size) ==
    /\ reader_state = "InEntryContent"
    /\ \E count \in Delivered(size, remaining) :
          Taken(src, remaining, current_index, count) /\ Got(size, src, count)
    /\ UNCHANGED <<reader_id, offsets_and_sizes>>
    /\ UNCHANGED vars

ReadNextBlock(size) ==
    /\ reader_state = "Ready" /\ Parses
    /\ LET block == HeaderAt(Landing.at) IN
       /\ block.kind = "EntryContent"
       /\ \E count \in Delivered(size, block.length) :
             /\ Taken(Landing.at + 1, block.length, Landing.index, count)
             /\ Got(size, Landing.at + 1, count)
    /\ UNCHANGED <<reader_id, offsets_and_sizes>>
    /\ UNCHANGED vars

\* Mutant: the end of the entry is not remembered.
ReadEndOfEntry_NotFinished(size) ==
    /\ reader_state = "Ready" /\ Parses
    /\ HeaderAt(Landing.at).kind = "EndOfEntry"
    /\ src' = Landing.at + 1
    /\ current_offsets_and_sizes_index' = Landing.index
    /\ Got(size, src, 0)
    /\ UNCHANGED <<reader_state, remaining, reader_id, offsets_and_sizes>>
    /\ UNCHANGED vars

ReadEndOfEntry(size) ==
    /\ reader_state = "Ready" /\ Parses
    /\ HeaderAt(Landing.at).kind = "EndOfEntry"
    /\ reader_state' = "Finish"
    /\ src' = Landing.at + 1
    /\ current_offsets_and_sizes_index' = Landing.index
    /\ Got(size, src, 0)
    /\ UNCHANGED <<remaining, reader_id, offsets_and_sizes>>
    /\ UNCHANGED vars

ReadFinished(size) ==
    /\ reader_state = "Finish"
    /\ Got(size, src, 0)
    /\ UNCHANGED <<reader_state, remaining, reader_id, current_offsets_and_sizes_index,
                   offsets_and_sizes, src>>
    /\ UNCHANGED vars

\* What follows is no header of an entry: the remains of a failed write, or the
\* EndOfArchiveData.  src is left inside it.
ReadFails(size) ==
    /\ reader_state = "Ready" /\ src # Lost /\ ~Parses
    /\ src' = Lost
    /\ result' = [op |-> "read_error", size |-> size]
    /\ UNCHANGED <<reader_state, remaining, reader_id, current_offsets_and_sizes_index,
                   offsets_and_sizes>>
    /\ UNCHANGED vars

-----------------------------------------------------------------------------
(***************************************************************************)
(* seek.                                                                   *)
(***************************************************************************)
\* The read_exact of distance bytes after src was moved to block index: it
\* stays inside that block.
SkipInto(index, distance) ==
    IF distance = 0
    THEN /\ src' = OffsetOf(index) /\ reader_state' = "Ready" /\ remaining' = 0
         /\ current_offsets_and_sizes_index' = index
    ELSE Taken(OffsetOf(index) + 1, HeaderAt(OffsetOf(index)).length, index, distance)

First(S) == CHOOSE i \in S : \A j \in S : i <= j
Last(S) == CHOOSE i \in S : \A j \in S : j <= i

\* SeekFrom::Start: the first block that ends after the offset asked for; the
\* last one, EndOfEntry, when that offset is the end.  Nowhere: an error.
SeekStart(asked) ==
    LET holds == {i \in 0..LastIndex : SumOfFirst(i + 1) > asked} IN
    IF asked < 0 THEN {}
    ELSE IF holds # {}
    THEN {[index |-> First(holds), distance |-> asked - SumOfFirst(First(holds))]}
    ELSE IF asked = Total THEN {[index |-> LastIndex, distance |-> 0]} ELSE {}

\* SeekFrom::End: the last block with more than -asked bytes between its start
\* and the end; the EntryStart when all bytes lie there.
SeekEnd(asked) ==
    LET holds == {i \in 0..LastIndex : Total - SumOfFirst(i) > -asked} IN
    IF asked > 0 THEN {}
    ELSE IF holds # {}
    THEN {[index |-> Last(holds), distance |-> Total - SumOfFirst(Last(holds)) + asked]}
    ELSE IF -asked = Total THEN {[index |-> 0, distance |-> 0]} ELSE {}

\* Mutant: the block under way counts as not begun.
OffsetFromStart_WholeBlocks == SumOfFirst(current_index)

\* Where SeekFrom::Current starts from, in the states other than Finish.
OffsetFromStart ==
    IF reader_state = "InEntryContent"
    THEN SumOfFirst(current_index + 1) - remaining ELSE SumOfFirst(current_index)

SeekCurrent(asked) ==
    IF reader_state = "Finish" THEN SeekEnd(asked) ELSE SeekStart(OffsetFromStart + asked)

Places(whence, by) == CASE whence = "Start" -> SeekStart(by)
                        [] whence = "End" -> SeekEnd(by)
                        [] whence = "Current" -> SeekCurrent(by)

Seek(whence, by) ==
    /\ reader_state # "None"
    /\ \E place \in Places(whence, by) : SkipInto(place.index, place.distance)
    /\ result' = [op |-> "seek", whence |-> whence, by |-> by, ok |-> TRUE]
    /\ UNCHANGED <<reader_id, offsets_and_sizes>>
    /\ UNCHANGED vars

SeekRefused(whence, by) ==
    /\ reader_state # "None"
    /\ Places(whence, by) = {}
    /\ result' = [op |-> "seek", whence |-> whence, by |-> by, ok |-> FALSE]
    /\ UNCHANGED <<reader_state, remaining, reader_id, current_offsets_and_sizes_index,
                   offsets_and_sizes, src>>
    /\ UNCHANGED vars

-----------------------------------------------------------------------------
ReaderNext ==
    \/ \E name \in Names : GetEntry(name) \/ GetHash(name)
    \/ \E size \in Sizes :
          ReadContinues(size) \/ ReadNextBlock(size) \/ ReadEndOfEntry(size)
          \/ ReadFinished(size) \/ ReadFails(size)
    \/ \E whence \in {"Start", "End", "Current"}, by \in Moves :
          /\ whence = "Start" => by >= 0
          /\ Seek(whence, by) \/ SeekRefused(whence, by)
    \/ CloseReader

WriterNext == reader_state = "None" /\ Next /\ UNCHANGED readerVars

ReadSpec == ReaderInit /\ [][WriterNext \/ ReaderNext]_<<vars, readerVars>>

-----------------------------------------------------------------------------
(***************************************************************************)
(* Properties.                                                             *)
(***************************************************************************)
Opened == reader_state # "None"

\* The block a read goes to after one seek is the entry's own, so the call
\* that read makes to itself does not make another: read never recurses
\* without end on an archive the writer produced.
RecursionEnds ==
    reader_state = "Ready" /\ Parses =>
        LET block == HeaderAt(Landing.at) IN
        block.kind \in {"EntryContent", "EndOfEntry"} /\ block.id = reader_id

\* Reading an entry of an archive all of whose calls succeeded never fails:
\* a read only meets something that is no block after a failed write.
ErrorsNeedDamage == result.op = "read_error" => damaged # {}

\* get_hash returns the hash of the bytes the entry's index leads to.
HashIsOfContent ==
    result.op = "hash" =>
        result.hash = IndexedContent(dest, Metadata[result.name])

\* The position the reader's state stands for.
CursorNow == CASE reader_state = "None" -> 0
               [] reader_state = "Finish" -> Total
               [] OTHER -> OffsetFromStart

\* The contract: a cursor over the content the footer describes.  get_hash is
\* no call on the cursor.
Cursor == INSTANCE EntryCursor WITH
    opened <- Opened,
    content <- IndexedContent(dest, offsets_and_sizes),
    pos <- CursorNow,
    result <- IF result.op = "hash" THEN [op |-> "none"] ELSE result

\* Every read delivers the bytes of the entry that follow the ones before it,
\* and every seek goes where it was asked to, over any interleaving of the
\* entry's blocks with those of others and any sequence of calls.
ReaderRefinesCursor == Cursor!CursorSpec
=============================================================================
