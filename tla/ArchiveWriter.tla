---------------------------- MODULE ArchiveWriter ----------------------------
(***************************************************************************)
(* mla::ArchiveWriter (mla/src/lib.rs): the state machine between the      *)
(* caller's entries and the stream of blocks handed to the layers.         *)
(*                                                                         *)
(* Entries may be open at the same time and their blocks interleave; an    *)
(* in-memory index of offsets and sizes is updated BEFORE each block is    *)
(* written, and becomes the footer when the archive is finalized.          *)
(*                                                                         *)
(* The calls of one writer are sequential (&mut self), and each is one     *)
(* action, or one per way it can end: every write may fail after an        *)
(* unknown part of the block reached the destination, the source of an     *)
(* append may deliver less than the size announced, and the caller may go  *)
(* on after an error, since nothing poisons the writer.  A call that       *)
(* returns an error before changing anything is a disabled action.         *)
(***************************************************************************)
EXTENDS EntriesFormat

CONSTANTS
    Names,        \* entry names
    Bytes,        \* byte values
    MaxId,        \* u64::MAX for ids: the id MaxId is never given out
    Data,         \* the chunks a caller may append: non-empty byte sequences
    MaxRecords,   \* bound: index records of one entry before its EndOfEntry
    FaultKinds,   \* subset of {"io", "short"}: the failures that may happen
    MaxFaults     \* bound: failed writes and short sources in one run

ASSUME MaxIdAssumption == MaxId \in Nat
ASSUME DataAssumption == \A data \in Data : data \in Seq(Bytes) /\ data # <<>>
ASSUME MaxRecordsAssumption == MaxRecords \in Nat
ASSUME FaultKindsAssumption == FaultKinds \subseteq {"io", "short"}
ASSUME MaxFaultsAssumption == MaxFaults \in Nat

VARIABLES
    state,          \* ArchiveWriterState, and "Dropped" once finalize failed
    ids,            \* OpenedFiles.ids: the entries being written
    hashes,         \* OpenedFiles.hashes: id -> bytes hashed so far
    entries_info,   \* name -> id
    ids_info,       \* id -> offsets_and_sizes
    next_id,
    dest,           \* the entries stream written so far
    faults,         \* history: how many calls failed
    damaged         \* history: the entries one of whose own calls failed

vars == <<state, ids, hashes, entries_info, ids_info, next_id, dest, faults, damaged>>

Ids == 0..MaxId

Put(f, k, v) == [x \in DOMAIN f \cup {k} |-> IF x = k THEN v ELSE f[x]]
Drop(f, k) == [x \in DOMAIN f \ {k} |-> f[x]]

-----------------------------------------------------------------------------
(***************************************************************************)
(* from_config: the position is reset after the layers' own headers, so    *)
(* offset 0 is the magic of the entries layer.                             *)
(***************************************************************************)
Init ==
    /\ state = "OpenedFiles"
    /\ ids = {}
    /\ hashes = [x \in {} |-> <<>>]
    /\ entries_info = [x \in {} |-> 0]
    /\ ids_info = [x \in {} |-> <<>>]
    /\ next_id = 0
    /\ dest = <<EntriesMagic>>
    /\ faults = 0
    /\ damaged = {}

\* PositionLayerWriter.position: the cells accepted since the reset.
Position == Len(dest)

\* Mutant: the position after the header instead of before it.
Record_AfterHeader(size) == [offset |-> Position + 1, size |-> size]

\* An index record: the position reached before the block is written.
Record(size) == [offset |-> Position, size |-> size]

\* Mutant: the newest record goes to the front of the list.
RecordOffsetAndSize_AtFront(id, size) ==
    ids_info' = [ids_info EXCEPT ![id] = <<Record(size)>> \o @]

\* record_offset_and_size_in_index
RecordOffsetAndSize(id, size) ==
    ids_info' = [ids_info EXCEPT ![id] = Append(@, Record(size))]

\* A write_all of a header that failed: nothing, or part of it, got through.
TornWrites == {<<>>, <<Torn>>}

Fault(kind, entry) ==
    /\ kind \in FaultKinds /\ faults < MaxFaults
    /\ faults' = faults + 1
    /\ damaged' = damaged \cup entry

\* check_state_file_opened!
FileOpened(id) ==
    /\ state = "OpenedFiles"
    /\ id \in ids
    /\ id \in DOMAIN hashes

-----------------------------------------------------------------------------
(***************************************************************************)
(* start_entry.  The id, the name and the index record are taken before    *)
(* the block is written; the entry is open only once it is.                *)
(***************************************************************************)
\* Mutant: names are not checked.
NameTaken_Never(name) == FALSE

\* entries_info.contains_key: the name has been started before.
NameTaken(name) == name \in DOMAIN entries_info

\* Mutant: ids are added without a check for overflow.
ReserveEntry_Overflow(name) ==
    /\ state = "OpenedFiles"
    /\ ~NameTaken(name)
    /\ next_id' = next_id + 1
    /\ entries_info' = Put(entries_info, name, next_id)
    /\ ids_info' = Put(ids_info, next_id, <<Record(0)>>)

\* Mutant: the id of the entry stays the next id.
ReserveEntry_SameId(name) ==
    /\ state = "OpenedFiles"
    /\ ~NameTaken(name)
    /\ next_id < MaxId
    /\ entries_info' = Put(entries_info, name, next_id)
    /\ ids_info' = Put(ids_info, next_id, <<Record(0)>>)
    /\ UNCHANGED next_id

ReserveEntry(name) ==
    /\ state = "OpenedFiles"
    /\ ~NameTaken(name)
    /\ next_id < MaxId
    /\ next_id' = next_id + 1
    /\ entries_info' = Put(entries_info, name, next_id)
    /\ ids_info' = Put(ids_info, next_id, <<Record(0)>>)

StartEntry(name) ==
    /\ ReserveEntry(name)
    /\ dest' = Append(dest, EntryStart(name, next_id))
    /\ ids' = ids \cup {next_id}
    /\ hashes' = Put(hashes, next_id, <<>>)
    /\ UNCHANGED <<state, faults, damaged>>

StartEntryFails(name) ==
    /\ ReserveEntry(name)
    /\ \E torn \in TornWrites : dest' = dest \o torn
    /\ Fault("io", {next_id})
    /\ UNCHANGED <<state, ids, hashes>>

(***************************************************************************)
(* append_entry_content with size = Len(data) > 0 (a size of 0 returns     *)
(* before anything is recorded).  io::copy moves what the source delivers, *)
(* at most size bytes; the hash sees every byte READ from the source.      *)
(***************************************************************************)
\* Mutant: only the last chunk is hashed.
HashUpdate_LastChunk(id, data) == hashes' = [hashes EXCEPT ![id] = data]

HashUpdate(id, data) == hashes' = [hashes EXCEPT ![id] = @ \o data]

AppendContent(id, data) ==
    /\ FileOpened(id) /\ Len(ids_info[id]) < MaxRecords
    /\ RecordOffsetAndSize(id, Len(data))
    /\ HashUpdate(id, data)
    /\ dest' = dest \o ContentBlock(id, Len(data), data)
    /\ UNCHANGED <<state, ids, entries_info, next_id, faults, damaged>>

\* The source ends early: io::copy returns Ok and so does the call.
AppendContentShort(id, data, got) ==
    /\ FileOpened(id) /\ Len(ids_info[id]) < MaxRecords
    /\ got < Len(data)
    /\ RecordOffsetAndSize(id, Len(data))
    /\ HashUpdate(id, SubSeq(data, 1, got))
    /\ dest' = dest \o ContentBlock(id, Len(data), SubSeq(data, 1, got))
    /\ Fault("short", {id})
    /\ UNCHANGED <<state, ids, entries_info, next_id>>

\* The header cannot be written: the record stays, nothing is read.
AppendContentHeaderFails(id, data) ==
    /\ FileOpened(id) /\ Len(ids_info[id]) < MaxRecords
    /\ RecordOffsetAndSize(id, Len(data))
    /\ \E torn \in TornWrites : dest' = dest \o torn
    /\ Fault("io", {id})
    /\ UNCHANGED <<state, ids, hashes, entries_info, next_id>>

\* The copy fails after read bytes were hashed and written bytes went out.
AppendContentCopyFails(id, data, read, written) ==
    /\ FileOpened(id) /\ Len(ids_info[id]) < MaxRecords
    /\ written <= read /\ written < Len(data)
    /\ RecordOffsetAndSize(id, Len(data))
    /\ HashUpdate(id, SubSeq(data, 1, read))
    /\ dest' = dest \o ContentBlock(id, Len(data), SubSeq(data, 1, written))
    /\ Fault("io", {id})
    /\ UNCHANGED <<state, ids, entries_info, next_id>>

(***************************************************************************)
(* end_entry.  The entry is closed, hash included, before the block that   *)
(* says so is written.                                                     *)
(***************************************************************************)
CloseEntry(id) ==
    /\ FileOpened(id)
    /\ hashes' = Drop(hashes, id)
    /\ ids' = ids \ {id}
    /\ RecordOffsetAndSize(id, 0)

EndEntry(id) ==
    /\ CloseEntry(id)
    /\ dest' = Append(dest, EndOfEntry(id, hashes[id]))
    /\ UNCHANGED <<state, entries_info, next_id, faults, damaged>>

EndEntryFails(id) ==
    /\ CloseEntry(id)
    /\ \E torn \in TornWrites : dest' = dest \o torn
    /\ Fault("io", {id})
    /\ UNCHANGED <<state, entries_info, next_id>>

(***************************************************************************)
(* finalize takes the writer by value: whatever it returns, the writer is  *)
(* gone afterwards.                                                        *)
(***************************************************************************)
\* ArchiveFooter::serialize_into joins the two maps.  A name the footer does
\* not list has no record; an entry always has one, that of its EntryStart.
FooterIndex ==
    [n \in Names |-> IF n \in DOMAIN entries_info
                     THEN ids_info[entries_info[n]] ELSE <<>>]

\* Mutant: finalize does not look for open entries.
StillOpen_Ignored == FALSE

\* What finalize refuses: an entry still open.
StillOpen == ids # {} \/ DOMAIN hashes # {}

Finalize ==
    /\ state = "OpenedFiles" /\ ~StillOpen
    /\ \A n \in DOMAIN entries_info : entries_info[n] \in DOMAIN ids_info
    /\ state' = "Finalized"
    /\ dest' = dest \o <<EndOfArchiveData, ArchiveFooter(FooterIndex)>>
    /\ UNCHANGED <<ids, hashes, entries_info, ids_info, next_id, faults, damaged>>

FinalizeRefused ==
    /\ state = "OpenedFiles" /\ StillOpen
    /\ state' = "Dropped"
    /\ UNCHANGED <<ids, hashes, entries_info, ids_info, next_id, dest, faults, damaged>>

\* A write fails before, between or after the two, or in the layers' own
\* finalize, once everything was written here.
FinalizeFails ==
    /\ state = "OpenedFiles" /\ ~StillOpen
    /\ state' = "Dropped"
    /\ \E k \in 0..2, torn \in TornWrites :
          dest' = dest \o SubSeq(<<EndOfArchiveData, ArchiveFooter(FooterIndex)>>, 1, k)
                       \o torn
    /\ Fault("io", {})
    /\ UNCHANGED <<ids, hashes, entries_info, ids_info, next_id>>

-----------------------------------------------------------------------------
Next ==
    \/ \E name \in Names : StartEntry(name) \/ StartEntryFails(name)
    \/ \E id \in ids, data \in Data :
          \/ AppendContent(id, data)
          \/ \E got \in 0..Len(data) : AppendContentShort(id, data, got)
          \/ AppendContentHeaderFails(id, data)
          \/ \E read \in 0..Len(data), written \in 0..Len(data) :
                AppendContentCopyFails(id, data, read, written)
    \/ \E id \in ids : EndEntry(id) \/ EndEntryFails(id)
    \/ Finalize
    \/ FinalizeRefused
    \/ FinalizeFails

Spec == Init /\ [][Next]_vars

-----------------------------------------------------------------------------
(***************************************************************************)
(* Properties.                                                             *)
(***************************************************************************)
IndexRecord == [offset : Nat, size : Nat]

Cell ==
    {EntriesMagic, EndOfArchiveData, Torn}
    \cup [kind : {"EntryStart"}, name : Names, id : Ids]
    \cup [kind : {"EntryContent"}, id : Ids, length : Nat]
    \cup [kind : {"Byte"}, val : Bytes]
    \cup [kind : {"EndOfEntry"}, id : Ids, hash : Seq(Bytes)]
    \cup [kind : {"ArchiveFooter"}, index : [Names -> Seq(IndexRecord)]]

\* The values the fields may take.
TypeOK ==
    /\ state \in {"OpenedFiles", "Finalized", "Dropped"}
    /\ ids \subseteq Ids
    /\ hashes \in [DOMAIN hashes -> Seq(Bytes)] /\ DOMAIN hashes \subseteq Ids
    /\ entries_info \in [DOMAIN entries_info -> Ids]
    /\ DOMAIN entries_info \subseteq Names
    /\ ids_info \in [DOMAIN ids_info -> Seq(IndexRecord)]
    /\ DOMAIN ids_info \subseteq Ids
    /\ next_id \in Ids
    /\ dest \in Seq(Cell)
    /\ faults \in Nat
    /\ damaged \subseteq Ids

\* The maps of the writer agree: an open entry has a running hash, every id
\* given out has an index entry, every name leads to one.
Bookkeeping ==
    /\ ids = DOMAIN hashes
    /\ DOMAIN ids_info = 0 .. next_id - 1
    /\ ids \subseteq DOMAIN ids_info
    /\ damaged \subseteq DOMAIN ids_info
    /\ \A n \in DOMAIN entries_info : entries_info[n] \in DOMAIN ids_info

\* A content block is whole: as many bytes follow its header as it announces.
Whole(p) ==
    /\ p + dest[p].length <= Len(dest)
    /\ \A q \in p + 1 .. p + dest[p].length : dest[q].kind = "Byte"

\* The block an index record of entry id points at.
BlockAt(id, i) == dest[ids_info[id][i].offset + 1]

\* Every block of the entry is in the index.
BlocksIndexed(id) ==
    \A p \in BlocksOf(dest, id) :
        \E i \in DOMAIN ids_info[id] : ids_info[id][i].offset + 1 = p

\* Every record of the index points at a block of the entry, and tells its size.
RecordsPoint(id) ==
    \A i \in DOMAIN ids_info[id] :
        LET record == ids_info[id][i]
            block == BlockAt(id, i)
        IN  /\ record.offset + 1 \in BlocksOf(dest, id)
            /\ i > 1 => ids_info[id][i - 1].offset < record.offset
            /\ block.kind = "EntryStart" <=> i = 1
            /\ block.kind = "EndOfEntry" <=> (i = Len(ids_info[id]) /\ id \notin ids)
            /\ block.kind = "EntryContent" =>
                  record.size = block.length /\ Whole(record.offset + 1)
            /\ block.kind # "EntryContent" => record.size = 0

\* The index built by record_offset_and_size_in_index, always before the block
\* is written, is exact for every entry whose own calls succeeded, whatever
\* happened to the others: its records are the positions of all the entry's
\* blocks, in order, the first an EntryStart, an EndOfEntry only at the end and
\* only once the entry is no longer open, the sizes those of the content.
IndexFaithful ==
    \A id \in DOMAIN ids_info \ damaged : BlocksIndexed(id) /\ RecordsPoint(id)

\* The offsets of an entry never decrease and lie inside the stream, failed
\* calls included: the order the format document requires of the footer.
OffsetsAscending ==
    \A id \in DOMAIN ids_info :
        \A i \in DOMAIN ids_info[id] :
            /\ ids_info[id][i].offset <= Len(dest)
            /\ i > 1 => ids_info[id][i - 1].offset <= ids_info[id][i].offset

\* The hash of an entry whose calls succeeded, running while it is open and
\* then the one in its EndOfEntry, is the hash of its content as the index
\* gives it, and, while no call failed at all, of its content as a reader
\* without the index finds it.
ContentVerifies ==
    \A id \in DOMAIN ids_info \ damaged :
        LET index == ids_info[id]
            hash == IF id \in ids THEN hashes[id] ELSE BlockAt(id, Len(index)).hash
        IN  /\ hash = IndexedContent(dest, index)
            /\ damaged = {} => hash = LinearContent(dest, id)

\* A finalized archive ends with the only EndOfArchiveData and the footer, and
\* the footer lists, for every entry whose calls succeeded, the entry's own
\* EntryStart first and its EndOfEntry last.
SealedComplete ==
    state = "Finalized" =>
        LET last == Len(dest) IN
        /\ dest[last].kind = "ArchiveFooter"
        /\ {p \in 1..last : dest[p].kind = "EndOfArchiveData"} = {last - 1}
        /\ \A n \in DOMAIN entries_info :
              LET index == dest[last].index[n]
                  id == entries_info[n]
                  block(i) == dest[index[i].offset + 1]
              IN  id \notin damaged =>
                    /\ Len(index) >= 2
                    /\ block(1) = EntryStart(n, id)
                    /\ block(Len(index)).kind = "EndOfEntry"
                    /\ block(Len(index)).id = id

FrozenStep ==
    \A id \in DOMAIN ids_info \ ids : id \notin ids' /\ ids_info'[id] = ids_info[id]

\* Once ended, even by a call that failed, an entry is never reopened and its
\* index never grows: no later call can add a block to it.
EndedEntryFrozen == [][FrozenStep]_vars

\* What the format document says of block_size (doc/src/FORMAT.md:145): the
\* size of the block's content, the bytes that follow the content header.
BlockSizeIsContentSize ==
    state = "Finalized" =>
        \A id \in DOMAIN ids_info : \A i \in DOMAIN ids_info[id] :
            ids_info[id][i].size > 0 => Whole(ids_info[id][i].offset + 1)

-----------------------------------------------------------------------------
(***************************************************************************)
(* The contract, seen through the index: the content of an entry is what   *)
(* its index reads back from the stream, and after finalize the index is   *)
(* the one in the footer.                                                  *)
(***************************************************************************)
IndexNow == IF state = "Finalized" THEN dest[Len(dest)].index ELSE FooterIndex

Promised(n) ==
    /\ state # "Dropped"
    /\ n \in DOMAIN entries_info
    /\ entries_info[n] \notin damaged

PhaseNow == CASE state = "OpenedFiles" -> "writing"
              [] state = "Finalized" -> "sealed"
              [] OTHER -> "lost"

StatusNow(n) ==
    IF state = "Dropped" \/ n \notin DOMAIN entries_info THEN "absent"
    ELSE IF entries_info[n] \in damaged THEN "spoiled"
    ELSE LET index == IndexNow[n] IN
         IF dest[index[Len(index)].offset + 1].kind = "EndOfEntry"
         THEN "closed" ELSE "open"

ContentNow(n) == IF Promised(n) THEN IndexedContent(dest, IndexNow[n]) ELSE <<>>

Contract == INSTANCE ArchiveContract WITH
    phase <- PhaseNow,
    status <- [n \in Names |-> StatusNow(n)],
    content <- [n \in Names |-> ContentNow(n)]

\* Every call changes the map from names to contents that the index describes
\* as the contract says, and a failed call spoils its own entry only.
ArchiveRefinesContract == Contract!AbsSpec
=============================================================================
