---------------------------- MODULE EntriesFormat ----------------------------
(***************************************************************************)
(* The MLA entries stream: the blocks of mla/src/format.rs as they lie in  *)
(* the stream the layers carry, and what a reader makes of them.           *)
(*                                                                         *)
(* A stream is a sequence of CELLS.  A block header (magic, type, id,      *)
(* options, name / length / hash) is one cell, and every content byte is a *)
(* cell of its own, so that a content header which announces more bytes    *)
(* than follow it makes a reader swallow the next headers, as on disk.     *)
(* Offsets count cells from 0: the cell at offset o is stream[o + 1].      *)
(* SHA-256 is an injective function of the bytes hashed: the hash of a     *)
(* byte sequence is that sequence.                                         *)
(***************************************************************************)
EXTENDS Integers, Sequences

(***************************************************************************)
(* Cells.                                                                  *)
(***************************************************************************)
EntriesMagic == [kind |-> "EntriesMagic"]
EntryStart(name, id) == [kind |-> "EntryStart", name |-> name, id |-> id]
EntryContent(id, length) ==
    [kind |-> "EntryContent", id |-> id, length |-> length]
EndOfEntry(id, hash) == [kind |-> "EndOfEntry", id |-> id, hash |-> hash]
EndOfArchiveData == [kind |-> "EndOfArchiveData"]
ArchiveFooter(index) == [kind |-> "ArchiveFooter", index |-> index]
Byte(b) == [kind |-> "Byte", val |-> b]
\* What is left of a header whose write failed part way.
Torn == [kind |-> "Torn"]

EntryBlockKinds == {"EntryStart", "EntryContent", "EndOfEntry"}

\* The header and the data of a content block, as dump lays them out.  The
\* announced length and the bytes that follow come from different sources.
ByteCells(data) == [i \in 1..Len(data) |-> Byte(data[i])]
ContentBlock(id, length, data) == <<EntryContent(id, length)>> \o ByteCells(data)

(***************************************************************************)
(* Reading.                                                                *)
(***************************************************************************)
\* The bytes found in the cells from..to of a stream; a cell that is not a
\* content byte reads as one byte of garbage, NoByte.
NoByte == "NoByte"
BytesAt(stream, from, to) ==
    [i \in 1..(to - from + 1) |->
        LET p == from + i - 1 IN
        IF p <= Len(stream) /\ stream[p].kind = "Byte"
        THEN stream[p].val ELSE NoByte]

\* The content of an entry as its index gives it: the concatenation of the
\* indexed blocks' data, each found just after the header at its offset.
IndexedContent(stream, index) ==
    LET upTo[i \in 0..Len(index)] ==
            IF i = 0 THEN <<>>
            ELSE upTo[i - 1] \o BytesAt(stream, index[i].offset + 2,
                                        index[i].offset + 1 + index[i].size)
    IN  upTo[Len(index)]

\* The content of an entry as a reader without an index finds it: block by
\* block from the start, each content header skipping the length it announces.
LinearContent(stream, id) ==
    LET from[p \in 2..Len(stream) + 1] ==
            IF p > Len(stream) THEN <<>>
            ELSE IF stream[p].kind # "EntryContent" THEN from[p + 1]
            ELSE LET end == p + stream[p].length
                     data == IF stream[p].id = id
                             THEN BytesAt(stream, p + 1, end) ELSE <<>>
                 IN  IF end > Len(stream) THEN data ELSE data \o from[end + 1]
    IN  from[2]

\* Positions of the headers of an entry's blocks.
BlocksOf(stream, id) ==
    {p \in 1..Len(stream) : stream[p].kind \in EntryBlockKinds /\ stream[p].id = id}
=============================================================================
