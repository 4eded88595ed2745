------------------------- MODULE ArchiveContentProofs -------------------------
(***************************************************************************)
(* Proofs about ArchiveWriter, for every set of names, bytes and chunks,   *)
(* every number of ids and every number of failed calls.                   *)
(***************************************************************************)
EXTENDS ArchiveWriter, DataInduction

-----------------------------------------------------------------------------
(***************************************************************************)
(* The cells a call writes.                                                *)
(***************************************************************************)
\* The cells of format.rs are cells of the stream.
LEMMA HeaderCells ==
    ASSUME NEW id \in Ids, NEW name \in Names, NEW length \in Nat,
           NEW hash \in Seq(Bytes), NEW index \in [Names -> Seq(IndexRecord)]
    PROVE  /\ EntryStart(name, id) \in Cell
           /\ EntryContent(id, length) \in Cell
           /\ EndOfEntry(id, hash) \in Cell
           /\ EndOfArchiveData \in Cell
           /\ Torn \in Cell
           /\ ArchiveFooter(index) \in Cell
  BY DEF Cell, EntryStart, EntryContent, EndOfEntry, ArchiveFooter

\* A content block is its header followed by one cell per byte.
LEMMA ContentBlockCells ==
    ASSUME NEW id \in Ids, NEW length \in Nat, NEW data \in Seq(Bytes)
    PROVE  /\ ContentBlock(id, length, data) \in Seq(Cell)
           /\ Len(ContentBlock(id, length, data)) = Len(data) + 1
           /\ ContentBlock(id, length, data)[1] = EntryContent(id, length)
           /\ \A k \in 2..Len(data) + 1 :
                 ContentBlock(id, length, data)[k] = Byte(data[k - 1])
  <1> DEFINE bytes == ByteCells(data)
  <1>1. bytes \in Seq(Cell) /\ Len(bytes) = Len(data)
    <2>1. \A i \in 1..Len(data) : Byte(data[i]) \in Cell
      BY DEF Byte, Cell
    <2>2. QED
      BY <2>1 DEF ByteCells
  <1>2. EntryContent(id, length) \in Cell
    BY DEF Cell, EntryContent
  <1>3. \A k \in 1..Len(data) : bytes[k] = Byte(data[k])
    BY DEF ByteCells
  <1> HIDE DEF bytes
  <1>4. ContentBlock(id, length, data) = <<EntryContent(id, length)>> \o bytes
    BY DEF ContentBlock, bytes
  <1> DEFINE head == EntryContent(id, length)
             block == <<head>> \o bytes
  <1>5. head \in Cell
    BY <1>2
  <1> HIDE DEF head
  <1>6. /\ block \in Seq(Cell) /\ Len(block) = Len(data) + 1
        /\ block[1] = head
    BY <1>1, <1>5
  <1>7. ASSUME NEW k \in 2..Len(data) + 1
        PROVE  block[k] = Byte(data[k - 1])
    <2>1. k - 1 \in 1..Len(data) /\ k \in Nat /\ k > 1 /\ k <= Len(bytes) + 1
      BY <1>1
    <2>2. block[k] = bytes[k - 1]
      BY <1>1, <1>5, <2>1
    <2>3. QED
      BY <1>3, <2>1, <2>2
  <1> HIDE DEF block
  <1>8. ContentBlock(id, length, data) = block
    BY <1>4 DEF block, head
  <1>9. QED
    BY <1>6, <1>7, <1>8 DEF head

\* Torn writes leave at most one cell, which is no header.
LEMMA TornCells ==
    ASSUME NEW torn \in TornWrites
    PROVE  /\ torn \in Seq(Cell)
           /\ \A k \in 1..Len(torn) : torn[k].kind \notin EntryBlockKinds
  <1>1. Torn \in Cell
    BY DEF Cell
  <1>2. Torn.kind \notin EntryBlockKinds
    BY DEF Torn, EntryBlockKinds
  <1>3. torn = <<>> \/ torn = <<Torn>>
    BY DEF TornWrites
  <1>4. CASE torn = <<>>
    BY <1>4
  <1>5. CASE torn = <<Torn>>
    <2>1. torn \in Seq(Cell)
      BY <1>1, <1>5
    <2>2. Len(torn) = 1 /\ torn[1] = Torn
      BY <1>5
    <2>3. QED
      BY <1>2, <2>1, <2>2
  <1>6. QED
    BY <1>3, <1>4, <1>5

-----------------------------------------------------------------------------
(***************************************************************************)
(* Type correctness.                                                       *)
(***************************************************************************)
\* Recording in the index keeps the type of ids_info and its domain.
LEMMA RecordType ==
    ASSUME TypeOK, NEW id \in DOMAIN ids_info, NEW size \in Nat,
           RecordOffsetAndSize(id, size)
    PROVE  /\ ids_info' \in [DOMAIN ids_info' -> Seq(IndexRecord)]
           /\ DOMAIN ids_info' = DOMAIN ids_info
           /\ Record(size) \in IndexRecord
           /\ ids_info'[id] = Append(ids_info[id], Record(size))
           /\ \A x \in DOMAIN ids_info \ {id} : ids_info'[x] = ids_info[x]
  <1>1. Record(size) \in IndexRecord
    BY DEF TypeOK, Record, Position, IndexRecord
  <1>2. Append(ids_info[id], Record(size)) \in Seq(IndexRecord)
    BY <1>1 DEF TypeOK
  <1>3. QED
    BY <1>1, <1>2 DEF TypeOK, RecordOffsetAndSize

TypeInv == TypeOK /\ Bookkeeping

LEMMA TypeInvInit == Init => TypeInv
  <1> SUFFICES ASSUME Init PROVE TypeInv
    OBVIOUS
  <1>1. EntriesMagic \in Cell
    BY DEF Cell
  <1>2. dest \in Seq(Cell)
    BY <1>1 DEF Init
  <1>3. QED
    BY <1>2, MaxIdAssumption DEF Init, TypeInv, TypeOK, Bookkeeping, Ids

\* What every append shares: the index record, whatever the copy then does.
LEMMA TypeInvAppend ==
    ASSUME TypeInv, NEW id \in ids, NEW data \in Data, NEW cells \in Seq(Cell),
           NEW read \in Seq(Bytes),
           RecordOffsetAndSize(id, Len(data)), HashUpdate(id, read),
           dest' = dest \o cells,
           faults' \in Nat, damaged' \in {damaged, damaged \cup {id}},
           UNCHANGED <<state, ids, entries_info, next_id>>
    PROVE  TypeInv'
  <1> USE DEF TypeInv
  <1>1. Len(data) \in Nat /\ id \in DOMAIN ids_info /\ id \in DOMAIN hashes
    BY DataAssumption DEF Bookkeeping
  <1>2. /\ ids_info' \in [DOMAIN ids_info' -> Seq(IndexRecord)]
        /\ DOMAIN ids_info' = DOMAIN ids_info
    BY <1>1, RecordType
  <1>3. /\ hashes' \in [DOMAIN hashes' -> Seq(Bytes)]
        /\ DOMAIN hashes' = DOMAIN hashes
    <2>1. hashes[id] \o read \in Seq(Bytes)
      BY <1>1 DEF TypeOK
    <2>2. QED
      BY <1>1, <2>1 DEF HashUpdate, TypeOK
  <1>4. dest' \in Seq(Cell)
    BY DEF TypeOK
  <1>5. TypeOK'
    BY <1>2, <1>3, <1>4 DEF TypeOK, Bookkeeping
  <1>6. Bookkeeping'
    BY <1>2, <1>3 DEF Bookkeeping
  <1>7. QED
    BY <1>5, <1>6

LEMMA TypeInvNext == TypeInv /\ [Next]_vars => TypeInv'
  <1> SUFFICES ASSUME TypeInv, [Next]_vars PROVE TypeInv'
    OBVIOUS
  <1> USE DEF TypeInv
  <1>1. ASSUME NEW name \in Names, ReserveEntry(name)
        PROVE  /\ next_id' \in Ids /\ next_id \in Ids
               /\ entries_info' \in [DOMAIN entries_info' -> Ids]
               /\ DOMAIN entries_info' \subseteq Names
               /\ ids_info' \in [DOMAIN ids_info' -> Seq(IndexRecord)]
               /\ DOMAIN ids_info' = 0 .. next_id' - 1
               /\ DOMAIN ids_info' = DOMAIN ids_info \cup {next_id}
               /\ DOMAIN ids_info' \subseteq Ids
               /\ \A n \in DOMAIN entries_info' : entries_info'[n] \in DOMAIN ids_info'
    <2>1. next_id' \in Ids /\ next_id \in Ids /\ next_id' = next_id + 1
      BY <1>1, MaxIdAssumption DEF ReserveEntry, TypeOK, Ids
    <2>2. /\ entries_info' \in [DOMAIN entries_info' -> Ids]
          /\ DOMAIN entries_info' = DOMAIN entries_info \cup {name}
          /\ entries_info'[name] = next_id
          /\ \A n \in DOMAIN entries_info \ {name} : entries_info'[n] = entries_info[n]
      BY <1>1, <2>1 DEF ReserveEntry, TypeOK, Put
    <2>3. <<Record(0)>> \in Seq(IndexRecord)
      BY DEF Record, IndexRecord, Position, TypeOK
    <2>4. /\ ids_info' \in [DOMAIN ids_info' -> Seq(IndexRecord)]
          /\ DOMAIN ids_info' = DOMAIN ids_info \cup {next_id}
      BY <1>1, <2>3 DEF ReserveEntry, TypeOK, Put
    <2>5. DOMAIN ids_info' = 0 .. next_id' - 1
      BY <2>1, <2>4 DEF Bookkeeping, Ids
    <2>6. DOMAIN ids_info' \subseteq Ids
      BY <2>1, <2>5, MaxIdAssumption DEF Ids
    <2>7. \A n \in DOMAIN entries_info' : entries_info'[n] \in DOMAIN ids_info'
      BY <2>2, <2>4 DEF Bookkeeping
    <2>8. QED
      BY <2>1, <2>2, <2>4, <2>5, <2>6, <2>7 DEF TypeOK
  <1>2. ASSUME NEW name \in Names, StartEntry(name) PROVE TypeInv'
    <2>1. ReserveEntry(name)
      BY <1>2 DEF StartEntry
    <2>2. EntryStart(name, next_id) \in Cell
      BY DEF Cell, EntryStart, TypeOK
    <2>3. dest' \in Seq(Cell)
      BY <1>2, <2>2 DEF StartEntry, TypeOK
    <2>4. /\ hashes' \in [DOMAIN hashes' -> Seq(Bytes)]
          /\ DOMAIN hashes' = DOMAIN hashes \cup {next_id}
      BY <1>2 DEF StartEntry, TypeOK, Put
    <2>5. TypeOK'
      BY <1>2, <1>1, <2>1, <2>3, <2>4 DEF StartEntry, TypeOK
    <2>6. Bookkeeping'
      BY <1>2, <1>1, <2>1, <2>4 DEF StartEntry, Bookkeeping
    <2>7. QED
      BY <2>5, <2>6
  <1>3. ASSUME NEW name \in Names, StartEntryFails(name) PROVE TypeInv'
    <2>1. ReserveEntry(name)
      BY <1>3 DEF StartEntryFails
    <2>2. dest' \in Seq(Cell)
      BY <1>3, TornCells DEF StartEntryFails, TypeOK
    <2>3. damaged' = damaged \cup {next_id} /\ faults' \in Nat
      BY <1>3 DEF StartEntryFails, Fault, TypeOK
    <2>4. TypeOK'
      BY <1>3, <1>1, <2>1, <2>2, <2>3 DEF StartEntryFails, TypeOK
    <2>5. Bookkeeping'
      BY <1>3, <1>1, <2>1, <2>3 DEF StartEntryFails, Bookkeeping
    <2>6. QED
      BY <2>4, <2>5
  <1>4. ASSUME NEW id \in ids, NEW data \in Data, AppendContent(id, data)
        PROVE  TypeInv'
    <2>1. ContentBlock(id, Len(data), data) \in Seq(Cell)
      <3>1. id \in Ids /\ data \in Seq(Bytes) /\ Len(data) \in Nat
        BY DataAssumption DEF TypeOK
      <3>2. QED
        BY <3>1, ContentBlockCells
    <2>2. QED
      BY <1>4, <2>1, TypeInvAppend, DataAssumption DEF AppendContent, TypeOK
  <1>5. ASSUME NEW id \in ids, NEW data \in Data, NEW got \in 0..Len(data),
               AppendContentShort(id, data, got)
        PROVE  TypeInv'
    <2>1. SubSeq(data, 1, got) \in Seq(Bytes)
      BY DataAssumption
    <2>2. ContentBlock(id, Len(data), SubSeq(data, 1, got)) \in Seq(Cell)
      <3>1. id \in Ids /\ Len(data) \in Nat
        BY DataAssumption DEF TypeOK
      <3>2. QED
        BY <2>1, <3>1, ContentBlockCells
    <2>3. faults' \in Nat /\ damaged' = damaged \cup {id}
      BY <1>5 DEF AppendContentShort, Fault, TypeOK
    <2>4. QED
      BY <1>5, <2>1, <2>2, <2>3, TypeInvAppend DEF AppendContentShort
  <1>6. ASSUME NEW id \in ids, NEW data \in Data, AppendContentHeaderFails(id, data)
        PROVE  TypeInv'
    <2>1. PICK torn \in TornWrites : dest' = dest \o torn
      BY <1>6 DEF AppendContentHeaderFails
    <2>2. faults' \in Nat /\ damaged' = damaged \cup {id}
      BY <1>6 DEF AppendContentHeaderFails, Fault, TypeOK
    <2>3. HashUpdate(id, <<>>)
      <3>1. hashes[id] \o <<>> = hashes[id]
        BY DEF TypeOK, Bookkeeping
      <3>2. QED
        BY <1>6, <3>1 DEF AppendContentHeaderFails, HashUpdate, TypeOK
    <2>4. torn \in Seq(Cell) /\ <<>> \in Seq(Bytes)
      BY TornCells
    <2>5. RecordOffsetAndSize(id, Len(data)) /\ UNCHANGED <<state, ids, entries_info, next_id>>
      BY <1>6 DEF AppendContentHeaderFails
    <2>6. QED
      BY <2>1, <2>2, <2>3, <2>4, <2>5, TypeInvAppend
  <1>7. ASSUME NEW id \in ids, NEW data \in Data,
               NEW read \in 0..Len(data), NEW written \in 0..Len(data),
               AppendContentCopyFails(id, data, read, written)
        PROVE  TypeInv'
    <2>1. SubSeq(data, 1, read) \in Seq(Bytes) /\ SubSeq(data, 1, written) \in Seq(Bytes)
      BY DataAssumption
    <2>2. ContentBlock(id, Len(data), SubSeq(data, 1, written)) \in Seq(Cell)
      <3>1. id \in Ids /\ Len(data) \in Nat
        BY DataAssumption DEF TypeOK
      <3>2. QED
        BY <2>1, <3>1, ContentBlockCells
    <2>3. faults' \in Nat /\ damaged' = damaged \cup {id}
      BY <1>7 DEF AppendContentCopyFails, Fault, TypeOK
    <2>4. QED
      BY <1>7, <2>1, <2>2, <2>3, TypeInvAppend DEF AppendContentCopyFails
  <1>8. ASSUME NEW id \in ids, CloseEntry(id)
        PROVE  /\ ids_info' \in [DOMAIN ids_info' -> Seq(IndexRecord)]
               /\ DOMAIN ids_info' = DOMAIN ids_info
               /\ hashes' \in [DOMAIN hashes' -> Seq(Bytes)]
               /\ DOMAIN hashes' = DOMAIN hashes \ {id}
               /\ ids' = ids \ {id}
    <2>1. id \in DOMAIN ids_info
      BY DEF Bookkeeping
    <2>2. QED
      BY <1>8, <2>1, RecordType DEF CloseEntry, TypeOK, Drop
  <1>9. ASSUME NEW id \in ids, EndEntry(id) PROVE TypeInv'
    <2>1. CloseEntry(id)
      BY <1>9 DEF EndEntry
    <2>2. EndOfEntry(id, hashes[id]) \in Cell
      BY DEF Cell, EndOfEntry, TypeOK, Bookkeeping
    <2>3. dest' \in Seq(Cell)
      BY <1>9, <2>2 DEF EndEntry, TypeOK
    <2>4. QED
      BY <1>9, <1>8, <2>1, <2>3 DEF EndEntry, TypeOK, Bookkeeping
  <1>10. ASSUME NEW id \in ids, EndEntryFails(id) PROVE TypeInv'
    <2>1. CloseEntry(id)
      BY <1>10 DEF EndEntryFails
    <2>2. dest' \in Seq(Cell)
      BY <1>10, TornCells DEF EndEntryFails, TypeOK
    <2>3. faults' \in Nat /\ damaged' = damaged \cup {id}
      BY <1>10 DEF EndEntryFails, Fault, TypeOK
    <2>4. QED
      BY <1>10, <1>8, <2>1, <2>2, <2>3 DEF EndEntryFails, TypeOK, Bookkeeping
  <1>11. FooterIndex \in [Names -> Seq(IndexRecord)]
    BY DEF FooterIndex, TypeOK, Bookkeeping
  <1>12. <<EndOfArchiveData, ArchiveFooter(FooterIndex)>> \in Seq(Cell)
    BY <1>11 DEF Cell, ArchiveFooter
  <1>13. CASE Finalize
    BY <1>13, <1>12 DEF Finalize, TypeOK, Bookkeeping
  <1>14. CASE FinalizeRefused
    BY <1>14 DEF FinalizeRefused, TypeOK, Bookkeeping
  <1>15. CASE FinalizeFails
    <2> DEFINE tail == <<EndOfArchiveData, ArchiveFooter(FooterIndex)>>
    <2>1. PICK k \in 0..2, torn \in TornWrites :
             dest' = dest \o SubSeq(tail, 1, k) \o torn
      BY <1>15 DEF FinalizeFails
    <2>2. tail \in Seq(Cell) /\ Len(tail) = 2
      BY <1>12
    <2>3. SubSeq(tail, 1, k) \in Seq(Cell)
      <3> HIDE DEF tail
      <3>1. QED
        BY <2>2
    <2> HIDE DEF tail
    <2>4. dest' \in Seq(Cell)
      <3>1. dest \in Seq(Cell) /\ torn \in Seq(Cell)
        BY TornCells DEF TypeOK
      <3>2. QED
        BY <2>1, <2>3, <3>1
    <2>5. faults' \in Nat /\ damaged' = damaged
      BY <1>15 DEF FinalizeFails, Fault, TypeOK
    <2>6. /\ state' = "Dropped"
          /\ UNCHANGED <<ids, hashes, entries_info, ids_info, next_id>>
      BY <1>15 DEF FinalizeFails
    <2>7. QED
      BY <2>4, <2>5, <2>6 DEF TypeOK, Bookkeeping
  <1>16. CASE UNCHANGED vars
    BY <1>16 DEF vars, TypeOK, Bookkeeping
  <1>17. QED
    BY <1>2, <1>3, <1>4, <1>5, <1>6, <1>7, <1>9, <1>10, <1>13, <1>14, <1>15, <1>16
       DEF Next

\* Every field of the writer keeps its type, whichever calls succeed or fail.
THEOREM TypeCorrect == Spec => []TypeOK
  <1>1. Init => TypeInv
    BY TypeInvInit
  <1>2. TypeInv /\ [Next]_vars => TypeInv'
    BY TypeInvNext
  <1>3. TypeInv => TypeOK
    BY DEF TypeInv
  <1>4. QED
    BY <1>1, <1>2, <1>3, PTL DEF Spec

-----------------------------------------------------------------------------
(***************************************************************************)
(* The index.  IndexFaithful is not inductive alone: a fresh id must have  *)
(* no block yet, and every entry at least one record.                      *)
(***************************************************************************)
\* The blocks in the stream belong to ids that have been given out.
HeadersKnown ==
    \A p \in 1..Len(dest) : dest[p].kind \in EntryBlockKinds => dest[p].id \in DOMAIN ids_info

\* Every id given out has its EntryStart in the index.
IndexNonempty == \A id \in DOMAIN ids_info : Len(ids_info[id]) >= 1

IndexInv ==
    /\ TypeInv
    /\ HeadersKnown
    /\ IndexNonempty
    /\ OffsetsAscending
    /\ IndexFaithful

\* Appending cells leaves what was written where it was.
LEMMA DestExtended ==
    ASSUME TypeOK, NEW cells \in Seq(Cell), dest' = dest \o cells
    PROVE  /\ Len(dest) \in Nat /\ Len(cells) \in Nat
           /\ Len(dest') = Len(dest) + Len(cells)
           /\ \A p \in 1..Len(dest) : dest'[p] = dest[p]
           /\ \A p \in Len(dest) + 1 .. Len(dest') : dest'[p] = cells[p - Len(dest)]
  BY DEF TypeOK

\* An entry that is neither written to nor opened nor closed by a step keeps
\* its faithful index, whatever cells the step adds for others.
LEMMA OtherEntry ==
    ASSUME TypeOK, NEW cells \in Seq(Cell), dest' = dest \o cells,
           NEW id \in DOMAIN ids_info, ids_info'[id] = ids_info[id],
           id \in ids' <=> id \in ids,
           \A k \in 1..Len(cells) :
              cells[k].kind \in EntryBlockKinds => cells[k].id # id,
           BlocksIndexed(id), RecordsPoint(id)
    PROVE  BlocksIndexed(id)' /\ RecordsPoint(id)'
  <1> DEFINE index == ids_info[id]
  <1>1. /\ Len(dest) \in Nat /\ Len(cells) \in Nat
        /\ Len(dest') = Len(dest) + Len(cells)
        /\ \A p \in 1..Len(dest) : dest'[p] = dest[p]
        /\ \A p \in Len(dest) + 1 .. Len(dest') : dest'[p] = cells[p - Len(dest)]
    BY DestExtended
  <1>2. BlocksOf(dest, id)' = BlocksOf(dest, id)
    <2>1. \A p \in 1..Len(dest') :
             p \in Len(dest) + 1 .. Len(dest') =>
                (dest'[p].kind \in EntryBlockKinds => dest'[p].id # id)
      BY <1>1
    <2>2. QED
      BY <1>1, <2>1 DEF BlocksOf
  <1>3. BlocksIndexed(id)'
    BY <1>2 DEF BlocksIndexed
  <1>4. index \in Seq(IndexRecord)
    BY DEF TypeOK
  <1>5. ASSUME NEW i \in DOMAIN index
        PROVE  /\ index[i].offset + 1 \in 1..Len(dest)
               /\ BlockAt(id, i)' = BlockAt(id, i)
               /\ BlockAt(id, i).kind = "EntryContent" /\ Whole(index[i].offset + 1)
                     => Whole(index[i].offset + 1)'
    <2>1. index[i].offset + 1 \in BlocksOf(dest, id)
      BY DEF RecordsPoint
    <2>2. index[i].offset \in Nat /\ index[i].offset + 1 \in 1..Len(dest)
      <3>1. index[i] \in IndexRecord
        <4> HIDE DEF index
        <4>1. QED
          BY <1>4
      <3>2. index[i].offset \in Nat
        BY <3>1 DEF IndexRecord
      <3>3. QED
        BY <2>1, <3>2 DEF BlocksOf
    <2>3. BlockAt(id, i)' = BlockAt(id, i)
      BY <1>1, <2>2 DEF BlockAt
    <2>4. ASSUME BlockAt(id, i).kind = "EntryContent", Whole(index[i].offset + 1)
          PROVE  Whole(index[i].offset + 1)'
      <3> DEFINE p == index[i].offset + 1
      <3>1. dest[p] \in Cell /\ dest[p].kind = "EntryContent"
        BY <2>2, <2>4 DEF BlockAt, TypeOK
      <3>2. dest[p].length \in Nat
        BY <3>1 DEF Cell, EntriesMagic, EndOfArchiveData, Torn
      <3>3. p + dest[p].length <= Len(dest) /\ dest'[p] = dest[p]
        BY <1>1, <2>2, <2>4 DEF Whole
      <3>4. \A q \in p + 1 .. p + dest[p].length : q \in 1..Len(dest) /\ dest[q].kind = "Byte"
        BY <2>2, <2>4, <3>2, <3>3, <1>1 DEF Whole
      <3>5. QED
        BY <1>1, <2>2, <3>2, <3>3, <3>4 DEF Whole
    <2>5. QED
      BY <2>2, <2>3, <2>4
  <1>6. RecordsPoint(id)'
    BY <1>2, <1>5 DEF RecordsPoint
  <1>7. QED
    BY <1>3, <1>6

\* A call that records and writes one block of an open entry, whole, keeps the
\* index of that entry faithful.
LEMMA NewRecord ==
    ASSUME TypeOK, NEW id \in DOMAIN ids_info, id \in ids, IndexNonempty,
           OffsetsAscending, NEW cells \in Seq(Cell), dest' = dest \o cells,
           NEW size \in Nat, Len(cells) = size + 1,
           ids_info'[id] = Append(ids_info[id], Record(size)),
           cells[1].id = id,
           \/ cells[1].kind = "EntryContent" /\ cells[1].length = size /\ id \in ids'
           \/ cells[1].kind = "EndOfEntry" /\ size = 0 /\ id \notin ids',
           \A k \in 2..Len(cells) : cells[k].kind = "Byte",
           BlocksIndexed(id), RecordsPoint(id)
    PROVE  BlocksIndexed(id)' /\ RecordsPoint(id)'
  <1> DEFINE index == ids_info[id]
             new == Len(dest) + 1
             n == Len(index)
             index1 == ids_info'[id]
             block1(i) == dest'[index1[i].offset + 1]
             whole1(p) == /\ p + dest'[p].length <= Len(dest')
                          /\ \A q \in p + 1 .. p + dest'[p].length : dest'[q].kind = "Byte"
  <1>1. /\ Len(dest) \in Nat /\ Len(cells) \in Nat
        /\ Len(dest') = Len(dest) + Len(cells)
        /\ \A p \in 1..Len(dest) : dest'[p] = dest[p]
        /\ \A p \in Len(dest) + 1 .. Len(dest') : dest'[p] = cells[p - Len(dest)]
    BY DestExtended
  <1>2. index \in Seq(IndexRecord) /\ n \in Nat /\ n >= 1 /\ Record(size) \in IndexRecord
    BY <1>1 DEF TypeOK, IndexNonempty, Record, IndexRecord, Position
  <1>3. /\ DOMAIN index = 1..n /\ DOMAIN index1 = 1..n + 1
        /\ \A i \in 1..n : index1[i] = index[i] /\ index[i] \in IndexRecord
        /\ index1[n + 1] = Record(size) /\ Len(index1) = n + 1
    <2> HIDE DEF index
    <2>1. index1 = Append(index, Record(size))
      BY DEF index
    <2>2. QED
      BY <1>2, <2>1
  <1>4. \A i \in 1..n : index[i].offset \in Nat /\ index[i].size \in Nat
    BY <1>3 DEF IndexRecord
  <1>5. Record(size).offset = Len(dest) /\ Record(size).size = size
    BY DEF Record, Position
  <1>6. /\ dest'[new] = cells[1] /\ new \in 1..Len(dest')
        /\ \A p \in new + 1 .. Len(dest') : dest'[p].kind = "Byte"
    <2>1. dest'[new] = cells[1] /\ new \in 1..Len(dest')
      BY <1>1
    <2>2. ASSUME NEW p \in new + 1 .. Len(dest')
          PROVE  dest'[p].kind = "Byte"
      <3>1. p - Len(dest) \in 2..Len(cells) /\ dest'[p] = cells[p - Len(dest)]
        BY <1>1
      <3>2. QED
        BY <3>1
    <2>3. QED
      BY <2>1, <2>2
  <1>7. BlocksOf(dest, id)' = BlocksOf(dest, id) \cup {new}
    <2>1. \A p \in 1..Len(dest') :
             p \in 1..Len(dest) \/ p = new \/ p \in new + 1 .. Len(dest')
      BY <1>1
    <2>2. 1..Len(dest) \subseteq 1..Len(dest')
      BY <1>1
    <2>3. dest'[new].kind \in EntryBlockKinds /\ dest'[new].id = id
      BY <1>6 DEF EntryBlockKinds
    <2>4. "Byte" \notin EntryBlockKinds
      BY DEF EntryBlockKinds
    <2>5. QED
      BY <1>1, <1>6, <2>1, <2>2, <2>3, <2>4 DEF BlocksOf
  <1>8. BlocksIndexed(id)'
    <2>1. ASSUME NEW p \in BlocksOf(dest, id)'
          PROVE  \E i \in DOMAIN index1 : index1[i].offset + 1 = p
      <3>1. CASE p = new
        <4>1. n + 1 \in DOMAIN index1 /\ index1[n + 1].offset + 1 = p
          BY <3>1, <1>2, <1>3, <1>5
        <4>2. QED
          BY <4>1
      <3>2. CASE p \in BlocksOf(dest, id)
        <4>1. PICK i \in DOMAIN index : index[i].offset + 1 = p
          BY <3>2 DEF BlocksIndexed
        <4>2. i \in DOMAIN index1 /\ index1[i].offset + 1 = p
          BY <4>1, <1>2, <1>3
        <4>3. QED
          BY <4>2
      <3>3. QED
        BY <3>1, <3>2, <2>1, <1>7
    <2>2. QED
      BY <2>1 DEF BlocksIndexed
  <1>9. ASSUME NEW i \in 1..n
        PROVE  /\ index[i].offset + 1 \in BlocksOf(dest, id)
               /\ index[i].offset + 1 \in 1..Len(dest)
               /\ i > 1 => index[i - 1].offset < index[i].offset
               /\ BlockAt(id, i).kind = "EntryStart" <=> i = 1
               /\ BlockAt(id, i).kind # "EndOfEntry"
               /\ BlockAt(id, i).kind = "EntryContent" =>
                     index[i].size = BlockAt(id, i).length /\ Whole(index[i].offset + 1)
               /\ BlockAt(id, i).kind # "EntryContent" => index[i].size = 0
    <2>1. i \in DOMAIN index
      BY <1>3
    <2>2. QED
      BY <2>1 DEF RecordsPoint, BlocksOf
  <1>10. ASSUME NEW i \in 1..n
         PROVE  /\ block1(i) = BlockAt(id, i)
                /\ BlockAt(id, i).kind = "EntryContent" => whole1(index[i].offset + 1)
    <2>1. block1(i) = BlockAt(id, i)
      BY <1>1, <1>3, <1>9 DEF BlockAt
    <2>2. ASSUME BlockAt(id, i).kind = "EntryContent"
          PROVE  whole1(index[i].offset + 1)
      <3> DEFINE p == index[i].offset + 1
      <3>1. p \in 1..Len(dest) /\ Whole(p)
        BY <1>9, <2>2
      <3>2. dest[p] \in Cell /\ dest[p].kind = "EntryContent"
        BY <3>1, <2>2 DEF BlockAt, TypeOK
      <3>3. dest[p].length \in Nat
        BY <3>2 DEF Cell, EntriesMagic, EndOfArchiveData, Torn
      <3>4. p + dest[p].length <= Len(dest) /\ dest'[p] = dest[p]
        BY <1>1, <3>1 DEF Whole
      <3>5. \A q \in p + 1 .. p + dest[p].length : q \in 1..Len(dest) /\ dest[q].kind = "Byte"
        BY <3>1, <3>3, <3>4, <1>1, SMTT(60) DEF Whole
      <3>6. QED
        BY <1>1, <3>1, <3>3, <3>4, <3>5, SMTT(60) DEF Whole
    <2>3. QED
      BY <2>1, <2>2
  <1>11. ASSUME NEW i \in 1..n + 1
         PROVE  /\ index1[i].offset + 1 \in BlocksOf(dest, id)'
                /\ i > 1 => index1[i - 1].offset < index1[i].offset
                /\ block1(i).kind = "EntryStart" <=> i = 1
                /\ block1(i).kind = "EndOfEntry" <=> (i = n + 1 /\ id \notin ids')
                /\ block1(i).kind = "EntryContent" =>
                      /\ index1[i].size = block1(i).length
                      /\ whole1(index1[i].offset + 1)
                /\ block1(i).kind # "EntryContent" => index1[i].size = 0
    <2>1. CASE i \in 1..n
      <3>1. index1[i] = index[i] /\ (i > 1 => index1[i - 1] = index[i - 1]) /\ i # n + 1
        BY <2>1, <1>2, <1>3
      <3>2. whole1(index[i].offset + 1) => whole1(index1[i].offset + 1)
        BY <3>1
      <3> HIDE DEF index, index1, block1, whole1
      <3>3. QED
        BY <2>1, <3>1, <3>2, <1>7, <1>9, <1>10
    <2>2. CASE i = n + 1
      <3>1. index1[i] = Record(size) /\ index1[i - 1] = index[n] /\ i > 1 /\ n \in 1..n
        BY <2>2, <1>2, <1>3
      <3>2. index1[i].offset + 1 = new /\ index1[i].size = size
        BY <3>1, <1>5
      <3>3. block1(i) = cells[1]
        BY <3>2, <1>6
      <3>4. index1[i - 1].offset < index1[i].offset
        BY <3>1, <1>9, <1>1, <1>4, <1>5, SMTT(60)
      <3>5. cells[1].kind = "EntryContent" => whole1(new)
        BY <1>1, <1>6
      <3>6. QED
        BY <2>2, <3>1, <3>2, <3>3, <3>4, <3>5, <1>7, <1>2
    <2>3. i \in 1..n \/ i = n + 1
      BY <1>2
    <2> HIDE DEF index, index1, n, block1, whole1
    <2>4. QED
      BY <2>1, <2>2, <2>3
  <1>12. RecordsPoint(id)'
    <2>1. ASSUME NEW i \in DOMAIN index1
          PROVE  LET record == index1[i]
                     block == dest'[index1[i].offset + 1]
                 IN  /\ record.offset + 1 \in BlocksOf(dest, id)'
                     /\ i > 1 => index1[i - 1].offset < record.offset
                     /\ block.kind = "EntryStart" <=> i = 1
                     /\ block.kind = "EndOfEntry" <=> (i = Len(index1) /\ id \notin ids')
                     /\ block.kind = "EntryContent" =>
                           record.size = block.length /\ whole1(record.offset + 1)
                     /\ block.kind # "EntryContent" => record.size = 0
      <3>1. i \in 1..n + 1 /\ Len(index1) = n + 1
        BY <1>3
      <3> HIDE DEF index, index1, n, whole1
      <3>2. QED
        BY <3>1, <1>11, ZenonT(60)
    <2>2. QED
      BY <2>1 DEF RecordsPoint, BlockAt, Whole
  <1>13. QED
    BY <1>8, <1>12

\* Blocks are only written for ids that have been given out.
LEMMA HeadersKnownStep ==
    ASSUME TypeOK, HeadersKnown, NEW cells \in Seq(Cell), dest' = dest \o cells,
           DOMAIN ids_info \subseteq DOMAIN ids_info',
           \A k \in 1..Len(cells) :
              cells[k].kind \in EntryBlockKinds => cells[k].id \in DOMAIN ids_info'
    PROVE  HeadersKnown'
  <1>1. /\ Len(dest) \in Nat /\ Len(cells) \in Nat
        /\ Len(dest') = Len(dest) + Len(cells)
        /\ \A p \in 1..Len(dest) : dest'[p] = dest[p]
        /\ \A p \in Len(dest) + 1 .. Len(dest') : dest'[p] = cells[p - Len(dest)]
    BY DestExtended
  <1>2. ASSUME NEW p \in 1..Len(dest'), dest'[p].kind \in EntryBlockKinds
        PROVE  dest'[p].id \in DOMAIN ids_info'
    <2>1. CASE p \in 1..Len(dest)
      BY <1>1, <1>2, <2>1 DEF HeadersKnown
    <2>2. CASE p \in Len(dest) + 1 .. Len(dest')
      <3>1. p - Len(dest) \in 1..Len(cells) /\ dest'[p] = cells[p - Len(dest)]
        BY <1>1, <2>2
      <3>2. QED
        BY <1>2, <3>1
    <2>3. QED
      BY <1>1, <2>1, <2>2
  <1>3. QED
    BY <1>2 DEF HeadersKnown

\* record_offset_and_size_in_index at the end of the stream keeps the offsets
\* in order, whatever part of the block is then written.
LEMMA RecordStep ==
    ASSUME TypeOK, IndexNonempty, OffsetsAscending, NEW id \in DOMAIN ids_info,
           NEW size \in Nat, RecordOffsetAndSize(id, size),
           NEW cells \in Seq(Cell), dest' = dest \o cells
    PROVE  /\ DOMAIN ids_info' = DOMAIN ids_info
           /\ ids_info'[id] = Append(ids_info[id], Record(size))
           /\ \A x \in DOMAIN ids_info \ {id} : ids_info'[x] = ids_info[x]
           /\ IndexNonempty' /\ OffsetsAscending'
  <1>1. /\ DOMAIN ids_info' = DOMAIN ids_info
        /\ ids_info'[id] = Append(ids_info[id], Record(size))
        /\ \A x \in DOMAIN ids_info \ {id} : ids_info'[x] = ids_info[x]
    BY DEF RecordOffsetAndSize, TypeOK
  <1>2. Len(dest) \in Nat /\ Len(dest') \in Nat /\ Len(dest) <= Len(dest')
    BY DestExtended
  <1>3. Record(size).offset = Len(dest) /\ Record(size) \in IndexRecord
    BY <1>2 DEF Record, Position, IndexRecord
  <1>4. ASSUME NEW x \in DOMAIN ids_info
        PROVE  /\ ids_info[x] \in Seq(IndexRecord) /\ Len(ids_info[x]) \in Nat
               /\ Len(ids_info[x]) >= 1
               /\ \A i \in DOMAIN ids_info[x] : ids_info[x][i].offset \in Nat
    <2>1. ids_info[x] \in Seq(IndexRecord)
      BY DEF TypeOK
    <2>2. \A i \in DOMAIN ids_info[x] : ids_info[x][i] \in IndexRecord
      BY <2>1
    <2>3. QED
      BY <2>1, <2>2 DEF IndexNonempty, IndexRecord
  <1>5. ASSUME NEW x \in DOMAIN ids_info
        PROVE  /\ Len(ids_info'[x]) >= 1
               /\ \A i \in DOMAIN ids_info'[x] :
                     /\ ids_info'[x][i].offset <= Len(dest')
                     /\ i > 1 => ids_info'[x][i - 1].offset <= ids_info'[x][i].offset
    <2>1. \A i \in DOMAIN ids_info[x] :
             /\ ids_info[x][i].offset <= Len(dest)
             /\ i > 1 => ids_info[x][i - 1].offset <= ids_info[x][i].offset
      BY DEF OffsetsAscending
    <2>2. CASE x # id
      BY <1>1, <1>2, <1>4, <2>1, <2>2
    <2>3. CASE x = id
      <3> DEFINE old == ids_info[x]
                 n == Len(old)
                 now == ids_info'[x]
      <3>1. now = Append(old, Record(size)) /\ old \in Seq(IndexRecord) /\ n \in Nat /\ n >= 1
        BY <1>1, <1>4, <2>3
      <3>2. /\ DOMAIN old = 1..n /\ DOMAIN now = 1..n + 1 /\ Len(now) = n + 1
            /\ now[n + 1] = Record(size)
            /\ \A i \in 1..n : now[i] = old[i]
        <4> HIDE DEF old, now
        <4>1. QED
          BY <3>1, <1>3 DEF n
      <3>3. ASSUME NEW i \in 1..n + 1
            PROVE  /\ now[i].offset <= Len(dest')
                   /\ i > 1 => now[i - 1].offset <= now[i].offset
        <4>1. CASE i \in 1..n
          <5>1. now[i] = old[i] /\ (i > 1 => now[i - 1] = old[i - 1]) /\ i \in DOMAIN old
            BY <4>1, <3>1, <3>2
          <5>2. old[i].offset \in Nat
            BY <5>1, <1>4
          <5>3. QED
            BY <5>1, <5>2, <2>1, <1>2
        <4>2. CASE i = n + 1
          <5>1. now[i] = Record(size) /\ now[i - 1] = old[n] /\ n \in DOMAIN old
            BY <4>2, <3>1, <3>2
          <5>2. QED
            BY <5>1, <1>2, <1>3, <2>1
        <4>3. i \in 1..n \/ i = n + 1
          BY <3>1
        <4> HIDE DEF old, now, n
        <4>4. QED
          BY <4>1, <4>2, <4>3
      <3>4. QED
        BY <3>1, <3>2, <3>3
    <2>4. QED
      BY <2>2, <2>3
  <1>6. IndexNonempty' /\ OffsetsAscending'
    BY <1>1, <1>5 DEF IndexNonempty, OffsetsAscending
  <1>7. QED
    BY <1>1, <1>6

\* A step that writes blocks of the entry id only: the others keep their index.
LEMMA FaithfulStep ==
    ASSUME TypeOK, IndexFaithful, NEW id \in Ids,
           NEW cells \in Seq(Cell), dest' = dest \o cells,
           \A k \in 1..Len(cells) : cells[k].kind \in EntryBlockKinds => cells[k].id = id,
           DOMAIN ids_info' \subseteq DOMAIN ids_info \cup {id},
           \A x \in DOMAIN ids_info \ {id} :
              ids_info'[x] = ids_info[x] /\ (x \in ids' <=> x \in ids),
           damaged \subseteq damaged',
           id \notin damaged' => BlocksIndexed(id)' /\ RecordsPoint(id)'
    PROVE  IndexFaithful'
  <1>1. ASSUME NEW x \in DOMAIN ids_info', x \notin damaged'
        PROVE  BlocksIndexed(x)' /\ RecordsPoint(x)'
    <2>1. CASE x = id
      BY <1>1, <2>1
    <2>2. CASE x # id
      <3>1. /\ x \in DOMAIN ids_info
            /\ ids_info'[x] = ids_info[x] /\ (x \in ids' <=> x \in ids)
            /\ BlocksIndexed(x) /\ RecordsPoint(x)
        BY <1>1, <2>2 DEF IndexFaithful
      <3>2. \A k \in 1..Len(cells) : cells[k].kind \in EntryBlockKinds => cells[k].id # x
        BY <2>2
      <3>3. QED
        BY <3>1, <3>2, OtherEntry
    <2>3. QED
      BY <2>1, <2>2
  <1>2. QED
    BY <1>1 DEF IndexFaithful

\* start_entry gives out an id that has no block yet, with one record at the
\* end of the stream.
LEMMA ReserveStep ==
    ASSUME TypeInv, IndexNonempty, OffsetsAscending, HeadersKnown,
           NEW name \in Names, ReserveEntry(name),
           NEW cells \in Seq(Cell), dest' = dest \o cells
    PROVE  /\ next_id \in Ids /\ next_id \notin DOMAIN ids_info
           /\ DOMAIN ids_info' = DOMAIN ids_info \cup {next_id}
           /\ ids_info'[next_id] = <<Record(0)>>
           /\ \A x \in DOMAIN ids_info : ids_info'[x] = ids_info[x]
           /\ BlocksOf(dest, next_id) = {}
           /\ IndexNonempty' /\ OffsetsAscending'
  <1> USE DEF TypeInv
  <1>1. next_id \in Ids /\ next_id \in Nat /\ next_id \notin DOMAIN ids_info
    BY DEF TypeOK, Bookkeeping, Ids
  <1>2. /\ DOMAIN ids_info' = DOMAIN ids_info \cup {next_id}
        /\ ids_info'[next_id] = <<Record(0)>>
        /\ \A x \in DOMAIN ids_info : ids_info'[x] = ids_info[x]
    BY <1>1 DEF ReserveEntry, Put
  <1>3. BlocksOf(dest, next_id) = {}
    BY <1>1 DEF HeadersKnown, BlocksOf
  <1>4. Len(dest) \in Nat /\ Len(dest') \in Nat /\ Len(dest) <= Len(dest')
    BY DestExtended
  <1>5. Record(0).offset = Len(dest)
    BY DEF Record, Position
  <1>6. \A x \in DOMAIN ids_info : \A i \in DOMAIN ids_info[x] : ids_info[x][i].offset \in Nat
    <2>1. \A x \in DOMAIN ids_info : ids_info[x] \in Seq(IndexRecord)
      BY DEF TypeOK
    <2>2. \A x \in DOMAIN ids_info : \A i \in DOMAIN ids_info[x] : ids_info[x][i] \in IndexRecord
      BY <2>1
    <2>3. QED
      BY <2>2 DEF IndexRecord
  <1>7. IndexNonempty'
    <2>1. Len(<<Record(0)>>) >= 1
      OBVIOUS
    <2>2. QED
      BY <1>2, <2>1 DEF IndexNonempty
  <1>8. ASSUME NEW x \in DOMAIN ids_info'
        PROVE  \A i \in DOMAIN ids_info'[x] :
                  /\ ids_info'[x][i].offset <= Len(dest')
                  /\ i > 1 => ids_info'[x][i - 1].offset <= ids_info'[x][i].offset
    <2>1. CASE x = next_id
      <3>1. \A i \in DOMAIN <<Record(0)>> : i = 1 /\ <<Record(0)>>[i] = Record(0)
        OBVIOUS
      <3>2. QED
        BY <2>1, <3>1, <1>2, <1>4, <1>5
    <2>2. CASE x \in DOMAIN ids_info
      BY <2>2, <1>2, <1>4, <1>6 DEF OffsetsAscending
    <2>3. QED
      BY <1>2, <2>1, <2>2
  <1>9. OffsetsAscending'
    BY <1>8 DEF OffsetsAscending
  <1>10. QED
    BY <1>1, <1>2, <1>3, <1>7, <1>9

\* The index of an entry that start_entry just opened.
LEMMA FirstRecord ==
    ASSUME TypeOK, NEW id \in Ids, NEW name \in Names, id \in ids',
           BlocksOf(dest, id) = {}, ids_info'[id] = <<Record(0)>>,
           dest' = dest \o <<EntryStart(name, id)>>
    PROVE  BlocksIndexed(id)' /\ RecordsPoint(id)'
  <1> DEFINE new == Len(dest) + 1
             head == EntryStart(name, id)
             first == <<Record(0)>>
  <1>1. head \in Cell /\ head.kind = "EntryStart" /\ head.id = id
    BY DEF Cell, EntryStart
  <1>2. Len(dest) \in Nat /\ Len(dest') = new /\ dest'[new] = head
        /\ \A p \in 1..Len(dest) : dest'[p] = dest[p]
    <2> HIDE DEF head
    <2>1. dest \in Seq(Cell) /\ dest' = dest \o <<head>>
      BY DEF TypeOK, head
    <2>2. QED
      BY <1>1, <2>1
  <1>3. BlocksOf(dest, id)' = {new}
    <2>1. 1..Len(dest') = 1..Len(dest) \cup {new}
      BY <1>2
    <2>2. \A p \in 1..Len(dest) : ~(dest[p].kind \in EntryBlockKinds /\ dest[p].id = id)
      BY DEF BlocksOf
    <2>3. "EntryStart" \in EntryBlockKinds
      BY DEF EntryBlockKinds
    <2>4. QED
      BY <1>1, <1>2, <2>1, <2>2, <2>3 DEF BlocksOf
  <1>4. /\ Record(0).offset + 1 = new /\ Record(0).size = 0
        /\ DOMAIN first = {1} /\ first[1] = Record(0)
    BY DEF Record, Position
  <1>5. BlocksIndexed(id)'
    <2>1. 1 \in DOMAIN first /\ first[1].offset + 1 = new
      BY <1>4
    <2>2. QED
      BY <1>3, <2>1 DEF BlocksIndexed
  <1>6. ASSUME NEW i \in DOMAIN first
        PROVE  LET record == first[i]
                   block == dest'[first[i].offset + 1]
               IN  /\ record.offset + 1 \in BlocksOf(dest, id)'
                   /\ ~(i > 1) /\ i = 1
                   /\ block.kind = "EntryStart" /\ record.size = 0
    BY <1>1, <1>2, <1>3, <1>4
  <1>7. RecordsPoint(id)'
    <2> HIDE DEF first
    <2>1. ids_info'[id] = first
      BY DEF first
    <2>2. QED
      BY <1>6, <2>1 DEF RecordsPoint, BlockAt
  <1>8. QED
    BY <1>5, <1>7

\* A failed call on an entry: only part of a block was written, or a block
\* that is not what was announced, and the entry is damaged.
LEMMA DamagedStep ==
    ASSUME IndexInv, NEW id \in ids, NEW size \in Nat, RecordOffsetAndSize(id, size),
           NEW cells \in Seq(Cell), dest' = dest \o cells,
           \A k \in 1..Len(cells) : cells[k].kind \in EntryBlockKinds => cells[k].id = id,
           ids' \in {ids, ids \ {id}}, damaged' = damaged \cup {id}
    PROVE  HeadersKnown' /\ IndexNonempty' /\ OffsetsAscending' /\ IndexFaithful'
  <1> USE DEF IndexInv, TypeInv
  <1>1. id \in DOMAIN ids_info /\ id \in Ids
    BY DEF Bookkeeping, TypeOK
  <1>2. /\ DOMAIN ids_info' = DOMAIN ids_info
        /\ \A x \in DOMAIN ids_info \ {id} : ids_info'[x] = ids_info[x]
        /\ IndexNonempty' /\ OffsetsAscending'
    BY <1>1, RecordStep
  <1>3. HeadersKnown'
    BY <1>1, <1>2, HeadersKnownStep
  <1>4. IndexFaithful'
    BY <1>1, <1>2, FaithfulStep
  <1>5. QED
    BY <1>2, <1>3, <1>4

\* A call on an entry that wrote the whole block it announced.
LEMMA WholeStep ==
    ASSUME IndexInv, NEW id \in ids, NEW size \in Nat, RecordOffsetAndSize(id, size),
           NEW cells \in Seq(Cell), dest' = dest \o cells, Len(cells) = size + 1,
           cells[1].id = id,
           \/ cells[1].kind = "EntryContent" /\ cells[1].length = size /\ ids' = ids
           \/ cells[1].kind = "EndOfEntry" /\ size = 0 /\ ids' = ids \ {id},
           \A k \in 2..Len(cells) : cells[k].kind = "Byte",
           damaged' = damaged
    PROVE  HeadersKnown' /\ IndexNonempty' /\ OffsetsAscending' /\ IndexFaithful'
  <1> USE DEF IndexInv, TypeInv
  <1>1. id \in DOMAIN ids_info /\ id \in Ids
    BY DEF Bookkeeping, TypeOK
  <1>2. /\ DOMAIN ids_info' = DOMAIN ids_info
        /\ ids_info'[id] = Append(ids_info[id], Record(size))
        /\ \A x \in DOMAIN ids_info \ {id} : ids_info'[x] = ids_info[x]
        /\ IndexNonempty' /\ OffsetsAscending'
    BY <1>1, RecordStep
  <1>3. \A k \in 1..Len(cells) : cells[k].kind \in EntryBlockKinds => cells[k].id = id
    <2>1. \A k \in 1..Len(cells) : k = 1 \/ k \in 2..Len(cells)
      OBVIOUS
    <2>2. QED
      BY <2>1 DEF EntryBlockKinds
  <1>4. HeadersKnown'
    BY <1>1, <1>2, <1>3, HeadersKnownStep
  <1>5. id \notin damaged' => BlocksIndexed(id)' /\ RecordsPoint(id)'
    <2>1. SUFFICES ASSUME id \notin damaged PROVE BlocksIndexed(id)' /\ RecordsPoint(id)'
      OBVIOUS
    <2>2. BlocksIndexed(id) /\ RecordsPoint(id)
      BY <2>1, <1>1 DEF IndexFaithful
    <2>3. \/ cells[1].kind = "EntryContent" /\ cells[1].length = size /\ id \in ids'
          \/ cells[1].kind = "EndOfEntry" /\ size = 0 /\ id \notin ids'
      OBVIOUS
    <2>4. TypeOK /\ IndexNonempty /\ OffsetsAscending
      OBVIOUS
    <2> HIDE DEF IndexInv, TypeInv
    <2>5. CASE cells[1].kind = "EntryContent"
      <3>1. cells[1].length = size /\ id \in ids'
        BY <2>3, <2>5
      <3>2. ids_info'[id] = Append(ids_info[id], Record(size))
        BY <1>2
      <3>3. QED
        BY <1>1, <2>2, <2>4, <2>5, <3>1, <3>2, NewRecord
    <2>6. CASE cells[1].kind = "EndOfEntry"
      <3>1. size = 0 /\ Len(cells) = 0 + 1 /\ id \notin ids' /\ 0 \in Nat
        BY <2>3, <2>6
      <3>2. ids_info'[id] = Append(ids_info[id], Record(0))
        BY <1>2, <3>1
      <3>3. QED
        BY <1>1, <2>2, <2>4, <2>6, <3>1, <3>2, NewRecord
    <2>7. QED
      BY <2>3, <2>5, <2>6
  <1>6. IndexFaithful'
    BY <1>1, <1>2, <1>3, <1>5, FaithfulStep
  <1>7. QED
    BY <1>2, <1>4, <1>6

\* A step that writes no block of an entry and leaves the index alone.
LEMMA QuietStep ==
    ASSUME IndexInv, NEW cells \in Seq(Cell), dest' = dest \o cells,
           \A k \in 1..Len(cells) : cells[k].kind \notin EntryBlockKinds,
           UNCHANGED <<ids, ids_info, damaged>>
    PROVE  HeadersKnown' /\ IndexNonempty' /\ OffsetsAscending' /\ IndexFaithful'
  <1> USE DEF IndexInv, TypeInv
  <1>1. HeadersKnown'
    BY HeadersKnownStep
  <1>2. IndexNonempty'
    BY DEF IndexNonempty
  <1>3. OffsetsAscending'
    <2>1. Len(dest) \in Nat /\ Len(dest') \in Nat /\ Len(dest) <= Len(dest')
      BY DestExtended
    <2>2. \A x \in DOMAIN ids_info : \A i \in DOMAIN ids_info[x] : ids_info[x][i].offset \in Nat
      <3>1. \A x \in DOMAIN ids_info : ids_info[x] \in Seq(IndexRecord)
        BY DEF TypeOK
      <3>2. \A x \in DOMAIN ids_info : \A i \in DOMAIN ids_info[x] : ids_info[x][i] \in IndexRecord
        BY <3>1
      <3>3. QED
        BY <3>2 DEF IndexRecord
    <2>3. QED
      BY <2>1, <2>2 DEF OffsetsAscending
  <1>4. IndexFaithful'
    <2>1. ASSUME NEW x \in DOMAIN ids_info, x \notin damaged
          PROVE  BlocksIndexed(x)' /\ RecordsPoint(x)'
      <3>1. BlocksIndexed(x) /\ RecordsPoint(x)
        BY <2>1 DEF IndexFaithful
      <3>2. QED
        BY <3>1, OtherEntry
    <2>2. QED
      BY <2>1 DEF IndexFaithful
  <1>5. QED
    BY <1>1, <1>2, <1>3, <1>4

LEMMA IndexInvInit == Init => IndexInv
  <1> SUFFICES ASSUME Init PROVE IndexInv
    OBVIOUS
  <1>1. TypeInv
    BY TypeInvInit
  <1>2. DOMAIN ids_info = {} /\ Len(dest) = 1 /\ dest[1].kind = "EntriesMagic"
    BY DEF Init, EntriesMagic
  <1>3. HeadersKnown
    BY <1>2 DEF HeadersKnown, EntryBlockKinds
  <1>4. QED
    BY <1>1, <1>2, <1>3 DEF IndexInv, IndexNonempty, OffsetsAscending, IndexFaithful

LEMMA IndexInvNext == IndexInv /\ [Next]_vars => IndexInv'
  <1> SUFFICES ASSUME IndexInv, [Next]_vars
               PROVE  HeadersKnown' /\ IndexNonempty' /\ OffsetsAscending' /\ IndexFaithful'
    BY TypeInvNext DEF IndexInv
  <1>1. TypeOK /\ Bookkeeping
    BY DEF IndexInv, TypeInv
  <1>2. ASSUME NEW name \in Names, StartEntry(name)
        PROVE  HeadersKnown' /\ IndexNonempty' /\ OffsetsAscending' /\ IndexFaithful'
    <2>1. PICK id \in Ids : id = next_id
      BY <1>1 DEF TypeOK
    <2> DEFINE start == EntryStart(name, id)
               cells == <<start>>
    <2>2. ReserveEntry(name)
      BY <1>2 DEF StartEntry
    <2>3. start \in Cell /\ start.id = id
      BY DEF Cell, EntryStart
    <2>4. dest' = Append(dest, start) /\ ids' = ids \cup {id} /\ damaged' = damaged
      BY <1>2, <2>1 DEF StartEntry
    <2>5. /\ cells \in Seq(Cell) /\ Len(cells) = 1 /\ cells[1].id = id
          /\ dest' = dest \o cells
      <3> HIDE DEF start
      <3>1. QED
        BY <1>1, <2>3, <2>4 DEF TypeOK
    <2>6. /\ id \notin DOMAIN ids_info
          /\ DOMAIN ids_info' = DOMAIN ids_info \cup {id}
          /\ ids_info'[id] = <<Record(0)>>
          /\ \A x \in DOMAIN ids_info : ids_info'[x] = ids_info[x]
          /\ BlocksOf(dest, id) = {}
          /\ IndexNonempty' /\ OffsetsAscending'
      <3> HIDE DEF cells
      <3>1. QED
        BY <2>1, <2>2, <2>5, ReserveStep DEF IndexInv
    <2>7. BlocksIndexed(id)' /\ RecordsPoint(id)'
      BY <1>1, <2>4, <2>5, <2>6, FirstRecord
    <2>8. \A k \in 1..Len(cells) : cells[k].id = id
      BY <2>5
    <2> HIDE DEF cells
    <2>9. HeadersKnown'
      BY <1>1, <2>5, <2>6, <2>8, HeadersKnownStep DEF IndexInv
    <2>10. IndexFaithful'
      BY <1>1, <2>4, <2>5, <2>6, <2>7, <2>8, FaithfulStep DEF IndexInv
    <2>11. QED
      BY <2>6, <2>9, <2>10
  <1>3. ASSUME NEW name \in Names, StartEntryFails(name)
        PROVE  HeadersKnown' /\ IndexNonempty' /\ OffsetsAscending' /\ IndexFaithful'
    <2>1. ReserveEntry(name) /\ next_id \in Ids
      BY <1>1, <1>3 DEF StartEntryFails, TypeOK
    <2>2. PICK torn \in TornWrites : dest' = dest \o torn
      BY <1>3 DEF StartEntryFails
    <2>3. /\ torn \in Seq(Cell)
          /\ \A k \in 1..Len(torn) : torn[k].kind \notin EntryBlockKinds
      BY TornCells
    <2>4. /\ DOMAIN ids_info' = DOMAIN ids_info \cup {next_id}
          /\ \A x \in DOMAIN ids_info : ids_info'[x] = ids_info[x]
          /\ IndexNonempty' /\ OffsetsAscending'
      BY <2>1, <2>2, <2>3, ReserveStep DEF IndexInv
    <2>5. ids' = ids /\ damaged' = damaged \cup {next_id}
      BY <1>3 DEF StartEntryFails, Fault
    <2>6. HeadersKnown'
      BY <1>1, <2>2, <2>3, <2>4, HeadersKnownStep DEF IndexInv
    <2>7. IndexFaithful'
      BY <1>1, <2>1, <2>2, <2>3, <2>4, <2>5, FaithfulStep DEF IndexInv
    <2>8. QED
      BY <2>4, <2>6, <2>7
  <1>4. ASSUME NEW id \in ids, NEW data \in Data, NEW read \in Seq(Bytes)
        PROVE  /\ id \in Ids /\ data \in Seq(Bytes) /\ Len(data) \in Nat
               /\ LET cells == ContentBlock(id, Len(data), read) IN
                  /\ cells \in Seq(Cell) /\ Len(cells) = Len(read) + 1
                  /\ cells[1].id = id /\ cells[1].kind = "EntryContent"
                  /\ cells[1].length = Len(data)
                  /\ \A k \in 2..Len(cells) : cells[k].kind = "Byte"
                  /\ \A k \in 1..Len(cells) :
                        cells[k].kind \in EntryBlockKinds => cells[k].id = id
    <2> DEFINE cells == ContentBlock(id, Len(data), read)
    <2>1. id \in Ids /\ data \in Seq(Bytes) /\ Len(data) \in Nat
      BY <1>1, DataAssumption DEF TypeOK
    <2>2. /\ cells \in Seq(Cell) /\ Len(cells) = Len(read) + 1
          /\ cells[1] = EntryContent(id, Len(data))
          /\ \A k \in 2..Len(read) + 1 : cells[k] = Byte(read[k - 1])
      BY <2>1, ContentBlockCells
    <2> HIDE DEF cells
    <2>3. /\ cells[1].id = id /\ cells[1].kind = "EntryContent"
          /\ cells[1].length = Len(data)
          /\ \A k \in 2..Len(cells) : cells[k].kind = "Byte"
      <3>1. cells[1].id = id /\ cells[1].kind = "EntryContent" /\ cells[1].length = Len(data)
        BY <2>2 DEF EntryContent
      <3>2. ASSUME NEW k \in 2..Len(cells) PROVE cells[k].kind = "Byte"
        <4>1. k \in 2..Len(read) + 1
          BY <2>2
        <4>2. cells[k] = Byte(read[k - 1])
          BY <2>2, <4>1
        <4>3. QED
          BY <4>2 DEF Byte
      <3>3. QED
        BY <3>1, <3>2
    <2>4. \A k \in 1..Len(cells) : k = 1 \/ k \in 2..Len(cells)
      BY <2>2
    <2>5. \A k \in 1..Len(cells) : cells[k].kind \in EntryBlockKinds => cells[k].id = id
      BY <2>3, <2>4 DEF EntryBlockKinds
    <2>6. QED
      BY <2>1, <2>2, <2>3, <2>5 DEF cells
  <1>5. ASSUME NEW id \in ids, NEW data \in Data, AppendContent(id, data)
        PROVE  HeadersKnown' /\ IndexNonempty' /\ OffsetsAscending' /\ IndexFaithful'
    <2> DEFINE cells == ContentBlock(id, Len(data), data)
    <2>1. /\ RecordOffsetAndSize(id, Len(data)) /\ dest' = dest \o cells
          /\ ids' = ids /\ damaged' = damaged
      BY <1>5 DEF AppendContent
    <2>2. data \in Seq(Bytes) /\ Len(data) \in Nat
      BY DataAssumption
    <2>3. /\ cells \in Seq(Cell) /\ Len(cells) = Len(data) + 1
          /\ cells[1].id = id /\ cells[1].kind = "EntryContent"
          /\ cells[1].length = Len(data)
          /\ \A k \in 2..Len(cells) : cells[k].kind = "Byte"
      BY <1>4, <2>2
    <2> HIDE DEF cells
    <2>4. QED
      BY <2>1, <2>2, <2>3, WholeStep
  <1>6. ASSUME NEW id \in ids, NEW data \in Data, NEW got \in 0..Len(data),
               AppendContentShort(id, data, got)
        PROVE  HeadersKnown' /\ IndexNonempty' /\ OffsetsAscending' /\ IndexFaithful'
    <2> DEFINE kept == SubSeq(data, 1, got)
               cells == ContentBlock(id, Len(data), kept)
    <2>1. /\ RecordOffsetAndSize(id, Len(data)) /\ dest' = dest \o cells
          /\ ids' = ids /\ damaged' = damaged \cup {id}
      BY <1>6 DEF AppendContentShort, Fault
    <2>2. Len(data) \in Nat /\ kept \in Seq(Bytes)
      BY DataAssumption
    <2>3. /\ cells \in Seq(Cell)
          /\ \A k \in 1..Len(cells) : cells[k].kind \in EntryBlockKinds => cells[k].id = id
      <3> HIDE DEF kept
      <3>1. QED
        BY <1>4, <2>2
    <2> HIDE DEF cells
    <2>4. QED
      BY <2>1, <2>2, <2>3, DamagedStep
  <1>7. ASSUME NEW id \in ids, NEW data \in Data, AppendContentHeaderFails(id, data)
        PROVE  HeadersKnown' /\ IndexNonempty' /\ OffsetsAscending' /\ IndexFaithful'
    <2>1. PICK torn \in TornWrites : dest' = dest \o torn
      BY <1>7 DEF AppendContentHeaderFails
    <2>2. /\ RecordOffsetAndSize(id, Len(data))
          /\ ids' = ids /\ damaged' = damaged \cup {id}
      BY <1>7 DEF AppendContentHeaderFails, Fault
    <2>3. Len(data) \in Nat
      BY DataAssumption
    <2>4. QED
      BY <2>1, <2>2, <2>3, TornCells, DamagedStep
  <1>8. ASSUME NEW id \in ids, NEW data \in Data,
               NEW read \in 0..Len(data), NEW written \in 0..Len(data),
               AppendContentCopyFails(id, data, read, written)
        PROVE  HeadersKnown' /\ IndexNonempty' /\ OffsetsAscending' /\ IndexFaithful'
    <2> DEFINE kept == SubSeq(data, 1, written)
               cells == ContentBlock(id, Len(data), kept)
    <2>1. /\ RecordOffsetAndSize(id, Len(data)) /\ dest' = dest \o cells
          /\ ids' = ids /\ damaged' = damaged \cup {id}
      BY <1>8 DEF AppendContentCopyFails, Fault
    <2>2. Len(data) \in Nat /\ kept \in Seq(Bytes)
      BY DataAssumption
    <2>3. /\ cells \in Seq(Cell)
          /\ \A k \in 1..Len(cells) : cells[k].kind \in EntryBlockKinds => cells[k].id = id
      <3> HIDE DEF kept
      <3>1. QED
        BY <1>4, <2>2
    <2> HIDE DEF cells
    <2>4. QED
      BY <2>1, <2>2, <2>3, DamagedStep
  <1>9. ASSUME NEW id \in ids, EndEntry(id)
        PROVE  HeadersKnown' /\ IndexNonempty' /\ OffsetsAscending' /\ IndexFaithful'
    <2> DEFINE last == EndOfEntry(id, hashes[id])
               cells == <<last>>
    <2>1. last \in Cell /\ last.kind = "EndOfEntry" /\ last.id = id
      BY <1>1 DEF Cell, EndOfEntry, TypeOK, Bookkeeping
    <2>2. /\ RecordOffsetAndSize(id, 0) /\ dest' = Append(dest, last)
          /\ ids' = ids \ {id} /\ damaged' = damaged
      BY <1>9 DEF EndEntry, CloseEntry
    <2>3. /\ cells \in Seq(Cell) /\ Len(cells) = 1 /\ dest' = dest \o cells
          /\ cells[1] = last
      <3> HIDE DEF last
      <3>1. dest \in Seq(Cell)
        BY <1>1 DEF TypeOK
      <3>2. QED
        BY <2>1, <2>2, <3>1
    <2>4. \A k \in 2..Len(cells) : cells[k].kind = "Byte"
      BY <2>3
    <2> HIDE DEF cells, last
    <2>5. 0 \in Nat /\ Len(cells) = 0 + 1
      BY <2>3
    <2>6. QED
      BY <2>1, <2>2, <2>3, <2>4, <2>5, WholeStep
  <1>10. ASSUME NEW id \in ids, EndEntryFails(id)
         PROVE  HeadersKnown' /\ IndexNonempty' /\ OffsetsAscending' /\ IndexFaithful'
    <2>1. PICK torn \in TornWrites : dest' = dest \o torn
      BY <1>10 DEF EndEntryFails
    <2>2. /\ RecordOffsetAndSize(id, 0)
          /\ ids' = ids \ {id} /\ damaged' = damaged \cup {id}
      BY <1>10 DEF EndEntryFails, CloseEntry, Fault
    <2>3. QED
      BY <2>1, <2>2, TornCells, DamagedStep
  <1>11. /\ EndOfArchiveData \in Cell /\ ArchiveFooter(FooterIndex) \in Cell
         /\ EndOfArchiveData.kind \notin EntryBlockKinds
         /\ ArchiveFooter(FooterIndex).kind \notin EntryBlockKinds
    <2>1. FooterIndex \in [Names -> Seq(IndexRecord)]
      BY <1>1 DEF FooterIndex, TypeOK, Bookkeeping
    <2>2. QED
      BY <2>1 DEF Cell, ArchiveFooter, EndOfArchiveData, EntryBlockKinds
  <1>12. CASE Finalize
    <2> DEFINE tail == <<EndOfArchiveData, ArchiveFooter(FooterIndex)>>
    <2>1. dest' = dest \o tail /\ UNCHANGED <<ids, ids_info, damaged>>
      BY <1>12 DEF Finalize
    <2>2. tail \in Seq(Cell) /\ \A k \in 1..Len(tail) : tail[k].kind \notin EntryBlockKinds
      BY <1>11
    <2> HIDE DEF tail
    <2>3. QED
      BY <2>1, <2>2, QuietStep
  <1>13. CASE FinalizeRefused
    <2>1. dest' = dest \o <<>> /\ UNCHANGED <<ids, ids_info, damaged>>
      BY <1>13, <1>1 DEF FinalizeRefused, TypeOK
    <2>2. <<>> \in Seq(Cell) /\ \A k \in 1..Len(<<>>) : <<>>[k].kind \notin EntryBlockKinds
      OBVIOUS
    <2>3. QED
      BY <2>1, <2>2, QuietStep
  <1>14. CASE FinalizeFails
    <2> DEFINE tail == <<EndOfArchiveData, ArchiveFooter(FooterIndex)>>
    <2>1. PICK k \in 0..2, torn \in TornWrites :
             dest' = dest \o SubSeq(tail, 1, k) \o torn
      BY <1>14 DEF FinalizeFails
    <2>2. UNCHANGED <<ids, ids_info, damaged>>
      BY <1>1, <1>14 DEF FinalizeFails, Fault, TypeOK
    <2>3. /\ tail \in Seq(Cell) /\ Len(tail) = 2
          /\ \A j \in 1..Len(tail) : tail[j].kind \notin EntryBlockKinds
      BY <1>11
    <2> HIDE DEF tail
    <2> DEFINE part == SubSeq(tail, 1, k)
               cells == part \o torn
    <2>4. /\ part \in Seq(Cell)
          /\ \A j \in 1..Len(part) : part[j].kind \notin EntryBlockKinds
      <3>1. part \in Seq(Cell) /\ Len(part) = k
        BY <2>3
      <3>2. ASSUME NEW j \in 1..k PROVE part[j].kind \notin EntryBlockKinds
        <4>1. part[j] = tail[j] /\ j \in 1..Len(tail)
          BY <2>3
        <4>2. QED
          BY <4>1, <2>3
      <3>3. QED
        BY <3>1, <3>2
    <2> HIDE DEF part
    <2>5. /\ torn \in Seq(Cell)
          /\ \A j \in 1..Len(torn) : torn[j].kind \notin EntryBlockKinds
      BY TornCells
    <2>6. /\ cells \in Seq(Cell)
          /\ \A j \in 1..Len(cells) : cells[j].kind \notin EntryBlockKinds
      BY <2>4, <2>5
    <2>7. dest' = dest \o cells
      <3>1. dest' = (dest \o part) \o torn /\ dest \in Seq(Cell)
        BY <1>1, <2>1 DEF TypeOK, part
      <3>2. QED
        BY <3>1, <2>4, <2>5
    <2> HIDE DEF cells
    <2>8. QED
      BY <2>2, <2>6, <2>7, QuietStep
  <1>15. CASE UNCHANGED vars
    BY <1>15 DEF vars, IndexInv, HeadersKnown, IndexNonempty, OffsetsAscending,
                 IndexFaithful, BlocksIndexed, RecordsPoint, BlockAt, BlocksOf, Whole
  <1>16. QED
    BY <1>2, <1>3, <1>5, <1>6, <1>7, <1>8, <1>9, <1>10, <1>12, <1>13, <1>14, <1>15
       DEF Next

\* The index the writer keeps, written before each block, is exact for every
\* entry whose own calls succeeded, however the calls of several entries
\* interleave and whatever failed for the others.
THEOREM IndexIsFaithful == Spec => []IndexFaithful
  <1>1. Init => IndexInv
    BY IndexInvInit
  <1>2. IndexInv /\ [Next]_vars => IndexInv'
    BY IndexInvNext
  <1>3. IndexInv => IndexFaithful
    BY DEF IndexInv
  <1>4. QED
    BY <1>1, <1>2, <1>3, PTL DEF Spec

\* The offsets of every entry, failed calls included, are in the order the
\* format requires of the footer.
THEOREM OffsetsStayAscending == Spec => []OffsetsAscending
  <1>1. Init => IndexInv
    BY IndexInvInit
  <1>2. IndexInv /\ [Next]_vars => IndexInv'
    BY IndexInvNext
  <1>3. IndexInv => OffsetsAscending
    BY DEF IndexInv
  <1>4. QED
    BY <1>1, <1>2, <1>3, PTL DEF Spec

\* What a step may do to an entry that is not open.
LEMMA FrozenNext == TypeInv /\ [Next]_vars => FrozenStep
  <1> SUFFICES ASSUME TypeInv, [Next]_vars, NEW x \in DOMAIN ids_info, x \notin ids
               PROVE  x \notin ids' /\ ids_info'[x] = ids_info[x]
    BY DEF FrozenStep
  <1>1. TypeOK /\ Bookkeeping
    BY DEF TypeInv
  <1>2. ASSUME NEW id \in ids, NEW size, RecordOffsetAndSize(id, size)
        PROVE  ids_info'[x] = ids_info[x]
    BY <1>1, <1>2 DEF RecordOffsetAndSize, TypeOK
  <1>3. ASSUME NEW name \in Names, StartEntry(name) \/ StartEntryFails(name)
        PROVE  x \notin ids' /\ ids_info'[x] = ids_info[x]
    <2>1. next_id \notin DOMAIN ids_info
      BY <1>1 DEF Bookkeeping, TypeOK, Ids
    <2>2. ids_info'[x] = ids_info[x]
      BY <1>3, <2>1 DEF StartEntry, StartEntryFails, ReserveEntry, Put
    <2>3. x \notin ids'
      BY <1>3, <2>1 DEF StartEntry, StartEntryFails
    <2>4. QED
      BY <2>2, <2>3
  <1>4. ASSUME NEW id \in ids, NEW data \in Data,
               \/ AppendContent(id, data)
               \/ \E got \in 0..Len(data) : AppendContentShort(id, data, got)
               \/ AppendContentHeaderFails(id, data)
               \/ \E read \in 0..Len(data), written \in 0..Len(data) :
                     AppendContentCopyFails(id, data, read, written)
        PROVE  x \notin ids' /\ ids_info'[x] = ids_info[x]
    BY <1>2, <1>4 DEF AppendContent, AppendContentShort, AppendContentHeaderFails,
                      AppendContentCopyFails
  <1>5. ASSUME NEW id \in ids, EndEntry(id) \/ EndEntryFails(id)
        PROVE  x \notin ids' /\ ids_info'[x] = ids_info[x]
    BY <1>2, <1>5 DEF EndEntry, EndEntryFails, CloseEntry
  <1>6. CASE Finalize \/ FinalizeRefused \/ FinalizeFails \/ UNCHANGED vars
    BY <1>6 DEF Finalize, FinalizeRefused, FinalizeFails, vars
  <1>7. QED
    BY <1>3, <1>4, <1>5, <1>6 DEF Next

\* end_entry is final: whether it succeeded or failed, no later call of the
\* writer reopens the entry or adds to its index.
THEOREM EndedEntriesStayFrozen == Spec => EndedEntryFrozen
  <1>1. Init => TypeInv
    BY TypeInvInit
  <1>2. TypeInv /\ [Next]_vars => TypeInv'
    BY TypeInvNext
  <1>3. TypeInv /\ [Next]_vars => [FrozenStep]_vars
    BY FrozenNext
  <1>4. QED
    BY <1>1, <1>2, <1>3, PTL DEF Spec, EndedEntryFrozen


-----------------------------------------------------------------------------
(***************************************************************************)
(* The contents of an archive verify, finalize seals all of them, and the  *)
(* writer implements ArchiveContract.                                      *)
(*                                                                         *)
(* The argument: a content is the concatenation of the pieces that the     *)
(* records of an index, or the blocks of the stream, lead to.  It is a     *)
(* recursive function, so its facts are proved by DataInduction: appending *)
(* to the stream leaves the contents of an index that ends before it       *)
(* (IndexedContent), and adds one piece to what a linear reader finds      *)
(* (LinearContent).  ContentInv then says that every hash is that of its   *)
(* content, and each call appends the same bytes to both.  The contract    *)
(* sees a call of the writer as one change of the map from names to        *)
(* contents, and a failed call as the loss of one entry (Spoils).          *)
(***************************************************************************)
\* What a reader may find in a cell.
Found == Bytes \cup {NoByte}

\* The pieces of a content are sequences of bytes found.
LEMMA BytesAtType ==
    ASSUME NEW s \in Seq(Cell), NEW a \in Nat, NEW b \in Nat, a >= 1, b >= a - 1
    PROVE  /\ BytesAt(s, a, b) \in Seq(Found)
           /\ Len(BytesAt(s, a, b)) = b - a + 1
  <1> DEFINE found(p) == IF p <= Len(s) /\ s[p].kind = "Byte"
                         THEN s[p].val ELSE NoByte
  <1>1. ASSUME NEW p \in Nat, p >= 1 PROVE found(p) \in Found
    <2>1. CASE p <= Len(s) /\ s[p].kind = "Byte"
      <3>1. s[p] \in Cell
        BY <1>1, <2>1
      <3>2. s[p].val \in Bytes
        BY <2>1, <3>1 DEF Cell, EntriesMagic, EndOfArchiveData, Torn
      <3>3. QED
        BY <2>1, <3>2 DEF Found
    <2>2. QED
      BY <2>1 DEF Found
  <1>2. BytesAt(s, a, b) = [i \in 1..(b - a + 1) |-> found(a + i - 1)]
    BY DEF BytesAt
  <1>3. \A i \in 1..(b - a + 1) : a + i - 1 \in Nat /\ a + i - 1 >= 1
    OBVIOUS
  <1> HIDE DEF found
  <1>4. BytesAt(s, a, b) \in [1..(b - a + 1) -> Found]
    BY <1>1, <1>2, <1>3
  <1>5. b - a + 1 \in Nat
    OBVIOUS
  <1>6. QED
    BY <1>4, <1>5

\* Concatenation from the left: the partial contents exist.
LEMMA PrefixesExist ==
    ASSUME NEW N \in Nat, NEW piece \in [1..N -> Seq(Found)]
    PROVE  \E f \in [0..N -> Seq(Found)] :
              /\ f[0] = <<>>
              /\ \A i \in 1..N : f[i] = f[i - 1] \o piece[i]
  <1> DEFINE Good(m, f) == /\ f[0] = <<>>
                           /\ \A i \in 1..m : f[i] = f[i - 1] \o piece[i]
             S == {m \in 0..N : \E f \in [0..m -> Seq(Found)] : Good(m, f)}
  <1>1. 0 \in S
    <2> DEFINE f == [i \in 0..0 |-> <<>>]
    <2>1. f \in [0..0 -> Seq(Found)]
      OBVIOUS
    <2>2. Good(0, f)
      OBVIOUS
    <2>3. 0 \in 0..N
      OBVIOUS
    <2> HIDE DEF f, Good
    <2>4. QED
      BY <2>1, <2>2, <2>3
  <1>2. ASSUME NEW m \in 0 .. N - 1, m \in S PROVE m + 1 \in S
    <2>1. PICK f \in [0..m -> Seq(Found)] : Good(m, f)
      BY <1>2
    <2> DEFINE g == [i \in 0..m + 1 |-> IF i <= m THEN f[i] ELSE f[m] \o piece[m + 1]]
    <2>2. m + 1 \in 1..N /\ m \in 0..m
      OBVIOUS
    <2>3. f[m] \o piece[m + 1] \in Seq(Found)
      BY <2>2
    <2>4. g \in [0..m + 1 -> Seq(Found)]
      BY <2>3
    <2>5. g[0] = <<>>
      BY <2>1
    <2>6. ASSUME NEW i \in 1..m + 1
          PROVE  g[i] = g[i - 1] \o piece[i]
      <3>1. CASE i <= m
        <4>1. i - 1 \in 0..m /\ i \in 0..m /\ i \in 1..m
          BY <3>1
        <4>2. g[i] = f[i] /\ g[i - 1] = f[i - 1]
          BY <4>1
        <4>3. QED
          BY <2>1, <4>1, <4>2
      <3>2. CASE i = m + 1
        <4>1. i - 1 = m /\ ~(i <= m) /\ m \in 0..m + 1
          BY <3>2
        <4>2. g[i] = f[m] \o piece[i] /\ g[i - 1] = f[m]
          BY <3>2, <4>1
        <4>3. QED
          BY <4>2
      <3>3. i <= m \/ i = m + 1
        OBVIOUS
      <3>4. QED
        BY <3>1, <3>2, <3>3
    <2>7. Good(m + 1, g)
      BY <2>5, <2>6
    <2> HIDE DEF g, Good
    <2>8. m + 1 \in 0..N
      BY <2>2
    <2>9. QED
      BY <2>4, <2>7, <2>8
  <1>3. \A i \in 0..N : i \in S
    <2> HIDE DEF S
    <2>1. QED
      BY <1>1, <1>2, UpInduction
  <1>4. N \in S
    <2>1. N \in 0..N
      OBVIOUS
    <2> HIDE DEF S
    <2>2. QED
      BY <1>3, <2>1
  <1>5. QED
    BY <1>4

\* The bytes of the i-th record of an index.
Piece(s, index, i) ==
    BytesAt(s, index[i].offset + 2, index[i].offset + 1 + index[i].size)

LEMMA PieceType ==
    ASSUME NEW s \in Seq(Cell), NEW index \in Seq(IndexRecord), NEW i \in 1..Len(index)
    PROVE  Piece(s, index, i) \in Seq(Found)
  <1>1. index[i] \in IndexRecord
    OBVIOUS
  <1>2. index[i].offset \in Nat /\ index[i].size \in Nat
    BY <1>1 DEF IndexRecord
  <1> DEFINE a == index[i].offset + 2
             b == index[i].offset + 1 + index[i].size
  <1>3. a \in Nat /\ b \in Nat /\ a >= 1 /\ b >= a - 1
    BY <1>2, SMTT(60)
  <1>4. Piece(s, index, i) = BytesAt(s, a, b)
    BY DEF Piece
  <1> HIDE DEF a, b
  <1>5. QED
    BY <1>3, <1>4, BytesAtType

\* The content an index gives, unfolded: the partial concatenations.
LEMMA IndexedUnfold ==
    ASSUME NEW s \in Seq(Cell), NEW index \in Seq(IndexRecord)
    PROVE  \E f \in [0..Len(index) -> Seq(Found)] :
              /\ f[0] = <<>>
              /\ \A i \in 1..Len(index) : f[i] = f[i - 1] \o Piece(s, index, i)
              /\ IndexedContent(s, index) = f[Len(index)]
  <1> DEFINE N == Len(index)
             piece == [i \in 1..N |-> Piece(s, index, i)]
             body(f) == [i \in 0..N |-> IF i = 0 THEN <<>>
                                        ELSE f[i - 1] \o BytesAt(s, index[i].offset + 2,
                                                index[i].offset + 1 + index[i].size)]
             g == CHOOSE f : f = body(f)
  <1>1. N \in Nat
    OBVIOUS
  <1>2. piece \in [1..N -> Seq(Found)]
    <2>1. QED
      BY PieceType
  <1>3. PICK f \in [0..N -> Seq(Found)] :
              /\ f[0] = <<>>
              /\ \A i \in 1..N : f[i] = f[i - 1] \o piece[i]
    <2> HIDE DEF N, piece
    <2>1. QED
      BY <1>1, <1>2, PrefixesExist
  <1>4. \A i \in 1..N : piece[i] = BytesAt(s, index[i].offset + 2,
                                           index[i].offset + 1 + index[i].size)
    BY DEF Piece
  <1>5. f = body(f)
    <2>1. \A i \in 0..N : i # 0 => i \in 1..N
      BY <1>1
    <2>2. \A i \in 0..N : f[i] = body(f)[i]
      BY <1>3, <1>4, <2>1
    <2> HIDE DEF N
    <2>3. QED
      BY <2>2
  <1>6. g = body(g)
    <2> HIDE DEF body
    <2>1. QED
      BY <1>5
  <1>7. IndexedContent(s, index) = g[N]
    BY DEF IndexedContent
  <1>8. g[0] = <<>>
    <2>1. 0 \in 0..N
      BY <1>1
    <2> HIDE DEF g, N
    <2>2. QED
      BY <1>6, <2>1
  <1>9. \A i \in 1..N : g[i] = g[i - 1] \o Piece(s, index, i)
    <2>1. \A i \in 1..N : i # 0 /\ i \in 0..N
      BY <1>1
    <2> HIDE DEF g, N
    <2>2. QED
      BY <1>6, <2>1 DEF Piece
  <1>10. g = [i \in 0..N |-> g[i]]
    <2> HIDE DEF g
    <2>1. QED
      BY <1>6
  <1>11. \A i \in 0..N : g[i] \in Seq(Found)
    <2> DEFINE S == {i \in 0..N : g[i] \in Seq(Found)}
    <2>1. 0 \in S
      <3>1. 0 \in 0..N /\ <<>> \in Seq(Found)
        BY <1>1
      <3> HIDE DEF g, N
      <3>2. QED
        BY <1>8, <3>1
    <2>2. ASSUME NEW i \in 0..N - 1, i \in S PROVE i + 1 \in S
      <3>1. i + 1 \in 1..N /\ (i + 1) - 1 = i
        BY <1>1
      <3>2. g[i + 1] = g[i] \o piece[i + 1]
        BY <1>9, <3>1
      <3>3. piece[i + 1] \in Seq(Found)
        BY <1>2, <3>1
      <3>4. g[i] \in Seq(Found)
        BY <2>2
      <3>5. i + 1 \in 0..N
        BY <3>1
      <3> HIDE DEF g, piece, N
      <3>6. g[i + 1] \in Seq(Found)
        BY <3>2, <3>3, <3>4
      <3>7. QED
        BY <3>5, <3>6
    <2>3. \A i \in 0..N : i \in S
      <3> HIDE DEF S, N
      <3>1. QED
        BY <1>1, <2>1, <2>2, UpInduction
    <2>4. QED
      BY <2>3
  <1>12. g \in [0..N -> Seq(Found)]
    <2> HIDE DEF g
    <2>1. QED
      BY <1>10, <1>11
  <1> HIDE DEF g
  <1>13. QED
    BY <1>7, <1>8, <1>9, <1>12

\* Partial concatenations of the same pieces agree.
LEMMA PrefixesAgree ==
    ASSUME NEW N \in Nat, NEW M \in Nat, NEW f \in [0..N -> Seq(Found)],
           NEW g \in [0..M -> Seq(Found)], NEW P \in [1..N -> Seq(Found)],
           f[0] = g[0],
           \A i \in 1..N : f[i] = f[i - 1] \o P[i] /\ g[i] = g[i - 1] \o P[i]
    PROVE  \A i \in 0..N : f[i] = g[i]
  <1> DEFINE S == {i \in 0..N : f[i] = g[i]}
  <1>1. 0 \in S
    OBVIOUS
  <1>2. ASSUME NEW i \in 0..N - 1, i \in S PROVE i + 1 \in S
    <2>1. i + 1 \in 1..N /\ (i + 1) - 1 = i /\ i + 1 \in 0..N
      OBVIOUS
    <2>2. f[i + 1] = f[i] \o P[i + 1] /\ g[i + 1] = g[i] \o P[i + 1]
      BY <2>1
    <2>3. QED
      BY <1>2, <2>1, <2>2
  <1>3. \A i \in 0..N : i \in S
    <2> HIDE DEF S
    <2>1. QED
      BY <1>1, <1>2, UpInduction
  <1>4. QED
    BY <1>3

\* Reading the same cells gives the same bytes.
LEMMA BytesAtSame ==
    ASSUME NEW s, NEW t, NEW a \in Nat, NEW b \in Nat,
           b <= Len(s), b <= Len(t), Len(s) \in Nat, Len(t) \in Nat,
           \A p \in a..b : s[p] = t[p]
    PROVE  BytesAt(s, a, b) = BytesAt(t, a, b)
  <1>1. \A i \in 1..(b - a + 1) : /\ a + i - 1 \in a..b
                                  /\ a + i - 1 <= Len(s) /\ a + i - 1 <= Len(t)
    OBVIOUS
  <1>2. QED
    BY <1>1 DEF BytesAt

\* A content depends on the cells its records point at only.
LEMMA IndexedSame ==
    ASSUME NEW s \in Seq(Cell), NEW t \in Seq(Cell), NEW index \in Seq(IndexRecord),
           \A i \in 1..Len(index) : Piece(s, index, i) = Piece(t, index, i)
    PROVE  IndexedContent(s, index) = IndexedContent(t, index)
  <1> DEFINE N == Len(index)
             P == [i \in 1..N |-> Piece(s, index, i)]
  <1>1. PICK f \in [0..N -> Seq(Found)] :
              /\ f[0] = <<>>
              /\ \A i \in 1..N : f[i] = f[i - 1] \o Piece(s, index, i)
              /\ IndexedContent(s, index) = f[N]
    BY IndexedUnfold
  <1>2. PICK g \in [0..N -> Seq(Found)] :
              /\ g[0] = <<>>
              /\ \A i \in 1..N : g[i] = g[i - 1] \o Piece(t, index, i)
              /\ IndexedContent(t, index) = g[N]
    BY IndexedUnfold
  <1>3. \A i \in 1..N : f[i] = f[i - 1] \o P[i] /\ g[i] = g[i - 1] \o P[i]
    BY <1>1, <1>2
  <1>4. N \in Nat /\ f[0] = g[0]
    BY <1>1, <1>2
  <1>5. P \in [1..N -> Seq(Found)]
    BY PieceType
  <1> HIDE DEF N, P
  <1>6. \A i \in 0..N : f[i] = g[i]
    BY <1>3, <1>4, <1>5, PrefixesAgree
  <1>7. QED
    BY <1>1, <1>2, <1>4, <1>6

\* A record appended to the index appends its bytes to the content.
LEMMA IndexedAppend ==
    ASSUME NEW s \in Seq(Cell), NEW index \in Seq(IndexRecord), NEW rec \in IndexRecord
    PROVE  /\ IndexedContent(s, index) \in Seq(Found)
           /\ IndexedContent(s, Append(index, rec))
                = IndexedContent(s, index)
                  \o BytesAt(s, rec.offset + 2, rec.offset + 1 + rec.size)
  <1> DEFINE N == Len(index)
             longer == Append(index, rec)
             P == [i \in 1..N |-> Piece(s, index, i)]
  <1>1. /\ N \in Nat /\ longer \in Seq(IndexRecord) /\ Len(longer) = N + 1
        /\ longer[N + 1] = rec
        /\ \A i \in 1..N : longer[i] = index[i]
    OBVIOUS
  <1>2. PICK f \in [0..N -> Seq(Found)] :
              /\ f[0] = <<>>
              /\ \A i \in 1..N : f[i] = f[i - 1] \o Piece(s, index, i)
              /\ IndexedContent(s, index) = f[N]
    BY IndexedUnfold
  <1> HIDE DEF longer
  <1>3. PICK g \in [0..Len(longer) -> Seq(Found)] :
              /\ g[0] = <<>>
              /\ \A i \in 1..Len(longer) : g[i] = g[i - 1] \o Piece(s, longer, i)
              /\ IndexedContent(s, longer) = g[Len(longer)]
    BY <1>1, IndexedUnfold
  <1>4. \A i \in 1..N : f[i] = f[i - 1] \o P[i] /\ g[i] = g[i - 1] \o P[i]
    <2>1. ASSUME NEW i \in 1..N
          PROVE  i \in 1..Len(longer) /\ Piece(s, longer, i) = Piece(s, index, i)
      BY <1>1 DEF Piece
    <2>2. QED
      BY <1>2, <1>3, <2>1
  <1>5. f[0] = g[0]
    BY <1>2, <1>3
  <1>6. \A i \in 0..N : f[i] = g[i]
    <2>1. P \in [1..N -> Seq(Found)]
      BY PieceType
    <2> DEFINE M == Len(longer)
    <2>2. M \in Nat /\ g \in [0..M -> Seq(Found)]
      BY <1>1
    <2> HIDE DEF N, P, M
    <2>3. QED
      BY <1>1, <1>2, <1>4, <1>5, <2>1, <2>2, PrefixesAgree
  <1>7. f[N] = g[N] /\ f[N] \in Seq(Found)
    BY <1>1, <1>6
  <1>8. /\ Len(longer) \in 1..Len(longer) /\ Len(longer) - 1 = N
        /\ Piece(s, longer, Len(longer))
             = BytesAt(s, rec.offset + 2, rec.offset + 1 + rec.size)
    BY <1>1 DEF Piece
  <1>9. g[Len(longer)] = g[N] \o BytesAt(s, rec.offset + 2, rec.offset + 1 + rec.size)
    BY <1>3, <1>8
  <1>10. QED
    BY <1>2, <1>3, <1>7, <1>9 DEF longer

\* An index whose only record is that of an EntryStart has no content.
LEMMA IndexedStart ==
    ASSUME NEW s \in Seq(Cell), NEW rec \in IndexRecord, rec.size = 0
    PROVE  IndexedContent(s, <<rec>>) = <<>>
  <1> DEFINE index == <<rec>>
  <1>1. index \in Seq(IndexRecord) /\ Len(index) = 1 /\ index[1] = rec
    OBVIOUS
  <1> HIDE DEF index
  <1>2. PICK f \in [0..Len(index) -> Seq(Found)] :
              /\ f[0] = <<>>
              /\ \A i \in 1..Len(index) : f[i] = f[i - 1] \o Piece(s, index, i)
              /\ IndexedContent(s, index) = f[Len(index)]
    BY <1>1, IndexedUnfold
  <1>3. Piece(s, index, 1) = <<>>
    <2>1. rec.offset \in Nat
      BY DEF IndexRecord
    <2>2. (rec.offset + 1 + 0) - (rec.offset + 2) + 1 = 0
      BY <2>1
    <2>3. QED
      BY <1>1, <2>2 DEF Piece, BytesAt
  <1>4. f[1] = <<>>
    BY <1>1, <1>2, <1>3
  <1>5. QED
    BY <1>1, <1>2, <1>4 DEF index

-----------------------------------------------------------------------------
(***************************************************************************)
(* The content a reader without an index finds.                            *)
(***************************************************************************)
\* What the cell at p adds to the content of an entry, and where the reader
\* goes on from there.
LinearPiece(s, id, p) ==
    IF s[p].kind = "EntryContent" /\ s[p].id = id
    THEN BytesAt(s, p + 1, p + s[p].length) ELSE <<>>
LinearNext(s, p) ==
    IF s[p].kind # "EntryContent" THEN p + 1
    ELSE IF p + s[p].length > Len(s) THEN Len(s) + 1
    ELSE p + s[p].length + 1

\* The contents from each position on.
Suffixes(s, id, f) ==
    /\ f \in [2..Len(s) + 1 -> Seq(Found)]
    /\ f[Len(s) + 1] = <<>>
    /\ \A p \in 2..Len(s) : f[p] = LinearPiece(s, id, p) \o f[LinearNext(s, p)]

\* Concatenation from the right, each position going on at a later one.
LEMMA SuffixesExist ==
    ASSUME NEW L \in Nat, L >= 1, NEW nxt \in [2..L -> Nat],
           NEW piece \in [2..L -> Seq(Found)],
           \A p \in 2..L : nxt[p] \in p + 1 .. L + 1
    PROVE  \E f \in [2..L + 1 -> Seq(Found)] :
              /\ f[L + 1] = <<>>
              /\ \A p \in 2..L : f[p] = piece[p] \o f[nxt[p]]
  <1> DEFINE Good(m, f) == /\ f[L + 1] = <<>>
                           /\ \A p \in L + 1 - m .. L : f[p] = piece[p] \o f[nxt[p]]
             S == {m \in 0..L - 1 : \E f \in [L + 1 - m .. L + 1 -> Seq(Found)] : Good(m, f)}
  <1>1. 0 \in S
    <2> DEFINE f == [i \in L + 1 - 0 .. L + 1 |-> <<>>]
    <2>1. f \in [L + 1 - 0 .. L + 1 -> Seq(Found)]
      OBVIOUS
    <2>2. Good(0, f)
      <3>1. L + 1 - 0 = L + 1 /\ L + 1 \in L + 1 - 0 .. L + 1
        OBVIOUS
      <3>2. f[L + 1] = <<>>
        BY <3>1
      <3>3. ~ \E p : p \in L + 1 - 0 .. L
        OBVIOUS
      <3> HIDE DEF f
      <3>4. QED
        BY <3>2, <3>3
    <2>3. 0 \in 0..L - 1
      OBVIOUS
    <2> HIDE DEF f, Good
    <2>4. QED
      BY <2>1, <2>2, <2>3
  <1>2. ASSUME NEW m \in 0 .. (L - 1) - 1, m \in S PROVE m + 1 \in S
    <2> DEFINE new == L - m
    <2>1. PICK f \in [L + 1 - m .. L + 1 -> Seq(Found)] : Good(m, f)
      BY <1>2
    <2>2. /\ new \in 2..L /\ L + 1 - (m + 1) = new /\ L + 1 - m = new + 1
          /\ new \in Nat
      OBVIOUS
    <2>3. nxt[new] \in new + 1 .. L + 1 /\ piece[new] \in Seq(Found)
      BY <2>2
    <2>4. f \in [new + 1 .. L + 1 -> Seq(Found)]
      BY <2>2
    <2> DEFINE val == piece[new] \o f[nxt[new]]
    <2>5. val \in Seq(Found)
      BY <2>3, <2>4
    <2> HIDE DEF new, val
    <2> DEFINE g == [p \in new .. L + 1 |-> IF p = new THEN val ELSE f[p]]
    <2>6. g \in [new .. L + 1 -> Seq(Found)]
      BY <2>2, <2>4, <2>5
    <2>7. g[L + 1] = <<>>
      BY <2>1, <2>2
    <2>8. ASSUME NEW p \in new .. L PROVE g[p] = piece[p] \o g[nxt[p]]
      <3>1. nxt[p] \in p + 1 .. L + 1 /\ p \in 2..L
        BY <2>2
      <3>2. g[nxt[p]] = f[nxt[p]]
        <4>1. nxt[p] \in new .. L + 1 /\ nxt[p] # new
          <5>1. p >= new /\ p \in Nat /\ new \in Nat /\ L \in Nat
            BY <2>2
          <5>2. QED
            BY <3>1, <5>1, SMTT(60)
        <4>2. QED
          BY <4>1
      <3>3. CASE p = new
        <4>1. new \in new .. L + 1
          BY <2>2
        <4>2. g[p] = val
          BY <3>3, <4>1
        <4>3. QED
          BY <3>2, <3>3, <4>2 DEF val
      <3>4. CASE p # new
        <4>1. p \in L + 1 - m .. L /\ p \in new .. L + 1
          BY <2>2, <3>4
        <4>2. g[p] = f[p]
          BY <3>4, <4>1
        <4>3. f[p] = piece[p] \o f[nxt[p]]
          BY <2>1, <4>1
        <4>4. QED
          BY <3>2, <4>2, <4>3
      <3>5. QED
        BY <3>3, <3>4
    <2> HIDE DEF g
    <2>9. Good(m + 1, g)
      BY <2>2, <2>7, <2>8
    <2> HIDE DEF Good
    <2>10. m + 1 \in 0..L - 1
      OBVIOUS
    <2>11. g \in [L + 1 - (m + 1) .. L + 1 -> Seq(Found)]
      BY <2>2, <2>6
    <2>12. QED
      BY <2>9, <2>10, <2>11
  <1>3. L - 1 \in Nat
    OBVIOUS
  <1>4. \A i \in 0..L - 1 : i \in S
    <2> HIDE DEF S
    <2> DEFINE M == L - 1
    <2>1. \A i \in 0..M - 1 : i \in S => i + 1 \in S
      BY <1>2
    <2>2. M \in Nat
      BY <1>3
    <2> HIDE DEF M
    <2>3. \A i \in 0..M : i \in S
      BY <1>1, <2>1, <2>2, UpInduction
    <2>4. QED
      BY <2>3 DEF M
  <1>5. L - 1 \in S
    <2>1. L - 1 \in 0..L - 1
      BY <1>3
    <2> HIDE DEF S
    <2>2. QED
      BY <1>4, <2>1
  <1>6. L + 1 - (L - 1) = 2
    OBVIOUS
  <1>7. QED
    BY <1>5, <1>6

LEMMA LinearStep ==
    ASSUME NEW s \in Seq(Cell), NEW id, NEW p \in 2..Len(s)
    PROVE  /\ LinearPiece(s, id, p) \in Seq(Found)
           /\ LinearNext(s, p) \in p + 1 .. Len(s) + 1
  <1>1. p \in Nat /\ Len(s) \in Nat /\ s[p] \in Cell /\ <<>> \in Seq(Found)
    OBVIOUS
  <1>2. CASE s[p].kind = "EntryContent"
    <2>1. s[p].length \in Nat
      BY <1>1, <1>2 DEF Cell, EntriesMagic, EndOfArchiveData, Torn
    <2> DEFINE b == p + s[p].length
    <2>2. b \in Nat /\ p + 1 \in Nat /\ p + 1 >= 1 /\ b >= (p + 1) - 1
      BY <1>1, <2>1
    <2>3. BytesAt(s, p + 1, b) \in Seq(Found)
      <3> HIDE DEF b
      <3>1. QED
        BY <2>2, BytesAtType
    <2>4. QED
      BY <1>1, <1>2, <2>1, <2>3 DEF LinearPiece, LinearNext
  <1>3. CASE s[p].kind # "EntryContent"
    BY <1>1, <1>3 DEF LinearPiece, LinearNext
  <1>4. QED
    BY <1>2, <1>3

\* The content a linear reader finds, unfolded.
LEMMA LinearUnfold ==
    ASSUME NEW s \in Seq(Cell), Len(s) >= 1, NEW id
    PROVE  \E f : Suffixes(s, id, f) /\ LinearContent(s, id) = f[2]
  <1> DEFINE L == Len(s)
             nxt == [p \in 2..L |-> LinearNext(s, p)]
             piece == [p \in 2..L |-> LinearPiece(s, id, p)]
             val(f, p) ==
                IF p > Len(s) THEN <<>>
                ELSE IF s[p].kind # "EntryContent" THEN f[p + 1]
                ELSE LET end == p + s[p].length
                         data == IF s[p].id = id
                                 THEN BytesAt(s, p + 1, end) ELSE <<>>
                     IN  IF end > Len(s) THEN data ELSE data \o f[end + 1]
             body(f) == [p \in 2..Len(s) + 1 |-> val(f, p)]
             g == CHOOSE f : f = body(f)
  <1>1. L \in Nat /\ L >= 1
    OBVIOUS
  <1>2. \A p \in 2..L : nxt[p] \in p + 1 .. L + 1 /\ piece[p] \in Seq(Found)
    BY LinearStep
  <1>3. PICK f \in [2..L + 1 -> Seq(Found)] :
              /\ f[L + 1] = <<>>
              /\ \A p \in 2..L : f[p] = piece[p] \o f[nxt[p]]
    <2>1. nxt \in [2..L -> Nat] /\ piece \in [2..L -> Seq(Found)]
      <3>1. ASSUME NEW p \in 2..L PROVE LinearNext(s, p) \in Nat
        <4>1. LinearNext(s, p) \in p + 1 .. L + 1
          BY LinearStep
        <4>2. QED
          BY <1>1, <4>1
      <3>2. \A p \in 2..L : LinearPiece(s, id, p) \in Seq(Found)
        BY LinearStep
      <3>3. QED
        BY <3>1, <3>2
    <2> HIDE DEF L, nxt, piece
    <2>2. QED
      BY <1>1, <1>2, <2>1, SuffixesExist
  <1>4. ASSUME NEW h, NEW p \in 2..L + 1, \A q \in p + 1 .. L + 1 : h[q] = f[q]
        PROVE  val(h, p) = f[p]
    <2>1. CASE p = L + 1
      BY <1>1, <1>3, <2>1
    <2>2. CASE p # L + 1
      <3>1. p \in 2..L /\ p \in Nat /\ ~(p > L) /\ s[p] \in Cell
        BY <1>1, <2>2
      <3>2. nxt[p] = LinearNext(s, p) /\ piece[p] = LinearPiece(s, id, p)
        BY <3>1
      <3>3. nxt[p] \in p + 1 .. L + 1 /\ piece[p] \in Seq(Found)
        BY <1>2, <3>1
      <3>4. f[p] = piece[p] \o f[nxt[p]] /\ h[nxt[p]] = f[nxt[p]]
        BY <1>3, <1>4, <3>1, <3>3
      <3>5. f[nxt[p]] \in Seq(Found)
        BY <1>3, <3>1, <3>3
      <3>6. CASE s[p].kind # "EntryContent"
        <4>1. nxt[p] = p + 1 /\ piece[p] = <<>>
          BY <3>2, <3>6 DEF LinearNext, LinearPiece
        <4>2. <<>> \o f[nxt[p]] = f[nxt[p]]
          BY <3>5, ConcatFacts
        <4>3. val(h, p) = h[p + 1]
          BY <3>1, <3>6
        <4>4. QED
          BY <3>4, <4>1, <4>2, <4>3
      <3>7. CASE s[p].kind = "EntryContent" /\ p + s[p].length > L
        <4>1. nxt[p] = L + 1
          BY <3>2, <3>7 DEF LinearNext
        <4>2. piece[p] \o <<>> = piece[p]
          BY <3>3, ConcatFacts
        <4>3. val(h, p) = piece[p]
          BY <3>1, <3>2, <3>7 DEF LinearPiece
        <4>4. QED
          BY <1>3, <3>4, <4>1, <4>2, <4>3, ZenonT(60)
      <3>8. CASE s[p].kind = "EntryContent" /\ ~(p + s[p].length > L)
        <4>1. nxt[p] = p + s[p].length + 1
          BY <3>2, <3>8 DEF LinearNext
        <4>2. val(h, p) = piece[p] \o h[nxt[p]]
          BY <3>1, <3>2, <3>8, <4>1 DEF LinearPiece
        <4>3. QED
          BY <3>4, <4>2
      <3>9. QED
        BY <3>6, <3>7, <3>8
    <2>3. QED
      BY <2>1, <2>2
  <1> HIDE DEF val
  <1>5. f = body(f)
    <2>1. \A p \in 2..L + 1 : body(f)[p] = f[p]
      BY <1>4
    <2>2. QED
      BY <1>3, <2>1
  <1>6. g = body(g)
    <2> HIDE DEF body
    <2>1. QED
      BY <1>5
  <1>7. LinearContent(s, id) = g[2]
    BY DEF LinearContent, val
  <1> HIDE DEF g
  <1>8. \A p \in 2..L + 1 : g[p] = f[p]
    <2> DEFINE S == {p \in 2..L + 1 : g[p] = f[p]}
    <2>1. ASSUME NEW p \in 2..L + 1, \A q \in p + 1 .. L + 1 : q \in S
          PROVE  p \in S
      <3>1. g[p] = val(g, p)
        BY <1>6
      <3>2. \A q \in p + 1 .. L + 1 : g[q] = f[q]
        BY <2>1
      <3>3. QED
        BY <1>4, <3>1, <3>2
    <2> DEFINE b == L + 1
    <2>2. b \in Nat /\ 2 \in Nat
      BY <1>1
    <2>3. \A p \in 2..b : (\A q \in p + 1 .. b : q \in S) => p \in S
      BY <2>1
    <2>4. \A p \in 2..b : p \in S
      <3> HIDE DEF S, b
      <3>1. QED
        BY <2>2, <2>3, DownInduction
    <2>5. QED
      BY <2>4
  <1>9. Suffixes(s, id, f)
    <2>1. \A p \in 2..L : f[p] = LinearPiece(s, id, p) \o f[LinearNext(s, p)]
      BY <1>3
    <2>2. QED
      BY <1>3, <2>1 DEF Suffixes
  <1>10. 2 \in 2..L + 1
    BY <1>1
  <1>11. QED
    BY <1>7, <1>8, <1>9, <1>10

\* When every content block of s is whole, a longer stream starts with the
\* content of s and goes on with what the added cells give.
LEMMA LinearExtend ==
    ASSUME NEW s \in Seq(Cell), Len(s) >= 1, NEW cells \in Seq(Cell), NEW id,
           \A p \in 2..Len(s) :
              s[p].kind = "EntryContent" => p + s[p].length <= Len(s)
    PROVE  \E g : /\ Suffixes(s \o cells, id, g)
                  /\ LinearContent(s, id) \in Seq(Found)
                  /\ LinearContent(s \o cells, id)
                        = LinearContent(s, id) \o g[Len(s) + 1]
  <1> DEFINE t == s \o cells
             L == Len(s)
  <1>1. /\ t \in Seq(Cell) /\ L \in Nat /\ Len(t) \in Nat /\ Len(t) >= L /\ Len(t) >= 1
        /\ \A p \in 1..L : t[p] = s[p]
    OBVIOUS
  <1> HIDE DEF t
  <1>2. PICK f : Suffixes(s, id, f) /\ LinearContent(s, id) = f[2]
    BY LinearUnfold
  <1>3. PICK g : Suffixes(t, id, g) /\ LinearContent(t, id) = g[2]
    BY <1>1, LinearUnfold
  <1>4. f \in [2..L + 1 -> Seq(Found)] /\ g \in [2..Len(t) + 1 -> Seq(Found)]
    BY <1>2, <1>3 DEF Suffixes
  <1> DEFINE rest == g[L + 1]
  <1>5. rest \in Seq(Found)
    <2>1. L + 1 \in 2..Len(t) + 1
      BY <1>1
    <2> HIDE DEF L
    <2>2. QED
      BY <1>4, <2>1
  <1>6. ASSUME NEW p \in 2..L
        PROVE  /\ LinearPiece(t, id, p) = LinearPiece(s, id, p)
               /\ LinearNext(t, p) = LinearNext(s, p)
    <2>1. t[p] = s[p] /\ p \in Nat /\ s[p] \in Cell
      BY <1>1
    <2>2. CASE s[p].kind # "EntryContent"
      BY <2>1, <2>2 DEF LinearPiece, LinearNext
    <2>3. CASE s[p].kind = "EntryContent"
      <3>1. s[p].length \in Nat
        BY <2>1, <2>3 DEF Cell, EntriesMagic, EndOfArchiveData, Torn
      <3> DEFINE b == p + s[p].length
      <3>2. b \in Nat /\ p + 1 \in Nat /\ b <= L /\ b <= Len(t)
        BY <1>1, <2>1, <2>3, <3>1
      <3>3. \A q \in p + 1 .. b : s[q] = t[q]
        BY <1>1, <2>1, <3>2
      <3>4. BytesAt(s, p + 1, b) = BytesAt(t, p + 1, b)
        <4> HIDE DEF b
        <4>1. QED
          BY <1>1, <3>2, <3>3, BytesAtSame
      <3>5. QED
        BY <1>1, <2>1, <2>3, <3>1, <3>2, <3>4 DEF LinearPiece, LinearNext
    <2>4. QED
      BY <2>2, <2>3
  <1>7. \A p \in 2..L + 1 : g[p] = f[p] \o rest
    <2> DEFINE S == {p \in 2..L + 1 : g[p] = f[p] \o rest}
               b == L + 1
    <2>1. ASSUME NEW p \in 2..b, \A q \in p + 1 .. b : q \in S
          PROVE  p \in S
      <3>1. CASE p = L + 1
        <4>1. f[p] = <<>>
          BY <1>2, <3>1 DEF Suffixes
        <4>2. <<>> \o rest = rest
          BY <1>5, ConcatFacts
        <4>3. QED
          BY <3>1, <4>1, <4>2
      <3>2. CASE p # L + 1
        <4> DEFINE n == LinearNext(s, p)
                   x == LinearPiece(s, id, p)
        <4>1. p \in 2..L /\ p \in 2..Len(t)
          BY <1>1, <3>2
        <4>2. n \in p + 1 .. L + 1 /\ x \in Seq(Found)
          BY <4>1, LinearStep
        <4>3. f[p] = x \o f[n]
          BY <1>2, <4>1 DEF Suffixes
        <4>4. g[p] = x \o g[n]
          <5>1. g[p] = LinearPiece(t, id, p) \o g[LinearNext(t, p)]
            BY <1>3, <4>1 DEF Suffixes
          <5>2. QED
            BY <1>6, <4>1, <5>1
        <4> HIDE DEF n, x
        <4>5. g[n] = f[n] \o rest
          BY <2>1, <4>2
        <4>6. f[n] \in Seq(Found)
          BY <1>1, <1>4, <4>1, <4>2
        <4>7. x \o (f[n] \o rest) = (x \o f[n]) \o rest
          <5> DEFINE y == f[n]
          <5>1. x \in Seq(Found) /\ y \in Seq(Found) /\ rest \in Seq(Found)
            BY <1>5, <4>2, <4>6
          <5> HIDE DEF rest, y
          <5>2. x \o (y \o rest) = (x \o y) \o rest
            BY <5>1, SMTT(60)
          <5>3. QED
            BY <5>2 DEF y
        <4>8. QED
          BY <4>3, <4>4, <4>5, <4>7
      <3>3. QED
        BY <3>1, <3>2
    <2>2. b \in Nat /\ 2 \in Nat
      BY <1>1
    <2>3. \A p \in 2..b : p \in S
      <3> HIDE DEF S, b
      <3>1. QED
        BY <2>1, <2>2, DownInduction
    <2>4. QED
      BY <2>3
  <1>8. 2 \in 2..L + 1
    BY <1>1
  <1>9. g[2] = f[2] \o rest /\ f[2] \in Seq(Found)
    BY <1>4, <1>7, <1>8
  <1>10. QED
    BY <1>2, <1>3, <1>9 DEF t

\* Cells that are no content header add nothing.
LEMMA LinearQuiet ==
    ASSUME NEW s \in Seq(Cell), Len(s) >= 1, NEW cells \in Seq(Cell), NEW id,
           \A p \in 2..Len(s) :
              s[p].kind = "EntryContent" => p + s[p].length <= Len(s),
           \A k \in 1..Len(cells) : cells[k].kind # "EntryContent"
    PROVE  LinearContent(s \o cells, id) = LinearContent(s, id)
  <1> DEFINE t == s \o cells
             L == Len(s)
  <1>1. /\ t \in Seq(Cell) /\ L \in Nat /\ Len(t) \in Nat
        /\ Len(t) = L + Len(cells) /\ Len(cells) \in Nat
        /\ \A p \in L + 1 .. Len(t) : t[p] = cells[p - L]
    OBVIOUS
  <1>2. PICK g : /\ Suffixes(t, id, g)
                 /\ LinearContent(s, id) \in Seq(Found)
                 /\ LinearContent(t, id) = LinearContent(s, id) \o g[L + 1]
    BY LinearExtend, ZenonT(60)
  <1> HIDE DEF t
  <1>3. \A p \in L + 1 .. Len(t) + 1 : g[p] = <<>>
    <2> DEFINE S == {p \in L + 1 .. Len(t) + 1 : g[p] = <<>>}
               a == L + 1
               b == Len(t) + 1
    <2>1. ASSUME NEW p \in a..b, \A q \in p + 1 .. b : q \in S
          PROVE  p \in S
      <3>1. CASE p = Len(t) + 1
        BY <1>2, <3>1 DEF Suffixes
      <3>2. CASE p # Len(t) + 1
        <4>1. p \in 2..Len(t) /\ p \in L + 1 .. Len(t) /\ p - L \in 1..Len(cells)
          BY <1>1, <3>2
        <4>2. t[p].kind # "EntryContent"
          BY <1>1, <4>1
        <4>3. LinearPiece(t, id, p) = <<>> /\ LinearNext(t, p) = p + 1
          BY <4>2 DEF LinearPiece, LinearNext
        <4>4. p + 1 \in p + 1 .. b
          BY <1>1, <4>1
        <4>5. g[p + 1] = <<>>
          BY <2>1, <4>4
        <4>6. g[p] = <<>> \o <<>>
          BY <1>2, <4>1, <4>3, <4>5 DEF Suffixes
        <4>7. QED
          BY <4>6
      <3>3. QED
        BY <3>1, <3>2
    <2>2. a \in Nat /\ b \in Nat
      BY <1>1
    <2>3. \A p \in a..b : p \in S
      <3> HIDE DEF S, a, b
      <3>1. QED
        BY <2>1, <2>2, DownInduction
    <2>4. QED
      BY <2>3
  <1>4. g[L + 1] = <<>>
    BY <1>1, <1>3
  <1>5. LinearContent(s, id) \o <<>> = LinearContent(s, id)
    BY <1>2, ConcatFacts
  <1>6. QED
    BY <1>2, <1>4, <1>5 DEF t

\* A whole content block adds its bytes to its own entry, and nothing to the
\* others.
LEMMA LinearBlock ==
    ASSUME NEW s \in Seq(Cell), Len(s) >= 1, NEW cells \in Seq(Cell), NEW id,
           \A p \in 2..Len(s) :
              s[p].kind = "EntryContent" => p + s[p].length <= Len(s),
           Len(cells) >= 1, cells[1].kind = "EntryContent",
           cells[1].length = Len(cells) - 1
    PROVE  /\ LinearContent(s, id) \in Seq(Found)
           /\ LinearContent(s \o cells, id) =
                IF cells[1].id = id
                THEN LinearContent(s, id)
                       \o BytesAt(s \o cells, Len(s) + 2, Len(s) + Len(cells))
                ELSE LinearContent(s, id)
  <1> DEFINE t == s \o cells
             L == Len(s)
             h == L + 1
  <1>1. /\ t \in Seq(Cell) /\ L \in Nat /\ Len(t) \in Nat
        /\ Len(t) = L + Len(cells) /\ Len(cells) \in Nat
        /\ t[h] = cells[1]
    OBVIOUS
  <1>2. PICK g : /\ Suffixes(t, id, g)
                 /\ LinearContent(s, id) \in Seq(Found)
                 /\ LinearContent(t, id) = LinearContent(s, id) \o g[L + 1]
    BY LinearExtend
  <1>3. h \in 2..Len(t) /\ h \in Nat /\ h + t[h].length = L + Len(cells)
        /\ h + 1 = Len(s) + 2
    BY <1>1
  <1> HIDE DEF t
  <1>4. LinearNext(t, h) = Len(t) + 1
    BY <1>1, <1>3 DEF LinearNext
  <1>5. g[h] = LinearPiece(t, id, h) \o <<>> /\ LinearPiece(t, id, h) \in Seq(Found)
    <2>1. g[h] = LinearPiece(t, id, h) \o g[LinearNext(t, h)]
      BY <1>2, <1>3 DEF Suffixes
    <2>2. g[Len(t) + 1] = <<>>
      BY <1>2 DEF Suffixes
    <2>3. QED
      BY <1>1, <1>3, <1>4, <2>1, <2>2, LinearStep
  <1>6. g[h] = LinearPiece(t, id, h)
    BY <1>5, ConcatFacts
  <1>7. LinearPiece(t, id, h) = IF cells[1].id = id
                                THEN BytesAt(t, Len(s) + 2, Len(s) + Len(cells))
                                ELSE <<>>
    BY <1>1, <1>3 DEF LinearPiece
  <1>8. LinearContent(s, id) \o <<>> = LinearContent(s, id)
    BY <1>2, ConcatFacts
  <1>9. LinearContent(t, id) = LinearContent(s, id) \o LinearPiece(t, id, h)
    BY <1>2, <1>6
  <1>10. CASE cells[1].id = id
    BY <1>2, <1>7, <1>9, <1>10 DEF t
  <1>11. CASE cells[1].id # id
    BY <1>2, <1>7, <1>8, <1>9, <1>11 DEF t
  <1>12. QED
    BY <1>10, <1>11

-----------------------------------------------------------------------------
(***************************************************************************)
(* The inductive invariant.                                                *)
(***************************************************************************)
\* An entry's first record leads to the EntryStart that carries its name.
NamesRecorded ==
    \A n \in DOMAIN entries_info :
        entries_info[n] \notin damaged =>
            BlockAt(entries_info[n], 1) = EntryStart(n, entries_info[n])

\* EndOfArchiveData and the footer are written by finalize and nothing else.
SealShape ==
    /\ state = "OpenedFiles" =>
          \A p \in 1..Len(dest) : dest[p].kind # "EndOfArchiveData"
    /\ state = "Finalized" =>
          /\ ids = {} /\ Len(dest) >= 2
          /\ dest[Len(dest)] = ArchiveFooter(FooterIndex)
          /\ \A p \in 1..Len(dest) : dest[p].kind = "EndOfArchiveData" <=> p = Len(dest) - 1

\* The hash of an entry: running, or the one in its last block.
HashNow(id) ==
    IF id \in ids THEN hashes[id] ELSE BlockAt(id, Len(ids_info[id])).hash

\* The hash of an undamaged entry is that of its content, as the index gives it.
HashesMatch ==
    \A id \in DOMAIN ids_info \ damaged : HashNow(id) = IndexedContent(dest, ids_info[id])

\* The same for a linear reader, which also finds nothing for an id that was
\* not given out.
LinearMatches ==
    damaged = {} =>
        \A id \in Ids : LinearContent(dest, id) =
            IF id \in DOMAIN ids_info THEN HashNow(id) ELSE <<>>

ContentInv ==
    /\ IndexInv
    /\ Len(dest) >= 1
    /\ NamesRecorded
    /\ SealShape
    /\ HashesMatch
    /\ LinearMatches

-----------------------------------------------------------------------------
(***************************************************************************)
(* The steps, with the failed calls on an entry taken together.            *)
(***************************************************************************)
\* A failed call on entry id, which left cells in the stream.
Spoils(id, cells) ==
    /\ state = "OpenedFiles" /\ UNCHANGED <<state, entries_info>>
    /\ dest' = dest \o cells
    /\ \A k \in 1..Len(cells) : cells[k].kind # "EndOfArchiveData"
    /\ DOMAIN ids_info' = DOMAIN ids_info
    /\ \A x \in DOMAIN ids_info \ {id} :
          /\ ids_info'[x] = ids_info[x]
          /\ x \in ids' <=> x \in ids
          /\ x \in ids => hashes'[x] = hashes[x]
    /\ damaged' = damaged \cup {id}

\* A finalize that failed or was refused.
Loses(cells) ==
    /\ state = "OpenedFiles" /\ state' = "Dropped"
    /\ dest' = dest \o cells
    /\ \A k \in 1..Len(cells) : cells[k].kind \notin EntryBlockKinds
    /\ UNCHANGED <<ids, hashes, entries_info, ids_info, damaged>>

LEMMA TornIsTorn ==
    ASSUME NEW torn \in TornWrites
    PROVE  \A k \in 1..Len(torn) : torn[k] = Torn
  <1>1. torn = <<>> \/ torn = <<Torn>>
    BY DEF TornWrites
  <1>2. CASE torn = <<>>
    BY <1>2
  <1>3. CASE torn = <<Torn>>
    BY <1>3
  <1>4. QED
    BY <1>1, <1>2, <1>3

\* What a failed append has in common, however far it came.
LEMMA AppendSpoils ==
    ASSUME IndexInv, state = "OpenedFiles", NEW id \in ids, NEW size \in Nat,
           RecordOffsetAndSize(id, size), NEW cells, dest' = dest \o cells,
           \A k \in 1..Len(cells) : cells[k].kind # "EndOfArchiveData",
           \A x \in ids \ {id} : hashes'[x] = hashes[x],
           ids' \in {ids, ids \ {id}}, damaged' = damaged \cup {id},
           UNCHANGED <<state, entries_info>>
    PROVE  Spoils(id, cells)
  <1>1. TypeOK /\ id \in DOMAIN ids_info
    BY DEF IndexInv, TypeInv, Bookkeeping
  <1>2. /\ DOMAIN ids_info' = DOMAIN ids_info
        /\ \A x \in DOMAIN ids_info \ {id} : ids_info'[x] = ids_info[x]
    BY <1>1, RecordType
  <1>3. QED
    BY <1>2 DEF Spoils

LEMMA BlockKinds ==
    ASSUME NEW id \in Ids, NEW length \in Nat, NEW data \in Seq(Bytes)
    PROVE  /\ ContentBlock(id, length, data) \in Seq(Cell)
           /\ \A k \in 1..Len(ContentBlock(id, length, data)) :
                 ContentBlock(id, length, data)[k].kind \in {"EntryContent", "Byte"}
  <1> DEFINE cells == ContentBlock(id, length, data)
  <1>1. /\ cells \in Seq(Cell) /\ Len(cells) = Len(data) + 1
        /\ cells[1] = EntryContent(id, length)
        /\ \A k \in 2..Len(data) + 1 : cells[k] = Byte(data[k - 1])
    BY ContentBlockCells
  <1> HIDE DEF cells
  <1>2. ASSUME NEW k \in 1..Len(cells) PROVE cells[k].kind \in {"EntryContent", "Byte"}
    <2>1. CASE k = 1
      BY <1>1, <2>1 DEF EntryContent
    <2>2. CASE k # 1
      <3>1. k \in 2..Len(data) + 1
        BY <1>1, <2>2
      <3>2. cells[k] = Byte(data[k - 1])
        BY <1>1, <3>1
      <3>3. QED
        BY <3>2 DEF Byte
    <2>3. QED
      BY <2>1, <2>2
  <1>3. QED
    BY <1>1, <1>2 DEF cells

\* Every step is of one of these kinds.
LEMMA StepKinds ==
    ASSUME IndexInv, [Next]_vars
    PROVE  \/ \E name \in Names : StartEntry(name) \/ StartEntryFails(name)
           \/ \E id \in ids, data \in Data : AppendContent(id, data)
           \/ \E id \in ids : EndEntry(id)
           \/ \E id \in ids, cells \in Seq(Cell) : Spoils(id, cells)
           \/ Finalize
           \/ \E cells \in Seq(Cell) : Loses(cells)
           \/ UNCHANGED vars
  <1>1. TypeOK /\ Bookkeeping
    BY DEF IndexInv, TypeInv
  <1>2. ASSUME NEW id \in ids, NEW read
        PROVE  HashUpdate(id, read) => \A x \in ids \ {id} : hashes'[x] = hashes[x]
    BY <1>1 DEF HashUpdate, TypeOK, Bookkeeping
  <1>3. ASSUME NEW id \in ids, NEW data \in Data, NEW got \in 0..Len(data),
               AppendContentShort(id, data, got)
        PROVE  \E cells \in Seq(Cell) : Spoils(id, cells)
    <2> DEFINE kept == SubSeq(data, 1, got)
               cells == ContentBlock(id, Len(data), kept)
    <2>1. Len(data) \in Nat /\ kept \in Seq(Bytes) /\ id \in Ids
      BY <1>1, DataAssumption DEF TypeOK
    <2>2. cells \in Seq(Cell) /\ \A k \in 1..Len(cells) : cells[k].kind # "EndOfArchiveData"
      <3> HIDE DEF kept
      <3>1. QED
        BY <2>1, BlockKinds
    <2>3. /\ state = "OpenedFiles" /\ RecordOffsetAndSize(id, Len(data)) /\ dest' = dest \o cells
          /\ HashUpdate(id, kept)
          /\ ids' = ids /\ damaged' = damaged \cup {id} /\ UNCHANGED <<state, entries_info>>
      BY <1>3 DEF AppendContentShort, Fault, FileOpened
    <2> HIDE DEF cells, kept
    <2>4. Spoils(id, cells)
      BY <1>2, <2>1, <2>2, <2>3, AppendSpoils
    <2>5. QED
      BY <2>2, <2>4
  <1>4. ASSUME NEW id \in ids, NEW data \in Data, AppendContentHeaderFails(id, data)
        PROVE  \E cells \in Seq(Cell) : Spoils(id, cells)
    <2>1. PICK torn \in TornWrites : dest' = dest \o torn
      BY <1>4 DEF AppendContentHeaderFails
    <2>2. torn \in Seq(Cell) /\ \A k \in 1..Len(torn) : torn[k].kind # "EndOfArchiveData"
      BY TornCells, TornIsTorn DEF Torn
    <2>3. Len(data) \in Nat
      BY DataAssumption
    <2>4. /\ state = "OpenedFiles" /\ RecordOffsetAndSize(id, Len(data)) /\ hashes' = hashes
          /\ ids' = ids /\ damaged' = damaged \cup {id} /\ UNCHANGED <<state, entries_info>>
      BY <1>4 DEF AppendContentHeaderFails, Fault, FileOpened
    <2>5. Spoils(id, torn)
      BY <2>1, <2>2, <2>3, <2>4, AppendSpoils
    <2>6. QED
      BY <2>2, <2>5
  <1>5. ASSUME NEW id \in ids, NEW data \in Data,
               NEW read \in 0..Len(data), NEW written \in 0..Len(data),
               AppendContentCopyFails(id, data, read, written)
        PROVE  \E cells \in Seq(Cell) : Spoils(id, cells)
    <2> DEFINE kept == SubSeq(data, 1, written)
               cells == ContentBlock(id, Len(data), kept)
    <2>1. Len(data) \in Nat /\ kept \in Seq(Bytes) /\ id \in Ids
      BY <1>1, DataAssumption DEF TypeOK
    <2>2. cells \in Seq(Cell) /\ \A k \in 1..Len(cells) : cells[k].kind # "EndOfArchiveData"
      <3> HIDE DEF kept
      <3>1. QED
        BY <2>1, BlockKinds
    <2>3. /\ state = "OpenedFiles" /\ RecordOffsetAndSize(id, Len(data)) /\ dest' = dest \o cells
          /\ HashUpdate(id, SubSeq(data, 1, read))
          /\ ids' = ids /\ damaged' = damaged \cup {id} /\ UNCHANGED <<state, entries_info>>
      BY <1>5 DEF AppendContentCopyFails, Fault, FileOpened
    <2> HIDE DEF cells, kept
    <2>4. Spoils(id, cells)
      BY <1>2, <2>1, <2>2, <2>3, AppendSpoils
    <2>5. QED
      BY <2>2, <2>4
  <1>6. ASSUME NEW id \in ids, EndEntryFails(id)
        PROVE  \E cells \in Seq(Cell) : Spoils(id, cells)
    <2>1. PICK torn \in TornWrites : dest' = dest \o torn
      BY <1>6 DEF EndEntryFails
    <2>2. torn \in Seq(Cell) /\ \A k \in 1..Len(torn) : torn[k].kind # "EndOfArchiveData"
      BY TornCells, TornIsTorn DEF Torn
    <2>3. /\ state = "OpenedFiles" /\ RecordOffsetAndSize(id, 0) /\ hashes' = Drop(hashes, id)
          /\ ids' = ids \ {id} /\ damaged' = damaged \cup {id} /\ UNCHANGED <<state, entries_info>>
      BY <1>6 DEF EndEntryFails, CloseEntry, Fault, FileOpened
    <2>4. \A x \in ids \ {id} : hashes'[x] = hashes[x]
      BY <1>1, <2>3 DEF Drop, Bookkeeping
    <2>5. Spoils(id, torn)
      BY <2>1, <2>2, <2>3, <2>4, AppendSpoils
    <2>6. QED
      BY <2>2, <2>5
  <1>7. CASE FinalizeRefused
    <2>1. <<>> \in Seq(Cell) /\ Len(<<>>) = 0 /\ dest \o <<>> = dest
      BY <1>1 DEF TypeOK
    <2>2. Loses(<<>>)
      BY <1>7, <2>1 DEF FinalizeRefused, Loses
    <2>3. QED
      BY <2>1, <2>2
  <1>8. CASE FinalizeFails
    <2> DEFINE tail == <<EndOfArchiveData, ArchiveFooter(FooterIndex)>>
    <2>1. PICK k \in 0..2, torn \in TornWrites :
             dest' = dest \o SubSeq(tail, 1, k) \o torn
      BY <1>8 DEF FinalizeFails
    <2>2. /\ tail \in Seq(Cell) /\ Len(tail) = 2
          /\ \A j \in 1..Len(tail) : tail[j].kind \notin EntryBlockKinds
      <3>1. FooterIndex \in [Names -> Seq(IndexRecord)]
        BY <1>1 DEF FooterIndex, TypeOK, Bookkeeping
      <3>2. /\ EndOfArchiveData \in Cell /\ ArchiveFooter(FooterIndex) \in Cell
            /\ EndOfArchiveData.kind \notin EntryBlockKinds
            /\ ArchiveFooter(FooterIndex).kind \notin EntryBlockKinds
        BY <3>1 DEF Cell, ArchiveFooter, EndOfArchiveData, EntryBlockKinds
      <3>3. QED
        BY <3>2
    <2> HIDE DEF tail
    <2> DEFINE part == SubSeq(tail, 1, k)
               cells == part \o torn
    <2>3. /\ part \in Seq(Cell) /\ Len(part) = k
          /\ \A j \in 1..k : part[j] = tail[j] /\ j \in 1..Len(tail)
      BY <2>2, SMTT(60)
    <2> HIDE DEF part
    <2>4. /\ torn \in Seq(Cell)
          /\ \A j \in 1..Len(torn) : torn[j].kind \notin EntryBlockKinds
      BY TornCells
    <2>5. /\ cells \in Seq(Cell)
          /\ \A j \in 1..Len(cells) : cells[j].kind \notin EntryBlockKinds
      <3>1. \A j \in 1..Len(part) : part[j].kind \notin EntryBlockKinds
        BY <2>2, <2>3
      <3>2. QED
        BY <2>3, <2>4, <3>1
    <2>6. dest' = dest \o cells
      <3>1. dest' = (dest \o part) \o torn /\ dest \in Seq(Cell)
        BY <1>1, <2>1 DEF TypeOK, part
      <3>2. \A d, a, b \in Seq(Cell) : (d \o a) \o b = d \o (a \o b)
        BY ConcatFacts, SMTT(60)
      <3>3. QED
        BY <3>1, <3>2, <2>3, <2>4
    <2>7. /\ state = "OpenedFiles" /\ state' = "Dropped"
          /\ UNCHANGED <<ids, hashes, entries_info, ids_info, damaged>>
      BY <1>1, <1>8 DEF FinalizeFails, Fault, TypeOK
    <2> HIDE DEF cells
    <2>8. Loses(cells)
      BY <2>5, <2>6, <2>7 DEF Loses
    <2>9. QED
      BY <2>5, <2>8
  <1>9. QED
    BY <1>3, <1>4, <1>5, <1>6, <1>7, <1>8 DEF Next

-----------------------------------------------------------------------------
(***************************************************************************)
(* What a step leaves of the content of an entry.                          *)
(***************************************************************************)
\* The records of an undamaged entry lie inside the stream, their data too.
LEMMA RecordsInside ==
    ASSUME IndexInv, NEW id \in DOMAIN ids_info, id \notin damaged,
           NEW i \in 1..Len(ids_info[id])
    PROVE  /\ ids_info[id] \in Seq(IndexRecord)
           /\ ids_info[id][i].offset \in Nat /\ ids_info[id][i].size \in Nat
           /\ ids_info[id][i].offset + 1 <= Len(dest)
           /\ ids_info[id][i].offset + 1 + ids_info[id][i].size <= Len(dest)
  <1> DEFINE record == ids_info[id][i]
             block == dest[record.offset + 1]
  <1>1. ids_info[id] \in Seq(IndexRecord) /\ record \in IndexRecord
    BY DEF IndexInv, TypeInv, TypeOK
  <1>2. record.offset \in Nat /\ record.size \in Nat
    BY <1>1 DEF IndexRecord
  <1>3. RecordsPoint(id) /\ i \in DOMAIN ids_info[id]
    BY <1>1 DEF IndexInv, IndexFaithful
  <1>4. /\ record.offset + 1 \in BlocksOf(dest, id)
        /\ block.kind = "EntryContent" =>
              record.size = block.length /\ Whole(record.offset + 1)
        /\ block.kind # "EntryContent" => record.size = 0
    BY <1>3 DEF RecordsPoint, BlockAt
  <1>5. record.offset + 1 \in 1..Len(dest) /\ Len(dest) \in Nat
    BY <1>4 DEF BlocksOf, IndexInv, TypeInv, TypeOK
  <1>6. CASE block.kind = "EntryContent"
    BY <1>1, <1>2, <1>4, <1>5, <1>6 DEF Whole
  <1>7. CASE block.kind # "EntryContent"
    BY <1>1, <1>2, <1>4, <1>5, <1>7
  <1>8. QED
    BY <1>6, <1>7

\* A longer stream holds the same content for the same index.
LEMMA IndexedKept ==
    ASSUME IndexInv, NEW id \in DOMAIN ids_info, id \notin damaged,
           NEW cells \in Seq(Cell), dest' = dest \o cells
    PROVE  /\ dest' \in Seq(Cell)
           /\ IndexedContent(dest', ids_info[id]) = IndexedContent(dest, ids_info[id])
  <1> DEFINE index == ids_info[id]
             s == dest
             t == dest'
  <1>1. s \in Seq(Cell) /\ index \in Seq(IndexRecord)
    BY DEF IndexInv, TypeInv, TypeOK
  <1>2. /\ t \in Seq(Cell) /\ Len(t) \in Nat /\ Len(s) \in Nat /\ Len(s) <= Len(t)
        /\ \A p \in 1..Len(s) : s[p] = t[p]
    BY <1>1
  <1>3. ASSUME NEW i \in 1..Len(index) PROVE Piece(s, index, i) = Piece(t, index, i)
    <2> DEFINE a == index[i].offset + 2
               b == index[i].offset + 1 + index[i].size
    <2>1. /\ index[i].offset \in Nat /\ index[i].size \in Nat
          /\ b <= Len(s)
      BY RecordsInside
    <2>2. a \in Nat /\ b \in Nat /\ b <= Len(t) /\ a >= 1
      BY <1>2, <2>1, SMTT(60)
    <2>3. Piece(s, index, i) = BytesAt(s, a, b) /\ Piece(t, index, i) = BytesAt(t, a, b)
      BY DEF Piece
    <2> HIDE DEF a, b, s, t
    <2>4. \A p \in a..b : s[p] = t[p]
      BY <1>2, <2>1, <2>2
    <2>5. BytesAt(s, a, b) = BytesAt(t, a, b)
      BY <1>2, <2>1, <2>2, <2>4, BytesAtSame
    <2>6. QED
      BY <2>3, <2>5
  <1> HIDE DEF index, s, t
  <1>4. IndexedContent(s, index) = IndexedContent(t, index)
    BY <1>1, <1>2, <1>3, IndexedSame
  <1>5. QED
    BY <1>2, <1>4 DEF index, s, t

\* An entry that a step does not touch keeps its content, its hash and its
\* first block.
LEMMA EntryKept ==
    ASSUME IndexInv, NEW id \in DOMAIN ids_info, id \notin damaged,
           NEW cells \in Seq(Cell), dest' = dest \o cells,
           ids_info'[id] = ids_info[id], id \in ids' <=> id \in ids,
           id \in ids => hashes'[id] = hashes[id]
    PROVE  /\ IndexedContent(dest', ids_info'[id]) = IndexedContent(dest, ids_info[id])
           /\ HashNow(id)' = HashNow(id)
           /\ BlockAt(id, 1)' = BlockAt(id, 1)
           /\ BlockAt(id, Len(ids_info[id]))' = BlockAt(id, Len(ids_info[id]))
  <1>1. IndexedContent(dest', ids_info[id]) = IndexedContent(dest, ids_info[id])
    BY IndexedKept
  <1>2. dest \in Seq(Cell) /\ ids_info[id] \in Seq(IndexRecord) /\ Len(ids_info[id]) >= 1
    BY DEF IndexInv, TypeInv, TypeOK, IndexNonempty
  <1>3. ASSUME NEW i \in 1..Len(ids_info[id]) PROVE BlockAt(id, i)' = BlockAt(id, i)
    <2> DEFINE p == ids_info[id][i].offset + 1
    <2>1. p \in 1..Len(dest)
      BY <1>2, RecordsInside
    <2> HIDE DEF p
    <2>2. dest'[p] = dest[p]
      BY <1>2, <2>1
    <2>3. QED
      BY <2>2 DEF BlockAt, p
  <1>4. 1 \in 1..Len(ids_info[id]) /\ Len(ids_info[id]) \in 1..Len(ids_info[id])
    BY <1>2
  <1>5. BlockAt(id, Len(ids_info[id]))' = BlockAt(id, Len(ids_info[id]))
    BY <1>3, <1>4 DEF BlockAt
  <1>6. HashNow(id)' = HashNow(id)
    BY <1>5 DEF HashNow, BlockAt
  <1>7. QED
    BY <1>1, <1>3, <1>4, <1>5, <1>6

\* While nothing is damaged every content block of the stream is whole.
LEMMA AllWhole ==
    ASSUME IndexInv, damaged = {}
    PROVE  \A p \in 2..Len(dest) :
              dest[p].kind = "EntryContent" => p + dest[p].length <= Len(dest)
  <1> SUFFICES ASSUME NEW p \in 2..Len(dest), dest[p].kind = "EntryContent"
               PROVE  p + dest[p].length <= Len(dest)
    OBVIOUS
  <1>1. p \in 1..Len(dest)
    OBVIOUS
  <1>2. dest[p].id \in DOMAIN ids_info
    BY <1>1 DEF IndexInv, HeadersKnown, EntryBlockKinds
  <1> DEFINE id == dest[p].id
  <1>3. p \in BlocksOf(dest, id)
    BY <1>1 DEF BlocksOf, EntryBlockKinds
  <1>4. BlocksIndexed(id) /\ RecordsPoint(id)
    BY <1>2 DEF IndexInv, IndexFaithful
  <1>5. PICK i \in DOMAIN ids_info[id] : ids_info[id][i].offset + 1 = p
    BY <1>3, <1>4 DEF BlocksIndexed
  <1>6. Whole(ids_info[id][i].offset + 1)
    BY <1>4, <1>5 DEF RecordsPoint, BlockAt
  <1>7. QED
    BY <1>5, <1>6 DEF Whole

\* The data of a content block is what is read back from where it was written.
LEMMA BlockBytes ==
    ASSUME NEW s \in Seq(Cell), NEW id \in Ids, NEW data \in Seq(Bytes)
    PROVE  BytesAt(s \o ContentBlock(id, Len(data), data), Len(s) + 2, Len(s) + 1 + Len(data))
             = data
  <1> DEFINE cells == ContentBlock(id, Len(data), data)
             t == s \o cells
             n == Len(data)
             got == BytesAt(t, Len(s) + 2, Len(s) + 1 + n)
  <1>1. /\ cells \in Seq(Cell) /\ Len(cells) = n + 1
        /\ \A k \in 2..n + 1 : cells[k] = Byte(data[k - 1])
    BY ContentBlockCells
  <1> HIDE DEF cells
  <1>2. n \in Nat /\ Len(s) \in Nat
    OBVIOUS
  <1>3. /\ t \in Seq(Cell) /\ Len(t) = Len(s) + n + 1
        /\ \A k \in 1..n + 1 : t[Len(s) + k] = cells[k]
    <2>1. t \in Seq(Cell) /\ Len(t) = Len(s) + n + 1
      <3>1. t \in Seq(Cell) /\ Len(t) = Len(s) + Len(cells)
        BY <1>1, SMTT(60)
      <3> HIDE DEF t, n
      <3>2. QED
        BY <1>1, <1>2, <3>1
    <2>2. \A p \in Len(s) + 1 .. Len(t) : t[p] = cells[p - Len(s)]
      BY <1>1, <1>2
    <2>3. \A k \in 1..n + 1 : /\ Len(s) + k \in Len(s) + 1 .. Len(t)
                             /\ (Len(s) + k) - Len(s) = k
      BY <1>2, <2>1
    <2> HIDE DEF t
    <2>4. QED
      BY <2>1, <2>2, <2>3
  <1>4. got = [i \in 1..n |->
                 LET p == Len(s) + 2 + i - 1 IN
                 IF p <= Len(t) /\ t[p].kind = "Byte" THEN t[p].val ELSE NoByte]
    <2>1. (Len(s) + 1 + n) - (Len(s) + 2) + 1 = n
      BY <1>2
    <2> HIDE DEF t, n
    <2>2. QED
      BY <2>1 DEF BytesAt
  <1>5. ASSUME NEW i \in 1..n PROVE got[i] = data[i]
    <2> DEFINE p == Len(s) + 2 + i - 1
    <2>1. p = Len(s) + (i + 1) /\ p <= Len(t) /\ i + 1 \in 2..n + 1 /\ (i + 1) - 1 = i
          /\ i + 1 \in 1..n + 1
      BY <1>2, <1>3
    <2>2. t[p] = Byte(data[i])
      <3>1. cells[i + 1] = Byte(data[i])
        BY <1>1, <2>1
      <3>2. t[Len(s) + (i + 1)] = cells[i + 1]
        BY <1>3, <2>1
      <3> HIDE DEF t
      <3>3. QED
        BY <2>1, <3>1, <3>2
    <2>3. got[i] = IF p <= Len(t) /\ t[p].kind = "Byte" THEN t[p].val ELSE NoByte
      <3> HIDE DEF got, t
      <3>1. QED
        BY <1>4
    <2> HIDE DEF p, got, t
    <2>4. QED
      BY <2>1, <2>2, <2>3 DEF Byte
  <1>6. got = [i \in 1..n |-> got[i]]
    <2> HIDE DEF got
    <2>1. QED
      BY <1>4
  <1>7. data = [i \in 1..n |-> data[i]]
    OBVIOUS
  <1>8. got = data
    <2> HIDE DEF got
    <2>1. QED
      BY <1>5, <1>6, <1>7
  <1>9. QED
    BY <1>8 DEF cells

\* The part of HashesMatch and of NamesRecorded about the entries a step on
\* entry id leaves alone.
LEMMA OthersMatch ==
    ASSUME ContentInv, NEW id, NEW cells \in Seq(Cell), dest' = dest \o cells,
           \A x \in DOMAIN ids_info \ {id} :
              /\ ids_info'[x] = ids_info[x]
              /\ x \in ids' <=> x \in ids
              /\ x \in ids => hashes'[x] = hashes[x],
           damaged \subseteq damaged'
    PROVE  \A x \in DOMAIN ids_info \ {id} :
              x \notin damaged' =>
                 /\ HashNow(x)' = IndexedContent(dest', ids_info'[x])
                 /\ HashNow(x)' = HashNow(x)
                 /\ BlockAt(x, 1)' = BlockAt(x, 1)
  <1> SUFFICES ASSUME NEW x \in DOMAIN ids_info \ {id}, x \notin damaged'
               PROVE  /\ HashNow(x)' = IndexedContent(dest', ids_info'[x])
                      /\ HashNow(x)' = HashNow(x)
                      /\ BlockAt(x, 1)' = BlockAt(x, 1)
    OBVIOUS
  <1>1. x \in DOMAIN ids_info /\ x \notin damaged
    OBVIOUS
  <1>2. HashNow(x) = IndexedContent(dest, ids_info[x])
    BY <1>1 DEF ContentInv, HashesMatch
  <1>3. /\ ids_info'[x] = ids_info[x]
        /\ x \in ids' <=> x \in ids
        /\ x \in ids => hashes'[x] = hashes[x]
    OBVIOUS
  <1>4. /\ IndexedContent(dest', ids_info'[x]) = IndexedContent(dest, ids_info[x])
        /\ HashNow(x)' = HashNow(x)
        /\ BlockAt(x, 1)' = BlockAt(x, 1)
    BY <1>1, <1>3, EntryKept DEF ContentInv
  <1>5. QED
    BY <1>2, <1>4

\* Names whose id a step leaves alone keep leading to their EntryStart.
LEMMA NamesKept ==
    ASSUME ContentInv, NEW id, entries_info' = entries_info, damaged \subseteq damaged',
           \A x \in DOMAIN ids_info \ {id} :
              x \notin damaged' => BlockAt(x, 1)' = BlockAt(x, 1),
           id \in DOMAIN ids_info /\ id \notin damaged' => BlockAt(id, 1)' = BlockAt(id, 1)
    PROVE  NamesRecorded'
  <1> SUFFICES ASSUME NEW n \in DOMAIN entries_info, entries_info[n] \notin damaged'
               PROVE  BlockAt(entries_info[n], 1)' = EntryStart(n, entries_info[n])
    BY DEF NamesRecorded, BlockAt
  <1>1. entries_info[n] \in DOMAIN ids_info /\ entries_info[n] \notin damaged
    BY DEF ContentInv, IndexInv, TypeInv, Bookkeeping
  <1>2. BlockAt(entries_info[n], 1) = EntryStart(n, entries_info[n])
    BY <1>1 DEF ContentInv, NamesRecorded
  <1>3. \A x : x = entries_info[n] => BlockAt(x, 1)' = BlockAt(x, 1)
    BY <1>1
  <1>4. BlockAt(entries_info[n], 1)' = BlockAt(entries_info[n], 1)
    BY <1>3 DEF BlockAt
  <1>5. QED
    BY <1>2, <1>4

\* Cells without EndOfArchiveData leave the archive unsealed.
LEMMA StillUnsealed ==
    ASSUME ContentInv, NEW cells \in Seq(Cell), dest' = dest \o cells,
           \A k \in 1..Len(cells) : cells[k].kind # "EndOfArchiveData",
           state = "OpenedFiles", state' = "OpenedFiles"
    PROVE  SealShape' /\ Len(dest') >= 1
  <1>1. dest \in Seq(Cell) /\ Len(dest) >= 1
    BY DEF ContentInv, IndexInv, TypeInv, TypeOK
  <1>2. /\ Len(dest') = Len(dest) + Len(cells) /\ Len(cells) \in Nat /\ Len(dest) \in Nat
        /\ \A p \in 1..Len(dest) : dest'[p] = dest[p]
        /\ \A p \in Len(dest) + 1 .. Len(dest') : dest'[p] = cells[p - Len(dest)]
    BY <1>1
  <1>3. ASSUME NEW p \in 1..Len(dest') PROVE dest'[p].kind # "EndOfArchiveData"
    <2>1. CASE p \in 1..Len(dest)
      BY <1>2, <2>1 DEF ContentInv, SealShape
    <2>2. CASE p \in Len(dest) + 1 .. Len(dest')
      <3>1. p - Len(dest) \in 1..Len(cells)
        BY <1>2, <2>2
      <3>2. QED
        BY <1>2, <2>2, <3>1
    <2>3. QED
      BY <1>2, <2>1, <2>2
  <1>4. Len(dest') >= 1
    BY <1>1, <1>2
  <1>5. QED
    BY <1>3, <1>4 DEF SealShape

-----------------------------------------------------------------------------
(***************************************************************************)
(* The invariant is preserved, one lemma for each kind of step.            *)
(***************************************************************************)
Kept == Len(dest') >= 1 /\ NamesRecorded' /\ SealShape' /\ HashesMatch' /\ LinearMatches'

LEMMA ContentSpoils ==
    ASSUME ContentInv, NEW id \in ids, NEW cells \in Seq(Cell), Spoils(id, cells)
    PROVE  Kept
  <1>1. /\ state = "OpenedFiles" /\ state' = state /\ entries_info' = entries_info
        /\ dest' = dest \o cells
        /\ \A k \in 1..Len(cells) : cells[k].kind # "EndOfArchiveData"
        /\ DOMAIN ids_info' = DOMAIN ids_info
        /\ \A x \in DOMAIN ids_info \ {id} :
              /\ ids_info'[x] = ids_info[x]
              /\ x \in ids' <=> x \in ids
              /\ x \in ids => hashes'[x] = hashes[x]
        /\ damaged' = damaged \cup {id}
    BY DEF Spoils
  <1>2. \A x \in DOMAIN ids_info \ {id} :
           x \notin damaged' => /\ HashNow(x)' = IndexedContent(dest', ids_info'[x])
                               /\ BlockAt(x, 1)' = BlockAt(x, 1)
    BY <1>1, OthersMatch
  <1>3. HashesMatch'
    <2> SUFFICES ASSUME NEW x \in DOMAIN ids_info', x \notin damaged'
                 PROVE  HashNow(x)' = IndexedContent(dest', ids_info'[x])
      BY DEF HashesMatch
    <2>1. QED
      BY <1>1, <1>2
  <1>4. NamesRecorded'
    BY <1>1, <1>2, NamesKept
  <1>5. SealShape' /\ Len(dest') >= 1
    BY <1>1, StillUnsealed
  <1>6. LinearMatches'
    BY <1>1 DEF LinearMatches
  <1>7. QED
    BY <1>3, <1>4, <1>5, <1>6 DEF Kept

\* Cells that are no block of an entry, and nothing else changed but the state.
LEMMA ContentQuiet ==
    ASSUME ContentInv, NEW cells \in Seq(Cell), dest' = dest \o cells,
           \A k \in 1..Len(cells) : cells[k].kind \notin EntryBlockKinds,
           UNCHANGED <<ids, hashes, entries_info, ids_info, damaged>>
    PROVE  Len(dest') >= 1 /\ NamesRecorded' /\ HashesMatch' /\ LinearMatches'
  <1>1. /\ ids' = ids /\ hashes' = hashes /\ entries_info' = entries_info
        /\ ids_info' = ids_info /\ damaged' = damaged
    OBVIOUS
  <1>2. PICK none : none \notin DOMAIN ids_info
    <2>1. MaxId + 1 \notin DOMAIN ids_info
      BY MaxIdAssumption DEF ContentInv, IndexInv, TypeInv, TypeOK, Ids
    <2>2. QED
      BY <2>1
  <1>3. \A x \in DOMAIN ids_info \ {none} :
           x \notin damaged' => /\ HashNow(x)' = IndexedContent(dest', ids_info'[x])
                               /\ HashNow(x)' = HashNow(x)
                               /\ BlockAt(x, 1)' = BlockAt(x, 1)
    BY <1>1, OthersMatch
  <1>4. HashesMatch'
    <2> SUFFICES ASSUME NEW x \in DOMAIN ids_info', x \notin damaged'
                 PROVE  HashNow(x)' = IndexedContent(dest', ids_info'[x])
      BY DEF HashesMatch
    <2>1. QED
      BY <1>1, <1>2, <1>3
  <1>5. NamesRecorded'
    BY <1>1, <1>2, <1>3, NamesKept
  <1>6. dest \in Seq(Cell) /\ Len(dest) >= 1 /\ IndexInv
    BY DEF ContentInv, IndexInv, TypeInv, TypeOK
  <1>7. Len(dest') >= 1
    BY <1>6
  <1>8. LinearMatches'
    <2> SUFFICES ASSUME damaged' = {}, NEW x \in Ids
                 PROVE  LinearContent(dest', x) =
                          IF x \in DOMAIN ids_info' THEN HashNow(x)' ELSE <<>>
      BY DEF LinearMatches
    <2>1. \A k \in 1..Len(cells) : cells[k].kind # "EntryContent"
      BY DEF EntryBlockKinds
    <2>2. LinearContent(dest \o cells, x) = LinearContent(dest, x)
      BY <1>1, <1>6, <2>1, AllWhole, LinearQuiet
    <2>3. LinearContent(dest, x) = IF x \in DOMAIN ids_info THEN HashNow(x) ELSE <<>>
      BY <1>1 DEF ContentInv, LinearMatches
    <2>4. QED
      BY <1>1, <1>2, <1>3, <2>2, <2>3
  <1>9. QED
    BY <1>4, <1>5, <1>7, <1>8

LEMMA ContentLoses ==
    ASSUME ContentInv, NEW cells \in Seq(Cell), Loses(cells)
    PROVE  Kept
  <1>1. Len(dest') >= 1 /\ NamesRecorded' /\ HashesMatch' /\ LinearMatches'
    BY ContentQuiet DEF Loses
  <1>2. SealShape'
    BY DEF Loses, SealShape
  <1>3. QED
    BY <1>1, <1>2 DEF Kept

LEMMA ContentFinalize ==
    ASSUME ContentInv, Finalize
    PROVE  Kept
  <1> DEFINE end == EndOfArchiveData
             footer == ArchiveFooter(FooterIndex)
             tail == <<end, footer>>
  <1>1. TypeOK /\ Bookkeeping /\ Len(dest) >= 1 /\ SealShape
    BY DEF ContentInv, IndexInv, TypeInv
  <1>2. /\ end \in Cell /\ footer \in Cell
        /\ end.kind \notin EntryBlockKinds /\ footer.kind \notin EntryBlockKinds
        /\ end.kind = "EndOfArchiveData" /\ footer.kind # "EndOfArchiveData"
    <2>1. FooterIndex \in [Names -> Seq(IndexRecord)]
      BY <1>1 DEF FooterIndex, TypeOK, Bookkeeping
    <2>2. QED
      BY <2>1 DEF Cell, ArchiveFooter, EndOfArchiveData, EntryBlockKinds
  <1>3. /\ state = "OpenedFiles" /\ ids = {} /\ state' = "Finalized" /\ dest' = dest \o tail
        /\ UNCHANGED <<ids, hashes, entries_info, ids_info, damaged>>
    BY DEF Finalize, StillOpen
  <1>4. footer = ArchiveFooter(FooterIndex)'
    BY <1>3 DEF FooterIndex, ArchiveFooter
  <1> HIDE DEF end, footer
  <1>5. /\ tail \in Seq(Cell) /\ Len(tail) = 2 /\ tail[1] = end /\ tail[2] = footer
        /\ \A k \in 1..Len(tail) : tail[k].kind \notin EntryBlockKinds
    BY <1>2
  <1> HIDE DEF tail
  <1>6. Len(dest') >= 1 /\ NamesRecorded' /\ HashesMatch' /\ LinearMatches'
    BY <1>3, <1>5, ContentQuiet
  <1>7. /\ Len(dest') = Len(dest) + 2 /\ Len(dest) \in Nat
        /\ \A p \in 1..Len(dest) : dest'[p] = dest[p]
        /\ dest'[Len(dest) + 1] = end /\ dest'[Len(dest) + 2] = footer
    <2>1. /\ Len(dest') = Len(dest) + 2 /\ Len(dest) \in Nat
          /\ \A p \in 1..Len(dest) : dest'[p] = dest[p]
          /\ \A p \in Len(dest) + 1 .. Len(dest') : dest'[p] = tail[p - Len(dest)]
      BY <1>1, <1>3, <1>5, DestExtended
    <2>2. /\ Len(dest) + 1 \in Len(dest) + 1 .. Len(dest')
          /\ Len(dest) + 2 \in Len(dest) + 1 .. Len(dest')
          /\ (Len(dest) + 1) - Len(dest) = 1 /\ (Len(dest) + 2) - Len(dest) = 2
      BY <2>1
    <2>3. QED
      BY <1>5, <2>1, <2>2
  <1>8. \A p \in 1..Len(dest') : dest'[p].kind = "EndOfArchiveData" <=> p = Len(dest') - 1
    <2>1. \A p \in 1..Len(dest) : dest'[p].kind # "EndOfArchiveData" /\ p # Len(dest') - 1
      BY <1>1, <1>3, <1>7 DEF SealShape
    <2>2. \A p \in 1..Len(dest') :
             p \in 1..Len(dest) \/ p = Len(dest) + 1 \/ p = Len(dest) + 2
      BY <1>7
    <2>3. QED
      BY <1>2, <1>7, <2>1, <2>2
  <1>9. SealShape'
    <2>1. Len(dest') >= 2 /\ dest'[Len(dest')] = footer
      BY <1>7
    <2>2. QED
      BY <1>3, <1>4, <1>8, <2>1 DEF SealShape
  <1>10. QED
    BY <1>6, <1>9 DEF Kept

LEMMA ContentUnchanged ==
    ASSUME ContentInv, UNCHANGED vars
    PROVE  Kept
  BY DEF vars, Kept, ContentInv, NamesRecorded, SealShape, HashesMatch, LinearMatches,
         HashNow, BlockAt, FooterIndex

\* What a new entry changes, whether its EntryStart was written or not.
LEMMA ReserveFacts ==
    ASSUME ContentInv, NEW name \in Names, ReserveEntry(name),
           NEW cells \in Seq(Cell), dest' = dest \o cells
    PROVE  /\ state = "OpenedFiles"
           /\ next_id \in Ids /\ next_id \notin DOMAIN ids_info /\ next_id \notin ids
           /\ next_id \notin damaged
           /\ DOMAIN ids_info' = DOMAIN ids_info \cup {next_id}
           /\ ids_info'[next_id] = <<Record(0)>> /\ Record(0) \in IndexRecord
           /\ \A x \in DOMAIN ids_info : ids_info'[x] = ids_info[x]
           /\ name \notin DOMAIN entries_info
           /\ DOMAIN entries_info' = DOMAIN entries_info \cup {name}
           /\ entries_info'[name] = next_id
           /\ \A n \in DOMAIN entries_info :
                 entries_info'[n] = entries_info[n] /\ entries_info[n] \in DOMAIN ids_info
  <1>1. IndexInv /\ TypeOK /\ Bookkeeping
    BY DEF ContentInv, IndexInv, TypeInv
  <1>2. /\ next_id \in Ids /\ next_id \notin DOMAIN ids_info
        /\ DOMAIN ids_info' = DOMAIN ids_info \cup {next_id}
        /\ ids_info'[next_id] = <<Record(0)>>
        /\ \A x \in DOMAIN ids_info : ids_info'[x] = ids_info[x]
    BY <1>1, ReserveStep DEF IndexInv
  <1>3. next_id \notin ids /\ next_id \notin damaged
    BY <1>1, <1>2 DEF Bookkeeping
  <1>4. Record(0) \in IndexRecord
    BY <1>1 DEF Record, Position, IndexRecord, TypeOK
  <1>5. /\ state = "OpenedFiles" /\ name \notin DOMAIN entries_info
        /\ entries_info' = Put(entries_info, name, next_id)
    BY DEF ReserveEntry, NameTaken
  <1>6. /\ DOMAIN entries_info' = DOMAIN entries_info \cup {name}
        /\ entries_info'[name] = next_id
        /\ \A n \in DOMAIN entries_info : entries_info'[n] = entries_info[n]
    BY <1>5 DEF Put
  <1>7. QED
    BY <1>1, <1>2, <1>3, <1>4, <1>5, <1>6 DEF Bookkeeping

\* NamesRecorded after an entry was reserved.
LEMMA NamesReserved ==
    ASSUME ContentInv, NEW name, NEW id,
           DOMAIN entries_info' = DOMAIN entries_info \cup {name},
           entries_info'[name] = id, name \notin DOMAIN entries_info,
           \A n \in DOMAIN entries_info :
              entries_info'[n] = entries_info[n] /\ entries_info[n] \in DOMAIN ids_info,
           damaged \subseteq damaged',
           id \notin damaged' => BlockAt(id, 1)' = EntryStart(name, id),
           \A x \in DOMAIN ids_info : x \notin damaged' => BlockAt(x, 1)' = BlockAt(x, 1)
    PROVE  NamesRecorded'
  <1> SUFFICES ASSUME NEW n \in DOMAIN entries_info', entries_info'[n] \notin damaged'
               PROVE  BlockAt(entries_info[n], 1)' = EntryStart(n, entries_info'[n])
    BY DEF NamesRecorded, BlockAt
  <1>1. CASE n = name
    BY <1>1 DEF BlockAt
  <1>2. CASE n # name
    <2>1. /\ n \in DOMAIN entries_info /\ entries_info'[n] = entries_info[n]
          /\ entries_info[n] \in DOMAIN ids_info /\ entries_info[n] \notin damaged
      BY <1>2
    <2>2. BlockAt(entries_info[n], 1) = EntryStart(n, entries_info[n])
      BY <2>1 DEF ContentInv, NamesRecorded
    <2>3. \A x : x = entries_info[n] => BlockAt(x, 1)' = BlockAt(x, 1)
      BY <2>1
    <2>4. BlockAt(entries_info[n], 1)' = BlockAt(entries_info[n], 1)
      BY <2>1, <2>3 DEF BlockAt
    <2>5. QED
      BY <2>1, <2>2, <2>4
  <1>3. QED
    BY <1>1, <1>2

LEMMA ContentStartFails ==
    ASSUME ContentInv, NEW name \in Names, StartEntryFails(name)
    PROVE  Kept
  <1>1. PICK torn \in TornWrites : dest' = dest \o torn
    BY DEF StartEntryFails
  <1>2. torn \in Seq(Cell) /\ \A k \in 1..Len(torn) : torn[k].kind # "EndOfArchiveData"
    BY TornCells, TornIsTorn DEF Torn
  <1>3. /\ ReserveEntry(name) /\ state' = state /\ ids' = ids /\ hashes' = hashes
        /\ damaged' = damaged \cup {next_id}
    BY DEF StartEntryFails, Fault
  <1>4. /\ state = "OpenedFiles" /\ next_id \notin DOMAIN ids_info
        /\ DOMAIN ids_info' = DOMAIN ids_info \cup {next_id}
        /\ \A x \in DOMAIN ids_info : ids_info'[x] = ids_info[x]
        /\ name \notin DOMAIN entries_info
        /\ DOMAIN entries_info' = DOMAIN entries_info \cup {name}
        /\ entries_info'[name] = next_id
        /\ \A n \in DOMAIN entries_info :
              entries_info'[n] = entries_info[n] /\ entries_info[n] \in DOMAIN ids_info
    BY <1>1, <1>2, <1>3, ReserveFacts
  <1>5. \A x \in DOMAIN ids_info \ {next_id} :
           x \notin damaged' => /\ HashNow(x)' = IndexedContent(dest', ids_info'[x])
                               /\ BlockAt(x, 1)' = BlockAt(x, 1)
    BY <1>1, <1>2, <1>3, <1>4, OthersMatch
  <1>6. HashesMatch'
    <2> SUFFICES ASSUME NEW x \in DOMAIN ids_info', x \notin damaged'
                 PROVE  HashNow(x)' = IndexedContent(dest', ids_info'[x])
      BY DEF HashesMatch
    <2>1. QED
      BY <1>3, <1>4, <1>5
  <1>7. NamesRecorded'
    BY <1>3, <1>4, <1>5, NamesReserved
  <1>8. SealShape' /\ Len(dest') >= 1
    BY <1>1, <1>2, <1>3, <1>4, StillUnsealed
  <1>9. LinearMatches'
    BY <1>3 DEF LinearMatches
  <1>10. QED
    BY <1>6, <1>7, <1>8, <1>9 DEF Kept

LEMMA ContentStart ==
    ASSUME ContentInv, NEW name \in Names, StartEntry(name)
    PROVE  Kept
  <1>1. PICK id \in Ids : id = next_id
    BY DEF ContentInv, IndexInv, TypeInv, TypeOK
  <1> DEFINE start == EntryStart(name, id)
             cells == <<start>>
  <1>2. /\ start \in Cell /\ start.kind = "EntryStart" /\ start = EntryStart(name, id)
    BY DEF Cell, EntryStart
  <1>3. /\ ReserveEntry(name) /\ state' = state /\ ids' = ids \cup {id}
        /\ hashes' = Put(hashes, id, <<>>) /\ damaged' = damaged
        /\ dest' = Append(dest, start)
    BY <1>1 DEF StartEntry
  <1>4. dest \in Seq(Cell) /\ Len(dest) >= 1 /\ IndexInv /\ ids = DOMAIN hashes
    BY DEF ContentInv, IndexInv, TypeInv, TypeOK, Bookkeeping
  <1> HIDE DEF start
  <1>5. /\ cells \in Seq(Cell) /\ Len(cells) = 1 /\ cells[1] = start
        /\ dest' = dest \o cells
        /\ \A k \in 1..Len(cells) : cells[k] = start
    BY <1>2, <1>3, <1>4
  <1> HIDE DEF cells
  <1>6. /\ state = "OpenedFiles" /\ id \notin DOMAIN ids_info /\ id \notin ids
        /\ id \notin damaged
        /\ DOMAIN ids_info' = DOMAIN ids_info \cup {id}
        /\ ids_info'[id] = <<Record(0)>> /\ Record(0) \in IndexRecord
        /\ \A x \in DOMAIN ids_info : ids_info'[x] = ids_info[x]
        /\ name \notin DOMAIN entries_info
        /\ DOMAIN entries_info' = DOMAIN entries_info \cup {name}
        /\ entries_info'[name] = id
        /\ \A n \in DOMAIN entries_info :
              entries_info'[n] = entries_info[n] /\ entries_info[n] \in DOMAIN ids_info
    BY <1>1, <1>3, <1>5, ReserveFacts
  <1>7. hashes'[id] = <<>> /\ \A x \in ids : hashes'[x] = hashes[x]
    BY <1>3, <1>4, <1>6 DEF Put
  <1>8. \A x \in DOMAIN ids_info \ {id} :
           x \notin damaged' => /\ HashNow(x)' = IndexedContent(dest', ids_info'[x])
                               /\ HashNow(x)' = HashNow(x)
                               /\ BlockAt(x, 1)' = BlockAt(x, 1)
    BY <1>3, <1>5, <1>6, <1>7, OthersMatch
  <1>9. dest' \in Seq(Cell) /\ dest'[Len(dest) + 1] = start
    BY <1>2, <1>3, <1>4
  <1>10. BlockAt(id, 1)' = start
    <2>1. ids_info'[id][1] = Record(0)
      BY <1>6
    <2>2. ids_info'[id][1].offset = Len(dest)
      BY <2>1 DEF Record, Position
    <2>3. QED
      BY <1>9, <2>2 DEF BlockAt
  <1>11. HashNow(id)' = <<>> /\ IndexedContent(dest', ids_info'[id]) = <<>>
    <2>1. Record(0).size = 0
      BY DEF Record
    <2>2. IndexedContent(dest', <<Record(0)>>) = <<>>
      BY <1>6, <1>9, <2>1, IndexedStart
    <2>3. HashNow(id)' = <<>>
      BY <1>3, <1>7 DEF HashNow
    <2>4. QED
      BY <1>6, <2>2, <2>3
  <1>12. HashesMatch'
    <2> SUFFICES ASSUME NEW x \in DOMAIN ids_info', x \notin damaged'
                 PROVE  HashNow(x)' = IndexedContent(dest', ids_info'[x])
      BY DEF HashesMatch
    <2>1. CASE x = id
      BY <1>11, <2>1
    <2>2. CASE x # id
      BY <1>6, <1>8, <2>2
    <2>3. QED
      BY <2>1, <2>2
  <1>13. NamesRecorded'
    BY <1>2, <1>3, <1>6, <1>8, <1>10, NamesReserved
  <1>14. SealShape' /\ Len(dest') >= 1
    BY <1>2, <1>3, <1>5, <1>6, StillUnsealed
  <1>15. LinearMatches'
    <2> SUFFICES ASSUME damaged' = {}, NEW x \in Ids
                 PROVE  LinearContent(dest', x) =
                          IF x \in DOMAIN ids_info' THEN HashNow(x)' ELSE <<>>
      BY DEF LinearMatches
    <2>1. \A k \in 1..Len(cells) : cells[k].kind # "EntryContent"
      BY <1>2, <1>5
    <2>2. LinearContent(dest \o cells, x) = LinearContent(dest, x)
      BY <1>3, <1>4, <1>5, <2>1, AllWhole, LinearQuiet
    <2>3. LinearContent(dest, x) = IF x \in DOMAIN ids_info THEN HashNow(x) ELSE <<>>
      BY <1>3 DEF ContentInv, LinearMatches
    <2>4. CASE x = id
      BY <1>5, <1>6, <1>11, <2>2, <2>3, <2>4
    <2>5. CASE x # id /\ x \in DOMAIN ids_info
      BY <1>3, <1>5, <1>6, <1>8, <2>2, <2>3, <2>5
    <2>6. CASE x # id /\ x \notin DOMAIN ids_info
      BY <1>5, <1>6, <2>2, <2>3, <2>6
    <2>7. QED
      BY <2>4, <2>5, <2>6
  <1>16. QED
    BY <1>12, <1>13, <1>14, <1>15 DEF Kept

\* What a whole block of an open entry changes: the record goes to the end of
\* its index, and reads back the content so far and then the block's bytes.
LEMMA BlockAdded ==
    ASSUME ContentInv, NEW id \in ids, NEW size \in Nat, RecordOffsetAndSize(id, size),
           NEW cells \in Seq(Cell), dest' = dest \o cells, Len(cells) = size + 1
    PROVE  /\ id \in Ids /\ id \in DOMAIN ids_info
           /\ DOMAIN ids_info' = DOMAIN ids_info
           /\ \A x \in DOMAIN ids_info \ {id} : ids_info'[x] = ids_info[x]
           /\ Len(ids_info'[id]) = Len(ids_info[id]) + 1
           /\ BlockAt(id, Len(ids_info[id]))' = cells[1]
           /\ id \notin damaged =>
                 /\ BlockAt(id, 1)' = BlockAt(id, 1)
                 /\ IndexedContent(dest, ids_info[id]) \in Seq(Found)
                 /\ IndexedContent(dest', ids_info'[id])
                      = IndexedContent(dest, ids_info[id])
                        \o BytesAt(dest', Len(dest) + 2, Len(dest) + 1 + size)
  <1> DEFINE index == ids_info[id]
             record == Record(size)
  <1>1. TypeOK /\ Bookkeeping /\ IndexInv
    BY DEF ContentInv, IndexInv, TypeInv
  <1>2. id \in Ids /\ id \in DOMAIN ids_info
    BY <1>1 DEF TypeOK, Bookkeeping
  <1>3. /\ DOMAIN ids_info' = DOMAIN ids_info
        /\ \A x \in DOMAIN ids_info \ {id} : ids_info'[x] = ids_info[x]
        /\ record \in IndexRecord
        /\ ids_info'[id] = Append(index, record)
    BY <1>1, <1>2, RecordType
  <1>4. record.offset = Len(dest) /\ record.size = size
    BY DEF Record, Position
  <1>5. /\ index \in Seq(IndexRecord) /\ dest \in Seq(Cell) /\ Len(index) >= 1
    BY <1>1, <1>2 DEF TypeOK, IndexInv, IndexNonempty
  <1> HIDE DEF index, record
  <1>6. /\ Len(ids_info'[id]) = Len(index) + 1
        /\ ids_info'[id][Len(index) + 1] = record
        /\ ids_info'[id][1] = index[1]
        /\ Len(index) \in Nat
    BY <1>3, <1>5
  <1>7. dest'[Len(dest) + 1] = cells[1]
    BY <1>5
  <1>8. BlockAt(id, Len(ids_info[id]))' = cells[1]
    <2>1. dest'[ids_info'[id][Len(ids_info'[id])].offset + 1] = cells[1]
      BY <1>4, <1>6, <1>7
    <2>2. QED
      BY <2>1 DEF BlockAt
  <1>9. ASSUME id \notin damaged
        PROVE  /\ BlockAt(id, 1)' = BlockAt(id, 1)
               /\ IndexedContent(dest, index) \in Seq(Found)
               /\ IndexedContent(dest', ids_info'[id])
                      = IndexedContent(dest, index)
                        \o BytesAt(dest', Len(dest) + 2, Len(dest) + 1 + size)
    <2>1. dest' \in Seq(Cell) /\ IndexedContent(dest', index) = IndexedContent(dest, index)
      BY <1>1, <1>2, <1>9, IndexedKept DEF index
    <2>2. /\ IndexedContent(dest', index) \in Seq(Found)
          /\ IndexedContent(dest', Append(index, record))
               = IndexedContent(dest', index)
                 \o BytesAt(dest', record.offset + 2, record.offset + 1 + record.size)
      BY <1>3, <1>5, <2>1, IndexedAppend
    <2>3. index[1].offset + 1 \in 1..Len(dest)
      <3>1. 1 \in 1..Len(ids_info[id])
        BY <1>5 DEF index
      <3>2. index[1].offset \in Nat /\ index[1].offset + 1 <= Len(dest)
        BY <1>1, <1>2, <1>9, <3>1, RecordsInside DEF index
      <3>3. QED
        BY <1>5, <3>2
    <2>4. dest'[index[1].offset + 1] = dest[index[1].offset + 1]
      BY <1>5, <2>3
    <2>5. BlockAt(id, 1)' = BlockAt(id, 1)
      BY <1>6, <2>4 DEF BlockAt, index
    <2>6. QED
      BY <1>3, <1>4, <2>1, <2>2, <2>5
  <1>10. QED
    BY <1>2, <1>3, <1>6, <1>8, <1>9 DEF index

LEMMA ContentAppend ==
    ASSUME ContentInv, NEW id \in ids, NEW data \in Data, AppendContent(id, data)
    PROVE  Kept
  <1> DEFINE n == Len(data)
             cells == ContentBlock(id, n, data)
             old == IndexedContent(dest, ids_info[id])
  <1>1. TypeOK /\ Bookkeeping /\ IndexInv /\ dest \in Seq(Cell) /\ Len(dest) >= 1
    BY DEF ContentInv, IndexInv, TypeInv, TypeOK
  <1>2. data \in Seq(Bytes) /\ n \in Nat /\ id \in Ids
    BY <1>1, DataAssumption DEF TypeOK
  <1>3. /\ state = "OpenedFiles" /\ state' = state /\ RecordOffsetAndSize(id, n)
        /\ HashUpdate(id, data) /\ dest' = dest \o cells
        /\ ids' = ids /\ entries_info' = entries_info /\ damaged' = damaged
    BY DEF AppendContent, FileOpened
  <1>4. /\ cells \in Seq(Cell) /\ Len(cells) = n + 1 /\ cells[1] = EntryContent(id, n)
    BY <1>2, ContentBlockCells
  <1>5. \A k \in 1..Len(cells) : cells[k].kind # "EndOfArchiveData"
    BY <1>2, BlockKinds
  <1>6. cells[1].kind = "EntryContent" /\ cells[1].id = id /\ cells[1].length = n
    BY <1>4 DEF EntryContent
  <1>7. BytesAt(dest', Len(dest) + 2, Len(dest) + 1 + n) = data
    BY <1>1, <1>2, <1>3, BlockBytes
  <1> HIDE DEF cells
  <1>8. hashes'[id] = hashes[id] \o data /\ \A x \in ids \ {id} : hashes'[x] = hashes[x]
    BY <1>1, <1>3 DEF HashUpdate, TypeOK, Bookkeeping
  <1>9. /\ id \in DOMAIN ids_info /\ DOMAIN ids_info' = DOMAIN ids_info
        /\ \A x \in DOMAIN ids_info \ {id} : ids_info'[x] = ids_info[x]
        /\ id \notin damaged =>
              /\ BlockAt(id, 1)' = BlockAt(id, 1)
              /\ IndexedContent(dest', ids_info'[id]) = old \o data
    BY <1>2, <1>3, <1>4, <1>7, BlockAdded
  <1>10. \A x \in DOMAIN ids_info \ {id} :
           x \notin damaged' => /\ HashNow(x)' = IndexedContent(dest', ids_info'[x])
                               /\ HashNow(x)' = HashNow(x)
                               /\ BlockAt(x, 1)' = BlockAt(x, 1)
    BY <1>3, <1>4, <1>8, <1>9, OthersMatch
  <1>11. HashNow(id)' = hashes[id] \o data /\ HashNow(id) = hashes[id]
    BY <1>3, <1>8 DEF HashNow
  <1>12. id \notin damaged => HashNow(id) = old
    BY <1>9 DEF ContentInv, HashesMatch
  <1>13. HashesMatch'
    <2> SUFFICES ASSUME NEW x \in DOMAIN ids_info', x \notin damaged'
                 PROVE  HashNow(x)' = IndexedContent(dest', ids_info'[x])
      BY DEF HashesMatch
    <2>1. CASE x = id
      BY <1>3, <1>9, <1>11, <1>12, <2>1
    <2>2. CASE x # id
      BY <1>9, <1>10, <2>2
    <2>3. QED
      BY <2>1, <2>2
  <1>14. NamesRecorded'
    BY <1>3, <1>9, <1>10, NamesKept
  <1>15. SealShape' /\ Len(dest') >= 1
    BY <1>3, <1>4, <1>5, StillUnsealed
  <1>16. LinearMatches'
    <2> SUFFICES ASSUME damaged' = {}, NEW x \in Ids
                 PROVE  LinearContent(dest', x) =
                          IF x \in DOMAIN ids_info' THEN HashNow(x)' ELSE <<>>
      BY DEF LinearMatches
    <2>1. Len(dest) + Len(cells) = Len(dest) + 1 + n /\ Len(cells) >= 1
          /\ cells[1].length = Len(cells) - 1
      BY <1>1, <1>2, <1>4, <1>6
    <2>2. LinearContent(dest', x) =
            IF cells[1].id = x
            THEN LinearContent(dest, x) \o BytesAt(dest', Len(dest) + 2, Len(dest) + Len(cells))
            ELSE LinearContent(dest, x)
      <3>1. \A p \in 2..Len(dest) :
              dest[p].kind = "EntryContent" => p + dest[p].length <= Len(dest)
        BY <1>1, <1>3, AllWhole
      <3>2. LinearContent(dest \o cells, x) =
              IF cells[1].id = x
              THEN LinearContent(dest, x)
                     \o BytesAt(dest \o cells, Len(dest) + 2, Len(dest) + Len(cells))
              ELSE LinearContent(dest, x)
        BY <1>1, <1>4, <1>6, <2>1, <3>1, LinearBlock
      <3>3. QED
        BY <1>3, <3>2
    <2>3. LinearContent(dest, x) = IF x \in DOMAIN ids_info THEN HashNow(x) ELSE <<>>
      BY <1>3 DEF ContentInv, LinearMatches
    <2>4. CASE x = id
      <3>1. LinearContent(dest', id) = LinearContent(dest, id) \o data
        BY <1>6, <1>7, <2>1, <2>2, <2>4
      <3>2. QED
        BY <1>9, <1>11, <2>3, <2>4, <3>1
    <2>5. CASE x # id
      BY <1>3, <1>6, <1>9, <1>10, <2>2, <2>3, <2>5
    <2>6. QED
      BY <2>4, <2>5
  <1>17. QED
    BY <1>13, <1>14, <1>15, <1>16 DEF Kept

LEMMA ContentEnd ==
    ASSUME ContentInv, NEW id \in ids, EndEntry(id)
    PROVE  Kept
  <1> DEFINE last == EndOfEntry(id, hashes[id])
             cells == <<last>>
             old == IndexedContent(dest, ids_info[id])
  <1>1. TypeOK /\ Bookkeeping /\ IndexInv /\ dest \in Seq(Cell) /\ Len(dest) >= 1
    BY DEF ContentInv, IndexInv, TypeInv, TypeOK
  <1>2. last \in Cell /\ last.kind = "EndOfEntry" /\ last.hash = hashes[id]
    BY <1>1 DEF Cell, EndOfEntry, TypeOK, Bookkeeping
  <1>3. /\ state = "OpenedFiles" /\ state' = state /\ RecordOffsetAndSize(id, 0)
        /\ hashes' = Drop(hashes, id) /\ dest' = Append(dest, last)
        /\ ids' = ids \ {id} /\ entries_info' = entries_info /\ damaged' = damaged
    BY DEF EndEntry, CloseEntry, FileOpened
  <1> HIDE DEF last
  <1>4. /\ cells \in Seq(Cell) /\ Len(cells) = 0 + 1 /\ cells[1] = last
        /\ dest' = dest \o cells
        /\ \A k \in 1..Len(cells) : cells[k] = last
    BY <1>1, <1>2, <1>3
  <1> HIDE DEF cells
  <1>5. \A x \in ids \ {id} : hashes'[x] = hashes[x]
    BY <1>1, <1>3 DEF Drop, Bookkeeping
  <1>6. BytesAt(dest', Len(dest) + 2, Len(dest) + 1 + 0) = <<>>
    <2>1. (Len(dest) + 1 + 0) - (Len(dest) + 2) + 1 = 0
      BY <1>1
    <2>2. QED
      BY <2>1 DEF BytesAt
  <1>7. /\ id \in DOMAIN ids_info /\ DOMAIN ids_info' = DOMAIN ids_info
        /\ \A x \in DOMAIN ids_info \ {id} : ids_info'[x] = ids_info[x]
        /\ Len(ids_info'[id]) = Len(ids_info[id]) + 1
        /\ BlockAt(id, Len(ids_info[id]))' = last
        /\ id \notin damaged =>
              /\ BlockAt(id, 1)' = BlockAt(id, 1)
              /\ old \in Seq(Found)
              /\ IndexedContent(dest', ids_info'[id]) = old \o <<>>
    BY <1>3, <1>4, <1>6, BlockAdded
  <1>8. \A x \in DOMAIN ids_info \ {id} :
           x \notin damaged' => /\ HashNow(x)' = IndexedContent(dest', ids_info'[x])
                               /\ HashNow(x)' = HashNow(x)
                               /\ BlockAt(x, 1)' = BlockAt(x, 1)
    BY <1>3, <1>4, <1>5, <1>7, OthersMatch
  <1>9. HashNow(id)' = hashes[id] /\ HashNow(id) = hashes[id]
    BY <1>2, <1>3, <1>7 DEF HashNow, BlockAt
  <1>10. id \notin damaged => HashNow(id) = old /\ old \o <<>> = old
    BY <1>7 DEF ContentInv, HashesMatch
  <1>11. HashesMatch'
    <2> SUFFICES ASSUME NEW x \in DOMAIN ids_info', x \notin damaged'
                 PROVE  HashNow(x)' = IndexedContent(dest', ids_info'[x])
      BY DEF HashesMatch
    <2>1. CASE x = id
      BY <1>3, <1>7, <1>9, <1>10, <2>1
    <2>2. CASE x # id
      BY <1>7, <1>8, <2>2
    <2>3. QED
      BY <2>1, <2>2
  <1>12. NamesRecorded'
    BY <1>3, <1>7, <1>8, NamesKept
  <1>13. SealShape' /\ Len(dest') >= 1
    BY <1>2, <1>3, <1>4, StillUnsealed
  <1>14. LinearMatches'
    <2> SUFFICES ASSUME damaged' = {}, NEW x \in Ids
                 PROVE  LinearContent(dest', x) =
                          IF x \in DOMAIN ids_info' THEN HashNow(x)' ELSE <<>>
      BY DEF LinearMatches
    <2>1. \A k \in 1..Len(cells) : cells[k].kind # "EntryContent"
      BY <1>2, <1>4
    <2>2. LinearContent(dest \o cells, x) = LinearContent(dest, x)
      BY <1>1, <1>3, <1>4, <2>1, AllWhole, LinearQuiet
    <2>3. LinearContent(dest, x) = IF x \in DOMAIN ids_info THEN HashNow(x) ELSE <<>>
      BY <1>3 DEF ContentInv, LinearMatches
    <2>4. CASE x = id
      BY <1>4, <1>7, <1>9, <2>2, <2>3, <2>4
    <2>5. CASE x # id
      BY <1>3, <1>4, <1>7, <1>8, <2>2, <2>3, <2>5
    <2>6. QED
      BY <2>4, <2>5
  <1>15. QED
    BY <1>11, <1>12, <1>13, <1>14 DEF Kept

LEMMA ContentInvInit == Init => ContentInv
  <1> SUFFICES ASSUME Init PROVE ContentInv
    OBVIOUS
  <1>1. IndexInv
    BY IndexInvInit
  <1>2. /\ dest \in Seq(Cell) /\ Len(dest) = 1 /\ dest[1] = EntriesMagic
        /\ DOMAIN ids_info = {} /\ DOMAIN entries_info = {} /\ state = "OpenedFiles"
    BY <1>1 DEF Init, IndexInv, TypeInv, TypeOK
  <1>3. NamesRecorded /\ HashesMatch
    BY <1>2 DEF NamesRecorded, HashesMatch
  <1>4. SealShape
    BY <1>2 DEF SealShape, EntriesMagic
  <1>5. LinearMatches
    <2> SUFFICES ASSUME NEW x \in Ids PROVE LinearContent(dest, x) = <<>>
      BY <1>2 DEF LinearMatches
    <2>1. PICK f : Suffixes(dest, x, f) /\ LinearContent(dest, x) = f[2]
      BY <1>2, LinearUnfold
    <2>2. QED
      BY <1>2, <2>1 DEF Suffixes
  <1>6. QED
    BY <1>1, <1>2, <1>3, <1>4, <1>5 DEF ContentInv

LEMMA ContentInvNext == ContentInv /\ [Next]_vars => ContentInv'
  <1> SUFFICES ASSUME ContentInv, [Next]_vars PROVE ContentInv'
    OBVIOUS
  <1>1. IndexInv /\ IndexInv'
    BY IndexInvNext DEF ContentInv
  <1>2. Kept
    BY <1>1, StepKinds, ContentStart, ContentStartFails, ContentAppend, ContentEnd,
       ContentSpoils, ContentFinalize, ContentLoses, ContentUnchanged
  <1>3. QED
    BY <1>1, <1>2 DEF ContentInv, Kept

\* The hash of every entry whose own calls succeeded is the hash of its
\* content, read through the index or, while no call failed, block by block.
THEOREM ContentsVerify == Spec => []ContentVerifies
  <1>1. Init => ContentInv
    BY ContentInvInit
  <1>2. ContentInv /\ [Next]_vars => ContentInv'
    BY ContentInvNext
  <1>3. ContentInv => ContentVerifies
    <2> SUFFICES ASSUME ContentInv, NEW id \in DOMAIN ids_info, id \notin damaged
                 PROVE  /\ HashNow(id) = IndexedContent(dest, ids_info[id])
                        /\ damaged = {} => HashNow(id) = LinearContent(dest, id)
      BY DEF ContentVerifies, HashNow
    <2>1. id \in Ids
      BY DEF ContentInv, IndexInv, TypeInv, TypeOK
    <2>2. QED
      BY <2>1 DEF ContentInv, HashesMatch, LinearMatches
  <1>4. QED
    BY <1>1, <1>2, <1>3, PTL DEF Spec

\* finalize leaves a footer that lists, for every entry whose calls succeeded,
\* the entry's own EntryStart first and its EndOfEntry last, after the only
\* EndOfArchiveData.
THEOREM SealedIsComplete == Spec => []SealedComplete
  <1>1. Init => ContentInv
    BY ContentInvInit
  <1>2. ContentInv /\ [Next]_vars => ContentInv'
    BY ContentInvNext
  <1>3. ContentInv => SealedComplete
    <2> SUFFICES ASSUME ContentInv, state = "Finalized" PROVE SealedComplete
      BY DEF SealedComplete
    <2> DEFINE last == Len(dest)
    <2>1. /\ ids = {} /\ last >= 2 /\ dest[last] = ArchiveFooter(FooterIndex)
          /\ \A p \in 1..last : dest[p].kind = "EndOfArchiveData" <=> p = last - 1
          /\ last \in Nat
      BY DEF ContentInv, SealShape, IndexInv, TypeInv, TypeOK
    <2>2. dest[last].kind = "ArchiveFooter" /\ dest[last].index = FooterIndex
      BY <2>1 DEF ArchiveFooter
    <2>3. {p \in 1..last : dest[p].kind = "EndOfArchiveData"} = {last - 1}
      BY <2>1
    <2>4. ASSUME NEW n \in DOMAIN entries_info, entries_info[n] \notin damaged
          PROVE  LET index == FooterIndex[n]
                     block(i) == dest[index[i].offset + 1]
                 IN  /\ Len(index) >= 2
                     /\ block(1) = EntryStart(n, entries_info[n])
                     /\ block(Len(index)).kind = "EndOfEntry"
                     /\ block(Len(index)).id = entries_info[n]
      <3> DEFINE id == entries_info[n]
                 index == ids_info[id]
      <3>1. id \in DOMAIN ids_info /\ n \in Names /\ index \in Seq(IndexRecord)
            /\ Len(index) >= 1
        BY DEF ContentInv, IndexInv, TypeInv, TypeOK, Bookkeeping, IndexNonempty
      <3>2. FooterIndex[n] = index
        BY <3>1 DEF FooterIndex
      <3>3. dest[index[1].offset + 1] = EntryStart(n, id)
        BY <2>4 DEF ContentInv, NamesRecorded, BlockAt
      <3>4. RecordsPoint(id) /\ Len(index) \in DOMAIN index /\ 1 \in DOMAIN index
        BY <2>4, <3>1 DEF ContentInv, IndexInv, IndexFaithful
      <3>5. LET block == dest[index[Len(index)].offset + 1]
            IN  block.kind = "EndOfEntry" /\ block.id = id
        BY <2>1, <3>4 DEF RecordsPoint, BlockAt, BlocksOf
      <3>6. Len(index) # 1
        BY <3>3, <3>5 DEF EntryStart
      <3>7. Len(index) >= 2
        <4>1. Len(index) \in Nat /\ Len(index) >= 1
          BY <3>1
        <4>2. \A k \in Nat : k >= 1 /\ k # 1 => k >= 2
          OBVIOUS
        <4> HIDE DEF id, index
        <4>3. QED
          BY <3>6, <4>1, <4>2
      <3> HIDE DEF id, index
      <3>8. QED
        BY <3>2, <3>3, <3>5, <3>7 DEF id
    <2>5. QED
      BY <2>2, <2>3, <2>4 DEF SealedComplete
  <1>4. QED
    BY <1>1, <1>2, <1>3, PTL DEF Spec

-----------------------------------------------------------------------------
(***************************************************************************)
(* The contract.  Through the invariant, the status of a name is whether   *)
(* its id is open or damaged, and its content is its hash.                 *)
(***************************************************************************)
StatusOf(n) ==
    IF state = "Dropped" \/ n \notin DOMAIN entries_info THEN "absent"
    ELSE IF entries_info[n] \in damaged THEN "spoiled"
    ELSE IF entries_info[n] \in ids THEN "open" ELSE "closed"

ContentOf(n) == IF Promised(n) THEN HashNow(entries_info[n]) ELSE <<>>

LEMMA ViewNow ==
    ASSUME ContentInv, NEW n \in Names
    PROVE  StatusNow(n) = StatusOf(n) /\ ContentNow(n) = ContentOf(n)
  <1>1. CASE ~Promised(n)
    BY <1>1 DEF StatusNow, StatusOf, ContentNow, ContentOf, Promised
  <1>2. CASE Promised(n)
    <2> DEFINE id == entries_info[n]
               index == ids_info[id]
    <2>1. /\ state # "Dropped" /\ n \in DOMAIN entries_info /\ id \notin damaged
      BY <1>2 DEF Promised
    <2>2. /\ id \in DOMAIN ids_info /\ index \in Seq(IndexRecord) /\ Len(index) >= 1
      BY <2>1 DEF ContentInv, IndexInv, TypeInv, TypeOK, Bookkeeping, IndexNonempty
    <2>3. IndexNow = FooterIndex
      BY DEF IndexNow, ContentInv, SealShape, ArchiveFooter
    <2>4. IndexNow[n] = index
      BY <2>1, <2>3 DEF FooterIndex
    <2>5. RecordsPoint(id) /\ Len(index) \in DOMAIN index
      BY <2>1, <2>2 DEF ContentInv, IndexInv, IndexFaithful
    <2>6. dest[index[Len(index)].offset + 1].kind = "EndOfEntry" <=> id \notin ids
      BY <2>5 DEF RecordsPoint, BlockAt
    <2>7. StatusNow(n) = StatusOf(n)
      <3> HIDE DEF index
      <3>1. QED
        BY <2>1, <2>4, <2>6 DEF StatusNow, StatusOf
    <2>8. HashNow(id) = IndexedContent(dest, index)
      BY <2>1, <2>2 DEF ContentInv, HashesMatch
    <2>9. ContentNow(n) = ContentOf(n)
      <3> HIDE DEF index
      <3>1. QED
        BY <1>2, <2>4, <2>8 DEF ContentNow, ContentOf
    <2>10. QED
      BY <2>7, <2>9
  <1>3. QED
    BY <1>1, <1>2

\* A name keeps its status and content when a step is about another entry, or
\* about an entry already damaged.
LEMMA NameUntouched ==
    ASSUME ContentInv, NEW id, NEW cells \in Seq(Cell), dest' = dest \o cells,
           \A x \in DOMAIN ids_info \ {id} :
              /\ ids_info'[x] = ids_info[x]
              /\ x \in ids' <=> x \in ids
              /\ x \in ids => hashes'[x] = hashes[x],
           damaged' \in {damaged, damaged \cup {id}},
           state' = "Dropped" <=> state = "Dropped",
           NEW n, n \in DOMAIN entries_info' <=> n \in DOMAIN entries_info,
           n \in DOMAIN entries_info =>
              /\ entries_info'[n] = entries_info[n]
              /\ entries_info[n] # id \/ id \in damaged
    PROVE  StatusOf(n)' = StatusOf(n) /\ ContentOf(n)' = ContentOf(n)
  <1>1. CASE n \notin DOMAIN entries_info
    BY <1>1 DEF StatusOf, ContentOf, Promised
  <1>2. CASE n \in DOMAIN entries_info /\ entries_info[n] \in damaged
    BY <1>2 DEF StatusOf, ContentOf, Promised
  <1>3. CASE n \in DOMAIN entries_info /\ entries_info[n] \notin damaged
    <2> DEFINE x == entries_info[n]
    <2>1. x \in DOMAIN ids_info \ {id}
      BY <1>3 DEF ContentInv, IndexInv, TypeInv, Bookkeeping
    <2>2. x \notin damaged' /\ entries_info'[n] = x /\ n \in DOMAIN entries_info'
      BY <1>3, <2>1
    <2>3. \A y : y = x => HashNow(y)' = HashNow(y)
      BY <2>1, <2>2, OthersMatch
    <2>4. HashNow(entries_info[n])' = HashNow(entries_info[n])
      BY <2>2, <2>3 DEF HashNow, BlockAt
    <2>5. Promised(n)' <=> Promised(n)
      BY <1>3, <2>2 DEF Promised
    <2>6. ContentOf(n)' = ContentOf(n)
      BY <2>4, <2>5 DEF ContentOf
    <2>7. StatusOf(n)' = StatusOf(n)
      BY <1>3, <2>1, <2>2 DEF StatusOf
    <2>8. QED
      BY <2>6, <2>7
  <1>4. QED
    BY <1>1, <1>2, <1>3

\* Two names never share an undamaged entry.
LEMMA NamesDiffer ==
    ASSUME ContentInv, NEW n \in DOMAIN entries_info, NEW m \in DOMAIN entries_info,
           entries_info[n] = entries_info[m], entries_info[n] \notin damaged
    PROVE  n = m
  <1>1. EntryStart(n, entries_info[n]) = EntryStart(m, entries_info[m])
    BY DEF ContentInv, NamesRecorded
  <1>2. EntryStart(n, entries_info[n]).name = EntryStart(m, entries_info[m]).name
    BY <1>1
  <1>3. QED
    BY <1>2 DEF EntryStart

Statuses == [n \in Names |-> StatusOf(n)]
Contents == [n \in Names |-> ContentOf(n)]

\* The contract on the simpler view.
View == INSTANCE ArchiveContract WITH
    phase <- PhaseNow, status <- Statuses, content <- Contents

\* The two views of the contract are the same.
SameView ==
    /\ [n \in Names |-> StatusNow(n)] = Statuses
    /\ [n \in Names |-> ContentNow(n)] = Contents

LEMMA ViewsAgree == ContentInv => SameView
  BY ViewNow DEF SameView, Statuses, Contents

\* A step about the entry of one name, or about no name, changes the view at
\* that name only.
LEMMA ViewStep ==
    ASSUME ContentInv, NEW id \in DOMAIN ids_info, NEW cells \in Seq(Cell),
           dest' = dest \o cells,
           \A x \in DOMAIN ids_info \ {id} :
              /\ ids_info'[x] = ids_info[x]
              /\ x \in ids' <=> x \in ids
              /\ x \in ids => hashes'[x] = hashes[x],
           damaged' \in {damaged, damaged \cup {id}},
           state = "OpenedFiles", UNCHANGED <<state, entries_info>>
    PROVE  \/ UNCHANGED <<PhaseNow, Statuses, Contents>>
           \/ \E n \in Names :
                 /\ n \in DOMAIN entries_info /\ entries_info[n] = id /\ id \notin damaged
                 /\ PhaseNow' = PhaseNow
                 /\ Statuses' = [Statuses EXCEPT ![n] = StatusOf(n)']
                 /\ Contents' = [Contents EXCEPT ![n] = ContentOf(n)']
  <1>1. PhaseNow' = PhaseNow
    BY DEF PhaseNow
  <1>2. CASE id \in damaged \/ \A n \in DOMAIN entries_info : entries_info[n] # id
    <2>1. \A n \in Names : StatusOf(n)' = StatusOf(n) /\ ContentOf(n)' = ContentOf(n)
      BY <1>2, NameUntouched
    <2>2. QED
      BY <1>1, <2>1 DEF Statuses, Contents
  <1>3. CASE id \notin damaged /\ \E n \in DOMAIN entries_info : entries_info[n] = id
    <2>1. PICK n \in DOMAIN entries_info : entries_info[n] = id
      BY <1>3
    <2>2. n \in Names
      BY DEF ContentInv, IndexInv, TypeInv, TypeOK
    <2>3. \A m \in DOMAIN entries_info : m # n => entries_info[m] # id
      BY <1>3, <2>1, NamesDiffer
    <2>4. \A m \in Names : m # n =>
             StatusOf(m)' = StatusOf(m) /\ ContentOf(m)' = ContentOf(m)
      BY <2>3, NameUntouched
    <2>5. /\ Statuses' = [Statuses EXCEPT ![n] = StatusOf(n)']
          /\ Contents' = [Contents EXCEPT ![n] = ContentOf(n)']
      BY <2>2, <2>4 DEF Statuses, Contents
    <2>6. QED
      BY <1>1, <1>3, <2>1, <2>2, <2>5
  <1>4. QED
    BY <1>2, <1>3

\* The same for the name of an entry just reserved.
LEMMA ViewReserved ==
    ASSUME ContentInv, NEW name \in Names, ReserveEntry(name), state' = state,
           NEW cells \in Seq(Cell), dest' = dest \o cells,
           \A x \in DOMAIN ids_info :
              (x \in ids' <=> x \in ids) /\ (x \in ids => hashes'[x] = hashes[x]),
           damaged' \in {damaged, damaged \cup {next_id}}
    PROVE  /\ PhaseNow = "writing" /\ PhaseNow' = PhaseNow
           /\ Statuses[name] = "absent" /\ Contents[name] = <<>>
           /\ Statuses' = [Statuses EXCEPT ![name] = StatusOf(name)']
           /\ Contents' = [Contents EXCEPT ![name] = ContentOf(name)']
  <1>1. /\ state = "OpenedFiles" /\ next_id \notin DOMAIN ids_info
        /\ \A x \in DOMAIN ids_info : ids_info'[x] = ids_info[x]
        /\ name \notin DOMAIN entries_info
        /\ DOMAIN entries_info' = DOMAIN entries_info \cup {name}
        /\ \A n \in DOMAIN entries_info :
              entries_info'[n] = entries_info[n] /\ entries_info[n] \in DOMAIN ids_info
    BY ReserveFacts
  <1>2. PhaseNow = "writing" /\ PhaseNow' = PhaseNow
    BY <1>1 DEF PhaseNow
  <1>3. Statuses[name] = "absent" /\ Contents[name] = <<>>
    BY <1>1 DEF Statuses, Contents, StatusOf, ContentOf, Promised
  <1>4. ASSUME NEW m \in Names, m # name
        PROVE  StatusOf(m)' = StatusOf(m) /\ ContentOf(m)' = ContentOf(m)
    <2>1. m \in DOMAIN entries_info' <=> m \in DOMAIN entries_info
      BY <1>1, <1>4
    <2>2. m \in DOMAIN entries_info =>
             entries_info'[m] = entries_info[m] /\ entries_info[m] # next_id
      BY <1>1
    <2>3. \A x \in DOMAIN ids_info \ {next_id} :
              /\ ids_info'[x] = ids_info[x]
              /\ x \in ids' <=> x \in ids
              /\ x \in ids => hashes'[x] = hashes[x]
      BY <1>1
    <2>4. QED
      BY <1>1, <2>1, <2>2, <2>3, NameUntouched
  <1>5. /\ Statuses' = [Statuses EXCEPT ![name] = StatusOf(name)']
        /\ Contents' = [Contents EXCEPT ![name] = ContentOf(name)']
    BY <1>4 DEF Statuses, Contents
  <1>6. QED
    BY <1>2, <1>3, <1>5

\* Every step of the writer is a step of the contract, or changes nothing of it.
LEMMA ViewNext ==
    ASSUME ContentInv, ContentInv', [Next]_vars
    PROVE  View!AbsNext \/ UNCHANGED <<PhaseNow, Statuses, Contents>>
  <1>1. IndexInv /\ TypeOK /\ Bookkeeping
    BY DEF ContentInv, IndexInv, TypeInv
  <1>2. ASSUME NEW name \in Names, StartEntry(name) PROVE View!AbsNext
    <2> DEFINE start == EntryStart(name, next_id)
               cells == <<start>>
    <2>1. next_id \in Ids /\ start \in Cell
      BY <1>1 DEF TypeOK, Cell, EntryStart
    <2>2. /\ ReserveEntry(name) /\ state' = state /\ ids' = ids \cup {next_id}
          /\ hashes' = Put(hashes, next_id, <<>>) /\ damaged' = damaged
          /\ dest' = Append(dest, start)
      BY <1>2 DEF StartEntry
    <2> HIDE DEF start
    <2>3. cells \in Seq(Cell) /\ dest' = dest \o cells
      BY <1>1, <2>1, <2>2 DEF TypeOK
    <2> HIDE DEF cells
    <2>4. /\ state = "OpenedFiles" /\ next_id \notin DOMAIN ids_info
          /\ next_id \notin damaged /\ next_id \notin ids
          /\ name \in DOMAIN entries_info' /\ entries_info'[name] = next_id
      BY <2>2, <2>3, ReserveFacts
    <2>5. /\ \A x \in DOMAIN ids_info :
               (x \in ids' <=> x \in ids) /\ (x \in ids => hashes'[x] = hashes[x])
          /\ hashes'[next_id] = <<>>
      BY <1>1, <2>2, <2>4 DEF Put, Bookkeeping
    <2>6. /\ PhaseNow = "writing" /\ PhaseNow' = PhaseNow
          /\ Statuses[name] = "absent" /\ Contents[name] = <<>>
          /\ Statuses' = [Statuses EXCEPT ![name] = StatusOf(name)']
          /\ Contents' = [Contents EXCEPT ![name] = ContentOf(name)']
      BY <2>2, <2>3, <2>5, ViewReserved
    <2>7. StatusOf(name)' = "open" /\ ContentOf(name)' = <<>>
      BY <2>2, <2>4, <2>5 DEF StatusOf, ContentOf, Promised, HashNow
    <2>8. Contents' = Contents
      BY <2>6, <2>7 DEF Contents
    <2>9. View!AbsStart(name)
      BY <2>6, <2>7, <2>8 DEF View!AbsStart
    <2>10. QED
      BY <2>9 DEF View!AbsNext
  <1>3. ASSUME NEW name \in Names, StartEntryFails(name) PROVE View!AbsNext
    <2>1. PICK torn \in TornWrites : dest' = dest \o torn
      BY <1>3 DEF StartEntryFails
    <2>2. torn \in Seq(Cell)
      BY TornCells
    <2>3. /\ ReserveEntry(name) /\ state' = state /\ ids' = ids /\ hashes' = hashes
          /\ damaged' = damaged \cup {next_id}
      BY <1>3 DEF StartEntryFails, Fault
    <2>4. /\ state = "OpenedFiles"
          /\ name \in DOMAIN entries_info' /\ entries_info'[name] = next_id
      BY <2>1, <2>2, <2>3, ReserveFacts
    <2>5. /\ PhaseNow = "writing" /\ PhaseNow' = PhaseNow
          /\ Statuses[name] = "absent"
          /\ Statuses' = [Statuses EXCEPT ![name] = StatusOf(name)']
          /\ Contents' = [Contents EXCEPT ![name] = ContentOf(name)']
      BY <2>1, <2>2, <2>3, ViewReserved
    <2>6. StatusOf(name)' = "spoiled" /\ ContentOf(name)' = <<>>
      BY <2>3, <2>4 DEF StatusOf, ContentOf, Promised
    <2>7. View!AbsSpoil(name)
      BY <2>5, <2>6 DEF View!AbsSpoil
    <2>8. QED
      BY <2>7 DEF View!AbsNext
  <1>4. ASSUME NEW id \in ids, NEW data \in Data, AppendContent(id, data)
        PROVE  View!AbsNext \/ UNCHANGED <<PhaseNow, Statuses, Contents>>
    <2> DEFINE cells == ContentBlock(id, Len(data), data)
    <2>1. /\ state = "OpenedFiles" /\ UNCHANGED <<state, entries_info>>
          /\ RecordOffsetAndSize(id, Len(data)) /\ HashUpdate(id, data)
          /\ dest' = dest \o cells /\ ids' = ids /\ damaged' = damaged
      BY <1>4 DEF AppendContent, FileOpened
    <2>2. id \in Ids /\ id \in DOMAIN ids_info /\ Len(data) \in Nat /\ data \in Seq(Bytes)
      BY <1>1, DataAssumption DEF TypeOK, Bookkeeping
    <2>3. cells \in Seq(Cell)
      BY <2>2, ContentBlockCells
    <2>4. \A x \in DOMAIN ids_info \ {id} : ids_info'[x] = ids_info[x]
      BY <1>1, <2>1, <2>2, RecordType
    <2>5. hashes'[id] = hashes[id] \o data /\ \A x \in ids \ {id} : hashes'[x] = hashes[x]
      BY <1>1, <2>1 DEF HashUpdate, TypeOK, Bookkeeping
    <2> HIDE DEF cells
    <2>6. CASE UNCHANGED <<PhaseNow, Statuses, Contents>>
      BY <2>6
    <2>7. CASE \E n \in Names :
                 /\ n \in DOMAIN entries_info /\ entries_info[n] = id /\ id \notin damaged
                 /\ PhaseNow' = PhaseNow
                 /\ Statuses' = [Statuses EXCEPT ![n] = StatusOf(n)']
                 /\ Contents' = [Contents EXCEPT ![n] = ContentOf(n)']
      <3>1. PICK n \in Names :
                 /\ n \in DOMAIN entries_info /\ entries_info[n] = id /\ id \notin damaged
                 /\ PhaseNow' = PhaseNow
                 /\ Statuses' = [Statuses EXCEPT ![n] = StatusOf(n)']
                 /\ Contents' = [Contents EXCEPT ![n] = ContentOf(n)']
        BY <2>7
      <3>2. StatusOf(n) = "open" /\ StatusOf(n)' = "open" /\ PhaseNow = "writing"
        BY <2>1, <3>1 DEF StatusOf, PhaseNow
      <3>3. ContentOf(n) = hashes[id] /\ ContentOf(n)' = hashes[id] \o data
        BY <2>1, <2>5, <3>1 DEF ContentOf, Promised, HashNow
      <3>4. Statuses[n] = "open" /\ Contents[n] = hashes[id] /\ Statuses' = Statuses
        BY <3>1, <3>2, <3>3 DEF Statuses, Contents
      <3>5. Contents' = [Contents EXCEPT ![n] = Contents[n] \o data]
        BY <3>1, <3>3, <3>4
      <3>6. View!AbsAppend(n, data)
        BY <3>1, <3>2, <3>4, <3>5 DEF View!AbsAppend
      <3>7. QED
        BY <3>6 DEF View!AbsNext
    <2>8. QED
      BY <2>1, <2>2, <2>3, <2>4, <2>5, <2>6, <2>7, ViewStep
  <1>5. ASSUME NEW id \in ids, EndEntry(id)
        PROVE  View!AbsNext \/ UNCHANGED <<PhaseNow, Statuses, Contents>>
    <2> DEFINE last == EndOfEntry(id, hashes[id])
               cells == <<last>>
    <2>1. last \in Cell /\ last.hash = hashes[id] /\ id \in DOMAIN ids_info
      BY <1>1 DEF Cell, EndOfEntry, TypeOK, Bookkeeping
    <2>2. /\ state = "OpenedFiles" /\ UNCHANGED <<state, entries_info>>
          /\ RecordOffsetAndSize(id, 0) /\ hashes' = Drop(hashes, id)
          /\ dest' = Append(dest, last) /\ ids' = ids \ {id} /\ damaged' = damaged
      BY <1>5 DEF EndEntry, CloseEntry, FileOpened
    <2> HIDE DEF last
    <2>3. /\ cells \in Seq(Cell) /\ dest' = dest \o cells /\ Len(cells) = 0 + 1
          /\ cells[1] = last
      BY <1>1, <2>1, <2>2 DEF TypeOK
    <2> HIDE DEF cells
    <2>4. /\ \A x \in DOMAIN ids_info \ {id} : ids_info'[x] = ids_info[x]
          /\ BlockAt(id, Len(ids_info[id]))' = last
      BY <2>2, <2>3, BlockAdded
    <2>5. \A x \in ids \ {id} : hashes'[x] = hashes[x]
      BY <1>1, <2>2 DEF Drop, Bookkeeping
    <2>6. HashNow(id)' = hashes[id] /\ HashNow(id) = hashes[id]
      BY <2>1, <2>2, <2>4 DEF HashNow
    <2>7. CASE UNCHANGED <<PhaseNow, Statuses, Contents>>
      BY <2>7
    <2>8. CASE \E n \in Names :
                 /\ n \in DOMAIN entries_info /\ entries_info[n] = id /\ id \notin damaged
                 /\ PhaseNow' = PhaseNow
                 /\ Statuses' = [Statuses EXCEPT ![n] = StatusOf(n)']
                 /\ Contents' = [Contents EXCEPT ![n] = ContentOf(n)']
      <3>1. PICK n \in Names :
                 /\ n \in DOMAIN entries_info /\ entries_info[n] = id /\ id \notin damaged
                 /\ PhaseNow' = PhaseNow
                 /\ Statuses' = [Statuses EXCEPT ![n] = StatusOf(n)']
                 /\ Contents' = [Contents EXCEPT ![n] = ContentOf(n)']
        BY <2>8
      <3>2. StatusOf(n) = "open" /\ StatusOf(n)' = "closed" /\ PhaseNow = "writing"
        BY <2>2, <3>1 DEF StatusOf, PhaseNow
      <3>3. HashNow(entries_info[n])' = HashNow(entries_info[n])
        BY <2>2, <2>6, <3>1 DEF HashNow, BlockAt
      <3>4. ContentOf(n)' = ContentOf(n)
        BY <2>2, <3>1, <3>3 DEF ContentOf, Promised
      <3>5. Statuses[n] = "open" /\ Contents' = Contents
        BY <3>1, <3>2, <3>4 DEF Statuses, Contents
      <3>6. View!AbsEnd(n)
        BY <3>1, <3>2, <3>5 DEF View!AbsEnd
      <3>7. QED
        BY <3>6 DEF View!AbsNext
    <2>9. QED
      BY <2>1, <2>2, <2>3, <2>4, <2>5, <2>7, <2>8, ViewStep
  <1>6. ASSUME NEW id \in ids, NEW cells \in Seq(Cell), Spoils(id, cells)
        PROVE  View!AbsNext \/ UNCHANGED <<PhaseNow, Statuses, Contents>>
    <2>1. /\ state = "OpenedFiles" /\ UNCHANGED <<state, entries_info>>
          /\ dest' = dest \o cells
          /\ \A x \in DOMAIN ids_info \ {id} :
                /\ ids_info'[x] = ids_info[x]
                /\ x \in ids' <=> x \in ids
                /\ x \in ids => hashes'[x] = hashes[x]
          /\ damaged' = damaged \cup {id}
      BY <1>6 DEF Spoils
    <2>2. id \in DOMAIN ids_info
      BY <1>1 DEF Bookkeeping
    <2>3. CASE UNCHANGED <<PhaseNow, Statuses, Contents>>
      BY <2>3
    <2>4. CASE \E n \in Names :
                 /\ n \in DOMAIN entries_info /\ entries_info[n] = id /\ id \notin damaged
                 /\ PhaseNow' = PhaseNow
                 /\ Statuses' = [Statuses EXCEPT ![n] = StatusOf(n)']
                 /\ Contents' = [Contents EXCEPT ![n] = ContentOf(n)']
      <3>1. PICK n \in Names :
                 /\ n \in DOMAIN entries_info /\ entries_info[n] = id /\ id \notin damaged
                 /\ PhaseNow' = PhaseNow
                 /\ Statuses' = [Statuses EXCEPT ![n] = StatusOf(n)']
                 /\ Contents' = [Contents EXCEPT ![n] = ContentOf(n)']
        BY <2>4
      <3>2. StatusOf(n) = "open" /\ StatusOf(n)' = "spoiled" /\ PhaseNow = "writing"
        BY <2>1, <3>1 DEF StatusOf, PhaseNow
      <3>3. ContentOf(n)' = <<>>
        BY <2>1, <3>1 DEF ContentOf, Promised
      <3>4. Statuses[n] = "open"
        BY <3>1, <3>2 DEF Statuses
      <3>5. View!AbsSpoil(n)
        BY <3>1, <3>2, <3>3, <3>4 DEF View!AbsSpoil
      <3>6. QED
        BY <3>5 DEF View!AbsNext
    <2>5. QED
      BY <2>1, <2>2, <2>3, <2>4, ViewStep
  <1>7. CASE Finalize
    <2> DEFINE tail == <<EndOfArchiveData, ArchiveFooter(FooterIndex)>>
    <2>1. /\ state = "OpenedFiles" /\ ids = {} /\ state' = "Finalized" /\ dest' = dest \o tail
          /\ UNCHANGED <<ids, hashes, entries_info, ids_info, damaged>>
      BY <1>7 DEF Finalize, StillOpen
    <2>2. tail \in Seq(Cell)
      <3>1. FooterIndex \in [Names -> Seq(IndexRecord)]
        BY <1>1 DEF FooterIndex, TypeOK, Bookkeeping
      <3>2. EndOfArchiveData \in Cell /\ ArchiveFooter(FooterIndex) \in Cell
        BY <3>1 DEF Cell, ArchiveFooter
      <3>3. QED
        BY <3>2
    <2> HIDE DEF tail
    <2>3. MaxId + 1 \notin DOMAIN ids_info
      BY <1>1, MaxIdAssumption DEF TypeOK, Ids
    <2>4. PICK none : none \notin DOMAIN ids_info
      BY <2>3
    <2>5. ASSUME NEW n \in Names
          PROVE  StatusOf(n)' = StatusOf(n) /\ ContentOf(n)' = ContentOf(n)
      <3>1. n \in DOMAIN entries_info => entries_info[n] # none
        BY <1>1, <2>4 DEF Bookkeeping
      <3>2. QED
        BY <2>1, <2>2, <3>1, NameUntouched
    <2>6. Statuses' = Statuses /\ Contents' = Contents
      BY <2>5 DEF Statuses, Contents
    <2>7. \A n \in Names : Statuses[n] # "open"
      BY <2>1 DEF Statuses, StatusOf
    <2>8. PhaseNow = "writing" /\ PhaseNow' = "sealed"
      BY <2>1 DEF PhaseNow
    <2>9. View!AbsSeal
      BY <2>6, <2>7, <2>8 DEF View!AbsSeal
    <2>10. QED
      BY <2>9 DEF View!AbsNext
  <1>8. ASSUME NEW cells \in Seq(Cell), Loses(cells) PROVE View!AbsNext
    <2>1. state = "OpenedFiles" /\ state' = "Dropped"
      BY <1>8 DEF Loses
    <2>2. \A n \in Names : StatusOf(n)' = "absent" /\ ContentOf(n)' = <<>>
      BY <2>1 DEF StatusOf, ContentOf, Promised
    <2>3. PhaseNow = "writing" /\ PhaseNow' = "lost"
      BY <2>1 DEF PhaseNow
    <2>4. /\ Statuses' = [n \in Names |-> "absent"]
          /\ Contents' = [n \in Names |-> <<>>]
      BY <2>2 DEF Statuses, Contents
    <2>5. View!AbsLose
      BY <2>3, <2>4 DEF View!AbsLose
    <2>6. QED
      BY <2>5 DEF View!AbsNext
  <1>9. CASE UNCHANGED vars
    BY <1>9 DEF vars, PhaseNow, Statuses, Contents, StatusOf, ContentOf, Promised,
                HashNow, BlockAt
  <1>10. QED
    BY <1>1, <1>2, <1>3, <1>4, <1>5, <1>6, <1>7, <1>8, <1>9, StepKinds

\* The writer implements the contract: seen through the index, every call
\* changes the map from names to contents as promised, and a failed call
\* spoils its own entry only.
THEOREM WriterImplementsContract == Spec => ArchiveRefinesContract
  <1>1. Init => ContentInv
    BY ContentInvInit
  <1>2. ContentInv /\ [Next]_vars => ContentInv'
    BY ContentInvNext
  <1>3. Init => Contract!AbsInit
    <2> SUFFICES ASSUME Init PROVE Contract!AbsInit
      OBVIOUS
    <2>1. state = "OpenedFiles" /\ DOMAIN entries_info = {}
      BY DEF Init
    <2>2. /\ PhaseNow = "writing"
          /\ \A n \in Names : StatusNow(n) = "absent" /\ ContentNow(n) = <<>>
      BY <2>1 DEF PhaseNow, StatusNow, ContentNow, Promised
    <2>3. QED
      BY <2>2 DEF Contract!AbsInit
  <1>4. ContentInv => SameView
    BY ViewsAgree
  <1>5. ContentInv /\ ContentInv' /\ SameView /\ SameView' /\ [Next]_vars =>
           [Contract!AbsNext]_(Contract!absVars)
    <2> SUFFICES ASSUME ContentInv, ContentInv', SameView, SameView', [Next]_vars
                 PROVE  [Contract!AbsNext]_(Contract!absVars)
      OBVIOUS
    <2>1. /\ [n \in Names |-> StatusNow(n)] = Statuses
          /\ [n \in Names |-> ContentNow(n)] = Contents
      BY DEF SameView
    <2>2. /\ [n \in Names |-> StatusNow(n)'] = Statuses'
          /\ [n \in Names |-> ContentNow(n)'] = Contents'
      BY DEF SameView
    <2>3. View!AbsNext \/ UNCHANGED <<PhaseNow, Statuses, Contents>>
      BY ViewNext
    <2>4. CASE View!AbsNext
      BY <2>1, <2>2, <2>4
         DEF View!AbsNext, View!AbsStart, View!AbsAppend, View!AbsEnd, View!AbsSpoil,
             View!AbsSeal, View!AbsLose, Contract!AbsNext, Contract!AbsStart,
             Contract!AbsAppend, Contract!AbsEnd, Contract!AbsSpoil, Contract!AbsSeal,
             Contract!AbsLose
    <2>5. CASE UNCHANGED <<PhaseNow, Statuses, Contents>>
      BY <2>1, <2>2, <2>5 DEF Contract!absVars
    <2>6. QED
      BY <2>3, <2>4, <2>5
  <1>6. QED
    BY <1>1, <1>2, <1>3, <1>4, <1>5, PTL DEF Spec, ArchiveRefinesContract, Contract!AbsSpec
===============================================================================
