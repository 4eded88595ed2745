------------------------- MODULE ConvertTruncatedProofs -------------------------
(***************************************************************************)
(* Proofs about convert_to_archive.                                        *)
(*                                                                         *)
(* Every step of the conversion is a step of its output, an ArchiveWriter, *)
(* or leaves it alone (OutputIsAnArchive): what was proved of the writer   *)
(* holds of the output. Copied, the hashes the output keeps of its         *)
(* entries, is then all that has to be compared with what the source sent: *)
(* ContentInv turns a hash into the content that the index gives.          *)
(***************************************************************************)
EXTENDS ConvertTruncated, ArchiveContentProofs

ConvertNext == Works \/ Breaks \/ Returned

LEMMA ConvertStepsOutput == [ConvertNext]_<<vars, convertVars>> => [Next]_vars
  <1> SUFFICES ASSUME [ConvertNext]_<<vars, convertVars>> PROVE [Next]_vars
    OBVIOUS
  <1> USE DEF Next
  <1>1. CASE UNCHANGED <<vars, convertVars>>
    BY <1>1
  <1>2. ASSUME NEW o, NEW data \in Data \cup {<<>>}, Append0(o, data)
        PROVE  [Next]_vars
    <2>1. CASE data = <<>>
      BY <1>2, <2>1 DEF Append0
    <2>2. CASE data # <<>>
      <3>1. AppendContent(o, data) /\ data \in Data
        BY <1>2, <2>2 DEF Append0
      <3>2. o \in ids
        BY <3>1 DEF AppendContent, FileOpened
      <3>3. QED
        BY <3>1, <3>2
    <2>3. QED
      BY <2>1, <2>2
  <1>3. ASSUME NEW o, EndEntry(o) \/ EndEntryFails(o)
        PROVE  [Next]_vars
    <2>1. o \in ids
      BY <1>3 DEF EndEntry, EndEntryFails, CloseEntry, FileOpened
    <2>2. QED
      BY <1>3, <2>1
  <1>4. ASSUME NEW id \in SourceIds, ReadBlock(id) \/ CloseUnfinished(id)
        PROVE  [Next]_vars
    <2>1. ASSUME NEW name \in Names, CopyStart(id, name) \/ StartRefused(id, name)
          PROVE  [Next]_vars
      BY <2>1 DEF CopyStart, StartRefused
    <2>2. CASE ContentRefused(id) \/ EndRefused(id)
      BY <2>2 DEF ContentRefused, EndRefused, BlockRefused
    <2>3. ASSUME NEW length, CopyContent(id, length) PROVE [Next]_vars
      BY <2>3 DEF CopyContent
    <2>4. ASSUME NEW hash, CopyEnd(id, hash) PROVE [Next]_vars
      BY <1>3, <2>4 DEF CopyEnd
    <2>5. ASSUME NEW hash, HashDiffers(id, hash) PROVE [Next]_vars
      BY <2>5 DEF HashDiffers
    <2>6. CASE CloseUnfinished(id)
      BY <1>3, <2>6 DEF CloseUnfinished
    <2>7. QED
      BY <1>4, <2>1, <2>2, <2>3, <2>4, <2>5, <2>6 DEF ReadBlock
  <1>5. ASSUME NEW data \in Data \cup {<<>>},
               CopyTurn(data) \/ CopyTurnFails(data) \/ ErrorInFile(data)
        PROVE  [Next]_vars
    <2>1. CASE CopyTurn(data)
      BY <1>2, <2>1 DEF CopyTurn
    <2>2. CASE ErrorInFile(data)
      BY <1>2, <2>2 DEF ErrorInFile
    <2>3. CASE CopyTurnFails(data)
      <3>1. data \in Data
        BY <2>3 DEF CopyTurnFails
      <3> DEFINE o == id_output[current]
      <3>2. CASE AppendContentHeaderFails(o, data)
        <4>1. o \in ids
          BY <3>2 DEF AppendContentHeaderFails, FileOpened
        <4>2. QED
          BY <3>1, <3>2, <4>1
      <3>3. ASSUME NEW written \in 0..Len(data),
                   AppendContentCopyFails(o, data, Len(data), written)
            PROVE  [Next]_vars
        <4>1. o \in ids
          BY <3>3 DEF AppendContentCopyFails, FileOpened
        <4>2. data \in Seq(Bytes)
          BY <3>1, DataAssumption
        <4>3. Len(data) \in 0..Len(data)
          BY <4>2
        <4> HIDE DEF o
        <4>4. QED
          BY <3>1, <3>3, <4>1, <4>3
      <3>4. QED
        BY <2>3, <3>2, <3>3 DEF CopyTurnFails
    <2>4. QED
      BY <1>5, <2>1, <2>2, <2>3
  <1>6. CASE EndOfData \/ \E inHash \in BOOLEAN : SourceEnds(inHash) \/ SourceFails(inHash)
    BY <1>6 DEF EndOfData, SourceEnds, SourceFails, CopyStops
  <1>7. CASE FinalizeOutput
    BY <1>7 DEF FinalizeOutput
  <1>8. ASSUME NEW id \in SourceIds, NEW name \in Names, CopyStartFails(id, name)
        PROVE  [Next]_vars
    BY <1>8 DEF CopyStartFails
  <1>9. ASSUME NEW id \in SourceIds, NEW hash, CopyEndFails(id, hash)
        PROVE  [Next]_vars
    BY <1>3, <1>9 DEF CopyEndFails
  <1>10. ASSUME NEW id \in SourceIds, CloseFails(id)
         PROVE  [Next]_vars
    BY <1>3, <1>10 DEF CloseFails
  <1>11. CASE Returned
    BY <1>11 DEF Returned
  <1>12. CASE Works
    BY <1>4, <1>5, <1>6, <1>7, <1>12 DEF Works
  <1>13. CASE Breaks
    BY <1>5, <1>6, <1>8, <1>9, <1>10, <1>13 DEF Breaks
  <1>14. QED
    BY <1>1, <1>11, <1>12, <1>13 DEF ConvertNext

\* Whatever the source holds, the output of a conversion behaves as an archive
\* writer does: every call convert_to_archive makes on it is one the writer
\* allows.
THEOREM OutputIsAnArchive == ConvertSpec => Spec
  <1>1. ConvertInit => Init
    BY DEF ConvertInit
  <1>2. [ConvertNext]_<<vars, convertVars>> => [Next]_vars
    BY ConvertStepsOutput
  <1>3. QED
    BY <1>1, <1>2, PTL DEF ConvertSpec, Spec, ConvertNext

-----------------------------------------------------------------------------
(***************************************************************************)
(* The invariant.                                                          *)
(***************************************************************************)
\* The hashes that the output keeps of its entries.
Copied == [o \in DOMAIN ids_info |-> HashNow(o)]

\* What an EndOfEntry of the source may hold.
Hashes == Seq(Bytes \cup {CHOOSE b \in Bytes : TRUE})

SourceType ==
    /\ pc \in {"block", "content", "cleanup", "done", "failed"}
    /\ source \in [blocks : Nat, ended : BOOLEAN, sent : [SourceIds -> Seq(Bytes)],
                   attested : [SourceIds -> Hashes]]

\* No call on the output has failed.
CallsSucceeded ==
    /\ faults = 0 /\ damaged = {}
    /\ state = IF pc = "done" THEN "Finalized" ELSE "OpenedFiles"

\* An id of the source stands for one entry of the output, which is open until
\* its EndOfEntry or the clean-up ends it.
MapsAgree ==
    /\ DOMAIN id_output \subseteq SourceIds
    /\ id_output \in [DOMAIN id_output -> DOMAIN ids_info]
    /\ \A x, y \in DOMAIN id_output : id_output[x] = id_output[y] => x = y
    /\ id_done \subseteq DOMAIN id_output
    /\ unfinished \subseteq DOMAIN id_output
    /\ ids = {id_output[id] : id \in DOMAIN id_output \ (id_done \cup unfinished)}

\* The names given to the output are those of the ids it has an entry for.
NamesAgree ==
    /\ DOMAIN id_output \subseteq DOMAIN id_entryname
    /\ \A id \in DOMAIN id_output :
          /\ id_entryname[id] \in DOMAIN entries_info
          /\ entries_info[id_entryname[id]] = id_output[id]
    /\ \A n \in DOMAIN entries_info : \E id \in DOMAIN id_output : id_entryname[id] = n

\* The source sent what the output holds.
SentIsCopied ==
    /\ \A id \in DOMAIN id_output : Copied[id_output[id]] = source.sent[id]
    /\ \A id \in SourceIds \ DOMAIN id_output : source.sent[id] = <<>>

\* The running hashes of the converter. One of them lags behind once the
\* source failed in the middle of a block, and one is gone once it differed.
HashesRun ==
    /\ id_done \cap DOMAIN id_hash = {}
    /\ pc \in {"block", "content"} =>
          /\ DOMAIN id_hash = DOMAIN id_output \ id_done
          /\ id_hash = [id \in DOMAIN id_hash |-> source.sent[id]]

CurrentIsOpen == pc = "content" => current \in DOMAIN id_output \ id_done

DoneIsAttested == \A id \in id_done : source.attested[id] = source.sent[id]

InStep ==
    /\ CallsSucceeded /\ MapsAgree /\ NamesAgree /\ SentIsCopied
    /\ HashesRun /\ CurrentIsOpen /\ DoneIsAttested

ConvertInv ==
    /\ ContentInv
    /\ SourceType
    /\ pc = "failed" => faults > 0
    /\ pc # "failed" => InStep

-----------------------------------------------------------------------------
(***************************************************************************)
(* What a call that succeeds does to the output.                           *)
(***************************************************************************)
OutputStarts(o, name) ==
    /\ o \notin DOMAIN ids_info /\ name \notin DOMAIN entries_info
    /\ ids' = ids \cup {o}
    /\ DOMAIN ids_info' = DOMAIN ids_info \cup {o}
    /\ entries_info' = Put(entries_info, name, o)
    /\ Copied' = Put(Copied, o, <<>>)
    /\ UNCHANGED <<state, faults, damaged>>

OutputAppends(o, data) ==
    /\ o \in DOMAIN ids_info
    /\ DOMAIN ids_info' = DOMAIN ids_info
    /\ Copied' = [Copied EXCEPT ![o] = @ \o data]
    /\ UNCHANGED <<state, ids, entries_info, faults, damaged>>

OutputEnds(o) ==
    /\ o \in ids
    /\ ids' = ids \ {o}
    /\ DOMAIN ids_info' = DOMAIN ids_info
    /\ UNCHANGED <<state, entries_info, faults, damaged, Copied>>

LEMMA OthersCopied ==
    ASSUME IndexInv, damaged = {}, NEW cells \in Seq(Cell), dest' = dest \o cells,
           NEW o, \A x \in DOMAIN ids_info \ {o} :
                     /\ ids_info'[x] = ids_info[x]
                     /\ x \in ids' <=> x \in ids
                     /\ x \in ids => hashes'[x] = hashes[x]
    PROVE  \A x \in DOMAIN ids_info \ {o} : HashNow(x)' = HashNow(x)
  BY EntryKept

LEMMA StartOutput ==
    ASSUME ContentInv, damaged = {}, NEW name \in Names, StartEntry(name)
    PROVE  OutputStarts(next_id, name)
  <1>1. IndexInv /\ TypeOK /\ Bookkeeping /\ dest \in Seq(Cell)
    BY DEF ContentInv, IndexInv, TypeInv, TypeOK
  <1>2. /\ ReserveEntry(name) /\ dest' = Append(dest, EntryStart(name, next_id))
        /\ ids' = ids \cup {next_id} /\ hashes' = Put(hashes, next_id, <<>>)
        /\ UNCHANGED <<state, faults, damaged>>
    BY DEF StartEntry
  <1> DEFINE cells == <<EntryStart(name, next_id)>>
  <1>3. next_id \in Ids
    BY <1>1 DEF TypeOK
  <1>4. cells \in Seq(Cell) /\ dest' = dest \o cells
    BY <1>1, <1>2, <1>3 DEF Cell, EntryStart
  <1>5. /\ next_id \notin DOMAIN ids_info /\ next_id \notin ids
        /\ DOMAIN ids_info' = DOMAIN ids_info \cup {next_id}
        /\ \A x \in DOMAIN ids_info : ids_info'[x] = ids_info[x]
        /\ name \notin DOMAIN entries_info
    BY <1>2, <1>4, ReserveFacts
  <1>6. ids = DOMAIN hashes /\ ids \subseteq DOMAIN ids_info
    BY <1>1 DEF Bookkeeping
  <1>7. \A x \in ids : hashes'[x] = hashes[x]
    BY <1>2, <1>5, <1>6 DEF Put
  <1>8. \A x \in DOMAIN ids_info \ {next_id} : HashNow(x)' = HashNow(x)
    BY <1>1, <1>2, <1>4, <1>5, <1>7, OthersCopied
  <1>9. \A x : x = next_id => HashNow(x)' = <<>>
    BY <1>2 DEF HashNow, Put
  <1>10. entries_info' = Put(entries_info, name, next_id)
    BY <1>2 DEF ReserveEntry
  <1>11. Copied' = Put(Copied, next_id, <<>>)
    BY <1>5, <1>8, <1>9 DEF Copied, Put
  <1>12. QED
    BY <1>2, <1>5, <1>10, <1>11 DEF OutputStarts

LEMMA AppendOutput ==
    ASSUME ContentInv, damaged = {}, NEW o, NEW data \in Data \cup {<<>>},
           o \in DOMAIN ids_info, Copied[o] \in Seq(Bytes), Append0(o, data)
    PROVE  OutputAppends(o, data)
  <1>1. IndexInv /\ TypeOK /\ Bookkeeping /\ dest \in Seq(Cell)
    BY DEF ContentInv, IndexInv, TypeInv, TypeOK
  <1>2. CASE data = <<>>
    <2>1. UNCHANGED vars
      BY <1>2 DEF Append0
    <2>2. Copied' = Copied
      BY <2>1 DEF vars, Copied, HashNow, BlockAt
    <2>3. Copied[o] \o data = Copied[o]
      BY <1>2
    <2>4. Copied = [Copied EXCEPT ![o] = Copied[o] \o data]
      BY <2>3 DEF Copied
    <2>5. QED
      BY <2>1, <2>2, <2>4 DEF OutputAppends, vars
  <1>3. CASE data # <<>>
    <2>1. AppendContent(o, data) /\ data \in Data
      BY <1>3 DEF Append0
    <2>2. o \in ids
      BY <2>1 DEF AppendContent, FileOpened
    <2> DEFINE n == Len(data)
               cells == ContentBlock(o, n, data)
    <2>3. data \in Seq(Bytes) /\ n \in Nat /\ o \in Ids
      BY <1>1, <2>1, <2>2, DataAssumption DEF TypeOK
    <2>4. /\ RecordOffsetAndSize(o, n) /\ HashUpdate(o, data) /\ dest' = dest \o cells
          /\ UNCHANGED <<state, ids, entries_info, faults, damaged>>
      BY <2>1 DEF AppendContent
    <2>5. cells \in Seq(Cell) /\ Len(cells) = n + 1
      BY <2>3, ContentBlockCells
    <2> HIDE DEF n, cells
    <2>6. /\ DOMAIN ids_info' = DOMAIN ids_info
          /\ \A x \in DOMAIN ids_info \ {o} : ids_info'[x] = ids_info[x]
      BY <2>2, <2>3, <2>4, <2>5, BlockAdded
    <2>7. hashes' = [hashes EXCEPT ![o] = @ \o data] /\ ids = DOMAIN hashes
      BY <1>1, <2>4 DEF HashUpdate, Bookkeeping
    <2>8. \A x \in DOMAIN ids_info \ {o} : HashNow(x)' = HashNow(x)
      BY <1>1, <2>4, <2>5, <2>6, <2>7, OthersCopied
    <2>9. HashNow(o)' = HashNow(o) \o data
      BY <2>2, <2>4, <2>7 DEF HashNow
    <2>10. Copied' = [Copied EXCEPT ![o] = @ \o data]
      BY <2>6, <2>8, <2>9 DEF Copied
    <2>11. QED
      BY <2>4, <2>6, <2>10 DEF OutputAppends
  <1>4. QED
    BY <1>2, <1>3

LEMMA EndOutput ==
    ASSUME ContentInv, damaged = {}, NEW o, EndEntry(o)
    PROVE  OutputEnds(o)
  <1> DEFINE last == EndOfEntry(o, hashes[o])
             cells == <<last>>
  <1>1. IndexInv /\ TypeOK /\ Bookkeeping /\ dest \in Seq(Cell)
    BY DEF ContentInv, IndexInv, TypeInv, TypeOK
  <1>2. /\ o \in ids /\ hashes' = Drop(hashes, o) /\ ids' = ids \ {o}
        /\ RecordOffsetAndSize(o, 0) /\ dest' = Append(dest, last)
        /\ UNCHANGED <<state, entries_info, faults, damaged>>
    BY DEF EndEntry, CloseEntry, FileOpened
  <1>3. last \in Cell /\ last.hash = hashes[o]
    BY <1>1, <1>2 DEF Cell, EndOfEntry, TypeOK, Bookkeeping
  <1> HIDE DEF last
  <1>4. cells \in Seq(Cell) /\ dest' = dest \o cells /\ Len(cells) = 0 + 1 /\ cells[1] = last
    BY <1>1, <1>2, <1>3
  <1> HIDE DEF cells
  <1>5. /\ o \in DOMAIN ids_info
        /\ DOMAIN ids_info' = DOMAIN ids_info
        /\ \A x \in DOMAIN ids_info \ {o} : ids_info'[x] = ids_info[x]
        /\ BlockAt(o, Len(ids_info[o]))' = cells[1]
    BY <1>2, <1>4, BlockAdded
  <1>6. \A x \in ids \ {o} : hashes'[x] = hashes[x]
    BY <1>1, <1>2 DEF Drop, Bookkeeping
  <1>7. \A x \in DOMAIN ids_info \ {o} : HashNow(x)' = HashNow(x)
    BY <1>1, <1>2, <1>4, <1>5, <1>6, OthersCopied
  <1>8. HashNow(o)' = HashNow(o)
    BY <1>2, <1>3, <1>4, <1>5 DEF HashNow
  <1>9. Copied' = Copied
    BY <1>5, <1>7, <1>8 DEF Copied
  <1>10. QED
    BY <1>2, <1>5, <1>9 DEF OutputEnds

-----------------------------------------------------------------------------
(***************************************************************************)
(* The steps of the conversion.                                            *)
(***************************************************************************)
\* What the invariant says of a conversion that has not failed.
Going == ContentInv /\ SourceType /\ pc # "failed" /\ InStep

LEMMA GoingFacts ==
    ASSUME Going
    PROVE  /\ CallsSucceeded /\ MapsAgree /\ NamesAgree /\ SentIsCopied
           /\ HashesRun /\ CurrentIsOpen /\ DoneIsAttested
           /\ DOMAIN source.sent = SourceIds /\ source.sent \in [SourceIds -> Seq(Bytes)]
           /\ source.attested \in [SourceIds -> Hashes]
           /\ \A id \in DOMAIN id_output : id_output[id] \in DOMAIN ids_info
  BY DEF Going, InStep, SourceType, MapsAgree

\* A block is read, and says nothing of the contents.
LEMMA SourceNext ==
    ASSUME SourceType, NextBlock
    PROVE  /\ source'.sent = source.sent /\ source'.attested = source.attested
           /\ pc' \in {"block", "content", "cleanup", "done", "failed"} => SourceType'
  BY DEF SourceType, NextBlock

\* Bytes are read.
LEMMA SourceSends ==
    ASSUME SourceType, NEW data \in Data \cup {<<>>}, current \in SourceIds,
           Filled(data) \/ source' = [source EXCEPT !.sent[current] = @ \o data]
    PROVE  /\ source'.sent = [source.sent EXCEPT ![current] = @ \o data]
           /\ source'.attested = source.attested
           /\ pc' \in {"block", "content", "cleanup", "done", "failed"} => SourceType'
  <1>1. data \in Seq(Bytes)
    <2>1. CASE data \in Data
      BY <2>1, DataAssumption
    <2>2. CASE data = <<>>
      BY <2>2
    <2>3. QED
      BY <2>1, <2>2
  <1>2. source.sent \in [SourceIds -> Seq(Bytes)]
    BY DEF SourceType
  <1>3. [source.sent EXCEPT ![current] = @ \o data] \in [SourceIds -> Seq(Bytes)]
    BY <1>1, <1>2
  <1>4. CASE Filled(data)
    <2>1. source' = [source EXCEPT !.sent[current] = @ \o data,
                                   !.ended = Len(data) < left /\ Len(data) < CACHE_SIZE]
      BY <1>4 DEF Filled
    <2>2. QED
      BY <1>3, <2>1 DEF SourceType
  <1>5. CASE source' = [source EXCEPT !.sent[current] = @ \o data]
    BY <1>3, <1>5 DEF SourceType
  <1>6. QED
    BY <1>4, <1>5

\* The end of an entry is read.
LEMMA SourceAttests ==
    ASSUME SourceType, NEW id \in SourceIds, NEW hash \in SourceHashes(id), Attest(id, hash)
    PROVE  /\ source'.sent = source.sent
           /\ source'.attested = [source.attested EXCEPT ![id] = hash]
           /\ pc' \in {"block", "content", "cleanup", "done", "failed"} => SourceType'
  <1>1. source.sent[id] \in Seq(Bytes)
    BY DEF SourceType
  <1>2. hash \in Hashes
    BY <1>1 DEF SourceHashes, Hashes
  <1>3. source' = [source EXCEPT !.blocks = @ + 1, !.attested[id] = hash]
    BY DEF Attest
  <1>4. source.attested \in [SourceIds -> Hashes]
    BY DEF SourceType
  <1> DEFINE told == [source.attested EXCEPT ![id] = hash]
  <1>5. told \in [SourceIds -> Hashes]
    BY <1>2, <1>4
  <1>6. source' = [blocks |-> source.blocks + 1, ended |-> source.ended,
                   sent |-> source.sent, attested |-> told]
    BY <1>3 DEF SourceType
  <1> HIDE DEF told
  <1>7. source'.sent = source.sent /\ source'.attested = told
    BY <1>6
  <1>8. source.blocks + 1 \in Nat /\ source.ended \in BOOLEAN
        /\ source.sent \in [SourceIds -> Seq(Bytes)]
    BY DEF SourceType
  <1>9. source' \in [blocks : Nat, ended : BOOLEAN, sent : [SourceIds -> Seq(Bytes)],
                     attested : [SourceIds -> Hashes]]
    BY <1>5, <1>6, <1>8
  <1>10. QED
    BY <1>7, <1>9 DEF told, SourceType

\* The output and what was read stay as they are.
LEMMA OutputUntouched ==
    ASSUME UNCHANGED vars
    PROVE  /\ Copied' = Copied /\ DOMAIN ids_info' = DOMAIN ids_info
           /\ UNCHANGED <<state, ids, entries_info, faults, damaged>>
  BY DEF vars, Copied, HashNow, BlockAt

LEMMA StartStep ==
    ASSUME Going, NEW id \in SourceIds, NEW name \in Names, CopyStart(id, name)
    PROVE  InStep' /\ SourceType' /\ pc' # "failed"
  <1> DEFINE o == next_id
  <1>1. /\ CallsSucceeded /\ MapsAgree /\ NamesAgree /\ SentIsCopied
        /\ HashesRun /\ CurrentIsOpen /\ DoneIsAttested
    BY GoingFacts
  <1>2. OutputStarts(o, name)
    BY <1>1, StartOutput DEF CopyStart, Going, CallsSucceeded
  <1>3. /\ NextBlock /\ pc = "block" /\ pc' = pc /\ id \notin DOMAIN id_output
        /\ id_entryname' = Put(id_entryname, id, name)
        /\ id_output' = Put(id_output, id, o) /\ id_hash' = Put(id_hash, id, <<>>)
        /\ id_done' = id_done /\ current' = current /\ unfinished' = unfinished
    BY DEF CopyStart, NextBlock, KnownStart
  <1>4. source'.sent = source.sent /\ source'.attested = source.attested /\ SourceType'
    BY <1>3, SourceNext DEF Going
  <1> HIDE DEF o
  <1>5. CallsSucceeded'
    BY <1>1, <1>2, <1>3 DEF CallsSucceeded, OutputStarts
  <1>6. /\ DOMAIN id_output' = DOMAIN id_output \cup {id} /\ id_output'[id] = o
        /\ \A x \in DOMAIN id_output : id_output'[x] = id_output[x]
    BY <1>3 DEF Put
  <1>7. \A x \in DOMAIN id_output : id_output[x] \in DOMAIN ids_info /\ id_output[x] # o
    BY <1>1, <1>2 DEF MapsAgree, OutputStarts
  <1>8. id \notin id_done \cup unfinished
    BY <1>1, <1>3 DEF MapsAgree
  <1>9. MapsAgree'
    <2>1. id_output' \in [DOMAIN id_output' -> DOMAIN ids_info']
      BY <1>2, <1>3, <1>6, <1>7 DEF Put, OutputStarts
    <2>2. \A x, y \in DOMAIN id_output' : id_output'[x] = id_output'[y] => x = y
      BY <1>1, <1>6, <1>7 DEF MapsAgree
    <2>3. ids' = {id_output'[x] : x \in DOMAIN id_output' \ (id_done' \cup unfinished')}
      <3>1. ids = {id_output[x] : x \in DOMAIN id_output \ (id_done \cup unfinished)}
        BY <1>1 DEF MapsAgree
      <3>2. ids' = ids \cup {o}
        BY <1>2 DEF OutputStarts
      <3>3. DOMAIN id_output' \ (id_done' \cup unfinished')
              = (DOMAIN id_output \ (id_done \cup unfinished)) \cup {id}
        BY <1>3, <1>6, <1>8
      <3>4. QED
        BY <1>6, <3>1, <3>2, <3>3
    <2>4. QED
      BY <1>1, <1>3, <1>6, <2>1, <2>2, <2>3 DEF MapsAgree
  <1>10. NamesAgree'
    <2>1. /\ name \notin DOMAIN entries_info
          /\ DOMAIN entries_info' = DOMAIN entries_info \cup {name}
          /\ entries_info'[name] = o
          /\ \A n \in DOMAIN entries_info : entries_info'[n] = entries_info[n]
      BY <1>2 DEF OutputStarts, Put
    <2>2. /\ DOMAIN id_entryname' = DOMAIN id_entryname \cup {id}
          /\ id_entryname'[id] = name
          /\ \A x \in DOMAIN id_output : id_entryname'[x] = id_entryname[x]
      BY <1>1, <1>3 DEF Put, NamesAgree
    <2>3. QED
      BY <1>1, <1>6, <2>1, <2>2 DEF NamesAgree
  <1>11. /\ Copied'[o] = <<>>
         /\ \A x \in DOMAIN ids_info : Copied'[x] = Copied[x]
    BY <1>2 DEF OutputStarts, Put, Copied
  <1>12. SentIsCopied'
    BY <1>1, <1>4, <1>6, <1>7, <1>11 DEF SentIsCopied
  <1>13. HashesRun'
    <2>1. /\ DOMAIN id_hash = DOMAIN id_output \ id_done
          /\ id_hash = [x \in DOMAIN id_hash |-> source.sent[x]]
      BY <1>1, <1>3 DEF HashesRun
    <2>2. source.sent[id] = <<>>
      BY <1>1, <1>3 DEF SentIsCopied
    <2>3. DOMAIN id_hash' = DOMAIN id_hash \cup {id}
      BY <1>3 DEF Put
    <2>4. id_hash' = [x \in DOMAIN id_hash' |-> source'.sent[x]]
      BY <1>3, <1>4, <2>1, <2>2, <2>3 DEF Put
    <2>5. DOMAIN id_hash' = DOMAIN id_output' \ id_done'
      BY <1>3, <1>6, <1>8, <2>1, <2>3
    <2>6. QED
      BY <2>4, <2>5 DEF HashesRun
  <1>14. CurrentIsOpen' /\ DoneIsAttested'
    BY <1>1, <1>3, <1>4 DEF CurrentIsOpen, DoneIsAttested
  <1>15. QED
    BY <1>3, <1>4, <1>5, <1>9, <1>10, <1>12, <1>13, <1>14 DEF InStep

\* Bytes of the current entry reach the output; they are hashed unless the
\* source failed.
LEMMA TurnStep ==
    ASSUME Going, NEW data \in Data \cup {<<>>}, CopyTurn(data) \/ ErrorInFile(data)
    PROVE  InStep' /\ SourceType' /\ pc' # "failed"
  <1> DEFINE o == id_output[current]
  <1>1. /\ CallsSucceeded /\ MapsAgree /\ NamesAgree /\ SentIsCopied
        /\ HashesRun /\ CurrentIsOpen /\ DoneIsAttested
        /\ source.sent \in [SourceIds -> Seq(Bytes)]
    BY GoingFacts
  <1>2. /\ pc = "content" /\ Append0(o, data)
        /\ Filled(data) \/ source' = [source EXCEPT !.sent[current] = @ \o data]
        /\ UNCHANGED <<id_output, id_entryname, id_done, current, unfinished>>
    BY DEF CopyTurn, ErrorInFile, Filled
  <1>3. /\ current \in DOMAIN id_output \ id_done /\ current \in SourceIds
        /\ o \in DOMAIN ids_info
    BY <1>1, <1>2 DEF CurrentIsOpen, MapsAgree
  <1>4. Copied[o] = source.sent[current] /\ Copied[o] \in Seq(Bytes)
    BY <1>1, <1>3 DEF SentIsCopied
  <1>5. ContentInv /\ damaged = {}
    BY <1>1 DEF Going, CallsSucceeded
  <1> HIDE DEF o
  <1>6. OutputAppends(o, data)
    BY <1>2, <1>3, <1>4, <1>5, AppendOutput
  <1>7. /\ pc' \in {"block", "content", "cleanup"}
        /\ pc' # "cleanup" => ContentHash(data)
        /\ pc' = "cleanup" => id_hash' = id_hash
    <2>1. CASE CopyTurn(data)
      <3>1. pc' \in {"block", "content"} /\ ContentHash(data)
        BY <2>1 DEF CopyTurn
      <3>2. QED
        BY <3>1
    <2>2. CASE ErrorInFile(data)
      <3>1. pc' = "cleanup" /\ id_hash' = id_hash
        BY <2>2 DEF ErrorInFile, Stop
      <3>2. QED
        BY <3>1
    <2>3. QED
      BY <2>1, <2>2
  <1>8. /\ source'.sent = [source.sent EXCEPT ![current] = @ \o data]
        /\ source'.attested = source.attested /\ SourceType'
    BY <1>2, <1>3, <1>7, SourceSends DEF Going
  <1>9. /\ DOMAIN Copied = DOMAIN ids_info
        /\ Copied' = [Copied EXCEPT ![o] = @ \o data]
        /\ DOMAIN ids_info' = DOMAIN ids_info
        /\ UNCHANGED <<state, ids, entries_info, faults, damaged>>
    BY <1>6 DEF OutputAppends, Copied
  <1>10. CallsSucceeded'
    BY <1>1, <1>2, <1>7, <1>9 DEF CallsSucceeded
  <1>11. MapsAgree' /\ NamesAgree'
    BY <1>1, <1>2, <1>9 DEF MapsAgree, NamesAgree
  <1>12. SentIsCopied'
    <2>1. \A id \in SourceIds \ {current} : source'.sent[id] = source.sent[id]
      BY <1>1, <1>8
    <2>2. source'.sent[current] = source.sent[current] \o data
      BY <1>1, <1>3, <1>8
    <2>3. ASSUME NEW id \in DOMAIN id_output PROVE Copied'[id_output[id]] = source'.sent[id]
      <3>1. CASE id = current
        <4>1. id_output[id] = o
          BY <3>1 DEF o
        <4>2. Copied'[o] = Copied[o] \o data
          BY <1>3, <1>9
        <4>3. QED
          BY <1>4, <2>2, <3>1, <4>1, <4>2
      <3>2. CASE id # current
        <4>1. id_output[id] # o /\ id_output[id] \in DOMAIN ids_info /\ id \in SourceIds
          BY <1>1, <1>3, <3>2 DEF MapsAgree, o
        <4>2. Copied'[id_output[id]] = Copied[id_output[id]]
          BY <1>9, <4>1
        <4>3. Copied[id_output[id]] = source.sent[id]
          BY <1>1 DEF SentIsCopied
        <4>4. QED
          BY <2>1, <3>2, <4>1, <4>2, <4>3
      <3>3. QED
        BY <3>1, <3>2
    <2>4. QED
      BY <1>1, <1>2, <1>3, <2>1, <2>3 DEF SentIsCopied
  <1>13. HashesRun'
    <2>1. /\ DOMAIN id_hash = DOMAIN id_output \ id_done
          /\ id_hash = [id \in DOMAIN id_hash |-> source.sent[id]]
      BY <1>1, <1>2 DEF HashesRun
    <2>2. CASE pc' = "cleanup"
      BY <1>2, <1>7, <2>1, <2>2 DEF HashesRun
    <2>3. CASE pc' # "cleanup"
      <3>1. id_hash' = [id_hash EXCEPT ![current] = @ \o data]
        BY <1>7, <2>3 DEF ContentHash
      <3>2. DOMAIN id_hash' = DOMAIN id_hash
        BY <3>1
      <3>3. \A id \in DOMAIN id_hash : id_hash[id] = source.sent[id] /\ id \in SourceIds
        BY <1>1, <2>1 DEF MapsAgree
      <3>4. \A id \in DOMAIN id_hash : id_hash'[id] = source'.sent[id]
        BY <1>1, <1>8, <3>1, <3>3
      <3>5. id_hash' = [id \in DOMAIN id_hash' |-> source'.sent[id]]
        BY <3>1, <3>2, <3>4
      <3>6. QED
        BY <1>2, <2>1, <3>2, <3>5 DEF HashesRun
    <2>4. QED
      BY <2>2, <2>3
  <1>14. CurrentIsOpen'
    BY <1>2, <1>3 DEF CurrentIsOpen
  <1>15. DoneIsAttested'
    <2>1. \A id \in id_done : id # current /\ id \in SourceIds
      BY <1>1, <1>3 DEF MapsAgree
    <2>2. \A id \in id_done : source'.sent[id] = source.sent[id]
      BY <1>1, <1>8, <2>1
    <2>3. QED
      BY <1>1, <1>2, <1>8, <2>2 DEF DoneIsAttested
  <1>16. QED
    BY <1>7, <1>8, <1>10, <1>11, <1>12, <1>13, <1>14, <1>15 DEF InStep

\* An entry of the output is ended, by its EndOfEntry or by the clean-up.
LEMMA EndedInStep ==
    ASSUME Going, NEW id \in DOMAIN id_output, OutputEnds(id_output[id]),
           UNCHANGED <<id_output, id_entryname>>,
           id_done' \cup unfinished' = id_done \cup unfinished \cup {id},
           id_done' \subseteq DOMAIN id_output, unfinished' \subseteq DOMAIN id_output,
           pc' = pc, source'.sent = source.sent
    PROVE  CallsSucceeded' /\ MapsAgree' /\ NamesAgree' /\ SentIsCopied'
  <1>1. CallsSucceeded /\ MapsAgree /\ NamesAgree /\ SentIsCopied
    BY GoingFacts
  <1>2. /\ ids' = ids \ {id_output[id]} /\ DOMAIN ids_info' = DOMAIN ids_info
        /\ UNCHANGED <<state, entries_info, faults, damaged, Copied>>
    BY DEF OutputEnds
  <1>3. ids' = {id_output[x] : x \in DOMAIN id_output \ (id_done \cup unfinished \cup {id})}
    BY <1>1, <1>2 DEF MapsAgree
  <1>4. MapsAgree'
    BY <1>1, <1>2, <1>3 DEF MapsAgree
  <1>5. QED
    BY <1>1, <1>2, <1>4 DEF CallsSucceeded, NamesAgree, SentIsCopied

LEMMA EndStep ==
    ASSUME Going, NEW id \in SourceIds, NEW hash \in SourceHashes(id), CopyEnd(id, hash)
    PROVE  InStep' /\ SourceType' /\ pc' # "failed"
  <1>1. /\ CallsSucceeded /\ MapsAgree /\ NamesAgree /\ SentIsCopied
        /\ HashesRun /\ CurrentIsOpen /\ DoneIsAttested
        /\ source.attested \in [SourceIds -> Hashes]
    BY GoingFacts
  <1>2. /\ Attest(id, hash) /\ pc = "block" /\ pc' = pc
        /\ id \in DOMAIN id_output /\ id \notin id_done
        /\ id \in DOMAIN id_hash /\ id_hash[id] = hash
        /\ id_hash' = Drop(id_hash, id) /\ id_done' = id_done \cup {id}
        /\ UNCHANGED <<id_output, id_entryname, current, unfinished>>
    BY DEF CopyEnd, Attest, HashMatches, Closed
  <1>3. \A o : o = id_output[id] => EndEntry(o)
    BY DEF CopyEnd
  <1>4. OutputEnds(id_output[id])
    BY <1>1, <1>3, EndOutput DEF Going, CallsSucceeded
  <1>5. /\ source'.sent = source.sent
        /\ source'.attested = [source.attested EXCEPT ![id] = hash] /\ SourceType'
    BY <1>2, SourceAttests DEF Going
  <1>6. id_done \subseteq DOMAIN id_output /\ unfinished \subseteq DOMAIN id_output
        /\ DOMAIN id_output \subseteq SourceIds
    BY <1>1 DEF MapsAgree
  <1>7. CallsSucceeded' /\ MapsAgree' /\ NamesAgree' /\ SentIsCopied'
    BY <1>2, <1>4, <1>5, <1>6, EndedInStep
  <1>8. /\ DOMAIN id_hash = DOMAIN id_output \ id_done
        /\ id_hash = [x \in DOMAIN id_hash |-> source.sent[x]]
    BY <1>1, <1>2 DEF HashesRun
  <1>9. HashesRun'
    <2>1. DOMAIN id_hash' = DOMAIN id_output' \ id_done'
      BY <1>2, <1>8 DEF Drop
    <2>2. id_hash' = [x \in DOMAIN id_hash' |-> source'.sent[x]]
      BY <1>2, <1>5, <1>8 DEF Drop
    <2>3. QED
      BY <2>1, <2>2 DEF HashesRun
  <1>10. CurrentIsOpen'
    BY <1>2 DEF CurrentIsOpen
  <1>11. DoneIsAttested'
    <2>1. hash = source.sent[id]
      BY <1>2, <1>8
    <2>2. \A x \in id_done : source'.attested[x] = source.attested[x] /\ x # id
      BY <1>1, <1>2, <1>5, <1>6
    <2>3. source'.attested[id] = hash
      BY <1>1, <1>5
    <2>4. QED
      BY <1>1, <1>2, <1>5, <2>1, <2>2, <2>3 DEF DoneIsAttested
  <1>12. QED
    BY <1>2, <1>5, <1>7, <1>9, <1>10, <1>11 DEF InStep

LEMMA CloseStep ==
    ASSUME Going, NEW id \in SourceIds, CloseUnfinished(id)
    PROVE  InStep' /\ SourceType' /\ pc' # "failed"
  <1>1. /\ CallsSucceeded /\ MapsAgree /\ NamesAgree /\ SentIsCopied
        /\ HashesRun /\ CurrentIsOpen /\ DoneIsAttested
    BY GoingFacts
  <1>2. /\ pc = "cleanup" /\ id \in DOMAIN id_output
        /\ unfinished' = unfinished \cup {id}
        /\ UNCHANGED <<pc, id_output, id_entryname, id_done, id_hash, current, source>>
    BY DEF CloseUnfinished, ToClose, converter
  <1>3. \A o : o = id_output[id] => EndEntry(o)
    BY DEF CloseUnfinished
  <1>4. OutputEnds(id_output[id])
    BY <1>1, <1>3, EndOutput DEF Going, CallsSucceeded
  <1>5. id_done \subseteq DOMAIN id_output /\ unfinished \subseteq DOMAIN id_output
    BY <1>1 DEF MapsAgree
  <1>6. CallsSucceeded' /\ MapsAgree' /\ NamesAgree' /\ SentIsCopied'
    BY <1>2, <1>4, <1>5, EndedInStep
  <1>7. HashesRun' /\ CurrentIsOpen' /\ DoneIsAttested'
    BY <1>1, <1>2 DEF HashesRun, CurrentIsOpen, DoneIsAttested
  <1>8. SourceType'
    BY <1>2 DEF Going, SourceType
  <1>9. QED
    BY <1>2, <1>6, <1>7, <1>8 DEF InStep

\* The steps that leave the output alone: a block is opened, or the copy stops.
LEMMA QuietInStep ==
    ASSUME Going, pc \in {"block", "content"}, UNCHANGED vars,
           UNCHANGED <<id_output, id_done, unfinished>>,
           \A id \in DOMAIN id_output : id_entryname'[id] = id_entryname[id],
           DOMAIN id_output \subseteq DOMAIN id_entryname',
           DOMAIN id_hash' \subseteq DOMAIN id_hash,
           pc' = "content" => id_hash' = id_hash /\ current' \in DOMAIN id_output \ id_done,
           pc' \in {"content", "cleanup"}, source'.sent = source.sent,
           \A id \in id_done : source'.attested[id] = source.attested[id]
    PROVE  InStep'
  <1>1. /\ CallsSucceeded /\ MapsAgree /\ NamesAgree /\ SentIsCopied
        /\ HashesRun /\ CurrentIsOpen /\ DoneIsAttested
    BY GoingFacts
  <1>2. /\ Copied' = Copied /\ DOMAIN ids_info' = DOMAIN ids_info
        /\ UNCHANGED <<state, ids, entries_info, faults, damaged>>
    BY OutputUntouched
  <1>3. CallsSucceeded'
    BY <1>1, <1>2 DEF CallsSucceeded
  <1>4. MapsAgree' /\ SentIsCopied'
    BY <1>1, <1>2 DEF MapsAgree, SentIsCopied
  <1>5. NamesAgree'
    BY <1>1, <1>2 DEF NamesAgree
  <1>6. HashesRun'
    BY <1>1 DEF HashesRun
  <1>7. CurrentIsOpen' /\ DoneIsAttested'
    BY <1>1 DEF CurrentIsOpen, DoneIsAttested
  <1>8. QED
    BY <1>3, <1>4, <1>5, <1>6, <1>7 DEF InStep

LEMMA BlockStep ==
    ASSUME Going, NEW id \in SourceIds,
           \/ \E name \in Names : StartRefused(id, name)
           \/ ContentRefused(id) \/ EndRefused(id)
           \/ \E length \in 0..MaxLength : CopyContent(id, length)
    PROVE  InStep' /\ SourceType' /\ pc' # "failed"
  <1>1. DOMAIN id_output \subseteq DOMAIN id_entryname
    BY GoingFacts DEF NamesAgree
  <1>2. ASSUME NEW name \in Names, StartRefused(id, name)
        PROVE  InStep' /\ SourceType' /\ pc' # "failed"
    <2>1. /\ NextBlock /\ pc = "block" /\ pc' = "cleanup" /\ UNCHANGED vars
          /\ UNCHANGED <<id_output, id_done, id_hash, current, unfinished>>
      BY <1>2 DEF StartRefused, NextBlock, Stop
    <2>2. \/ id_entryname' = id_entryname
          \/ id \notin DOMAIN id_output /\ id_entryname' = Put(id_entryname, id, name)
      BY <1>2 DEF StartRefused, KnownStart
    <2>3. /\ \A x \in DOMAIN id_output : id_entryname'[x] = id_entryname[x]
          /\ DOMAIN id_output \subseteq DOMAIN id_entryname'
      BY <1>1, <2>2 DEF Put
    <2>4. source'.sent = source.sent /\ source'.attested = source.attested /\ SourceType'
      BY <2>1, SourceNext DEF Going
    <2>5. QED
      BY <2>1, <2>3, <2>4, QuietInStep
  <1>3. CASE ContentRefused(id) \/ EndRefused(id)
    <2>1. /\ NextBlock /\ pc = "block" /\ pc' = "cleanup" /\ UNCHANGED vars
          /\ UNCHANGED <<id_output, id_entryname, id_done, id_hash, current, unfinished>>
      BY <1>3 DEF ContentRefused, EndRefused, BlockRefused, NextBlock, Stop
    <2>2. source'.sent = source.sent /\ source'.attested = source.attested /\ SourceType'
      BY <2>1, SourceNext DEF Going
    <2>3. QED
      BY <1>1, <2>1, <2>2, QuietInStep
  <1>4. ASSUME NEW length \in 0..MaxLength, CopyContent(id, length)
        PROVE  InStep' /\ SourceType' /\ pc' # "failed"
    <2>1. /\ NextBlock /\ pc = "block" /\ pc' = "content" /\ UNCHANGED vars
          /\ current' \in DOMAIN id_output \ id_done
          /\ UNCHANGED <<id_output, id_entryname, id_done, id_hash, unfinished>>
      BY <1>4 DEF CopyContent, NextBlock, Closed
    <2>2. source'.sent = source.sent /\ source'.attested = source.attested /\ SourceType'
      BY <2>1, SourceNext DEF Going
    <2>3. QED
      BY <1>1, <2>1, <2>2, QuietInStep
  <1>5. QED
    BY <1>2, <1>3, <1>4

LEMMA DiffersStep ==
    ASSUME Going, NEW id \in SourceIds, NEW hash \in SourceHashes(id), HashDiffers(id, hash)
    PROVE  InStep' /\ SourceType' /\ pc' # "failed"
  <1>1. /\ DOMAIN id_output \subseteq DOMAIN id_entryname
        /\ id_done \subseteq SourceIds /\ source.attested \in [SourceIds -> Hashes]
    BY GoingFacts DEF NamesAgree, MapsAgree
  <1>2. /\ Attest(id, hash) /\ pc = "block" /\ pc' = "cleanup" /\ UNCHANGED vars
        /\ id \notin id_done /\ id_hash' = Drop(id_hash, id)
        /\ UNCHANGED <<id_output, id_entryname, id_done, current, unfinished>>
    BY DEF HashDiffers, Attest, Stop, Closed
  <1>3. /\ source'.sent = source.sent
        /\ source'.attested = [source.attested EXCEPT ![id] = hash] /\ SourceType'
    BY <1>2, SourceAttests DEF Going
  <1>4. \A x \in id_done : source'.attested[x] = source.attested[x]
    BY <1>1, <1>2, <1>3
  <1>5. DOMAIN id_hash' \subseteq DOMAIN id_hash
    BY <1>2 DEF Drop
  <1>6. QED
    BY <1>1, <1>2, <1>3, <1>4, <1>5, QuietInStep

LEMMA StopStep ==
    ASSUME Going, EndOfData \/ \E inHash \in BOOLEAN : SourceEnds(inHash) \/ SourceFails(inHash)
    PROVE  InStep' /\ SourceType' /\ pc' # "failed"
  <1>1. DOMAIN id_output \subseteq DOMAIN id_entryname
    BY GoingFacts DEF NamesAgree
  <1>2. /\ pc = "block" /\ pc' = "cleanup" /\ UNCHANGED vars
        /\ UNCHANGED <<id_output, id_entryname, id_done, id_hash, current, unfinished>>
        /\ source' = source \/ source' = [source EXCEPT !.ended = TRUE]
    BY DEF EndOfData, SourceEnds, SourceFails, CopyStops, Stop
  <1>3. source'.sent = source.sent /\ source'.attested = source.attested /\ SourceType'
    BY <1>2 DEF Going, SourceType
  <1>4. QED
    BY <1>1, <1>2, <1>3, QuietInStep

\* The clean-up has ended every entry: finalize is not refused.
LEMMA FinalizeStep ==
    ASSUME Going, FinalizeOutput
    PROVE  /\ SourceType'
           /\ pc' = "failed" => faults' > 0
           /\ pc' # "failed" => InStep'
  <1>1. /\ CallsSucceeded /\ MapsAgree /\ NamesAgree /\ SentIsCopied
        /\ HashesRun /\ CurrentIsOpen /\ DoneIsAttested
    BY GoingFacts
  <1>2. /\ pc = "cleanup" /\ ToClose = {} /\ pc' \in {"done", "failed"}
        /\ UNCHANGED <<id_output, id_entryname, id_done, id_hash, current, unfinished, source>>
        /\ pc' = "done" => Finalize
        /\ pc' = "failed" => FinalizeRefused \/ FinalizeFails
    BY DEF FinalizeOutput, converter
  <1>3. SourceType'
    BY <1>2 DEF Going, SourceType
  <1>4. ids = {} /\ DOMAIN hashes = {}
    <2>1. DOMAIN id_output \ (id_done \cup unfinished) = {}
      BY <1>2 DEF ToClose, Closed
    <2>2. ids = {}
      BY <1>1, <2>1 DEF MapsAgree
    <2>3. QED
      BY <2>2 DEF Going, ContentInv, IndexInv, TypeInv, Bookkeeping
  <1>5. CASE pc' = "failed"
    <2>1. FinalizeFails
      BY <1>2, <1>4, <1>5 DEF FinalizeRefused, StillOpen
    <2>2. faults' = faults + 1 /\ faults = 0
      BY <1>1, <2>1 DEF FinalizeFails, Fault, CallsSucceeded
    <2>3. QED
      BY <1>3, <1>5, <2>2
  <1>6. CASE pc' = "done"
    <2>1. Finalize
      BY <1>2, <1>6
    <2>2. /\ state' = "Finalized"
          /\ dest' = dest \o <<EndOfArchiveData, ArchiveFooter(FooterIndex)>>
          /\ UNCHANGED <<ids, hashes, entries_info, ids_info, faults, damaged>>
      BY <2>1 DEF Finalize
    <2>3. Copied' = Copied
      <3>1. IndexInv /\ TypeOK /\ damaged = {}
        BY <1>1 DEF Going, ContentInv, IndexInv, TypeInv, CallsSucceeded
      <3>2. FooterIndex \in [Names -> Seq(IndexRecord)]
        BY <3>1 DEF FooterIndex, TypeOK, IndexInv, TypeInv, Bookkeeping
      <3> DEFINE cells == <<EndOfArchiveData, ArchiveFooter(FooterIndex)>>
      <3>3. cells \in Seq(Cell)
        BY <3>2 DEF Cell, ArchiveFooter
      <3>4. dest' = dest \o cells
        BY <2>2
      <3> HIDE DEF cells
      <3>5. \A x \in DOMAIN ids_info \ {MaxId + 1} : HashNow(x)' = HashNow(x)
        BY <2>2, <3>1, <3>3, <3>4, OthersCopied
      <3>6. MaxId + 1 \notin DOMAIN ids_info
        BY <3>1, MaxIdAssumption DEF TypeOK, Ids
      <3>7. QED
        BY <2>2, <3>5, <3>6 DEF Copied
    <2>4. CallsSucceeded'
      BY <1>1, <1>6, <2>2 DEF CallsSucceeded
    <2>5. MapsAgree' /\ NamesAgree' /\ SentIsCopied'
      BY <1>1, <1>2, <2>2, <2>3 DEF MapsAgree, NamesAgree, SentIsCopied
    <2>6. HashesRun' /\ CurrentIsOpen' /\ DoneIsAttested'
      BY <1>1, <1>2, <1>6 DEF HashesRun, CurrentIsOpen, DoneIsAttested
    <2>7. QED
      BY <1>3, <1>6, <2>4, <2>5, <2>6 DEF InStep
  <1>7. QED
    BY <1>2, <1>5, <1>6

\* A call on the output fails: the conversion returns its error.
LEMMA FailStep ==
    ASSUME Going,
           \/ \E id \in SourceIds :
                 \/ \E name \in Names : CopyStartFails(id, name)
                 \/ \E hash \in SourceHashes(id) : CopyEndFails(id, hash)
                 \/ CloseFails(id)
           \/ \E data \in Data \cup {<<>>} : CopyTurnFails(data)
    PROVE  SourceType' /\ pc' = "failed" /\ faults' > 0
  <1>1. faults = 0 /\ SourceType
    BY GoingFacts DEF CallsSucceeded, Going
  <1>2. ASSUME faults' = faults + 1 PROVE faults' > 0
    BY <1>1, <1>2
  <1>3. ASSUME NEW id \in SourceIds, NEW name \in Names, CopyStartFails(id, name)
        PROVE  SourceType' /\ pc' = "failed" /\ faults' > 0
    <2>1. NextBlock /\ pc' = "failed" /\ faults' = faults + 1
      BY <1>3 DEF CopyStartFails, StartEntryFails, Fault, Abandon
    <2>2. QED
      BY <1>1, <1>2, <2>1, SourceNext
  <1>4. ASSUME NEW id \in SourceIds, NEW hash \in SourceHashes(id), CopyEndFails(id, hash)
        PROVE  SourceType' /\ pc' = "failed" /\ faults' > 0
    <2>1. Attest(id, hash) /\ pc' = "failed" /\ faults' = faults + 1
      BY <1>4 DEF CopyEndFails, EndEntryFails, Fault, Abandon
    <2>2. QED
      BY <1>1, <1>2, <2>1, SourceAttests
  <1>5. ASSUME NEW id \in SourceIds, CloseFails(id)
        PROVE  SourceType' /\ pc' = "failed" /\ faults' > 0
    <2>1. source' = source /\ pc' = "failed" /\ faults' = faults + 1
      BY <1>5 DEF CloseFails, EndEntryFails, Fault, Abandon
    <2>2. QED
      BY <1>1, <1>2, <2>1 DEF SourceType
  <1>6. ASSUME NEW data \in Data \cup {<<>>}, CopyTurnFails(data)
        PROVE  SourceType' /\ pc' = "failed" /\ faults' > 0
    <2>1. pc = "content" /\ Filled(data) /\ pc' = "failed" /\ faults' = faults + 1
      BY <1>6 DEF CopyTurnFails, Filled, AppendContentHeaderFails, AppendContentCopyFails,
                  Fault, Abandon
    <2>2. current \in SourceIds
      BY <2>1, GoingFacts DEF CurrentIsOpen, MapsAgree
    <2>3. QED
      BY <1>1, <1>2, <2>1, <2>2, SourceSends
  <1>7. QED
    BY <1>3, <1>4, <1>5, <1>6

LEMMA ConvertInvInit == ConvertInit => ConvertInv
  <1> SUFFICES ASSUME ConvertInit PROVE ConvertInv
    OBVIOUS
  <1>1. ContentInv
    BY ContentInvInit DEF ConvertInit
  <1>2. /\ pc = "block" /\ faults = 0 /\ damaged = {} /\ state = "OpenedFiles"
        /\ ids = {} /\ DOMAIN entries_info = {}
        /\ DOMAIN id_output = {} /\ DOMAIN id_hash = {} /\ id_done = {} /\ unfinished = {}
        /\ id_output = [x \in {} |-> 0] /\ id_hash = [x \in {} |-> <<>>]
    BY DEF ConvertInit, Init
  <1>3. source = [blocks |-> 0, ended |-> FALSE,
                  sent |-> [x \in SourceIds |-> <<>>],
                  attested |-> [x \in SourceIds |-> <<>>]]
    BY DEF ConvertInit
  <1>4. /\ [x \in SourceIds |-> <<>>] \in [SourceIds -> Seq(Bytes)]
        /\ [x \in SourceIds |-> <<>>] \in [SourceIds -> Hashes]
    BY DEF Hashes
  <1>5. SourceType
    BY <1>2, <1>3, <1>4 DEF SourceType
  <1>6. CallsSucceeded /\ MapsAgree /\ NamesAgree
    BY <1>2 DEF CallsSucceeded, MapsAgree, NamesAgree
  <1>7. SentIsCopied /\ CurrentIsOpen /\ DoneIsAttested
    BY <1>2, <1>3 DEF SentIsCopied, CurrentIsOpen, DoneIsAttested
  <1>8. HashesRun
    BY <1>2 DEF HashesRun
  <1>9. QED
    BY <1>1, <1>2, <1>5, <1>6, <1>7, <1>8 DEF ConvertInv, InStep

LEMMA ConvertInvNext ==
    ConvertInv /\ [ConvertNext]_<<vars, convertVars>> => ConvertInv'
  <1> SUFFICES ASSUME ConvertInv, [ConvertNext]_<<vars, convertVars>> PROVE ConvertInv'
    OBVIOUS
  <1>1. ContentInv'
    BY ConvertStepsOutput, ContentInvNext DEF ConvertInv
  <1>2. CASE UNCHANGED <<vars, convertVars>>
    <2>1. /\ UNCHANGED <<pc, error, id_output, id_entryname, id_done, id_hash, current, left,
                         unfinished, source>>
          /\ Copied' = Copied /\ DOMAIN ids_info' = DOMAIN ids_info
          /\ UNCHANGED <<state, ids, entries_info, faults, damaged>>
      BY <1>2, OutputUntouched DEF convertVars, converter
    <2>2. SourceType' /\ (pc' = "failed" => faults' > 0)
      BY <2>1 DEF ConvertInv, SourceType
    <2>3. ASSUME pc' # "failed" PROVE InStep'
      <3>1. InStep
        BY <2>1, <2>3 DEF ConvertInv
      <3>2. (CallsSucceeded /\ MapsAgree /\ NamesAgree)'
        BY <2>1, <3>1 DEF InStep, CallsSucceeded, MapsAgree, NamesAgree
      <3>3. (SentIsCopied /\ HashesRun /\ CurrentIsOpen /\ DoneIsAttested)'
        BY <2>1, <3>1 DEF InStep, SentIsCopied, HashesRun, CurrentIsOpen, DoneIsAttested
      <3>4. QED
        BY <3>2, <3>3 DEF InStep
    <2>4. QED
      BY <1>1, <2>2, <2>3 DEF ConvertInv
  <1>3. CASE Returned
    BY <1>2, <1>3 DEF Returned
  <1>4. CASE Works \/ Breaks
    <2>1. pc # "failed"
      BY <1>4 DEF Works, Breaks, ReadBlock, CopyStart, StartRefused, ContentRefused,
                  EndRefused, BlockRefused, NextBlock, CopyContent, CopyEnd, Attest,
                  HashDiffers, CloseUnfinished, CopyTurn, Filled, SourceEnds, EndOfData,
                  FinalizeOutput, CopyStartFails, CopyEndFails, CloseFails,
                  CopyTurnFails, ErrorInFile, SourceFails
    <2>2. Going
      BY <2>1 DEF ConvertInv, Going
    <2>3. CASE Works
      <3>1. ASSUME NEW id \in SourceIds, ReadBlock(id)
            PROVE  InStep' /\ SourceType' /\ pc' # "failed"
        BY <2>2, <3>1, StartStep, BlockStep, EndStep, DiffersStep DEF ReadBlock
      <3>2. ASSUME NEW id \in SourceIds, CloseUnfinished(id)
            PROVE  InStep' /\ SourceType' /\ pc' # "failed"
        BY <2>2, <3>2, CloseStep
      <3>3. ASSUME NEW data \in Data \cup {<<>>}, CopyTurn(data)
            PROVE  InStep' /\ SourceType' /\ pc' # "failed"
        BY <2>2, <3>3, TurnStep
      <3>4. CASE EndOfData \/ \E inHash \in BOOLEAN : SourceEnds(inHash)
        BY <1>1, <2>2, <3>4, StopStep DEF ConvertInv
      <3>5. CASE FinalizeOutput
        BY <1>1, <2>2, <3>5, FinalizeStep DEF ConvertInv
      <3>6. QED
        BY <1>1, <2>3, <3>1, <3>2, <3>3, <3>4, <3>5 DEF Works, ConvertInv
    <2>4. CASE Breaks
      <3>1. ASSUME NEW data \in Data \cup {<<>>}, ErrorInFile(data)
            PROVE  InStep' /\ SourceType' /\ pc' # "failed"
        BY <2>2, <3>1, TurnStep
      <3>2. CASE \E inHash \in BOOLEAN : SourceFails(inHash)
        BY <1>1, <2>2, <3>2, StopStep DEF ConvertInv
      <3>3. CASE \/ \E id \in SourceIds :
                       \/ \E name \in Names : CopyStartFails(id, name)
                       \/ \E hash \in SourceHashes(id) : CopyEndFails(id, hash)
                       \/ CloseFails(id)
                 \/ \E data \in Data \cup {<<>>} : CopyTurnFails(data)
        BY <1>1, <2>2, <3>3, FailStep DEF ConvertInv
      <3>4. QED
        BY <1>1, <2>4, <3>1, <3>2, <3>3 DEF Breaks, ConvertInv
    <2>5. QED
      BY <1>4, <2>3, <2>4
  <1>5. QED
    BY <1>2, <1>3, <1>4 DEF ConvertNext

LEMMA ConvertInvariant == ConvertSpec => []ConvertInv
  <1>1. ConvertInit => ConvertInv
    BY ConvertInvInit
  <1>2. ConvertInv /\ [ConvertNext]_<<vars, convertVars>> => ConvertInv'
    BY ConvertInvNext
  <1>3. QED
    BY <1>1, <1>2, PTL DEF ConvertSpec, ConvertNext

-----------------------------------------------------------------------------
(***************************************************************************)
(* The theorems.                                                           *)
(***************************************************************************)
\* For every source, every buffer size and every interleaving of entries, the
\* converter's maps agree with one another and with the output, so that none
\* of its calls can be refused.
THEOREM ConverterInStep == ConvertSpec => []OutputInStep
  <1>1. ConvertInv => OutputInStep
    <2> SUFFICES ASSUME InStep PROVE OutputInStep
      BY DEF ConvertInv, OutputInStep
    <2>1. QED
      BY DEF InStep, OutputInStep, MapsAgree, NamesAgree, HashesRun
  <1>2. QED
    BY <1>1, ConvertInvariant, PTL

\* Every byte that the source delivered for an entry before it ended, failed
\* or lost its coherence is in the output, in order, and nothing else is.
THEOREM EverythingReadIsKept == ConvertSpec => []AllThatCouldBeRead
  <1>1. ConvertInv => AllThatCouldBeRead
    <2> SUFFICES ASSUME ContentInv, InStep, NEW id \in DOMAIN id_output
                 PROVE  IndexedContent(dest, ids_info[id_output[id]]) = source.sent[id]
      BY DEF ConvertInv, AllThatCouldBeRead
    <2> DEFINE o == id_output[id]
    <2>1. o \in DOMAIN ids_info \ damaged /\ Copied[o] = source.sent[id]
      BY DEF InStep, MapsAgree, CallsSucceeded, SentIsCopied
    <2> HIDE DEF o
    <2>2. HashNow(o) = IndexedContent(dest, ids_info[o])
      BY <2>1 DEF ContentInv, HashesMatch
    <2>3. QED
      BY <2>1, <2>2 DEF Copied, o
  <1>2. QED
    BY <1>1, ConvertInvariant, PTL

\* An entry that a successful conversion does not report as unfinished is, in
\* the output, what the source's EndOfEntry hash says.
THEOREM FinishedEntriesAttested == ConvertSpec => []FinishedIsAttested
  <1>1. ConvertInv => FinishedIsAttested
    <2> SUFFICES ASSUME ContentInv, InStep, pc = "done", NEW n \in DOMAIN entries_info
                 PROVE  \/ \E id \in unfinished : id_entryname[id] = n
                        \/ \E id \in id_done :
                              /\ id_entryname[id] = n
                              /\ IndexedContent(dest, dest[Len(dest)].index[n])
                                   = source.attested[id]
      BY DEF ConvertInv, FinishedIsAttested
    <2>1. PICK id \in DOMAIN id_output : id_entryname[id] = n
      BY DEF InStep, NamesAgree
    <2>2. state = "Finalized" /\ ids = {} /\ dest[Len(dest)] = ArchiveFooter(FooterIndex)
      BY DEF InStep, CallsSucceeded, ContentInv, SealShape
    <2>3. id \in id_done \cup unfinished
      BY <2>2 DEF InStep, MapsAgree
    <2>4. CASE id \in unfinished
      BY <2>1, <2>4
    <2>5. CASE id \in id_done
      <3> DEFINE o == id_output[id]
      <3>1. /\ o \in DOMAIN ids_info \ damaged /\ Copied[o] = source.sent[id]
            /\ entries_info[n] = o /\ source.attested[id] = source.sent[id]
        BY <2>1, <2>5 DEF InStep, MapsAgree, NamesAgree, CallsSucceeded, SentIsCopied,
                          DoneIsAttested
      <3>2. n \in Names
        BY DEF ContentInv, IndexInv, TypeInv, TypeOK
      <3>3. dest[Len(dest)].index[n] = ids_info[o]
        BY <2>2, <3>1, <3>2 DEF ArchiveFooter, FooterIndex
      <3> HIDE DEF o
      <3>4. HashNow(o) = IndexedContent(dest, ids_info[o])
        BY <3>1 DEF ContentInv, HashesMatch
      <3>5. IndexedContent(dest, dest[Len(dest)].index[n]) = source.attested[id]
        BY <3>1, <3>3, <3>4 DEF Copied
      <3>6. QED
        BY <2>1, <2>5, <3>5
    <2>6. QED
      BY <2>3, <2>4, <2>5
  <1>2. QED
    BY <1>1, ConvertInvariant, PTL

\* The conversion returns an error only if a call on the output failed: the
\* source, whatever it holds, cannot make it.
THEOREM OnlyOutputFails == ConvertSpec => []FailsOnlyWithOutput
  <1>1. ConvertInv => FailsOnlyWithOutput
    BY DEF ConvertInv, FailsOnlyWithOutput
  <1>2. QED
    BY <1>1, ConvertInvariant, PTL
=============================================================================
