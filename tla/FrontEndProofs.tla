---------------------------- MODULE FrontEndProofs ----------------------------
(****************************************************************************)
(* Proofs about three users of the library: LinearExtract, CBinding and     *)
(* PythonBinding.                                                           *)
(*                                                                          *)
(* ExtractInv adds to ExtractedExact what the writer cache refers to.  The  *)
(* two bindings call the same writer: the *Answers lemmas say once, for     *)
(* every answer of a call, what it leaves of the blocks and entries of the  *)
(* writer, and Sane is what all of them keep. CInv adds to CHandlesSafe who *)
(* owns each box, and the Ledger: what each entry handle of the program     *)
(* stands for in the archive that it came from. PyInv relates the entries   *)
(* of the archive to what was given for them, while an addition is under    *)
(* way too.                                                                 *)
(****************************************************************************)
EXTENDS LinearExtract, CBinding, PythonBinding, DataInduction, FiniteSetTheorems

\* What the bytes of a content block are.
Cells == Nat \X Nat
Blocks == [id : Nat, rest : Seq(Cells)]

ExtractTypeOK ==
  extract \in [export : SUBSET ExtractNames, names : Seq(ExtractNames),
               ended : SUBSET Nat, id2name : SUBSET Nat,
               files : [ExtractNames -> Seq(Cells)],
               delivered : [ExtractNames -> Seq(Cells)],
               cache : Seq(ExtractNames), block : {NoBlock} \cup Blocks,
               blocks : Nat, result : {"running", "ok", "error"}]

\* The ids with a writer are the open ones whose name is exported, and the
\* block that is copied belongs to an open id.
WritersAreOpen ==
  /\ extract.ended \subseteq DOMAIN extract.names
  /\ extract.id2name = {id \in Open : extract.names[id] \in extract.export}
  /\ extract.block # NoBlock => extract.block.id \in Open

ExtractInv == ExtractTypeOK /\ WritersAreOpen /\ ExtractedExact

\* What is taken from the front of r can be put behind f.
LEMMA CutAndJoined ==
  ASSUME NEW S, NEW f \in Seq(S), NEW r \in Seq(S), NEW n \in 0..Len(r)
  PROVE  /\ SubSeq(r, 1, n) \in Seq(S) /\ SubSeq(r, n + 1, Len(r)) \in Seq(S)
         /\ (f \o SubSeq(r, 1, n)) \o SubSeq(r, n + 1, Len(r)) = f \o r
  <1> DEFINE a == SubSeq(r, 1, n)
             b == SubSeq(r, n + 1, Len(r))
  <1>1. a \in Seq(S) /\ Len(a) = n /\ \A i \in 1..n : a[i] = r[i]
    OBVIOUS
  <1>2. b \in Seq(S) /\ Len(b) = Len(r) - n /\ \A i \in 1..Len(b) : b[i] = r[n + i]
    OBVIOUS
  <1> HIDE DEF a, b
  <1>3. a \o b = r
    <2>1. Len(r) = Len(a) + Len(b)
      BY <1>1, <1>2
    <2>2. \A i \in 1..Len(b) : b[i] = r[Len(a) + i]
      BY <1>1, <1>2
    <2>3. \A i \in 1..Len(a) : a[i] = r[i]
      BY <1>1
    <2>4. QED
      BY <1>1, <1>2, <2>1, <2>2, <2>3, ConcatIs
  <1>4. (f \o a) \o b = f \o (a \o b)
    BY <1>1, <1>2, ConcatFacts, SMTT(60)
  <1>5. QED
    BY <1>1, <1>2, <1>3, <1>4 DEF a, b

\* A file that is in the pool moves to its front, and the pool does not grow.
LEMMA GetMutFacts ==
  ASSUME NEW S, NEW cache \in Seq(S), NEW path \in S, path \in Range(cache)
  PROVE  GetMut(cache, path) \in Seq(S) /\ Len(GetMut(cache, path)) = Len(cache)
  <1> DEFINE at == CHOOSE i \in DOMAIN cache : cache[i] = path
             a == SubSeq(cache, 1, at - 1)
             b == SubSeq(cache, at + 1, Len(cache))
  <1>1. at \in 1..Len(cache)
    <2>1. \E i \in DOMAIN cache : cache[i] = path
      BY DEF Range
    <2>2. at \in DOMAIN cache
      BY <2>1
    <2>3. QED
      BY <2>2
  <1>2. GetMut(cache, path) = <<path>> \o (a \o b)
    BY DEF GetMut, RemoveAt
  <1> HIDE DEF at
  <1>3. a \in Seq(S) /\ Len(a) = at - 1
    BY <1>1
  <1>4. b \in Seq(S) /\ Len(b) = Len(cache) - at
    BY <1>1
  <1> HIDE DEF a, b
  <1>5. a \o b \in Seq(S) /\ Len(a \o b) = Len(cache) - 1
    BY <1>1, <1>3, <1>4
  <1>6. QED
    BY <1>2, <1>5

\* A file that is not in the pool is put at its front, the last one may fall out.
LEMMA PutFacts ==
  ASSUME NEW S, NEW cache \in Seq(S), NEW path \in S, Len(cache) <= FILE_WRITER_POOL_SIZE
  PROVE  /\ Put(cache, path) \in Seq(S) /\ Len(Put(cache, path)) <= FILE_WRITER_POOL_SIZE
         /\ path \in Range(Put(cache, path))
  <1> DEFINE n == Min({Len(cache) + 1, FILE_WRITER_POOL_SIZE})
             s == <<path>> \o cache
  <1>1. FILE_WRITER_POOL_SIZE \in Nat \ {0} /\ Len(cache) \in Nat
    BY ExtractAssumption
  <1>2. n \in {Len(cache) + 1, FILE_WRITER_POOL_SIZE}
        /\ n <= Len(cache) + 1 /\ n <= FILE_WRITER_POOL_SIZE
    <2>1. \E x \in {Len(cache) + 1, FILE_WRITER_POOL_SIZE} :
            \A y \in {Len(cache) + 1, FILE_WRITER_POOL_SIZE} : x =< y
      BY <1>1
    <2>2. QED
      BY <2>1 DEF Min
  <1>3. n \in Nat \ {0}
    BY <1>1, <1>2
  <1> HIDE DEF n
  <1>4. s \in Seq(S) /\ Len(s) = Len(cache) + 1 /\ s[1] = path
    OBVIOUS
  <1> HIDE DEF s
  <1>5. SubSeq(s, 1, n) \in Seq(S) /\ Len(SubSeq(s, 1, n)) = n /\ SubSeq(s, 1, n)[1] = path
    BY <1>2, <1>3, <1>4
  <1>6. path \in Range(SubSeq(s, 1, n))
    <2>1. 1 \in DOMAIN SubSeq(s, 1, n)
      BY <1>3, <1>5
    <2>2. QED
      BY <1>5, <2>1 DEF Range
  <1>7. Put(cache, path) = SubSeq(s, 1, n)
    BY DEF Put, s, n
  <1>8. QED
    BY <1>2, <1>5, <1>6, <1>7

\* Nothing is extracted at first.
LEMMA ExtractInitInv == ExtractInit => ExtractInv
  <1> SUFFICES ASSUME NEW export \in SUBSET ExtractNames, extract = Extraction(export)
               PROVE  ExtractInv
    BY DEF ExtractInit
  <1>1. ExtractTypeOK
    <2>1. [n \in ExtractNames |-> <<>>] \in [ExtractNames -> Seq(Cells)]
      OBVIOUS
    <2>2. <<>> \in Seq(ExtractNames) /\ {} \in SUBSET Nat /\ 0 \in Nat
          /\ "running" \in {"running", "ok", "error"} /\ NoBlock \in {NoBlock} \cup Blocks
      OBVIOUS
    <2>3. QED
      BY <2>1, <2>2 DEF ExtractTypeOK, Extraction
  <1>2. WritersAreOpen
    BY DEF WritersAreOpen, Extraction, Open
  <1>3. ExtractedExact
    <2>1. \A name \in export : Pending(name) = <<>>
      BY DEF Pending, Extraction
    <2>2. Len(<<>>) <= FILE_WRITER_POOL_SIZE
      BY ExtractAssumption
    <2>3. QED
      BY <2>1, <2>2 DEF ExtractedExact, Extraction
  <1>4. QED
    BY <1>1, <1>2, <1>3 DEF ExtractInv

\* The fields of linear_extract have their types.
LEMMA ExtractFields ==
  ASSUME ExtractTypeOK
  PROVE  /\ extract.export \subseteq ExtractNames /\ extract.names \in Seq(ExtractNames)
         /\ extract.ended \subseteq Nat /\ extract.id2name \subseteq Nat
         /\ extract.files \in [ExtractNames -> Seq(Cells)]
         /\ extract.delivered \in [ExtractNames -> Seq(Cells)]
         /\ extract.cache \in Seq(ExtractNames)
         /\ extract.block \in {NoBlock} \cup Blocks /\ extract.blocks \in Nat
         /\ extract.result \in {"running", "ok", "error"}
  BY DEF ExtractTypeOK

\* BlockStart keeps the invariant.
LEMMA BlockStartInv ==
  ASSUME ExtractInv, BlockStart PROVE ExtractInv'
  <1> DEFINE id == Len(extract.names) + 1
             name == NamesInOrder[id]
  <1>1. ExtractTypeOK /\ WritersAreOpen /\ ExtractedExact
    BY DEF ExtractInv
  <1>2. extract.names \in Seq(ExtractNames) /\ Len(extract.names) \in Nat
    BY <1>1, ExtractFields
  <1>3. id \in Nat /\ name \in ExtractNames
    <2>1. id \in DOMAIN NamesInOrder
      BY <1>2, ExtractAssumption DEF BlockStart
    <2>2. QED
      BY <1>2, <2>1 DEF ExtractNames, Range
  <1>4. extract' = [extract EXCEPT !.names = Append(@, name),
                       !.id2name = IF name \in extract.export THEN @ \union {id} ELSE @]
    BY DEF BlockStart
  <1>5. extract.block = NoBlock
    BY DEF BlockStart, AtBlock
  <1> HIDE DEF name
  <1> HIDE DEF id
  <1>6. ExtractTypeOK'
    <2>1. Append(extract.names, name) \in Seq(ExtractNames)
      BY <1>2, <1>3
    <2>2. (IF name \in extract.export THEN extract.id2name \union {id}
           ELSE extract.id2name) \in SUBSET Nat
      BY <1>1, <1>3, ExtractFields
    <2>3. QED
      BY <1>1, <1>4, <2>1, <2>2 DEF ExtractTypeOK
  <1>7. /\ extract'.names = Append(extract.names, name)
        /\ extract'.id2name = IF name \in extract.export
                              THEN extract.id2name \union {id} ELSE extract.id2name
        /\ extract'.ended = extract.ended /\ extract'.export = extract.export
        /\ extract'.block = NoBlock /\ extract'.files = extract.files
        /\ extract'.delivered = extract.delivered /\ extract'.cache = extract.cache
    BY <1>1, <1>4, <1>5 DEF ExtractTypeOK
  <1>8. Open' = Open \cup {id} /\ id \notin Open /\ extract'.ended \subseteq DOMAIN extract'.names
    <2>1. DOMAIN extract.names = 1..Len(extract.names)
      BY <1>2
    <2>2. DOMAIN extract'.names = DOMAIN extract.names \cup {id} /\ id \notin DOMAIN extract.names
      BY <1>2, <1>3, <1>7, <2>1 DEF id
    <2>3. QED
      BY <1>1, <1>7, <2>2 DEF Open, WritersAreOpen
  <1>9. WritersAreOpen'
    <2>1. extract'.names[id] = name /\ \A i \in Open : extract'.names[i] = extract.names[i]
      BY <1>2, <1>3, <1>7 DEF Open, id
    <2>2. extract'.id2name = {i \in Open' : extract'.names[i] \in extract'.export}
      BY <1>1, <1>7, <1>8, <2>1 DEF WritersAreOpen
    <2>3. QED
      BY <1>7, <1>8, <2>2 DEF WritersAreOpen
  <1>10. \A n : Pending(n) = <<>> /\ Pending(n)' = <<>>
    BY <1>5, <1>7 DEF Pending
  <1>11. ExtractedExact'
    BY <1>1, <1>7, <1>10 DEF ExtractedExact
  <1>12. QED
    BY <1>6, <1>9, <1>11 DEF ExtractInv

\* BlockEnd keeps the invariant.
LEMMA BlockEndInv ==
  ASSUME ExtractInv, NEW id, BlockEnd(id) PROVE ExtractInv'
  <1>1. ExtractTypeOK /\ WritersAreOpen /\ ExtractedExact
    BY DEF ExtractInv
  <1>2. id \in Open /\ id \in Nat /\ extract.block = NoBlock
    BY <1>1, ExtractFields DEF BlockEnd, AtBlock, Open
  <1>3. extract' = [extract EXCEPT !.ended = @ \union {id}, !.id2name = @ \ {id}]
    BY DEF BlockEnd
  <1>4. ExtractTypeOK'
    <2>1. extract.ended \union {id} \in SUBSET Nat /\ extract.id2name \ {id} \in SUBSET Nat
      BY <1>1, <1>2, ExtractFields
    <2>2. QED
      BY <1>1, <1>3, <2>1 DEF ExtractTypeOK
  <1>5. /\ extract'.names = extract.names /\ extract'.ended = extract.ended \union {id}
        /\ extract'.id2name = extract.id2name \ {id} /\ extract'.export = extract.export
        /\ extract'.block = NoBlock /\ extract'.files = extract.files
        /\ extract'.delivered = extract.delivered /\ extract'.cache = extract.cache
    BY <1>1, <1>2, <1>3 DEF ExtractTypeOK
  <1>6. WritersAreOpen'
    BY <1>1, <1>2, <1>5 DEF WritersAreOpen, Open
  <1>7. \A n : Pending(n) = <<>> /\ Pending(n)' = <<>>
    BY <1>2, <1>5 DEF Pending
  <1>8. ExtractedExact'
    BY <1>1, <1>5, <1>7 DEF ExtractedExact
  <1>9. QED
    BY <1>4, <1>6, <1>8 DEF ExtractInv

\* BlockContent keeps the invariant.
LEMMA BlockContentInv ==
  ASSUME ExtractInv, NEW id, NEW length \in 1..MaxContent, BlockContent(id, length)
  PROVE  ExtractInv'
  <1> DEFINE content == Content(length)
             name == extract.names[id]
             block == [id |-> id, rest |-> content]
  <1>1. ExtractTypeOK /\ WritersAreOpen /\ ExtractedExact
    BY DEF ExtractInv
  <1>2. id \in Open /\ id \in Nat /\ extract.block = NoBlock /\ name \in ExtractNames
    <2>1. id \in Open /\ extract.block = NoBlock
      BY DEF BlockContent, AtBlock
    <2>2. extract.names \in Seq(ExtractNames) /\ id \in DOMAIN extract.names
      BY <1>1, <2>1, ExtractFields DEF Open
    <2>3. QED
      BY <2>1, <2>2
  <1>3. content \in Seq(Cells)
    <2>1. extract.blocks \in Nat /\ length \in Nat
      BY <1>1, ExtractFields, ExtractAssumption
    <2>2. \A i \in 1..length : <<extract.blocks, i>> \in Cells
      BY <2>1 DEF Cells
    <2>3. QED
      BY <2>1, <2>2 DEF Content
  <1>4. extract' = [extract EXCEPT !.block = block, !.blocks = @ + 1,
                                   !.delivered[name] = @ \o content]
    BY DEF BlockContent
  <1> HIDE DEF content
  <1>5. block \in Blocks /\ block # NoBlock /\ block.id = id /\ block.rest = content
    BY <1>2, <1>3, ExtractAssumption DEF Blocks, Cells
  <1> HIDE DEF block, name
  <1>6. extract.delivered \in [ExtractNames -> Seq(Cells)] /\ extract.blocks \in Nat
        /\ extract.files \in [ExtractNames -> Seq(Cells)]
    BY <1>1, ExtractFields
  <1>7. [extract.delivered EXCEPT ![name] = @ \o content] \in [ExtractNames -> Seq(Cells)]
    BY <1>2, <1>3, <1>6
  <1>8. ExtractTypeOK'
    <2>1. extract.blocks + 1 \in Nat /\ block \in {NoBlock} \cup Blocks
      BY <1>5, <1>6
    <2>2. extract' = [extract EXCEPT !.block = block, !.blocks = @ + 1,
                        !.delivered = [extract.delivered EXCEPT ![name] = @ \o content]]
      BY <1>4
    <2>3. QED
      BY <1>1, <1>7, <2>1, <2>2 DEF ExtractTypeOK
  <1>9. /\ extract'.names = extract.names /\ extract'.ended = extract.ended
        /\ extract'.id2name = extract.id2name /\ extract'.export = extract.export
        /\ extract'.block = block /\ extract'.files = extract.files
        /\ extract'.delivered = [extract.delivered EXCEPT ![name] = @ \o content]
        /\ extract'.cache = extract.cache
    BY <1>1, <1>4 DEF ExtractTypeOK
  <1>10. WritersAreOpen'
    BY <1>1, <1>2, <1>5, <1>9 DEF WritersAreOpen, Open
  <1>11. \A n : Pending(n) = <<>> /\ Pending(n)' = IF n = name THEN content ELSE <<>>
    BY <1>2, <1>5, <1>9 DEF Pending, name
  <1>12. ASSUME NEW n \in extract.export
         PROVE  extract.files[n] \o Pending(n)' = extract'.delivered[n]
    <2>1. n \in ExtractNames
      BY <1>1, ExtractFields
    <2>2. extract.files[n] \in Seq(Cells) /\ extract.delivered[n] \in Seq(Cells)
          /\ extract.files[n] \o <<>> = extract.delivered[n]
      BY <1>1, <1>6, <1>11, <2>1 DEF ExtractedExact
    <2>3. extract.files[n] = extract.delivered[n]
      BY <2>2
    <2>4. CASE n = name
      BY <1>6, <1>9, <1>11, <2>1, <2>3, <2>4
    <2>5. CASE n # name
      BY <1>6, <1>9, <1>11, <2>1, <2>2, <2>5
    <2>6. QED
      BY <2>4, <2>5
  <1>13. ExtractedExact'
    BY <1>1, <1>9, <1>12 DEF ExtractedExact
  <1>14. QED
    BY <1>8, <1>10, <1>13 DEF ExtractInv

\* Only the result changes, or the block that went to the sink.
LEMMA ExtractEndsInv ==
  ASSUME ExtractInv, NEW r \in {"ok", "error"}, extract' = [extract EXCEPT !.result = r]
  PROVE  ExtractInv'
  <1>1. ExtractTypeOK /\ WritersAreOpen /\ ExtractedExact
    BY DEF ExtractInv
  <1>2. ExtractTypeOK'
    BY <1>1 DEF ExtractTypeOK
  <1>3. /\ extract'.names = extract.names /\ extract'.ended = extract.ended
        /\ extract'.id2name = extract.id2name /\ extract'.export = extract.export
        /\ extract'.block = extract.block /\ extract'.files = extract.files
        /\ extract'.delivered = extract.delivered /\ extract'.cache = extract.cache
    BY <1>1 DEF ExtractTypeOK
  <1>4. WritersAreOpen'
    BY <1>1, <1>3 DEF WritersAreOpen, Open
  <1>5. \A n : Pending(n)' = Pending(n)
    BY <1>3 DEF Pending
  <1>6. ExtractedExact'
    BY <1>1, <1>3, <1>5 DEF ExtractedExact
  <1>7. QED
    BY <1>2, <1>4, <1>6 DEF ExtractInv

\* CopyToSink keeps the invariant.
LEMMA CopyToSinkInv ==
  ASSUME ExtractInv, CopyToSink PROVE ExtractInv'
  <1>1. ExtractTypeOK /\ WritersAreOpen /\ ExtractedExact
    BY DEF ExtractInv
  <1>2. extract' = [extract EXCEPT !.block = NoBlock]
    BY DEF CopyToSink
  <1>3. ExtractTypeOK'
    BY <1>1, <1>2 DEF ExtractTypeOK
  <1>4. /\ extract'.names = extract.names /\ extract'.ended = extract.ended
        /\ extract'.id2name = extract.id2name /\ extract'.export = extract.export
        /\ extract'.block = NoBlock /\ extract'.files = extract.files
        /\ extract'.delivered = extract.delivered /\ extract'.cache = extract.cache
    BY <1>1, <1>2 DEF ExtractTypeOK
  <1>5. WritersAreOpen'
    BY <1>1, <1>4 DEF WritersAreOpen, Open
  <1>6. extract.names[extract.block.id] \notin extract.export
    BY <1>1 DEF WritersAreOpen, CopyToSink
  <1>7. \A n \in extract.export : Pending(n) = <<>> /\ Pending(n)' = <<>>
    BY <1>4, <1>6 DEF Pending
  <1>8. ExtractedExact'
    BY <1>1, <1>4, <1>7 DEF ExtractedExact
  <1>9. QED
    BY <1>3, <1>5, <1>8 DEF ExtractInv

\* FileWrite keeps the invariant.
LEMMA FileWriteInv ==
  ASSUME ExtractInv, NEW n \in 1..MaxContent, FileWrite(n) PROVE ExtractInv'
  <1> DEFINE path == extract.names[extract.block.id]
             rest == extract.block.rest
             file == extract.files[path]
             left == SubSeq(rest, n + 1, Len(rest))
             block == Done([extract.block EXCEPT !.rest = left])
             put == IF InPool(path) THEN extract.cache ELSE Put(extract.cache, path)
             cache == GetMut(put, path)
             written == file \o SubSeq(rest, 1, n)
  <1>1. ExtractTypeOK /\ WritersAreOpen /\ ExtractedExact
    BY DEF ExtractInv
  <1>2. extract.block \in Blocks /\ extract.block.id \in Open /\ rest \in Seq(Cells)
        /\ extract.block # NoBlock
    BY <1>1, ExtractFields DEF FileWrite, WritersAreOpen, Blocks
  <1>3. path \in extract.export /\ path \in ExtractNames
    BY <1>1, ExtractFields DEF FileWrite, WritersAreOpen
  <1>4. n \in 0..Len(rest) /\ n \in Nat
    BY <1>2, ExtractAssumption DEF FileWrite
  <1>5. file \in Seq(Cells) /\ extract.files \in [ExtractNames -> Seq(Cells)]
    BY <1>1, <1>3, ExtractFields
  <1>6. extract' = [extract EXCEPT !.cache = cache, !.files[path] = written, !.block = block]
    <2>1. (IF InPool(path) THEN file ELSE Reopened(file)) = file
      BY DEF Reopened
    <2> HIDE DEF put, cache
    <2>2. extract' = [extract EXCEPT
                        !.cache = cache,
                        !.files[path] = (IF InPool(path) THEN file ELSE Reopened(file))
                                          \o SubSeq(rest, 1, n),
                        !.block = block]
      BY DEF FileWrite, cache, put
    <2>3. QED
      BY <2>1, <2>2
  <1>7. cache \in Seq(ExtractNames) /\ Len(cache) <= FILE_WRITER_POOL_SIZE
    <2>1. extract.cache \in Seq(ExtractNames) /\ Len(extract.cache) <= FILE_WRITER_POOL_SIZE
      BY <1>1, ExtractFields DEF ExtractedExact
    <2>2. put \in Seq(ExtractNames) /\ Len(put) <= FILE_WRITER_POOL_SIZE /\ path \in Range(put)
      BY <1>3, <2>1, PutFacts DEF InPool
    <2> HIDE DEF put
    <2>3. QED
      BY <1>3, <2>2, GetMutFacts
  <1> HIDE DEF cache, put
  <1>8. SubSeq(rest, 1, n) \in Seq(Cells) /\ left \in Seq(Cells)
        /\ written \o left = file \o rest
    <2>1. file \in Seq(Cells) /\ rest \in Seq(Cells) /\ n \in 0..Len(rest)
      BY <1>2, <1>4, <1>5
    <2> HIDE DEF file, rest
    <2>2. QED
      BY <2>1, CutAndJoined, ZenonT(60)
  <1>9. written \in Seq(Cells)
    BY <1>5, <1>8, ConcatType
  <1> HIDE DEF written, left
  <1>10. /\ block \in {NoBlock} \cup Blocks
         /\ block # NoBlock => block.id = extract.block.id /\ block.rest = left
         /\ block = NoBlock => left = <<>>
    <2>1. [extract.block EXCEPT !.rest = left] = [id |-> extract.block.id, rest |-> left]
      BY <1>2 DEF Blocks
    <2>2. [id |-> extract.block.id, rest |-> left] \in Blocks
      BY <1>2, <1>8 DEF Blocks
    <2>3. Blocks = [id : Nat, rest : Seq(Nat \X Nat)]
      BY DEF Blocks, Cells
    <2>4. QED
      BY <2>1, <2>2, <2>3, ExtractAssumption DEF Done
  <1> HIDE DEF block, file, rest
  <1>11. [extract.files EXCEPT ![path] = written] \in [ExtractNames -> Seq(Cells)]
    BY <1>3, <1>5, <1>9
  <1> HIDE DEF path
  <1>12. ExtractTypeOK'
    BY <1>1, <1>6, <1>7, <1>10, <1>11 DEF ExtractTypeOK
  <1>13. /\ extract'.names = extract.names /\ extract'.ended = extract.ended
         /\ extract'.id2name = extract.id2name /\ extract'.export = extract.export
         /\ extract'.block = block /\ extract'.cache = cache
         /\ extract'.files = [extract.files EXCEPT ![path] = written]
         /\ extract'.delivered = extract.delivered
    BY <1>1, <1>6 DEF ExtractTypeOK
  <1>14. WritersAreOpen'
    BY <1>1, <1>2, <1>10, <1>13 DEF WritersAreOpen, Open
  <1>15. ASSUME NEW m \in extract.export
         PROVE  extract'.files[m] \o Pending(m)' = extract.delivered[m]
    <2>1. m \in ExtractNames
      BY <1>1, ExtractFields
    <2>2. extract.files[m] \o Pending(m) = extract.delivered[m]
      BY <1>1 DEF ExtractedExact
    <2>3. CASE m = path
      <3>1. extract'.files[m] = written
        BY <1>5, <1>13, <2>1, <2>3
      <3>2. Pending(m)' = left
        BY <1>10, <1>13, <2>3 DEF Pending, path
      <3>3. Pending(m) = rest
        BY <1>2, <2>3 DEF Pending, path, rest
      <3>4. QED
        BY <1>8, <2>2, <2>3, <3>1, <3>2, <3>3 DEF file
    <2>4. CASE m # path
      <3>1. Pending(m) = <<>> /\ Pending(m)' = <<>>
        BY <1>2, <1>10, <1>13, <2>4 DEF Pending, path
      <3>2. extract'.files[m] = extract.files[m]
        BY <1>5, <1>13, <2>1, <2>4
      <3>3. QED
        BY <2>2, <3>1, <3>2
    <2>5. QED
      BY <2>3, <2>4
  <1>16. \A m \in ExtractNames \ extract.export : extract'.files[m] = <<>>
    BY <1>1, <1>3, <1>5, <1>13 DEF ExtractedExact
  <1>17. ExtractedExact'
    BY <1>7, <1>13, <1>15, <1>16 DEF ExtractedExact
  <1>18. QED
    BY <1>12, <1>14, <1>17 DEF ExtractInv

\* Every step of linear_extract keeps its invariant.
LEMMA ExtractStepInv == ExtractInv /\ [ExtractNext]_extract => ExtractInv'
  <1> SUFFICES ASSUME ExtractInv, [ExtractNext]_extract PROVE ExtractInv'
    OBVIOUS
  <1>1. CASE BlockStart
    BY <1>1, BlockStartInv
  <1>2. ASSUME NEW id \in DOMAIN NamesInOrder, BlockEnd(id) PROVE ExtractInv'
    BY <1>2, BlockEndInv
  <1>3. ASSUME NEW id \in DOMAIN NamesInOrder, NEW length \in 1..MaxContent,
               BlockContent(id, length)
        PROVE  ExtractInv'
    BY <1>3, BlockContentInv
  <1>4. CASE BlockEndOfArchiveData
    BY <1>4, ExtractEndsInv DEF BlockEndOfArchiveData
  <1>5. CASE BlockFails
    BY <1>5, ExtractEndsInv DEF BlockFails
  <1>6. CASE CopyToSink
    BY <1>6, CopyToSinkInv
  <1>7. ASSUME NEW n \in 1..MaxContent, FileWrite(n) PROVE ExtractInv'
    BY <1>7, FileWriteInv
  <1>8. CASE FileWriteFails
    BY <1>8, ExtractEndsInv DEF FileWriteFails
  <1>9. CASE UNCHANGED extract
    BY <1>9 DEF ExtractInv, ExtractTypeOK, WritersAreOpen, Open, ExtractedExact, Pending
  <1>10. QED
    BY <1>1, <1>2, <1>3, <1>4, <1>5, <1>6, <1>7, <1>8, <1>9 DEF ExtractNext

\* Whatever order the blocks of the entries come in, however the cache of
\* open files is filled and emptied, each file that linear_extract writes
\* holds the bytes its blocks delivered, in their order, but for the rest of
\* the block being copied, and no more files are open than the pool allows:
\* helpers.rs and mlar, for any names, pool size and block lengths.
THEOREM LinearExtractExact == ExtractSpec => []ExtractedExact
  <1>1. ExtractInv => ExtractedExact
    BY DEF ExtractInv
  <1>2. QED
    BY <1>1, ExtractInitInv, ExtractStepInv, PTL DEF ExtractSpec

-----------------------------------------------------------------------------
BlockKinds == {"EntryStart", "EntryContent", "EndOfEntry"}
WriterBlocks == [kind : BlockKinds, id : Nat]

Writers(names) ==
  [names : Seq(names), open : SUBSET Nat, blocks : Seq(WriterBlocks),
   torn : BOOLEAN, sealed : BOOLEAN]

\* The blocks of an entry that was started and not ended.
EntryBegun(writer, id) ==
  \E first \in PlacesOf(writer.blocks, id) :
    \A i \in PlacesOf(writer.blocks, id) :
      /\ first <= i
      /\ writer.blocks[i].kind = IF i = first THEN "EntryStart" ELSE "EntryContent"

\* Unless an error tore the stream, its blocks are those of the entries: an
\* open one lacks its end, every other one is whole.
BlocksFit(writer) ==
  /\ \A i \in DOMAIN writer.blocks : writer.blocks[i].id < Len(writer.names)
  /\ \A id \in 0 .. Len(writer.names) - 1 :
       IF id \in writer.open THEN EntryBegun(writer, id) ELSE EntryWhole(writer, id)

NamesDiffer(names) ==
  \A i, j \in DOMAIN names : names[i] = names[j] => i = j

Sane(writer) ==
  /\ writer.open \subseteq 0 .. Len(writer.names) - 1
  /\ NamesDiffer(writer.names)
  /\ ~writer.torn => BlocksFit(writer)

\* The fields of a writer have their types.
LEMMA WriterFields ==
  ASSUME NEW N, NEW w \in Writers(N)
  PROVE  /\ w.names \in Seq(N) /\ Len(w.names) \in Nat /\ w.open \in SUBSET Nat
         /\ w.blocks \in Seq(WriterBlocks) /\ w.torn \in BOOLEAN /\ w.sealed \in BOOLEAN
  BY DEF Writers

\* The places of an entry once a block is appended.
LEMMA PlacesAfter ==
  ASSUME NEW u \in Seq(WriterBlocks), NEW b \in WriterBlocks, NEW v, v = Append(u, b)
  PROVE  /\ Len(u) + 1 \in Nat /\ v[Len(u) + 1] = b
         /\ \A id : PlacesOf(u, id) \subseteq Nat
         /\ \A id : \A i \in PlacesOf(u, id) : i < Len(u) + 1 /\ v[i] = u[i]
         /\ \A id : b.id # id => PlacesOf(v, id) = PlacesOf(u, id)
         /\ PlacesOf(v, b.id) = PlacesOf(u, b.id) \cup {Len(u) + 1}
  <1>1. /\ v \in Seq(WriterBlocks) /\ Len(v) = Len(u) + 1
        /\ \A i \in 1..Len(u) : v[i] = u[i]
        /\ v[Len(u) + 1] = b /\ Len(u) \in Nat
    OBVIOUS
  <1>2. DOMAIN v = 1..Len(u) + 1 /\ DOMAIN u = 1..Len(u)
    BY <1>1
  <1>3. ASSUME NEW id
        PROVE  /\ PlacesOf(u, id) \subseteq Nat
               /\ \A i \in PlacesOf(u, id) : i < Len(u) + 1 /\ v[i] = u[i]
               /\ b.id # id => PlacesOf(v, id) = PlacesOf(u, id)
               /\ b.id = id => PlacesOf(v, id) = PlacesOf(u, id) \cup {Len(u) + 1}
    BY <1>1, <1>2 DEF PlacesOf
  <1>4. Len(u) + 1 \in Nat
    BY <1>1
  <1>5. QED
    BY <1>1, <1>3, <1>4

\* An entry whose blocks did not change is as whole as before.
LEMMA WholeKept ==
  ASSUME NEW w, NEW x, NEW id, PlacesOf(x.blocks, id) = PlacesOf(w.blocks, id),
         \A i \in PlacesOf(w.blocks, id) : x.blocks[i] = w.blocks[i]
  PROVE  (EntryWhole(x, id) <=> EntryWhole(w, id)) /\ (EntryBegun(x, id) <=> EntryBegun(w, id))
  BY DEF EntryWhole, EntryBegun

\* start_entry that succeeds.
LEMMA StartedSane ==
  ASSUME NEW N, NEW w \in Writers(N), Sane(w), NEW name \in N, name \notin Range(w.names),
         NEW x \in Writers(N), x.names = Append(w.names, name),
         x.open = w.open \cup {Len(w.names)},
         x.blocks = Append(w.blocks, [kind |-> "EntryStart", id |-> Len(w.names)]),
         x.torn = w.torn
  PROVE  Sane(x)
  <1> DEFINE n == Len(w.names)
             b == [kind |-> "EntryStart", id |-> n]
  <1>1. n \in Nat /\ w.names \in Seq(N) /\ w.blocks \in Seq(WriterBlocks)
    BY WriterFields
  <1>2. Len(x.names) = n + 1 /\ NamesDiffer(x.names)
    <2>1. DOMAIN x.names = 1..n + 1 /\ DOMAIN w.names = 1..n
      BY <1>1
    <2>2. x.names[n + 1] = name /\ \A i \in 1..n : x.names[i] = w.names[i] /\ w.names[i] # name
      BY <1>1 DEF Range
    <2>3. QED
      BY <1>1, <2>1, <2>2 DEF NamesDiffer, Sane
  <1>3. x.open \subseteq 0 .. Len(x.names) - 1
    BY <1>1, <1>2 DEF Sane
  <1>4. b \in WriterBlocks /\ b.id = n /\ b.kind = "EntryStart"
    BY <1>1 DEF WriterBlocks, BlockKinds
  <1>5. x.blocks = Append(w.blocks, b)
    OBVIOUS
  <1>9. /\ Len(w.blocks) + 1 \in Nat /\ x.blocks[Len(w.blocks) + 1] = b
        /\ \A e : PlacesOf(w.blocks, e) \subseteq Nat
        /\ \A e : \A i \in PlacesOf(w.blocks, e) :
                    i < Len(w.blocks) + 1 /\ x.blocks[i] = w.blocks[i]
        /\ \A e : b.id # e => PlacesOf(x.blocks, e) = PlacesOf(w.blocks, e)
        /\ PlacesOf(x.blocks, b.id) = PlacesOf(w.blocks, b.id) \cup {Len(w.blocks) + 1}
    <2> HIDE DEF b
    <2>1. QED
      BY <1>1, <1>4, <1>5, PlacesAfter
  <1> HIDE DEF b, n
  <1>6. ASSUME ~w.torn PROVE BlocksFit(x)
    <2>1. BlocksFit(w) /\ w.open \subseteq 0 .. n - 1
      BY <1>6 DEF Sane, n
    <2>2. \A i \in DOMAIN w.blocks : w.blocks[i].id \in Nat /\ w.blocks[i].id < n
      <3>1. \A i \in DOMAIN w.blocks : w.blocks[i] \in WriterBlocks
        BY <1>1
      <3>2. \A i \in DOMAIN w.blocks : w.blocks[i].id \in Nat
        BY <3>1 DEF WriterBlocks
      <3>3. QED
        BY <2>1, <3>2 DEF BlocksFit, n
    <2>3. \A i \in DOMAIN x.blocks : x.blocks[i].id < Len(x.names)
      <3>1. DOMAIN x.blocks = DOMAIN w.blocks \cup {Len(w.blocks) + 1}
        BY <1>1, <1>4, <1>5
      <3>2. \A i \in DOMAIN w.blocks : x.blocks[i] = w.blocks[i]
        BY <1>1, <1>4, <1>5
      <3>3. x.blocks[Len(w.blocks) + 1] = b
        BY <1>1, <1>4, <1>5
      <3>4. QED
        BY <1>1, <1>2, <1>4, <2>2, <3>1, <3>2, <3>3, SMTT(60)
    <2>4. ASSUME NEW id \in 0 .. n - 1
          PROVE  IF id \in x.open THEN EntryBegun(x, id) ELSE EntryWhole(x, id)
      <3>1. b.id # id
        BY <1>1, <1>4
      <3>2. PlacesOf(x.blocks, id) = PlacesOf(w.blocks, id)
            /\ \A i \in PlacesOf(w.blocks, id) : x.blocks[i] = w.blocks[i]
        BY <1>9, <3>1
      <3>3. id \in x.open <=> id \in w.open
        BY <1>1 DEF n
      <3>4. IF id \in w.open THEN EntryBegun(w, id) ELSE EntryWhole(w, id)
        BY <2>1 DEF BlocksFit, n
      <3>5. QED
        BY <3>2, <3>3, <3>4, WholeKept
    <2>5. EntryBegun(x, n) /\ n \in x.open
      <3>1. PlacesOf(w.blocks, n) = {}
        BY <1>1, <2>2 DEF PlacesOf
      <3>2. PlacesOf(x.blocks, n) = {Len(w.blocks) + 1} /\ x.blocks[Len(w.blocks) + 1] = b
        <4>1. PlacesOf(x.blocks, b.id) = PlacesOf(w.blocks, b.id) \cup {Len(w.blocks) + 1}
              /\ x.blocks[Len(w.blocks) + 1] = b
          BY <1>9
        <4>2. QED
          BY <1>4, <3>1, <4>1
      <3>3. Len(w.blocks) + 1 <= Len(w.blocks) + 1
        BY <1>1
      <3>4. n \in x.open
        BY DEF n
      <3>5. EntryBegun(x, n)
        <4>1. \A i \in PlacesOf(x.blocks, n) :
                /\ Len(w.blocks) + 1 <= i
                /\ x.blocks[i].kind = IF i = Len(w.blocks) + 1 THEN "EntryStart"
                                      ELSE "EntryContent"
          BY <1>4, <3>2, <3>3
        <4>2. Len(w.blocks) + 1 \in PlacesOf(x.blocks, n)
          BY <3>2
        <4>3. QED
          BY <4>1, <4>2, Zenon DEF EntryBegun
      <3>6. QED
        BY <3>4, <3>5
    <2>6. \A id \in 0 .. Len(x.names) - 1 : id \in 0 .. n - 1 \/ id = n
      BY <1>1, <1>2
    <2>7. QED
      BY <2>3, <2>4, <2>5, <2>6 DEF BlocksFit
  <1>7. QED
    BY <1>2, <1>3, <1>6 DEF Sane

\* A torn stream: only the names and the open ids matter.
LEMMA TornSane ==
  ASSUME NEW N, NEW w \in Writers(N), Sane(w), NEW x \in Writers(N),
         x.names = w.names, x.open \subseteq w.open, x.torn = TRUE
  PROVE  Sane(x)
  BY DEF Sane

\* A start_entry that fails after the name was kept leaves the writer sane.
LEMMA StartTornSane ==
  ASSUME NEW N, NEW w \in Writers(N), Sane(w), NEW name \in N, name \notin Range(w.names),
         NEW x \in Writers(N), x.names = Append(w.names, name), x.open = w.open, x.torn = TRUE
  PROVE  Sane(x)
  <1> DEFINE n == Len(w.names)
  <1>1. n \in Nat /\ w.names \in Seq(N)
    BY WriterFields
  <1>2. Len(x.names) = n + 1 /\ NamesDiffer(x.names)
    <2>1. DOMAIN x.names = 1..n + 1 /\ DOMAIN w.names = 1..n
      BY <1>1
    <2>2. x.names[n + 1] = name /\ \A i \in 1..n : x.names[i] = w.names[i] /\ w.names[i] # name
      BY <1>1 DEF Range
    <2>3. QED
      BY <1>1, <2>1, <2>2 DEF NamesDiffer, Sane
  <1>3. x.open \subseteq 0 .. Len(x.names) - 1
    BY <1>1, <1>2 DEF Sane
  <1>4. QED
    BY <1>2, <1>3 DEF Sane

\* append_entry_content and end_entry: a block is appended to an open entry.
LEMMA BlockSane ==
  ASSUME NEW N, NEW w \in Writers(N), Sane(w), NEW id \in w.open,
         NEW kind \in {"EntryContent", "EndOfEntry"},
         NEW x \in Writers(N), x.names = w.names,
         x.open = IF kind = "EndOfEntry" THEN w.open \ {id} ELSE w.open,
         x.blocks = Append(w.blocks, [kind |-> kind, id |-> id]),
         x.torn = w.torn
  PROVE  Sane(x)
  <1> DEFINE n == Len(w.names)
             b == [kind |-> kind, id |-> id]
             last == Len(w.blocks) + 1
  <1>1. n \in Nat /\ w.names \in Seq(N) /\ w.blocks \in Seq(WriterBlocks) /\ id \in Nat
        /\ id \in 0 .. n - 1
    BY WriterFields DEF Sane
  <1>2. b \in WriterBlocks /\ b.id = id /\ b.kind = kind
    BY <1>1 DEF WriterBlocks, BlockKinds
  <1>3. x.blocks = Append(w.blocks, b)
    OBVIOUS
  <1>9. /\ Len(w.blocks) + 1 \in Nat /\ x.blocks[Len(w.blocks) + 1] = b
        /\ \A e : PlacesOf(w.blocks, e) \subseteq Nat
        /\ \A e : \A i \in PlacesOf(w.blocks, e) :
                    i < Len(w.blocks) + 1 /\ x.blocks[i] = w.blocks[i]
        /\ \A e : b.id # e => PlacesOf(x.blocks, e) = PlacesOf(w.blocks, e)
        /\ PlacesOf(x.blocks, b.id) = PlacesOf(w.blocks, b.id) \cup {Len(w.blocks) + 1}
    <2> HIDE DEF b
    <2>1. QED
      BY <1>1, <1>2, <1>3, PlacesAfter
  <1> HIDE DEF b, n
  <1>4. ASSUME ~w.torn PROVE BlocksFit(x)
    <2>1. BlocksFit(w)
      BY <1>4 DEF Sane, n
    <2>3. \A i \in DOMAIN x.blocks : x.blocks[i].id < Len(x.names)
      <3>1. DOMAIN x.blocks = DOMAIN w.blocks \cup {Len(w.blocks) + 1}
        BY <1>1, <1>2, <1>3
      <3>2. \A i \in DOMAIN w.blocks : x.blocks[i] = w.blocks[i]
        BY <1>1, <1>2, <1>3
      <3>3. x.blocks[Len(w.blocks) + 1] = b
        BY <1>1, <1>2, <1>3
      <3>4. id < Len(x.names)
        BY <1>1 DEF n
      <3>5. QED
        BY <1>2, <2>1, <3>1, <3>2, <3>3, <3>4 DEF BlocksFit
    <2>4. ASSUME NEW other \in 0 .. n - 1, other # id
          PROVE  IF other \in x.open THEN EntryBegun(x, other) ELSE EntryWhole(x, other)
      <3>1. b.id # other
        BY <1>1, <1>2, <2>4
      <3>2. PlacesOf(x.blocks, other) = PlacesOf(w.blocks, other)
            /\ \A i \in PlacesOf(w.blocks, other) : x.blocks[i] = w.blocks[i]
        BY <1>9, <3>1
      <3>3. other \in x.open <=> other \in w.open
        BY <2>4
      <3>4. IF other \in w.open THEN EntryBegun(w, other) ELSE EntryWhole(w, other)
        BY <2>1 DEF BlocksFit, n
      <3>5. QED
        BY <3>2, <3>3, <3>4, WholeKept
    <2>5. /\ EntryBegun(w, id) /\ last \in Nat
          /\ PlacesOf(x.blocks, id) = PlacesOf(w.blocks, id) \cup {last}
          /\ PlacesOf(w.blocks, id) \subseteq Nat
          /\ \A i \in PlacesOf(w.blocks, id) : i < last /\ x.blocks[i] = w.blocks[i]
          /\ x.blocks[last].kind = kind
      <3>1. EntryBegun(w, id)
        BY <1>1, <2>1 DEF BlocksFit, n
      <3>2. /\ PlacesOf(x.blocks, b.id) = PlacesOf(w.blocks, b.id) \cup {last}
            /\ PlacesOf(w.blocks, b.id) \subseteq Nat
            /\ \A i \in PlacesOf(w.blocks, b.id) : i < last /\ x.blocks[i] = w.blocks[i]
            /\ x.blocks[last] = b
        BY <1>9
      <3>3. last \in Nat
        BY <1>1
      <3> HIDE DEF last
      <3>4. QED
        BY <1>2, <3>1, <3>2, <3>3
    <2> HIDE DEF last
    <2>6. PICK first \in PlacesOf(w.blocks, id) :
            \A i \in PlacesOf(w.blocks, id) :
              /\ first <= i
              /\ w.blocks[i].kind = IF i = first THEN "EntryStart" ELSE "EntryContent"
      BY <2>5 DEF EntryBegun
    <2>7. first \in Nat /\ first < last /\ first \in PlacesOf(x.blocks, id) /\ last \in PlacesOf(x.blocks, id)
      BY <2>5
    <2>8. \A i \in PlacesOf(x.blocks, id) : first <= i /\ i <= last
      BY <2>5, <2>6, <2>7
    <2>9. \A i \in PlacesOf(x.blocks, id) :
            x.blocks[i].kind = IF i = first THEN "EntryStart"
                               ELSE IF i = last THEN kind ELSE "EntryContent"
      BY <2>5, <2>6, <2>7
    <2>10. IF id \in x.open THEN EntryBegun(x, id) ELSE EntryWhole(x, id)
      <3>1. CASE kind = "EntryContent"
        <4>1. id \in x.open
          BY <3>1
        <4>2. EntryBegun(x, id)
          BY <2>7, <2>8, <2>9, <3>1 DEF EntryBegun
        <4>3. QED
          BY <4>1, <4>2
      <3>2. CASE kind = "EndOfEntry"
        <4>1. id \notin x.open
          BY <3>2
        <4>2. \A i \in PlacesOf(x.blocks, id) :
                x.blocks[i].kind = IF i = first THEN "EntryStart"
                                   ELSE IF i = last THEN "EndOfEntry" ELSE "EntryContent"
          BY <2>9, <3>2
        <4>3. EntryWhole(x, id)
          <5>1. \A i \in PlacesOf(x.blocks, id) :
                  /\ first <= i /\ i <= last
                  /\ x.blocks[i].kind = IF i = first THEN "EntryStart"
                                        ELSE IF i = last THEN "EndOfEntry" ELSE "EntryContent"
            BY <2>8, <4>2
          <5>2. QED
            BY <2>7, <5>1, Zenon DEF EntryWhole
        <4>4. QED
          BY <4>1, <4>3
      <3>3. QED
        BY <3>1, <3>2
    <2>11. QED
      BY <2>3, <2>4, <2>10 DEF BlocksFit, n
  <1>5. x.open \subseteq w.open
    OBVIOUS
  <1>6. QED
    BY <1>4, <1>5 DEF Sane

\* A new writer is sane.
LEMMA NewWriterSane ==
  ASSUME NEW N
  PROVE  NewWriter \in Writers(N) /\ Sane(NewWriter) /\ ~NewWriter.torn /\ ~NewWriter.sealed
         /\ NewWriter.names = <<>> /\ NewWriter.open = {} /\ NewWriter.blocks = <<>>
  <1>1. NewWriter \in Writers(N)
    BY DEF NewWriter, Writers
  <1>2. NewWriter.names = <<>> /\ NewWriter.open = {} /\ NewWriter.blocks = <<>>
        /\ ~NewWriter.torn /\ ~NewWriter.sealed
    BY DEF NewWriter
  <1>3. QED
    BY <1>1, <1>2 DEF Sane, BlocksFit, NamesDiffer

\* A sane writer that is sealed with no open entry is complete unless torn.
LEMMA SaneComplete ==
  ASSUME NEW N, NEW w \in Writers(N), Sane(w), w.open = {}, ~w.torn, w.sealed
  PROVE  Complete(w)
  BY DEF Sane, BlocksFit, Complete, NextId

\* A call replaces some of the fields of a writer.
LEMMA With_names ==
  ASSUME NEW N, NEW w \in Writers(N), NEW v \in Seq(N)
  PROVE  /\ [w EXCEPT !.names = v] \in Writers(N)
         /\ [w EXCEPT !.names = v].names = v
         /\ [w EXCEPT !.names = v].open = w.open
         /\ [w EXCEPT !.names = v].blocks = w.blocks
         /\ [w EXCEPT !.names = v].torn = w.torn
         /\ [w EXCEPT !.names = v].sealed = w.sealed
  BY DEF Writers

\* Setting the open entries of a writer.
LEMMA With_open ==
  ASSUME NEW N, NEW w \in Writers(N), NEW v \in SUBSET Nat
  PROVE  /\ [w EXCEPT !.open = v] \in Writers(N)
         /\ [w EXCEPT !.open = v].open = v
         /\ [w EXCEPT !.open = v].names = w.names
         /\ [w EXCEPT !.open = v].blocks = w.blocks
         /\ [w EXCEPT !.open = v].torn = w.torn
         /\ [w EXCEPT !.open = v].sealed = w.sealed
  BY DEF Writers

\* Setting the blocks of a writer.
LEMMA With_blocks ==
  ASSUME NEW N, NEW w \in Writers(N), NEW v \in Seq(WriterBlocks)
  PROVE  /\ [w EXCEPT !.blocks = v] \in Writers(N)
         /\ [w EXCEPT !.blocks = v].blocks = v
         /\ [w EXCEPT !.blocks = v].names = w.names
         /\ [w EXCEPT !.blocks = v].open = w.open
         /\ [w EXCEPT !.blocks = v].torn = w.torn
         /\ [w EXCEPT !.blocks = v].sealed = w.sealed
  BY DEF Writers

\* Marking the stream of a writer as torn.
LEMMA With_torn ==
  ASSUME NEW N, NEW w \in Writers(N), NEW v \in BOOLEAN
  PROVE  /\ [w EXCEPT !.torn = v] \in Writers(N)
         /\ [w EXCEPT !.torn = v].torn = v
         /\ [w EXCEPT !.torn = v].names = w.names
         /\ [w EXCEPT !.torn = v].open = w.open
         /\ [w EXCEPT !.torn = v].blocks = w.blocks
         /\ [w EXCEPT !.torn = v].sealed = w.sealed
  BY DEF Writers

\* Marking a writer as finalized.
LEMMA With_sealed ==
  ASSUME NEW N, NEW w \in Writers(N), NEW v \in BOOLEAN
  PROVE  /\ [w EXCEPT !.sealed = v] \in Writers(N)
         /\ [w EXCEPT !.sealed = v].sealed = v
         /\ [w EXCEPT !.sealed = v].names = w.names
         /\ [w EXCEPT !.sealed = v].open = w.open
         /\ [w EXCEPT !.sealed = v].blocks = w.blocks
         /\ [w EXCEPT !.sealed = v].torn = w.torn
  BY DEF Writers

\* The answers of the calls, one by one.
StartedAs(N, w, name, a) ==
  /\ a.writer \in Writers(N) /\ Sane(a.writer) /\ a.writer.sealed = w.sealed
  /\ a.error \in {"None", "IOError", "DuplicateEntryName"}
  /\ a.error # "IOError" => a.writer.torn = w.torn
  /\ a.error = "None" =>
       /\ name \notin Range(w.names)
       /\ a.writer.names = Append(w.names, name)
       /\ a.writer.open = w.open \cup {Len(w.names)}
       /\ a.writer.blocks = Append(w.blocks, [kind |-> "EntryStart", id |-> Len(w.names)])
  /\ a.error = "DuplicateEntryName" => a.writer = w
  /\ a.error = "IOError" =>
       /\ a.writer.names = Append(w.names, name)
       /\ a.writer.open = w.open /\ a.writer.torn

\* What start_entry does, for each of its answers.
LEMMA StartEntryAnswers ==
  ASSUME NEW N, NEW w \in Writers(N), Sane(w), NEW name \in N,
         NEW a \in CallStartEntry(w, name)
  PROVE  StartedAs(N, w, name, a)
  <1> USE DEF StartedAs
  <1> DEFINE n == Len(w.names)
             b == [kind |-> "EntryStart", id |-> n]
             t == [w EXCEPT !.names = Append(@, name)]
             u == [t EXCEPT !.open = @ \cup {n}]
             x == [u EXCEPT !.blocks = Append(@, b)]
             y == [t EXCEPT !.torn = TRUE]
  <1>1. /\ w.names \in Seq(N) /\ n \in Nat /\ w.open \in SUBSET Nat
        /\ w.blocks \in Seq(WriterBlocks) /\ w.torn \in BOOLEAN /\ w.sealed \in BOOLEAN
    BY WriterFields
  <1>2. CASE name \in Range(w.names)
    <2>1. a = [writer |-> w, error |-> "DuplicateEntryName"]
      BY <1>2 DEF CallStartEntry, Refused, Answer
    <2>2. a.writer = w /\ a.error = "DuplicateEntryName"
      BY <2>1
    <2>3. QED
      BY <2>2
  <1>3. CASE name \notin Range(w.names)
    <2>1. a \in {[writer |-> x, error |-> "None"], [writer |-> y, error |-> "IOError"]}
      BY <1>3 DEF CallStartEntry, Dumped, Answer, NextId
    <2>2. b \in WriterBlocks
      BY <1>1 DEF WriterBlocks, BlockKinds
    <2> HIDE DEF b
    <2>3. /\ t \in Writers(N) /\ t.names = Append(w.names, name) /\ t.open = w.open
          /\ t.blocks = w.blocks /\ t.torn = w.torn /\ t.sealed = w.sealed
      <3>1. Append(w.names, name) \in Seq(N)
        BY <1>1
      <3>2. QED
        BY <3>1, With_names, SMTT(60)
    <2> HIDE DEF t
    <2>4. /\ u \in Writers(N) /\ u.names = Append(w.names, name) /\ u.open = w.open \cup {n}
          /\ u.blocks = w.blocks /\ u.torn = w.torn /\ u.sealed = w.sealed
      <3> DEFINE v == t.open \cup {n}
      <3>1. v \in SUBSET Nat
        BY <1>1, <2>3
      <3>2. v = w.open \cup {n}
        BY <1>1, <2>3
      <3>3. u = [t EXCEPT !.open = v]
        OBVIOUS
      <3>6. t \in Writers(N)
        BY <2>3
      <3> HIDE DEF v, u, n
      <3>4. u \in Writers(N) /\ u.open = v
            /\ u.names = t.names /\ u.blocks = t.blocks /\ u.torn = t.torn /\ u.sealed = t.sealed
        BY <3>1, <3>3, <3>6, With_open
      <3>5. QED
        BY <2>3, <3>2, <3>4
    <2> HIDE DEF u
    <2>5. /\ x \in Writers(N) /\ x.names = Append(w.names, name) /\ x.open = w.open \cup {n}
          /\ x.blocks = Append(w.blocks, b) /\ x.torn = w.torn /\ x.sealed = w.sealed
      <3> DEFINE v == Append(u.blocks, b)
      <3>1. v \in Seq(WriterBlocks)
        BY <1>1, <2>2, <2>4
      <3>2. v = Append(w.blocks, b)
        BY <1>1, <2>2, <2>4
      <3>3. x = [u EXCEPT !.blocks = v]
        OBVIOUS
      <3> HIDE DEF v, x, n
      <3>4. x \in Writers(N) /\ x.blocks = v
            /\ x.names = u.names /\ x.open = u.open /\ x.torn = u.torn /\ x.sealed = u.sealed
        BY <2>4, <3>1, <3>3, With_blocks
      <3>5. QED
        BY <2>4, <3>2, <3>4
    <2>6. /\ y \in Writers(N) /\ y.names = Append(w.names, name) /\ y.open = w.open
          /\ y.torn = TRUE /\ y.sealed = w.sealed
      BY <2>3, With_torn, ZenonT(60)
    <2> HIDE DEF x, y
    <2>7. Sane(x) /\ Sane(y)
      <3>1. Sane(x)
        BY <1>3, <2>5, StartedSane DEF b
      <3>2. Sane(y)
        BY <1>3, <2>6, StartTornSane
      <3>3. QED
        BY <3>1, <3>2
    <2>8. CASE a = [writer |-> x, error |-> "None"]
      <3>1. a.writer = x /\ a.error = "None"
        BY <2>8
      <3>2. QED
        BY <1>3, <2>5, <2>7, <3>1 DEF b
    <2>9. CASE a = [writer |-> y, error |-> "IOError"]
      <3>1. a.writer = y /\ a.error = "IOError"
        BY <2>9
      <3>2. QED
        BY <2>6, <2>7, <3>1
    <2>10. QED
      BY <2>1, <2>8, <2>9
  <1>4. QED
    BY <1>2, <1>3

\* append_entry_content of a source that does not fail.
AppendedAs(N, w, id, source, a) ==
  /\ a.writer \in Writers(N) /\ Sane(a.writer) /\ a.writer.sealed = w.sealed
  /\ a.writer.names = w.names /\ a.writer.open = w.open
  /\ a.error \in {"None", "IOError", "WrongWriterState"}
  /\ (source # "changed" /\ a.error # "IOError") => a.writer.torn = w.torn
  /\ a.error = "None" =>
       /\ id \in w.open
       /\ a.writer.blocks = IF source = "empty" THEN w.blocks
                            ELSE Append(w.blocks, [kind |-> "EntryContent", id |-> id])
  /\ a.error = "WrongWriterState" => id \notin w.open /\ a.writer = w
  /\ a.error = "IOError" => a.writer.torn
  /\ source = "changed" /\ id \in w.open => a.writer.torn

\* What append_entry_content does, for each of its answers.
LEMMA AppendAnswers ==
  ASSUME NEW N, NEW w \in Writers(N), Sane(w), NEW id \in Nat,
         NEW source \in Sources,
         NEW a \in CallAppendEntryContent(w, id, source)
  PROVE  AppendedAs(N, w, id, source, a)
  <1> USE DEF AppendedAs
  <1> DEFINE b == [kind |-> "EntryContent", id |-> id]
             x == [w EXCEPT !.blocks = Append(@, b)]
             y == [w EXCEPT !.torn = TRUE]
             z == [y EXCEPT !.blocks = Append(@, b)]
             y2 == [y EXCEPT !.torn = TRUE]
  <1>1. /\ w.names \in Seq(N) /\ w.open \in SUBSET Nat
        /\ w.blocks \in Seq(WriterBlocks) /\ w.torn \in BOOLEAN /\ w.sealed \in BOOLEAN
    BY WriterFields
  <1>2. b \in WriterBlocks
    BY <1>1 DEF WriterBlocks, BlockKinds
  <1> HIDE DEF b
  <1>3. Append(w.blocks, b) \in Seq(WriterBlocks)
    BY <1>1, <1>2
  <1>4. x \in Writers(N) /\ x.names = w.names /\ x.open = w.open
        /\ x.blocks = Append(w.blocks, b) /\ x.torn = w.torn /\ x.sealed = w.sealed
    <2> DEFINE v == Append(w.blocks, b)
    <2>1. v \in Seq(WriterBlocks)
      BY <1>3
    <2>2. v = Append(w.blocks, b)
      BY <1>3
    <2>3. x = [w EXCEPT !.blocks = v]
      OBVIOUS
    <2> HIDE DEF v, x
    <2>4. x \in Writers(N) /\ x.blocks = v
          /\ x.names = w.names /\ x.open = w.open /\ x.torn = w.torn /\ x.sealed = w.sealed
      BY <2>1, <2>3, With_blocks
    <2>5. QED
      BY <2>2, <2>4
  <1>5. y \in Writers(N) /\ y.names = w.names /\ y.open = w.open /\ y.torn = TRUE
        /\ y.sealed = w.sealed /\ y.blocks = w.blocks
    BY With_torn
  <1>6. z \in Writers(N) /\ z.names = w.names /\ z.open = w.open /\ z.torn = TRUE
        /\ z.sealed = w.sealed /\ z.blocks = Append(w.blocks, b)
    <2> HIDE DEF y
    <2> DEFINE v == Append(y.blocks, b)
    <2>1. v \in Seq(WriterBlocks)
      BY <1>3, <1>5
    <2>2. v = Append(w.blocks, b)
      BY <1>3, <1>5
    <2>3. z = [y EXCEPT !.blocks = v]
      OBVIOUS
    <2> HIDE DEF v, z
    <2>4. z \in Writers(N) /\ z.blocks = v
          /\ z.names = y.names /\ z.open = y.open /\ z.torn = y.torn /\ z.sealed = y.sealed
      BY <1>5, <2>1, <2>3, With_blocks
    <2>5. QED
      BY <1>5, <2>2, <2>4
  <1>7. y2 \in Writers(N) /\ y2.names = w.names /\ y2.open = w.open /\ y2.torn = TRUE
        /\ y2.sealed = w.sealed
    <2> HIDE DEF y
    <2>1. QED
      BY <1>5, With_torn
  <1>8. Sane(y) /\ Sane(z) /\ Sane(y2)
    <2> HIDE DEF y, z, y2
    <2>1. QED
      BY <1>5, <1>6, <1>7, TornSane
  <1>9. CASE id \notin w.open
    <2>1. a = [writer |-> w, error |-> "WrongWriterState"]
      BY <1>9 DEF CallAppendEntryContent, Refused, Answer
    <2>2. a.writer = w /\ a.error = "WrongWriterState"
      BY <2>1
    <2>3. QED
      BY <1>9, <2>2
  <1>10. CASE id \in w.open
    <2>1. Sane(x)
      <3>1. x.open = IF "EntryContent" = "EndOfEntry" THEN w.open \ {id} ELSE w.open
        BY <1>4
      <3> HIDE DEF x
      <3>2. QED
        BY <1>4, <1>10, <3>1, BlockSane DEF b
    <2>2. CASE source = "empty"
      <3>1. a = [writer |-> w, error |-> "None"]
        BY <1>10, <2>2 DEF CallAppendEntryContent, Answer
      <3>2. a.writer = w /\ a.error = "None"
        BY <3>1
      <3>3. QED
        BY <1>10, <2>2, <3>2
    <2>3. CASE source = "whole"
      <3>1. a \in {[writer |-> x, error |-> "None"], [writer |-> y, error |-> "IOError"]}
        BY <1>10, <2>3 DEF CallAppendEntryContent, Answer, Dumped, b
      <3> HIDE DEF x, y, z, y2
      <3>2. \/ a.writer = x /\ a.error = "None"
            \/ a.writer = y /\ a.error = "IOError"
        BY <3>1
      <3>3. QED
        BY <1>4, <1>5, <1>8, <1>10, <2>1, <2>3, <3>2 DEF b
    <2>4. CASE source = "changed"
      <3>1. a \in {[writer |-> z, error |-> "None"], [writer |-> y2, error |-> "IOError"]}
        BY <1>10, <2>4 DEF CallAppendEntryContent, Answer, Dumped, b
      <3> HIDE DEF x, y, z, y2
      <3>2. \/ a.writer = z /\ a.error = "None"
            \/ a.writer = y2 /\ a.error = "IOError"
        BY <3>1
      <3>3. QED
        BY <1>6, <1>7, <1>8, <1>10, <2>4, <3>2 DEF b
    <2>5. CASE source = "fails"
      <3>1. a = [writer |-> y, error |-> "IOError"]
        BY <1>10, <2>5 DEF CallAppendEntryContent, Answer, Refused
      <3> HIDE DEF x, y, z, y2
      <3>2. a.writer = y /\ a.error = "IOError"
        BY <3>1
      <3>3. QED
        BY <1>5, <1>8, <1>10, <2>5, <3>2
    <2>6. QED
      BY <2>2, <2>3, <2>4, <2>5 DEF Sources
  <1>11. QED
    BY <1>9, <1>10

EndedAs(N, w, id, a) ==
  /\ a.writer \in Writers(N) /\ Sane(a.writer) /\ a.writer.sealed = w.sealed
  /\ a.writer.names = w.names /\ a.writer.open = w.open \ {id}
  /\ a.error \in {"None", "IOError", "WrongWriterState"}
  /\ a.error # "IOError" => a.writer.torn = w.torn
  /\ a.error = "None" =>
       /\ id \in w.open
       /\ a.writer.blocks = Append(w.blocks, [kind |-> "EndOfEntry", id |-> id])
  /\ a.error = "WrongWriterState" => id \notin w.open /\ a.writer = w
  /\ a.error = "IOError" => a.writer.torn

\* What end_entry does, for each of its answers.
LEMMA EndEntryAnswers ==
  ASSUME NEW N, NEW w \in Writers(N), Sane(w), NEW id \in Nat,
         NEW a \in CallEndEntry(w, id)
  PROVE  EndedAs(N, w, id, a)
  <1> USE DEF EndedAs
  <1> DEFINE b == [kind |-> "EndOfEntry", id |-> id]
             t == [w EXCEPT !.open = @ \ {id}]
             x == [t EXCEPT !.blocks = Append(@, b)]
             y == [t EXCEPT !.torn = TRUE]
  <1>1. /\ w.names \in Seq(N) /\ w.open \in SUBSET Nat
        /\ w.blocks \in Seq(WriterBlocks) /\ w.torn \in BOOLEAN /\ w.sealed \in BOOLEAN
    BY WriterFields
  <1>2. CASE id \notin w.open
    <2>1. a = [writer |-> w, error |-> "WrongWriterState"]
      BY <1>2 DEF CallEndEntry, Refused, Answer
    <2>2. a.writer = w /\ a.error = "WrongWriterState"
      BY <2>1
    <2>3. w.open \ {id} = w.open
      BY <1>2
    <2>4. QED
      BY <1>2, <2>2, <2>3
  <1>3. CASE id \in w.open
    <2>1. a \in {[writer |-> x, error |-> "None"], [writer |-> y, error |-> "IOError"]}
      BY <1>3 DEF CallEndEntry, Dumped, Answer
    <2>2. b \in WriterBlocks
      BY <1>1 DEF WriterBlocks, BlockKinds
    <2> HIDE DEF b
    <2>3. /\ t \in Writers(N) /\ t.names = w.names /\ t.open = w.open \ {id}
          /\ t.blocks = w.blocks /\ t.torn = w.torn /\ t.sealed = w.sealed
      <3>1. w.open \ {id} \in SUBSET Nat
        BY <1>1
      <3>2. QED
        BY <3>1, With_open
    <2> HIDE DEF t
    <2>4. /\ x \in Writers(N) /\ x.names = w.names /\ x.open = w.open \ {id}
          /\ x.blocks = Append(w.blocks, b) /\ x.torn = w.torn /\ x.sealed = w.sealed
      <3> DEFINE v == Append(t.blocks, b)
      <3>1. v \in Seq(WriterBlocks)
        BY <1>1, <2>2, <2>3
      <3>2. v = Append(w.blocks, b)
        BY <1>1, <2>2, <2>3
      <3>3. x = [t EXCEPT !.blocks = v]
        OBVIOUS
      <3> HIDE DEF v, x
      <3>4. x \in Writers(N) /\ x.blocks = v
            /\ x.names = t.names /\ x.open = t.open /\ x.torn = t.torn /\ x.sealed = t.sealed
        BY <2>3, <3>1, <3>3, With_blocks
      <3>5. QED
        BY <2>3, <3>2, <3>4
    <2>5. /\ y \in Writers(N) /\ y.names = w.names /\ y.open = w.open \ {id}
          /\ y.torn = TRUE /\ y.sealed = w.sealed
      BY <2>3, With_torn, ZenonT(60)
    <2> HIDE DEF x, y
    <2>6. Sane(x)
      <3>1. x.open = IF "EndOfEntry" = "EndOfEntry" THEN w.open \ {id} ELSE w.open
        BY <2>4
      <3>2. QED
        BY <1>3, <2>4, <3>1, BlockSane DEF b
    <2>7. Sane(y)
      <3>1. y.open \subseteq w.open
        BY <2>5
      <3>2. QED
        BY <2>5, <3>1, TornSane
    <2>8. \/ a.writer = x /\ a.error = "None"
          \/ a.writer = y /\ a.error = "IOError"
      BY <2>1
    <2>9. QED
      BY <1>3, <2>4, <2>5, <2>6, <2>7, <2>8 DEF b
  <1>4. QED
    BY <1>2, <1>3

FinalizedAs(N, w, a) ==
  /\ a.writer \in Writers(N) /\ Sane(a.writer)
  /\ a.writer.names = w.names /\ a.writer.open = w.open /\ a.writer.blocks = w.blocks
  /\ a.error \in {"None", "IOError", "WrongWriterState"}
  /\ a.error # "IOError" => a.writer.torn = w.torn
  /\ a.error = "None" => a.writer.sealed /\ w.open = {}
  /\ a.error # "None" => a.writer.sealed = w.sealed
  /\ a.error = "IOError" => a.writer.torn

\* What finalize does, for each of its answers.
LEMMA FinalizeAnswers ==
  ASSUME NEW N, NEW w \in Writers(N), Sane(w), NEW a \in CallFinalize(w)
  PROVE  FinalizedAs(N, w, a)
  <1> USE DEF FinalizedAs
  <1> DEFINE x == [w EXCEPT !.sealed = TRUE]
             y == [w EXCEPT !.torn = TRUE]
  <1>1. /\ w.names \in Seq(N) /\ w.open \in SUBSET Nat
        /\ w.blocks \in Seq(WriterBlocks) /\ w.torn \in BOOLEAN /\ w.sealed \in BOOLEAN
    BY WriterFields
  <1>2. CASE w.open # {}
    <2>1. a = [writer |-> w, error |-> "WrongWriterState"]
      BY <1>2 DEF CallFinalize, Refused, Answer
    <2>2. a.writer = w /\ a.error = "WrongWriterState"
      BY <2>1
    <2>3. QED
      BY <1>2, <2>2
  <1>3. CASE w.open = {}
    <2>1. a \in {[writer |-> x, error |-> "None"], [writer |-> y, error |-> "IOError"]}
      BY <1>3 DEF CallFinalize, Answer
    <2>2. /\ x \in Writers(N) /\ x.names = w.names /\ x.open = w.open /\ x.blocks = w.blocks
          /\ x.torn = w.torn /\ x.sealed = TRUE
      BY With_sealed
    <2>3. /\ y \in Writers(N) /\ y.names = w.names /\ y.open = w.open /\ y.torn = TRUE
          /\ y.sealed = w.sealed /\ y.blocks = w.blocks
      BY With_torn
    <2> HIDE DEF x, y
    <2>5. Sane(x)
      BY <2>2 DEF Sane, BlocksFit, EntryWhole, EntryBegun
    <2>6. Sane(y)
      <3>1. y.open \subseteq w.open
        BY <2>3
      <3>2. QED
        BY <2>3, <3>1, TornSane
    <2>7. \/ a.writer = x /\ a.error = "None"
          \/ a.writer = y /\ a.error = "IOError"
      BY <2>1
    <2>8. QED
      BY <1>3, <2>2, <2>3, <2>5, <2>6, <2>7
  <1>4. QED
    BY <1>2, <1>3

-----------------------------------------------------------------------------
ConfigBoxes ==
  [kind : {"writer_config", "reader_config"}, live : BOOLEAN,
   holds : {"writer_config", "reader_config", "result"}]
ArchiveBoxes == [kind : {"archive"}, live : BOOLEAN, writer : Writers(CNames)]
EntryBoxes == [kind : {"entry"}, live : BOOLEAN, id : Nat, of : Nat]
CBoxes == ConfigBoxes \cup ArchiveBoxes \cup EntryBoxes

CTypeOK(k) ==
  k \in [boxes : Seq(CBoxes), wconf : Nat, rconf : Nat, archive : Nat,
         entry : [EntryVars -> Nat], layout : {"same", "other"},
         fault : {"none", "null", "freed", "no_count", "layout"},
         misplaced : SUBSET Nat, reported : SUBSET Nat]

\* The one variable of this kind holds the one live box of this kind.
OwnsOne(k, kind, handle) ==
  /\ handle \in {0} \cup DOMAIN k.boxes
  /\ \A b \in DOMAIN k.boxes : k.boxes[b].live /\ k.boxes[b].kind = kind <=> b = handle

\* Each variable for entries holds nothing or a live entry, which no other holds.
OwnsEntries(k) ==
  /\ \A v \in EntryVars : k.entry[v] \in {0} \cup DOMAIN k.boxes
  /\ \A b \in DOMAIN k.boxes :
       k.boxes[b].live /\ k.boxes[b].kind = "entry" <=> \E v \in EntryVars : k.entry[v] = b
  /\ \A u, v \in EntryVars : k.entry[u] = k.entry[v] /\ k.entry[u] # 0 => u = v

Owned(k) ==
  /\ OwnsOne(k, "writer_config", k.wconf) /\ OwnsOne(k, "reader_config", k.rconf)
  /\ OwnsOne(k, "archive", k.archive) /\ OwnsEntries(k)

\* Every writer is sane, a torn one was reported, a sealed one is gone.
ArchiveOK(k, a) ==
  /\ Sane(k.boxes[a].writer)
  /\ k.boxes[a].writer.torn => a \in k.reported
  /\ k.boxes[a].writer.sealed => ~k.boxes[a].live /\ k.boxes[a].writer.open = {}

ArchivesOK(k) ==
  \A a \in DOMAIN k.boxes : k.boxes[a].kind = "archive" => ArchiveOK(k, a)

\* An entry is of an archive and has an id of its own there; while its handle
\* lives, the id is open, unless another archive's handle was used there.
EntryOf(k, e) ==
  /\ k.boxes[e].of \in DOMAIN k.boxes /\ k.boxes[k.boxes[e].of].kind = "archive"
  /\ k.boxes[e].id < Len(k.boxes[k.boxes[e].of].writer.names)

EntryOpen(k, e) ==
  k.boxes[e].live /\ k.boxes[e].of \notin k.misplaced =>
    k.boxes[e].id \in k.boxes[k.boxes[e].of].writer.open

EntriesOK(k) ==
  /\ \A e \in DOMAIN k.boxes : k.boxes[e].kind = "entry" => EntryOf(k, e) /\ EntryOpen(k, e)
  /\ \A d, e \in DOMAIN k.boxes :
       (/\ k.boxes[d].kind = "entry" /\ k.boxes[e].kind = "entry"
        /\ k.boxes[d].of = k.boxes[e].of /\ k.boxes[d].id = k.boxes[e].id) => d = e

Ledger(k) == ArchivesOK(k) /\ EntriesOK(k)

CInv ==
  /\ CTypeOK(c) /\ Ledger(c)
  /\ c.fault # "freed" /\ (c.fault = "layout" => c.layout = "other")
  /\ c.fault = "none" => Owned(c)

-------------------------------------------------------------------------------
\* Boxes.
LEMMA BoxFacts ==
  ASSUME NEW r \in CBoxes
  PROVE  /\ r.kind \in Kinds /\ r.live \in BOOLEAN
         /\ r.kind = "archive" => r \in ArchiveBoxes /\ r.writer \in Writers(CNames)
         /\ r.kind = "entry" => r \in EntryBoxes /\ r.id \in Nat /\ r.of \in Nat
         /\ r.kind \in {"writer_config", "reader_config"} => r \in ConfigBoxes
  BY DEF CBoxes, ConfigBoxes, ArchiveBoxes, EntryBoxes, Kinds

\* A box that is dropped keeps what it held.
LEMMA DroppedBox ==
  ASSUME NEW r \in CBoxes
  PROVE  LET x == [r EXCEPT !.live = FALSE]
         IN  /\ x \in CBoxes /\ x.kind = r.kind /\ x.live = FALSE
             /\ r.kind = "archive" => x.writer = r.writer
             /\ r.kind = "entry" => x.id = r.id /\ x.of = r.of
  <1>1. CASE r \in ConfigBoxes
    BY <1>1 DEF CBoxes, ConfigBoxes
  <1>2. CASE r \in ArchiveBoxes
    BY <1>2 DEF CBoxes, ArchiveBoxes
  <1>3. CASE r \in EntryBoxes
    BY <1>3 DEF CBoxes, EntryBoxes
  <1>4. QED
    BY <1>1, <1>2, <1>3 DEF CBoxes

\* Dropping one box leaves the others.
LEMMA DropFacts ==
  ASSUME NEW s \in Seq(CBoxes), NEW h \in DOMAIN s
  PROVE  LET t == Drop(s, h)
         IN  /\ t \in Seq(CBoxes) /\ DOMAIN t = DOMAIN s /\ Len(t) = Len(s)
             /\ \A b \in DOMAIN s :
                  /\ t[b].kind = s[b].kind
                  /\ t[b].live <=> s[b].live /\ b # h
                  /\ s[b].kind = "archive" => t[b].writer = s[b].writer
                  /\ s[b].kind = "entry" => t[b].id = s[b].id /\ t[b].of = s[b].of
  <1> DEFINE x == [s[h] EXCEPT !.live = FALSE]
             t == Drop(s, h)
  <1>1. s[h] \in CBoxes
    OBVIOUS
  <1>2. /\ x \in CBoxes /\ x.kind = s[h].kind /\ x.live = FALSE
        /\ s[h].kind = "archive" => x.writer = s[h].writer
        /\ s[h].kind = "entry" => x.id = s[h].id /\ x.of = s[h].of
    BY <1>1, DroppedBox
  <1>3. t = [s EXCEPT ![h] = x]
    BY DEF Drop
  <1> HIDE DEF x, t
  <1>4. /\ t \in Seq(CBoxes) /\ DOMAIN t = DOMAIN s /\ Len(t) = Len(s)
        /\ t[h] = x /\ \A b \in DOMAIN s : b # h => t[b] = s[b]
    BY <1>2, <1>3
  <1>5. ASSUME NEW b \in DOMAIN s
        PROVE  /\ t[b].kind = s[b].kind
               /\ t[b].live <=> s[b].live /\ b # h
               /\ s[b].kind = "archive" => t[b].writer = s[b].writer
               /\ s[b].kind = "entry" => t[b].id = s[b].id /\ t[b].of = s[b].of
    <2>1. CASE b = h
      BY <1>2, <1>4, <2>1
    <2>2. CASE b # h
      BY <1>4, <2>2
    <2>3. QED
      BY <2>1, <2>2
  <1>6. QED
    BY <1>4, <1>5 DEF t

\* A call on an archive changes the writer in its box only.
LEMMA LeakFacts ==
  ASSUME NEW s \in Seq(CBoxes), NEW a \in DOMAIN s, s[a].kind = "archive",
         NEW w \in Writers(CNames)
  PROVE  LET t == [s EXCEPT ![a].writer = w]
         IN  /\ t \in Seq(CBoxes) /\ DOMAIN t = DOMAIN s /\ Len(t) = Len(s)
             /\ t[a].writer = w /\ t[a].kind = "archive" /\ t[a].live = s[a].live
             /\ \A b \in DOMAIN s : b # a => t[b] = s[b]
  <1> DEFINE x == [s[a] EXCEPT !.writer = w]
             t == [s EXCEPT ![a].writer = w]
  <1>1. s[a] \in ArchiveBoxes
    <2>1. s[a] \in CBoxes
      OBVIOUS
    <2>2. QED
      BY <2>1, BoxFacts
  <1>2. x \in ArchiveBoxes /\ x.kind = "archive" /\ x.live = s[a].live /\ x.writer = w
    BY <1>1 DEF ArchiveBoxes
  <1>3. x \in CBoxes
    BY <1>2 DEF CBoxes
  <1>4. t = [s EXCEPT ![a] = x]
    OBVIOUS
  <1> HIDE DEF x, t
  <1>5. /\ t \in Seq(CBoxes) /\ DOMAIN t = DOMAIN s /\ Len(t) = Len(s)
        /\ t[a] = x /\ \A b \in DOMAIN s : b # a => t[b] = s[b]
    BY <1>3, <1>4
  <1>6. QED
    BY <1>2, <1>5 DEF t

\* A new box leaves the others.
LEMMA AddedBox ==
  ASSUME NEW s \in Seq(CBoxes), NEW r \in CBoxes
  PROVE  LET t == Append(s, r)
         IN  /\ t \in Seq(CBoxes) /\ Len(t) = Len(s) + 1 /\ Len(s) + 1 \in Nat
             /\ DOMAIN t = DOMAIN s \cup {Len(s) + 1} /\ Len(s) + 1 \notin DOMAIN s
             /\ Len(s) + 1 # 0
             /\ t[Len(s) + 1] = r /\ \A b \in DOMAIN s : t[b] = s[b]
  OBVIOUS

\* The fields of the C program have their types.
LEMMA CFields ==
  ASSUME NEW k, CTypeOK(k)
  PROVE  /\ k.boxes \in Seq(CBoxes) /\ k.wconf \in Nat /\ k.rconf \in Nat /\ k.archive \in Nat
         /\ k.entry \in [EntryVars -> Nat]
         /\ k.fault \in {"none", "null", "freed", "no_count", "layout"}
         /\ k.misplaced \subseteq Nat /\ k.reported \subseteq Nat
         /\ DOMAIN k.boxes = 1..Len(k.boxes) /\ 0 \notin DOMAIN k.boxes
         /\ \A b \in DOMAIN k.boxes : k.boxes[b] \in CBoxes
  <1>1. /\ k.boxes \in Seq(CBoxes) /\ k.wconf \in Nat /\ k.rconf \in Nat /\ k.archive \in Nat
        /\ k.entry \in [EntryVars -> Nat]
        /\ k.fault \in {"none", "null", "freed", "no_count", "layout"}
        /\ k.misplaced \subseteq Nat /\ k.reported \subseteq Nat
    BY DEF CTypeOK
  <1> DEFINE s == k.boxes
  <1>2. s \in Seq(CBoxes)
    BY <1>1
  <1> HIDE DEF s
  <1>3. DOMAIN s = 1..Len(s) /\ 0 \notin DOMAIN s /\ \A b \in DOMAIN s : s[b] \in CBoxes
    BY <1>2
  <1>4. QED
    BY <1>1, <1>3 DEF s

-------------------------------------------------------------------------------
\* The boxes of a state are still there in a later one.
StillThere(k, m) ==
  /\ DOMAIN k.boxes \subseteq DOMAIN m.boxes
  /\ \A b \in DOMAIN k.boxes :
       /\ m.boxes[b].kind = k.boxes[b].kind
       /\ m.boxes[b].live => k.boxes[b].live
       /\ k.boxes[b].kind = "entry" =>
            m.boxes[b].id = k.boxes[b].id /\ m.boxes[b].of = k.boxes[b].of

\* A step that changes no writer, and makes no entry.
QuietStep(k, m) ==
  /\ StillThere(k, m)
  /\ \A a \in DOMAIN k.boxes :
       k.boxes[a].kind = "archive" => m.boxes[a].writer = k.boxes[a].writer
  /\ m.misplaced = k.misplaced /\ m.reported = k.reported
  /\ \A b \in DOMAIN m.boxes \ DOMAIN k.boxes :
       /\ m.boxes[b].kind # "entry"
       /\ m.boxes[b].kind = "archive" => m.boxes[b].writer = NewWriter

\* A step that touches no archive keeps the ledger.
LEMMA QuietLedger ==
  ASSUME NEW k, NEW m, Ledger(k), QuietStep(k, m) PROVE Ledger(m)
  <1>1. ASSUME NEW a \in DOMAIN m.boxes, m.boxes[a].kind = "archive" PROVE ArchiveOK(m, a)
    <2>1. CASE a \in DOMAIN k.boxes
      <3>1. k.boxes[a].kind = "archive" /\ m.boxes[a].writer = k.boxes[a].writer
            /\ (m.boxes[a].live => k.boxes[a].live) /\ m.reported = k.reported
        BY <1>1, <2>1 DEF QuietStep, StillThere
      <3>2. ArchiveOK(k, a)
        BY <2>1, <3>1 DEF Ledger, ArchivesOK
      <3>3. QED
        BY <3>1, <3>2 DEF ArchiveOK
    <2>2. CASE a \notin DOMAIN k.boxes
      <3>1. m.boxes[a].writer = NewWriter
        BY <1>1, <2>2 DEF QuietStep
      <3>2. QED
        BY <3>1, NewWriterSane DEF ArchiveOK
    <2>3. QED
      BY <2>1, <2>2
  <1>2. ASSUME NEW e \in DOMAIN m.boxes, m.boxes[e].kind = "entry"
        PROVE  /\ e \in DOMAIN k.boxes /\ k.boxes[e].kind = "entry"
               /\ m.boxes[e].id = k.boxes[e].id /\ m.boxes[e].of = k.boxes[e].of
    BY <1>2 DEF QuietStep, StillThere
  <1>3. ASSUME NEW e \in DOMAIN m.boxes, m.boxes[e].kind = "entry"
        PROVE  EntryOf(m, e) /\ EntryOpen(m, e)
    <2> DEFINE a == k.boxes[e].of
    <2>1. /\ e \in DOMAIN k.boxes /\ k.boxes[e].kind = "entry"
          /\ m.boxes[e].id = k.boxes[e].id /\ m.boxes[e].of = a
      BY <1>2, <1>3
    <2>2. EntryOf(k, e) /\ EntryOpen(k, e)
      BY <2>1 DEF Ledger, EntriesOK
    <2>3. a \in DOMAIN k.boxes /\ k.boxes[a].kind = "archive"
      BY <2>2 DEF EntryOf
    <2>4. a \in DOMAIN m.boxes /\ m.boxes[a].kind = "archive"
          /\ m.boxes[a].writer = k.boxes[a].writer
          /\ (m.boxes[e].live => k.boxes[e].live) /\ m.misplaced = k.misplaced
      BY <2>1, <2>3 DEF QuietStep, StillThere
    <2> HIDE DEF a
    <2>5. EntryOf(m, e)
      BY <2>1, <2>2, <2>4 DEF EntryOf, a
    <2>6. EntryOpen(m, e)
      BY <2>1, <2>2, <2>4 DEF EntryOpen, a
    <2>7. QED
      BY <2>5, <2>6
  <1>4. ASSUME NEW d \in DOMAIN m.boxes, NEW e \in DOMAIN m.boxes,
               m.boxes[d].kind = "entry", m.boxes[e].kind = "entry",
               m.boxes[d].of = m.boxes[e].of, m.boxes[d].id = m.boxes[e].id
        PROVE  d = e
    BY <1>2, <1>4 DEF Ledger, EntriesOK
  <1>5. QED
    BY <1>1, <1>3, <1>4 DEF Ledger, ArchivesOK, EntriesOK

\* A step that changes the writer of one archive, and may make an entry of it.
WriterStep(k, m, a) ==
  /\ StillThere(k, m)
  /\ a \in DOMAIN k.boxes /\ k.boxes[a].kind = "archive" /\ ArchiveOK(m, a)
  /\ Len(k.boxes[a].writer.names) <= Len(m.boxes[a].writer.names)
  /\ \A b \in DOMAIN k.boxes :
       k.boxes[b].kind = "archive" /\ b # a => m.boxes[b].writer = k.boxes[b].writer
  /\ k.misplaced \subseteq m.misplaced /\ k.reported \subseteq m.reported
  /\ \A e \in DOMAIN k.boxes :
       (/\ k.boxes[e].kind = "entry" /\ k.boxes[e].of = a /\ m.boxes[e].live
        /\ a \notin m.misplaced /\ k.boxes[e].id \in k.boxes[a].writer.open)
         => k.boxes[e].id \in m.boxes[a].writer.open
  /\ \A e \in DOMAIN m.boxes \ DOMAIN k.boxes :
       /\ m.boxes[e].kind = "entry" /\ m.boxes[e].of = a
       /\ m.boxes[e].id = Len(k.boxes[a].writer.names)
       /\ m.boxes[e].id < Len(m.boxes[a].writer.names)
       /\ m.boxes[e].id \in m.boxes[a].writer.open
  /\ \A d, e \in DOMAIN m.boxes \ DOMAIN k.boxes : d = e

\* A step on one archive keeps the ledger of the others.
LEMMA WriterLedger ==
  ASSUME NEW k, NEW m, NEW a, CTypeOK(k), CTypeOK(m), Ledger(k), WriterStep(k, m, a)
  PROVE  Ledger(m)
  <1> DEFINE old == k.boxes[a].writer
             new == m.boxes[a].writer
  <1>1. /\ a \in DOMAIN k.boxes /\ k.boxes[a].kind = "archive"
        /\ a \in DOMAIN m.boxes /\ m.boxes[a].kind = "archive"
    BY DEF WriterStep, StillThere
  <1>2. Len(old.names) \in Nat /\ Len(new.names) \in Nat /\ Len(old.names) <= Len(new.names)
    <2>1. k.boxes[a] \in CBoxes /\ m.boxes[a] \in CBoxes
      BY <1>1, CFields
    <2>2. old \in Writers(CNames) /\ new \in Writers(CNames)
      BY <1>1, <2>1, BoxFacts
    <2>3. Len(old.names) \in Nat /\ Len(new.names) \in Nat
      BY <2>2, WriterFields
    <2>4. QED
      BY <2>3 DEF WriterStep
  <1>3. ASSUME NEW b \in DOMAIN m.boxes, m.boxes[b].kind = "archive" PROVE ArchiveOK(m, b)
    <2>1. CASE b = a
      BY <2>1 DEF WriterStep
    <2>2. CASE b # a
      <3>1. b \in DOMAIN k.boxes
        BY <1>3 DEF WriterStep
      <3>2. k.boxes[b].kind = "archive" /\ m.boxes[b].writer = k.boxes[b].writer
            /\ (m.boxes[b].live => k.boxes[b].live) /\ k.reported \subseteq m.reported
        BY <1>3, <2>2, <3>1 DEF WriterStep, StillThere
      <3>3. ArchiveOK(k, b)
        BY <3>1, <3>2 DEF Ledger, ArchivesOK
      <3>4. QED
        BY <3>2, <3>3 DEF ArchiveOK
    <2>3. QED
      BY <2>1, <2>2
  <1> HIDE DEF old, new
  <1>4. ASSUME NEW e \in DOMAIN k.boxes, k.boxes[e].kind = "entry"
        PROVE  /\ EntryOf(m, e) /\ EntryOpen(m, e)
               /\ k.boxes[e].of = a => k.boxes[e].id < Len(old.names)
    <2> DEFINE b == k.boxes[e].of
    <2>1. EntryOf(k, e) /\ EntryOpen(k, e)
      BY <1>4 DEF Ledger, EntriesOK
    <2>2. b \in DOMAIN k.boxes /\ k.boxes[b].kind = "archive"
          /\ k.boxes[e].id < Len(k.boxes[b].writer.names)
      BY <2>1 DEF EntryOf
    <2>3. /\ e \in DOMAIN m.boxes /\ m.boxes[e].id = k.boxes[e].id /\ m.boxes[e].of = b
          /\ m.boxes[e].live => k.boxes[e].live
          /\ b \in DOMAIN m.boxes /\ m.boxes[b].kind = "archive"
          /\ k.misplaced \subseteq m.misplaced
      BY <1>4, <2>2 DEF WriterStep, StillThere
    <2>4. k.boxes[e].id \in Nat
      <3>1. k.boxes[e] \in CBoxes
        BY CFields
      <3>2. QED
        BY <1>4, <3>1, BoxFacts
    <2>5. CASE b # a
      <3>1. m.boxes[b].writer = k.boxes[b].writer
        BY <2>2, <2>5 DEF WriterStep
      <3> HIDE DEF b
      <3>2. EntryOf(m, e)
        BY <2>2, <2>3, <3>1 DEF EntryOf
      <3>3. EntryOpen(m, e)
        BY <2>1, <2>3, <3>1 DEF EntryOpen, b
      <3>4. QED
        BY <2>5, <3>2, <3>3 DEF b
    <2>6. CASE b = a
      <3>1. k.boxes[e].id < Len(old.names)
        BY <2>2, <2>6 DEF old
      <3>2. k.boxes[e].id < Len(new.names)
        BY <1>2, <2>4, <3>1
      <3>3. EntryOf(m, e)
        BY <2>3, <2>6, <3>2 DEF EntryOf, new
      <3>4. EntryOpen(m, e)
        BY <1>4, <2>1, <2>3, <2>6 DEF EntryOpen, WriterStep
      <3>5. QED
        BY <3>1, <3>3, <3>4
    <2>7. QED
      BY <2>5, <2>6
  <1>5. ASSUME NEW e \in DOMAIN m.boxes, e \notin DOMAIN k.boxes
        PROVE  /\ EntryOf(m, e) /\ EntryOpen(m, e)
               /\ m.boxes[e].of = a /\ m.boxes[e].id = Len(old.names)
    <2>1. /\ m.boxes[e].of = a /\ m.boxes[e].id = Len(old.names)
          /\ m.boxes[e].id < Len(new.names) /\ m.boxes[e].id \in new.open
      BY <1>5 DEF WriterStep, old, new
    <2>2. QED
      BY <1>1, <2>1 DEF EntryOf, EntryOpen, new
  <1>6. \A e \in DOMAIN k.boxes :
          m.boxes[e].kind = k.boxes[e].kind
          /\ (k.boxes[e].kind = "entry" =>
                m.boxes[e].id = k.boxes[e].id /\ m.boxes[e].of = k.boxes[e].of)
    BY DEF WriterStep, StillThere
  <1>7. ASSUME NEW d \in DOMAIN k.boxes, NEW e \in DOMAIN m.boxes, e \notin DOMAIN k.boxes,
               m.boxes[d].kind = "entry",
               m.boxes[d].of = m.boxes[e].of, m.boxes[d].id = m.boxes[e].id
        PROVE  FALSE
    <2>1. m.boxes[e].of = a /\ m.boxes[e].id = Len(old.names)
      BY <1>5, <1>7
    <2>2. k.boxes[d].kind = "entry" /\ k.boxes[d].of = a /\ k.boxes[d].id = Len(old.names)
      BY <1>6, <1>7, <2>1
    <2>3. k.boxes[d].id < Len(old.names)
      BY <1>4, <2>2
    <2>4. QED
      BY <1>2, <2>2, <2>3
  <1>8. ASSUME NEW d \in DOMAIN m.boxes, NEW e \in DOMAIN m.boxes,
               m.boxes[d].kind = "entry", m.boxes[e].kind = "entry",
               m.boxes[d].of = m.boxes[e].of, m.boxes[d].id = m.boxes[e].id
        PROVE  d = e
    <2>1. CASE d \in DOMAIN k.boxes /\ e \in DOMAIN k.boxes
      BY <1>6, <1>8, <2>1 DEF Ledger, EntriesOK
    <2>2. CASE d \notin DOMAIN k.boxes /\ e \notin DOMAIN k.boxes
      BY <2>2 DEF WriterStep
    <2>3. QED
      BY <1>7, <1>8, <2>1, <2>2
  <1>9. \A e \in DOMAIN m.boxes : m.boxes[e].kind = "entry" => EntryOf(m, e) /\ EntryOpen(m, e)
    BY <1>4, <1>5, <1>6
  <1>10. QED
    BY <1>3, <1>8, <1>9 DEF Ledger, ArchivesOK, EntriesOK

-------------------------------------------------------------------------------
\* What a call finds behind a handle: its box, or nothing.
LEMMA HandleFacts ==
  ASSUME CTypeOK(c), Owned(c),
         NEW h, NEW kind \in Kinds,
         \/ kind = "writer_config" /\ h = c.wconf
         \/ kind = "reader_config" /\ h = c.rconf
         \/ kind = "archive" /\ h = c.archive
         \/ kind = "entry" /\ \E v \in EntryVars : h = c.entry[v]
  PROVE  /\ Fault(h) \in {"none", "null"}
         /\ Fault(h) = "none" => h \in DOMAIN c.boxes /\ c.boxes[h].live /\ c.boxes[h].kind = kind
  <1>1. h \in {0} \cup DOMAIN c.boxes
    BY DEF Owned, OwnsOne, OwnsEntries, Kinds
  <1>2. h \in DOMAIN c.boxes => c.boxes[h].live /\ c.boxes[h].kind = kind
    BY DEF Owned, OwnsOne, OwnsEntries, Kinds
  <1>3. QED
    BY <1>1, <1>2 DEF Fault

\* A call that does nothing but return.
LEMMA ReturnStep ==
  ASSUME CInv, NEW status, Returns(status) PROVE CInv'
  <1>1. c' = [c EXCEPT !.reported = c.reported]
    BY DEF Returns, Told
  <1>2. CTypeOK(c)
    BY DEF CInv
  <1>3. c' = c
    BY <1>1, <1>2 DEF CTypeOK
  <1>4. QED
    BY <1>3 DEF CInv

\* A call that is given a null pointer it does not look at.
LEMMA FaultStep ==
  ASSUME CInv, NEW h, Fault(h) \in {"none", "null"}, Faults(h) PROVE CInv'
  <1>1. c' = [c EXCEPT !.fault = "null"]
    BY DEF Faults
  <1>2. CTypeOK(c) /\ Ledger(c)
    BY DEF CInv
  <1>3. /\ CTypeOK(c') /\ c'.fault = "null" /\ c'.boxes = c.boxes
        /\ c'.misplaced = c.misplaced /\ c'.reported = c.reported
    BY <1>1, <1>2 DEF CTypeOK
  <1>4. QuietStep(c, c')
    BY <1>3 DEF QuietStep, StillThere
  <1>5. Ledger(c')
    BY <1>2, <1>4, QuietLedger
  <1>6. QED
    BY <1>3, <1>5 DEF CInv

\* A call that is given no configuration, or reads the Result as one.
LEMMA ConfigFaultStep ==
  ASSUME CInv, c.fault = "none", ConfigFaults PROVE CInv'
  <1>1. Fault(c.wconf) \in {"none", "null"}
    BY HandleFacts DEF Kinds, CInv
  <1>2. CASE Fault(c.wconf) # "none"
    <2>1. Faults(c.wconf)
      BY <1>2 DEF ConfigFaults, ConfigFault, Faults
    <2>2. QED
      BY <1>1, <2>1, FaultStep
  <1>3. CASE Fault(c.wconf) = "none"
    <2>1. c' = [c EXCEPT !.fault = "layout"] /\ c.layout = "other"
      BY <1>3 DEF ConfigFaults, ConfigFault
    <2>2. CTypeOK(c) /\ Ledger(c)
      BY DEF CInv
    <2>3. /\ CTypeOK(c') /\ c'.fault = "layout" /\ c'.boxes = c.boxes
          /\ c'.layout = c.layout /\ c'.misplaced = c.misplaced /\ c'.reported = c.reported
      BY <2>1, <2>2 DEF CTypeOK
    <2>4. QuietStep(c, c')
      BY <2>3 DEF QuietStep, StillThere
    <2>5. Ledger(c')
      BY <2>2, <2>4, QuietLedger
    <2>6. QED
      BY <2>1, <2>3, <2>5 DEF CInv
  <1>4. QED
    BY <1>2, <1>3

\* A new configuration.
LEMMA ConfigBoxFacts ==
  ASSUME NEW kind \in {"writer_config", "reader_config"}
  PROVE  ConfigBox(kind) \in CBoxes /\ ConfigBox(kind).kind = kind /\ ConfigBox(kind).live = TRUE
  BY DEF ConfigBox, CBoxes, ConfigBoxes

\* A new Result of one.
LEMMA ResultBoxFacts ==
  ResultBox \in CBoxes /\ ResultBox.kind = "writer_config" /\ ResultBox.live = TRUE
  BY DEF ResultBox, CBoxes, ConfigBoxes

\* CreateWriterConfig keeps the invariant.
LEMMA CreateWriterConfigStep ==
  ASSUME CInv, c.fault = "none", NEW lists, CreateWriterConfig(lists) PROVE CInv'
  <1> DEFINE r == ResultBox
             s == c.boxes
             t == Append(s, r)
             n == Len(s) + 1
  <1>1. CTypeOK(c) /\ Ledger(c) /\ Owned(c)
    BY DEF CInv
  <1>2. s \in Seq(CBoxes)
    BY <1>1, CFields
  <1>3. r \in CBoxes /\ r.kind = "writer_config" /\ r.live = TRUE
    BY ResultBoxFacts
  <1> HIDE DEF r, s
  <1>4. /\ t \in Seq(CBoxes) /\ n \in Nat /\ n # 0 /\ n \notin DOMAIN s
        /\ DOMAIN t = DOMAIN s \cup {n}
        /\ t[n] = r /\ \A b \in DOMAIN s : t[b] = s[b]
    BY <1>2, <1>3, AddedBox
  <1>5. CASE \E status : Returns(status)
    BY <1>5, ReturnStep
  <1>6. CASE c' = [c EXCEPT !.boxes = Box(r), !.wconf = Len(c.boxes) + 1] /\ c.wconf = 0
    <2>1. c' = [c EXCEPT !.boxes = t, !.wconf = n]
      BY <1>6 DEF Box, s
    <2> HIDE DEF t, n
    <2>2. /\ CTypeOK(c') /\ c'.boxes = t /\ c'.wconf = n /\ c'.rconf = c.rconf
          /\ c'.archive = c.archive /\ c'.entry = c.entry /\ c'.fault = c.fault
          /\ c'.misplaced = c.misplaced /\ c'.reported = c.reported
      BY <1>1, <1>4, <2>1 DEF CTypeOK
    <2>3. QuietStep(c, c')
      BY <1>3, <1>4, <2>2 DEF QuietStep, StillThere, s
    <2>4. Ledger(c')
      BY <1>1, <2>3, QuietLedger
    <2>5. OwnsOne(c', "writer_config", c'.wconf)
      BY <1>1, <1>3, <1>4, <1>6, <2>2 DEF Owned, OwnsOne, s
    <2>6. OwnsOne(c', "reader_config", c'.rconf) /\ OwnsOne(c', "archive", c'.archive)
      BY <1>1, <1>3, <1>4, <2>2 DEF Owned, OwnsOne, s
    <2>7. OwnsEntries(c')
      BY <1>1, <1>3, <1>4, <2>2 DEF Owned, OwnsEntries, s
    <2>8. QED
      BY <2>2, <2>4, <2>5, <2>6, <2>7 DEF CInv, Owned
  <1>7. QED
    BY <1>5, <1>6 DEF CreateWriterConfig, r

\* CreateReaderConfig keeps the invariant.
LEMMA CreateReaderConfigStep ==
  ASSUME CInv, c.fault = "none", NEW lists, CreateReaderConfig(lists) PROVE CInv'
  <1> DEFINE r == ConfigBox("reader_config")
             s == c.boxes
             t == Append(s, r)
             n == Len(s) + 1
  <1>1. CTypeOK(c) /\ Ledger(c) /\ Owned(c)
    BY DEF CInv
  <1>2. s \in Seq(CBoxes)
    BY <1>1, CFields
  <1>3. r \in CBoxes /\ r.kind = "reader_config" /\ r.live = TRUE
    BY ConfigBoxFacts
  <1> HIDE DEF r, s
  <1>4. /\ t \in Seq(CBoxes) /\ n \in Nat /\ n # 0 /\ n \notin DOMAIN s
        /\ DOMAIN t = DOMAIN s \cup {n}
        /\ t[n] = r /\ \A b \in DOMAIN s : t[b] = s[b]
    BY <1>2, <1>3, AddedBox
  <1>5. CASE \E status : Returns(status)
    BY <1>5, ReturnStep
  <1>6. CASE c' = [c EXCEPT !.boxes = Box(r), !.rconf = Len(c.boxes) + 1] /\ c.rconf = 0
    <2>1. c' = [c EXCEPT !.boxes = t, !.rconf = n]
      BY <1>6 DEF Box, s
    <2> HIDE DEF t, n
    <2>2. /\ CTypeOK(c') /\ c'.boxes = t /\ c'.wconf = c.wconf /\ c'.rconf = n
          /\ c'.archive = c.archive /\ c'.entry = c.entry /\ c'.fault = c.fault
          /\ c'.misplaced = c.misplaced /\ c'.reported = c.reported
      BY <1>1, <1>4, <2>1 DEF CTypeOK
    <2>3. QuietStep(c, c')
      BY <1>3, <1>4, <2>2 DEF QuietStep, StillThere, s
    <2>4. Ledger(c')
      BY <1>1, <2>3, QuietLedger
    <2>5. OwnsOne(c', "reader_config", c'.rconf)
      <3>1. \A b \in DOMAIN s : b # 0
        BY <1>2
      <3>2. \A b \in DOMAIN s : ~(s[b].live /\ s[b].kind = "reader_config")
        BY <1>1, <1>6, <3>1 DEF Owned, OwnsOne, s
      <3>3. QED
        BY <1>3, <1>4, <2>2, <3>2 DEF OwnsOne
    <2>6. OwnsOne(c', "writer_config", c'.wconf) /\ OwnsOne(c', "archive", c'.archive)
      BY <1>1, <1>3, <1>4, <2>2 DEF Owned, OwnsOne, s
    <2>7. OwnsEntries(c')
      BY <1>1, <1>3, <1>4, <2>2 DEF Owned, OwnsEntries, s
    <2>8. QED
      BY <2>2, <2>4, <2>5, <2>6, <2>7 DEF CInv, Owned
  <1>7. QED
    BY <1>5, <1>6 DEF CreateReaderConfig, r

\* A box is made and another freed.
Replaced(s, r, h, t, n) ==
  /\ t \in Seq(CBoxes) /\ n \in Nat /\ n # 0 /\ n \notin DOMAIN s
  /\ DOMAIN t = DOMAIN s \cup {n}
  /\ t[n].kind = r.kind /\ (t[n].live <=> r.live)
  /\ r.kind = "archive" => t[n].writer = r.writer
  /\ \A b \in DOMAIN s :
       /\ t[b].kind = s[b].kind
       /\ t[b].live <=> s[b].live /\ b # h
       /\ s[b].kind = "archive" => t[b].writer = s[b].writer
       /\ s[b].kind = "entry" => t[b].id = s[b].id /\ t[b].of = s[b].of

\* A new box for an old one leaves the others.
LEMMA ReplacedBox ==
  ASSUME NEW s \in Seq(CBoxes), NEW r \in CBoxes, NEW h \in DOMAIN s,
         NEW t, t = Drop(Append(s, r), h), NEW n, n = Len(s) + 1
  PROVE  Replaced(s, r, h, t, n)
  <1> DEFINE u == Append(s, r)
  <1>1. /\ u \in Seq(CBoxes) /\ n \in Nat /\ n # 0 /\ n \notin DOMAIN s
        /\ DOMAIN u = DOMAIN s \cup {n}
        /\ u[n] = r /\ \A b \in DOMAIN s : u[b] = s[b]
    BY AddedBox
  <1>11. t = Drop(u, h)
    OBVIOUS
  <1> HIDE DEF u
  <1>10. u \in Seq(CBoxes) /\ h \in DOMAIN u
    BY <1>1
  <1>2. /\ t \in Seq(CBoxes) /\ DOMAIN t = DOMAIN u
        /\ \A b \in DOMAIN u :
             /\ t[b].kind = u[b].kind
             /\ t[b].live <=> u[b].live /\ b # h
             /\ u[b].kind = "archive" => t[b].writer = u[b].writer
             /\ u[b].kind = "entry" => t[b].id = u[b].id /\ t[b].of = u[b].of
    BY <1>10, <1>11, DropFacts
  <1>4. n \in DOMAIN u /\ n # h
    BY <1>1
  <1>6. t[n].live <=> r.live
    BY <1>1, <1>2, <1>4
  <1>7. /\ t[n].kind = r.kind
        /\ r.kind = "archive" => t[n].writer = r.writer
        /\ \A b \in DOMAIN s :
                  /\ t[b].kind = s[b].kind
                  /\ t[b].live <=> s[b].live /\ b # h
                  /\ s[b].kind = "archive" => t[b].writer = s[b].writer
                  /\ s[b].kind = "entry" => t[b].id = s[b].id /\ t[b].of = s[b].of
    BY <1>1, <1>2, <1>4
  <1>8. QED
    BY <1>1, <1>2, <1>6, <1>7 DEF Replaced

\* The writer configuration is replaced.
LEMMA ReplaceConfigStep ==
  ASSUME CInv, c.fault = "none", Fault(c.wconf) = "none",
         c' = [c EXCEPT !.boxes = Drop(Box(ConfigBox("writer_config")), c.wconf),
                        !.wconf = Len(c.boxes) + 1]
  PROVE  CInv'
  <1> DEFINE r == ConfigBox("writer_config")
             s == c.boxes
             h == c.wconf
             t == Drop(Append(s, r), h)
             n == Len(s) + 1
  <1>1. CTypeOK(c) /\ Ledger(c) /\ Owned(c)
    BY DEF CInv
  <1>2. s \in Seq(CBoxes)
    BY <1>1, CFields
  <1>3. r \in CBoxes /\ r.kind = "writer_config" /\ r.live = TRUE
    BY ConfigBoxFacts
  <1>4. h \in DOMAIN s /\ s[h].live /\ s[h].kind = "writer_config"
    BY <1>1, HandleFacts DEF Kinds
  <1>5. c' = [c EXCEPT !.boxes = t, !.wconf = n]
    BY DEF Box
  <1> HIDE DEF r, s, h
  <1>60. Replaced(s, r, h, t, n)
    <2>1. s \in Seq(CBoxes) /\ r \in CBoxes /\ h \in DOMAIN s
      BY <1>2, <1>3, <1>4
    <2>2. t = Drop(Append(s, r), h) /\ n = Len(s) + 1
      OBVIOUS
    <2> HIDE DEF t, n
    <2>3. QED
      BY <2>1, <2>2, ReplacedBox
  <1>6. /\ t \in Seq(CBoxes) /\ n \in Nat /\ n # 0 /\ n \notin DOMAIN s
        /\ DOMAIN t = DOMAIN s \cup {n}
        /\ t[n].kind = r.kind /\ (t[n].live <=> r.live)
        /\ \A b \in DOMAIN s :
             /\ t[b].kind = s[b].kind
             /\ t[b].live <=> s[b].live /\ b # h
             /\ s[b].kind = "archive" => t[b].writer = s[b].writer
             /\ s[b].kind = "entry" => t[b].id = s[b].id /\ t[b].of = s[b].of
    BY <1>60 DEF Replaced
  <1> HIDE DEF t, n
  <1>7. /\ CTypeOK(c') /\ c'.boxes = t /\ c'.wconf = n /\ c'.rconf = c.rconf
        /\ c'.archive = c.archive /\ c'.entry = c.entry /\ c'.fault = c.fault
        /\ c'.misplaced = c.misplaced /\ c'.reported = c.reported
    BY <1>1, <1>5, <1>6 DEF CTypeOK
  <1>8. QuietStep(c, c')
    BY <1>3, <1>6, <1>7 DEF QuietStep, StillThere, s
  <1>9. Ledger(c')
    BY <1>1, <1>8, QuietLedger
  <1>10. OwnsOne(c', "writer_config", c'.wconf)
    BY <1>1, <1>3, <1>4, <1>6, <1>7 DEF Owned, OwnsOne, s, h
  <1>11. OwnsOne(c', "reader_config", c'.rconf) /\ OwnsOne(c', "archive", c'.archive)
    BY <1>1, <1>3, <1>4, <1>6, <1>7 DEF Owned, OwnsOne, s, h
  <1>12. OwnsEntries(c')
    BY <1>1, <1>3, <1>4, <1>6, <1>7 DEF Owned, OwnsEntries, s, h
  <1>13. QED
    BY <1>7, <1>9, <1>10, <1>11, <1>12 DEF CInv, Owned

\* The writer configuration is used up.
LEMMA UseWriterConfigStep ==
  ASSUME CInv, c.fault = "none", Fault(c.wconf) = "none", NEW status,
         c' = [c EXCEPT !.boxes = Drop(@, c.wconf), !.wconf = HandleAfterUse(@),
                        !.reported = Told(0, status)]
  PROVE  CInv'
  <1> DEFINE s == c.boxes
             h == c.wconf
             t == Drop(s, h)
  <1>1. CTypeOK(c) /\ Ledger(c) /\ Owned(c)
    BY DEF CInv
  <1>2. s \in Seq(CBoxes) /\ 0 \notin DOMAIN s
    BY <1>1, CFields
  <1>4. h \in DOMAIN s /\ s[h].live /\ s[h].kind = "writer_config"
    BY <1>1, HandleFacts DEF Kinds
  <1>5. c' = [c EXCEPT !.boxes = t, !.wconf = 0, !.reported = c.reported]
    BY DEF HandleAfterUse, Told
  <1>3. c.reported \in SUBSET Nat
    BY <1>1, CFields
  <1> HIDE DEF s, h
  <1>6. /\ t \in Seq(CBoxes) /\ DOMAIN t = DOMAIN s
        /\ \A b \in DOMAIN s :
             /\ t[b].kind = s[b].kind
             /\ t[b].live <=> s[b].live /\ b # h
             /\ s[b].kind = "archive" => t[b].writer = s[b].writer
             /\ s[b].kind = "entry" => t[b].id = s[b].id /\ t[b].of = s[b].of
    BY <1>2, <1>4, DropFacts
  <1> HIDE DEF t
  <1>7. /\ CTypeOK(c') /\ c'.boxes = t /\ c'.wconf = 0 /\ c'.rconf = c.rconf
        /\ c'.archive = c.archive /\ c'.entry = c.entry /\ c'.fault = c.fault
        /\ c'.misplaced = c.misplaced /\ c'.reported = c.reported
    <2>1. t \in Seq(CBoxes)
      BY <1>6
    <2>2. CTypeOK(c) /\ 0 \in Nat
      BY <1>1
    <2> DEFINE q == c.reported
    <2>3. c' = [c EXCEPT !.boxes = t, !.wconf = 0, !.reported = q] /\ q \in SUBSET Nat
      BY <1>3, <1>5
    <2> HIDE DEF q
    <2>4. /\ CTypeOK(c') /\ c'.boxes = t /\ c'.wconf = 0 /\ c'.rconf = c.rconf
          /\ c'.archive = c.archive /\ c'.entry = c.entry /\ c'.fault = c.fault
          /\ c'.misplaced = c.misplaced /\ c'.reported = q
      BY <2>1, <2>2, <2>3 DEF CTypeOK
    <2>5. QED
      BY <2>4 DEF q
  <1>8. QuietStep(c, c')
    BY <1>6, <1>7 DEF QuietStep, StillThere, s
  <1>9. Ledger(c')
    BY <1>1, <1>8, QuietLedger
  <1>10. OwnsOne(c', "writer_config", c'.wconf)
    BY <1>1, <1>2, <1>4, <1>6, <1>7 DEF Owned, OwnsOne, s, h
  <1>11. OwnsOne(c', "reader_config", c'.rconf) /\ OwnsOne(c', "archive", c'.archive)
    BY <1>1, <1>4, <1>6, <1>7 DEF Owned, OwnsOne, s, h
  <1>12. OwnsEntries(c')
    BY <1>1, <1>4, <1>6, <1>7 DEF Owned, OwnsEntries, s, h
  <1>13. QED
    BY <1>7, <1>9, <1>10, <1>11, <1>12 DEF CInv, Owned

\* WithCompressionLevel keeps the invariant.
LEMMA WithCompressionLevelStep ==
  ASSUME CInv, c.fault = "none", NEW level, WithCompressionLevel(level) PROVE CInv'
  <1>1. ConfigFault = "none" => Fault(c.wconf) = "none"
    BY DEF ConfigFault
  <1>2. CASE ConfigFaults
    BY <1>2, ConfigFaultStep
  <1>3. CASE /\ ConfigFault = "none"
             /\ c' = [c EXCEPT !.boxes = Drop(Box(ConfigBox("writer_config")), c.wconf),
                               !.wconf = Len(c.boxes) + 1]
    BY <1>1, <1>3, ReplaceConfigStep
  <1>4. CASE /\ ConfigFault = "none"
             /\ c' = [c EXCEPT !.boxes = Drop(@, c.wconf), !.wconf = HandleAfterUse(@),
                               !.reported = Told(0, MLAStatus("CompressionLevelOutOfRange"))]
    BY <1>1, <1>4, UseWriterConfigStep
  <1>5. QED
    BY <1>2, <1>3, <1>4 DEF WithCompressionLevel

\* WithoutCompression keeps the invariant.
LEMMA WithoutCompressionStep ==
  ASSUME CInv, c.fault = "none", WithoutCompression PROVE CInv'
  <1>1. ConfigFault = "none" => Fault(c.wconf) = "none"
    BY DEF ConfigFault
  <1>2. QED
    BY <1>1, ConfigFaultStep, ReplaceConfigStep DEF WithoutCompression

\* Extract keeps the invariant.
LEMMA ExtractCallStep ==
  ASSUME CInv, c.fault = "none", NEW outcome \in ExtractOutcomes, Extract(outcome)
  PROVE  CInv'
  <1> DEFINE s == c.boxes
             h == c.rconf
             t == Drop(s, h)
             f == IF outcome = "no_count" THEN "no_count" ELSE "none"
  <1>1. CTypeOK(c) /\ Ledger(c) /\ Owned(c)
    BY DEF CInv
  <1>2. s \in Seq(CBoxes) /\ 0 \notin DOMAIN s
    BY <1>1, CFields
  <1>3. /\ Fault(c.rconf) \in {"none", "null"}
        /\ Fault(c.rconf) = "none" => h \in DOMAIN s /\ s[h].live /\ s[h].kind = "reader_config"
    BY <1>1, HandleFacts DEF Kinds
  <1>4. CASE Faults(c.rconf)
    BY <1>3, <1>4, FaultStep
  <1>5. CASE /\ Fault(c.rconf) = "none"
             /\ c' = [c EXCEPT
                  !.boxes = Drop(@, c.rconf), !.rconf = HandleAfterUse(@),
                  !.fault = IF outcome = "no_count" THEN outcome ELSE @,
                  !.reported = Told(0, ExtractStatus(outcome))]
    <2>1. c' = [c EXCEPT !.boxes = t, !.rconf = 0, !.fault = f, !.reported = c.reported]
      BY <1>5 DEF HandleAfterUse, Told
    <2>2. h \in DOMAIN s /\ s[h].live /\ s[h].kind = "reader_config"
      BY <1>3, <1>5
    <2>3. f \in {"none", "no_count"}
      OBVIOUS
    <2> HIDE DEF s, h, f
    <2>4. /\ t \in Seq(CBoxes) /\ DOMAIN t = DOMAIN s
          /\ \A b \in DOMAIN s :
               /\ t[b].kind = s[b].kind
               /\ t[b].live <=> s[b].live /\ b # h
               /\ s[b].kind = "archive" => t[b].writer = s[b].writer
               /\ s[b].kind = "entry" => t[b].id = s[b].id /\ t[b].of = s[b].of
      BY <1>2, <2>2, DropFacts
    <2> HIDE DEF t
    <2>5. /\ CTypeOK(c') /\ c'.boxes = t /\ c'.wconf = c.wconf /\ c'.rconf = 0
          /\ c'.archive = c.archive /\ c'.entry = c.entry /\ c'.fault = f
          /\ c'.misplaced = c.misplaced /\ c'.reported = c.reported
      BY <1>1, <2>1, <2>3, <2>4 DEF CTypeOK
    <2>6. QuietStep(c, c')
      BY <2>4, <2>5 DEF QuietStep, StillThere, s
    <2>7. Ledger(c')
      BY <1>1, <2>6, QuietLedger
    <2>8. OwnsOne(c', "reader_config", c'.rconf)
      BY <1>1, <1>2, <2>2, <2>4, <2>5 DEF Owned, OwnsOne, s, h
    <2>9. OwnsOne(c', "writer_config", c'.wconf) /\ OwnsOne(c', "archive", c'.archive)
      BY <1>1, <2>2, <2>4, <2>5 DEF Owned, OwnsOne, s, h
    <2>10. OwnsEntries(c')
      BY <1>1, <2>2, <2>4, <2>5 DEF Owned, OwnsEntries, s, h
    <2>11. QED
      BY <2>3, <2>5, <2>7, <2>8, <2>9, <2>10 DEF CInv, Owned
  <1>6. QED
    BY <1>4, <1>5 DEF Extract
\* ArchiveNew keeps the invariant.
LEMMA ArchiveNewStep ==
  ASSUME CInv, c.fault = "none", NEW header, ArchiveNew(header) PROVE CInv'
  <1> DEFINE r == [kind |-> "archive", live |-> TRUE, writer |-> NewWriter]
             s == c.boxes
             h == c.wconf
             t == Drop(Append(s, r), h)
             n == Len(s) + 1
  <1>1. CTypeOK(c) /\ Ledger(c) /\ Owned(c)
    BY DEF CInv
  <1>2. s \in Seq(CBoxes) /\ 0 \notin DOMAIN s
    BY <1>1, CFields
  <1>3. r \in CBoxes /\ r.kind = "archive" /\ r.live = TRUE /\ r.writer = NewWriter
    <2>1. NewWriter \in Writers(CNames)
      BY NewWriterSane
    <2>2. QED
      BY <2>1 DEF CBoxes, ArchiveBoxes
  <1>4. /\ Fault(c.wconf) \in {"none", "null"}
        /\ Fault(c.wconf) = "none" => h \in DOMAIN s /\ s[h].live /\ s[h].kind = "writer_config"
    BY <1>1, HandleFacts DEF Kinds
  <1>9. ConfigFault = "none" => Fault(c.wconf) = "none"
    BY DEF ConfigFault
  <1>5. CASE ConfigFaults
    BY <1>5, ConfigFaultStep
  <1>6. CASE /\ ConfigFault = "none"
             /\ c' = [c EXCEPT !.boxes = Drop(@, c.wconf), !.wconf = HandleAfterUse(@),
                               !.reported = Told(0, MLAStatus(header))]
    BY <1>6, <1>9, UseWriterConfigStep
  <1>7. CASE /\ ConfigFault = "none" /\ c.archive = 0
             /\ c' = [c EXCEPT !.boxes = Drop(Box(r), c.wconf), !.wconf = HandleAfterUse(@),
                               !.archive = Len(c.boxes) + 1]
    <2>1. c' = [c EXCEPT !.boxes = t, !.wconf = 0, !.archive = n]
      BY <1>7 DEF Box, HandleAfterUse
    <2>2. h \in DOMAIN s /\ s[h].live /\ s[h].kind = "writer_config"
      BY <1>4, <1>7, <1>9
    <2> HIDE DEF r, s, h
    <2>3. Replaced(s, r, h, t, n)
      <3>1. s \in Seq(CBoxes) /\ r \in CBoxes /\ h \in DOMAIN s
        BY <1>2, <1>3, <2>2
      <3>2. t = Drop(Append(s, r), h) /\ n = Len(s) + 1
        OBVIOUS
      <3> HIDE DEF t, n
      <3>3. QED
        BY <3>1, <3>2, ReplacedBox
    <2> HIDE DEF t, n
    <2>4. /\ t \in Seq(CBoxes) /\ n \in Nat /\ n # 0 /\ n \notin DOMAIN s
          /\ DOMAIN t = DOMAIN s \cup {n}
          /\ t[n].kind = "archive" /\ t[n].live /\ t[n].writer = NewWriter
          /\ \A b \in DOMAIN s :
               /\ t[b].kind = s[b].kind
               /\ t[b].live <=> s[b].live /\ b # h
               /\ s[b].kind = "archive" => t[b].writer = s[b].writer
               /\ s[b].kind = "entry" => t[b].id = s[b].id /\ t[b].of = s[b].of
      BY <1>3, <2>3 DEF Replaced
    <2>5. /\ CTypeOK(c') /\ c'.boxes = t /\ c'.wconf = 0 /\ c'.rconf = c.rconf
          /\ c'.archive = n /\ c'.entry = c.entry /\ c'.fault = c.fault
          /\ c'.misplaced = c.misplaced /\ c'.reported = c.reported
      BY <1>1, <2>1, <2>4 DEF CTypeOK
    <2>6. QuietStep(c, c')
      BY <2>4, <2>5 DEF QuietStep, StillThere, s
    <2>7. Ledger(c')
      BY <1>1, <2>6, QuietLedger
    <2>8. OwnsOne(c', "writer_config", c'.wconf)
      <3>1. \A b \in DOMAIN s : s[b].live /\ s[b].kind = "writer_config" <=> b = h
        BY <1>1 DEF Owned, OwnsOne, s, h
      <3>2. \A b \in DOMAIN t : ~(t[b].live /\ t[b].kind = "writer_config")
        BY <2>4, <3>1
      <3>3. 0 \notin DOMAIN t
        BY <2>4
      <3>4. QED
        BY <2>5, <3>2, <3>3 DEF OwnsOne
    <2>9. OwnsOne(c', "archive", c'.archive)
      <3>1. \A b \in DOMAIN s : ~(s[b].live /\ s[b].kind = "archive")
        BY <1>1, <1>2, <1>7 DEF Owned, OwnsOne, s
      <3>2. QED
        BY <2>4, <2>5, <3>1 DEF OwnsOne
    <2>10. OwnsOne(c', "reader_config", c'.rconf)
      BY <1>1, <2>2, <2>4, <2>5 DEF Owned, OwnsOne, s, h
    <2>11. OwnsEntries(c')
      BY <1>1, <2>2, <2>4, <2>5 DEF Owned, OwnsEntries, s, h
    <2>12. QED
      BY <2>5, <2>7, <2>8, <2>9, <2>10, <2>11 DEF CInv, Owned
  <1>8. QED
    BY <1>5, <1>6, <1>7 DEF ArchiveNew

-------------------------------------------------------------------------------
\* The archive behind the caller's handle.
LEMMA OpenArchive ==
  ASSUME CInv, c.fault = "none", Fault(c.archive) = "none"
  PROVE  /\ c.archive \in DOMAIN c.boxes /\ c.boxes[c.archive].live
         /\ c.boxes[c.archive].kind = "archive"
         /\ OpenWriter \in Writers(CNames) /\ Sane(OpenWriter)
         /\ ~OpenWriter.sealed /\ OpenWriter.torn \in BOOLEAN
         /\ OpenWriter.torn => c.archive \in c.reported
  <1>1. CTypeOK(c) /\ Ledger(c) /\ Owned(c)
    BY DEF CInv
  <1>2. /\ c.archive \in DOMAIN c.boxes /\ c.boxes[c.archive].live
        /\ c.boxes[c.archive].kind = "archive"
    BY <1>1, HandleFacts DEF Kinds
  <1>3. c.boxes[c.archive] \in CBoxes
    BY <1>1, <1>2, CFields
  <1>4. OpenWriter \in Writers(CNames)
    BY <1>2, <1>3, BoxFacts DEF OpenWriter
  <1>5. ArchiveOK(c, c.archive)
    BY <1>1, <1>2 DEF Ledger, ArchivesOK
  <1>6. OpenWriter.torn \in BOOLEAN
    BY <1>4, WriterFields
  <1>7. QED
    BY <1>2, <1>4, <1>5, <1>6 DEF ArchiveOK, OpenWriter

\* An error of the destination is the only one that becomes IOError.
LEMMA StatusFacts ==
  /\ MLAStatus("IOError") = "IOError"
  /\ \A error \in {"None", "DuplicateEntryName", "WrongWriterState"} :
       MLAStatus(error) # "IOError"
  BY DEF MLAStatus

\* The archive that reported an error is told so, and no other forgotten.
LEMMA ToldFacts ==
  ASSUME NEW a \in Nat, a # 0, c.reported \in SUBSET Nat, NEW status
  PROVE  /\ Told(a, status) \in SUBSET Nat /\ c.reported \subseteq Told(a, status)
         /\ status = "IOError" => a \in Told(a, status)
  BY DEF Told

\* The caller's archive has another writer, and a box may be freed.
Used(s, a, w, h, t) ==
  /\ t \in Seq(CBoxes) /\ DOMAIN t = DOMAIN s
  /\ t[a].kind = "archive" /\ t[a].writer = w
  /\ \A b \in DOMAIN s :
       /\ t[b].kind = s[b].kind
       /\ t[b].live <=> s[b].live /\ b # h
       /\ s[b].kind = "archive" /\ b # a => t[b].writer = s[b].writer
       /\ s[b].kind = "entry" => t[b].id = s[b].id /\ t[b].of = s[b].of

\* A call on an archive uses its box.
LEMMA UsedBox ==
  ASSUME NEW s \in Seq(CBoxes), NEW a \in DOMAIN s, s[a].kind = "archive",
         NEW w \in Writers(CNames), NEW t, t = [s EXCEPT ![a].writer = w]
  PROVE  Used(s, a, w, 0, t)
  <1>1. /\ t \in Seq(CBoxes) /\ DOMAIN t = DOMAIN s
        /\ t[a].writer = w /\ t[a].kind = "archive" /\ t[a].live = s[a].live
        /\ \A b \in DOMAIN s : b # a => t[b] = s[b]
    BY LeakFacts
  <1>2. ASSUME NEW b \in DOMAIN s
        PROVE  /\ t[b].kind = s[b].kind /\ (t[b].live <=> s[b].live /\ b # 0)
               /\ s[b].kind = "archive" /\ b # a => t[b].writer = s[b].writer
               /\ s[b].kind = "entry" => t[b].id = s[b].id /\ t[b].of = s[b].of
    <2>0. b # 0
      OBVIOUS
    <2>1. CASE b = a
      BY <1>1, <2>0, <2>1
    <2>2. CASE b # a
      BY <1>1, <2>0, <2>2
    <2>3. QED
      BY <2>1, <2>2
  <1>3. QED
    BY <1>1, <1>2 DEF Used

Dropped(s, h, t) ==
  /\ t \in Seq(CBoxes) /\ DOMAIN t = DOMAIN s
  /\ \A b \in DOMAIN s :
       /\ t[b].kind = s[b].kind
       /\ t[b].live <=> s[b].live /\ b # h
       /\ s[b].kind = "archive" => t[b].writer = s[b].writer
       /\ s[b].kind = "entry" => t[b].id = s[b].id /\ t[b].of = s[b].of

\* Dropping a box drops it.
LEMMA DroppedAs ==
  ASSUME NEW s \in Seq(CBoxes), NEW h \in DOMAIN s, NEW t, t = Drop(s, h)
  PROVE  Dropped(s, h, t)
  BY DropFacts DEF Dropped

\* Using an archive and then freeing a box of it.
LEMMA UsedThenFreed ==
  ASSUME NEW s, NEW a \in DOMAIN s, NEW w, NEW u, Used(s, a, w, 0, u), 0 \notin DOMAIN s,
         NEW h \in DOMAIN s, NEW t, Dropped(u, h, t)
  PROVE  Used(s, a, w, h, t)
  <1>1. /\ t \in Seq(CBoxes) /\ DOMAIN t = DOMAIN s
        /\ t[a].kind = "archive" /\ t[a].writer = w
    BY DEF Used, Dropped
  <1>2. ASSUME NEW b \in DOMAIN s
        PROVE  /\ t[b].kind = s[b].kind
               /\ t[b].live <=> s[b].live /\ b # h
               /\ s[b].kind = "archive" /\ b # a => t[b].writer = s[b].writer
               /\ s[b].kind = "entry" => t[b].id = s[b].id /\ t[b].of = s[b].of
    BY DEF Used, Dropped
  <1>3. QED
    BY <1>1, <1>2 DEF Used
\* A call of the open writer keeps the ledger, also if it frees a box.
LEMMA UseLedger ==
  ASSUME CInv, c.fault = "none", Fault(c.archive) = "none",
         NEW x, Sane(x), NEW h,
         x.torn => c.archive \in c'.reported,
         x.sealed => h = c.archive /\ x.open = {},
         Len(OpenWriter.names) <= Len(x.names),
         CTypeOK(c'), Used(c.boxes, c.archive, x, h, c'.boxes),
         c.misplaced \subseteq c'.misplaced, c.reported \subseteq c'.reported,
         \A e \in DOMAIN c.boxes :
           (/\ c.boxes[e].kind = "entry" /\ c.boxes[e].of = c.archive
            /\ e # h /\ c.archive \notin c'.misplaced /\ c.boxes[e].id \in OpenWriter.open)
             => c.boxes[e].id \in x.open
  PROVE  Ledger(c')
  <1>1. CTypeOK(c) /\ Ledger(c)
    BY DEF CInv
  <1>2. c.archive \in DOMAIN c.boxes /\ c.boxes[c.archive].kind = "archive"
    BY OpenArchive
  <1>3. /\ DOMAIN c'.boxes = DOMAIN c.boxes
        /\ c'.boxes[c.archive].writer = x
        /\ \A b \in DOMAIN c.boxes :
             /\ c'.boxes[b].kind = c.boxes[b].kind
             /\ c'.boxes[b].live <=> c.boxes[b].live /\ b # h
             /\ c.boxes[b].kind = "archive" /\ b # c.archive =>
                  c'.boxes[b].writer = c.boxes[b].writer
             /\ c.boxes[b].kind = "entry" =>
                  c'.boxes[b].id = c.boxes[b].id /\ c'.boxes[b].of = c.boxes[b].of
    BY DEF Used
  <1>4. StillThere(c, c')
    BY <1>3 DEF StillThere
  <1>5. ArchiveOK(c', c.archive)
    BY <1>2, <1>3 DEF ArchiveOK
  <1>6. Len(c.boxes[c.archive].writer.names) <= Len(c'.boxes[c.archive].writer.names)
    BY <1>3 DEF OpenWriter
  <1>7. \A e \in DOMAIN c.boxes :
          (/\ c.boxes[e].kind = "entry" /\ c.boxes[e].of = c.archive /\ c'.boxes[e].live
           /\ c.archive \notin c'.misplaced
           /\ c.boxes[e].id \in c.boxes[c.archive].writer.open)
            => c.boxes[e].id \in c'.boxes[c.archive].writer.open
    BY <1>3 DEF OpenWriter
  <1>8. WriterStep(c, c', c.archive)
    BY <1>2, <1>3, <1>4, <1>5, <1>6, <1>7 DEF WriterStep
  <1>9. QED
    BY <1>1, <1>8, WriterLedger

\* A call of the open writer that frees nothing keeps the handles.
LEMMA UseStep ==
  ASSUME CInv, c.fault = "none", Fault(c.archive) = "none",
         NEW x, Sane(x), ~x.sealed, x.torn => c.archive \in c'.reported,
         Len(OpenWriter.names) <= Len(x.names), OpenWriter.open \subseteq x.open,
         CTypeOK(c'), Used(c.boxes, c.archive, x, 0, c'.boxes),
         c.misplaced \subseteq c'.misplaced, c.reported \subseteq c'.reported,
         c'.wconf = c.wconf, c'.rconf = c.rconf, c'.archive = c.archive,
         c'.entry = c.entry, c'.fault = c.fault
  PROVE  CInv'
  <1>1. Ledger(c')
    BY UseLedger
  <1>2. Owned(c) /\ 0 \notin DOMAIN c.boxes
    BY CFields DEF CInv
  <1>3. /\ DOMAIN c'.boxes = DOMAIN c.boxes
        /\ \A b \in DOMAIN c.boxes :
             c'.boxes[b].kind = c.boxes[b].kind /\ (c'.boxes[b].live <=> c.boxes[b].live)
    BY <1>2 DEF Used
  <1>4. OwnsOne(c', "writer_config", c'.wconf) /\ OwnsOne(c', "reader_config", c'.rconf)
        /\ OwnsOne(c', "archive", c'.archive)
    BY <1>2, <1>3 DEF Owned, OwnsOne
  <1>5. OwnsEntries(c')
    BY <1>2, <1>3 DEF Owned, OwnsEntries
  <1>6. QED
    BY <1>1, <1>4, <1>5 DEF CInv, Owned

\* What Misplaced adds.
LEMMA MisplacedFacts ==
  ASSUME CTypeOK(c), NEW e
  PROVE  /\ Misplaced(e) \in SUBSET Nat /\ c.misplaced \subseteq Misplaced(e)
         /\ c.boxes[e].of # c.archive => c.archive \in Misplaced(e)
  <1>1. c.misplaced \subseteq Nat /\ c.archive \in Nat
    BY CFields
  <1>2. QED
    BY <1>1 DEF Misplaced

\* The entry behind a handle of the caller.
LEMMA HeldEntry ==
  ASSUME CInv, c.fault = "none", NEW var \in EntryVars, Fault(c.entry[var]) = "none"
  PROVE  /\ c.entry[var] \in DOMAIN c.boxes /\ c.boxes[c.entry[var]].live
         /\ c.boxes[c.entry[var]].kind = "entry" /\ c.boxes[c.entry[var]].id \in Nat
  <1>1. /\ c.entry[var] \in DOMAIN c.boxes /\ c.boxes[c.entry[var]].live
        /\ c.boxes[c.entry[var]].kind = "entry"
    BY HandleFacts DEF CInv, Kinds
  <1>2. c.boxes[c.entry[var]] \in CBoxes
    BY <1>1, CFields DEF CInv
  <1>3. QED
    BY <1>1, <1>2, BoxFacts

\* A variable of the program never holds a freed pointer.
LEMMA HandlesSound ==
  ASSUME CInv, c.fault = "none"
  PROVE  /\ Fault(c.archive) \in {"none", "null"}
         /\ \A var \in EntryVars : Fault(c.entry[var]) \in {"none", "null"}
  BY HandleFacts DEF CInv, Kinds

\* FileAppend keeps the invariant.
LEMMA FileAppendStep ==
  ASSUME CInv, c.fault = "none", NEW var \in EntryVars, NEW source \in {"whole", "empty"},
         FileAppend(var, source)
  PROVE  CInv'
  <1>1. CASE \E status : Returns(status)
    BY <1>1, ReturnStep
  <1>2. CASE Faults(c.archive) \/ Faults(c.entry[var])
    BY <1>2, FaultStep, HandlesSound
  <1>3. CASE /\ Fault(c.archive) = "none" /\ Fault(c.entry[var]) = "none" /\ c.archive # 0
             /\ \E answer \in CallAppendEntryContent(OpenWriter, c.boxes[c.entry[var]].id, source) :
                  c' = [c EXCEPT !.boxes = Leaked(@, answer),
                                 !.misplaced = Misplaced(c.entry[var]),
                                 !.reported = Told(c.archive, MLAStatus(answer.error))]
    <2> DEFINE a == c.archive
               w == OpenWriter
               id == c.boxes[c.entry[var]].id
               mi == Misplaced(c.entry[var])
    <2>1. CTypeOK(c) /\ a \in Nat /\ a # 0 /\ c.reported \in SUBSET Nat /\ c.boxes \in Seq(CBoxes)
      BY <1>3, CFields DEF CInv
    <2>2. /\ a \in DOMAIN c.boxes /\ c.boxes[a].kind = "archive"
          /\ w \in Writers(CNames) /\ Sane(w) /\ ~w.sealed
          /\ w.torn => a \in c.reported
      BY <1>3, OpenArchive
    <2>3. id \in Nat
      BY <1>3, HeldEntry
    <2>4. PICK answer \in CallAppendEntryContent(w, id, source) :
            c' = [c EXCEPT !.boxes = Leaked(c.boxes, answer),
                           !.misplaced = mi,
                           !.reported = Told(a, MLAStatus(answer.error))]
      BY <1>3
    <2> DEFINE x == answer.writer
               t == [c.boxes EXCEPT ![a].writer = x]
               re == Told(a, MLAStatus(answer.error))
    <2>5. source \in Sources /\ source # "changed"
      BY DEF Sources
    <2> HIDE DEF w, id
    <2>6. /\ x \in Writers(CNames) /\ Sane(x) /\ x.sealed = w.sealed
          /\ x.names = w.names /\ x.open = w.open
          /\ answer.error \in {"None", "IOError", "WrongWriterState"}
          /\ (source # "changed" /\ answer.error # "IOError") => x.torn = w.torn
      <3>1. /\ w \in Writers(CNames) /\ Sane(w) /\ id \in Nat /\ source \in Sources
            /\ answer \in CallAppendEntryContent(w, id, source)
        BY <2>2, <2>3, <2>4, <2>5
      <3>2. AppendedAs(CNames, w, id, source, answer)
        BY <3>1, AppendAnswers
      <3>3. QED
        BY <3>2 DEF AppendedAs
    <2>7. mi \in SUBSET Nat /\ c.misplaced \subseteq mi
      BY <2>1, MisplacedFacts
    <2>8. re \in SUBSET Nat /\ c.reported \subseteq re /\ (MLAStatus(answer.error) = "IOError" => a \in re)
      BY <2>1, ToldFacts
    <2>9. x.torn => a \in re
      BY <2>2, <2>5, <2>6, <2>8, StatusFacts
    <2>10. Used(c.boxes, a, x, 0, t)
      <3>1. c.boxes \in Seq(CBoxes) /\ a \in DOMAIN c.boxes /\ c.boxes[a].kind = "archive"
            /\ x \in Writers(CNames)
        BY <2>1, <2>2, <2>6
      <3>2. t = [c.boxes EXCEPT ![a].writer = x]
        OBVIOUS
      <3> HIDE DEF a, x, t
      <3>3. QED
        BY <3>1, <3>2, UsedBox
    <2>11. c' = [c EXCEPT !.boxes = t, !.misplaced = mi, !.reported = re]
      BY <2>4 DEF Leaked
    <2> HIDE DEF t, mi, re, x
    <2>12. t \in Seq(CBoxes)
      BY <2>10 DEF Used
    <2>13. /\ CTypeOK(c') /\ c'.boxes = t /\ c'.wconf = c.wconf /\ c'.rconf = c.rconf
           /\ c'.archive = c.archive /\ c'.entry = c.entry /\ c'.fault = c.fault
           /\ c'.misplaced = mi /\ c'.reported = re
      BY <2>1, <2>7, <2>8, <2>11, <2>12 DEF CTypeOK
    <2>14. Len(w.names) <= Len(x.names)
      <3>1. Len(w.names) \in Nat
        BY <2>2, WriterFields
      <3>2. QED
        BY <2>6, <3>1
    <2>15. QED
      BY <1>3, <2>2, <2>6, <2>7, <2>8, <2>9, <2>10, <2>13, <2>14, UseStep DEF a, w
  <1>4. QED
    BY <1>1, <1>2, <1>3 DEF FileAppend
\* ArchiveFlush keeps the invariant.
LEMMA ArchiveFlushStep ==
  ASSUME CInv, c.fault = "none", NEW error \in {"None", "IOError"}, ArchiveFlush(error)
  PROVE  CInv'
  <1>1. CASE \E status : Returns(status)
    BY <1>1, ReturnStep
  <1>2. CASE Faults(c.archive)
    BY <1>2, FaultStep, HandlesSound
  <1>3. CASE /\ Fault(c.archive) = "none" /\ c.archive # 0
             /\ c' = [c EXCEPT !.boxes[c.archive].writer.torn = @ \/ error # "None",
                               !.reported = Told(c.archive, MLAStatus(error))]
    <2> DEFINE a == c.archive
               w == OpenWriter
               d == w.torn \/ error # "None"
               x == [w EXCEPT !.torn = d]
               t == [c.boxes EXCEPT ![a].writer = x]
               re == Told(a, MLAStatus(error))
    <2>1. CTypeOK(c) /\ a \in Nat /\ a # 0 /\ c.reported \in SUBSET Nat /\ c.boxes \in Seq(CBoxes)
      BY <1>3, CFields DEF CInv
    <2>2. /\ a \in DOMAIN c.boxes /\ c.boxes[a].kind = "archive"
          /\ w \in Writers(CNames) /\ Sane(w) /\ ~w.sealed
          /\ w.torn => a \in c.reported
      BY <1>3, OpenArchive
    <2>3. t = [c.boxes EXCEPT ![a].writer.torn = d]
      BY <2>1, <2>2 DEF OpenWriter
    <2>4. c' = [c EXCEPT !.boxes = t, !.reported = re]
      BY <1>3, <2>3 DEF OpenWriter
    <2>5. d \in BOOLEAN /\ (d => w.torn \/ error = "IOError")
      OBVIOUS
    <2> HIDE DEF w, d
    <2>6. /\ x \in Writers(CNames) /\ x.torn = d /\ x.names = w.names /\ x.open = w.open
          /\ x.blocks = w.blocks /\ x.sealed = w.sealed
      BY <2>2, <2>5, With_torn
    <2>7. Sane(x)
      <3>1. CASE error = "IOError"
        <4>1. x.torn = TRUE
          BY <2>6, <3>1 DEF d
        <4> HIDE DEF x
        <4>2. QED
          BY <2>2, <2>6, <4>1, TornSane
      <3>2. CASE error = "None"
        <4>1. x.torn = w.torn
          <5>1. w.torn \in BOOLEAN
            BY <2>2, WriterFields
          <5>2. QED
            BY <2>6, <3>2, <5>1 DEF d
        <4>2. x = w
          <5>1. w.torn = d
            BY <2>6, <4>1
          <5>2. QED
            BY <2>2, <5>1 DEF Writers
        <4>3. QED
          BY <2>2, <4>2
      <3>3. QED
        BY <3>1, <3>2
    <2>8. re \in SUBSET Nat /\ c.reported \subseteq re /\ (MLAStatus(error) = "IOError" => a \in re)
      BY <2>1, ToldFacts
    <2>9. x.torn => a \in re
      BY <2>2, <2>5, <2>6, <2>8, StatusFacts
    <2>10. Used(c.boxes, a, x, 0, t)
      <3>1. c.boxes \in Seq(CBoxes) /\ a \in DOMAIN c.boxes /\ c.boxes[a].kind = "archive"
            /\ x \in Writers(CNames)
        BY <2>1, <2>2, <2>6
      <3>2. t = [c.boxes EXCEPT ![a].writer = x]
        OBVIOUS
      <3> HIDE DEF a, x, t
      <3>3. QED
        BY <3>1, <3>2, UsedBox
    <2> HIDE DEF t, re, x
    <2>12. t \in Seq(CBoxes)
      BY <2>10 DEF Used
    <2>13. /\ CTypeOK(c') /\ c'.boxes = t /\ c'.wconf = c.wconf /\ c'.rconf = c.rconf
           /\ c'.archive = c.archive /\ c'.entry = c.entry /\ c'.fault = c.fault
           /\ c'.misplaced = c.misplaced /\ c'.reported = re
      BY <2>1, <2>4, <2>8, <2>12 DEF CTypeOK
    <2>14. Len(w.names) <= Len(x.names)
      <3>1. Len(w.names) \in Nat
        BY <2>2, WriterFields
      <3>2. QED
        BY <2>6, <3>1
    <2>15. QED
      BY <1>3, <2>2, <2>6, <2>7, <2>8, <2>9, <2>10, <2>13, <2>14, UseStep DEF a, w
  <1>4. QED
    BY <1>1, <1>2, <1>3 DEF ArchiveFlush

\* FileClose keeps the invariant.
LEMMA FileCloseStep ==
  ASSUME CInv, c.fault = "none", NEW var \in EntryVars, FileClose(var) PROVE CInv'
  <1>1. CASE \E status : Returns(status)
    BY <1>1, ReturnStep
  <1>2. CASE Faults(c.archive) \/ Faults(c.entry[var])
    BY <1>2, FaultStep, HandlesSound
  <1>3. CASE /\ Fault(c.archive) = "none" /\ Fault(c.entry[var]) = "none" /\ c.archive # 0
             /\ \E answer \in CallEndEntry(OpenWriter, c.boxes[c.entry[var]].id) :
                  c' = [c EXCEPT !.boxes = Drop(Leaked(@, answer), c.entry[var]),
                                 !.entry[var] = HandleAfterUse(@),
                                 !.misplaced = Misplaced(c.entry[var]),
                                 !.reported = Told(c.archive, MLAStatus(answer.error))]
    <2> DEFINE a == c.archive
               h == c.entry[var]
               w == OpenWriter
               id == c.boxes[h].id
               mi == Misplaced(h)
               en == [c.entry EXCEPT ![var] = 0]
    <2>1. CTypeOK(c) /\ a \in Nat /\ a # 0 /\ c.reported \in SUBSET Nat /\ c.boxes \in Seq(CBoxes)
          /\ 0 \notin DOMAIN c.boxes /\ c.entry \in [EntryVars -> Nat]
      BY <1>3, CFields DEF CInv
    <2>2. /\ a \in DOMAIN c.boxes /\ c.boxes[a].kind = "archive"
          /\ w \in Writers(CNames) /\ Sane(w) /\ ~w.sealed
          /\ w.torn => a \in c.reported
      BY <1>3, OpenArchive
    <2>3. id \in Nat /\ h \in DOMAIN c.boxes /\ c.boxes[h].live /\ c.boxes[h].kind = "entry"
      BY <1>3, HeldEntry
    <2>4. PICK answer \in CallEndEntry(w, id) :
            c' = [c EXCEPT !.boxes = Drop(Leaked(c.boxes, answer), h), !.entry = en,
                           !.misplaced = mi,
                           !.reported = Told(a, MLAStatus(answer.error))]
      BY <1>3, ZenonT(60) DEF HandleAfterUse
    <2> DEFINE x == answer.writer
               u == [c.boxes EXCEPT ![a].writer = x]
               t == Drop(u, h)
               re == Told(a, MLAStatus(answer.error))
    <2>5. en \in [EntryVars -> Nat] /\ en[var] = 0 /\ \A v \in EntryVars : v # var => en[v] = c.entry[v]
      BY <2>1
    <2> HIDE DEF w, id
    <2>6. /\ x \in Writers(CNames) /\ Sane(x) /\ x.sealed = w.sealed
          /\ x.names = w.names /\ x.open = w.open \ {id}
          /\ answer.error \in {"None", "IOError", "WrongWriterState"}
          /\ answer.error # "IOError" => x.torn = w.torn
      <3>1. /\ w \in Writers(CNames) /\ Sane(w) /\ id \in Nat
            /\ answer \in CallEndEntry(w, id)
        BY <2>2, <2>3, <2>4
      <3>2. EndedAs(CNames, w, id, answer)
        BY <3>1, EndEntryAnswers
      <3>3. QED
        BY <3>2 DEF EndedAs
    <2>7. mi \in SUBSET Nat /\ c.misplaced \subseteq mi /\ (c.boxes[h].of # a => a \in mi)
      BY <2>1, MisplacedFacts
    <2>8. re \in SUBSET Nat /\ c.reported \subseteq re /\ (MLAStatus(answer.error) = "IOError" => a \in re)
      BY <2>1, ToldFacts
    <2>9. x.torn => a \in re
      BY <2>2, <2>6, <2>8, StatusFacts
    <2>10. Used(c.boxes, a, x, 0, u)
      <3>1. c.boxes \in Seq(CBoxes) /\ a \in DOMAIN c.boxes /\ c.boxes[a].kind = "archive"
            /\ x \in Writers(CNames)
        BY <2>1, <2>2, <2>6
      <3>2. u = [c.boxes EXCEPT ![a].writer = x]
        OBVIOUS
      <3> HIDE DEF a, x, u
      <3>3. QED
        BY <3>1, <3>2, UsedBox
    <2>11. Dropped(u, h, t)
      <3>1. u \in Seq(CBoxes) /\ h \in DOMAIN u
        BY <2>3, <2>10 DEF Used
      <3> HIDE DEF u, h
      <3>2. QED
        BY <3>1, DroppedAs
    <2>12. c' = [c EXCEPT !.boxes = t, !.entry = en, !.misplaced = mi,
                          !.reported = re]
      BY <2>4 DEF Leaked
    <2> HIDE DEF t, u, mi, re, x, en
    <2>13. Used(c.boxes, a, x, h, t)
      BY <2>1, <2>2, <2>3, <2>10, <2>11, UsedThenFreed
    <2>14. t \in Seq(CBoxes)
      BY <2>13 DEF Used
    <2>15. /\ CTypeOK(c') /\ c'.boxes = t /\ c'.wconf = c.wconf /\ c'.rconf = c.rconf
           /\ c'.archive = c.archive /\ c'.entry = en /\ c'.fault = c.fault
           /\ c'.misplaced = mi /\ c'.reported = re
      BY <2>1, <2>5, <2>7, <2>8, <2>12, <2>14 DEF CTypeOK
    <2>16. Len(w.names) <= Len(x.names)
      <3>1. Len(w.names) \in Nat
        BY <2>2, WriterFields
      <3>2. QED
        BY <2>6, <3>1
    <2>17. ASSUME NEW e \in DOMAIN c.boxes, c.boxes[e].kind = "entry", c.boxes[e].of = a,
                  e # h, a \notin mi, c.boxes[e].id \in w.open
           PROVE  c.boxes[e].id \in x.open
      <3>1. c.boxes[h].of = a
        BY <2>7, <2>17
      <3>2. c.boxes[e].id # id
        BY <2>3, <2>17, <3>1 DEF CInv, Ledger, EntriesOK, id
      <3>3. QED
        BY <2>6, <2>17, <3>2
    <2>18. Ledger(c')
      BY <1>3, <2>2, <2>6, <2>7, <2>8, <2>9, <2>13, <2>15, <2>16, <2>17, UseLedger DEF a, w
    <2>19. Owned(c)
      BY DEF CInv
    <2>20. /\ DOMAIN t = DOMAIN c.boxes
           /\ \A b \in DOMAIN c.boxes :
                t[b].kind = c.boxes[b].kind /\ (t[b].live <=> c.boxes[b].live /\ b # h)
      BY <2>13 DEF Used
    <2> HIDE DEF h
    <2>21. OwnsOne(c', "writer_config", c'.wconf) /\ OwnsOne(c', "reader_config", c'.rconf)
           /\ OwnsOne(c', "archive", c'.archive)
      BY <2>3, <2>15, <2>19, <2>20 DEF Owned, OwnsOne
    <2>22. OwnsEntries(c')
      <3>1. \A v \in EntryVars : en[v] \in {0} \cup DOMAIN t
        BY <2>5, <2>19, <2>20 DEF Owned, OwnsEntries
      <3>2. ASSUME NEW b \in DOMAIN t
            PROVE  t[b].live /\ t[b].kind = "entry" <=> \E v \in EntryVars : en[v] = b
        <4>1. b # 0
          BY <2>1, <2>20
        <4>2. c.boxes[b].live /\ c.boxes[b].kind = "entry" <=> \E v \in EntryVars : c.entry[v] = b
          BY <2>19, <2>20 DEF Owned, OwnsEntries
        <4>3. (\E v \in EntryVars : en[v] = b) <=> (\E v \in EntryVars : c.entry[v] = b) /\ b # h
          <5>1. CASE b = h
            <6>1. \A v \in EntryVars : c.entry[v] = h => v = var
              BY <2>1, <2>3, <2>19 DEF Owned, OwnsEntries, h
            <6>2. QED
              BY <2>5, <4>1, <5>1, <6>1
          <5>2. CASE b # h
            BY <2>5, <4>1, <5>2 DEF h
          <5>3. QED
            BY <5>1, <5>2
        <4>4. QED
          BY <2>20, <4>2, <4>3
      <3>3. \A p, v \in EntryVars : en[p] = en[v] /\ en[p] # 0 => p = v
        BY <2>5, <2>19 DEF Owned, OwnsEntries
      <3>4. QED
        BY <2>15, <3>1, <3>2, <3>3 DEF OwnsEntries
    <2>23. QED
      BY <2>15, <2>18, <2>21, <2>22 DEF CInv, Owned
  <1>4. QED
    BY <1>1, <1>2, <1>3 DEF FileClose
\* ArchiveClose keeps the invariant.
LEMMA ArchiveCloseStep ==
  ASSUME CInv, c.fault = "none", ArchiveClose PROVE CInv'
  <1>1. CASE \E status : Returns(status)
    BY <1>1, ReturnStep
  <1>2. CASE Faults(c.archive)
    BY <1>2, FaultStep, HandlesSound
  <1>3. CASE /\ Fault(c.archive) = "none" /\ c.archive # 0
             /\ \E answer \in CallFinalize(OpenWriter) :
                  c' = [c EXCEPT !.boxes = Drop(Leaked(@, answer), c.archive),
                                 !.archive = HandleAfterUse(@),
                                 !.reported = Told(c.archive, MLAStatus(answer.error))]
    <2> DEFINE a == c.archive
               w == OpenWriter
    <2>1. CTypeOK(c) /\ a \in Nat /\ a # 0 /\ c.reported \in SUBSET Nat /\ c.boxes \in Seq(CBoxes)
          /\ 0 \notin DOMAIN c.boxes
      BY <1>3, CFields DEF CInv
    <2>2. /\ a \in DOMAIN c.boxes /\ c.boxes[a].kind = "archive"
          /\ w \in Writers(CNames) /\ Sane(w) /\ ~w.sealed
          /\ w.torn => a \in c.reported
      BY <1>3, OpenArchive
    <2>3. PICK answer \in CallFinalize(w) :
            c' = [c EXCEPT !.boxes = Drop(Leaked(c.boxes, answer), a), !.archive = 0,
                           !.reported = Told(a, MLAStatus(answer.error))]
      BY <1>3 DEF HandleAfterUse
    <2> DEFINE x == answer.writer
               u == [c.boxes EXCEPT ![a].writer = x]
               t == Drop(u, a)
               re == Told(a, MLAStatus(answer.error))
    <2> HIDE DEF w
    <2>4. /\ x \in Writers(CNames) /\ Sane(x) /\ x.names = w.names /\ x.open = w.open
          /\ answer.error \in {"None", "IOError", "WrongWriterState"}
          /\ answer.error # "IOError" => x.torn = w.torn
          /\ answer.error = "None" => w.open = {}
          /\ answer.error # "None" => x.sealed = w.sealed
      <3>1. w \in Writers(CNames) /\ Sane(w) /\ answer \in CallFinalize(w)
        BY <2>2, <2>3
      <3>2. FinalizedAs(CNames, w, answer)
        BY <3>1, FinalizeAnswers
      <3>3. QED
        BY <3>2 DEF FinalizedAs
    <2>5. re \in SUBSET Nat /\ c.reported \subseteq re /\ (MLAStatus(answer.error) = "IOError" => a \in re)
      BY <2>1, ToldFacts
    <2>6. x.torn => a \in re
      BY <2>2, <2>4, <2>5, StatusFacts
    <2>7. Used(c.boxes, a, x, 0, u)
      <3>1. c.boxes \in Seq(CBoxes) /\ a \in DOMAIN c.boxes /\ c.boxes[a].kind = "archive"
            /\ x \in Writers(CNames)
        BY <2>1, <2>2, <2>4
      <3>2. u = [c.boxes EXCEPT ![a].writer = x]
        OBVIOUS
      <3> HIDE DEF a, x, u
      <3>3. QED
        BY <3>1, <3>2, UsedBox
    <2>8. Dropped(u, a, t)
      <3>1. u \in Seq(CBoxes) /\ a \in DOMAIN u
        BY <2>2, <2>7 DEF Used
      <3> HIDE DEF u, a
      <3>2. QED
        BY <3>1, DroppedAs
    <2>9. c' = [c EXCEPT !.boxes = t, !.archive = 0, !.reported = re]
      BY <2>3 DEF Leaked
    <2> HIDE DEF t, u, re, x
    <2>10. Used(c.boxes, a, x, a, t)
      BY <2>1, <2>2, <2>7, <2>8, UsedThenFreed
    <2>11. t \in Seq(CBoxes)
      BY <2>10 DEF Used
    <2>12. /\ CTypeOK(c') /\ c'.boxes = t /\ c'.wconf = c.wconf /\ c'.rconf = c.rconf
           /\ c'.archive = 0 /\ c'.entry = c.entry /\ c'.fault = c.fault
           /\ c'.misplaced = c.misplaced /\ c'.reported = re
      BY <2>1, <2>5, <2>9, <2>11 DEF CTypeOK
    <2>13. Len(w.names) <= Len(x.names)
      <3>1. Len(w.names) \in Nat
        BY <2>2, WriterFields
      <3>2. QED
        BY <2>4, <3>1
    <2>14. x.sealed => x.open = {}
      BY <2>2, <2>4
    <2>15. Ledger(c')
      BY <1>3, <2>2, <2>4, <2>5, <2>6, <2>10, <2>12, <2>13, <2>14, UseLedger DEF a, w
    <2>16. Owned(c)
      BY DEF CInv
    <2>17. /\ DOMAIN t = DOMAIN c.boxes
           /\ \A b \in DOMAIN c.boxes :
                t[b].kind = c.boxes[b].kind /\ (t[b].live <=> c.boxes[b].live /\ b # a)
      BY <2>10 DEF Used
    <2>18. OwnsOne(c', "archive", c'.archive)
      BY <2>1, <2>2, <2>12, <2>16, <2>17 DEF Owned, OwnsOne
    <2> HIDE DEF a
    <2>19. OwnsOne(c', "writer_config", c'.wconf) /\ OwnsOne(c', "reader_config", c'.rconf)
      BY <2>2, <2>12, <2>16, <2>17 DEF Owned, OwnsOne
    <2>20. OwnsEntries(c')
      BY <2>2, <2>12, <2>16, <2>17 DEF Owned, OwnsEntries
    <2>21. QED
      BY <2>12, <2>15, <2>18, <2>19, <2>20 DEF CInv, Owned
  <1>4. QED
    BY <1>1, <1>2, <1>3 DEF ArchiveClose

\* An entry is started: its box is made, and the archive has a longer writer.
LEMMA StartedEntry ==
  ASSUME CInv, c.fault = "none", Fault(c.archive) = "none",
         NEW var \in EntryVars, c.entry[var] = 0, NEW name \in CNames,
         NEW answer \in CallStartEntry(OpenWriter, name), answer.error = "None",
         c' = [c EXCEPT
                !.boxes = Leaked(Box([kind |-> "entry", live |-> TRUE,
                                      id |-> NextId(OpenWriter), of |-> c.archive]), answer),
                !.entry[var] = Len(c.boxes) + 1]
  PROVE  CInv'
  <1> DEFINE a == c.archive
             w == OpenWriter
             s == c.boxes
             i == Len(w.names)
             r == [kind |-> "entry", live |-> TRUE, id |-> i, of |-> a]
             n == Len(s) + 1
             x == answer.writer
             u == Append(s, r)
             t == [u EXCEPT ![a].writer = x]
             en == [c.entry EXCEPT ![var] = n]
  <1>1. CTypeOK(c) /\ Ledger(c) /\ Owned(c) /\ a \in Nat /\ s \in Seq(CBoxes)
        /\ 0 \notin DOMAIN s /\ c.entry \in [EntryVars -> Nat]
    BY CFields DEF CInv
  <1>2. /\ a \in DOMAIN s /\ s[a].kind = "archive" /\ s[a].live
        /\ w \in Writers(CNames) /\ Sane(w) /\ ~w.sealed
        /\ w.torn => a \in c.reported
    BY OpenArchive
  <1>3. i \in Nat
    BY <1>2, WriterFields
  <1>4. r \in CBoxes /\ r.kind = "entry" /\ r.live = TRUE /\ r.id = i /\ r.of = a
    BY <1>1, <1>3 DEF CBoxes, EntryBoxes
  <1>5. c' = [c EXCEPT !.boxes = t, !.entry = en]
    BY DEF Box, Leaked, NextId
  <1>6. /\ x \in Writers(CNames) /\ Sane(x) /\ ~x.sealed /\ x.torn = w.torn
        /\ Len(x.names) = i + 1 /\ x.open = w.open \cup {i}
    <2> HIDE DEF w, x
    <2>1. w \in Writers(CNames) /\ Sane(w) /\ answer \in CallStartEntry(w, name)
      BY <1>2 DEF w
    <2>2. StartedAs(CNames, w, name, answer)
      BY <2>1, StartEntryAnswers
    <2>3. x \in Writers(CNames) /\ Sane(x) /\ ~x.sealed /\ x.torn = w.torn /\ x.open = w.open \cup {i}
      BY <1>2, <2>2 DEF StartedAs, x
    <2> DEFINE m == x.names
               o == w.names
    <2>4. m = Append(o, name)
      BY <2>2 DEF StartedAs, x
    <2>5. o \in Seq(CNames)
      BY <2>1, WriterFields
    <2> HIDE DEF m, o
    <2>6. Len(m) = Len(o) + 1
      BY <2>4, <2>5
    <2>7. QED
      BY <2>3, <2>6 DEF m, o
  <1> HIDE DEF r, s, w, i, x
  <1>7. /\ u \in Seq(CBoxes) /\ n \in Nat /\ n # 0 /\ n \notin DOMAIN s
        /\ DOMAIN u = DOMAIN s \cup {n}
        /\ u[n] = r /\ \A b \in DOMAIN s : u[b] = s[b]
    BY <1>1, <1>4, AddedBox
  <1> HIDE DEF u, n, a
  <1>8. Used(u, a, x, 0, t)
    <2>1. u \in Seq(CBoxes) /\ a \in DOMAIN u /\ u[a].kind = "archive" /\ x \in Writers(CNames)
      BY <1>2, <1>6, <1>7
    <2>2. t = [u EXCEPT ![a].writer = x]
      OBVIOUS
    <2> HIDE DEF t
    <2>3. QED
      BY <2>1, <2>2, UsedBox
  <1> HIDE DEF t
  <1>9. /\ t \in Seq(CBoxes) /\ DOMAIN t = DOMAIN s \cup {n}
        /\ t[a].kind = "archive" /\ t[a].writer = x
        /\ t[n].kind = "entry" /\ t[n].live /\ t[n].id = i /\ t[n].of = a
        /\ \A b \in DOMAIN s :
             /\ t[b].kind = s[b].kind /\ (t[b].live <=> s[b].live)
             /\ s[b].kind = "archive" /\ b # a => t[b].writer = s[b].writer
             /\ s[b].kind = "entry" => t[b].id = s[b].id /\ t[b].of = s[b].of
    <2>1. /\ t \in Seq(CBoxes) /\ DOMAIN t = DOMAIN u
          /\ t[a].kind = "archive" /\ t[a].writer = x
          /\ \A b \in DOMAIN u :
               /\ t[b].kind = u[b].kind
               /\ t[b].live <=> u[b].live /\ b # 0
               /\ u[b].kind = "archive" /\ b # a => t[b].writer = u[b].writer
               /\ u[b].kind = "entry" => t[b].id = u[b].id /\ t[b].of = u[b].of
      BY <1>8 DEF Used
    <2>2. n \in DOMAIN u
      BY <1>7
    <2>3. t[n].kind = "entry" /\ t[n].live /\ t[n].id = i /\ t[n].of = a
      BY <1>4, <1>7, <2>1, <2>2
    <2>4. ASSUME NEW b \in DOMAIN s
          PROVE  /\ t[b].kind = s[b].kind /\ (t[b].live <=> s[b].live)
                 /\ s[b].kind = "archive" /\ b # a => t[b].writer = s[b].writer
                 /\ s[b].kind = "entry" => t[b].id = s[b].id /\ t[b].of = s[b].of
      <3>1. b \in DOMAIN u /\ u[b] = s[b] /\ b # 0
        BY <1>1, <1>7
      <3>2. QED
        BY <2>1, <3>1
    <2>5. QED
      BY <1>7, <2>1, <2>3, <2>4
  <1>10. en \in [EntryVars -> Nat] /\ en[var] = n /\ \A v \in EntryVars : v # var => en[v] = c.entry[v]
    BY <1>1, <1>7
  <1> HIDE DEF en
  <1>11. /\ CTypeOK(c') /\ c'.boxes = t /\ c'.wconf = c.wconf /\ c'.rconf = c.rconf
         /\ c'.archive = c.archive /\ c'.entry = en /\ c'.fault = c.fault
         /\ c'.misplaced = c.misplaced /\ c'.reported = c.reported
    <2>1. t \in Seq(CBoxes) /\ en \in [EntryVars -> Nat] /\ CTypeOK(c)
      BY <1>1, <1>9, <1>10
    <2>2. QED
      BY <1>5, <2>1 DEF CTypeOK
  <1>12. Ledger(c')
    <2>1. StillThere(c, c')
      BY <1>9, <1>11 DEF StillThere, s
    <2>2. ArchiveOK(c', a)
      BY <1>2, <1>6, <1>9, <1>11 DEF ArchiveOK
    <2>3. /\ a \in DOMAIN c.boxes /\ c.boxes[a].kind = "archive" /\ c.boxes[a].writer = w
          /\ c'.boxes[a].writer = x
      BY <1>2, <1>9, <1>11 DEF s, w, a, OpenWriter
    <2>4. Len(c.boxes[a].writer.names) = i /\ Len(c'.boxes[a].writer.names) = i + 1
      BY <1>6, <2>3 DEF i
    <2>5. Len(c.boxes[a].writer.names) <= Len(c'.boxes[a].writer.names)
      BY <1>3, <2>4
    <2>6. \A b \in DOMAIN c.boxes :
            c.boxes[b].kind = "archive" /\ b # a => c'.boxes[b].writer = c.boxes[b].writer
      BY <1>9, <1>11 DEF s
    <2>7. \A e \in DOMAIN c.boxes :
            c.boxes[e].id \in c.boxes[a].writer.open => c.boxes[e].id \in c'.boxes[a].writer.open
      BY <1>6, <2>3
    <2>8. \A e \in DOMAIN c'.boxes \ DOMAIN c.boxes : e = n
      BY <1>9, <1>11 DEF s
    <2>9. /\ c'.boxes[n].kind = "entry" /\ c'.boxes[n].of = a
          /\ c'.boxes[n].id = Len(c.boxes[a].writer.names)
          /\ c'.boxes[n].id < Len(c'.boxes[a].writer.names)
          /\ c'.boxes[n].id \in c'.boxes[a].writer.open
      <3>1. i < i + 1
        BY <1>3
      <3>2. i \in c'.boxes[a].writer.open
        BY <1>6, <2>3
      <3>3. c'.boxes[n].id = i /\ c'.boxes[n].kind = "entry" /\ c'.boxes[n].of = a
        BY <1>9, <1>11
      <3>4. QED
        BY <2>4, <3>1, <3>2, <3>3
    <2>10. WriterStep(c, c', a)
      BY <1>11, <2>1, <2>2, <2>3, <2>5, <2>6, <2>7, <2>8, <2>9 DEF WriterStep
    <2>11. QED
      BY <1>1, <1>11, <2>10, WriterLedger
  <1>13. OwnsOne(c', "writer_config", c'.wconf) /\ OwnsOne(c', "reader_config", c'.rconf)
         /\ OwnsOne(c', "archive", c'.archive)
    <2>1. ASSUME NEW kind \in {"writer_config", "reader_config", "archive"}, NEW h,
                 OwnsOne(c, kind, h)
          PROVE  OwnsOne(c', kind, h)
      <3>1. h \in {0} \cup DOMAIN s /\ h # n
        BY <1>7, <2>1 DEF OwnsOne, s
      <3>2. ASSUME NEW b \in DOMAIN t PROVE t[b].live /\ t[b].kind = kind <=> b = h
        BY <1>9, <2>1, <3>1 DEF OwnsOne, s
      <3>3. QED
        BY <1>9, <1>11, <3>1, <3>2 DEF OwnsOne
    <2>2. QED
      BY <1>1, <1>11, <2>1 DEF Owned
  <1>14. OwnsEntries(c')
    <2>1. \A v \in EntryVars : c.entry[v] \in {0} \cup DOMAIN s
      BY <1>1 DEF Owned, OwnsEntries, s
    <2>2. \A v \in EntryVars : en[v] \in {0} \cup DOMAIN t
      BY <1>9, <1>10, <2>1
    <2>3. ASSUME NEW b \in DOMAIN t
          PROVE  t[b].live /\ t[b].kind = "entry" <=> \E v \in EntryVars : en[v] = b
      <3>1. CASE b = n
        BY <1>9, <1>10, <3>1
      <3>2. CASE b # n
        <4>1. b \in DOMAIN s /\ b # 0
          BY <1>1, <1>9, <3>2
        <4>2. c.boxes[b].live /\ c.boxes[b].kind = "entry" <=> \E v \in EntryVars : c.entry[v] = b
          BY <1>1, <4>1 DEF Owned, OwnsEntries, s
        <4>3. (\E v \in EntryVars : en[v] = b) <=> (\E v \in EntryVars : c.entry[v] = b)
          BY <1>10, <3>2, <4>1
        <4>4. QED
          BY <1>9, <4>1, <4>2, <4>3 DEF s
      <3>3. QED
        BY <3>1, <3>2
    <2>4. \A v \in EntryVars : v # var => en[v] # n
      BY <1>7, <1>10, <2>1
    <2>5. \A p, v \in EntryVars : en[p] = en[v] /\ en[p] # 0 => p = v
      BY <1>1, <1>10, <2>4 DEF Owned, OwnsEntries
    <2>6. c'.boxes = t /\ c'.entry = en
      BY <1>11
    <2>7. QED
      BY ONLY <2>2, <2>3, <2>5, <2>6 DEF OwnsEntries
  <1>15. QED
    BY <1>11, <1>12, <1>13, <1>14 DEF CInv, Owned
\* An entry is not started: the name is a duplicate, or the destination failed.
LEMMA EntryNotStarted ==
  ASSUME CInv, c.fault = "none", Fault(c.archive) = "none", c.archive # 0,
         NEW name \in CNames,
         NEW answer \in CallStartEntry(OpenWriter, name), answer.error # "None",
         c' = [c EXCEPT !.boxes = Leaked(@, answer),
                        !.reported = Told(c.archive, MLAStatus(answer.error))]
  PROVE  CInv'
  <1> DEFINE a == c.archive
             w == OpenWriter
             x == answer.writer
             t == [c.boxes EXCEPT ![a].writer = x]
             re == Told(a, MLAStatus(answer.error))
  <1>1. CTypeOK(c) /\ a \in Nat /\ a # 0 /\ c.reported \in SUBSET Nat /\ c.boxes \in Seq(CBoxes)
    BY CFields DEF CInv
  <1>2. /\ a \in DOMAIN c.boxes /\ c.boxes[a].kind = "archive"
        /\ w \in Writers(CNames) /\ Sane(w) /\ ~w.sealed
        /\ w.torn => a \in c.reported
    BY OpenArchive
  <1>3. c' = [c EXCEPT !.boxes = t, !.reported = re]
    BY DEF Leaked
  <1>4. Len(w.names) \in Nat /\ w.names \in Seq(CNames)
    BY <1>2, WriterFields
  <1>5. /\ x \in Writers(CNames) /\ Sane(x) /\ ~x.sealed /\ w.open \subseteq x.open
        /\ Len(w.names) <= Len(x.names)
        /\ answer.error \in {"IOError", "DuplicateEntryName"}
        /\ answer.error # "IOError" => x.torn = w.torn
    <2> HIDE DEF w, x
    <2>1. w \in Writers(CNames) /\ Sane(w) /\ answer \in CallStartEntry(w, name)
      BY <1>2 DEF w
    <2>2. StartedAs(CNames, w, name, answer)
      BY <2>1, StartEntryAnswers
    <2>3. /\ x \in Writers(CNames) /\ Sane(x) /\ ~x.sealed
          /\ answer.error \in {"IOError", "DuplicateEntryName"}
          /\ answer.error # "IOError" => x.torn = w.torn
          /\ answer.error = "DuplicateEntryName" => x = w
          /\ answer.error = "IOError" => x.open = w.open
      BY <1>2, <2>2 DEF StartedAs, x
    <2> DEFINE m == x.names
               o == w.names
    <2>4. answer.error = "IOError" => m = Append(o, name)
      BY <2>2 DEF StartedAs, x
    <2>5. o \in Seq(CNames)
      BY <1>4
    <2>6. answer.error = "DuplicateEntryName" => m = o
      BY <2>3
    <2> HIDE DEF m, o
    <2>7. answer.error = "IOError" => Len(o) <= Len(m)
      BY <2>4, <2>5
    <2>8. answer.error = "DuplicateEntryName" => Len(o) <= Len(m)
      BY <2>5, <2>6
    <2>9. QED
      BY <2>3, <2>7, <2>8 DEF m, o
  <1>6. re \in SUBSET Nat /\ c.reported \subseteq re /\ (MLAStatus(answer.error) = "IOError" => a \in re)
    BY <1>1, ToldFacts
  <1>7. x.torn => a \in re
    BY <1>2, <1>5, <1>6, StatusFacts
  <1>8. Used(c.boxes, a, x, 0, t)
    <2>1. c.boxes \in Seq(CBoxes) /\ a \in DOMAIN c.boxes /\ c.boxes[a].kind = "archive"
          /\ x \in Writers(CNames)
      BY <1>1, <1>2, <1>5
    <2>2. t = [c.boxes EXCEPT ![a].writer = x]
      OBVIOUS
    <2> HIDE DEF a, x, t
    <2>3. QED
      BY <2>1, <2>2, UsedBox
  <1> HIDE DEF t, re, x, w
  <1>9. t \in Seq(CBoxes)
    BY <1>8 DEF Used
  <1>10. /\ CTypeOK(c') /\ c'.boxes = t /\ c'.wconf = c.wconf /\ c'.rconf = c.rconf
         /\ c'.archive = c.archive /\ c'.entry = c.entry /\ c'.fault = c.fault
         /\ c'.misplaced = c.misplaced /\ c'.reported = re
    BY <1>1, <1>3, <1>6, <1>9 DEF CTypeOK
  <1>11. QED
    BY <1>5, <1>6, <1>7, <1>8, <1>10, UseStep DEF a, w

\* StartArchiveEntry keeps the invariant.
LEMMA StartArchiveEntryStep ==
  ASSUME CInv, c.fault = "none", NEW var \in EntryVars, NEW name,
         StartArchiveEntry(var, name)
  PROVE  CInv'
  <1>1. CASE \E status : Returns(status)
    BY <1>1, ReturnStep
  <1>2. CASE Faults(c.archive)
    BY <1>2, FaultStep, HandlesSound
  <1>3. CASE /\ c.entry[var] = 0 /\ c.archive # 0 /\ name \in CNames
             /\ Fault(c.archive) = "none"
             /\ \E answer \in CallStartEntry(OpenWriter, name) :
                   \/ answer.error # "None"
                      /\ c' = [c EXCEPT !.boxes = Leaked(@, answer),
                                        !.reported = Told(c.archive, MLAStatus(answer.error))]
                   \/ answer.error = "None"
                      /\ c' = [c EXCEPT
                           !.boxes = Leaked(Box([kind |-> "entry", live |-> TRUE,
                                                 id |-> NextId(OpenWriter),
                                                 of |-> c.archive]), answer),
                           !.entry[var] = Len(c.boxes) + 1]
    BY <1>3, StartedEntry, EntryNotStarted
  <1>4. QED
    BY <1>1, <1>2, <1>3 DEF StartArchiveEntry

\* Every step of the C program keeps the invariant.
LEMMA CStep ==
  ASSUME CInv, [CNext]_c PROVE CInv'
  <1>1. CASE UNCHANGED c
    BY <1>1 DEF CInv
  <1>2. CASE CNext
    <2>1. c.fault = "none"
      BY <1>2 DEF CNext
    <2>2. CASE \E lists \in KeyArguments : CreateWriterConfig(lists)
      BY <2>1, <2>2, CreateWriterConfigStep
    <2>3. CASE \E level \in {11, 12} : WithCompressionLevel(level)
      BY <2>1, <2>3, WithCompressionLevelStep
    <2>4. CASE WithoutCompression
      BY <2>1, <2>4, WithoutCompressionStep
    <2>5. CASE \E header \in {"None", "IOError"} : ArchiveNew(header)
      BY <2>1, <2>5, ArchiveNewStep
    <2>6. CASE \E var \in EntryVars, name \in CNames \cup {InvalidCName} :
                 StartArchiveEntry(var, name)
      BY <2>1, <2>6, StartArchiveEntryStep
    <2>7. CASE \E var \in EntryVars, source \in {"whole", "empty"} : FileAppend(var, source)
      BY <2>1, <2>7, FileAppendStep
    <2>8. CASE \E error \in {"None", "IOError"} : ArchiveFlush(error)
      BY <2>1, <2>8, ArchiveFlushStep
    <2>9. CASE \E var \in EntryVars : FileClose(var)
      BY <2>1, <2>9, FileCloseStep
    <2>10. CASE ArchiveClose
      BY <2>1, <2>10, ArchiveCloseStep
    <2>11. CASE \E lists \in KeyArguments : CreateReaderConfig(lists)
      BY <2>1, <2>11, CreateReaderConfigStep
    <2>12. CASE \E outcome \in ExtractOutcomes : Extract(outcome)
      BY <2>1, <2>12, ExtractCallStep
    <2>13. CASE \E reading \in {"None", "WrongMagic"} : Info(reading)
      BY <2>13, ReturnStep DEF Info
    <2>14. CASE NullArgument
      BY <2>14, ReturnStep DEF NullArgument
    <2>15. QED
      BY <1>2, <2>2, <2>3, <2>4, <2>5, <2>6, <2>7, <2>8, <2>9, <2>10, <2>11, <2>12, <2>13,
         <2>14 DEF CNext
  <1>3. QED
    BY <1>1, <1>2

\* A C program begins without boxes.
LEMMA CStart ==
  ASSUME CInit PROVE CInv
  <1>1. /\ c.boxes = <<>> /\ c.wconf = 0 /\ c.rconf = 0 /\ c.archive = 0
        /\ c.entry = [v \in EntryVars |-> 0]
        /\ c.fault = "none" /\ c.misplaced = {} /\ c.reported = {}
    BY DEF CInit
  <1>2. CTypeOK(c)
    <2>1. <<>> \in Seq(CBoxes) /\ [v \in EntryVars |-> 0] \in [EntryVars -> Nat]
          /\ {} \in SUBSET Nat
      OBVIOUS
    <2>2. QED
      <3>1. PICK layout \in {"same", "other"} :
              c = [boxes |-> <<>>, wconf |-> 0, rconf |-> 0, archive |-> 0,
                   entry |-> [v \in EntryVars |-> 0], layout |-> layout,
                   fault |-> "none", misplaced |-> {}, reported |-> {}]
        BY DEF CInit
      <3>2. QED
        BY <2>1, <3>1 DEF CTypeOK
  <1>3. DOMAIN c.boxes = {}
    BY <1>1
  <1>4. Ledger(c)
    BY <1>3 DEF Ledger, ArchivesOK, EntriesOK
  <1>5. Owned(c)
    BY <1>1, <1>3 DEF Owned, OwnsOne, OwnsEntries
  <1>6. QED
    BY <1>1, <1>2, <1>4, <1>5 DEF CInv

\* The invariant is enough for safe handles.
LEMMA CInvSafe ==
  ASSUME CInv PROVE CHandlesSafe
  <1>1. CTypeOK(c) /\ Ledger(c)
    BY DEF CInv
  <1>2. c.fault \in {"none", "idle", "null", "no_count"}
                    \cup (IF c.layout = "other" THEN {"layout"} ELSE {})
    BY <1>1, CFields DEF CInv
  <1>3. ASSUME c.fault = "none" PROVE HandlesOwnBoxes
    <2>1. Owned(c) /\ 0 \notin DOMAIN c.boxes
      BY <1>1, <1>3, CFields DEF CInv
    <2>2. ASSUME NEW kind, NEW h, OwnsOne(c, kind, h)
          PROVE  {h} \ {0} = {b \in DOMAIN c.boxes : c.boxes[b].live /\ c.boxes[b].kind = kind}
      BY <2>1, <2>2 DEF OwnsOne
    <2>3. {c.entry[v] : v \in EntryVars} \ {0}
            = {b \in DOMAIN c.boxes : c.boxes[b].live /\ c.boxes[b].kind = "entry"}
      BY <2>1 DEF Owned, OwnsEntries
    <2>4. /\ Held("writer_config") = {c.wconf} /\ Held("reader_config") = {c.rconf}
          /\ Held("archive") = {c.archive} /\ Held("entry") = {c.entry[v] : v \in EntryVars}
      BY DEF Held
    <2>5. OwnsOne(c, "writer_config", c.wconf) /\ OwnsOne(c, "reader_config", c.rconf)
          /\ OwnsOne(c, "archive", c.archive)
      BY <2>1 DEF Owned
    <2>6. ASSUME NEW kind \in Kinds
          PROVE  Held(kind) \ {0}
                   = {b \in DOMAIN c.boxes : c.boxes[b].live /\ c.boxes[b].kind = kind}
      <3>1. CASE kind = "writer_config"
        BY <2>2, <2>4, <2>5, <3>1
      <3>2. CASE kind = "reader_config"
        BY <2>2, <2>4, <2>5, <3>2
      <3>3. CASE kind = "archive"
        BY <2>2, <2>4, <2>5, <3>3
      <3>4. CASE kind = "entry"
        BY <2>3, <2>4, <3>4
      <3>5. QED
        BY <3>1, <3>2, <3>3, <3>4 DEF Kinds
    <2>7. QED
      BY <2>6 DEF HandlesOwnBoxes
  <1>4. ASSUME NEW a \in DOMAIN c.boxes, c.boxes[a].kind = "archive", c.boxes[a].writer.sealed
        PROVE  /\ ~c.boxes[a].live /\ c.boxes[a].writer.open = {}
               /\ a \notin c.reported => Complete(c.boxes[a].writer)
               /\ a \notin c.misplaced =>
                    \A e \in DOMAIN c.boxes :
                      c.boxes[e].kind = "entry" /\ c.boxes[e].of = a => ~c.boxes[e].live
    <2> DEFINE w == c.boxes[a].writer
    <2>1. ArchiveOK(c, a)
      BY <1>1, <1>4 DEF Ledger, ArchivesOK
    <2>2. ~c.boxes[a].live /\ w.open = {} /\ Sane(w) /\ (w.torn => a \in c.reported)
      BY <1>4, <2>1 DEF ArchiveOK
    <2>3. w \in Writers(CNames)
      <3>1. c.boxes[a] \in CBoxes
        BY <1>1, CFields
      <3>2. QED
        BY <1>4, <3>1, BoxFacts
    <2>4. w.sealed
      BY <1>4
    <2>5. ASSUME a \notin c.misplaced, NEW e \in DOMAIN c.boxes,
                 c.boxes[e].kind = "entry", c.boxes[e].of = a
          PROVE  ~c.boxes[e].live
      <3>1. EntryOpen(c, e)
        BY <1>1, <2>5 DEF Ledger, EntriesOK
      <3>2. QED
        BY <2>2, <2>5, <3>1 DEF EntryOpen
    <2> HIDE DEF w
    <2>6. a \notin c.reported => Complete(w)
      BY <2>2, <2>3, <2>4, SaneComplete
    <2>7. QED
      BY <2>2, <2>5, <2>6 DEF w
  <1>5. QED
    BY <1>2, <1>3, <1>4 DEF CHandlesSafe

\* Whatever calls a C program makes with the variables it holds, its handles
\* are exactly the live boxes, Rust never follows a freed pointer, takes the
\* boxed Result of a writer configuration for something else only in a build
\* that lays it out differently, and an archive whose close reported success
\* has given every byte to the write callback unless an earlier call on it
\* returned IOError: the calls of bindings/C, for any number of names,
\* variables, boxes and blocks, and both layouts.
THEOREM CHandlesAreSafe == CSpec => []CHandlesSafe
  <1>1. CInit => CInv
    BY CStart
  <1>2. CInv /\ [CNext]_c => CInv'
    BY CStep
  <1>3. CInv => CHandlesSafe
    BY CInvSafe
  <1>4. QED
    BY <1>1, <1>2, <1>3, PTL DEF CSpec

-----------------------------------------------------------------------------
Givens == UNION {[D -> Nat] : D \in SUBSET PyNames}

\* Nothing was given yet.
LEMMA GivenEmpty == <<>> \in Givens /\ DOMAIN <<>> = {}
  <1>1. <<>> \in [{} -> Nat] /\ {} \in SUBSET PyNames
    OBVIOUS
  <1>2. QED
    BY <1>1 DEF Givens

GrownBy(g, name, n, h) ==
  /\ h \in Givens /\ DOMAIN h = DOMAIN g \cup {name} /\ h[name] = n
  /\ \A m \in DOMAIN g : m # name => h[m] = g[m]

\* One more name was given.
LEMMA GivenMore ==
  ASSUME NEW g \in Givens, NEW name \in PyNames, NEW n \in Nat
  PROVE  GrownBy(g, name, n, GivenAlso(g, name, n))
  <1> DEFINE h == GivenAlso(g, name, n)
  <1>1. PICK D \in SUBSET PyNames : g \in [D -> Nat]
    BY DEF Givens
  <1>2. h = [x \in DOMAIN g \cup {name} |-> IF x = name THEN n ELSE g[x]]
    BY DEF GivenAlso
  <1>3. h \in [D \cup {name} -> Nat] /\ D \cup {name} \in SUBSET PyNames
    BY <1>1, <1>2
  <1>4. QED
    BY <1>1, <1>2, <1>3 DEF Givens, GrownBy

\* add_entry, as the calls it makes.
AddedBy(w, name, source, a) ==
  \/ a \in CallStartEntry(w, name) /\ a.error # "None"
  \/ \E b \in CallStartEntry(w, name) :
       /\ b.error = "None"
       /\ \/ a \in CallAppendEntryContent(b.writer, NextId(w), source) /\ a.error # "None"
          \/ \E d \in CallAppendEntryContent(b.writer, NextId(w), source) :
               d.error = "None" /\ a \in CallEndEntry(d.writer, NextId(w))

\* add_entry is start_entry, append_entry_content and end_entry in a row.
LEMMA AddEntryCalls ==
  ASSUME NEW w, NEW name, NEW source, NEW a \in CallAddEntry(w, name, source)
  PROVE  AddedBy(w, name, source, a)
  <1> DEFINE S == CallStartEntry(w, name)
             T == UNION {IF b.error = "None"
                         THEN CallAppendEntryContent(b.writer, NextId(w), source) ELSE {b} : b \in S}
  <1>1. CallAddEntry(w, name, source)
          = UNION {IF d.error = "None" THEN CallEndEntry(d.writer, NextId(w)) ELSE {d} : d \in T}
    BY DEF CallAddEntry, Then
  <1>2. PICK d \in T : a \in IF d.error = "None" THEN CallEndEntry(d.writer, NextId(w)) ELSE {d}
    BY <1>1
  <1>3. PICK b \in S : d \in IF b.error = "None"
                             THEN CallAppendEntryContent(b.writer, NextId(w), source) ELSE {b}
    BY <1>2
  <1>4. QED
    BY <1>2, <1>3 DEF AddedBy
-------------------------------------------------------------------------------
\* The content blocks of an entry.
ContentBlock(id) == [kind |-> "EntryContent", id |-> id]
ContentsOf(blocks, id) == {b \in DOMAIN blocks : blocks[b] = ContentBlock(id)}
Count(w, id) == Cardinality(ContentsOf(w.blocks, id))

\* An entry has a finite number of content blocks.
LEMMA ContentsFinite ==
  ASSUME NEW u \in Seq(WriterBlocks), NEW id
  PROVE  IsFiniteSet(ContentsOf(u, id)) /\ Cardinality(ContentsOf(u, id)) \in Nat
  <1>1. ContentsOf(u, id) \subseteq 1..Len(u) /\ Len(u) \in Nat
    BY DEF ContentsOf
  <1>2. IsFiniteSet(1..Len(u))
    BY <1>1, FS_Interval
  <1>3. IsFiniteSet(ContentsOf(u, id))
    BY <1>1, <1>2, FS_Subset
  <1>4. QED
    BY <1>3, FS_CardinalityType

Counted(u, b, v) ==
  /\ \A id : b # ContentBlock(id) => ContentsOf(v, id) = ContentsOf(u, id)
  /\ \A id : b = ContentBlock(id) =>
       Cardinality(ContentsOf(v, id)) = Cardinality(ContentsOf(u, id)) + 1

\* One more block counts for its own entry only.
LEMMA CountAfter ==
  ASSUME NEW u \in Seq(WriterBlocks), NEW b \in WriterBlocks, NEW v, v = Append(u, b)
  PROVE  Counted(u, b, v)
  <1>1. /\ DOMAIN v = 1..Len(u) + 1 /\ DOMAIN u = 1..Len(u) /\ Len(u) \in Nat
        /\ v[Len(u) + 1] = b /\ \A i \in 1..Len(u) : v[i] = u[i]
    OBVIOUS
  <1> DEFINE n == Len(u) + 1
  <1>2. DOMAIN v = DOMAIN u \cup {n} /\ n \notin DOMAIN u /\ v[n] = b
        /\ \A i \in DOMAIN u : v[i] = u[i]
    BY <1>1
  <1> HIDE DEF n
  <1>3. ASSUME NEW id, b # ContentBlock(id) PROVE ContentsOf(v, id) = ContentsOf(u, id)
    BY <1>2, <1>3 DEF ContentsOf
  <1>4. ASSUME NEW id, b = ContentBlock(id)
        PROVE  Cardinality(ContentsOf(v, id)) = Cardinality(ContentsOf(u, id)) + 1
    <2>1. ContentsOf(v, id) = ContentsOf(u, id) \cup {n} /\ n \notin ContentsOf(u, id)
      BY <1>2, <1>4 DEF ContentsOf
    <2>2. IsFiniteSet(ContentsOf(u, id))
      BY ContentsFinite
    <2>3. QED
      BY <2>1, <2>2, FS_AddElement
  <1>5. QED
    BY <1>3, <1>4 DEF Counted

\* Every call that returned gave an entry that is ended and has its chunks,
\* and an entry that no call returned for is still open.
Filled(w, g) ==
  /\ ~w.torn
  /\ \A name \in DOMAIN g :
       \E i \in DOMAIN w.names :
         w.names[i] = name /\ i - 1 \notin w.open /\ Count(w, i - 1) = g[name]
  /\ \A i \in DOMAIN w.names : i - 1 \in w.open \/ w.names[i] \in DOMAIN g

\* A started entry has no content yet, and the others have theirs.
LEMMA FilledStarted ==
  ASSUME NEW N, NEW w \in Writers(N), Sane(w), NEW g, Filled(w, g), NEW name \in N,
         NEW a, StartedAs(N, w, name, a), a.error = "None"
  PROVE  /\ Filled(a.writer, g) /\ Len(w.names) \in a.writer.open
         /\ a.writer.names[Len(w.names) + 1] = name
         /\ Count(a.writer, Len(w.names)) = 0
  <1> DEFINE x == a.writer
             n == Len(w.names)
             b == [kind |-> "EntryStart", id |-> n]
             o == w.names
             m == x.names
             u == w.blocks
             v == x.blocks
  <1>1. o \in Seq(N) /\ n \in Nat /\ u \in Seq(WriterBlocks) /\ w.open \in SUBSET Nat
    BY WriterFields
  <1>2. b \in WriterBlocks /\ b.kind = "EntryStart" /\ b.id = n
    BY <1>1 DEF WriterBlocks, BlockKinds
  <1>3. m = Append(o, name)
    BY DEF StartedAs
  <1>4. v = Append(u, b)
    BY DEF StartedAs
  <1>5. x.open = w.open \cup {n} /\ x.torn = w.torn
    BY DEF StartedAs
  <1>6. ~w.torn /\ BlocksFit(w)
    BY DEF Filled, Sane
  <1>7. \A i \in DOMAIN u : u[i].id < n
    BY <1>6 DEF BlocksFit
  <1> HIDE DEF x, b, m, o, u, v
  <1>8. DOMAIN m = DOMAIN o \cup {n + 1} /\ m[n + 1] = name /\ DOMAIN o = 1..n
        /\ \A i \in DOMAIN o : m[i] = o[i]
    BY <1>1, <1>3 DEF o
  <1> HIDE DEF n
  <1>9. \A id : ContentsOf(v, id) = ContentsOf(u, id)
    <2>1. \A id : b # ContentBlock(id)
      BY <1>2 DEF ContentBlock
    <2>2. Counted(u, b, v)
      BY <1>1, <1>2, <1>4, CountAfter
    <2>3. QED
      BY <2>1, <2>2 DEF Counted
  <1>10. \A id : Count(x, id) = Count(w, id)
    BY <1>9 DEF Count, u, v
  <1>11. Count(x, n) = 0
    <2>1. ASSUME NEW i \in DOMAIN u PROVE u[i] # ContentBlock(n)
      <3>1. u[i].id < n /\ u[i] \in WriterBlocks
        BY <1>1, <1>7
      <3>2. u[i].id \in Nat
        BY <3>1 DEF WriterBlocks
      <3>3. u[i].id # n
        BY <1>1, <3>1, <3>2
      <3>4. QED
        BY <3>3 DEF ContentBlock
    <2>2. ContentsOf(u, n) = {}
      BY <2>1 DEF ContentsOf
    <2>3. QED
      BY <1>10, <2>2, FS_EmptySet DEF Count, u
  <1>12. \A i \in DOMAIN o : i - 1 # n
    BY <1>1, <1>8
  <1>13. ASSUME NEW k \in DOMAIN g
         PROVE  \E i \in DOMAIN m : m[i] = k /\ i - 1 \notin x.open /\ Count(x, i - 1) = g[k]
    <2>1. PICK i \in DOMAIN o : o[i] = k /\ i - 1 \notin w.open /\ Count(w, i - 1) = g[k]
      BY DEF Filled, o
    <2>2. i \in DOMAIN m /\ m[i] = k /\ i - 1 \notin x.open
      BY <1>5, <1>8, <1>12, <2>1
    <2>3. Count(x, i - 1) = g[k]
      BY <1>10, <2>1
    <2>4. QED
      BY <2>2, <2>3
  <1>14. ASSUME NEW i \in DOMAIN m PROVE i - 1 \in x.open \/ m[i] \in DOMAIN g
    <2>1. CASE i = n + 1
      <3>1. i - 1 = n
        BY <1>1, <2>1
      <3>2. QED
        BY <1>5, <3>1
    <2>2. CASE i \in DOMAIN o
      <3>1. i - 1 \in w.open \/ o[i] \in DOMAIN g
        BY <2>2 DEF Filled, o
      <3>2. QED
        BY <1>5, <1>8, <2>2, <3>1
    <2>3. QED
      BY <1>8, <2>1, <2>2
  <1>15. Filled(x, g)
    BY <1>5, <1>6, <1>13, <1>14 DEF Filled, m
  <1>16. QED
    BY <1>5, <1>8, <1>11, <1>15 DEF x, m, n

\* An appended chunk counts once.
LEMMA FilledAppended ==
  ASSUME NEW N, NEW w \in Writers(N), Sane(w), NEW g, Filled(w, g), NEW id \in w.open,
         NEW x, x.names = w.names, x.open = w.open, ~x.torn,
         x.blocks = Append(w.blocks, [kind |-> "EntryContent", id |-> id])
  PROVE  Filled(x, g) /\ Count(x, id) = Count(w, id) + 1
  <1> DEFINE b == [kind |-> "EntryContent", id |-> id]
             u == w.blocks
             v == x.blocks
  <1>1. w.names \in Seq(N) /\ u \in Seq(WriterBlocks) /\ id \in Nat
    BY WriterFields
  <1>2. b \in WriterBlocks /\ b = ContentBlock(id) /\ b.id = id
    BY <1>1 DEF WriterBlocks, BlockKinds, ContentBlock
  <1>3. v = Append(u, b)
    OBVIOUS
  <1> HIDE DEF b, u, v
  <1>4. /\ \A k : b # ContentBlock(k) => ContentsOf(v, k) = ContentsOf(u, k)
        /\ Cardinality(ContentsOf(v, id)) = Cardinality(ContentsOf(u, id)) + 1
    <2>1. Counted(u, b, v)
      BY <1>1, <1>2, <1>3, CountAfter
    <2>2. QED
      BY <1>2, <2>1 DEF Counted
  <1>5. \A k : k # id => Count(x, k) = Count(w, k)
    <2>1. ASSUME NEW k, k # id PROVE b # ContentBlock(k)
      BY <1>2, <2>1 DEF ContentBlock
    <2>2. QED
      BY <1>4, <2>1 DEF Count, u, v
  <1>6. Count(x, id) = Count(w, id) + 1
    BY <1>4 DEF Count, u, v
  <1>7. Filled(x, g)
    BY <1>5 DEF Filled
  <1>8. QED
    BY <1>6, <1>7

\* An ended entry holds what was given for it.
LEMMA FilledEnded ==
  ASSUME NEW w \in Writers(PyNames), Sane(w), NEW g \in Givens, Filled(w, g),
         NEW id \in w.open, NEW name \in PyNames, w.names[id + 1] = name,
         NEW n \in Nat, Count(w, id) = n,
         NEW x, x.names = w.names, x.open = w.open \ {id}, ~x.torn,
         x.blocks = Append(w.blocks, [kind |-> "EndOfEntry", id |-> id])
  PROVE  GivenAlso(g, name, n) \in Givens /\ Filled(x, GivenAlso(g, name, n))
  <1> DEFINE b == [kind |-> "EndOfEntry", id |-> id]
             u == w.blocks
             v == x.blocks
             o == w.names
             h == GivenAlso(g, name, n)
  <1>1. o \in Seq(PyNames) /\ u \in Seq(WriterBlocks) /\ id \in Nat
    BY WriterFields
  <1>2. b \in WriterBlocks /\ b.kind = "EndOfEntry"
    BY <1>1 DEF WriterBlocks, BlockKinds
  <1>3. v = Append(u, b)
    OBVIOUS
  <1>4. NamesDiffer(o) /\ id \in 0 .. Len(o) - 1
    BY DEF Sane
  <1>5. o[id + 1] = name /\ x.names = o
    OBVIOUS
  <1> HIDE DEF b, u, v, o
  <1>6. \A k : Count(x, k) = Count(w, k)
    <2>1. \A k : b # ContentBlock(k)
      BY <1>2 DEF ContentBlock
    <2>2. Counted(u, b, v)
      BY <1>1, <1>2, <1>3, CountAfter
    <2>3. \A k : ContentsOf(v, k) = ContentsOf(u, k)
      BY <2>1, <2>2 DEF Counted
    <2>4. QED
      BY <2>3 DEF Count, u, v
  <1>7. id + 1 \in DOMAIN o /\ DOMAIN o \subseteq Nat
    BY <1>1, <1>4
  <1>8. \A i \in DOMAIN o : o[i] = name => i = id + 1
    BY <1>4, <1>5, <1>7 DEF NamesDiffer
  <1>9. name \notin DOMAIN g
    <2>1. SUFFICES ASSUME name \in DOMAIN g PROVE FALSE
      OBVIOUS
    <2>2. PICK i \in DOMAIN o : o[i] = name /\ i - 1 \notin w.open
      BY <2>1 DEF Filled, o
    <2>3. i = id + 1
      BY <1>8, <2>2
    <2>4. i - 1 = id
      BY <1>1, <2>3
    <2>5. QED
      BY <2>2, <2>4
  <1>10. /\ h \in Givens /\ DOMAIN h = DOMAIN g \cup {name} /\ h[name] = n
         /\ \A m \in DOMAIN g : h[m] = g[m]
    <2>1. GrownBy(g, name, n, h)
      BY GivenMore
    <2> HIDE DEF h
    <2>2. QED
      BY <1>9, <2>1 DEF GrownBy
  <1> HIDE DEF h
  <1>11. ASSUME NEW k \in DOMAIN h
         PROVE  \E i \in DOMAIN o : o[i] = k /\ i - 1 \notin x.open /\ Count(x, i - 1) = h[k]
    <2>1. CASE k = name
      <3>1. (id + 1) - 1 = id
        BY <1>1
      <3>2. Count(x, (id + 1) - 1) = n
        BY <1>6, <3>1
      <3>3. (id + 1) - 1 \notin x.open
        BY <3>1
      <3>4. QED
        BY <1>5, <1>7, <1>10, <2>1, <3>2, <3>3
    <2>2. CASE k # name
      <3>1. k \in DOMAIN g /\ h[k] = g[k]
        BY <1>10, <2>2
      <3>2. PICK i \in DOMAIN o : o[i] = k /\ i - 1 \notin w.open /\ Count(w, i - 1) = g[k]
        BY <3>1 DEF Filled, o
      <3>3. Count(x, i - 1) = h[k] /\ i - 1 \notin x.open
        BY <1>6, <3>1, <3>2
      <3>4. QED
        BY <3>2, <3>3
    <2>3. QED
      BY <2>1, <2>2
  <1>12. ASSUME NEW i \in DOMAIN o PROVE i - 1 \in x.open \/ o[i] \in DOMAIN h
    <2>1. CASE i - 1 = id
      <3>1. i = id + 1
        BY <1>1, <1>7, <2>1
      <3>2. QED
        BY <1>5, <1>10, <3>1
    <2>2. CASE i - 1 # id
      <3>1. i - 1 \in w.open \/ o[i] \in DOMAIN g
        BY DEF Filled, o
      <3>2. QED
        BY <1>10, <2>2, <3>1
    <2>3. QED
      BY <2>1, <2>2
  <1>13. Filled(x, h)
    BY <1>5, <1>11, <1>12 DEF Filled
  <1>14. QED
    BY <1>10, <1>13 DEF h
\* add_entry, its three calls together.
AddedAs(w, name, source, a, g) ==
  /\ a.writer \in Writers(PyNames) /\ Sane(a.writer) /\ a.writer.sealed = w.sealed
  /\ a.error \in {"None", "IOError", "DuplicateEntryName", "WrongWriterState"}
  /\ a.error = "None" => GivenAlso(g, name, ChunksOf(source)) \in Givens
  /\ (Filled(w, g) /\ source # "changed" /\ a.error # "IOError") =>
       Filled(a.writer, IF a.error = "None" THEN GivenAlso(g, name, ChunksOf(source)) ELSE g)

\* What add_entry does, for each of its answers.
LEMMA AddEntryAnswers ==
  ASSUME NEW w \in Writers(PyNames), Sane(w), NEW name \in PyNames, NEW source \in Sources,
         NEW g \in Givens, NEW a \in CallAddEntry(w, name, source)
  PROVE  AddedAs(w, name, source, a, g)
  <1> DEFINE n == Len(w.names)
             ch == ChunksOf(source)
             h == GivenAlso(g, name, ch)
  <1>1. n \in Nat /\ NextId(w) = n
    BY WriterFields DEF NextId
  <1>2. ch \in Nat /\ (source = "empty" => ch = 0) /\ (source # "empty" => ch = 1)
    BY DEF ChunksOf
  <1>3. h \in Givens
    <2>1. GrownBy(g, name, ch, h)
      BY <1>2, GivenMore
    <2> HIDE DEF h
    <2>2. QED
      BY <2>1 DEF GrownBy
  <1>4. AddedBy(w, name, source, a)
    BY AddEntryCalls
  <1> HIDE DEF n, ch, h
  <1>5. CASE a \in CallStartEntry(w, name) /\ a.error # "None"
    <2>1. StartedAs(PyNames, w, name, a)
      BY <1>5, StartEntryAnswers
    <2>2. /\ a.writer \in Writers(PyNames) /\ Sane(a.writer) /\ a.writer.sealed = w.sealed
          /\ a.error \in {"IOError", "DuplicateEntryName"}
          /\ a.error # "IOError" => a.writer = w
      BY <1>5, <2>1 DEF StartedAs
    <2>3. QED
      BY <1>5, <2>2 DEF AddedAs
  <1>6. ASSUME NEW b \in CallStartEntry(w, name), b.error = "None"
        PROVE  /\ b.writer \in Writers(PyNames) /\ Sane(b.writer)
               /\ b.writer.sealed = w.sealed /\ n \in b.writer.open
               /\ b.writer.names[n + 1] = name
               /\ Filled(w, g) => Filled(b.writer, g) /\ Count(b.writer, n) = 0 /\ ~b.writer.torn
    <2>1. StartedAs(PyNames, w, name, b)
      BY <1>6, StartEntryAnswers
    <2>2. /\ b.writer \in Writers(PyNames) /\ Sane(b.writer)
          /\ b.writer.sealed = w.sealed /\ b.writer.open = w.open \cup {n}
          /\ b.writer.torn = w.torn
      BY <1>6, <2>1 DEF StartedAs, n
    <2>3. b.writer.names[n + 1] = name
      <3> DEFINE m == b.writer.names
                 o == w.names
      <3>1. m = Append(o, name) /\ o \in Seq(PyNames)
        BY <1>6, <2>1, WriterFields DEF StartedAs
      <3> HIDE DEF m, o
      <3>2. m[Len(o) + 1] = name
        BY <3>1
      <3>3. QED
        BY <3>2 DEF m, o, n
    <2>4. Filled(w, g) => Filled(b.writer, g) /\ Count(b.writer, n) = 0
      BY <1>6, <2>1, FilledStarted DEF n
    <2>5. QED
      BY <2>2, <2>3, <2>4 DEF Filled
  <1>7. ASSUME NEW b \in CallStartEntry(w, name), b.error = "None",
               NEW d \in CallAppendEntryContent(b.writer, n, source)
        PROVE  /\ d.writer \in Writers(PyNames) /\ Sane(d.writer)
               /\ d.writer.sealed = w.sealed /\ n \in d.writer.open
               /\ d.writer.names[n + 1] = name
               /\ d.error \in {"None", "IOError"}
               /\ (Filled(w, g) /\ source # "changed" /\ d.error = "None") =>
                    Filled(d.writer, g) /\ Count(d.writer, n) = ch /\ ~d.writer.torn
    <2> DEFINE x == b.writer
               y == d.writer
    <2>1. /\ x \in Writers(PyNames) /\ Sane(x) /\ x.sealed = w.sealed /\ n \in x.open
          /\ x.names[n + 1] = name
          /\ Filled(w, g) => Filled(x, g) /\ Count(x, n) = 0 /\ ~x.torn
      BY <1>6, <1>7
    <2>2. AppendedAs(PyNames, x, n, source, d)
      <3> HIDE DEF x
      <3>1. d \in CallAppendEntryContent(x, n, source) /\ x \in Writers(PyNames) /\ Sane(x)
        BY <1>7, <2>1 DEF x
      <3>2. QED
        BY <1>1, <3>1, AppendAnswers
    <2>3. /\ y \in Writers(PyNames) /\ Sane(y) /\ y.sealed = x.sealed
          /\ y.names = x.names /\ y.open = x.open
          /\ d.error \in {"None", "IOError"}
          /\ (source # "changed" /\ d.error # "IOError") => y.torn = x.torn
      BY <2>1, <2>2 DEF AppendedAs
    <2>4. ASSUME Filled(w, g), source # "changed", d.error = "None"
          PROVE  Filled(y, g) /\ Count(y, n) = ch /\ ~y.torn
      <3>1. Filled(x, g) /\ Count(x, n) = 0 /\ ~x.torn /\ ~y.torn
        BY <2>1, <2>3, <2>4
      <3>2. CASE source = "empty"
        <4>1. y.blocks = x.blocks
          BY <2>2, <2>4, <3>2 DEF AppendedAs
        <4>2. \A id : Count(y, id) = Count(x, id)
          BY <4>1 DEF Count
        <4>3. Filled(y, g)
          BY <2>3, <3>1, <4>2 DEF Filled
        <4>4. QED
          BY <1>2, <3>1, <3>2, <4>2, <4>3
      <3>3. CASE source # "empty"
        <4>1. y.blocks = Append(x.blocks, [kind |-> "EntryContent", id |-> n])
          BY <2>2, <2>4, <3>3 DEF AppendedAs
        <4> HIDE DEF x, y
        <4>2. Filled(y, g) /\ Count(y, n) = Count(x, n) + 1
          BY <2>1, <2>3, <3>1, <4>1, FilledAppended
        <4>3. QED
          BY <1>2, <3>1, <3>3, <4>2
      <3>4. QED
        BY <3>2, <3>3
    <2>5. QED
      BY <2>1, <2>3, <2>4
  <1>8. ASSUME NEW b \in CallStartEntry(w, name), b.error = "None",
               a \in CallAppendEntryContent(b.writer, n, source), a.error # "None"
        PROVE  AddedAs(w, name, source, a, g)
    <2>1. /\ a.writer \in Writers(PyNames) /\ Sane(a.writer) /\ a.writer.sealed = w.sealed
          /\ a.error = "IOError"
      BY <1>7, <1>8
    <2>2. QED
      BY <2>1 DEF AddedAs
  <1>9. ASSUME NEW b \in CallStartEntry(w, name), b.error = "None",
               NEW d \in CallAppendEntryContent(b.writer, n, source), d.error = "None",
               a \in CallEndEntry(d.writer, n)
        PROVE  AddedAs(w, name, source, a, g)
    <2> DEFINE y == d.writer
               z == a.writer
    <2>1. /\ y \in Writers(PyNames) /\ Sane(y) /\ y.sealed = w.sealed /\ n \in y.open
          /\ y.names[n + 1] = name
          /\ (Filled(w, g) /\ source # "changed") => Filled(y, g) /\ Count(y, n) = ch /\ ~y.torn
      BY <1>7, <1>9
    <2>2. EndedAs(PyNames, y, n, a)
      <3> HIDE DEF y
      <3>1. a \in CallEndEntry(y, n) /\ y \in Writers(PyNames) /\ Sane(y)
        BY <1>9, <2>1 DEF y
      <3>2. QED
        BY <1>1, <3>1, EndEntryAnswers
    <2>3. /\ z \in Writers(PyNames) /\ Sane(z) /\ z.sealed = y.sealed
          /\ z.names = y.names /\ z.open = y.open \ {n}
          /\ a.error \in {"None", "IOError"}
          /\ a.error # "IOError" => z.torn = y.torn
      BY <2>1, <2>2 DEF EndedAs
    <2>4. ASSUME Filled(w, g), source # "changed", a.error = "None" PROVE Filled(z, h)
      <3>1. z.blocks = Append(y.blocks, [kind |-> "EndOfEntry", id |-> n])
        BY <2>2, <2>4 DEF EndedAs
      <3>2. Filled(y, g) /\ Count(y, n) = ch /\ ~y.torn /\ ~z.torn
        BY <2>1, <2>3, <2>4
      <3> HIDE DEF y, z
      <3>3. Filled(z, GivenAlso(g, name, ch))
        BY <1>2, <2>1, <2>3, <3>1, <3>2, FilledEnded
      <3>4. QED
        BY <3>3 DEF h
    <2>5. QED
      BY <1>3, <2>1, <2>3, <2>4 DEF AddedAs, h, ch
  <1>10. QED
    BY <1>1, <1>4, <1>5, <1>8, <1>9 DEF AddedBy
-------------------------------------------------------------------------------
PyConfigs ==
  {NoObject} \cup [private : KeyTuples \cup {NoObject}, public : KeyTuples \cup {NoObject},
                   compressed : BOOLEAN]
Additions == [name : PyNames, id : Nat, chunks : Nat]
ReadEntries == [name : PyNames, chunks : Nat]

PyTypeOK(p) ==
  p \in [config : PyConfigs, writer : {NoObject, "live", "taken"}, archive : Writers(PyNames),
         made : Nat, adding : {NoObject} \cup Additions, given : Givens, finalized : {0, 1},
         reported : BOOLEAN, changed : BOOLEAN, reader : BOOLEAN,
         read : {NoObject} \cup ReadEntries, state : {"running", "idle", "hung"}]

\* The archive has its end once finalize said so; then the writer is taken.
PyFinal(p) ==
  /\ p.archive.sealed <=> p.finalized = 1
  /\ p.finalized = 1 =>
       p.archive.open = {} /\ p.writer = "taken" /\ p.adding = NoObject
  /\ p.reader => p.finalized = 1

\* The entry that add_entry_from is filling.
AddingOK(p) ==
  p.adding # NoObject =>
    /\ p.adding.id \in p.archive.open
    /\ p.archive.names[p.adding.id + 1] = p.adding.name
    /\ Count(p.archive, p.adding.id) = p.adding.chunks

\* What was read back is what was given.
ReadOK(p) ==
  p.read # NoObject =>
    p.reader /\ p.read.name \in DOMAIN p.given /\ p.read.chunks = p.given[p.read.name]

\* Nothing failed and no file changed under the writer.
Clean(p) == ~p.reported /\ ~p.changed

PyInv ==
  /\ PyTypeOK(py) /\ Sane(py.archive) /\ PyFinal(py)
  /\ Clean(py) => Filled(py.archive, py.given) /\ AddingOK(py) /\ ReadOK(py)

\* The fields of the Python program have their types.
LEMMA PyFields ==
  ASSUME NEW p, PyTypeOK(p)
  PROVE  /\ p.config \in PyConfigs /\ p.writer \in {NoObject, "live", "taken"}
         /\ p.archive \in Writers(PyNames) /\ p.made \in Nat
         /\ p.adding \in {NoObject} \cup Additions /\ p.given \in Givens
         /\ p.finalized \in {0, 1} /\ p.reported \in BOOLEAN /\ p.changed \in BOOLEAN
         /\ p.reader \in BOOLEAN /\ p.read \in {NoObject} \cup ReadEntries
         /\ p.adding # NoObject =>
              p.adding.name \in PyNames /\ p.adding.id \in Nat /\ p.adding.chunks \in Nat
  BY DEF PyTypeOK, Additions

\* A step that leaves the writer and the reader alone.
LEMMA PyQuiet ==
  ASSUME PyInv, PyTypeOK(py'), py'.writer = py.writer, py'.archive = py.archive,
         py'.adding = py.adding, py'.given = py.given, py'.finalized = py.finalized,
         py'.reported = py.reported, py'.changed = py.changed, py'.reader = py.reader,
         py'.read = py.read
  PROVE  PyInv'
  <1>1. PyFinal(py')
    BY DEF PyInv, PyFinal
  <1>2. Clean(py') => Filled(py'.archive, py'.given) /\ AddingOK(py') /\ ReadOK(py')
    BY DEF PyInv, Clean, AddingOK, ReadOK
  <1>3. QED
    BY <1>1, <1>2 DEF PyInv

\* Raises keeps the invariant.
LEMMA RaisesStep ==
  ASSUME PyInv, Raises PROVE PyInv'
  BY DEF PyInv, Raises

\* A call of the writer before it is finalized.
LEMMA PyCallStep ==
  ASSUME PyInv, py.finalized = 0, PyTypeOK(py'), Sane(py'.archive), ~py'.archive.sealed,
         py'.finalized = 0, py'.reader = py.reader, py'.read = py.read,
         Clean(py') => Clean(py),
         Clean(py') => Filled(py'.archive, py'.given) /\ AddingOK(py')
  PROVE  PyInv'
  <1>1. ~py.reader
    BY DEF PyInv, PyFinal
  <1>2. PyFinal(py')
    BY <1>1 DEF PyFinal
  <1>3. Clean(py') => py.read = NoObject
    BY <1>1 DEF PyInv, ReadOK
  <1>4. Clean(py') => ReadOK(py')
    BY <1>3 DEF ReadOK
  <1>5. QED
    BY <1>2, <1>4 DEF PyInv

\* NewWriterConfig keeps the invariant.
LEMMA NewWriterConfigStep ==
  ASSUME PyInv, NEW private \in KeyTuples \cup {NoObject}, NEW public \in KeyTuples \cup {NoObject},
         NewWriterConfig(private, public)
  PROVE  PyInv'
  <1> DEFINE v == [private |-> private, public |-> public, compressed |-> TRUE]
  <1>1. CASE Raises
    BY <1>1, RaisesStep
  <1>2. CASE py' = [py EXCEPT !.config = v]
    <2>1. v \in PyConfigs
      BY DEF PyConfigs
    <2> HIDE DEF v
    <2>2. PyTypeOK(py)
      BY DEF PyInv
    <2>3. /\ PyTypeOK(py') /\ py'.writer = py.writer /\ py'.archive = py.archive
          /\ py'.adding = py.adding /\ py'.given = py.given /\ py'.finalized = py.finalized
          /\ py'.reported = py.reported /\ py'.changed = py.changed /\ py'.reader = py.reader
          /\ py'.read = py.read
      BY <1>2, <2>1, <2>2 DEF PyTypeOK
    <2>4. QED
      BY <2>3, PyQuiet
  <1>3. QED
    BY <1>1, <1>2 DEF NewWriterConfig

\* The configuration says whether to compress.
LEMMA CompressedStep ==
  ASSUME PyInv, py.config # NoObject, NEW flag \in BOOLEAN,
         py' = [py EXCEPT !.config.compressed = flag]
  PROVE  PyInv'
  <1> DEFINE v == [py.config EXCEPT !.compressed = flag]
  <1>1. PyTypeOK(py)
    BY DEF PyInv
  <1>2. py.config \in PyConfigs
    BY <1>1, PyFields
  <1>3. v \in PyConfigs
    BY <1>2 DEF PyConfigs
  <1>4. py' = [py EXCEPT !.config = v]
    OBVIOUS
  <1> HIDE DEF v
  <1>5. /\ PyTypeOK(py') /\ py'.writer = py.writer /\ py'.archive = py.archive
        /\ py'.adding = py.adding /\ py'.given = py.given /\ py'.finalized = py.finalized
        /\ py'.reported = py.reported /\ py'.changed = py.changed /\ py'.reader = py.reader
        /\ py'.read = py.read
    BY <1>1, <1>3, <1>4 DEF PyTypeOK
  <1>6. QED
    BY <1>5, PyQuiet

\* A new program, up to the configuration: nothing is written.
LEMMA NewProgram ==
  ASSUME NEW p, NEW t \in BOOLEAN, PyTypeOK(p),
         p.archive = [NewWriter EXCEPT !.torn = t], p.adding = NoObject, p.given = <<>>,
         p.finalized = 0, p.reported = t, p.reader = FALSE, p.read = NoObject
  PROVE  /\ Sane(p.archive) /\ PyFinal(p)
         /\ Clean(p) => Filled(p.archive, p.given) /\ AddingOK(p) /\ ReadOK(p)
  <1> DEFINE x == p.archive
  <1>1. /\ NewWriter \in Writers(PyNames) /\ Sane(NewWriter) /\ ~NewWriter.torn
        /\ ~NewWriter.sealed /\ NewWriter.names = <<>> /\ NewWriter.open = {}
    BY NewWriterSane
  <1>2. /\ x \in Writers(PyNames) /\ x.torn = t /\ x.names = <<>> /\ x.open = {}
        /\ x.sealed = NewWriter.sealed /\ x.blocks = NewWriter.blocks
    BY <1>1, With_torn
  <1> HIDE DEF x
  <1>3. Sane(x)
    <2>1. CASE t
      BY <1>1, <1>2, <2>1, TornSane
    <2>2. CASE ~t
      BY <1>1, <1>2, <2>2 DEF Sane, BlocksFit, EntryWhole, EntryBegun
    <2>3. QED
      BY <2>1, <2>2
  <1>4. PyFinal(p)
    BY <1>1, <1>2 DEF PyFinal, x
  <1>5. DOMAIN p.given = {}
    OBVIOUS
  <1>6. ASSUME Clean(p) PROVE Filled(x, p.given)
    <2>1. ~x.torn
      BY <1>2, <1>6 DEF Clean
    <2>2. DOMAIN x.names = {}
      BY <1>2
    <2>3. QED
      BY <1>5, <2>1, <2>2 DEF Filled
  <1>7. AddingOK(p) /\ ReadOK(p)
    BY DEF AddingOK, ReadOK
  <1>8. QED
    BY <1>3, <1>4, <1>6, <1>7 DEF x

\* What a Python program begins with.
LEMMA ProgramType ==
  /\ PyTypeOK(PyProgram) /\ PyProgram.archive = NewWriter /\ PyProgram.adding = NoObject
  /\ PyProgram.given = <<>> /\ PyProgram.finalized = 0 /\ PyProgram.reported = FALSE
  /\ PyProgram.changed = FALSE
  /\ PyProgram.reader = FALSE /\ PyProgram.read = NoObject
  <1>1. NewWriter \in Writers(PyNames)
    BY NewWriterSane
  <1>2. <<>> \in Givens
    BY GivenEmpty
  <1>3. NoObject \in PyConfigs
    BY DEF PyConfigs
  <1>4. PyTypeOK(PyProgram)
    BY <1>1, <1>2, <1>3 DEF PyTypeOK, PyProgram
  <1>5. QED
    BY <1>4 DEF PyProgram

\* The invariant holds at first.
LEMMA PyStart ==
  ASSUME PyInit PROVE PyInv
  <1>1. NewWriter = [NewWriter EXCEPT !.torn = FALSE]
    <2>1. NewWriter \in Writers(PyNames) /\ ~NewWriter.torn /\ NewWriter.torn \in BOOLEAN
      BY NewWriterSane, WriterFields
    <2>2. NewWriter.torn = FALSE
      BY <2>1
    <2>3. QED
      BY <2>1, <2>2 DEF Writers
  <1>2. py = PyProgram
    BY DEF PyInit
  <1>3. QED
    BY <1>1, <1>2, ProgramType, NewProgram DEF PyInv

\* NewMLAWriter keeps the invariant.
LEMMA NewMLAWriterStep ==
  ASSUME PyInv, NEW failing \in {"create", "header", "None"}, NewMLAWriter(failing)
  PROVE  PyInv'
  <1>1. CASE Raises
    BY <1>1, RaisesStep
  <1>2. CASE py' = [PyProgram EXCEPT
                     !.config = py.config, !.made = py.made + 1,
                     !.writer = IF failing = "header" THEN NoObject ELSE "live",
                     !.archive.torn = failing = "header",
                     !.reported = failing = "header"]
    <2> DEFINE t == failing = "header"
               cf == py.config
               ma == py.made + 1
               wr == IF failing = "header" THEN NoObject ELSE "live"
               x == [NewWriter EXCEPT !.torn = t]
               P == PyProgram
    <2>1. PyTypeOK(P) /\ P.archive = NewWriter /\ P.adding = NoObject /\ P.given = <<>>
          /\ P.finalized = 0 /\ P.reader = FALSE /\ P.read = NoObject
      BY ProgramType
    <2>2. cf \in PyConfigs /\ ma \in Nat /\ wr \in {NoObject, "live", "taken"} /\ t \in BOOLEAN
      BY PyFields DEF PyInv
    <2>3. x \in Writers(PyNames)
      BY <2>2, NewWriterSane, With_torn
    <2>4. py' = [P EXCEPT !.config = cf, !.made = ma, !.writer = wr, !.archive = x,
                          !.reported = t]
      BY <1>2, <2>1
    <2> HIDE DEF t, cf, ma, wr, x, P
    <2>5. /\ PyTypeOK(py') /\ py'.archive = x /\ py'.adding = NoObject /\ py'.given = <<>>
          /\ py'.finalized = 0 /\ py'.reported = t /\ py'.reader = FALSE /\ py'.read = NoObject
      BY <2>1, <2>2, <2>3, <2>4 DEF PyTypeOK
    <2>6. QED
      BY <2>2, <2>5, NewProgram DEF PyInv, x
  <1>3. QED
    BY <1>1, <1>2 DEF NewMLAWriter
-------------------------------------------------------------------------------
\* Before it is finalized the archive has no end.
LEMMA LiveWriter ==
  ASSUME PyInv, py.writer = "live" \/ py.adding # NoObject
  PROVE  /\ py.finalized = 0 /\ ~py.archive.sealed
         /\ py.archive \in Writers(PyNames) /\ Sane(py.archive) /\ py.given \in Givens
  <1>1. PyTypeOK(py) /\ PyFinal(py) /\ Sane(py.archive)
    BY DEF PyInv
  <1>2. py.finalized \in {0, 1} /\ py.archive \in Writers(PyNames) /\ py.given \in Givens
    BY <1>1, PyFields
  <1>3. py.finalized = 0
    BY <1>1, <1>2 DEF PyFinal
  <1>4. QED
    BY <1>1, <1>2, <1>3 DEF PyFinal

\* A whole entry is added, from bytes or from a path.
Added(answer, name, source, changed) ==
  py' = [py EXCEPT !.archive = answer.writer,
                   !.given = IF answer.error = "None"
                             THEN GivenAlso(py.given, name, ChunksOf(source)) ELSE py.given,
                   !.reported = py.reported \/ answer.error = "IOError",
                   !.changed = py.changed \/ changed]

\* An addition that ended, well or not, keeps the invariant.
LEMMA AddedStep ==
  ASSUME PyInv, py.adding = NoObject, py.writer = "live", NEW name \in PyNames,
         NEW source \in Sources, NEW answer \in CallAddEntry(py.archive, name, source),
         NEW changed \in BOOLEAN, source = "changed" => changed,
         Added(answer, name, source, changed)
  PROVE  PyInv'
  <1> DEFINE w == py.archive
             g == py.given
             x == answer.writer
             h == IF answer.error = "None" THEN GivenAlso(g, name, ChunksOf(source)) ELSE g
             re == py.reported \/ answer.error = "IOError"
             ch == py.changed \/ changed
  <1>1. /\ py.finalized = 0 /\ ~w.sealed /\ w \in Writers(PyNames) /\ Sane(w) /\ g \in Givens
        /\ PyTypeOK(py)
    BY LiveWriter DEF PyInv
  <1>2. AddedAs(w, name, source, answer, g)
    BY <1>1, AddEntryAnswers
  <1>3. /\ x \in Writers(PyNames) /\ Sane(x) /\ ~x.sealed /\ h \in Givens
        /\ (Filled(w, g) /\ source # "changed" /\ answer.error # "IOError") => Filled(x, h)
    BY <1>1, <1>2 DEF AddedAs
  <1>4. re \in BOOLEAN /\ ch \in BOOLEAN
    OBVIOUS
  <1>5. py' = [py EXCEPT !.archive = x, !.given = h, !.reported = re, !.changed = ch]
    BY DEF Added
  <1>6. ~re /\ ~ch => Clean(py) /\ source # "changed" /\ answer.error # "IOError"
    BY DEF Clean
  <1> HIDE DEF w, g, x, h, re, ch
  <1>7. /\ PyTypeOK(py') /\ py'.archive = x /\ py'.given = h /\ py'.reported = re
        /\ py'.changed = ch /\ py'.adding = py.adding /\ py'.finalized = py.finalized
        /\ py'.reader = py.reader /\ py'.read = py.read
    <2>1. PyTypeOK(py)
      BY <1>1
    <2>2. QED
      BY <1>3, <1>4, <1>5, <2>1 DEF PyTypeOK
  <1>8. ASSUME Clean(py') PROVE Clean(py) /\ Filled(py'.archive, py'.given) /\ AddingOK(py')
    <2>1. ~re /\ ~ch
      BY <1>7, <1>8 DEF Clean
    <2>2. Clean(py) /\ source # "changed" /\ answer.error # "IOError"
      BY <1>6, <2>1
    <2>3. Filled(w, g)
      BY <2>2 DEF PyInv, w, g
    <2>4. Filled(x, h)
      BY <1>3, <2>2, <2>3
    <2>5. AddingOK(py')
      BY <1>7 DEF AddingOK
    <2>6. QED
      BY <1>7, <2>2, <2>4, <2>5
  <1>9. QED
    BY <1>1, <1>3, <1>7, <1>8, PyCallStep

\* SetItem keeps the invariant.
LEMMA SetItemStep ==
  ASSUME PyInv, py.adding = NoObject, NEW name \in PyNames, NEW source \in {"empty", "whole"},
         SetItem(name, source)
  PROVE  PyInv'
  <1>1. CASE Raises
    BY <1>1, RaisesStep
  <1>2. ASSUME py.writer = "live", NEW answer \in CallAddEntry(py.archive, name, source),
               py' = Called(answer, name, ChunksOf(source))
        PROVE  PyInv'
    <2> DEFINE h == IF answer.error = "None"
                    THEN GivenAlso(py.given, name, ChunksOf(source)) ELSE py.given
               re == py.reported \/ answer.error = "IOError"
               ch == py.changed \/ FALSE
    <2>1. PyTypeOK(py)
      BY DEF PyInv
    <2>2. py' = [py EXCEPT !.archive = answer.writer, !.given = h, !.reported = re]
      BY <1>2 DEF Called
    <2>3. py.changed = ch
      BY <2>1, PyFields
    <2> HIDE DEF h, re, ch
    <2>4. py' = [py EXCEPT !.archive = answer.writer, !.given = h, !.reported = re, !.changed = ch]
      BY <2>1, <2>2, <2>3 DEF PyTypeOK
    <2>5. source \in Sources /\ FALSE \in BOOLEAN /\ (source = "changed" => FALSE)
      BY DEF Sources
    <2>6. Added(answer, name, source, FALSE)
      BY <2>4 DEF Added, h, re, ch
    <2>7. QED
      BY <1>2, <2>5, <2>6, AddedStep
  <1>3. QED
    BY <1>1, <1>2 DEF SetItem

\* AddEntryFromPath keeps the invariant.
LEMMA AddEntryFromPathStep ==
  ASSUME PyInv, py.adding = NoObject, NEW name \in PyNames, NEW opened, NEW source \in Sources,
         AddEntryFromPath(name, opened, source)
  PROVE  PyInv'
  <1>1. CASE Raises
    BY <1>1, RaisesStep
  <1>2. ASSUME py.writer = "live", NEW answer \in CallAddEntry(py.archive, name, source),
               py' = [Called(answer, name, ChunksOf(source)) EXCEPT
                        !.changed = @ \/ source = "changed"]
        PROVE  PyInv'
    <2>1. PyTypeOK(py)
      BY DEF PyInv
    <2> DEFINE h == IF answer.error = "None"
                    THEN GivenAlso(py.given, name, ChunksOf(source)) ELSE py.given
               re == py.reported \/ answer.error = "IOError"
               q == Called(answer, name, ChunksOf(source))
    <2>2. q = [py EXCEPT !.archive = answer.writer, !.given = h, !.reported = re]
      BY DEF Called
    <2> HIDE DEF h, re
    <2>3. q.changed = py.changed
      BY <2>1, <2>2 DEF PyTypeOK
    <2>4. py' = [py EXCEPT !.archive = answer.writer, !.given = h, !.reported = re,
                           !.changed = py.changed \/ source = "changed"]
      BY <1>2, <2>2, <2>3
    <2> DEFINE fl == source = "changed"
    <2>5. fl \in BOOLEAN /\ (source = "changed" => fl)
      OBVIOUS
    <2>6. Added(answer, name, source, fl)
      BY <2>4 DEF Added, h, re
    <2> HIDE DEF fl
    <2>7. py.writer = "live" /\ answer \in CallAddEntry(py.archive, name, source)
      BY <1>2
    <2>8. QED
      BY <2>5, <2>6, <2>7, AddedStep
  <1>3. QED
    BY <1>1, <1>2 DEF AddEntryFromPath
\* add_entry_from a file object: the entry is started.
LEMMA AddEntryFromObjectStep ==
  ASSUME PyInv, py.adding = NoObject, NEW name \in PyNames, AddEntryFromObject(name)
  PROVE  PyInv'
  <1>1. CASE Raises
    BY <1>1, RaisesStep
  <1>2. ASSUME py.writer = "live", NEW answer \in CallStartEntry(py.archive, name),
               py' = [py EXCEPT !.archive = answer.writer,
                           !.adding = IF answer.error = "None"
                                      THEN [name |-> name, id |-> NextId(py.archive),
                                            chunks |-> 0]
                                      ELSE @,
                           !.reported = @ \/ answer.error = "IOError"]
        PROVE  PyInv'
    <2> DEFINE w == py.archive
               g == py.given
               x == answer.writer
               n == Len(w.names)
               r == [name |-> name, id |-> n, chunks |-> 0]
               ad == IF answer.error = "None" THEN r ELSE NoObject
               re == py.reported \/ answer.error = "IOError"
    <2>1. /\ py.finalized = 0 /\ ~w.sealed /\ w \in Writers(PyNames) /\ Sane(w) /\ g \in Givens
          /\ PyTypeOK(py) /\ n \in Nat
      BY <1>2, LiveWriter, WriterFields DEF PyInv
    <2>2. r \in Additions /\ r.name = name /\ r.id = n /\ r.chunks = 0
      BY <2>1 DEF Additions
    <2>3. StartedAs(PyNames, w, name, answer)
      BY <1>2, <2>1, StartEntryAnswers
    <2>4. /\ x \in Writers(PyNames) /\ Sane(x) /\ ~x.sealed
          /\ answer.error \in {"None", "IOError", "DuplicateEntryName"}
          /\ answer.error = "DuplicateEntryName" => x = w
      BY <2>1, <2>3 DEF StartedAs
    <2>5. (Filled(w, g) /\ answer.error = "None") =>
            /\ Filled(x, g) /\ n \in x.open /\ x.names[n + 1] = name /\ Count(x, n) = 0
      BY <2>1, <2>3, FilledStarted
    <2>6. py' = [py EXCEPT !.archive = x, !.adding = ad, !.reported = re]
      BY <1>2 DEF NextId
    <2>7. re \in BOOLEAN /\ (~re => answer.error # "IOError" /\ ~py.reported)
      OBVIOUS
    <2> HIDE DEF w, g, x, n, r, re
    <2>8. ad \in {NoObject} \cup Additions
      BY <2>2
    <2> HIDE DEF ad
    <2>9. /\ PyTypeOK(py') /\ py'.archive = x /\ py'.given = g /\ py'.reported = re
          /\ py'.changed = py.changed /\ py'.adding = ad /\ py'.finalized = py.finalized
          /\ py'.reader = py.reader /\ py'.read = py.read
      <3>1. PyTypeOK(py)
        BY <2>1
      <3>2. QED
        BY <2>4, <2>6, <2>7, <2>8, <3>1 DEF PyTypeOK, g
    <2>10. ASSUME Clean(py') PROVE Clean(py) /\ Filled(x, g) /\ AddingOK(py')
      <3>1. Clean(py) /\ answer.error # "IOError"
        BY <2>7, <2>9, <2>10 DEF Clean
      <3>2. Filled(w, g)
        BY <3>1 DEF PyInv, w, g
      <3>3. CASE answer.error = "None"
        <4>1. ad = r
          BY <3>3 DEF ad
        <4>2. Filled(x, g) /\ n \in x.open /\ x.names[n + 1] = name /\ Count(x, n) = 0
          BY <2>5, <3>2, <3>3
        <4>3. AddingOK(py')
          BY <2>2, <2>9, <4>1, <4>2 DEF AddingOK
        <4>4. QED
          BY <3>1, <4>2, <4>3
      <3>4. CASE answer.error # "None"
        <4>1. ad = NoObject /\ x = w
          BY <2>4, <3>1, <3>4 DEF ad
        <4>2. AddingOK(py')
          BY <2>9, <4>1 DEF AddingOK
        <4>3. QED
          BY <3>1, <3>2, <4>1, <4>2
      <3>5. QED
        BY <3>3, <3>4
    <2>11. QED
      BY <2>1, <2>4, <2>9, <2>10, PyCallStep
  <1>3. QED
    BY <1>1, <1>2 DEF AddEntryFromObject

\* ObjectRaises keeps the invariant.
LEMMA ObjectRaisesStep ==
  ASSUME PyInv, ObjectRaises PROVE PyInv'
  <1>1. py.adding # NoObject /\ py' = [py EXCEPT !.adding = NoObject]
    BY DEF ObjectRaises
  <1>2. py.finalized = 0 /\ ~py.archive.sealed /\ Sane(py.archive) /\ PyTypeOK(py)
    BY <1>1, LiveWriter DEF PyInv
  <1>3. /\ PyTypeOK(py') /\ py'.archive = py.archive /\ py'.given = py.given
        /\ py'.reported = py.reported
        /\ py'.changed = py.changed /\ py'.adding = NoObject /\ py'.finalized = py.finalized
        /\ py'.reader = py.reader /\ py'.read = py.read
    BY <1>1, <1>2 DEF PyTypeOK
  <1>4. ASSUME Clean(py')
        PROVE  Clean(py) /\ Filled(py'.archive, py'.given) /\ AddingOK(py')
    BY <1>3, <1>4 DEF PyInv, Clean, AddingOK
  <1>5. QED
    BY <1>2, <1>3, <1>4, PyCallStep

\* ObjectGivesChunk keeps the invariant.
LEMMA ObjectGivesChunkStep ==
  ASSUME PyInv, ObjectGivesChunk PROVE PyInv'
  <1> DEFINE w == py.archive
             g == py.given
             r == py.adding
             id == r.id
  <1>1. r # NoObject
    BY DEF ObjectGivesChunk
  <1>2. /\ py.finalized = 0 /\ ~w.sealed /\ w \in Writers(PyNames) /\ Sane(w) /\ g \in Givens
        /\ PyTypeOK(py)
    BY <1>1, LiveWriter DEF PyInv
  <1>3. r \in Additions /\ r.name \in PyNames /\ id \in Nat /\ r.chunks \in Nat
    BY <1>1, <1>2, PyFields DEF Additions
  <1>4. PICK answer \in CallAppendEntryContent(w, id, "whole") :
          py' = [py EXCEPT !.archive = answer.writer,
                           !.adding = IF answer.error = "None"
                                      THEN [py.adding EXCEPT !.chunks = @ + 1] ELSE NoObject,
                           !.reported = @ \/ answer.error = "IOError"]
    BY DEF ObjectGivesChunk
  <1> DEFINE x == answer.writer
             s == [r EXCEPT !.chunks = r.chunks + 1]
             ad == IF answer.error = "None" THEN s ELSE NoObject
             re == py.reported \/ answer.error = "IOError"
  <1>5. s \in Additions /\ s.name = r.name /\ s.id = id /\ s.chunks = r.chunks + 1
    BY <1>3 DEF Additions
  <1>6. py' = [py EXCEPT !.archive = x, !.adding = ad, !.reported = re]
    BY <1>4
  <1>7. re \in BOOLEAN /\ (~re => answer.error # "IOError" /\ ~py.reported)
    OBVIOUS
  <1>8. AppendedAs(PyNames, w, id, "whole", answer)
    <2>1. "whole" \in Sources
      BY DEF Sources
    <2>2. w \in Writers(PyNames) /\ Sane(w) /\ id \in Nat
          /\ answer \in CallAppendEntryContent(w, id, "whole")
      BY <1>2, <1>3
    <2> HIDE DEF w, id
    <2>3. QED
      BY <2>1, <2>2, AppendAnswers
  <1>9. /\ x \in Writers(PyNames) /\ Sane(x) /\ ~x.sealed
        /\ x.names = w.names /\ x.open = w.open
        /\ answer.error \in {"None", "IOError", "WrongWriterState"}
        /\ answer.error # "IOError" => x.torn = w.torn
        /\ answer.error = "WrongWriterState" => id \notin w.open
    BY <1>2, <1>8 DEF AppendedAs
  <1>10. answer.error = "None" =>
           x.blocks = Append(w.blocks, [kind |-> "EntryContent", id |-> id])
    BY <1>8 DEF AppendedAs
  <1> HIDE DEF w, g, r, id, x, s, re
  <1>11. ad \in {NoObject} \cup Additions
    BY <1>5
  <1> HIDE DEF ad
  <1>12. /\ PyTypeOK(py') /\ py'.archive = x /\ py'.given = g /\ py'.reported = re
         /\ py'.changed = py.changed /\ py'.adding = ad /\ py'.finalized = py.finalized
         /\ py'.reader = py.reader /\ py'.read = py.read
    <2>1. PyTypeOK(py)
      BY <1>2
    <2>2. QED
      BY <1>6, <1>7, <1>9, <1>11, <2>1 DEF PyTypeOK, g
  <1>13. ASSUME Clean(py') PROVE Clean(py) /\ Filled(x, g) /\ AddingOK(py')
    <2>1. Clean(py) /\ answer.error # "IOError"
      BY <1>7, <1>12, <1>13 DEF Clean
    <2>2. Filled(w, g) /\ AddingOK(py)
      BY <2>1 DEF PyInv, w, g
    <2>3. id \in w.open /\ w.names[id + 1] = r.name /\ Count(w, id) = r.chunks
      BY <1>1, <2>2 DEF AddingOK, w, r, id
    <2>4. answer.error = "None"
      BY <1>9, <2>1, <2>3
    <2>5. ~x.torn
      BY <1>9, <2>1, <2>2 DEF Filled
    <2>6. Filled(x, g) /\ Count(x, id) = Count(w, id) + 1
      BY <1>2, <1>9, <1>10, <2>2, <2>3, <2>4, <2>5, FilledAppended
    <2>7. ad = s
      BY <2>4 DEF ad
    <2>8. AddingOK(py')
      BY <1>5, <1>9, <1>12, <2>3, <2>6, <2>7 DEF AddingOK
    <2>9. QED
      BY <2>1, <2>6, <2>8
  <1>14. QED
    BY <1>2, <1>9, <1>12, <1>13, PyCallStep

\* ObjectEnds keeps the invariant.
LEMMA ObjectEndsStep ==
  ASSUME PyInv, ObjectEnds PROVE PyInv'
  <1> DEFINE w == py.archive
             g == py.given
             r == py.adding
             id == r.id
             name == r.name
  <1>1. r # NoObject
    BY DEF ObjectEnds
  <1>2. /\ py.finalized = 0 /\ ~w.sealed /\ w \in Writers(PyNames) /\ Sane(w) /\ g \in Givens
        /\ PyTypeOK(py)
    BY <1>1, LiveWriter DEF PyInv
  <1>3. name \in PyNames /\ id \in Nat /\ r.chunks \in Nat
    BY <1>1, <1>2, PyFields
  <1>4. PICK answer \in CallEndEntry(w, id) :
          py' = [Called(answer, name, r.chunks) EXCEPT !.adding = NoObject]
    BY DEF ObjectEnds
  <1> DEFINE x == answer.writer
             f == GivenAlso(g, name, r.chunks)
             h == IF answer.error = "None" THEN f ELSE g
             re == py.reported \/ answer.error = "IOError"
  <1>5. f \in Givens
    <2>1. GrownBy(g, name, r.chunks, f)
      BY <1>2, <1>3, GivenMore
    <2> HIDE DEF f
    <2>2. QED
      BY <2>1 DEF GrownBy
  <1>6. py' = [py EXCEPT !.archive = x, !.given = h, !.reported = re, !.adding = NoObject]
    BY <1>4 DEF Called
  <1>7. re \in BOOLEAN /\ (~re => answer.error # "IOError" /\ ~py.reported)
    OBVIOUS
  <1>8. EndedAs(PyNames, w, id, answer)
    <2>1. w \in Writers(PyNames) /\ Sane(w) /\ id \in Nat /\ answer \in CallEndEntry(w, id)
      BY <1>2, <1>3
    <2> HIDE DEF w, id
    <2>2. QED
      BY <2>1, EndEntryAnswers
  <1>9. /\ x \in Writers(PyNames) /\ Sane(x) /\ ~x.sealed
        /\ x.names = w.names /\ x.open = w.open \ {id}
        /\ answer.error \in {"None", "IOError", "WrongWriterState"}
        /\ answer.error # "IOError" => x.torn = w.torn
        /\ answer.error = "WrongWriterState" => id \notin w.open
    BY <1>2, <1>8 DEF EndedAs
  <1>10. answer.error = "None" =>
           x.blocks = Append(w.blocks, [kind |-> "EndOfEntry", id |-> id])
    BY <1>8 DEF EndedAs
  <1> HIDE DEF w, g, r, id, name, x, f, re
  <1>11. h \in Givens
    BY <1>2, <1>5
  <1> HIDE DEF h
  <1>12. /\ PyTypeOK(py') /\ py'.archive = x /\ py'.given = h /\ py'.reported = re
         /\ py'.changed = py.changed /\ py'.adding = NoObject /\ py'.finalized = py.finalized
         /\ py'.reader = py.reader /\ py'.read = py.read
    <2>1. PyTypeOK(py)
      BY <1>2
    <2>2. QED
      BY <1>6, <1>7, <1>9, <1>11, <2>1 DEF PyTypeOK
  <1>13. ASSUME Clean(py') PROVE Clean(py) /\ Filled(x, h) /\ AddingOK(py')
    <2>1. Clean(py) /\ answer.error # "IOError"
      BY <1>7, <1>12, <1>13 DEF Clean
    <2>2. Filled(w, g) /\ AddingOK(py)
      BY <2>1 DEF PyInv, w, g
    <2>3. id \in w.open /\ w.names[id + 1] = name /\ Count(w, id) = r.chunks
      BY <1>1, <2>2 DEF AddingOK, w, r, id, name
    <2>4. answer.error = "None"
      BY <1>9, <2>1, <2>3
    <2>5. ~x.torn
      BY <1>9, <2>1, <2>2 DEF Filled
    <2> DEFINE n == r.chunks
    <2>6. n \in Nat /\ Count(w, id) = n /\ f = GivenAlso(g, name, n)
      BY <1>3, <2>3 DEF f
    <2> HIDE DEF n
    <2>7. Filled(x, GivenAlso(g, name, n))
      BY <1>2, <1>3, <1>9, <1>10, <2>2, <2>3, <2>4, <2>5, <2>6, FilledEnded
    <2>8. h = f
      BY <2>4 DEF h
    <2>9. AddingOK(py')
      BY <1>12 DEF AddingOK
    <2>10. QED
      BY <2>1, <2>6, <2>7, <2>8, <2>9
  <1>14. QED
    BY <1>2, <1>9, <1>12, <1>13, PyCallStep
\* Finalize keeps the invariant.
LEMMA FinalizeStep ==
  ASSUME PyInv, py.adding = NoObject, FinalizeIfNotAlready PROVE PyInv'
  <1>1. CASE Raises
    BY <1>1, RaisesStep
  <1>2. ASSUME py.writer = "live", NEW answer \in CallFinalize(py.archive),
               py' = [py EXCEPT !.archive = answer.writer, !.writer = AfterTake(@),
                           !.finalized = IF answer.error = "None" THEN @ + 1 ELSE @,
                           !.reported = @ \/ answer.error = "IOError"]
        PROVE  PyInv'
    <2> DEFINE w == py.archive
               g == py.given
               x == answer.writer
               fi == IF answer.error = "None" THEN 1 ELSE 0
               re == py.reported \/ answer.error = "IOError"
    <2>1. /\ py.finalized = 0 /\ ~w.sealed /\ w \in Writers(PyNames) /\ Sane(w) /\ g \in Givens
          /\ PyTypeOK(py)
      BY <1>2, LiveWriter DEF PyInv
    <2>2. FinalizedAs(PyNames, w, answer)
      BY <1>2, <2>1, FinalizeAnswers
    <2>3. /\ x \in Writers(PyNames) /\ Sane(x)
          /\ x.names = w.names /\ x.open = w.open /\ x.blocks = w.blocks
          /\ answer.error # "IOError" => x.torn = w.torn
          /\ answer.error = "None" => x.sealed /\ w.open = {}
          /\ answer.error # "None" => ~x.sealed
      BY <2>1, <2>2 DEF FinalizedAs
    <2>4. py' = [py EXCEPT !.archive = x, !.writer = "taken", !.finalized = fi, !.reported = re]
      BY <1>2, <2>1 DEF AfterTake
    <2>5. re \in BOOLEAN /\ (~re => answer.error # "IOError" /\ ~py.reported)
          /\ fi \in {0, 1} /\ (fi = 1 <=> answer.error = "None")
      OBVIOUS
    <2>6. ~py.reader
      BY <2>1 DEF PyInv, PyFinal
    <2> HIDE DEF w, g, x, fi, re
    <2>7. /\ PyTypeOK(py') /\ py'.archive = x /\ py'.writer = "taken" /\ py'.given = g
          /\ py'.reported = re /\ py'.changed = py.changed /\ py'.adding = py.adding
          /\ py'.finalized = fi /\ py'.reader = py.reader /\ py'.read = py.read
      <3>1. PyTypeOK(py)
        BY <2>1
      <3>2. QED
        BY <2>3, <2>4, <2>5, <3>1 DEF PyTypeOK, g
    <2>8. PyFinal(py')
      BY <2>3, <2>5, <2>6, <2>7 DEF PyFinal
    <2>9. ASSUME Clean(py') PROVE Filled(x, g) /\ AddingOK(py') /\ ReadOK(py')
      <3>1. Clean(py) /\ answer.error # "IOError"
        BY <2>5, <2>7, <2>9 DEF Clean
      <3>2. Filled(w, g) /\ ReadOK(py)
        BY <3>1 DEF PyInv, w, g
      <3>3. \A id : Count(x, id) = Count(w, id)
        BY <2>3 DEF Count
      <3>4. Filled(x, g)
        BY <2>3, <3>1, <3>2, <3>3 DEF Filled
      <3>5. AddingOK(py')
        BY <2>7 DEF AddingOK
      <3>6. ReadOK(py')
        BY <2>6, <2>7, <3>2 DEF ReadOK
      <3>7. QED
        BY <3>4, <3>5, <3>6
    <2>10. QED
      BY <2>3, <2>7, <2>8, <2>9 DEF PyInv
  <1>3. QED
    BY <1>1, <1>2 DEF FinalizeIfNotAlready

\* The entry of a name is the one its place in the index gives it.
LEMMA ContentFacts ==
  ASSUME PyTypeOK(py), Sane(py.archive), NEW name
  PROVE  /\ ContentOf(name) \in Nat
         /\ \A i \in DOMAIN py.archive.names :
              py.archive.names[i] = name => ContentOf(name) = Count(py.archive, i - 1)
  <1> DEFINE w == py.archive
             o == w.names
             u == w.blocks
             id == CHOOSE i \in 0 .. NextId(w) - 1 : o[i + 1] = name
  <1>1. w \in Writers(PyNames)
    BY PyFields
  <1>2. o \in Seq(PyNames) /\ u \in Seq(WriterBlocks) /\ Len(o) \in Nat /\ NextId(w) = Len(o)
    BY <1>1, WriterFields DEF NextId
  <1>3. NamesDiffer(o)
    BY DEF Sane
  <1>4. ContentOf(name) = Cardinality(ContentsOf(u, id))
    BY DEF ContentOf, ContentsOf, ContentBlock
  <1> HIDE DEF u
  <1>5. ContentOf(name) \in Nat
    BY <1>2, <1>4, ContentsFinite
  <1>6. ASSUME NEW i \in DOMAIN o, o[i] = name PROVE id = i - 1
    <2> HIDE DEF o
    <2>1. DOMAIN o = 1 .. Len(o)
      BY <1>2
    <2>2. i - 1 \in 0 .. Len(o) - 1 /\ (i - 1) + 1 = i
      BY <1>2, <1>6, <2>1
    <2>3. \E k \in 0 .. NextId(w) - 1 : o[k + 1] = name
      BY <1>2, <1>6, <2>2
    <2>4. id \in 0 .. NextId(w) - 1 /\ o[id + 1] = name
      BY <2>3
    <2> HIDE DEF id
    <2>5. id + 1 \in DOMAIN o /\ id \in Nat
      BY <1>2, <2>1, <2>4
    <2>6. id + 1 = i
      BY <1>3, <1>6, <2>4, <2>5 DEF NamesDiffer
    <2>7. QED
      BY <2>5, <2>6
  <1> HIDE DEF id
  <1>7. QED
    BY <1>4, <1>5, <1>6 DEF Count, u

\* A reading of a torn stream may end early; any other is whole.
LEMMA ReadingFacts ==
  ASSUME NEW name, ContentOf(name) \in Nat, NEW r \in Readings(name)
  PROVE  r.chunks \in Nat /\ (~py.archive.torn => r.chunks = ContentOf(name))
  BY DEF Readings

\* Reading an entry back keeps the invariant.
LEMMA ReadBackStep ==
  ASSUME PyInv, py.reader, NEW name \in PyNames, name \in Listed, NEW r \in Readings(name),
         py' = [py EXCEPT !.read = [name |-> name, chunks |-> r.chunks]]
  PROVE  PyInv'
  <1> DEFINE v == [name |-> name, chunks |-> r.chunks]
             w == py.archive
             o == w.names
             g == py.given
  <1>1. PyTypeOK(py) /\ Sane(w) /\ PyFinal(py)
    BY DEF PyInv
  <1>2. ContentOf(name) \in Nat
    BY <1>1, ContentFacts
  <1>3. r.chunks \in Nat /\ (~w.torn => r.chunks = ContentOf(name))
    BY <1>2, ReadingFacts
  <1>4. v \in ReadEntries /\ v.name = name /\ v.chunks = r.chunks
    BY <1>3 DEF ReadEntries
  <1>5. py' = [py EXCEPT !.read = v]
    OBVIOUS
  <1>6. py.finalized = 1 /\ w.open = {}
    BY <1>1 DEF PyFinal
  <1> HIDE DEF v, w, g
  <1>7. /\ PyTypeOK(py') /\ py'.archive = w /\ py'.writer = py.writer /\ py'.given = g
        /\ py'.reported = py.reported /\ py'.changed = py.changed /\ py'.adding = py.adding
        /\ py'.finalized = py.finalized /\ py'.reader = py.reader /\ py'.read = v
    BY <1>1, <1>4, <1>5 DEF PyTypeOK, w, g
  <1>8. PyFinal(py')
    BY <1>1, <1>7 DEF PyFinal, w
  <1>9. ASSUME Clean(py') PROVE Filled(w, g) /\ AddingOK(py') /\ ReadOK(py')
    <2>1. Clean(py)
      BY <1>7, <1>9 DEF Clean
    <2>2. Filled(w, g) /\ AddingOK(py)
      BY <2>1 DEF PyInv, w, g
    <2>3. AddingOK(py')
      BY <1>7, <2>2 DEF AddingOK, w
    <2>4. PICK i \in DOMAIN o : o[i] = name
      BY DEF Listed, Range, w
    <2>5. name \in DOMAIN g
      BY <1>6, <2>2, <2>4 DEF Filled
    <2>6. PICK j \in DOMAIN o : o[j] = name /\ Count(w, j - 1) = g[name]
      BY <2>2, <2>5 DEF Filled
    <2>7. ContentOf(name) = Count(w, j - 1)
      BY <1>1, <2>6, ContentFacts DEF w
    <2>8. r.chunks = g[name]
      BY <1>3, <2>2, <2>6, <2>7 DEF Filled
    <2>9. ReadOK(py')
      BY <1>4, <1>7, <2>5, <2>8 DEF ReadOK
    <2>10. QED
      BY <2>2, <2>3, <2>9
  <1>10. QED
    BY <1>1, <1>7, <1>8, <1>9 DEF PyInv

\* Both ways to read an entry keep the invariant.
LEMMA GetItemStep ==
  ASSUME PyInv, NEW name \in PyNames, GetItem(name) \/ WriteEntryToObject(name) PROVE PyInv'
  BY RaisesStep, ReadBackStep DEF GetItem, WriteEntryToObject

\* NewMLAReader keeps the invariant.
LEMMA NewMLAReaderStep ==
  ASSUME PyInv, NEW config, NewMLAReader(config) PROVE PyInv'
  <1>1. CASE Raises
    BY <1>1, RaisesStep
  <1>2. CASE Opens(config) /\ py' = [py EXCEPT !.reader = TRUE]
    <2>1. PyTypeOK(py) /\ Sane(py.archive) /\ PyFinal(py)
      BY DEF PyInv
    <2>2. py.finalized = 1
      BY <1>2, <2>1 DEF Opens, PyFinal
    <2>3. /\ PyTypeOK(py') /\ py'.archive = py.archive /\ py'.writer = py.writer
          /\ py'.given = py.given
          /\ py'.reported = py.reported /\ py'.changed = py.changed /\ py'.adding = py.adding
          /\ py'.finalized = py.finalized /\ py'.reader = TRUE /\ py'.read = py.read
      BY <1>2, <2>1 DEF PyTypeOK
    <2>4. PyFinal(py')
      BY <2>1, <2>2, <2>3 DEF PyFinal
    <2>5. Clean(py') => Filled(py'.archive, py'.given) /\ AddingOK(py') /\ ReadOK(py')
      BY <2>3 DEF PyInv, Clean, AddingOK, ReadOK
    <2>6. QED
      BY <2>1, <2>3, <2>4, <2>5 DEF PyInv
  <1>3. QED
    BY <1>1, <1>2 DEF NewMLAReader

\* CompareNames keeps the invariant.
LEMMA CompareNamesStep ==
  ASSUME PyInv, NEW same, CompareNames(same) PROVE PyInv'
  <1>1. CASE Raises
    BY <1>1, RaisesStep
  <1>2. CASE py' = [py EXCEPT !.state = "hung"]
    <2>1. PyTypeOK(py)
      BY DEF PyInv
    <2>2. /\ PyTypeOK(py') /\ py'.writer = py.writer /\ py'.archive = py.archive
          /\ py'.adding = py.adding /\ py'.given = py.given /\ py'.finalized = py.finalized
          /\ py'.reported = py.reported /\ py'.changed = py.changed /\ py'.reader = py.reader
          /\ py'.read = py.read
      BY <1>2, <2>1 DEF PyTypeOK
    <2>3. QED
      BY <2>2, PyQuiet
  <1>3. QED
    BY <1>1, <1>2 DEF CompareNames

\* Every step of the Python program keeps the invariant.
LEMMA PyStep ==
  ASSUME PyInv, [PyNext]_py PROVE PyInv'
  <1>1. CASE UNCHANGED py
    BY <1>1 DEF PyInv
  <1>2. CASE Raises
    BY <1>2, RaisesStep
  <1>3. CASE ObjectRaises \/ ObjectGivesChunk \/ ObjectEnds
    BY <1>3, ObjectRaisesStep, ObjectGivesChunkStep, ObjectEndsStep
  <1>4. ASSUME NEW private \in KeyTuples \cup {NoObject}, NEW public \in KeyTuples \cup {NoObject},
               NewWriterConfig(private, public)
        PROVE  PyInv'
    BY <1>4, NewWriterConfigStep
  <1>5. ASSUME NEW level, SetCompressionLevel(level) PROVE PyInv'
    BY <1>5, RaisesStep, CompressedStep DEF SetCompressionLevel
  <1>6. CASE SetWithoutCompression
    BY <1>6, CompressedStep DEF SetWithoutCompression
  <1>7. ASSUME NEW failing \in {"create", "header", "None"}, NewMLAWriter(failing) PROVE PyInv'
    BY <1>7, NewMLAWriterStep
  <1>8. ASSUME py.adding = NoObject, NEW name \in PyNames, NEW source \in {"empty", "whole"},
               SetItem(name, source)
        PROVE  PyInv'
    BY <1>8, SetItemStep
  <1>9. ASSUME py.adding = NoObject, NEW name \in PyNames, NEW opened, NEW source \in Sources,
               AddEntryFromPath(name, opened, source)
        PROVE  PyInv'
    BY <1>9, AddEntryFromPathStep
  <1>10. ASSUME py.adding = NoObject, NEW name \in PyNames, AddEntryFromObject(name) PROVE PyInv'
    BY <1>10, AddEntryFromObjectStep
  <1>11. ASSUME py.adding = NoObject, NEW exception, ExitWriter(exception) PROVE PyInv'
    BY <1>11, RaisesStep, FinalizeStep DEF ExitWriter
  <1>12. ASSUME py.adding = NoObject, FinalizeIfNotAlready PROVE PyInv'
    BY <1>12, FinalizeStep
  <1>13. ASSUME NEW config, NewMLAReader(config) PROVE PyInv'
    BY <1>13, NewMLAReaderStep
  <1>14. ASSUME NEW name \in PyNames, GetItem(name) \/ WriteEntryToObject(name) PROVE PyInv'
    BY <1>14, GetItemStep
  <1>15. ASSUME NEW same, CompareNames(same) PROVE PyInv'
    BY <1>15, CompareNamesStep
  <1>16. QED
    BY <1>1, <1>2, <1>3, <1>4, <1>5, <1>6, <1>7, <1>8, <1>9, <1>10, <1>11, <1>12, <1>13,
       <1>14, <1>15 DEF PyNext, AlreadyBorrowed, AddEntryFromOther, ListEntries, Raises

\* The invariant is enough for the property.
LEMMA PyInvOnce ==
  ASSUME PyInv PROVE PythonWriterOnce
  <1>1. PyTypeOK(py) /\ Sane(py.archive) /\ PyFinal(py)
    BY DEF PyInv
  <1>2. py.finalized \in {0, 1} /\ py.archive \in Writers(PyNames)
    BY <1>1, PyFields
  <1>3. py.finalized <= 1
    BY <1>2
  <1>4. ASSUME py.finalized = 1, ~py.reported, ~py.changed
        PROVE  /\ Complete(py.archive)
               /\ \A name \in DOMAIN py.given :
                    name \in Listed /\ ContentOf(name) = py.given[name]
               /\ py.read # NoObject => py.read.chunks = py.given[py.read.name]
    <2>1. Filled(py.archive, py.given) /\ ReadOK(py)
      BY <1>4 DEF PyInv, Clean
    <2>2. Complete(py.archive)
      <3>1. py.archive.open = {} /\ ~py.archive.torn /\ py.archive.sealed
        BY <1>1, <1>4, <2>1 DEF PyFinal, Filled
      <3>2. QED
        BY <1>1, <1>2, <3>1, SaneComplete
    <2>3. ASSUME NEW name \in DOMAIN py.given
          PROVE  name \in Listed /\ ContentOf(name) = py.given[name]
      <3>1. PICK i \in DOMAIN py.archive.names :
              py.archive.names[i] = name /\ Count(py.archive, i - 1) = py.given[name]
        BY <2>1 DEF Filled
      <3>2. name \in Listed
        BY <3>1 DEF Listed, Range
      <3>3. ContentOf(name) = Count(py.archive, i - 1)
        BY <1>1, <3>1, ContentFacts
      <3>4. QED
        BY <3>1, <3>2, <3>3
    <2>4. QED
      BY <2>1, <2>2, <2>3 DEF ReadOK
  <1>5. QED
    BY <1>1, <1>3, <1>4 DEF PythonWriterOnce, PyFinal

\* However a Python program's finalize calls, with statements and failing or
\* interrupted additions follow each other, its archive is finalized once at
\* most, and holds and gives back what the calls that returned were given:
\* MLAWriter and MLAReader of bindings/python, for any names, chunks and
\* writers.
THEOREM PythonWritesOnce == PySpec => []PythonWriterOnce
  <1>1. PyInit => PyInv
    BY PyStart
  <1>2. PyInv /\ [PyNext]_py => PyInv'
    BY PyStep
  <1>3. PyInv => PythonWriterOnce
    BY PyInvOnce
  <1>4. QED
    BY <1>1, <1>2, <1>3, PTL DEF PySpec
===============================================================================
